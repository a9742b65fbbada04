----------------------------- MODULE OrderStock -----------------------------
(***************************************************************************)
(* Orders, stock and coupon usage of the shop, at the granularity of the   *)
(* SQL statements its services send.                                       *)
(*                                                                         *)
(* Every HTTP request is a process.  Its database transaction runs under   *)
(* PostgreSQL's default READ COMMITTED isolation: a read never waits and   *)
(* sees the newest committed row (or the reader's own pending version); an *)
(* UPDATE or DELETE waits for the row's lock, keeps it until the           *)
(* transaction ends, and writes the value the service computed earlier.    *)
(***************************************************************************)
EXTENDS Integers, Sequences, FiniteSets, Functions

CONSTANTS
  Items,          \* stock rows: a products row, or a product_variants row
  Managed,        \* the items created with manageStock on
  InitQty,        \* quantity on hand when the model starts
  Carts,          \* item lists a checkout may carry
  AdjustQtys,     \* quantities a manual adjustment may set
  EditForms,      \* product and variant forms an admin may send
  CouponLimit,    \* usageLimitPerCoupon of the coupon, 0 when it has none
  NewStatuses,    \* statuses an admin may give an order
  Checkouts, Cancels, ItemCancels, StatusUpdates, Adjusts, Edits,  \* the requests
  NoOne           \* owner of a row nobody has locked

Requests ==
  Checkouts \cup Cancels \cup ItemCancels \cup StatusUpdates \cup Adjusts \cup Edits

Status == {"PENDING", "PROCESSING", "CONFIRMED", "COMPLETED", "DECLINED", "CANCELED",
           "REFUNDED", "PARTIALLY_REFUNDED", "ON_HOLD", "SHIPPED", "DELIVERED"}

CartLine == [item: Items, qty: Int]

\* What a product or variant form may say of its stock rows: a quantity (the line's),
\* inStock true or false, manageStock true or false; what it leaves out is kept.
FormFields == {"qty", "inStock", "outOfStock", "manage", "unmanage"}
Form == [cart: Seq(CartLine) \ {<<>>}, fields: SUBSET FormFields]

ASSUME KindsDisjoint ==
  /\ Checkouts \cap Cancels = {}
  /\ Checkouts \cap ItemCancels = {}
  /\ Checkouts \cap StatusUpdates = {}
  /\ Checkouts \cap Adjusts = {}
  /\ Cancels \cap ItemCancels = {}
  /\ Cancels \cap StatusUpdates = {}
  /\ Cancels \cap Adjusts = {}
  /\ ItemCancels \cap StatusUpdates = {}
  /\ ItemCancels \cap Adjusts = {}
  /\ StatusUpdates \cap Adjusts = {}
  /\ Edits \cap (Checkouts \cup Cancels \cup ItemCancels \cup StatusUpdates \cup Adjusts) = {}
  /\ NoOne \notin Requests
ASSUME CheckoutsFinite == IsFiniteSet(Checkouts)
ASSUME ManagedItems == Managed \subseteq Items
ASSUME InitQtyType == InitQty \in [Items -> Nat]
ASSUME CartsType ==
  /\ Carts \subseteq Seq(CartLine)
  /\ \A cart \in Carts : Len(cart) > 0 /\ \A k \in DOMAIN cart : cart[k].qty >= 1
ASSUME AdjustQtysType == AdjustQtys \subseteq Nat
ASSUME EditFormsType == EditForms \subseteq Form
ASSUME StatusesType == NewStatuses \subseteq Status
ASSUME CouponLimitType == CouponLimit \in Nat

VARIABLES
  stock,       \* committed stock row, with the history of its quantity
  draft,       \* uncommitted version of a stock row, meaningful while it is locked
  lock,        \* transaction that holds a stock row's lock
  ord,         \* committed orders; an order has the identity of its checkout
  ordLock,     \* transaction that holds an order row's lock
  used,        \* coupons.used
  couponLock,  \* transaction that holds the coupon row's lock
  pc,          \* where a request is
  job,         \* what a request was asked, with the order and lines it read
  todo,        \* lines a request has still to check or to write
  line,        \* line a request works on
  before,      \* quantity a request read for that line
  remaining,   \* lines an item cancellation found left
  withCoupon   \* the coupon is part of the checkout's calculation

vars == <<stock, draft, lock, ord, ordLock, used, couponLock,
          pc, job, todo, line, before, remaining, withCoupon>>
tables == <<stock, ord, used>>
rowLocks == <<draft, lock, ordLock, couponLock>>
locals == <<job, todo, line, before, remaining, withCoupon>>

Absent == "ABSENT"
NoOrder == [status |-> Absent, lines |-> {}, sub |-> {}, coupon |-> FALSE]
NoJob == [order |-> NoOne, cart |-> <<>>, status |-> Absent, fields |-> {}]

\* Three columns of the row, the sum of its inventory_logs, and its history: what
\* the product forms have put into qty; a write overtook a quantity that had been
\* read; manageStock was always on and no form entered a negative quantity; qty
\* and inStock were last written by the inventory service.
StockRow == [qty: Int, inStock: BOOLEAN, managed: BOOLEAN, logged: Int,
             formed: Int, lost: BOOLEAN, counted: BOOLEAN, recomputed: BOOLEAN]
OrderRow == [status: Status \cup {Absent}, lines: SUBSET Nat, sub: SUBSET Nat,
             coupon: BOOLEAN]
Job == [order: Checkouts \cup {NoOne}, cart: Seq(CartLine), status: Status \cup {Absent},
        fields: SUBSET FormFields]

InTransaction ==
  {"read", "refuse", "write", "edit", "coupon", "delete", "recount", "order", "commit"}
PC == InTransaction \cup {"idle", "validate", "load", "done", "failed"}

TypeOK ==
  /\ stock \in [Items -> StockRow]
  /\ draft \in [Items -> StockRow]
  /\ lock \in [Items -> Requests \cup {NoOne}]
  /\ ord \in [Checkouts -> OrderRow]
  /\ ordLock \in [Checkouts -> Requests \cup {NoOne}]
  /\ used \in Nat
  /\ couponLock \in Requests \cup {NoOne}
  /\ pc \in [Requests -> PC]
  /\ job \in [Requests -> Job]
  /\ todo \in [Requests -> SUBSET Nat]
  /\ line \in [Requests -> Nat]
  /\ before \in [Requests -> Int]
  /\ remaining \in [Requests -> SUBSET Nat]
  /\ withCoupon \in [Requests -> BOOLEAN]

\* A stock row as product creation stores it: the flag is the form's, whatever
\* the quantity.
CreatedRow(i, flag) ==
  [qty |-> InitQty[i], inStock |-> flag, managed |-> i \in Managed, logged |-> 0,
   formed |-> InitQty[i], lost |-> FALSE, counted |-> i \in Managed, recomputed |-> FALSE]

Init ==
  /\ \E flag \in [Items -> BOOLEAN] : stock = [i \in Items |-> CreatedRow(i, flag[i])]
  /\ draft = stock
  /\ lock = [i \in Items |-> NoOne]
  /\ ord = [o \in Checkouts |-> NoOrder]
  /\ ordLock = [o \in Checkouts |-> NoOne]
  /\ used = 0
  /\ couponLock = NoOne
  /\ pc = [r \in Requests |-> "idle"]
  /\ job = [r \in Requests |-> NoJob]
  /\ todo = [r \in Requests |-> {}]
  /\ line = [r \in Requests |-> 0]
  /\ before = [r \in Requests |-> 0]
  /\ remaining = [r \in Requests |-> {}]
  /\ withCoupon = [r \in Requests |-> FALSE]

-----------------------------------------------------------------------------
(* What a transaction sees, and what it would write. *)

\* Mutant of Seen: reads go past the transaction, to the committed row.
SeenCommitted(r, i) == stock[i]

\* The row as request r sees it: its own pending version, or the committed one.
Seen(r, i) == IF lock[i] = r THEN draft[i] ELSE stock[i]

\* The line request r works on, and its stock row.
Line(r) == job[r].cart[line[r]]
Item(r) == Line(r).item

\* checkAvailability for the regular (not flash-sale) stock of one line.
Available(l) ==
  /\ stock[l.item].inStock
  /\ stock[l.item].managed => stock[l.item].qty >= l.qty

\* Lines are deducted in the cart's order; the rows of a cancelled order come
\* back from the database in no stated order.
NextLines(r) ==
  IF r \in Checkouts THEN {k \in todo[r] : \A j \in todo[r] : k <= j} ELSE todo[r]

\* The quantity deductStock, manualAdjust and restoreStock write.
After(r) ==
  CASE r \in Checkouts -> before[r] - Line(r).qty
    [] r \in Adjusts   -> Line(r).qty
    [] OTHER           -> before[r] + Line(r).qty


\* Mutant of InStockAfter: manualAdjust sets the flag as restoreStock does.
InStockAfterAdjust(r) == r \in Cancels \cup ItemCancels \cup Adjusts \/ After(r) > 0

InStockAfter(r) == r \in Cancels \cup ItemCancels \/ After(r) > 0

\* Mutant of Rewritten: the log row of a deduction loses its sign.
RewrittenUnsigned(r) ==
  LET old == Seen(r, Item(r)) IN
  [old EXCEPT !.qty = After(r), !.inStock = InStockAfter(r), !.logged = @ + Line(r).qty,
              !.lost = @ \/ old.qty # before[r], !.recomputed = TRUE]

\* The new version of the stock row, and the log row that goes with it: "logged"
\* adds the log's quantity, "lost" remembers that the row no longer held the
\* quantity the request had read when it was overwritten.
Rewritten(r) ==
  LET old == Seen(r, Item(r)) IN
  [qty        |-> After(r),
   inStock    |-> InStockAfter(r),
   managed    |-> old.managed,
   logged     |-> old.logged + (After(r) - before[r]),
   formed     |-> old.formed,
   lost       |-> old.lost \/ old.qty # before[r],
   counted    |-> old.counted,
   recomputed |-> TRUE]

\* The row as a product or variant form leaves it: the flag is not derived from the
\* quantity, and there is no log row.
Edited(r) ==
  LET old     == Seen(r, Item(r))
      fields  == job[r].fields
      qty     == IF "qty" \in fields THEN Line(r).qty ELSE old.qty
      flag    == (old.inStock \/ "inStock" \in fields) /\ "outOfStock" \notin fields
      managed == (old.managed \/ "manage" \in fields) /\ "unmanage" \notin fields
  IN [qty        |-> qty,
      inStock    |-> flag,
      managed    |-> managed,
      logged     |-> old.logged,
      formed     |-> old.formed + (qty - old.qty),
      lost       |-> old.lost,
      counted    |-> old.counted /\ managed /\ qty >= 0,
      recomputed |-> old.recomputed /\ qty = old.qty /\ flag = old.inStock]

\* Where a request goes when its last stock row is written.
StockWritten(r) ==
  CASE r \in Checkouts   -> IF withCoupon[r] THEN "coupon" ELSE "commit"
    [] r \in ItemCancels -> "delete"
    [] r \in Cancels     -> "order"
    [] OTHER             -> "commit"

\* Request s has deleted line k of order o and has not committed.
Deleting(s, o, k) ==
  /\ s \in ItemCancels
  /\ pc[s] \in {"recount", "order", "commit"}
  /\ job[s].order = o /\ line[s] = k

\* r waits for a row lock that s holds.
WaitsFor(r, s) ==
  /\ r # s
  /\ \/ pc[r] \in {"write", "edit"} /\ lock[Item(r)] = s
     \/ pc[r] = "coupon" /\ couponLock = s
     \/ pc[r] = "order"  /\ ordLock[job[r].order] = s
     \/ pc[r] = "delete" /\ Deleting(s, job[r].order, line[r])

\* r is on a cycle of waiting transactions.
Waiting == {s \in Requests : \E t \in Requests : WaitsFor(s, t)}
InDeadlock(r) ==
  \E S \in SUBSET Waiting :
    /\ r \in S
    /\ \A s \in S : (\E t \in S : WaitsFor(s, t)) /\ (\E t \in S : WaitsFor(t, s))

\* No other transaction holds the row r is about to write.
Unblocked(r) == \A s \in Requests : ~WaitsFor(r, s)

-----------------------------------------------------------------------------
(* Before the transaction. *)

\* checkout is called with a list of items.
Checkout(c) ==
  /\ pc[c] = "idle"
  /\ \E cart \in Carts :
       /\ job' = [job EXCEPT ![c] = [order |-> c, cart |-> cart, status |-> "PENDING",
                                     fields |-> {}]]
       /\ todo' = [todo EXCEPT ![c] = DOMAIN cart]
  /\ pc' = [pc EXCEPT ![c] = "validate"]
  /\ UNCHANGED <<tables, rowLocks, line, before, remaining, withCoupon>>

\* validateAndResolveItems finds the next line available.
ValidateLine(c) ==
  /\ pc[c] = "validate"
  /\ \E k \in NextLines(c) :
       /\ Available(job[c].cart[k])
       /\ todo' = [todo EXCEPT ![c] = @ \ {k}]
  /\ UNCHANGED <<tables, rowLocks, pc, job, line, before, remaining, withCoupon>>

\* Mutant of Reject: the exception leaves the request in no final state.
RejectSilently(c) ==
  /\ pc[c] = "validate"
  /\ pc' = [pc EXCEPT ![c] = "rejected"]
  /\ UNCHANGED <<tables, rowLocks, locals>>

\* checkout throws before its transaction: a line is not available, a product,
\* an area, a shipping rule or the customer is missing.
Reject(c) ==
  /\ pc[c] = "validate"
  /\ pc' = [pc EXCEPT ![c] = "failed"]
  /\ UNCHANGED <<tables, rowLocks, locals>>

\* validateCoupon's usage-limit check; a limit of 0 (or none) never fails.
CouponUsable == CouponLimit = 0 \/ used < CouponLimit

\* All lines are available: calculate prices the order, with or without a coupon
\* code, a coupon that is not usable being ignored; the transaction begins.
Calculate(c) ==
  /\ pc[c] = "validate" /\ todo[c] = {}
  /\ \E hasCode \in BOOLEAN :
       withCoupon' = [withCoupon EXCEPT ![c] = hasCode /\ CouponUsable]
  /\ todo' = [todo EXCEPT ![c] = DOMAIN job[c].cart]
  /\ pc' = [pc EXCEPT ![c] = "read"]
  /\ UNCHANGED <<tables, rowLocks, job, line, before, remaining>>

\* cancelOrder, cancelOrderItem and updateStatus read the order outside their
\* transaction; the two cancellations go on only if it is PENDING.
ReadOrder(r, o) ==
  /\ pc[r] = "idle"
  /\ r \in Cancels \cup ItemCancels \cup StatusUpdates
  /\ ord[o].status # Absent
  /\ \/ /\ r \in StatusUpdates
        /\ \E st \in NewStatuses :
             job' = [job EXCEPT ![r] = [order |-> o, cart |-> <<>>, status |-> st,
                                        fields |-> {}]]
        /\ pc' = [pc EXCEPT ![r] = "order"]
     \/ /\ r \notin StatusUpdates
        /\ job' = [job EXCEPT ![r] = [order |-> o, cart |-> job[o].cart,
                                      status |-> "CANCELED", fields |-> {}]]
        /\ pc' = [pc EXCEPT ![r] = IF ord[o].status = "PENDING" THEN "load"
                                                               ELSE "failed"]
  /\ UNCHANGED <<tables, rowLocks, todo, line, before, remaining, withCoupon>>

\* The second query of "include: products": all remaining lines are to be
\* restored by cancelOrder, one of them by cancelOrderItem (404 if none).
LoadProducts(r) ==
  /\ pc[r] = "load"
  /\ LET lines == ord[job[r].order].lines IN
       \/ /\ r \in Cancels
          /\ todo' = [todo EXCEPT ![r] = lines]
          /\ pc' = [pc EXCEPT ![r] = IF lines = {} THEN "order" ELSE "read"]
       \/ /\ r \in ItemCancels
          /\ \E k \in lines : todo' = [todo EXCEPT ![r] = {k}]
          /\ pc' = [pc EXCEPT ![r] = "read"]
       \/ /\ r \in ItemCancels /\ lines = {}
          /\ pc' = [pc EXCEPT ![r] = "failed"]
          /\ UNCHANGED todo
  /\ UNCHANGED <<tables, rowLocks, job, line, before, remaining, withCoupon>>

\* manualAdjust is called with an item and its new quantity.
Adjust(a) ==
  /\ pc[a] = "idle"
  /\ \E i \in Items, q \in AdjustQtys :
       job' = [job EXCEPT ![a] = [order |-> NoOne, cart |-> <<[item |-> i, qty |-> q]>>,
                                  status |-> Absent, fields |-> {}]]
  /\ todo' = [todo EXCEPT ![a] = {1}]
  /\ pc' = [pc EXCEPT ![a] = "read"]
  /\ UNCHANGED <<tables, rowLocks, line, before, remaining, withCoupon>>

\* update of a product, updateVariant or bulkEditVariants is called: a form that
\* names one stock row, or every variant of a product.
EditProduct(e) ==
  /\ pc[e] = "idle"
  /\ \E form \in EditForms : \E k \in DOMAIN form.cart :
       /\ job' = [job EXCEPT ![e] = [order |-> NoOne, cart |-> form.cart, status |-> Absent,
                                     fields |-> form.fields]]
       /\ todo' = [todo EXCEPT ![e] = DOMAIN form.cart]
       /\ line' = [line EXCEPT ![e] = k]
  /\ pc' = [pc EXCEPT ![e] = "edit"]
  /\ UNCHANGED <<tables, rowLocks, before, remaining, withCoupon>>

-----------------------------------------------------------------------------
(* The end of a transaction. *)

\* Mutant of Rollback: the stock rows stay locked.
RollbackKeepsLocks(r) ==
  /\ pc' = [pc EXCEPT ![r] = "failed"]
  /\ UNCHANGED <<tables, rowLocks, locals>>

\* Everything r wrote is undone and its row locks are free; the request fails.
Rollback(r) ==
  /\ lock' = [i \in Items |-> IF lock[i] = r THEN NoOne ELSE lock[i]]
  /\ ordLock' = [o \in Checkouts |-> IF ordLock[o] = r THEN NoOne ELSE ordLock[o]]
  /\ couponLock' = IF couponLock = r THEN NoOne ELSE couponLock
  /\ pc' = [pc EXCEPT ![r] = "failed"]
  /\ UNCHANGED <<tables, draft, locals>>

\* Mutant of OrderAfter: a cancellation writes back the lines it has counted.
OrderAfterStale(r, o) ==
  CASE r \in Checkouts ->
         [status |-> "PENDING", lines |-> DOMAIN job[r].cart, sub |-> DOMAIN job[r].cart,
          coupon |-> withCoupon[r]]
    [] r \in ItemCancels ->
         [status |-> IF remaining[r] = {} THEN "CANCELED" ELSE ord[o].status,
          lines |-> remaining[r], sub |-> remaining[r], coupon |-> ord[o].coupon]
    [] OTHER -> [ord[o] EXCEPT !.status = job[r].status]

\* The order row as request r leaves it.
OrderAfter(r, o) ==
  CASE r \in Checkouts ->
         [status |-> "PENDING", lines |-> DOMAIN job[r].cart, sub |-> DOMAIN job[r].cart,
          coupon |-> withCoupon[r]]
    [] r \in ItemCancels ->
         [status |-> IF remaining[r] = {} THEN "CANCELED" ELSE ord[o].status,
          lines |-> ord[o].lines \ {line[r]}, sub |-> remaining[r],
          coupon |-> ord[o].coupon]
    [] OTHER -> [ord[o] EXCEPT !.status = job[r].status]

\* Commit: the pending versions become the rows, and the locks are free.  The
\* rows a checkout inserts (order, lines, taxes, history) are seen by nobody
\* before this step, so they appear here.
Commit(r) ==
  /\ pc[r] = "commit"
  /\ stock' = [i \in Items |-> IF lock[i] = r THEN draft[i] ELSE stock[i]]
  /\ ord' = IF r \in Adjusts \cup Edits THEN ord
            ELSE [ord EXCEPT ![job[r].order] = OrderAfter(r, job[r].order)]
  /\ used' = IF couponLock = r THEN used + 1 ELSE used
  /\ lock' = [i \in Items |-> IF lock[i] = r THEN NoOne ELSE lock[i]]
  /\ ordLock' = [o \in Checkouts |-> IF ordLock[o] = r THEN NoOne ELSE ordLock[o]]
  /\ couponLock' = IF couponLock = r THEN NoOne ELSE couponLock
  /\ pc' = [pc EXCEPT ![r] = "done"]
  /\ UNCHANGED <<draft, locals>>

\* The transaction is given up from outside: Prisma's interactive-transaction
\* timeout, a lost connection, a crash of the process.
Timeout(r) == pc[r] \in InTransaction /\ Rollback(r)

\* PostgreSQL's deadlock detector picks a victim.
DeadlockVictim(r) == InDeadlock(r) /\ Rollback(r)

-----------------------------------------------------------------------------
(* Inside the transaction. *)

\* Mutant of Sufficient: off by one at the last unit.
SufficientOffByOne(r, row, qty) == r \in Checkouts /\ row.managed => row.qty + 1 >= qty

\* deductStock's guard, on the row it has read; restoreStock and manualAdjust have none.
Sufficient(r, row, qty) == r \in Checkouts /\ row.managed => row.qty >= qty

\* getCurrentQtyTx for the next line, with the decision that rests on it.
ReadStock(r) ==
  /\ pc[r] = "read"
  /\ \E k \in NextLines(r) :
       LET row == Seen(r, job[r].cart[k].item) IN
         /\ line' = [line EXCEPT ![r] = k]
         /\ before' = [before EXCEPT ![r] = row.qty]
         /\ pc' = [pc EXCEPT ![r] =
                     IF Sufficient(r, row, job[r].cart[k].qty) THEN "write" ELSE "refuse"]
  /\ UNCHANGED <<tables, rowLocks, job, todo, remaining, withCoupon>>

\* deductStock throws "Insufficient stock": the whole checkout is rolled back.
InsufficientStock(r) == pc[r] = "refuse" /\ Rollback(r)

\* deductStock, restoreStock or manualAdjust overwrites the row with the value
\* computed from the earlier read, and inserts the log row.
WriteStock(r) ==
  /\ pc[r] = "write"
  /\ Unblocked(r)
  /\ lock' = [lock EXCEPT ![Item(r)] = r]
  /\ draft' = [draft EXCEPT ![Item(r)] = Rewritten(r)]
  /\ todo' = [todo EXCEPT ![r] = @ \ {line[r]}]
  /\ pc' = [pc EXCEPT ![r] = IF todo[r] = {line[r]} THEN StockWritten(r) ELSE "read"]
  /\ UNCHANGED <<tables, ordLock, couponLock, job, line, before, remaining, withCoupon>>

\* product.update, productVariant.update or updateMany writes one row, then the
\* next one in the database's order; the statement (or update's transaction) keeps
\* the locks until it commits.
EditStock(r) ==
  /\ pc[r] = "edit"
  /\ Unblocked(r)
  /\ lock' = [lock EXCEPT ![Item(r)] = r]
  /\ draft' = [draft EXCEPT ![Item(r)] = Edited(r)]
  /\ todo' = [todo EXCEPT ![r] = @ \ {line[r]}]
  /\ \/ /\ todo[r] = {line[r]}
        /\ pc' = [pc EXCEPT ![r] = "commit"]
        /\ UNCHANGED line
     \/ /\ \E k \in todo[r] \ {line[r]} : line' = [line EXCEPT ![r] = k]
        /\ UNCHANGED pc
  /\ UNCHANGED <<tables, ordLock, couponLock, job, before, remaining, withCoupon>>

\* Mutant of IncrementUsage: the counter is written without the row's lock.
IncrementUsageUnlocked(c) ==
  /\ pc[c] = "coupon"
  /\ couponLock' = c
  /\ pc' = [pc EXCEPT ![c] = "commit"]
  /\ UNCHANGED <<tables, draft, lock, ordLock, locals>>

\* checkout step 6f: used = used + 1, computed by the database.
IncrementUsage(c) ==
  /\ pc[c] = "coupon"
  /\ Unblocked(c)
  /\ couponLock' = c
  /\ pc' = [pc EXCEPT ![c] = "commit"]
  /\ UNCHANGED <<tables, draft, lock, ordLock, locals>>

\* Mutant of DeleteLine: deleteMany, which does not mind a missing row.
DeleteLineMany(r) ==
  /\ pc[r] = "delete"
  /\ Unblocked(r)
  /\ pc' = [pc EXCEPT ![r] = "recount"]
  /\ UNCHANGED <<tables, rowLocks, locals>>

\* cancelOrderItem deletes its line; Prisma throws if the row is gone.
DeleteLine(r) ==
  /\ pc[r] = "delete"
  /\ Unblocked(r)
  /\ line[r] \in ord[job[r].order].lines
  /\ pc' = [pc EXCEPT ![r] = "recount"]
  /\ UNCHANGED <<tables, rowLocks, locals>>

LineGone(r) ==
  /\ pc[r] = "delete"
  /\ Unblocked(r)
  /\ line[r] \notin ord[job[r].order].lines
  /\ Rollback(r)

\* Mutant of Recount: the query filters on the line instead of the order.
RecountLine(r) ==
  /\ pc[r] = "recount"
  /\ remaining' = [remaining EXCEPT ![r] = {}]
  /\ pc' = [pc EXCEPT ![r] = "order"]
  /\ UNCHANGED <<tables, rowLocks, job, todo, line, before, withCoupon>>

\* The lines the transaction finds left, from which subTotal and total follow.
Recount(r) ==
  /\ pc[r] = "recount"
  /\ remaining' = [remaining EXCEPT ![r] = ord[job[r].order].lines \ {line[r]}]
  /\ pc' = [pc EXCEPT ![r] = "order"]
  /\ UNCHANGED <<tables, rowLocks, job, todo, line, before, withCoupon>>

\* tx.order.update and the history row; what is written is OrderAfter.
WriteOrder(r) ==
  /\ pc[r] = "order"
  /\ Unblocked(r)
  /\ ordLock' = [ordLock EXCEPT ![job[r].order] = r]
  /\ pc' = [pc EXCEPT ![r] = "commit"]
  /\ UNCHANGED <<tables, draft, lock, couponLock, locals>>

-----------------------------------------------------------------------------
\* What a request does once it is being served.
Step(r) ==
  \/ ValidateLine(r) \/ Reject(r) \/ Calculate(r) \/ LoadProducts(r)
  \/ ReadStock(r) \/ InsufficientStock(r) \/ WriteStock(r) \/ EditStock(r)
  \/ IncrementUsage(r) \/ DeleteLine(r) \/ LineGone(r) \/ Recount(r)
  \/ WriteOrder(r) \/ Commit(r) \/ DeadlockVictim(r)

\* A request may arrive, or never.
Arrive(r) ==
  \/ r \in Checkouts /\ Checkout(r)
  \/ r \in Adjusts /\ Adjust(r)
  \/ r \in Edits /\ EditProduct(r)
  \/ \E o \in Checkouts : ReadOrder(r, o)

\* Nothing is left to do: the server waits for requests that may never come.
Quiet ==
  /\ \A r \in Requests : pc[r] \in {"idle", "done", "failed"}
  /\ UNCHANGED vars

Next == (\E r \in Requests : Step(r) \/ Arrive(r) \/ Timeout(r)) \/ Quiet

Spec == Init /\ [][Next]_vars

\* Node runs every request it has accepted, and PostgreSQL grants free locks and
\* breaks deadlocks.
FairSpec == Spec /\ \A r \in Requests : WF_vars(Step(r))

-----------------------------------------------------------------------------
(* What holds. *)

\* A row whose stock has always been counted (manageStock never off, no negative
\* number in a form) is never oversold below zero, whatever checkouts,
\* cancellations, adjustments and product edits overlap: the check and the write
\* of deductStock rest on one read, and restoreStock and manualAdjust have no check.
ManagedNonNegative == \A i \in Items : stock[i].counted => stock[i].qty >= 0

\* Product forms store the flag and the quantity apart; from the moment the inventory
\* service has rewritten a counted row until the next form, inStock, which the
\* storefront and checkAvailability trust, says whether there are units left,
\* although restoreStock sets it blindly.
InStockTruthful ==
  \A i \in Items :
    stock[i].counted /\ stock[i].recomputed => (stock[i].inStock <=> stock[i].qty > 0)

\* coupons.used is the number of orders placed with the coupon: no increment is
\* lost between concurrent checkouts, none is left by a checkout that failed.
CouponUsedExact == used = Cardinality({o \in Checkouts : ord[o].coupon})

\* The subTotal of an order covers every line still in it, even when several
\* cancelOrderItem calls recompute it from lines they cannot all see.
NeverUndercharged == \A o \in Checkouts : ord[o].lines \subseteq ord[o].sub

\* The log and what product forms have entered (which no log row records) together
\* account for every unit of the row, unless a write of the inventory service
\* overtook a quantity somebody else had read (deductStock, restoreStock,
\* manualAdjust).
LedgerExplainsStock ==
  \A i \in Items : ~stock[i].lost => stock[i].qty = stock[i].formed + stock[i].logged

\* Units of item i that each line of order o asks for, and that all its lines ask for.
Units(o, i) ==
  [k \in DOMAIN job[o].cart |-> IF job[o].cart[k].item = i THEN job[o].cart[k].qty ELSE 0]
Ordered(o, i) == SumFunctionOnSet(Units(o, i), DOMAIN job[o].cart)

\* An order appears in the very step in which all its lines are deducted in the
\* log, also when two lines name the same item (checkout's transaction).
PlacedOrderCharged ==
  [][\A o \in Checkouts :
       ord[o].status = Absent /\ ord'[o].status # Absent =>
         \A i \in Items : stock'[i].logged = stock[i].logged - Ordered(o, i)]_vars

\* A line is cancelled by at most one cancelOrderItem: when one commits, the line
\* was still in the order, so its units come back once by this way.
ItemCancelledOnce ==
  [][\A r \in ItemCancels :
       pc[r] = "commit" /\ pc'[r] = "done" => line[r] \in ord[job[r].order].lines]_vars

\* Every request the server has accepted is answered: no wait for a row lock, and
\* no cycle of waits, lasts for ever.
EveryRequestEnds ==
  \A r \in Requests : pc[r] # "idle" ~> pc[r] \in {"done", "failed"}

-----------------------------------------------------------------------------
(* What the order table promises: OrderBook, which this module implements. *)

Book == INSTANCE OrderBook WITH Orders <- Checkouts, book <- ord

\* Although every request works on rows it read before, and several of its
\* statements run between those of others, the order table and the coupon
\* counter only change by the three steps of OrderBook: an order appears whole,
\* loses one line at a time and never gets one back, and keeps its coupon
\* (checkout, cancelOrder, cancelOrderItem, updateStatus).
ImplementsOrderBook == Book!Spec

-----------------------------------------------------------------------------
(* The inductive invariant of the safety properties above. *)

\* A request past its first step works on an existing order, with that order's cart.
JobsOK ==
  \A r \in Requests :
    /\ pc[r] \in {"validate", "read"} => todo[r] \subseteq DOMAIN job[r].cart
    /\ pc[r] \in {"write", "edit"} =>
         line[r] \in DOMAIN job[r].cart /\ todo[r] \subseteq DOMAIN job[r].cart
    /\ r \notin Adjusts \cup Edits => \A k \in DOMAIN job[r].cart : job[r].cart[k].qty >= 1
    /\ r \in Adjusts => \A k \in DOMAIN job[r].cart : job[r].cart[k].qty >= 0
    /\ pc[r] = "edit" => r \in Edits
    /\ r \in Edits => pc[r] \in {"idle", "edit", "commit", "done", "failed"}
    /\ r \in Checkouts /\ pc[r] # "idle" => job[r].order = r /\ job[r].cart # <<>>
    /\ r \in Cancels \cup ItemCancels /\ pc[r] # "idle" =>
         /\ job[r].order \in Checkouts /\ ord[job[r].order].status # Absent
         /\ job[r].cart = job[job[r].order].cart
    /\ r \in StatusUpdates /\ pc[r] # "idle" =>
         job[r].order \in Checkouts /\ ord[job[r].order].status # Absent
    /\ r \in Cancels \cup ItemCancels \cup StatusUpdates /\ pc[r] # "idle" =>
         job[r].status \in Status
    /\ pc[r] = "order" => r \notin Checkouts \cup Adjusts \cup Edits
    /\ pc[r] \in {"delete", "recount"} => r \in ItemCancels

\* An order exists exactly when its checkout has committed.
OrdersOK ==
  \A o \in Checkouts :
    /\ ord[o].status # Absent => pc[o] = "done"
    /\ ord[o].status = Absent => ord[o] = NoOrder
    /\ ord[o].lines \subseteq DOMAIN job[o].cart

\* Committed and pending versions of a row, and the quantity a request has read of it
\* and found enough; a row that is not counted any more never is again.
RowOK(row) ==
  /\ row.counted => row.managed /\ row.qty >= 0
  /\ row.counted /\ row.recomputed => (row.inStock <=> row.qty > 0)
StockOK ==
  /\ \A i \in Items :
       /\ RowOK(stock[i])
       /\ lock[i] # NoOne => RowOK(draft[i]) /\ (draft[i].counted => stock[i].counted)
  /\ \A r \in Requests :
       pc[r] = "write" /\ Seen(r, Item(r)).counted =>
         before[r] >= 0 /\ (r \in Checkouts => before[r] >= Line(r).qty)

\* The coupon row is locked by the one checkout that is about to commit with it.
CouponOK ==
  /\ CouponUsedExact
  /\ couponLock # NoOne =>
       /\ couponLock \in Checkouts /\ withCoupon[couponLock] /\ pc[couponLock] = "commit"
  /\ \A c \in Checkouts : pc[c] = "commit" /\ withCoupon[c] => couponLock = c
  /\ \A r \in Requests : pc[r] = "coupon" => r \in Checkouts /\ withCoupon[r]

\* An item cancellation has counted at least the lines that will be left.
TotalsOK ==
  /\ NeverUndercharged
  /\ \A r \in ItemCancels : pc[r] \in {"order", "commit"} =>
       ord[job[r].order].lines \ {line[r]} \subseteq remaining[r]

\* Forms and log account for a committed or pending row no write of which was overtaken.
Accounted(row) == ~row.lost => row.qty = row.formed + row.logged
LedgerOK ==
  \A i \in Items : Accounted(stock[i]) /\ (lock[i] # NoOne => Accounted(draft[i]))

\* A deleted line is in the order until the deletion commits, and nobody else deletes it.
DeletionOK ==
  \A r \in ItemCancels : pc[r] \in {"recount", "order", "commit"} =>
    /\ line[r] \in ord[job[r].order].lines
    /\ \A s \in ItemCancels : s # r => ~Deleting(s, job[r].order, line[r])

\* What a checkout has taken in its transaction is what its lines done so far ask for; whoever
\* holds a stock row is in a transaction.  (With IInv, for PlacedOrderCharged.)
ChargesOK ==
  /\ \A i \in Items : lock[i] # NoOne => pc[lock[i]] \in InTransaction
  /\ \A o \in Checkouts :
       /\ pc[o] = "write" => line[o] \in todo[o]
       /\ pc[o] \in {"coupon", "commit"} => todo[o] = {}
       /\ pc[o] \in InTransaction => \A i \in Items :
            Seen(o, i).logged =
              stock[i].logged - SumFunctionOnSet(Units(o, i), DOMAIN job[o].cart \ todo[o])

IInv ==
  TypeOK /\ JobsOK /\ OrdersOK /\ StockOK /\ CouponOK /\ TotalsOK /\ LedgerOK /\ DeletionOK

-----------------------------------------------------------------------------
(* What the source says and the code does not keep. *)

\* order.service.ts:83-84, "Step 6: ATOMIC TRANSACTION ... Deduct inventory for
\* every line item": all logged changes of a row are in its quantity.
StockConserved == \A i \in Items : stock[i].qty = stock[i].formed + stock[i].logged

\* create-coupon.dto.ts:84, "Total usage limit for this coupon".
CouponWithinLimit == CouponLimit > 0 => used <= CouponLimit

=============================================================================
