------------------------- MODULE OrderStock_proofs -------------------------
(***************************************************************************)
(* The safety invariants of OrderStock hold for every set of requests,     *)
(* items, carts and limits: IInv is inductive and implies each of them.    *)
(***************************************************************************)
EXTENDS OrderStock, SequenceTheorems, SumTheorems

USE DEF Requests, tables, rowLocks, locals

\* Every request starts idle, nothing is locked, and the stock is truthful.
LEMMA InitInv == Init => IInv
<1> SUFFICES ASSUME Init PROVE IInv
  OBVIOUS
<1> USE DEF Init
<1>0. PICK flag \in [Items -> BOOLEAN] : stock = [i \in Items |-> CreatedRow(i, flag[i])]
  OBVIOUS
<1>1. TypeOK
  BY <1>0, InitQtyType DEF TypeOK, CreatedRow, StockRow, OrderRow, Job, NoOrder, NoJob, Absent, PC,
                     InTransaction, Status, CartLine
<1>2. JobsOK
  BY DEF JobsOK, NoJob
<1>3. OrdersOK
  BY DEF OrdersOK, NoOrder, NoJob, Absent
<1>4. StockOK
  <2>1. \A i \in Items : RowOK(stock[i]) /\ lock[i] = NoOne
    BY <1>0, InitQtyType DEF RowOK, CreatedRow
  <2>2. \A r \in Requests : pc[r] # "write"
    OBVIOUS
  <2> QED
    BY <2>1, <2>2 DEF StockOK
<1>5. CouponOK
  <2>1. {o \in Checkouts : ord[o].coupon} = {}
    BY DEF NoOrder
  <2>2. CouponUsedExact
    BY <2>1, FS_EmptySet DEF CouponUsedExact
  <2> QED
    BY <2>2 DEF CouponOK
<1>6. TotalsOK
  BY DEF TotalsOK, NeverUndercharged, NoOrder
<1>7. LedgerOK
  BY <1>0, InitQtyType DEF LedgerOK, Accounted, CreatedRow
<1>8. DeletionOK
  BY KindsDisjoint DEF DeletionOK
<1> QED
  BY <1>1, <1>2, <1>3, <1>4, <1>5, <1>6, <1>7, <1>8 DEF IInv

-----------------------------------------------------------------------------
(* Before the transaction. *)

LEMMA CheckoutInv ==
  ASSUME IInv, NEW c \in Checkouts, Checkout(c) PROVE IInv'
<1> USE DEF IInv, Checkout
<1>1. PICK cart \in Carts :
        /\ job' = [job EXCEPT ![c] = [order |-> c, cart |-> cart, status |-> "PENDING",
                                      fields |-> {}]]
        /\ todo' = [todo EXCEPT ![c] = DOMAIN cart]
  OBVIOUS
<1>2. cart \in Seq(CartLine) /\ cart # <<>> /\ \A k \in DOMAIN cart : cart[k].qty >= 1
  BY CartsType
<1>3. TypeOK'
  BY <1>1, <1>2 DEF TypeOK, Job, PC, InTransaction, Status
<1>4. JobsOK'
  BY <1>1, <1>2, KindsDisjoint DEF TypeOK, JobsOK, OrdersOK, Job
<1>5. OrdersOK'
  BY <1>1, KindsDisjoint DEF TypeOK, OrdersOK, NoOrder
<1>6. StockOK'
  BY <1>1 DEF TypeOK, StockOK, RowOK, Item, Line, Seen
<1>7. CouponOK'
  BY <1>1 DEF TypeOK, CouponOK, CouponUsedExact
<1>8. TotalsOK'
  BY <1>1, KindsDisjoint DEF TypeOK, TotalsOK, NeverUndercharged
<1>9. LedgerOK'
  BY DEF TypeOK, LedgerOK, Accounted
<1>10. DeletionOK'
  BY KindsDisjoint DEF TypeOK, DeletionOK, Deleting
<1> QED
  BY <1>3, <1>4, <1>5, <1>6, <1>7, <1>8, <1>9, <1>10

LEMMA ValidateLineInv ==
  ASSUME IInv, NEW c \in Requests, ValidateLine(c) PROVE IInv'
<1> USE DEF IInv, ValidateLine
<1>1. TypeOK'
  BY DEF TypeOK
<1>2. JobsOK'
  BY DEF TypeOK, JobsOK
<1>3. OrdersOK'
  BY DEF TypeOK, OrdersOK
<1>4. StockOK'
  BY DEF StockOK, RowOK, Item, Line, Seen
<1>5. CouponOK'
  BY DEF CouponOK, CouponUsedExact
<1>6. TotalsOK'
  BY DEF TotalsOK, NeverUndercharged
<1>7. LedgerOK'
  BY DEF TypeOK, LedgerOK, Accounted
<1>8. DeletionOK'
  BY KindsDisjoint DEF TypeOK, DeletionOK, Deleting
<1> QED
  BY <1>1, <1>2, <1>3, <1>4, <1>5, <1>6, <1>7, <1>8

LEMMA RejectInv ==
  ASSUME IInv, NEW c \in Requests, Reject(c) PROVE IInv'
<1> USE DEF IInv, Reject
<1>1. TypeOK'
  BY DEF TypeOK, PC
<1>2. JobsOK'
  BY DEF TypeOK, JobsOK
<1>3. OrdersOK'
  BY DEF TypeOK, OrdersOK
<1>4. StockOK'
  BY DEF TypeOK, StockOK, RowOK, Item, Line, Seen
<1>5. CouponOK'
  BY DEF TypeOK, CouponOK, CouponUsedExact
<1>6. TotalsOK'
  BY DEF TypeOK, TotalsOK, NeverUndercharged
<1>7. LedgerOK'
  BY DEF TypeOK, LedgerOK, Accounted
<1>8. DeletionOK'
  BY KindsDisjoint DEF TypeOK, DeletionOK, Deleting
<1> QED
  BY <1>1, <1>2, <1>3, <1>4, <1>5, <1>6, <1>7, <1>8

LEMMA CalculateInv ==
  ASSUME IInv, NEW c \in Requests, Calculate(c) PROVE IInv'
<1> USE DEF IInv, Calculate
<1>1. TypeOK'
  <2>1. withCoupon' \in [Requests -> BOOLEAN]
    BY DEF TypeOK
  <2>2. todo' \in [Requests -> SUBSET Nat]
    BY DEF TypeOK, Job
  <2> QED
    BY <2>1, <2>2 DEF TypeOK, PC, InTransaction
<1>2. JobsOK'
  BY DEF TypeOK, JobsOK
<1>3. OrdersOK'
  BY DEF TypeOK, OrdersOK
<1>4. StockOK'
  BY DEF TypeOK, StockOK, RowOK, Item, Line, Seen
<1>5. CouponOK'
  <2>1. \A r \in Requests \ {c} : withCoupon'[r] = withCoupon[r] /\ pc'[r] = pc[r]
    BY DEF TypeOK
  <2>2. pc'[c] = "read" /\ couponLock # c
    BY KindsDisjoint DEF TypeOK, CouponOK
  <2> QED
    BY <2>1, <2>2 DEF CouponOK, CouponUsedExact, TypeOK
<1>6. TotalsOK'
  BY DEF TypeOK, TotalsOK, NeverUndercharged
<1>7. LedgerOK'
  BY DEF TypeOK, LedgerOK, Accounted
<1>8. DeletionOK'
  BY KindsDisjoint DEF TypeOK, DeletionOK, Deleting
<1> QED
  BY <1>1, <1>2, <1>3, <1>4, <1>5, <1>6, <1>7, <1>8

LEMMA ReadOrderInv ==
  ASSUME IInv, NEW r \in Requests, NEW o \in Checkouts, ReadOrder(r, o) PROVE IInv'
<1> USE DEF IInv, ReadOrder
<1>1. PICK st \in NewStatuses \cup {"CANCELED"}, cart \in {<<>>, job[o].cart}, next \in {"order", "load", "failed"} :
        /\ job' = [job EXCEPT ![r] = [order |-> o, cart |-> cart, status |-> st, fields |-> {}]]
        /\ pc' = [pc EXCEPT ![r] = next]
        /\ r \notin StatusUpdates => cart = job[o].cart
        /\ next = "order" => r \in StatusUpdates
        /\ r \in StatusUpdates => cart = <<>>
  OBVIOUS
<1>2. r \notin Checkouts \cup Adjusts \cup Edits
  BY KindsDisjoint
<1>3. st \in Status /\ cart \in Seq(CartLine)
  <2>1. st \in Status
    BY StatusesType DEF Status
  <2>2. job[o].cart \in Seq(CartLine)
    BY DEF TypeOK, Job
  <2>3. <<>> \in Seq(CartLine)
    BY EmptySeq
  <2> QED
    BY <2>1, <2>2, <2>3
<1>4. TypeOK'
  BY <1>1, <1>3 DEF TypeOK, Job, PC, InTransaction
<1>5. \A k \in DOMAIN cart : cart[k].qty >= 1
  BY <1>1, KindsDisjoint DEF JobsOK
<1>6. JobsOK'
  <2> SUFFICES ASSUME NEW q \in Requests
               PROVE  JobsOK!(q)'
    BY DEF JobsOK
  <2>1. CASE q = r
    <3>1. job'[r] = [order |-> o, cart |-> cart, status |-> st, fields |-> {}] /\ pc'[r] = next
      BY <1>1 DEF TypeOK
    <3>2. job'[o] = job[o]
      BY <1>1, <1>2 DEF TypeOK
    <3>3. r \in Cancels \cup ItemCancels => cart = job[o].cart
      BY <1>1, KindsDisjoint
    <3> QED
      BY <2>1, <3>1, <3>2, <3>3, <1>1, <1>2, <1>3, <1>5 DEF JobsOK
  <2>2. CASE q # r
    BY <2>2, <1>1, <1>2 DEF TypeOK, JobsOK
  <2> QED
    BY <2>1, <2>2
<1>7. OrdersOK'
  BY <1>1, <1>2 DEF TypeOK, OrdersOK
<1>8. StockOK'
  BY <1>1 DEF TypeOK, StockOK, RowOK, Item, Line, Seen
<1>9. CouponOK'
  BY <1>1 DEF TypeOK, CouponOK, CouponUsedExact
<1>10. TotalsOK'
  BY <1>1, KindsDisjoint DEF TypeOK, TotalsOK, NeverUndercharged
<1>11. LedgerOK'
  BY DEF TypeOK, LedgerOK, Accounted
<1>12. DeletionOK'
  <2>1. \A q \in Requests \ {r} : job'[q] = job[q] /\ pc'[q] = pc[q]
    BY <1>1 DEF TypeOK
  <2>2. pc'[r] \notin {"recount", "commit"} /\ (pc'[r] = "order" => r \notin ItemCancels)
    BY <1>1, KindsDisjoint DEF TypeOK
  <2> QED
    BY <2>1, <2>2 DEF DeletionOK, Deleting
<1> QED
  BY <1>4, <1>6, <1>7, <1>8, <1>9, <1>10, <1>11, <1>12

LEMMA LoadProductsInv ==
  ASSUME IInv, NEW r \in Requests, LoadProducts(r) PROVE IInv'
<1> USE DEF IInv, LoadProducts
<1> DEFINE lines == ord[job[r].order].lines
<1>1. /\ todo' = [todo EXCEPT ![r] = todo'[r]] /\ todo'[r] \in SUBSET Nat
      /\ pc' = [pc EXCEPT ![r] = pc'[r]] /\ pc'[r] \in {"order", "read", "failed"}
      /\ pc'[r] = "read" => todo'[r] \subseteq lines
      /\ pc'[r] = "order" => r \in Cancels
  <2>1. r \in Cancels \cup ItemCancels => lines \in SUBSET Nat
    BY DEF TypeOK, JobsOK, OrderRow
  <2>2. CASE r \in Cancels
    BY <2>1, <2>2, KindsDisjoint DEF TypeOK
  <2>3. ASSUME r \in ItemCancels, NEW k \in lines, todo' = [todo EXCEPT ![r] = {k}],
               pc' = [pc EXCEPT ![r] = "read"]
        PROVE  /\ todo' = [todo EXCEPT ![r] = todo'[r]] /\ todo'[r] \in SUBSET Nat
               /\ pc' = [pc EXCEPT ![r] = pc'[r]] /\ pc'[r] \in {"order", "read", "failed"}
               /\ pc'[r] = "read" => todo'[r] \subseteq lines
               /\ pc'[r] = "order" => r \in Cancels
    BY <2>1, <2>3 DEF TypeOK
  <2>4. CASE UNCHANGED todo /\ pc' = [pc EXCEPT ![r] = "failed"]
    BY <2>4 DEF TypeOK
  <2> QED
    BY <2>2, <2>3, <2>4
<1>2. r \in Cancels \cup ItemCancels /\ r \notin Checkouts \cup Adjusts \cup Edits \cup StatusUpdates
  BY KindsDisjoint
<1>3. TypeOK'
  BY <1>1 DEF TypeOK, PC, InTransaction
<1>4. JobsOK'
  <2>1. ord[job[r].order].lines \subseteq DOMAIN job[r].cart
    BY <1>2 DEF JobsOK, OrdersOK
  <2>2. \A q \in Requests \ {r} : todo'[q] = todo[q] /\ pc'[q] = pc[q]
    BY <1>1 DEF TypeOK
  <2> SUFFICES ASSUME NEW q \in Requests PROVE JobsOK!(q)'
    BY DEF JobsOK
  <2>3. CASE q = r
    BY <2>3, <2>1, <1>1, <1>2 DEF JobsOK
  <2>4. CASE q # r
    BY <2>4, <2>2 DEF JobsOK
  <2> QED
    BY <2>3, <2>4
<1>5. OrdersOK'
  BY <1>1, <1>2 DEF TypeOK, OrdersOK
<1>6. StockOK'
  BY <1>1 DEF TypeOK, StockOK, RowOK, Item, Line, Seen
<1>7. CouponOK'
  BY <1>1, <1>2 DEF TypeOK, CouponOK, CouponUsedExact
<1>8. TotalsOK'
  BY <1>1, <1>2, KindsDisjoint DEF TypeOK, TotalsOK, NeverUndercharged
<1>9. LedgerOK'
  BY DEF TypeOK, LedgerOK, Accounted
<1>10. DeletionOK'
  BY KindsDisjoint DEF TypeOK, DeletionOK, Deleting
<1> QED
  BY <1>3, <1>4, <1>5, <1>6, <1>7, <1>8, <1>9, <1>10

LEMMA AdjustInv ==
  ASSUME IInv, NEW a \in Adjusts, Adjust(a) PROVE IInv'
<1> USE DEF IInv, Adjust
<1>1. PICK i \in Items, q \in AdjustQtys :
        job' = [job EXCEPT ![a] = [order |-> NoOne, cart |-> <<[item |-> i, qty |-> q]>>,
                                   status |-> Absent, fields |-> {}]]
  OBVIOUS
<1>2. <<[item |-> i, qty |-> q]>> \in Seq(CartLine) /\ DOMAIN <<[item |-> i, qty |-> q]>> = {1}
  BY AdjustQtysType DEF CartLine
<1>3. a \notin Checkouts \cup Cancels \cup ItemCancels \cup StatusUpdates \cup Edits
  BY KindsDisjoint
<1>4. TypeOK'
  BY <1>1, <1>2 DEF TypeOK, Job, PC, InTransaction
<1>5. JobsOK'
  <2>1. \A k \in DOMAIN <<[item |-> i, qty |-> q]>> : <<[item |-> i, qty |-> q]>>[k].qty >= 0
    BY AdjustQtysType
  <2>2. \A p \in Requests \ {a} : job'[p] = job[p] /\ pc'[p] = pc[p] /\ todo'[p] = todo[p]
    BY <1>1 DEF TypeOK
  <2>3. job'[a].cart = <<[item |-> i, qty |-> q]>> /\ pc'[a] = "read" /\ todo'[a] = {1}
    BY <1>1 DEF TypeOK
  <2> SUFFICES ASSUME NEW p \in Requests PROVE JobsOK!(p)'
    BY DEF JobsOK
  <2>4. CASE p = a
    BY <2>1, <2>3, <2>4, <1>2, <1>3 DEF JobsOK
  <2>5. CASE p # a
    BY <2>2, <2>5, <1>3 DEF JobsOK
  <2> QED
    BY <2>4, <2>5
<1>6. OrdersOK'
  BY <1>1, <1>3 DEF TypeOK, OrdersOK
<1>7. StockOK'
  BY <1>1 DEF TypeOK, StockOK, RowOK, Item, Line, Seen
<1>8. CouponOK'
  BY <1>3 DEF TypeOK, CouponOK, CouponUsedExact
<1>9. TotalsOK'
  BY <1>1, <1>3 DEF TypeOK, TotalsOK, NeverUndercharged
<1>10. LedgerOK'
  BY DEF TypeOK, LedgerOK, Accounted
<1>11. DeletionOK'
  BY KindsDisjoint DEF TypeOK, DeletionOK, Deleting
<1> QED
  BY <1>4, <1>5, <1>6, <1>7, <1>8, <1>9, <1>10, <1>11

LEMMA EditProductInv ==
  ASSUME IInv, NEW e \in Edits, EditProduct(e) PROVE IInv'
<1> USE DEF IInv, EditProduct
<1>1. PICK form \in EditForms : \E k \in DOMAIN form.cart :
        /\ job' = [job EXCEPT ![e] = [order |-> NoOne, cart |-> form.cart, status |-> Absent,
                                      fields |-> form.fields]]
        /\ todo' = [todo EXCEPT ![e] = DOMAIN form.cart]
        /\ line' = [line EXCEPT ![e] = k]
  OBVIOUS
<1>2. form.cart \in Seq(CartLine) /\ form.fields \in SUBSET FormFields
      /\ DOMAIN form.cart \subseteq Nat
  BY EditFormsType DEF Form
<1>3. e \notin Checkouts \cup Cancels \cup ItemCancels \cup StatusUpdates \cup Adjusts
  BY KindsDisjoint
<1>4. TypeOK'
  BY <1>1, <1>2 DEF TypeOK, Job, PC, InTransaction
<1>5. JobsOK'
  BY <1>1, <1>2, <1>3 DEF TypeOK, JobsOK
<1>6. OrdersOK'
  BY <1>1, <1>3 DEF TypeOK, OrdersOK
<1>7. StockOK'
  BY <1>1 DEF TypeOK, StockOK, RowOK, Item, Line, Seen
<1>8. CouponOK'
  BY <1>3 DEF TypeOK, CouponOK, CouponUsedExact
<1>9. TotalsOK'
  BY <1>1, <1>3 DEF TypeOK, TotalsOK, NeverUndercharged
<1>10. LedgerOK'
  BY DEF TypeOK, LedgerOK, Accounted
<1>11. DeletionOK'
  BY <1>1, <1>3 DEF TypeOK, DeletionOK, Deleting
<1> QED
  BY <1>4, <1>5, <1>6, <1>7, <1>8, <1>9, <1>10, <1>11

-----------------------------------------------------------------------------
(* Inside the transaction. *)

\* A line taken from a cart is a cart line.
LEMMA CartElement ==
  ASSUME NEW cart \in Seq(CartLine), NEW k \in DOMAIN cart
  PROVE  cart[k] \in CartLine
BY ElementOfSeq, DOMAIN cart = 1 .. Len(cart)

LEMMA ReadStockInv ==
  ASSUME IInv, NEW r \in Requests, ReadStock(r) PROVE IInv'
<1> USE DEF IInv, ReadStock
<1>1. PICK k \in todo[r] :
        /\ line' = [line EXCEPT ![r] = k]
        /\ before' = [before EXCEPT ![r] = Seen(r, job[r].cart[k].item).qty]
        /\ pc' = [pc EXCEPT ![r] =
             IF Sufficient(r, Seen(r, job[r].cart[k].item), job[r].cart[k].qty)
               THEN "write" ELSE "refuse"]
  BY DEF NextLines
<1>2. k \in DOMAIN job[r].cart /\ job[r].cart[k].item \in Items
  <2>1. k \in DOMAIN job[r].cart /\ job[r].cart \in Seq(CartLine)
    BY DEF JobsOK, TypeOK, Job
  <2> QED
    BY <2>1, CartElement DEF CartLine
<1>3. Seen(r, job[r].cart[k].item).qty \in Int
  BY <1>2 DEF Seen, TypeOK, StockRow
<1>4. TypeOK'
  BY <1>1, <1>2, <1>3 DEF TypeOK, PC, InTransaction, Job
<1>5. JobsOK'
  BY <1>1, <1>2 DEF TypeOK, JobsOK
<1>6. OrdersOK'
  BY DEF TypeOK, OrdersOK
<1>7. StockOK'
  <2> DEFINE i == job[r].cart[k].item
  <2>1. RowOK(Seen(r, i))
    BY <1>2, KindsDisjoint DEF StockOK, Seen
  <2>2. ASSUME pc'[r] = "write", Seen(r, i).counted
        PROVE  before'[r] >= 0 /\ (r \in Checkouts => before'[r] >= job[r].cart[k].qty)
    <3>1. Sufficient(r, Seen(r, i), job[r].cart[k].qty)
      BY <1>1, <2>2 DEF TypeOK
    <3>2. before'[r] = Seen(r, i).qty
      BY <1>1 DEF TypeOK
    <3> QED
      BY <3>1, <3>2, <2>1, <2>2 DEF Sufficient, RowOK
  <2>3. Item(r)' = i /\ Line(r)' = job[r].cart[k] /\ Seen(r, i)' = Seen(r, i)
    BY <1>1 DEF Item, Line, TypeOK, Seen
  <2>4. ASSUME NEW q \in Requests, pc'[q] = "write", Seen(q, Item(q))'.counted
        PROVE  before'[q] >= 0 /\ (q \in Checkouts => before'[q] >= Line(q)'.qty)
    <3>1. CASE q = r
      BY <3>1, <2>2, <2>3, <2>4
    <3>2. CASE q # r
      BY <3>2, <2>4, <1>1 DEF TypeOK, StockOK, Item, Line, Seen
    <3> QED
      BY <3>1, <3>2
  <2>5. \A j \in Items : /\ RowOK(stock'[j])
                         /\ lock'[j] # NoOne =>
                              RowOK(draft'[j]) /\ (draft'[j].counted => stock'[j].counted)
    BY DEF StockOK
  <2> QED
    BY <2>4, <2>5 DEF StockOK
<1>8. CouponOK'
  BY DEF TypeOK, CouponOK, CouponUsedExact
<1>9. TotalsOK'
  BY <1>1 DEF TypeOK, TotalsOK, NeverUndercharged
<1>10. LedgerOK'
  BY DEF TypeOK, LedgerOK, Accounted
<1>11. DeletionOK'
  BY KindsDisjoint DEF TypeOK, DeletionOK, Deleting
<1> QED
  BY <1>4, <1>5, <1>6, <1>7, <1>8, <1>9, <1>10, <1>11

\* A log row takes the logged total from the old quantity to the new one.
LEMMA LogArithmetic ==
  ASSUME NEW init \in Int, NEW old \in Int, NEW logged \in Int, NEW new \in Int,
         old = init + logged
  PROVE  new = init + (logged + (new - old))
OBVIOUS

\* Whoever writes a row it may write changes what nobody else sees.
LEMMA OthersSee ==
  ASSUME TypeOK, NEW r \in Requests, Unblocked(r), pc[r] \in {"write", "edit"},
         lock' = [lock EXCEPT ![Item(r)] = r], UNCHANGED stock, NEW new,
         draft' = [draft EXCEPT ![Item(r)] = new],
         NEW q \in Requests, q # r, NEW i \in Items
  PROVE  Seen(q, i)' = Seen(q, i)
<1>1. lock[Item(r)] # q
  BY DEF Unblocked, WaitsFor
<1>2. CASE i = Item(r)
  BY <1>1, <1>2 DEF Seen, TypeOK
<1>3. CASE i # Item(r)
  BY <1>3 DEF Seen, TypeOK
<1> QED
  BY <1>2, <1>3

LEMMA WriteStockInv ==
  ASSUME IInv, NEW r \in Requests, WriteStock(r) PROVE IInv'
<1> USE DEF IInv, WriteStock
<1>1. line[r] \in DOMAIN job[r].cart /\ Line(r) \in CartLine /\ Item(r) \in Items
  <2>1. line[r] \in DOMAIN job[r].cart /\ job[r].cart \in Seq(CartLine)
    BY DEF JobsOK, TypeOK, Job
  <2>2. Line(r) \in CartLine
    BY <2>1, CartElement DEF Line
  <2> QED
    BY <2>1, <2>2 DEF CartLine, Item
<1>2. After(r) \in Int
  BY <1>1 DEF After, TypeOK, CartLine
<1>3. Rewritten(r) \in StockRow
  <2>1. Seen(r, Item(r)) \in StockRow
    BY <1>1 DEF Seen, TypeOK
  <2>2. Seen(r, Item(r)).logged + (After(r) - before[r]) \in Int
    BY <1>2, <2>1 DEF StockRow, TypeOK
  <2>3. InStockAfter(r) \in BOOLEAN /\ (Seen(r, Item(r)).lost \/ Seen(r, Item(r)).qty # before[r]) \in BOOLEAN
    BY DEF InStockAfter
  <2> QED
    BY <1>2, <2>1, <2>2, <2>3 DEF Rewritten, StockRow
<1>a. r \notin Edits
  BY DEF JobsOK
<1>4. RowOK(Rewritten(r))
  <2>0. Rewritten(r).counted = Seen(r, Item(r)).counted /\ Rewritten(r).managed = Seen(r, Item(r)).managed
        /\ RowOK(Seen(r, Item(r)))
    BY <1>1, KindsDisjoint DEF Rewritten, StockOK, Seen
  <2> SUFFICES ASSUME Seen(r, Item(r)).counted
               PROVE  Rewritten(r).qty >= 0 /\ (Rewritten(r).inStock <=> Rewritten(r).qty > 0)
    BY <2>0 DEF RowOK
  <2>1. before[r] \in Int /\ before[r] >= 0 /\ Line(r).qty \in Int
    BY <1>1 DEF StockOK, TypeOK, CartLine
  <2>2. CASE r \in Checkouts
    <3>0. After(r) = before[r] - Line(r).qty
      BY <2>2, KindsDisjoint DEF After
    <3>1. After(r) >= 0
      BY <3>0, <2>1, <2>2, <1>1 DEF StockOK
    <3>2. InStockAfter(r) <=> After(r) > 0
      BY <2>2, KindsDisjoint DEF InStockAfter
    <3> QED
      BY <2>1, <3>1, <3>2 DEF Rewritten
  <2>3. CASE r \in Adjusts
    <3>1. After(r) = Line(r).qty /\ Line(r).qty >= 0
      BY <1>1, <2>3, KindsDisjoint DEF After, JobsOK, Line
    <3>2. InStockAfter(r) <=> After(r) > 0
      BY <2>3, KindsDisjoint DEF InStockAfter
    <3> QED
      BY <3>1, <3>2 DEF Rewritten
  <2>4. CASE r \in Cancels \cup ItemCancels \cup StatusUpdates
    <3>1. Line(r).qty >= 1
      BY <2>4, <1>1, KindsDisjoint DEF JobsOK, Line
    <3>2. After(r) > 0
      BY <3>1, <2>1, <2>4, KindsDisjoint DEF After
    <3>3. InStockAfter(r)
      BY <3>2 DEF InStockAfter
    <3> QED
      BY <3>2, <3>3, <1>2 DEF Rewritten
  <2> QED
    BY <2>2, <2>3, <2>4, <1>a
<1>b. Rewritten(r).counted => stock[Item(r)].counted
  BY <1>1, KindsDisjoint DEF Rewritten, Seen, StockOK
<1>5. pc'[r] \in {"coupon", "commit", "delete", "order", "read"}
  BY DEF TypeOK, StockWritten
<1>6. TypeOK'
  BY <1>3, <1>5, <1>1 DEF TypeOK, PC, InTransaction
<1>7. JobsOK'
  <2>1. pc'[r] = "order" => r \in Cancels
    BY DEF TypeOK, StockWritten
  <2>2. pc'[r] = "delete" => r \in ItemCancels
    BY DEF TypeOK, StockWritten
  <2> QED
    BY <1>5, <1>a, <2>1, <2>2, KindsDisjoint DEF TypeOK, JobsOK
<1>8. OrdersOK'
  BY <1>5 DEF TypeOK, OrdersOK
<1>9. StockOK'
  <2>1. \A i \in Items : /\ RowOK(stock'[i])
                         /\ lock'[i] # NoOne =>
                              RowOK(draft'[i]) /\ (draft'[i].counted => stock'[i].counted)
    BY <1>4, <1>b, <1>1 DEF TypeOK, StockOK
  <2>2. ASSUME NEW q \in Requests, pc'[q] = "write", Seen(q, Item(q))'.counted
        PROVE  before'[q] >= 0 /\ (q \in Checkouts => before'[q] >= Line(q)'.qty)
    <3>1. q # r /\ pc[q] = "write"
      BY <1>5, <2>2 DEF TypeOK
    <3>2. Item(q)' = Item(q) /\ Line(q)' = Line(q)
      BY DEF Item, Line
    <3>3. Item(q) \in Items
      <4>1. line[q] \in DOMAIN job[q].cart /\ job[q].cart \in Seq(CartLine)
        BY <3>1 DEF JobsOK, TypeOK, Job
      <4> QED
        BY <4>1, CartElement DEF CartLine, Item, Line
    <3>4. Seen(q, Item(q)).counted
      BY <3>1, <3>2, <3>3, <2>2, OthersSee
    <3> QED
      BY <3>1, <3>2, <3>4 DEF StockOK
  <2> QED
    BY <2>1, <2>2 DEF StockOK
<1>10. CouponOK'
  <2>1. pc'[r] = "coupon" => r \in Checkouts /\ withCoupon[r]
    BY DEF TypeOK, StockWritten
  <2>2. r \in Checkouts /\ pc'[r] = "commit" => ~withCoupon[r]
    BY DEF TypeOK, StockWritten
  <2> QED
    BY <2>1, <2>2, <1>5 DEF TypeOK, CouponOK, CouponUsedExact
<1>11. TotalsOK'
  <2>1. r \in ItemCancels => pc'[r] \notin {"order", "commit"}
    BY KindsDisjoint DEF TypeOK, StockWritten
  <2> QED
    BY <2>1 DEF TypeOK, TotalsOK, NeverUndercharged
<1>12. LedgerOK'
  <2> DEFINE seen == Seen(r, Item(r))
  <2>1. Accounted(seen) /\ seen \in StockRow
    BY <1>1, KindsDisjoint DEF LedgerOK, Seen, TypeOK
  <2>2. Rewritten(r).qty = After(r) /\ Rewritten(r).logged = seen.logged + (After(r) - before[r])
        /\ Rewritten(r).formed = seen.formed
    BY DEF Rewritten
  <2>3. ASSUME ~Rewritten(r).lost
        PROVE  Rewritten(r).qty = Rewritten(r).formed + Rewritten(r).logged
    <3>1. ~seen.lost /\ seen.qty = before[r]
      BY <2>3 DEF Rewritten
    <3>2. /\ seen.qty = seen.formed + seen.logged
          /\ seen.logged \in Int /\ seen.qty \in Int /\ seen.formed \in Int
      BY <3>1, <2>1 DEF Accounted, StockRow
    <3> HIDE DEF seen
    <3>3. before[r] \in Int /\ before[r] = seen.formed + seen.logged
      BY <3>1, <3>2
    <3>4. After(r) = seen.formed + (seen.logged + (After(r) - before[r]))
      BY <3>2, <3>3, <1>2, LogArithmetic
    <3> QED
      BY <2>2, <3>4
  <2>4. Accounted(Rewritten(r))
    BY <2>3 DEF Accounted
  <2>5. ASSUME NEW i \in Items, lock'[i] # NoOne PROVE Accounted(draft'[i])
    BY <2>4, <2>5, <1>1 DEF TypeOK, LedgerOK
  <2> QED
    BY <2>5 DEF LedgerOK, Accounted
<1>13. DeletionOK'
  <2>1. r \in ItemCancels => pc'[r] \notin {"recount", "order", "commit"}
    BY KindsDisjoint DEF TypeOK, StockWritten
  <2>2. \A q \in Requests \ {r} : pc'[q] = pc[q]
    BY DEF TypeOK
  <2> QED
    BY <2>1, <2>2 DEF DeletionOK, Deleting
<1> QED
  BY <1>6, <1>7, <1>8, <1>9, <1>10, <1>11, <1>12, <1>13

\* A form's change of a quantity is a change of what forms have entered.
LEMMA FormArithmetic ==
  ASSUME NEW formed \in Int, NEW old \in Int, NEW logged \in Int, NEW new \in Int,
         old = formed + logged
  PROVE  new = (formed + (new - old)) + logged
OBVIOUS

LEMMA EditStockInv ==
  ASSUME IInv, NEW r \in Requests, EditStock(r) PROVE IInv'
<1> USE DEF IInv, EditStock
<1> DEFINE seen == Seen(r, Item(r))
           new == Edited(r)
<1>1. line[r] \in DOMAIN job[r].cart /\ Line(r) \in CartLine /\ Item(r) \in Items
      /\ r \in Edits /\ r \notin Checkouts \cup Cancels \cup ItemCancels \cup StatusUpdates \cup Adjusts
  <2>1. line[r] \in DOMAIN job[r].cart /\ job[r].cart \in Seq(CartLine) /\ r \in Edits
    BY DEF JobsOK, TypeOK, Job
  <2>2. Line(r) \in CartLine
    BY <2>1, CartElement DEF Line
  <2> QED
    BY <2>1, <2>2, KindsDisjoint DEF CartLine, Item
<1>2. seen \in StockRow /\ RowOK(seen) /\ Accounted(seen)
      /\ (seen.counted => stock[Item(r)].counted)
  BY <1>1, KindsDisjoint DEF Seen, TypeOK, StockOK, LedgerOK
<1>3. /\ new.qty \in Int /\ new.inStock \in BOOLEAN /\ new.managed \in BOOLEAN
      /\ new.formed = seen.formed + (new.qty - seen.qty)
      /\ new.logged = seen.logged /\ new.lost = seen.lost
      /\ new.counted = (seen.counted /\ new.managed /\ new.qty >= 0)
      /\ new.recomputed = (seen.recomputed /\ new.qty = seen.qty /\ new.inStock = seen.inStock)
      /\ new = [qty |-> new.qty, inStock |-> new.inStock, managed |-> new.managed,
                logged |-> new.logged, formed |-> new.formed, lost |-> new.lost,
                counted |-> new.counted, recomputed |-> new.recomputed]
  BY <1>1, <1>2 DEF Edited, StockRow, CartLine
<1>4. new \in StockRow
  <2> HIDE DEF new
  <2>1. seen.formed + (new.qty - seen.qty) \in Int
    BY <1>2, <1>3 DEF StockRow
  <2> QED
    BY <1>2, <1>3, <2>1 DEF StockRow
<1>5. RowOK(new) /\ (new.counted => stock[Item(r)].counted)
  <2> HIDE DEF new
  <2> QED
    BY <1>2, <1>3 DEF RowOK
<1>6. Accounted(new)
  <2> SUFFICES ASSUME ~new.lost PROVE new.qty = new.formed + new.logged
    BY DEF Accounted
  <2> HIDE DEF new, seen
  <2>1. seen.qty = seen.formed + seen.logged /\ seen.qty \in Int /\ seen.formed \in Int /\ seen.logged \in Int
    BY <1>2, <1>3 DEF Accounted, StockRow
  <2>2. new.qty = (seen.formed + (new.qty - seen.qty)) + seen.logged
    BY <1>3, <2>1, FormArithmetic
  <2> QED
    BY <1>3, <2>2
<1>7. /\ lock' = [lock EXCEPT ![Item(r)] = r] /\ draft' = [draft EXCEPT ![Item(r)] = new]
      /\ stock' = stock /\ job' = job /\ before' = before /\ pc[r] = "edit"
      /\ pc' = [pc EXCEPT ![r] = pc'[r]] /\ pc'[r] \in {"edit", "commit"}
      /\ line' = [line EXCEPT ![r] = line'[r]] /\ line'[r] \in Nat
      /\ pc'[r] = "edit" => line'[r] \in DOMAIN job[r].cart
      /\ todo' = [todo EXCEPT ![r] = @ \ {line[r]}] /\ todo[r] \subseteq DOMAIN job[r].cart
  <2>1. todo[r] \subseteq DOMAIN job[r].cart /\ DOMAIN job[r].cart \subseteq Nat
    BY DEF JobsOK, TypeOK, Job
  <2> QED
    BY <2>1 DEF TypeOK, tables
<1> HIDE DEF new, seen
<1>8. TypeOK'
  BY <1>4, <1>7, <1>1 DEF TypeOK, PC, InTransaction
<1>9. JobsOK'
  BY <1>1, <1>7 DEF TypeOK, JobsOK
<1>10. OrdersOK'
  BY <1>1, <1>7 DEF TypeOK, OrdersOK
<1>11. StockOK'
  <2>1. \A i \in Items : /\ RowOK(stock'[i])
                         /\ lock'[i] # NoOne =>
                              RowOK(draft'[i]) /\ (draft'[i].counted => stock'[i].counted)
    BY <1>5, <1>7, <1>1 DEF TypeOK, StockOK
  <2>2. ASSUME NEW q \in Requests, pc'[q] = "write", Seen(q, Item(q))'.counted
        PROVE  before'[q] >= 0 /\ (q \in Checkouts => before'[q] >= Line(q)'.qty)
    <3>1. q # r /\ pc[q] = "write"
      BY <1>7, <2>2 DEF TypeOK
    <3>2. Item(q)' = Item(q) /\ Line(q)' = Line(q)
      BY <1>7, <3>1 DEF Item, Line, TypeOK
    <3>3. Item(q) \in Items
      <4>1. line[q] \in DOMAIN job[q].cart /\ job[q].cart \in Seq(CartLine)
        BY <3>1 DEF JobsOK, TypeOK, Job
      <4> QED
        BY <4>1, CartElement DEF CartLine, Item, Line
    <3>4. Seen(q, Item(q)).counted
      <4>1. Seen(q, Item(q))' = IF lock'[Item(q)] = q THEN draft'[Item(q)] ELSE stock'[Item(q)]
        BY <3>2 DEF Seen
      <4>2. \A i \in Items : (Seen(q, i))' = Seen(q, i)
        BY <1>7, <3>1, OthersSee
      <4> QED
        BY <4>1, <4>2, <3>3, <2>2 DEF Seen
    <3> QED
      BY <1>7, <3>1, <3>2, <3>4 DEF StockOK
  <2> QED
    BY <2>1, <2>2 DEF StockOK
<1>12. CouponOK'
  BY <1>1, <1>7 DEF TypeOK, CouponOK, CouponUsedExact
<1>13. TotalsOK'
  BY <1>1, <1>7 DEF TypeOK, TotalsOK, NeverUndercharged
<1>14. LedgerOK'
  BY <1>1, <1>6, <1>7 DEF TypeOK, LedgerOK, Accounted
<1>15. DeletionOK'
  BY <1>1, <1>7 DEF TypeOK, DeletionOK, Deleting
<1> QED
  BY <1>8, <1>9, <1>10, <1>11, <1>12, <1>13, <1>14, <1>15

LEMMA IncrementUsageInv ==
  ASSUME IInv, NEW c \in Requests, IncrementUsage(c) PROVE IInv'
<1> USE DEF IInv, IncrementUsage
<1>1. TypeOK'
  BY DEF TypeOK, PC, InTransaction
<1>2. JobsOK'
  BY DEF TypeOK, JobsOK
<1>3. OrdersOK'
  BY DEF TypeOK, OrdersOK
<1>4. StockOK'
  BY DEF TypeOK, StockOK, RowOK, Item, Line, Seen
<1>5. CouponOK'
  <2>1. couponLock = NoOne
    <3>1. couponLock # c
      BY KindsDisjoint DEF CouponOK, TypeOK
    <3>2. \A s \in Requests : s # c => couponLock # s
      BY DEF Unblocked, WaitsFor
    <3> QED
      BY <3>1, <3>2 DEF TypeOK
  <2> QED
    BY <2>1, KindsDisjoint DEF TypeOK, CouponOK, CouponUsedExact
<1>6. TotalsOK'
  BY KindsDisjoint DEF TypeOK, TotalsOK, NeverUndercharged, CouponOK
<1>7. LedgerOK'
  BY DEF TypeOK, LedgerOK, Accounted
<1>8. DeletionOK'
  BY KindsDisjoint DEF TypeOK, DeletionOK, Deleting, CouponOK
<1> QED
  BY <1>1, <1>2, <1>3, <1>4, <1>5, <1>6, <1>7, <1>8

LEMMA DeleteLineInv ==
  ASSUME IInv, NEW r \in Requests, DeleteLine(r) PROVE IInv'
<1> USE DEF IInv, DeleteLine
<1>1. TypeOK'
  BY DEF TypeOK, PC, InTransaction
<1>2. JobsOK'
  BY DEF TypeOK, JobsOK
<1>3. OrdersOK'
  BY DEF TypeOK, OrdersOK
<1>4. StockOK'
  BY DEF TypeOK, StockOK, RowOK, Item, Line, Seen
<1>5. CouponOK'
  BY DEF TypeOK, CouponOK, CouponUsedExact
<1>6. TotalsOK'
  BY DEF TypeOK, TotalsOK, NeverUndercharged
<1>7. LedgerOK'
  BY DEF TypeOK, LedgerOK, Accounted
<1>8. DeletionOK'
  <2>1. r \in ItemCancels
    BY DEF JobsOK
  <2>2. \A s \in ItemCancels : s # r => ~Deleting(s, job[r].order, line[r])
    BY DEF Unblocked, WaitsFor
  <2>3. \A q \in Requests \ {r} : pc'[q] = pc[q]
    BY DEF TypeOK
  <2>4. ASSUME NEW q \in ItemCancels, pc'[q] \in {"recount", "order", "commit"},
               NEW s \in ItemCancels, s # q
        PROVE  ~Deleting(s, job[q].order, line[q])'
    BY <2>1, <2>2, <2>3, <2>4 DEF DeletionOK, Deleting
  <2>5. ASSUME NEW q \in ItemCancels, pc'[q] \in {"recount", "order", "commit"}
        PROVE  line[q] \in ord[job[q].order].lines
    BY <2>3, <2>5 DEF DeletionOK
  <2> QED
    BY <2>4, <2>5 DEF DeletionOK
<1> QED
  BY <1>1, <1>2, <1>3, <1>4, <1>5, <1>6, <1>7, <1>8

LEMMA RecountInv ==
  ASSUME IInv, NEW r \in Requests, Recount(r) PROVE IInv'
<1> USE DEF IInv, Recount
<1>1. ord[job[r].order].lines \ {line[r]} \subseteq Nat /\ r \in ItemCancels
  BY DEF TypeOK, OrderRow, JobsOK
<1>2. TypeOK'
  BY <1>1 DEF TypeOK, PC, InTransaction
<1>3. JobsOK'
  BY <1>1, KindsDisjoint DEF TypeOK, JobsOK
<1>4. OrdersOK'
  BY DEF TypeOK, OrdersOK
<1>5. StockOK'
  BY DEF TypeOK, StockOK, RowOK, Item, Line, Seen
<1>6. CouponOK'
  BY DEF TypeOK, CouponOK, CouponUsedExact
<1>7. TotalsOK'
  BY DEF TypeOK, TotalsOK, NeverUndercharged
<1>8. LedgerOK'
  BY DEF TypeOK, LedgerOK, Accounted
<1>9. DeletionOK'
  BY KindsDisjoint DEF TypeOK, DeletionOK, Deleting
<1> QED
  BY <1>2, <1>3, <1>4, <1>5, <1>6, <1>7, <1>8, <1>9

LEMMA WriteOrderInv ==
  ASSUME IInv, NEW r \in Requests, WriteOrder(r) PROVE IInv'
<1> USE DEF IInv, WriteOrder
<1>1. TypeOK'
  BY DEF TypeOK, PC, InTransaction
<1>2. JobsOK'
  BY DEF TypeOK, JobsOK
<1>3. OrdersOK'
  BY DEF TypeOK, OrdersOK
<1>4. StockOK'
  BY DEF TypeOK, StockOK, RowOK, Item, Line, Seen
<1>5. CouponOK'
  BY DEF TypeOK, CouponOK, CouponUsedExact, JobsOK
<1>6. TotalsOK'
  BY DEF TypeOK, TotalsOK, NeverUndercharged
<1>7. LedgerOK'
  BY DEF TypeOK, LedgerOK, Accounted
<1>8. DeletionOK'
  BY KindsDisjoint DEF TypeOK, DeletionOK, Deleting
<1> QED
  BY <1>1, <1>2, <1>3, <1>4, <1>5, <1>6, <1>7, <1>8

-----------------------------------------------------------------------------
(* The end of a transaction. *)

LEMMA RollbackInv ==
  ASSUME IInv, NEW r \in Requests, pc[r] \in InTransaction, Rollback(r) PROVE IInv'
<1> USE DEF IInv, Rollback
<1>1. TypeOK'
  BY DEF TypeOK, PC
<1>2. JobsOK'
  BY DEF TypeOK, JobsOK, InTransaction
<1>3. OrdersOK'
  BY DEF TypeOK, OrdersOK, InTransaction
<1>4. StockOK'
  <2>1. \A i \in Items : /\ RowOK(stock'[i])
                         /\ lock'[i] # NoOne =>
                              RowOK(draft'[i]) /\ (draft'[i].counted => stock'[i].counted)
    BY DEF TypeOK, StockOK
  <2>2. ASSUME NEW q \in Requests, pc'[q] = "write", Seen(q, Item(q))'.counted
        PROVE  before'[q] >= 0 /\ (q \in Checkouts => before'[q] >= Line(q)'.qty)
    <3>1. q # r /\ pc[q] = "write" /\ Item(q)' = Item(q) /\ Line(q)' = Line(q)
      BY <2>2 DEF TypeOK, Item, Line
    <3>2. Item(q) \in Items
      <4>1. line[q] \in DOMAIN job[q].cart /\ job[q].cart \in Seq(CartLine)
        BY <3>1 DEF JobsOK, TypeOK, Job
      <4> QED
        BY <4>1, CartElement DEF CartLine, Item, Line
    <3>3. Seen(q, Item(q))' = Seen(q, Item(q))
      BY <3>1, <3>2, KindsDisjoint DEF Seen, TypeOK
    <3> QED
      BY <2>2, <3>1, <3>3 DEF StockOK
  <2> QED
    BY <2>1, <2>2 DEF StockOK
<1>5. CouponOK'
  BY DEF TypeOK, CouponOK, CouponUsedExact
<1>6. TotalsOK'
  BY DEF TypeOK, TotalsOK, NeverUndercharged
<1>7. LedgerOK'
  BY DEF TypeOK, LedgerOK, Accounted
<1>8. DeletionOK'
  BY KindsDisjoint DEF TypeOK, DeletionOK, Deleting
<1> QED
  BY <1>1, <1>2, <1>3, <1>4, <1>5, <1>6, <1>7, <1>8

LEMMA CommitInv ==
  ASSUME IInv, NEW r \in Requests, Commit(r) PROVE IInv'
<1> USE DEF IInv, Commit
<1> DEFINE o == job[r].order
<1>1. r \notin Adjusts \cup Edits => o \in Checkouts
  BY DEF JobsOK
<1>2. r \in Checkouts => o = r /\ ord[o].status = Absent /\ ord[o] = NoOrder
  BY DEF JobsOK, OrdersOK, TypeOK
<1>3. r \notin Adjusts \cup Edits => OrderAfter(r, o) \in OrderRow
  <2>1. DOMAIN job[r].cart \subseteq Nat
    BY DEF TypeOK, Job
  <2>2. CASE r \in Checkouts
    BY <2>1, <2>2, <1>1, KindsDisjoint DEF OrderAfter, OrderRow, TypeOK, Status
  <2>3. CASE r \in ItemCancels
    BY <2>3, <1>1, KindsDisjoint DEF OrderAfter, OrderRow, TypeOK, Status
  <2>4. CASE r \in Cancels \cup StatusUpdates
    <3>1. OrderAfter(r, o) = [ord[o] EXCEPT !.status = job[r].status]
      BY <2>4, KindsDisjoint DEF OrderAfter
    <3>2. ord[o] \in OrderRow /\ job[r].status \in Status \cup {Absent}
      BY <2>4, <1>1, KindsDisjoint DEF TypeOK, Job
    <3> QED
      BY <3>1, <3>2 DEF OrderRow
  <2> QED
    BY <2>2, <2>3, <2>4
<1>4. \A p \in Checkouts : p # o \/ r \in Adjusts \cup Edits => ord'[p] = ord[p]
  BY <1>1 DEF TypeOK
<1>5. r \notin Adjusts \cup Edits => ord'[o] = OrderAfter(r, o)
  BY <1>1 DEF TypeOK
<1>6. TypeOK'
  <2>1. stock' \in [Items -> StockRow]
    BY DEF TypeOK
  <2>2. ord' \in [Checkouts -> OrderRow]
    BY <1>3 DEF TypeOK
  <2> QED
    BY <2>1, <2>2 DEF TypeOK, PC
<1>7. r \notin Adjusts \cup Edits => ord'[o].status # Absent /\ pc'[o] = "done"
  <2>1. CASE r \in Checkouts
    BY <2>1, <1>2, <1>5, KindsDisjoint DEF OrderAfter, Absent, TypeOK
  <2>2. CASE r \in ItemCancels
    <3>1. r \notin Checkouts \cup Adjusts \cup Edits
      BY <2>2, KindsDisjoint
    <3>2. ord[o].status # Absent /\ o \in Checkouts /\ pc[o] = "done"
      BY <2>2, <3>1, <1>1 DEF JobsOK, OrdersOK
    <3>3. ord'[o].status \in {"CANCELED", ord[o].status}
      BY <2>2, <3>1, <1>5 DEF OrderAfter
    <3> QED
      BY <3>1, <3>2, <3>3 DEF TypeOK, Absent
  <2>3. CASE r \in Cancels \cup StatusUpdates
    <3>1. ord'[o] = [ord[o] EXCEPT !.status = job[r].status]
      BY <2>3, <1>5, KindsDisjoint DEF OrderAfter
    <3>2. ord[o] \in OrderRow /\ ord[o].status # Absent
      BY <2>3, <1>1, KindsDisjoint DEF TypeOK, JobsOK
    <3>3. job[r].status \in Status
      BY <2>3, KindsDisjoint DEF JobsOK
    <3>4. ord'[o].status = job[r].status
      BY <3>1, <3>2 DEF OrderRow
    <3>5. pc'[o] = "done"
      BY <3>2, <1>1, <2>3, KindsDisjoint DEF OrdersOK, TypeOK
    <3> QED
      BY <3>3, <3>4, <3>5 DEF Absent, Status
  <2> QED
    BY <2>1, <2>2, <2>3
<1>8. JobsOK'
  <2>1. \A p \in Checkouts : ord[p].status # Absent => ord'[p].status # Absent
    BY <1>4, <1>7
  <2> QED
    BY <2>1 DEF TypeOK, JobsOK
<1>9. OrdersOK'
  <2>1. r \notin Adjusts \cup Edits => ord'[o].lines \subseteq DOMAIN job[o].cart
    <3>1. CASE r \in Checkouts
      BY <3>1, <1>2, <1>5, KindsDisjoint DEF OrderAfter
    <3>2. CASE r \in ItemCancels
      BY <3>2, <1>1, <1>5, KindsDisjoint DEF OrderAfter, OrdersOK
    <3>3. CASE r \in Cancels \cup StatusUpdates
      BY <3>3, <1>1, <1>5, KindsDisjoint DEF OrderAfter, OrdersOK, TypeOK, OrderRow
    <3> QED
      BY <3>1, <3>2, <3>3
  <2> SUFFICES ASSUME NEW p \in Checkouts PROVE OrdersOK!(p)'
    BY DEF OrdersOK
  <2>2. CASE r \notin Adjusts \cup Edits /\ p = o
    BY <2>1, <2>2, <1>7
  <2>3. CASE r \in Adjusts \cup Edits \/ p # o
    BY <2>3, <1>4 DEF OrdersOK, TypeOK
  <2> QED
    BY <2>2, <2>3
<1>10. StockOK'
  <2>1. \A i \in Items : /\ RowOK(stock'[i])
                         /\ lock'[i] # NoOne =>
                              RowOK(draft'[i]) /\ (draft'[i].counted => stock'[i].counted)
    BY KindsDisjoint DEF TypeOK, StockOK
  <2>2. ASSUME NEW q \in Requests, pc'[q] = "write", Seen(q, Item(q))'.counted
        PROVE  before'[q] >= 0 /\ (q \in Checkouts => before'[q] >= Line(q)'.qty)
    <3>1. q # r /\ pc[q] = "write" /\ Item(q)' = Item(q) /\ Line(q)' = Line(q)
      BY <2>2 DEF TypeOK, Item, Line
    <3>2. Item(q) \in Items
      <4>1. line[q] \in DOMAIN job[q].cart /\ job[q].cart \in Seq(CartLine)
        BY <3>1 DEF JobsOK, TypeOK, Job
      <4> QED
        BY <4>1, CartElement DEF CartLine, Item, Line
    <3>3. Seen(q, Item(q)).counted
      <4>1. CASE lock[Item(q)] = r
        <5>1. Seen(q, Item(q))' = draft[Item(q)] /\ Seen(q, Item(q)) = stock[Item(q)]
          BY <3>1, <3>2, <4>1, KindsDisjoint DEF Seen, TypeOK
        <5> QED
          BY <5>1, <4>1, <3>1, <3>2, <2>2, KindsDisjoint DEF StockOK
      <4>2. CASE lock[Item(q)] # r
        <5>1. Seen(q, Item(q))' = Seen(q, Item(q))
          BY <3>1, <3>2, <4>2 DEF Seen, TypeOK
        <5> QED
          BY <5>1, <2>2
      <4> QED
        BY <4>1, <4>2
    <3> QED
      BY <3>1, <3>3 DEF StockOK
  <2> QED
    BY <2>1, <2>2 DEF StockOK
<1>11. CouponOK'
  <2> DEFINE C == {p \in Checkouts : ord[p].coupon}
  <2>1. IsFiniteSet(C)
    BY CheckoutsFinite, FS_Subset
  <2>2. CASE couponLock = r
    <3>1. r \in Checkouts /\ withCoupon[r] /\ o = r
      BY <2>2, <1>2, KindsDisjoint DEF CouponOK
    <3>2. r \notin Adjusts \cup Edits
      BY <3>1, KindsDisjoint
    <3>3. ord'[r].coupon /\ ~ord[r].coupon
      BY <3>1, <3>2, <1>2, <1>5, KindsDisjoint DEF OrderAfter, NoOrder
    <3>4. {p \in Checkouts : ord'[p].coupon} = C \cup {r}
      BY <3>1, <3>3, <1>4
    <3>5. Cardinality(C \cup {r}) = Cardinality(C) + 1
      BY <2>1, <3>3, FS_AddElement
    <3>6. CouponUsedExact'
      BY <2>2, <3>4, <3>5 DEF CouponUsedExact, CouponOK
    <3>7. couponLock' = NoOne /\ \A c \in Checkouts : pc'[c] = "commit" => ~withCoupon[c]
      BY <2>2 DEF CouponOK, TypeOK
    <3> QED
      BY <3>6, <3>7 DEF CouponOK, TypeOK
  <2>3. CASE couponLock # r
    <3>1. r \in Checkouts => ~withCoupon[r]
      BY <2>3 DEF CouponOK
    <3>2. \A p \in Checkouts : ord'[p].coupon = ord[p].coupon
      <4> SUFFICES ASSUME r \notin Adjusts \cup Edits PROVE ord'[o].coupon = ord[o].coupon
        BY <1>1, <1>4
      <4>1. CASE r \in Checkouts
        <5>1. ord'[o].coupon = withCoupon[r] /\ ord[o].coupon = FALSE
          BY <4>1, <1>2, <1>5, KindsDisjoint DEF OrderAfter, NoOrder
        <5>2. withCoupon[r] = FALSE
          BY <4>1, <3>1 DEF TypeOK
        <5> QED
          BY <5>1, <5>2
      <4>2. CASE r \in ItemCancels
        BY <4>2, <1>5, KindsDisjoint DEF OrderAfter
      <4>3. CASE r \in Cancels \cup StatusUpdates
        BY <4>3, <1>1, <1>5, KindsDisjoint DEF OrderAfter, TypeOK, OrderRow
      <4> QED
        BY <4>1, <4>2, <4>3
    <3>3. {p \in Checkouts : ord'[p].coupon} = C
      BY <3>2
    <3>4. CouponUsedExact'
      BY <2>3, <3>3 DEF CouponUsedExact, CouponOK
    <3> QED
      BY <2>3, <3>4 DEF CouponOK, TypeOK
  <2> QED
    BY <2>2, <2>3
<1>12. TotalsOK'
  <2>1. \A p \in Checkouts : ord[p].status # Absent => ord'[p].lines \subseteq ord[p].lines
    <3> SUFFICES ASSUME r \notin Adjusts \cup Edits, ord[o].status # Absent
                 PROVE  ord'[o].lines \subseteq ord[o].lines
      BY <1>4
    <3>1. r \notin Checkouts
      BY <1>2
    <3>2. CASE r \in ItemCancels
      BY <3>2, <1>5, KindsDisjoint DEF OrderAfter
    <3>3. CASE r \in Cancels \cup StatusUpdates
      BY <3>3, <1>1, <1>5, KindsDisjoint DEF OrderAfter, TypeOK, OrderRow
    <3> QED
      BY <3>1, <3>2, <3>3
  <2>2. \A q \in ItemCancels : pc'[q] \in {"order", "commit"} =>
          ord'[job[q].order].lines \ {line[q]} \subseteq remaining[q]
    <3> SUFFICES ASSUME NEW q \in ItemCancels, pc'[q] \in {"order", "commit"}
                 PROVE  ord'[job[q].order].lines \ {line[q]} \subseteq remaining[q]
      OBVIOUS
    <3>1. pc[q] = pc'[q]
      BY DEF TypeOK
    <3>2. job[q].order \in Checkouts /\ ord[job[q].order].status # Absent
      BY <3>1 DEF JobsOK
    <3> QED
      BY <3>1, <3>2, <2>1 DEF TotalsOK
  <2>3. NeverUndercharged'
    <3> SUFFICES ASSUME r \notin Adjusts \cup Edits PROVE ord'[o].lines \subseteq ord'[o].sub
      BY <1>4 DEF NeverUndercharged, TotalsOK
    <3>1. CASE r \in Checkouts
      BY <3>1, <1>5, KindsDisjoint DEF OrderAfter
    <3>2. CASE r \in ItemCancels
      BY <3>2, <1>5, KindsDisjoint DEF OrderAfter, TotalsOK
    <3>3. CASE r \in Cancels \cup StatusUpdates
      BY <3>3, <1>1, <1>5, KindsDisjoint
      DEF OrderAfter, TypeOK, OrderRow, TotalsOK, NeverUndercharged
    <3> QED
      BY <3>1, <3>2, <3>3
  <2> QED
    BY <2>2, <2>3 DEF TotalsOK
<1>13. LedgerOK'
  <2>1. ASSUME NEW i \in Items PROVE Accounted(stock'[i])
    BY KindsDisjoint DEF TypeOK, LedgerOK
  <2>2. ASSUME NEW i \in Items, lock'[i] # NoOne PROVE Accounted(draft'[i])
    BY <2>2 DEF TypeOK, LedgerOK
  <2> QED
    BY <2>1, <2>2 DEF LedgerOK
<1>14. DeletionOK'
  <2> SUFFICES ASSUME NEW q \in ItemCancels, pc'[q] \in {"recount", "order", "commit"}
               PROVE  /\ line[q] \in ord'[job[q].order].lines
                      /\ \A s \in ItemCancels : s # q => ~Deleting(s, job[q].order, line[q])'
    BY DEF DeletionOK
  <2>1. pc'[q] = pc[q] /\ q # r
    BY DEF TypeOK
  <2>2. line[q] \in ord[job[q].order].lines
    BY <2>1 DEF DeletionOK
  <2>3. ASSUME NEW s \in ItemCancels, s # q PROVE ~Deleting(s, job[q].order, line[q])'
    BY <2>1, <2>3 DEF DeletionOK, Deleting, TypeOK
  <2>4. job[q].order \in Checkouts /\ ord[job[q].order].status # Absent
    BY <2>1 DEF JobsOK
  <2>5. line[q] \in ord'[job[q].order].lines
    <3>1. CASE r \in Adjusts \cup Edits \/ job[q].order # o
      BY <3>1, <2>2, <2>4, <1>4
    <3>2. CASE r \in Checkouts
      BY <3>2, <2>2, <2>4, <1>2, <1>4
    <3>3. CASE r \in ItemCancels /\ job[q].order = o
      <4>1. line[q] # line[r]
        BY <3>3, <2>1 DEF DeletionOK, Deleting
      <4> QED
        BY <4>1, <3>3, <2>2, <1>5, KindsDisjoint DEF OrderAfter
    <3>4. CASE r \in Cancels \cup StatusUpdates /\ job[q].order = o
      BY <3>4, <2>2, <1>1, <1>5, KindsDisjoint DEF OrderAfter, TypeOK, OrderRow
    <3> QED
      BY <3>1, <3>2, <3>3, <3>4
  <2> QED
    BY <2>3, <2>5
<1> QED
  BY <1>6, <1>8, <1>9, <1>10, <1>11, <1>12, <1>13, <1>14

-----------------------------------------------------------------------------
(* Every step preserves the invariant. *)

LEMMA StutterInv ==
  ASSUME IInv, UNCHANGED vars PROVE IInv'
BY DEF vars, IInv, TypeOK, JobsOK, OrdersOK, StockOK, RowOK, Item, Line, Seen, CouponOK,
       CouponUsedExact, TotalsOK, NeverUndercharged, LedgerOK, Accounted, DeletionOK, Deleting

LEMMA NextInv ==
  ASSUME IInv, [Next]_vars PROVE IInv'
<1>1. ASSUME NEW r \in Requests, Step(r) PROVE IInv'
  <2>1. pc[r] = "refuse" \/ pc[r] = "delete" => pc[r] \in InTransaction
    BY DEF InTransaction
  <2>2. InDeadlock(r) => pc[r] \in InTransaction
    BY DEF InDeadlock, Waiting, WaitsFor, InTransaction
  <2>3. InsufficientStock(r) \/ LineGone(r) \/ DeadlockVictim(r) => IInv'
    BY <2>1, <2>2, RollbackInv DEF InsufficientStock, LineGone, DeadlockVictim
  <2> QED
    BY <1>1, <2>3, ValidateLineInv, RejectInv, CalculateInv, LoadProductsInv, ReadStockInv,
       WriteStockInv, EditStockInv, IncrementUsageInv, DeleteLineInv, RecountInv, WriteOrderInv, CommitInv
    DEF Step
<1>2. ASSUME NEW r \in Requests, Arrive(r) PROVE IInv'
  BY <1>2, CheckoutInv, AdjustInv, EditProductInv, ReadOrderInv DEF Arrive
<1>3. ASSUME NEW r \in Requests, Timeout(r) PROVE IInv'
  BY <1>3, RollbackInv DEF Timeout
<1>4. ASSUME Quiet PROVE IInv'
  BY <1>4, StutterInv DEF Quiet
<1> QED
  BY <1>1, <1>2, <1>3, <1>4, StutterInv DEF Next

\* IInv is an invariant of every behaviour.
THEOREM Invariance == Spec => []IInv
<1>1. Init => IInv
  BY InitInv
<1>2. IInv /\ [Next]_vars => IInv'
  BY NextInv
<1> QED
  BY <1>1, <1>2, PTL DEF Spec

\* Every variable keeps its type.
THEOREM TypeCorrect == Spec => []TypeOK
<1>1. IInv => TypeOK
  BY DEF IInv
<1> QED
  BY <1>1, Invariance, PTL

\* No row whose stock was always counted ever goes negative (deductStock's check and
\* absolute write, beside restores, adjustments and product edits).
THEOREM StockNeverNegative == Spec => []ManagedNonNegative
<1>1. IInv => ManagedNonNegative
  BY DEF IInv, StockOK, RowOK, ManagedNonNegative
<1> QED
  BY <1>1, Invariance, PTL

\* From a write of the inventory service to the next product form, the inStock flag
\* of a counted row is exact.
THEOREM FlagTruthful == Spec => []InStockTruthful
<1>1. IInv => InStockTruthful
  BY DEF IInv, StockOK, RowOK, InStockTruthful
<1> QED
  BY <1>1, Invariance, PTL

\* The coupon's counter is the number of orders that carry it.
THEOREM CouponCountExact == Spec => []CouponUsedExact
<1>1. IInv => CouponUsedExact
  BY DEF IInv, CouponOK
<1> QED
  BY <1>1, Invariance, PTL

\* subTotal covers every line an order still has.
THEOREM OrdersNeverUndercharged == Spec => []NeverUndercharged
<1>1. IInv => NeverUndercharged
  BY DEF IInv, TotalsOK
<1> QED
  BY <1>1, Invariance, PTL

\* What forms have entered and what the log says add up to the quantity of every row no
\* write of which was overtaken.
THEOREM LedgerExplains == Spec => []LedgerExplainsStock
<1>1. IInv => LedgerExplainsStock
  BY DEF IInv, LedgerOK, Accounted, LedgerExplainsStock
<1> QED
  BY <1>1, Invariance, PTL

\* A committed item cancellation removes a line the order still had.
THEOREM ItemsCancelledOnce == Spec => ItemCancelledOnce
<1>1. IInv /\ [Next]_vars =>
        [\A r \in ItemCancels :
           pc[r] = "commit" /\ pc'[r] = "done" => line[r] \in ord[job[r].order].lines]_vars
  BY DEF IInv, DeletionOK
<1> QED
  BY <1>1, Invariance, PTL DEF Spec, ItemCancelledOnce

-----------------------------------------------------------------------------
(* OrderStock implements OrderBook: only a commit changes the order table,  *)
(* and each kind of request commits one step of the book.                   *)

LEMMA CheckoutCommitPlaces ==
  ASSUME IInv, NEW r \in Checkouts, Commit(r)
  PROVE  Book!Place(r, ord'[r].lines, ord'[r].coupon)
<1> USE DEF IInv, Commit
<1>1. job[r].order = r /\ job[r].cart # <<>> /\ job[r].cart \in Seq(CartLine)
  BY DEF JobsOK, TypeOK, Job
<1>2. ord[r].status = Absent
  BY DEF OrdersOK
<1>3. ord' = [ord EXCEPT ![r] =
               [status |-> "PENDING", lines |-> DOMAIN job[r].cart,
                sub |-> DOMAIN job[r].cart, coupon |-> withCoupon[r]]]
  BY <1>1, KindsDisjoint DEF OrderAfter
<1>4. ord'[r].lines = DOMAIN job[r].cart /\ ord'[r].coupon = withCoupon[r]
  BY <1>3 DEF TypeOK
<1>5. DOMAIN job[r].cart \in (SUBSET Nat) \ {{}}
  BY <1>1
<1>6. withCoupon[r] \in BOOLEAN
  BY DEF TypeOK
<1>7. couponLock = r <=> withCoupon[r]
  BY KindsDisjoint DEF CouponOK
<1>8. used' = IF withCoupon[r] THEN used + 1 ELSE used
  BY <1>7
<1> QED
  BY <1>2, <1>3, <1>4, <1>5, <1>6, <1>8 DEF Book!Place

LEMMA ItemCancelCommitDrops ==
  ASSUME IInv, NEW r \in ItemCancels, Commit(r)
  PROVE  \E o \in Checkouts : \E k \in ord[o].lines : Book!DropLine(o, k, ord'[o].sub)
<1> USE DEF IInv, Commit
<1> DEFINE o == job[r].order
<1>1. r \notin Checkouts /\ r \notin Adjusts \cup Edits
  BY KindsDisjoint
<1>2. o \in Checkouts /\ ord[o].status # Absent
  BY DEF JobsOK
<1>3. line[r] \in ord[o].lines
  BY DEF DeletionOK
<1>4. ord[o].lines \ {line[r]} \subseteq remaining[r]
  BY DEF TotalsOK
<1>5. ord' = [ord EXCEPT ![o] =
               [status |-> IF remaining[r] = {} THEN "CANCELED" ELSE ord[o].status,
                lines |-> ord[o].lines \ {line[r]}, sub |-> remaining[r],
                coupon |-> ord[o].coupon]]
  BY <1>1 DEF OrderAfter
<1>6. ord'[o].sub = remaining[r]
  BY <1>2, <1>5 DEF TypeOK
<1>7. ord[o] \in OrderRow
  BY <1>2 DEF TypeOK
<1>8. ord' = [ord EXCEPT ![o].lines = @ \ {line[r]}, ![o].sub = remaining[r],
                         ![o].status = IF remaining[r] = {} THEN "CANCELED" ELSE @]
  BY <1>2, <1>5, <1>7 DEF TypeOK, OrderRow
<1>9. couponLock # r
  BY <1>1, KindsDisjoint DEF CouponOK
<1> QED
  BY <1>2, <1>3, <1>4, <1>6, <1>8, <1>9 DEF Book!DropLine

LEMMA StatusCommitSets ==
  ASSUME IInv, NEW r \in Cancels \cup StatusUpdates, Commit(r)
  PROVE  \E o \in Checkouts, status \in Status : Book!SetStatus(o, status)
<1> USE DEF IInv, Commit
<1>1. r \notin Checkouts /\ r \notin Adjusts \cup Edits /\ r \notin ItemCancels
  BY KindsDisjoint
<1>2. job[r].order \in Checkouts /\ ord[job[r].order].status # Absent /\ job[r].status \in Status
  BY DEF JobsOK
<1>3. ord' = [ord EXCEPT ![job[r].order].status = job[r].status]
  BY <1>1, <1>2 DEF OrderAfter, TypeOK
<1>4. couponLock # r
  BY <1>1, KindsDisjoint DEF CouponOK
<1> QED
  BY <1>2, <1>3, <1>4 DEF Book!SetStatus

LEMMA AdjustCommitSkips ==
  ASSUME IInv, NEW r \in Adjusts \cup Edits, Commit(r) PROVE UNCHANGED <<ord, used>>
BY KindsDisjoint DEF IInv, Commit, CouponOK

\* Every step of OrderStock is a step of the book or leaves it alone.
LEMMA StepRefines ==
  ASSUME IInv, [Next]_vars PROVE [Book!Next]_<<ord, used>>
<1>1. ASSUME NEW r \in Requests, Commit(r) PROVE [Book!Next]_<<ord, used>>
  <2>1. CASE r \in Checkouts
    BY <1>1, <2>1, CheckoutCommitPlaces DEF Book!Next
  <2>2. CASE r \in ItemCancels
    BY <1>1, <2>2, ItemCancelCommitDrops DEF Book!Next
  <2>3. CASE r \in Cancels \cup StatusUpdates
    BY <1>1, <2>3, StatusCommitSets DEF Book!Next
  <2>4. CASE r \in Adjusts \cup Edits
    BY <1>1, <2>4, AdjustCommitSkips
  <2> QED
    BY <2>1, <2>2, <2>3, <2>4
<1>2. ASSUME NEW r \in Requests, Step(r) \/ Arrive(r) \/ Timeout(r), ~Commit(r)
      PROVE  UNCHANGED <<ord, used>>
  BY <1>2 DEF Step, Arrive, Timeout, Rollback, Checkout, ValidateLine, Reject, Calculate,
     ReadOrder, LoadProducts, Adjust, EditProduct, ReadStock, WriteStock, EditStock, InsufficientStock,
     IncrementUsage, DeleteLine, LineGone, Recount, WriteOrder, DeadlockVictim
<1>3. UNCHANGED vars => UNCHANGED <<ord, used>>
  BY DEF vars
<1> QED
  BY <1>1, <1>2, <1>3 DEF Next, Quiet

\* The detailed specification implements the abstract one (checkout,
\* cancelOrder, cancelOrderItem, updateStatus against the order table).
THEOREM OrderBookImplemented == Spec => ImplementsOrderBook
<1>1. Init => Book!Init
  BY DEF Init, Book!Init, Book!Unplaced, NoOrder
<1>2. IInv /\ [Next]_vars => [Book!Next]_<<ord, used>>
  BY StepRefines
<1> QED
  BY <1>1, <1>2, Invariance, PTL DEF Spec, ImplementsOrderBook, Book!Spec

-----------------------------------------------------------------------------
(* Everything an order asks for is taken from the log in the step in which *)
(* the order appears: ChargesOK holds besides IInv.                        *)

\* What the lines of a cart ask for of one item.
UnitsOf(cart, i) == [k \in DOMAIN cart |-> IF cart[k].item = i THEN cart[k].qty ELSE 0]

\* What a cart asks for in all but the lines t.
TakenBut(cart, i, t) == SumFunctionOnSet(UnitsOf(cart, i), DOMAIN cart \ t)

LEMMA CartSums ==
  ASSUME NEW cart \in Seq(CartLine), NEW i, NEW t
  PROVE  /\ IsFiniteSet(DOMAIN cart \ t)
         /\ \A k \in DOMAIN cart : UnitsOf(cart, i)[k] \in Int
         /\ TakenBut(cart, i, t) \in Int
<1>1. \A k \in DOMAIN cart : cart[k].qty \in Int
  BY CartElement DEF CartLine
<1>2. DOMAIN cart = 1 .. Len(cart) /\ Len(cart) \in Int
  OBVIOUS
<1>3. IsFiniteSet(DOMAIN cart)
  BY <1>2, FS_Interval
<1>4. IsFiniteSet(DOMAIN cart \ t)
  BY <1>3, FS_Subset
<1>5. \A k \in DOMAIN cart : UnitsOf(cart, i)[k] \in Int
  BY <1>1 DEF UnitsOf
<1>6. TakenBut(cart, i, t) \in Int
  BY <1>4, <1>5, SumType DEF TakenBut
<1> QED
  BY <1>4, <1>5, <1>6

LEMMA TakeLine ==
  ASSUME NEW cart \in Seq(CartLine), NEW i, NEW t \in SUBSET DOMAIN cart, NEW k \in t
  PROVE  TakenBut(cart, i, t \ {k}) =
           TakenBut(cart, i, t) + (IF cart[k].item = i THEN cart[k].qty ELSE 0)
<1> DEFINE u == UnitsOf(cart, i)
           S == DOMAIN cart \ (t \ {k})
<1>1. k \in S /\ S \ {k} = DOMAIN cart \ t
  OBVIOUS
<1>2. IsFiniteSet(S) /\ \A j \in S : u[j] \in Int
  BY CartSums
<1>3. SumFunctionOnSet(u, S) = u[k] + SumFunctionOnSet(u, S \ {k})
  <2> HIDE DEF u, S
  <2> QED
    BY <1>1, <1>2, SumSplit
<1>4. u[k] = (IF cart[k].item = i THEN cart[k].qty ELSE 0) /\ u[k] \in Int
  BY CartSums DEF UnitsOf
<1>5. SumFunctionOnSet(u, S \ {k}) \in Int
  BY <1>1, CartSums DEF TakenBut
<1>6. /\ TakenBut(cart, i, t \ {k}) = SumFunctionOnSet(u, S)
      /\ TakenBut(cart, i, t) = SumFunctionOnSet(u, S \ {k})
  BY <1>1 DEF TakenBut
<1> HIDE DEF u, S
<1> QED
  BY <1>3, <1>4, <1>5, <1>6

LEMMA TakeAll ==
  ASSUME NEW cart, NEW i
  PROVE  TakenBut(cart, i, DOMAIN cart) = 0
<1>1. DOMAIN cart \ DOMAIN cart = {}
  OBVIOUS
<1> QED
  BY <1>1, SumOfNone DEF TakenBut

\* The balance of a checkout with one row: the equation of ChargesOK.
Balanced(o, i) ==
  Seen(o, i).logged = stock[i].logged - TakenBut(job[o].cart, i, todo[o])

LEMMA ChargesBalance ==
  ChargesOK <=>
    /\ \A i \in Items : lock[i] # NoOne => pc[lock[i]] \in InTransaction
    /\ \A o \in Checkouts :
         /\ pc[o] = "write" => line[o] \in todo[o]
         /\ pc[o] \in {"coupon", "commit"} => todo[o] = {}
         /\ pc[o] \in InTransaction => \A i \in Items : Balanced(o, i)
BY DEF ChargesOK, Balanced, TakenBut, Units, UnitsOf

\* Whoever holds a stock row is in a transaction.
LEMMA HoldersStep ==
  ASSUME IInv, ChargesOK, NEW r \in Requests, Step(r) \/ Arrive(r) \/ Timeout(r),
         NEW i \in Items, lock'[i] # NoOne
  PROVE  pc'[lock'[i]] \in InTransaction
<1> USE DEF IInv, TypeOK
<1>0. lock[i] # NoOne => lock[i] \in Requests /\ pc[lock[i]] \in InTransaction
  BY DEF ChargesOK
<1>1. CASE WriteStock(r)
  <2>1. pc'[r] \in InTransaction
    BY <1>1 DEF WriteStock, StockWritten, InTransaction
  <2>2. lock'[i] = r \/ lock'[i] = lock[i]
    BY <1>1 DEF WriteStock
  <2> QED
    BY <1>0, <1>1, <2>1, <2>2 DEF WriteStock
<1>e. CASE EditStock(r)
  <2>1. pc'[r] \in InTransaction
    BY <1>e DEF EditStock, InTransaction
  <2>2. lock'[i] = r \/ lock'[i] = lock[i]
    BY <1>e DEF EditStock
  <2>3. \A q \in Requests \ {r} : pc'[q] = pc[q]
    BY <1>e DEF EditStock
  <2> QED
    BY <1>0, <2>1, <2>2, <2>3
<1>2. CASE Rollback(r)
  BY <1>0, <1>2 DEF Rollback
<1>3. CASE Commit(r)
  BY <1>0, <1>3 DEF Commit
<1>4. CASE UNCHANGED lock /\ (pc[r] \in InTransaction => pc'[r] \in InTransaction)
           /\ \A q \in Requests \ {r} : pc'[q] = pc[q]
  BY <1>0, <1>4
<1>5. CASE ValidateLine(r) \/ Reject(r) \/ Calculate(r) \/ LoadProducts(r) \/ Arrive(r)
  BY <1>4, <1>5 DEF ValidateLine, Reject, Calculate, LoadProducts, Arrive, Checkout, Adjust, EditProduct, ReadOrder,
    InTransaction
<1>6. CASE ReadStock(r) \/ IncrementUsage(r) \/ DeleteLine(r) \/ Recount(r) \/ WriteOrder(r)
  BY <1>4, <1>6 DEF ReadStock, IncrementUsage, DeleteLine, Recount, WriteOrder, InTransaction
<1>7. InsufficientStock(r) \/ LineGone(r) \/ DeadlockVictim(r) \/ Timeout(r) => Rollback(r)
  BY DEF InsufficientStock, LineGone, DeadlockVictim, Timeout
<1> QED
  BY <1>1, <1>e, <1>2, <1>3, <1>5, <1>6, <1>7 DEF Step

\* The step of another request leaves a checkout's balance alone.
LEMMA OthersBalance ==
  ASSUME IInv, ChargesOK, NEW r \in Requests, Step(r) \/ Arrive(r) \/ Timeout(r),
         NEW o \in Checkouts, o # r, pc[o] \in InTransaction, NEW i \in Items
  PROVE  Balanced(o, i)'
<1> USE DEF IInv, TypeOK
<1>0. Balanced(o, i) /\ o \in Requests
  BY ChargesBalance
<1>1. job'[o] = job[o] /\ todo'[o] = todo[o]
  BY DEF Step, Arrive, Timeout, ValidateLine, Reject, Calculate, LoadProducts, ReadStock, WriteStock,
    EditStock, InsufficientStock, IncrementUsage, DeleteLine, LineGone, Recount, WriteOrder, Commit,
    DeadlockVictim, Rollback, Checkout, Adjust, EditProduct, ReadOrder
<1>2. CASE UNCHANGED <<stock, draft, lock>>
  BY <1>0, <1>1, <1>2 DEF Balanced, Seen
<1>3. CASE WriteStock(r) \/ EditStock(r)
  <2>1. stock' = stock
    BY <1>3 DEF WriteStock, EditStock
  <2>2. Seen(o, i)' = Seen(o, i)
    <3>1. CASE WriteStock(r)
      BY <1>0, <3>1, OthersSee DEF WriteStock
    <3>2. CASE EditStock(r)
      BY <1>0, <3>2, OthersSee DEF EditStock
    <3> QED
      BY <1>3, <3>1, <3>2
  <2> QED
    BY <1>0, <1>1, <2>1, <2>2 DEF Balanced
<1>4. CASE Rollback(r)
  <2>1. lock'[i] = o <=> lock[i] = o
    BY <1>0, <1>4, KindsDisjoint DEF Rollback
  <2> QED
    BY <1>0, <1>1, <1>4, <2>1 DEF Rollback, Balanced, Seen
<1>5. CASE Commit(r)
  <2>1. (lock'[i] = o <=> lock[i] = o) /\ draft' = draft
    BY <1>0, <1>5, KindsDisjoint DEF Commit
  <2>2. CASE lock[i] = r
    <3>1. stock[i].logged = stock[i].logged - TakenBut(job[o].cart, i, todo[o])
      BY <1>0, <2>2 DEF Balanced, Seen
    <3>2. TakenBut(job[o].cart, i, todo[o]) \in Int /\ stock[i].logged \in Int
      BY CartSums DEF Job, StockRow
    <3>3. TakenBut(job[o].cart, i, todo[o]) = 0
      BY <3>1, <3>2
    <3>4. stock'[i] = draft[i] /\ draft[i].logged \in Int /\ lock'[i] # o
      BY <1>5, <2>1, <2>2 DEF Commit, StockRow
    <3> QED
      BY <1>1, <3>3, <3>4 DEF Balanced, Seen
  <2>3. CASE lock[i] # r
    BY <1>0, <1>1, <1>5, <2>1, <2>3 DEF Commit, Balanced, Seen
  <2> QED
    BY <2>2, <2>3
<1>6. InsufficientStock(r) \/ LineGone(r) \/ DeadlockVictim(r) \/ Timeout(r) => Rollback(r)
  BY DEF InsufficientStock, LineGone, DeadlockVictim, Timeout
<1>7. ValidateLine(r) \/ Reject(r) \/ Calculate(r) \/ LoadProducts(r) \/ Arrive(r) \/ ReadStock(r)
      \/ IncrementUsage(r) \/ DeleteLine(r) \/ Recount(r) \/ WriteOrder(r)
        => UNCHANGED <<stock, draft, lock>>
  BY DEF ValidateLine, Reject, Calculate, LoadProducts, Arrive, Checkout, Adjust, EditProduct, ReadOrder, ReadStock,
    IncrementUsage, DeleteLine, Recount, WriteOrder
<1> QED
  BY <1>2, <1>3, <1>4, <1>5, <1>6, <1>7 DEF Step

\* A checkout's own write takes what its line asks for.
LEMMA OwnWriteBalances ==
  ASSUME IInv, ChargesOK, NEW o \in Checkouts, WriteStock(o), NEW i \in Items
  PROVE  Balanced(o, i)'
<1> USE DEF IInv, TypeOK
<1> DEFINE cart == job[o].cart
           k == line[o]
<1>1. /\ Balanced(o, i) /\ o \in Requests /\ pc[o] = "write" /\ k \in todo[o]
      /\ cart \in Seq(CartLine) /\ todo[o] \in SUBSET DOMAIN cart
  BY ChargesBalance DEF WriteStock, InTransaction, JobsOK, Job
<1>2. job' = job /\ stock' = stock /\ todo'[o] = todo[o] \ {k}
  BY <1>1 DEF WriteStock
<1>3. TakenBut(cart, i, todo[o] \ {k}) =
        TakenBut(cart, i, todo[o]) + (IF cart[k].item = i THEN cart[k].qty ELSE 0)
  <2> DEFINE t == todo[o]
  <2>1. t \in SUBSET DOMAIN cart /\ k \in t /\ cart \in Seq(CartLine)
    BY <1>1
  <2> HIDE DEF cart, k, t
  <2>2. TakenBut(cart, i, t \ {k}) = TakenBut(cart, i, t) + (IF cart[k].item = i THEN cart[k].qty ELSE 0)
    BY <2>1, TakeLine
  <2> QED
    BY <2>2 DEF t
<1>4. cart[k] \in CartLine
  BY <1>1, CartElement
<1>5. TakenBut(cart, i, todo[o]) \in Int /\ stock[i].logged \in Int /\ cart[k].qty \in Int
  <2>1. stock[i].logged \in Int /\ cart[k].qty \in Int
    BY <1>4 DEF StockRow, CartLine
  <2>2. TakenBut(cart, i, todo[o]) \in Int
    BY <1>1, CartSums
  <2> QED
    BY <2>1, <2>2
<1>6. CASE Item(o) = i
  <2>1. lock'[i] = o /\ draft'[i] = Rewritten(o)
    BY <1>6 DEF WriteStock
  <2>2. Rewritten(o).logged = Seen(o, i).logged + ((before[o] - cart[k].qty) - before[o])
    <3>1. After(o) = before[o] - cart[k].qty
      BY KindsDisjoint DEF After, Line
    <3>2. Rewritten(o).logged = Seen(o, i).logged + (After(o) - before[o])
      BY <1>6 DEF Rewritten
    <3> QED
      BY <3>1, <3>2
  <2>3. before[o] \in Int
    OBVIOUS
  <2>4. cart[k].item = i
    BY <1>6 DEF Item, Line
  <2>5. Seen(o, i)' = Rewritten(o)
    BY <2>1 DEF Seen
  <2>6. Rewritten(o).logged = stock[i].logged - TakenBut(cart, i, todo[o] \ {k})
    <3> DEFINE T == TakenBut(cart, i, todo[o])
               T2 == TakenBut(cart, i, todo[o] \ {k})
               q == cart[k].qty
               s == stock[i].logged
               b == before[o]
    <3>1. T \in Int /\ q \in Int /\ s \in Int /\ b \in Int /\ T2 = T + q
      BY <1>3, <1>5, <2>3, <2>4
    <3>2. Rewritten(o).logged = (s - T) + ((b - q) - b)
      BY <1>1, <2>2 DEF Balanced
    <3> HIDE DEF T, T2, q, s, b
    <3>3. Rewritten(o).logged = s - T2
      BY <3>1, <3>2
    <3> QED
      BY <3>3 DEF T2, s
  <2> QED
    BY <1>2, <2>5, <2>6 DEF Balanced
<1>7. CASE Item(o) # i
  <2>1. cart[k].item # i
    BY <1>7 DEF Item, Line
  <2>2. TakenBut(cart, i, todo[o] \ {k}) = TakenBut(cart, i, todo[o])
    BY <1>3, <1>5, <2>1
  <2>3. lock'[i] = lock[i] /\ draft'[i] = draft[i]
    BY <1>7 DEF WriteStock
  <2> QED
    BY <1>1, <1>2, <2>2, <2>3 DEF Balanced, Seen
<1> QED
  BY <1>6, <1>7

\* A checkout's other steps.
LEMMA OwnBalance ==
  ASSUME IInv, ChargesOK, NEW o \in Checkouts, Step(o) \/ Arrive(o) \/ Timeout(o),
         pc'[o] \in InTransaction, NEW i \in Items
  PROVE  Balanced(o, i)'
<1> USE DEF IInv, TypeOK
<1>0. o \in Requests /\ o \notin Cancels \cup ItemCancels \cup StatusUpdates \cup Adjusts \cup Edits
  BY KindsDisjoint
<1>1. CASE Calculate(o)
  <2>1. pc[o] = "validate" /\ job' = job /\ stock' = stock /\ lock' = lock
        /\ todo'[o] = DOMAIN job[o].cart
    BY <1>1 DEF Calculate
  <2>2. lock[i] # o
    BY <1>0, <2>1, KindsDisjoint DEF ChargesOK, InTransaction
  <2>3. stock[i].logged \in Int
    BY DEF StockRow
  <2> QED
    BY <2>1, <2>2, <2>3, TakeAll DEF Balanced, Seen
<1>2. CASE WriteStock(o)
  BY <1>2, OwnWriteBalances
<1>3. CASE pc[o] \in InTransaction /\ UNCHANGED <<stock, draft, lock, job, todo>>
  <2>1. Balanced(o, i)
    BY <1>3, ChargesBalance
  <2> QED
    BY <1>3, <2>1 DEF Balanced, Seen
<1>4. CASE ReadStock(o) \/ IncrementUsage(o) \/ DeleteLine(o) \/ Recount(o) \/ WriteOrder(o)
  BY <1>3, <1>4 DEF ReadStock, IncrementUsage, DeleteLine, Recount, WriteOrder, InTransaction
<1>5. ~Rollback(o) /\ ~Commit(o) /\ ~Reject(o) /\ ~ValidateLine(o)
  BY DEF Rollback, Commit, Reject, ValidateLine, InTransaction
<1>6. ~LoadProducts(o) /\ ~Arrive(o)
  BY <1>0 DEF LoadProducts, Arrive, Checkout, Adjust, EditProduct, ReadOrder, InTransaction
<1>7. ~InsufficientStock(o) /\ ~LineGone(o) /\ ~DeadlockVictim(o) /\ ~Timeout(o) /\ ~EditStock(o)
  BY <1>0, <1>5, KindsDisjoint DEF InsufficientStock, LineGone, DeadlockVictim, Timeout, EditStock, JobsOK
<1> QED
  BY <1>1, <1>2, <1>4, <1>5, <1>6, <1>7 DEF Step
\* A line is written once, and all of them are when a checkout goes on to its coupon or commits.
LEMMA LinesStep ==
  ASSUME IInv, ChargesOK, NEW r \in Requests, Step(r) \/ Arrive(r) \/ Timeout(r),
         NEW o \in Checkouts
  PROVE  /\ pc'[o] = "write" => line'[o] \in todo'[o]
         /\ pc'[o] \in {"coupon", "commit"} => todo'[o] = {}
<1> USE DEF IInv, TypeOK
<1>0. /\ pc[o] = "write" => line[o] \in todo[o]
      /\ pc[o] \in {"coupon", "commit"} => todo[o] = {}
      /\ o \in Requests /\ o \notin Cancels \cup ItemCancels \cup StatusUpdates \cup Adjusts \cup Edits
  BY KindsDisjoint DEF ChargesOK
<1>1. CASE o # r
  <2>1. line'[o] = line[o] /\ todo'[o] = todo[o] /\ pc'[o] = pc[o]
    BY <1>1 DEF Step, Arrive, Timeout, ValidateLine, Reject, Calculate, LoadProducts, ReadStock,
      WriteStock, EditStock, InsufficientStock, IncrementUsage, DeleteLine, LineGone, Recount, WriteOrder, Commit,
      DeadlockVictim, Rollback, Checkout, Adjust, EditProduct, ReadOrder
  <2> QED
    BY <1>0, <2>1
<1>2. CASE o = r
  <2>1. CASE ReadStock(o)
    <3>1. PICK k \in NextLines(o) : line' = [line EXCEPT ![o] = k]
      BY <2>1 DEF ReadStock
    <3>2. k \in todo[o]
      BY <3>1 DEF NextLines
    <3> QED
      BY <1>0, <2>1, <3>1, <3>2 DEF ReadStock
  <2>2. CASE WriteStock(o)
    <3>1. StockWritten(o) # "write"
      BY DEF StockWritten
    <3> QED
      BY <1>0, <2>2, <3>1 DEF WriteStock
  <2>3. CASE IncrementUsage(o)
    BY <1>0, <2>3 DEF IncrementUsage
  <2>4. CASE pc'[o] \notin {"write", "coupon", "commit"}
    BY <2>4
  <2>5. DeleteLine(o) \/ Recount(o) \/ Calculate(o) \/ Reject(o) \/ Rollback(o) \/ Commit(o)
          => pc'[o] \notin {"write", "coupon", "commit"}
    BY <1>0 DEF DeleteLine, Recount, Calculate, Reject, Rollback, Commit
  <2>6. ValidateLine(o) \/ Checkout(o) => pc'[o] \notin {"write", "coupon", "commit"}
    BY <1>0 DEF ValidateLine, Checkout
  <2>7. ~WriteOrder(o)
    BY <1>0 DEF WriteOrder, JobsOK
  <2>8. Arrive(o) => Checkout(o)
    BY <1>0 DEF Arrive, ReadOrder
  <2>9. ~LoadProducts(o) /\ ~EditStock(o)
    BY <1>0, KindsDisjoint DEF LoadProducts, EditStock, JobsOK
  <2>10. InsufficientStock(o) \/ LineGone(o) \/ DeadlockVictim(o) \/ Timeout(o) => Rollback(o)
    BY DEF InsufficientStock, LineGone, DeadlockVictim, Timeout
  <2> QED
    BY <1>2, <2>1, <2>2, <2>3, <2>4, <2>5, <2>6, <2>7, <2>8, <2>9, <2>10 DEF Step
<1> QED
  BY <1>1, <1>2

LEMMA ChargesStep ==
  ASSUME IInv, ChargesOK, [Next]_vars
  PROVE  ChargesOK'
<1>1. CASE UNCHANGED vars
  BY <1>1 DEF vars, ChargesOK, Seen, Units
<1>2. ASSUME NEW r \in Requests, Step(r) \/ Arrive(r) \/ Timeout(r)
      PROVE  ChargesOK'
  <2>1. \A i \in Items : lock'[i] # NoOne => pc'[lock'[i]] \in InTransaction
    BY <1>2, HoldersStep
  <2>2. ASSUME NEW o \in Checkouts
        PROVE  /\ pc'[o] = "write" => line'[o] \in todo'[o]
               /\ pc'[o] \in {"coupon", "commit"} => todo'[o] = {}
    BY <1>2, LinesStep
  <2>3. ASSUME NEW o \in Checkouts, pc'[o] \in InTransaction, NEW i \in Items
        PROVE  Balanced(o, i)'
    <3>1. CASE o = r
      BY <1>2, <2>3, <3>1, OwnBalance
    <3>2. CASE o # r
      <4>1. pc'[o] = pc[o]
        BY <1>2, <3>2 DEF IInv, TypeOK, Step, Arrive, Timeout, ValidateLine, Reject, Calculate,
          LoadProducts, ReadStock, WriteStock, EditStock, InsufficientStock, IncrementUsage, DeleteLine, LineGone,
          Recount, WriteOrder, Commit, DeadlockVictim, Rollback, Checkout, Adjust, EditProduct, ReadOrder
      <4> QED
        BY <1>2, <2>3, <3>2, <4>1, OthersBalance
    <3> QED
      BY <3>1, <3>2
  <2> QED
    BY <2>1, <2>2, <2>3 DEF ChargesOK, Balanced, TakenBut, Units, UnitsOf
<1> QED
  BY <1>1, <1>2 DEF Next, Quiet

\* An order appears in the very step in which the log takes all that its lines ask for, whatever
\* adjustments, cancellations and other checkouts overlap (checkout's transaction).
THEOREM PlacedOrdersCharged == Spec => PlacedOrderCharged
<1>1. Init => ChargesOK
  BY DEF Init, ChargesOK, InTransaction
<1>2. IInv /\ ChargesOK /\ [Next]_vars =>
        [\A o \in Checkouts :
           ord[o].status = Absent /\ ord'[o].status # Absent =>
             \A i \in Items : stock'[i].logged = stock[i].logged - Ordered(o, i)]_vars
  <2> SUFFICES ASSUME IInv, ChargesOK, Next, NEW o \in Checkouts, NEW i \in Items,
                      ord[o].status = Absent, ord'[o].status # Absent
               PROVE  stock'[i].logged = stock[i].logged - Ordered(o, i)
    BY DEF vars
  <2> USE DEF IInv, TypeOK
  <2>1. PICK r \in Requests : Commit(r)
    BY DEF Next, Quiet, vars, Step, Arrive, Timeout, ValidateLine, Reject, Calculate, LoadProducts,
      ReadStock, WriteStock, EditStock, InsufficientStock, IncrementUsage, DeleteLine, LineGone, Recount,
      WriteOrder, DeadlockVictim, Rollback, Checkout, Adjust, EditProduct, ReadOrder
  <2>2. pc[r] = "commit" /\ job[r].order = o /\ r \notin Adjusts \cup Edits
    BY <2>1 DEF Commit
  <2>3. r = o
    BY <2>2, KindsDisjoint DEF JobsOK
  <2>4. todo[o] = {} /\ Balanced(o, i)
    BY <2>2, <2>3, ChargesBalance DEF InTransaction
  <2>5. DOMAIN job[o].cart \ {} = DOMAIN job[o].cart
    OBVIOUS
  <2>6. Seen(o, i).logged = stock[i].logged - Ordered(o, i)
    BY <2>4, <2>5 DEF Balanced, TakenBut, UnitsOf, Ordered, Units
  <2>7. stock'[i] = Seen(o, i)
    BY <2>1, <2>3 DEF Commit, Seen
  <2> QED
    BY <2>6, <2>7
<1>3. Spec => []ChargesOK
  BY <1>1, ChargesStep, Invariance, PTL DEF Spec
<1> QED
  BY <1>2, <1>3, Invariance, PTL DEF Spec, PlacedOrderCharged
=============================================================================
