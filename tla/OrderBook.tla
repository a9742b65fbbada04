------------------------------ MODULE OrderBook ------------------------------
(***************************************************************************)
(* What the order service promises about its orders, whatever requests     *)
(* overlap: every change of the order table, with the coupon counter, is   *)
(* one of three steps that take effect at once.  OrderStock implements it.  *)
(***************************************************************************)
EXTENDS Naturals

CONSTANTS
  Orders,    \* identities of orders
  Status,    \* OrderStatus
  Absent     \* status of an order that has not been placed

VARIABLES
  book,      \* the orders: status, lines left, lines the bill covers, coupon
  used       \* orders the coupon was spent on

Unplaced == [status |-> Absent, lines |-> {}, sub |-> {}, coupon |-> FALSE]

Init ==
  /\ book = [o \in Orders |-> Unplaced]
  /\ used = 0

\* An order comes into being with all its lines billed, and spends the coupon
\* in the same step if it uses it.
Place(o, lines, coupon) ==
  /\ book[o].status = Absent
  /\ lines \in (SUBSET Nat) \ {{}} /\ coupon \in BOOLEAN
  /\ book' = [book EXCEPT ![o] = [status |-> "PENDING", lines |-> lines, sub |-> lines,
                                  coupon |-> coupon]]
  /\ used' = IF coupon THEN used + 1 ELSE used

\* One line leaves an order; the new bill covers at least the lines that are
\* left, and the order is cancelled when it covers none.
DropLine(o, k, billed) ==
  /\ book[o].status # Absent
  /\ k \in book[o].lines
  /\ book[o].lines \ {k} \subseteq billed
  /\ book' = [book EXCEPT ![o].lines = @ \ {k},
                          ![o].sub = billed,
                          ![o].status = IF billed = {} THEN "CANCELED" ELSE @]
  /\ UNCHANGED used

\* A cancellation or an administrator gives an order another status: its lines,
\* its bill and its coupon stay.
SetStatus(o, status) ==
  /\ book[o].status # Absent
  /\ book' = [book EXCEPT ![o].status = status]
  /\ UNCHANGED used

\* Which lines are placed, and what a bill covers, is read off the next state.
Next ==
  \E o \in Orders :
    \/ Place(o, book'[o].lines, book'[o].coupon)
    \/ \E k \in book[o].lines : DropLine(o, k, book'[o].sub)
    \/ \E status \in Status : SetStatus(o, status)

Spec == Init /\ [][Next]_<<book, used>>
=============================================================================
