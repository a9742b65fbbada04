---------------------------- MODULE MCOrderStock ----------------------------
(* Instances of OrderStock for TLC. *)
EXTENDS OrderStock, TLC

CONSTANTS i1, i2

Stock(n1, n2) == i1 :> n1 @@ i2 :> n2
OneEach == Stock(1, 1)
TwoAndOne == Stock(2, 1)

L(i, q) == [item |-> i, qty |-> q]

\* Opposite and disjoint lock orders; carts with two lines, also of one item; a single line.
CrossedCarts == {<<L(i1, 1), L(i2, 1)>>, <<L(i2, 1), L(i1, 1)>>, <<L(i1, 1)>>, <<L(i2, 1)>>}
CancelCarts == {<<L(i1, 1), L(i2, 1)>>, <<L(i1, 1), L(i1, 1)>>}
SingleCarts == {<<L(i1, 1)>>}

\* A form that leaves an item with no unit and on sale, a quantity nobody checks, a
\* bulk edit that stops counting both rows.
F(cart, fields) == [cart |-> cart, fields |-> fields]
Forms == {F(<<L(i1, 0)>>, {"qty", "inStock"}), F(<<L(i1, -1)>>, {"qty"}),
          F(<<L(i1, 0), L(i2, 0)>>, {"unmanage"})}

\* Bound: of the requests of an instance, at most four are served in one behaviour.
FourRequests == Cardinality({r \in Requests : pc[r] # "idle"}) <= 4

\* Item cancellations are interchangeable.
TwinCancels == Permutations(ItemCancels)
=============================================================================
