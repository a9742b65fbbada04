----------------------------- MODULE MCPricing -----------------------------
(* One or two rows of each table.  Each desk holds what one service edits, *)
(* with a product that uses it.  At the pricing desks a checkout is priced *)
(* while coupons and prices are edited, with three tax rates of which two  *)
(* apply, and while a rate, its class and the product are edited.          *)
EXTENDS Pricing, TLC

CONSTANTS b1, b2, t1, t2, s1, a1, a2, w1, y1, y2, z1, c1, x1, x2, x3, p1, p2, v1, m1, m2, k1, k2, r1, r2, r3

MCParent == (a1 :> s1) @@ (a2 :> s1) @@ (w1 :> a1) @@ (z1 :> y1) @@ (x1 :> c1) @@ (x2 :> c1)
              @@ (x3 :> c1) @@ (v1 :> p1)
MCPricingDesks == {{p2}, {c1, x1, x2, x3, p2}, {c1, x2, p2}}
MCCatalogDesks == {{b1, p1}, {b1, m1, m2}, {b1, b2}, {t1, p1}, {t1, t2}, {s1, a1, a2}, {s1, a1, w1, p1},
            {y1, z1, p1}, {y1, y2, p1}, {c1, x1, x2}, {c1, p1}, {m1, p1, v1}}
MCDesks == MCCatalogDesks \cup MCPricingDesks
MCBudget == [d \in MCDesks |-> IF d = {c1, x2, p2} THEN 1 ELSE IF d \in MCPricingDesks THEN 0
                         ELSE IF d = {y1, y2, p1} THEN 2 ELSE 3]
MCMaxEdits == [d \in MCPricingDesks |-> IF d = {p2} THEN 2 ELSE 0]
MCSymmetry == Permutations({r1, r2, r3}) \cup Permutations({k1, k2})

MCTerms ==
  {[type |-> "FIXED", value |-> 300, free |-> FALSE, min |-> 0, max |-> None, limit |-> 0,
    products |-> {}],
   [type |-> "FIXED", value |-> 20, free |-> FALSE, min |-> 100, max |-> None, limit |-> 0,
    products |-> {}],
   [type |-> "PERCENT", value |-> 50, free |-> TRUE, min |-> 100, max |-> 200, limit |-> 1,
    products |-> {p2}]}
\* In its window the second takes off more than there is.
MCPrices ==
  {[base |-> 200, special |-> 50, type |-> "PERCENT"],
   [base |-> 400, special |-> 150, type |-> "PERCENT"]}
MCShippingRules ==
  {[type |-> "PRICE_BASED", base |-> 60, minimum |-> 200],
   [type |-> "WEIGHT_BASED", base |-> 40, minimum |-> 0]}
MCRateValue == (x1 :> 10) @@ (x2 :> 5) @@ (x3 :> 20)
\* The first two apply to a checkout, the last, of a city, to none.
Anywhere == [country |-> "*", state |-> "*", city |-> "*", zip |-> "*"]
MCRateLocation ==
  (x1 :> Anywhere) @@ (x2 :> [Anywhere EXCEPT !.country = "division", !.state = "city"])
    @@ (x3 :> [Anywhere EXCEPT !.city = "city"])
=============================================================================
