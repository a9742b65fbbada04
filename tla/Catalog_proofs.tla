---------------------------- MODULE Catalog_proofs ----------------------------
(***************************************************************************)
(* The catalog, and the coupons of a checkout over it, for any tables,     *)
(* desks and number of overlapping requests: CatalogInv is inductive.      *)
(***************************************************************************)
EXTENDS Pricing, SumTheorems

-----------------------------------------------------------------------------
(* The tables. *)

LEMMA TablesDistinct ==
  \A i :
    /\ i \in Tags =>
         /\ i \notin Brands
    /\ i \in AttributeSets =>
         /\ i \notin Brands /\ i \notin Tags
    /\ i \in Attributes =>
         /\ i \notin Brands /\ i \notin Tags /\ i \notin AttributeSets
    /\ i \in AttributeValues =>
         /\ i \notin Brands /\ i \notin Tags /\ i \notin AttributeSets
         /\ i \notin Attributes
    /\ i \in Variations =>
         /\ i \notin Brands /\ i \notin Tags /\ i \notin AttributeSets
         /\ i \notin Attributes /\ i \notin AttributeValues
    /\ i \in VariationValues =>
         /\ i \notin Brands /\ i \notin Tags /\ i \notin AttributeSets
         /\ i \notin Attributes /\ i \notin AttributeValues
         /\ i \notin Variations
    /\ i \in TaxClasses =>
         /\ i \notin Brands /\ i \notin Tags /\ i \notin AttributeSets
         /\ i \notin Attributes /\ i \notin AttributeValues
         /\ i \notin Variations /\ i \notin VariationValues
    /\ i \in TaxRates =>
         /\ i \notin Brands /\ i \notin Tags /\ i \notin AttributeSets
         /\ i \notin Attributes /\ i \notin AttributeValues
         /\ i \notin Variations /\ i \notin VariationValues
         /\ i \notin TaxClasses
    /\ i \in Products =>
         /\ i \notin Brands /\ i \notin Tags /\ i \notin AttributeSets
         /\ i \notin Attributes /\ i \notin AttributeValues
         /\ i \notin Variations /\ i \notin VariationValues
         /\ i \notin TaxClasses /\ i \notin TaxRates
    /\ i \in Variants =>
         /\ i \notin Brands /\ i \notin Tags /\ i \notin AttributeSets
         /\ i \notin Attributes /\ i \notin AttributeValues
         /\ i \notin Variations /\ i \notin VariationValues
         /\ i \notin TaxClasses /\ i \notin TaxRates /\ i \notin Products
    /\ i \in Media =>
         /\ i \notin Brands /\ i \notin Tags /\ i \notin AttributeSets
         /\ i \notin Attributes /\ i \notin AttributeValues
         /\ i \notin Variations /\ i \notin VariationValues
         /\ i \notin TaxClasses /\ i \notin TaxRates /\ i \notin Products
         /\ i \notin Variants
<1> SUFFICES ASSUME NEW i
             PROVE  /\ i \in Tags =>
                         /\ i \notin Brands
                    /\ i \in AttributeSets =>
                         /\ i \notin Brands /\ i \notin Tags
                    /\ i \in Attributes =>
                         /\ i \notin Brands /\ i \notin Tags
                         /\ i \notin AttributeSets
                    /\ i \in AttributeValues =>
                         /\ i \notin Brands /\ i \notin Tags
                         /\ i \notin AttributeSets /\ i \notin Attributes
                    /\ i \in Variations =>
                         /\ i \notin Brands /\ i \notin Tags
                         /\ i \notin AttributeSets /\ i \notin Attributes
                         /\ i \notin AttributeValues
                    /\ i \in VariationValues =>
                         /\ i \notin Brands /\ i \notin Tags
                         /\ i \notin AttributeSets /\ i \notin Attributes
                         /\ i \notin AttributeValues
                         /\ i \notin Variations
                    /\ i \in TaxClasses =>
                         /\ i \notin Brands /\ i \notin Tags
                         /\ i \notin AttributeSets /\ i \notin Attributes
                         /\ i \notin AttributeValues
                         /\ i \notin Variations
                         /\ i \notin VariationValues
                    /\ i \in TaxRates =>
                         /\ i \notin Brands /\ i \notin Tags
                         /\ i \notin AttributeSets /\ i \notin Attributes
                         /\ i \notin AttributeValues
                         /\ i \notin Variations
                         /\ i \notin VariationValues
                         /\ i \notin TaxClasses
                    /\ i \in Products =>
                         /\ i \notin Brands /\ i \notin Tags
                         /\ i \notin AttributeSets /\ i \notin Attributes
                         /\ i \notin AttributeValues
                         /\ i \notin Variations
                         /\ i \notin VariationValues
                         /\ i \notin TaxClasses /\ i \notin TaxRates
                    /\ i \in Variants =>
                         /\ i \notin Brands /\ i \notin Tags
                         /\ i \notin AttributeSets /\ i \notin Attributes
                         /\ i \notin AttributeValues
                         /\ i \notin Variations
                         /\ i \notin VariationValues
                         /\ i \notin TaxClasses /\ i \notin TaxRates
                         /\ i \notin Products
                    /\ i \in Media =>
                         /\ i \notin Brands /\ i \notin Tags
                         /\ i \notin AttributeSets /\ i \notin Attributes
                         /\ i \notin AttributeValues
                         /\ i \notin Variations
                         /\ i \notin VariationValues
                         /\ i \notin TaxClasses /\ i \notin TaxRates
                         /\ i \notin Products /\ i \notin Variants
  OBVIOUS
<1>1. i \in Tags =>
       /\ i \notin Brands
  BY TablesAssumption
<1>2. i \in AttributeSets =>
       /\ i \notin Brands /\ i \notin Tags
  BY TablesAssumption
<1>3. i \in Attributes =>
       /\ i \notin Brands /\ i \notin Tags /\ i \notin AttributeSets
  BY TablesAssumption
<1>4. i \in AttributeValues =>
       /\ i \notin Brands /\ i \notin Tags /\ i \notin AttributeSets
       /\ i \notin Attributes
  BY TablesAssumption
<1>5. i \in Variations =>
       /\ i \notin Brands /\ i \notin Tags /\ i \notin AttributeSets
       /\ i \notin Attributes /\ i \notin AttributeValues
  BY TablesAssumption
<1>6. i \in VariationValues =>
       /\ i \notin Brands /\ i \notin Tags /\ i \notin AttributeSets
       /\ i \notin Attributes /\ i \notin AttributeValues
       /\ i \notin Variations
  BY TablesAssumption
<1>7. i \in TaxClasses =>
       /\ i \notin Brands /\ i \notin Tags /\ i \notin AttributeSets
       /\ i \notin Attributes /\ i \notin AttributeValues
       /\ i \notin Variations /\ i \notin VariationValues
  BY TablesAssumption
<1>8. i \in TaxRates =>
       /\ i \notin Brands /\ i \notin Tags /\ i \notin AttributeSets
       /\ i \notin Attributes /\ i \notin AttributeValues
       /\ i \notin Variations /\ i \notin VariationValues
       /\ i \notin TaxClasses
  BY TablesAssumption
<1>9. i \in Products =>
       /\ i \notin Brands /\ i \notin Tags /\ i \notin AttributeSets
       /\ i \notin Attributes /\ i \notin AttributeValues
       /\ i \notin Variations /\ i \notin VariationValues
       /\ i \notin TaxClasses /\ i \notin TaxRates
  BY TablesAssumption
<1>10. i \in Variants =>
       /\ i \notin Brands /\ i \notin Tags /\ i \notin AttributeSets
       /\ i \notin Attributes /\ i \notin AttributeValues
       /\ i \notin Variations /\ i \notin VariationValues
       /\ i \notin TaxClasses /\ i \notin TaxRates /\ i \notin Products
  BY TablesAssumption
<1>11. i \in Media =>
       /\ i \notin Brands /\ i \notin Tags /\ i \notin AttributeSets
       /\ i \notin Attributes /\ i \notin AttributeValues
       /\ i \notin Variations /\ i \notin VariationValues
       /\ i \notin TaxClasses /\ i \notin TaxRates /\ i \notin Products
       /\ i \notin Variants
  BY TablesAssumption
<1> QED
  BY <1>1, <1>2, <1>3, <1>4, <1>5, <1>6, <1>7, <1>8, <1>9, <1>10, <1>11

LEMMA IsRow ==
  \A i : i \in Rows <=>
    \/ i \in Brands \/ i \in Tags \/ i \in AttributeSets \/ i \in Attributes
    \/ i \in AttributeValues \/ i \in Variations \/ i \in VariationValues \/ i \in TaxClasses
    \/ i \in TaxRates \/ i \in Products \/ i \in Variants \/ i \in Media
BY DEF Rows

LEMMA IsNamed ==
  \A i : i \in UNION Named <=>
    \/ i \in Brands \/ i \in Tags \/ i \in AttributeSets \/ i \in Attributes \/ i \in Variations
    \/ i \in TaxClasses \/ i \in TaxRates \/ i \in Products
BY DEF Named

LEMMA IsClassifier ==
  \A i : i \in Classifiers <=>
    i \in Brands \/ i \in TaxClasses \/ i \in Tags \/ i \in Attributes \/ i \in AttributeValues
BY DEF Classifiers

LEMMA IsChild ==
  \A i : i \in DOMAIN Parent <=>
    \/ i \in Attributes \/ i \in AttributeValues \/ i \in VariationValues \/ i \in TaxRates
    \/ i \in Variants
BY ParentAssumption

LEMMA ParentRows ==
  /\ \A i \in DOMAIN Parent : i \in Rows /\ Parent[i] \in Rows
  /\ \A i : Children(i) \subseteq Rows
<1>1. \A i \in DOMAIN Parent : i \in Rows /\ Parent[i] \in Rows
  BY ParentAssumption, IsChild, IsRow
<1> QED
  BY <1>1 DEF Children

\* Children are the other end of a foreign key.
LEMMA ChildrenOf ==
  \A i, c : c \in Children(i) =>
    /\ c \in DOMAIN Parent /\ Parent[c] = i
    /\ i \in AttributeSets => c \in Attributes
    /\ i \in Attributes => c \in AttributeValues
    /\ i \in Variations => c \in VariationValues
    /\ i \in TaxClasses => c \in TaxRates
    /\ i \in Products => c \in Variants
    /\ \/ i \in AttributeSets \/ i \in Attributes \/ i \in Variations \/ i \in TaxClasses
       \/ i \in Products
<1> SUFFICES ASSUME NEW i, NEW c \in Children(i)
             PROVE  /\ c \in DOMAIN Parent /\ Parent[c] = i
                    /\ i \in AttributeSets => c \in Attributes
                    /\ i \in Attributes => c \in AttributeValues
                    /\ i \in Variations => c \in VariationValues
                    /\ i \in TaxClasses => c \in TaxRates
                    /\ i \in Products => c \in Variants
                    /\ \/ i \in AttributeSets \/ i \in Attributes \/ i \in Variations
                       \/ i \in TaxClasses \/ i \in Products
  OBVIOUS
<1>1. c \in DOMAIN Parent /\ Parent[c] = i
  BY DEF Children
<1> QED
  BY <1>1, IsChild, ParentAssumption, TablesDistinct

LEMMA PeersAre ==
  \A i : \A j \in Peers(i) :
    /\ j # i /\ i \in UNION Named /\ j \in UNION Named /\ i \in Peers(j)
    /\ i \in Unindexed <=> j \in Unindexed
    /\ j \in Rows
<1> SUFFICES ASSUME NEW i, NEW j \in Peers(i)
             PROVE  /\ j # i /\ i \in UNION Named /\ j \in UNION Named /\ i \in Peers(j)
                    /\ i \in Unindexed <=> j \in Unindexed
                    /\ j \in Rows
  OBVIOUS
<1>1. PICK T \in Named : i \in T /\ j \in T
  BY DEF Peers
<1>2. j # i /\ (i \in Attributes \cup TaxRates => Parent[j] = Parent[i])
  BY DEF Peers
<1>3. /\ i \in Attributes <=> j \in Attributes
      /\ i \in TaxRates <=> j \in TaxRates
      /\ i \in TaxClasses <=> j \in TaxClasses
  BY <1>1, TablesDistinct DEF Named
<1>4. i \in UNION Named /\ j \in UNION Named
  BY <1>1
<1>5. i \in Peers(j)
  BY <1>1, <1>2, <1>3 DEF Peers
<1> QED
  BY <1>2, <1>3, <1>4, <1>5, IsNamed, IsRow DEF Unindexed

-----------------------------------------------------------------------------
(* The kinds of step a handler is made of. *)

Steps == {"check", "row", "link", "unlink", "children", "values", "files"}

Others(r) == DOMAIN req' = Requests /\ \A q \in Requests \ {r} : req'[q] = req[q]

Ends(r) == Others(r) /\ req'[r] = Over

Goes(r, slug, next) ==
  /\ Others(r)
  /\ req'[r] \in RequestType
  /\ req'[r].verb = req[r].verb /\ req'[r].id = req[r].id /\ req'[r].slug = slug
  /\ req'[r].refs = req[r].refs /\ req'[r].given = req[r].given /\ req'[r].step = next

Quits(r) == Ends(r) /\ UNCHANGED <<row, link, files, desk, screen, overtaken>>

\* What a handler has made sure of when it goes on from its checks.
Checked(r, slug, next) ==
  LET q == req[r] IN
  /\ slug = q.slug \/ q.id \in Variations \/ q.id \in Products
  /\ q.verb # "remove" /\ q.id \in Unindexed => SlugFree(q.id, slug)
  /\ q.verb = "create" =>
       /\ next = IF q.id \in Media THEN "files" ELSE "row"
       /\ q.id \in DOMAIN Parent => Live(Parent[q.id])
  /\ q.verb = "update" => next = "row"
  /\ q.verb = "remove" =>
       /\ next = IF q.id \in Attributes \/ q.id \in Variations \/ q.id \in Products
                 THEN "children" ELSE "row"
       /\ q.id \in Classifiers \cup Variations => ~UsedByLive(q.id)
       /\ q.id \in Media => ~\E l \in link : l[2] = q.id
       /\ q.id \in AttributeSets => ~\E c \in Children(q.id) : Live(c)

Checks(r) ==
  /\ req[r].step = "check"
  /\ UNCHANGED <<row, link, files, desk, screen, overtaken>>
  /\ \E slug \in Slugs \cup {None}, next \in {"row", "children", "files"} :
       Goes(r, slug, next) /\ Checked(r, slug, next)

\* One row becomes another.
Puts(i, new) ==
  /\ row' = [j \in Rows |-> IF j = i THEN new ELSE row[j]]
  /\ UNCHANGED <<link, files, desk, screen, overtaken>>

Creates(r) ==
  LET q == req[r] IN
  /\ q.verb = "create" /\ q.step = "row" /\ q.id \notin Products
  /\ IndexAllows(q.id, q.slug)
  /\ Puts(q.id, [state |-> "live", slug |-> q.slug, refs |-> IF q.id \in Brands THEN q.refs ELSE {}])
  /\ \/ Ends(r)
     \/ q.id \in Brands /\ Goes(r, q.slug, "link")
     \/ q.id \in Variations /\ Goes(r, q.slug, "values")

CreatesProduct(r) ==
  LET q == req[r] IN
  /\ q.verb = "create" /\ q.step = "row" /\ q.id \in Products
  /\ IndexAllows(q.id, q.slug)
  /\ \E uid \in Uids(q.refs) :
       /\ \A v \in DOMAIN uid : IndexAllows(v, uid[v])
       /\ row' = [i \in Rows |->
            IF i = q.id THEN [state |-> "live", slug |-> q.slug, refs |-> References(q.refs)]
            ELSE IF i \in Born(q.refs) THEN Made(i, uid) ELSE row[i]]
  /\ link' = link \cup ((q.refs \cap Variants) \X (q.refs \cap Media))
  /\ UNCHANGED <<files, desk, screen, overtaken>>
  /\ Ends(r) \/ Goes(r, q.slug, "link")

Rewrites(r) ==
  LET q == req[r] IN
  /\ q.verb = "update" /\ q.step = "row"
  /\ \E slug \in {q.slug, row[q.id].slug}, refs \in SUBSET (row[q.id].refs \cup q.refs) :
       /\ IndexAllows(q.id, slug)
       /\ q.id \in Products => refs = (row[q.id].refs \ q.given) \cup References(q.refs)
       /\ Puts(q.id, [row[q.id] EXCEPT !.slug = slug, !.refs = refs])
  /\ \/ Ends(r)
     \/ \E next \in {"link", "unlink"} : Goes(r, q.slug, next)

Removes(r) ==
  LET q == req[r] IN
  /\ q.verb = "remove" /\ q.step = "row"
  /\ Puts(q.id, [row[q.id] EXCEPT !.state = "removed"])
  /\ Ends(r) \/ Goes(r, q.slug, "unlink")

RemovesChildren(r) ==
  LET q == req[r] IN
  /\ q.verb = "remove" /\ q.step = "children" /\ q.id \notin AttributeSets
  /\ row' = [i \in Rows |-> IF i \in Children(q.id) /\ Live(i)
                            THEN [row[i] EXCEPT !.state = "removed"] ELSE row[i]]
  /\ UNCHANGED <<link, files, desk, screen, overtaken>>
  /\ Goes(r, q.slug, "row")

AddsValue(r) ==
  LET q == req[r] IN
  /\ q.verb = "create" /\ q.step = "values" /\ q.id \in Variations
  /\ \E v \in q.refs \cap Children(q.id) : row[v].state = "none" /\ Puts(v, Begun(v))
  /\ req' = req

Relinks(r) ==
  LET q == req[r] IN
  /\ q.step \in {"link", "unlink"}
  /\ q.verb # "remove" => q.id \in Brands \cup Products \cup Variants
  /\ link' \subseteq link \cup ({q.id} \X (q.refs \cap Media))
  /\ UNCHANGED <<row, files, desk, screen, overtaken>>
  /\ \/ Ends(r)
     \/ q.verb # "remove" /\ q.step = "unlink" /\ Goes(r, q.slug, "link")

StoresFiles(r) ==
  LET q == req[r] IN
  /\ q.verb = "create" /\ q.step = "files" /\ q.id \in Media
  /\ files' = files \cup {q.id}
  /\ UNCHANGED <<row, link, desk, screen, overtaken>>
  /\ Goes(r, q.slug, "row")

Moves(r) ==
  \/ Quits(r) \/ Checks(r) \/ Creates(r) \/ CreatesProduct(r) \/ Rewrites(r) \/ Removes(r)
  \/ RemovesChildren(r) \/ AddsValue(r) \/ Relinks(r) \/ StoresFiles(r)

LEMMA InFlightIs ==
  ASSUME RequestsOK, NEW r \in InFlight
  PROVE  /\ r \in Requests /\ req[r] \in RequestType /\ DOMAIN req = Requests
         /\ req[r].verb \in {"create", "update", "remove"} /\ req[r].id \in Rows
         /\ req[r].slug \in Slugs \cup {None} /\ req[r].refs \subseteq Rows
         /\ req[r].given \subseteq Rows /\ req[r].old \subseteq Rows /\ req[r].step \in Steps
<1>1. r \in Requests /\ req[r] \in RequestType /\ DOMAIN req = Requests
  BY DEF InFlight, RequestsOK
<1> QED
  BY <1>1 DEF RequestType, Steps

LEMMA EndsIs ==
  ASSUME RequestsOK, NEW r \in Requests, req' = [req EXCEPT ![r] = Over]
  PROVE  Ends(r)
BY DEF Ends, Others, RequestsOK

LEMMA GoesIs ==
  ASSUME RequestsOK, NEW r \in InFlight, NEW slug \in Slugs \cup {None}, NEW old \in SUBSET Rows,
         NEW next \in Steps, req' = [req EXCEPT ![r] = Advanced(r, slug, old, next)]
  PROVE  Goes(r, slug, next)
<1>1. r \in Requests /\ req[r] \in RequestType /\ DOMAIN req = Requests
  BY InFlightIs
<1>2. Others(r) /\ req'[r] = Advanced(r, slug, old, next)
  BY <1>1 DEF Others
<1>3. req'[r] = [req[r] EXCEPT !.slug = slug, !.old = old, !.step = next]
  BY <1>2 DEF Advanced
<1>4. /\ req'[r] \in RequestType
      /\ req'[r].verb = req[r].verb /\ req'[r].id = req[r].id /\ req'[r].slug = slug
      /\ req'[r].refs = req[r].refs /\ req'[r].given = req[r].given /\ req'[r].step = next
  BY <1>1, <1>3 DEF RequestType, Steps
<1> QED
  BY <1>2, <1>4 DEF Goes

LEMMA GoesOnIs ==
  ASSUME RequestsOK, NEW r \in InFlight, NEW next \in Steps \cup {"done"}, GoesOn(r, next)
  PROVE  IF next = "done" THEN Ends(r) ELSE Goes(r, req[r].slug, next)
<1>1. /\ r \in Requests /\ req[r].slug \in Slugs \cup {None} /\ req[r].old \in SUBSET Rows
  BY InFlightIs
<1>2. CASE next = "done"
  BY <1>1, <1>2, EndsIs DEF GoesOn
<1>3. CASE next # "done"
  BY <1>1, <1>3, GoesIs DEF GoesOn
<1> QED
  BY <1>2, <1>3

LEMMA GateIs ==
  ASSUME RequestsOK, NEW r \in InFlight, NEW ok \in BOOLEAN, NEW next \in Steps \cup {"done"},
         Gate(r, ok, next)
  PROVE  \/ Quits(r)
         \/ /\ ok /\ Goes(r, req[r].slug, next)
            /\ UNCHANGED <<row, link, files, desk, screen, overtaken>>
<1>1. CASE ok /\ next # "done"
  BY <1>1, GoesOnIs DEF Gate
<1>2. CASE ~ok \/ next = "done"
  <2>1. GoesOn(r, "done")
    BY <1>2 DEF Gate
  <2> QED
    BY <2>1, GoesOnIs DEF Gate, Quits
<1> QED
  BY <1>1, <1>2

LEMMA WriteIs ==
  ASSUME RequestsOK, NEW r \in InFlight, NEW rows, NEW next \in Steps \cup {"done"},
         Write(r, rows, next)
  PROVE  \/ Quits(r)
         \/ /\ IndexAllows(req[r].id, rows[req[r].id].slug)
            /\ row' = [i \in Rows |-> IF i \in DOMAIN rows THEN rows[i] ELSE row[i]]
            /\ UNCHANGED <<link, files, desk, screen, overtaken>>
            /\ IF next = "done" THEN Ends(r) ELSE Goes(r, req[r].slug, next)
<1>1. CASE IndexAllows(req[r].id, rows[req[r].id].slug)
  BY <1>1, GoesOnIs DEF Write
<1>2. CASE ~IndexAllows(req[r].id, rows[req[r].id].slug)
  <2>1. GoesOn(r, "done") /\ UNCHANGED <<row, link, files, desk, screen, overtaken>>
    BY <1>2 DEF Write
  <2> QED
    BY <2>1, GoesOnIs DEF Quits
<1> QED
  BY <1>1, <1>2
LEMMA AtIs ==
  ASSUME NEW r \in Requests, NEW verb, NEW table, NEW step \in Steps, At(r, verb, table, step)
  PROVE  r \in InFlight /\ req[r].verb = verb /\ req[r].id \in table /\ req[r].step = step
BY DEF At, InFlight, Steps

LEMMA WriteOne ==
  ASSUME RequestsOK, NEW r \in InFlight, NEW rows, DOMAIN rows = {req[r].id},
         NEW next \in Steps \cup {"done"}, Write(r, rows, next)
  PROVE  \/ Quits(r)
         \/ /\ IndexAllows(req[r].id, rows[req[r].id].slug)
            /\ Puts(req[r].id, rows[req[r].id])
            /\ IF next = "done" THEN Ends(r) ELSE Goes(r, req[r].slug, next)
BY WriteIs DEF Puts

LEMMA GateChecks ==
  ASSUME RequestsOK, NEW r \in InFlight, req[r].step = "check", NEW ok \in BOOLEAN,
         NEW next \in {"row", "children", "files"}, Gate(r, ok, next),
         ok => Checked(r, req[r].slug, next)
  PROVE  Moves(r)
<1>1. CASE Quits(r)
  BY <1>1 DEF Moves
<1>2. CASE ~Quits(r)
  <2>1. /\ ok /\ Goes(r, req[r].slug, next)
        /\ UNCHANGED <<row, link, files, desk, screen, overtaken>>
    BY <1>2, GateIs DEF Steps
  <2> QED
    BY <2>1, InFlightIs DEF Checks, Moves
<1> QED
  BY <1>1, <1>2

LEMMA NewCreates ==
  ASSUME RequestsOK, NEW r \in InFlight, req[r].verb = "create", req[r].step = "row",
         req[r].id \notin Products, NEW refs, refs = IF req[r].id \in Brands THEN req[r].refs ELSE {},
         NEW next \in {"done", "link", "values"}, Write(r, New(r, refs), next),
         next = "link" => req[r].id \in Brands, next = "values" => req[r].id \in Variations
  PROVE  Moves(r)
<1>1. CASE Quits(r)
  BY <1>1 DEF Moves
<1>2. CASE ~Quits(r)
  <2>1. /\ DOMAIN New(r, refs) = {req[r].id}
        /\ New(r, refs)[req[r].id] = [state |-> "live", slug |-> req[r].slug, refs |-> refs]
    BY DEF New
  <2>2. /\ IndexAllows(req[r].id, New(r, refs)[req[r].id].slug)
        /\ Puts(req[r].id, New(r, refs)[req[r].id])
        /\ IF next = "done" THEN Ends(r) ELSE Goes(r, req[r].slug, next)
    BY <1>2, <2>1, WriteOne DEF Steps
  <2> QED
    BY <2>1, <2>2 DEF Creates, Moves
<1> QED
  BY <1>1, <1>2

LEMMA RenamedRewrites ==
  ASSUME RequestsOK, TypeOK, NEW r \in InFlight, req[r].verb = "update", req[r].step = "row",
         req[r].id \notin Products, Write(r, Renamed(r), "done")
  PROVE  Moves(r)
<1> DEFINE old == row[req[r].id]
           new == [old EXCEPT !.slug = req[r].slug, !.refs = old.refs]
<1>1. CASE Quits(r)
  BY <1>1 DEF Moves
<1>2. CASE ~Quits(r)
  <2>1. old \in [state : {"none", "live", "removed"}, slug : Slugs \cup {None}, refs : SUBSET Rows]
    BY InFlightIs DEF TypeOK
  <2>2. /\ DOMAIN Renamed(r) = {req[r].id}
        /\ Renamed(r)[req[r].id] = [old EXCEPT !.slug = req[r].slug]
    BY DEF Renamed
  <2>3. [old EXCEPT !.slug = req[r].slug] = new /\ new.slug = req[r].slug
    BY <2>1
  <2>4. /\ IndexAllows(req[r].id, Renamed(r)[req[r].id].slug)
        /\ Puts(req[r].id, Renamed(r)[req[r].id])
        /\ Ends(r)
    BY <1>2, <2>2, WriteOne
  <2>5. IndexAllows(req[r].id, req[r].slug) /\ Puts(req[r].id, new) /\ Ends(r)
    BY <2>2, <2>3, <2>4
  <2> QED
    BY <2>5 DEF Rewrites, Moves
<1> QED
  BY <1>1, <1>2

LEMMA SoftDeleteRemoves ==
  ASSUME RequestsOK, NEW r \in InFlight, req[r].verb = "remove", req[r].step = "row",
         NEW next \in {"done", "unlink"}, Write(r, SoftDelete(r), next)
  PROVE  Moves(r)
<1>1. CASE Quits(r)
  BY <1>1 DEF Moves
<1>2. CASE ~Quits(r)
  <2>1. /\ DOMAIN SoftDelete(r) = {req[r].id}
        /\ SoftDelete(r)[req[r].id] = [row[req[r].id] EXCEPT !.state = "removed"]
    BY DEF SoftDelete
  <2>2. /\ Puts(req[r].id, SoftDelete(r)[req[r].id])
        /\ IF next = "done" THEN Ends(r) ELSE Goes(r, req[r].slug, next)
    BY <1>2, <2>1, WriteOne DEF Steps
  <2> QED
    BY <2>1, <2>2 DEF Removes, Moves
<1> QED
  BY <1>1, <1>2

LEMMA ChildrenRemovedRemoves ==
  ASSUME RequestsOK, NEW r \in InFlight, req[r].verb = "remove", req[r].step = "children",
         req[r].id \notin AttributeSets, Write(r, ChildrenRemoved(r), "row")
  PROVE  Moves(r)
<1> DEFINE rows == ChildrenRemoved(r)
<1>1. CASE Quits(r)
  BY <1>1 DEF Moves
<1>2. CASE ~Quits(r)
  <2>1. /\ row' = [i \in Rows |-> IF i \in DOMAIN rows THEN rows[i] ELSE row[i]]
        /\ UNCHANGED <<link, files, desk, screen, overtaken>>
        /\ Goes(r, req[r].slug, "row")
    <3> HIDE DEF rows
    <3>1. Write(r, rows, "row")
      BY DEF rows
    <3> QED
      BY <1>2, <3>1, WriteIs DEF Steps
  <2>2. ~(req[r].id \in Children(req[r].id))
    BY ChildrenOf, TablesDistinct
  <2>3. [i \in Rows |-> IF i \in DOMAIN rows THEN rows[i] ELSE row[i]]
          = [i \in Rows |-> IF i \in Children(req[r].id) /\ Live(i)
                            THEN [row[i] EXCEPT !.state = "removed"] ELSE row[i]]
    BY <2>2 DEF ChildrenRemoved
  <2> QED
    BY <2>1, <2>3 DEF RemovesChildren, Moves
<1> QED
  BY <1>1, <1>2
LEMMA TagsMove ==
  ASSUME RequestsOK, TypeOK, NEW r \in Requests,
         CreateTag(r) \/ UpdateTag(r) \/ RemoveTag(r)
  PROVE  Moves(r)
<1>1. CASE CreateTag(r)
  <2>1. CASE At(r, "create", Tags, "check") /\ Gate(r, SlugFree(req[r].id, req[r].slug), "row")
    <3> DEFINE ok == SlugFree(req[r].id, req[r].slug)
    <3>1. /\ r \in InFlight /\ req[r].verb = "create" /\ req[r].id \in Tags
          /\ req[r].step = "check"
      BY <2>1, AtIs DEF Steps
    <3>2. ok => Checked(r, req[r].slug, "row")
      BY <3>1, TablesDistinct, IsChild, IsClassifier DEF Checked, Unindexed
    <3> HIDE DEF ok
    <3>3. ok \in BOOLEAN /\ Gate(r, ok, "row")
      BY <2>1 DEF ok, SlugFree
    <3> QED
      BY <3>1, <3>2, <3>3, GateChecks
  <2>2. CASE At(r, "create", Tags, "row") /\ Write(r, New(r, {}), "done")
    BY <2>2, AtIs, NewCreates, TablesDistinct DEF Steps
  <2> QED
    BY <1>1, <2>1, <2>2 DEF CreateTag
<1>2. CASE UpdateTag(r)
  <2>1. CASE /\ At(r, "update", Tags, "check")
            /\ Gate(r, Live(req[r].id) /\ SlugFree(req[r].id, req[r].slug), "row")
    <3> DEFINE ok == Live(req[r].id) /\ SlugFree(req[r].id, req[r].slug)
    <3>1. /\ r \in InFlight /\ req[r].verb = "update" /\ req[r].id \in Tags
          /\ req[r].step = "check"
      BY <2>1, AtIs DEF Steps
    <3>2. ok => Checked(r, req[r].slug, "row")
      BY <3>1, TablesDistinct, IsChild, IsClassifier DEF Checked, Unindexed
    <3> HIDE DEF ok
    <3>3. ok \in BOOLEAN /\ Gate(r, ok, "row")
      BY <2>1 DEF ok
    <3> QED
      BY <3>1, <3>2, <3>3, GateChecks
  <2>2. CASE At(r, "update", Tags, "row") /\ Write(r, Renamed(r), "done")
    BY <2>2, AtIs, RenamedRewrites, TablesDistinct DEF Steps
  <2> QED
    BY <1>2, <2>1, <2>2 DEF UpdateTag
<1>3. CASE RemoveTag(r)
  <2>1. CASE /\ At(r, "remove", Tags, "check")
            /\ Gate(r, Live(req[r].id) /\ ~UsedByAny(req[r].id), "row")
    <3> DEFINE ok == Live(req[r].id) /\ ~UsedByAny(req[r].id)
    <3>1. /\ r \in InFlight /\ req[r].verb = "remove" /\ req[r].id \in Tags
          /\ req[r].step = "check"
      BY <2>1, AtIs DEF Steps
    <3>2. ok => Checked(r, req[r].slug, "row")
      BY <3>1, TablesDistinct, IsChild, IsClassifier DEF Checked, Unindexed, UsedByAny, UsedByLive, Live, Exists
    <3> HIDE DEF ok
    <3>3. ok \in BOOLEAN /\ Gate(r, ok, "row")
      BY <2>1 DEF ok
    <3> QED
      BY <3>1, <3>2, <3>3, GateChecks
  <2>2. CASE At(r, "remove", Tags, "row") /\ Write(r, SoftDelete(r), "done")
    BY <2>2, AtIs, SoftDeleteRemoves DEF Steps
  <2> QED
    BY <1>3, <2>1, <2>2 DEF RemoveTag
<1> QED
  BY <1>1, <1>2, <1>3

LEMMA AttributeSetsMove ==
  ASSUME RequestsOK, TypeOK, NEW r \in Requests,
         \/ CreateAttributeSet(r) \/ UpdateAttributeSet(r)
         \/ RemoveAttributeSet(r)
  PROVE  Moves(r)
<1>1. CASE CreateAttributeSet(r)
  <2>1. CASE /\ At(r, "create", AttributeSets, "check")
            /\ Gate(r, SlugFree(req[r].id, req[r].slug), "row")
    <3> DEFINE ok == SlugFree(req[r].id, req[r].slug)
    <3>1. /\ r \in InFlight /\ req[r].verb = "create" /\ req[r].id \in AttributeSets
          /\ req[r].step = "check"
      BY <2>1, AtIs DEF Steps
    <3>2. ok => Checked(r, req[r].slug, "row")
      BY <3>1, TablesDistinct, IsChild, IsClassifier DEF Checked, Unindexed
    <3> HIDE DEF ok
    <3>3. ok \in BOOLEAN /\ Gate(r, ok, "row")
      BY <2>1 DEF ok, SlugFree
    <3> QED
      BY <3>1, <3>2, <3>3, GateChecks
  <2>2. CASE At(r, "create", AttributeSets, "row") /\ Write(r, New(r, {}), "done")
    BY <2>2, AtIs, NewCreates, TablesDistinct DEF Steps
  <2> QED
    BY <1>1, <2>1, <2>2 DEF CreateAttributeSet
<1>2. CASE UpdateAttributeSet(r)
  <2>1. CASE /\ At(r, "update", AttributeSets, "check")
            /\ Gate(r, Live(req[r].id) /\ SlugFree(req[r].id, req[r].slug), "row")
    <3> DEFINE ok == Live(req[r].id) /\ SlugFree(req[r].id, req[r].slug)
    <3>1. /\ r \in InFlight /\ req[r].verb = "update" /\ req[r].id \in AttributeSets
          /\ req[r].step = "check"
      BY <2>1, AtIs DEF Steps
    <3>2. ok => Checked(r, req[r].slug, "row")
      BY <3>1, TablesDistinct, IsChild, IsClassifier DEF Checked, Unindexed
    <3> HIDE DEF ok
    <3>3. ok \in BOOLEAN /\ Gate(r, ok, "row")
      BY <2>1 DEF ok
    <3> QED
      BY <3>1, <3>2, <3>3, GateChecks
  <2>2. CASE At(r, "update", AttributeSets, "row") /\ Write(r, Renamed(r), "done")
    BY <2>2, AtIs, RenamedRewrites, TablesDistinct DEF Steps
  <2> QED
    BY <1>2, <2>1, <2>2 DEF UpdateAttributeSet
<1>3. CASE RemoveAttributeSet(r)
  <2>1. CASE /\ At(r, "remove", AttributeSets, "check")
            /\ Gate(r, Live(req[r].id) /\ ~\E a \in Children(req[r].id) : Live(a), "row")
    <3> DEFINE ok == Live(req[r].id) /\ ~\E a \in Children(req[r].id) : Live(a)
    <3>1. /\ r \in InFlight /\ req[r].verb = "remove" /\ req[r].id \in AttributeSets
          /\ req[r].step = "check"
      BY <2>1, AtIs DEF Steps
    <3>2. ok => Checked(r, req[r].slug, "row")
      BY <3>1, TablesDistinct, IsChild, IsClassifier DEF Checked, Unindexed
    <3> HIDE DEF ok
    <3>3. ok \in BOOLEAN /\ Gate(r, ok, "row")
      BY <2>1 DEF ok
    <3> QED
      BY <3>1, <3>2, <3>3, GateChecks
  <2>2. CASE At(r, "remove", AttributeSets, "row") /\ Write(r, SoftDelete(r), "done")
    BY <2>2, AtIs, SoftDeleteRemoves DEF Steps
  <2> QED
    BY <1>3, <2>1, <2>2 DEF RemoveAttributeSet
<1> QED
  BY <1>1, <1>2, <1>3

LEMMA AttributesMove ==
  ASSUME RequestsOK, TypeOK, NEW r \in Requests,
         \/ CreateAttribute(r) \/ UpdateAttribute(r) \/ RemoveAttribute(r)
         \/ AddAttributeValue(r) \/ DeleteAttributeValue(r)
  PROVE  Moves(r)
<1>1. CASE CreateAttribute(r)
  <2>1. CASE /\ At(r, "create", Attributes, "check")
            /\ Gate(r, Live(Parent[req[r].id]) /\ SlugFree(req[r].id, req[r].slug), "row")
    <3> DEFINE ok == Live(Parent[req[r].id]) /\ SlugFree(req[r].id, req[r].slug)
    <3>1. /\ r \in InFlight /\ req[r].verb = "create" /\ req[r].id \in Attributes
          /\ req[r].step = "check"
      BY <2>1, AtIs DEF Steps
    <3>2. ok => Checked(r, req[r].slug, "row")
      BY <3>1, TablesDistinct, IsChild, IsClassifier DEF Checked, Unindexed
    <3> HIDE DEF ok
    <3>3. ok \in BOOLEAN /\ Gate(r, ok, "row")
      BY <2>1 DEF ok
    <3> QED
      BY <3>1, <3>2, <3>3, GateChecks
  <2>2. CASE At(r, "create", Attributes, "row") /\ Write(r, New(r, {}), "done")
    BY <2>2, AtIs, NewCreates, TablesDistinct DEF Steps
  <2> QED
    BY <1>1, <2>1, <2>2 DEF CreateAttribute
<1>2. CASE UpdateAttribute(r)
  <2>1. CASE /\ At(r, "update", Attributes, "check")
            /\ Gate(r, Live(req[r].id) /\ SlugFree(req[r].id, req[r].slug), "row")
    <3> DEFINE ok == Live(req[r].id) /\ SlugFree(req[r].id, req[r].slug)
    <3>1. /\ r \in InFlight /\ req[r].verb = "update" /\ req[r].id \in Attributes
          /\ req[r].step = "check"
      BY <2>1, AtIs DEF Steps
    <3>2. ok => Checked(r, req[r].slug, "row")
      BY <3>1, TablesDistinct, IsChild, IsClassifier DEF Checked, Unindexed
    <3> HIDE DEF ok
    <3>3. ok \in BOOLEAN /\ Gate(r, ok, "row")
      BY <2>1 DEF ok
    <3> QED
      BY <3>1, <3>2, <3>3, GateChecks
  <2>2. CASE At(r, "update", Attributes, "row") /\ Write(r, Renamed(r), "done")
    BY <2>2, AtIs, RenamedRewrites, TablesDistinct DEF Steps
  <2> QED
    BY <1>2, <2>1, <2>2 DEF UpdateAttribute
<1>3. CASE RemoveAttribute(r)
  <2>1. CASE /\ At(r, "remove", Attributes, "check")
            /\ Gate(r, Live(req[r].id) /\ ~UsedByAny(req[r].id), "children")
    <3> DEFINE ok == Live(req[r].id) /\ ~UsedByAny(req[r].id)
    <3>1. /\ r \in InFlight /\ req[r].verb = "remove" /\ req[r].id \in Attributes
          /\ req[r].step = "check"
      BY <2>1, AtIs DEF Steps
    <3>2. ok => Checked(r, req[r].slug, "children")
      BY <3>1, TablesDistinct, IsChild, IsClassifier DEF Checked, Unindexed, UsedByAny, UsedByLive, Live, Exists
    <3> HIDE DEF ok
    <3>3. ok \in BOOLEAN /\ Gate(r, ok, "children")
      BY <2>1 DEF ok
    <3> QED
      BY <3>1, <3>2, <3>3, GateChecks
  <2>2. CASE At(r, "remove", Attributes, "children") /\ Write(r, ChildrenRemoved(r), "row")
    BY <2>2, AtIs, ChildrenRemovedRemoves, TablesDistinct DEF Steps
  <2>3. CASE At(r, "remove", Attributes, "row") /\ Write(r, SoftDelete(r), "done")
    BY <2>3, AtIs, SoftDeleteRemoves DEF Steps
  <2> QED
    BY <1>3, <2>1, <2>2, <2>3 DEF RemoveAttribute
<1>4. CASE AddAttributeValue(r)
  <2>1. CASE At(r, "create", AttributeValues, "check") /\ Gate(r, Live(Parent[req[r].id]), "row")
    <3> DEFINE ok == Live(Parent[req[r].id])
    <3>1. /\ r \in InFlight /\ req[r].verb = "create" /\ req[r].id \in AttributeValues
          /\ req[r].step = "check"
      BY <2>1, AtIs DEF Steps
    <3>2. ok => Checked(r, req[r].slug, "row")
      BY <3>1, TablesDistinct, IsChild, IsClassifier DEF Checked, Unindexed
    <3> HIDE DEF ok
    <3>3. ok \in BOOLEAN /\ Gate(r, ok, "row")
      BY <2>1 DEF ok, Live
    <3> QED
      BY <3>1, <3>2, <3>3, GateChecks
  <2>2. CASE At(r, "create", AttributeValues, "row") /\ Write(r, New(r, {}), "done")
    BY <2>2, AtIs, NewCreates, TablesDistinct DEF Steps
  <2> QED
    BY <1>4, <2>1, <2>2 DEF AddAttributeValue
<1>5. CASE DeleteAttributeValue(r)
  <2>1. CASE /\ At(r, "remove", AttributeValues, "check")
            /\ Gate(r, Live(Parent[req[r].id]) /\ Live(req[r].id) /\ ~UsedByAny(req[r].id), "row")
    <3> DEFINE ok == Live(Parent[req[r].id]) /\ Live(req[r].id) /\ ~UsedByAny(req[r].id)
    <3>1. /\ r \in InFlight /\ req[r].verb = "remove" /\ req[r].id \in AttributeValues
          /\ req[r].step = "check"
      BY <2>1, AtIs DEF Steps
    <3>2. ok => Checked(r, req[r].slug, "row")
      BY <3>1, TablesDistinct, IsChild, IsClassifier DEF Checked, Unindexed, UsedByAny, UsedByLive, Live, Exists
    <3> HIDE DEF ok
    <3>3. ok \in BOOLEAN /\ Gate(r, ok, "row")
      BY <2>1 DEF ok
    <3> QED
      BY <3>1, <3>2, <3>3, GateChecks
  <2>2. CASE At(r, "remove", AttributeValues, "row") /\ Write(r, SoftDelete(r), "done")
    BY <2>2, AtIs, SoftDeleteRemoves DEF Steps
  <2> QED
    BY <1>5, <2>1, <2>2 DEF DeleteAttributeValue
<1> QED
  BY <1>1, <1>2, <1>3, <1>4, <1>5

LEMMA VariationsMove ==
  ASSUME RequestsOK, TypeOK, NEW r \in Requests,
         RemoveVariation(r) \/ AddVariationValue(r) \/ RemoveVariationValue(r)
  PROVE  Moves(r)
<1>1. CASE RemoveVariation(r)
  <2>1. CASE /\ At(r, "remove", Variations, "check")
            /\ Gate(r, Live(req[r].id) /\ ~UsedByAny(req[r].id), "children")
    <3> DEFINE ok == Live(req[r].id) /\ ~UsedByAny(req[r].id)
    <3>1. /\ r \in InFlight /\ req[r].verb = "remove" /\ req[r].id \in Variations
          /\ req[r].step = "check"
      BY <2>1, AtIs DEF Steps
    <3>2. ok => Checked(r, req[r].slug, "children")
      BY <3>1, TablesDistinct, IsChild, IsClassifier DEF Checked, Unindexed, UsedByAny, UsedByLive, Live, Exists
    <3> HIDE DEF ok
    <3>3. ok \in BOOLEAN /\ Gate(r, ok, "children")
      BY <2>1 DEF ok
    <3> QED
      BY <3>1, <3>2, <3>3, GateChecks
  <2>2. CASE At(r, "remove", Variations, "children") /\ Write(r, ChildrenRemoved(r), "row")
    BY <2>2, AtIs, ChildrenRemovedRemoves, TablesDistinct DEF Steps
  <2>3. CASE At(r, "remove", Variations, "row") /\ Write(r, SoftDelete(r), "done")
    BY <2>3, AtIs, SoftDeleteRemoves DEF Steps
  <2> QED
    BY <1>1, <2>1, <2>2, <2>3 DEF RemoveVariation
<1>2. CASE AddVariationValue(r)
  <2>1. CASE At(r, "create", VariationValues, "check") /\ Gate(r, Live(Parent[req[r].id]), "row")
    <3> DEFINE ok == Live(Parent[req[r].id])
    <3>1. /\ r \in InFlight /\ req[r].verb = "create" /\ req[r].id \in VariationValues
          /\ req[r].step = "check"
      BY <2>1, AtIs DEF Steps
    <3>2. ok => Checked(r, req[r].slug, "row")
      BY <3>1, TablesDistinct, IsChild, IsClassifier DEF Checked, Unindexed
    <3> HIDE DEF ok
    <3>3. ok \in BOOLEAN /\ Gate(r, ok, "row")
      BY <2>1 DEF ok, Live
    <3> QED
      BY <3>1, <3>2, <3>3, GateChecks
  <2>2. CASE At(r, "create", VariationValues, "row") /\ Write(r, New(r, {}), "done")
    BY <2>2, AtIs, NewCreates, TablesDistinct DEF Steps
  <2> QED
    BY <1>2, <2>1, <2>2 DEF AddVariationValue
<1>3. CASE RemoveVariationValue(r)
  <2>1. CASE At(r, "remove", VariationValues, "check") /\ Gate(r, Live(req[r].id), "row")
    <3> DEFINE ok == Live(req[r].id)
    <3>1. /\ r \in InFlight /\ req[r].verb = "remove" /\ req[r].id \in VariationValues
          /\ req[r].step = "check"
      BY <2>1, AtIs DEF Steps
    <3>2. ok => Checked(r, req[r].slug, "row")
      BY <3>1, TablesDistinct, IsChild, IsClassifier DEF Checked, Unindexed
    <3> HIDE DEF ok
    <3>3. ok \in BOOLEAN /\ Gate(r, ok, "row")
      BY <2>1 DEF ok, Live
    <3> QED
      BY <3>1, <3>2, <3>3, GateChecks
  <2>2. CASE At(r, "remove", VariationValues, "row") /\ Write(r, SoftDelete(r), "done")
    BY <2>2, AtIs, SoftDeleteRemoves DEF Steps
  <2> QED
    BY <1>3, <2>1, <2>2 DEF RemoveVariationValue
<1> QED
  BY <1>1, <1>2, <1>3

LEMMA TaxesMove ==
  ASSUME RequestsOK, TypeOK, NEW r \in Requests,
         \/ CreateTaxClass(r) \/ UpdateTaxClass(r) \/ RemoveTaxClass(r)
         \/ CreateTaxRate(r) \/ UpdateTaxRate(r) \/ RemoveTaxRate(r)
  PROVE  Moves(r)
<1>1. CASE CreateTaxClass(r)
  <2>1. CASE /\ At(r, "create", TaxClasses, "check")
            /\ Gate(r, SlugFree(req[r].id, req[r].slug), "row")
    <3> DEFINE ok == SlugFree(req[r].id, req[r].slug)
    <3>1. /\ r \in InFlight /\ req[r].verb = "create" /\ req[r].id \in TaxClasses
          /\ req[r].step = "check"
      BY <2>1, AtIs DEF Steps
    <3>2. ok => Checked(r, req[r].slug, "row")
      BY <3>1, TablesDistinct, IsChild, IsClassifier DEF Checked, Unindexed
    <3> HIDE DEF ok
    <3>3. ok \in BOOLEAN /\ Gate(r, ok, "row")
      BY <2>1 DEF ok, SlugFree
    <3> QED
      BY <3>1, <3>2, <3>3, GateChecks
  <2>2. CASE At(r, "create", TaxClasses, "row") /\ Write(r, New(r, {}), "done")
    BY <2>2, AtIs, NewCreates, TablesDistinct DEF Steps
  <2> QED
    BY <1>1, <2>1, <2>2 DEF CreateTaxClass
<1>2. CASE UpdateTaxClass(r)
  <2>1. CASE /\ At(r, "update", TaxClasses, "check")
            /\ Gate(r, Live(req[r].id) /\ SlugFree(req[r].id, req[r].slug), "row")
    <3> DEFINE ok == Live(req[r].id) /\ SlugFree(req[r].id, req[r].slug)
    <3>1. /\ r \in InFlight /\ req[r].verb = "update" /\ req[r].id \in TaxClasses
          /\ req[r].step = "check"
      BY <2>1, AtIs DEF Steps
    <3>2. ok => Checked(r, req[r].slug, "row")
      BY <3>1, TablesDistinct, IsChild, IsClassifier DEF Checked, Unindexed
    <3> HIDE DEF ok
    <3>3. ok \in BOOLEAN /\ Gate(r, ok, "row")
      BY <2>1 DEF ok
    <3> QED
      BY <3>1, <3>2, <3>3, GateChecks
  <2>2. CASE At(r, "update", TaxClasses, "row") /\ Write(r, Renamed(r), "done")
    BY <2>2, AtIs, RenamedRewrites, TablesDistinct DEF Steps
  <2> QED
    BY <1>2, <2>1, <2>2 DEF UpdateTaxClass
<1>3. CASE RemoveTaxClass(r)
  <2>1. CASE /\ At(r, "remove", TaxClasses, "check")
            /\ Gate(r, Live(req[r].id) /\ ~UsedByLive(req[r].id), "row")
    <3> DEFINE ok == Live(req[r].id) /\ ~UsedByLive(req[r].id)
    <3>1. /\ r \in InFlight /\ req[r].verb = "remove" /\ req[r].id \in TaxClasses
          /\ req[r].step = "check"
      BY <2>1, AtIs DEF Steps
    <3>2. ok => Checked(r, req[r].slug, "row")
      BY <3>1, TablesDistinct, IsChild, IsClassifier DEF Checked, Unindexed
    <3> HIDE DEF ok
    <3>3. ok \in BOOLEAN /\ Gate(r, ok, "row")
      BY <2>1 DEF ok
    <3> QED
      BY <3>1, <3>2, <3>3, GateChecks
  <2>2. CASE At(r, "remove", TaxClasses, "row") /\ Write(r, SoftDelete(r), "done")
    BY <2>2, AtIs, SoftDeleteRemoves DEF Steps
  <2> QED
    BY <1>3, <2>1, <2>2 DEF RemoveTaxClass
<1>4. CASE CreateTaxRate(r)
  <2>1. CASE /\ At(r, "create", TaxRates, "check")
            /\ Gate(r, Live(Parent[req[r].id]) /\ SlugFree(req[r].id, req[r].slug), "row")
    <3> DEFINE ok == Live(Parent[req[r].id]) /\ SlugFree(req[r].id, req[r].slug)
    <3>1. /\ r \in InFlight /\ req[r].verb = "create" /\ req[r].id \in TaxRates
          /\ req[r].step = "check"
      BY <2>1, AtIs DEF Steps
    <3>2. ok => Checked(r, req[r].slug, "row")
      BY <3>1, TablesDistinct, IsChild, IsClassifier DEF Checked, Unindexed
    <3> HIDE DEF ok
    <3>3. ok \in BOOLEAN /\ Gate(r, ok, "row")
      BY <2>1 DEF ok
    <3> QED
      BY <3>1, <3>2, <3>3, GateChecks
  <2>2. CASE At(r, "create", TaxRates, "row") /\ Write(r, New(r, {}), "done")
    BY <2>2, AtIs, NewCreates, TablesDistinct DEF Steps
  <2> QED
    BY <1>4, <2>1, <2>2 DEF CreateTaxRate
<1>5. CASE UpdateTaxRate(r)
  <2>1. CASE /\ At(r, "update", TaxRates, "check")
            /\ Gate(r, Live(req[r].id) /\ SlugFree(req[r].id, req[r].slug), "row")
    <3> DEFINE ok == Live(req[r].id) /\ SlugFree(req[r].id, req[r].slug)
    <3>1. /\ r \in InFlight /\ req[r].verb = "update" /\ req[r].id \in TaxRates
          /\ req[r].step = "check"
      BY <2>1, AtIs DEF Steps
    <3>2. ok => Checked(r, req[r].slug, "row")
      BY <3>1, TablesDistinct, IsChild, IsClassifier DEF Checked, Unindexed
    <3> HIDE DEF ok
    <3>3. ok \in BOOLEAN /\ Gate(r, ok, "row")
      BY <2>1 DEF ok
    <3> QED
      BY <3>1, <3>2, <3>3, GateChecks
  <2>2. CASE At(r, "update", TaxRates, "row") /\ Write(r, Renamed(r), "done")
    BY <2>2, AtIs, RenamedRewrites, TablesDistinct DEF Steps
  <2> QED
    BY <1>5, <2>1, <2>2 DEF UpdateTaxRate
<1>6. CASE RemoveTaxRate(r)
  <2>1. CASE At(r, "remove", TaxRates, "check") /\ Gate(r, Live(req[r].id), "row")
    <3> DEFINE ok == Live(req[r].id)
    <3>1. /\ r \in InFlight /\ req[r].verb = "remove" /\ req[r].id \in TaxRates
          /\ req[r].step = "check"
      BY <2>1, AtIs DEF Steps
    <3>2. ok => Checked(r, req[r].slug, "row")
      BY <3>1, TablesDistinct, IsChild, IsClassifier DEF Checked, Unindexed
    <3> HIDE DEF ok
    <3>3. ok \in BOOLEAN /\ Gate(r, ok, "row")
      BY <2>1 DEF ok, Live
    <3> QED
      BY <3>1, <3>2, <3>3, GateChecks
  <2>2. CASE At(r, "remove", TaxRates, "row") /\ Write(r, SoftDelete(r), "done")
    BY <2>2, AtIs, SoftDeleteRemoves DEF Steps
  <2> QED
    BY <1>6, <2>1, <2>2 DEF RemoveTaxRate
<1> QED
  BY <1>1, <1>2, <1>3, <1>4, <1>5, <1>6

LEMMA RemovalProductsMediaMove ==
  ASSUME RequestsOK, TypeOK, NEW r \in Requests,
         RemoveProduct(r) \/ DeleteMedia(r)
  PROVE  Moves(r)
<1>1. CASE RemoveProduct(r)
  <2>1. CASE At(r, "remove", Products, "check") /\ Gate(r, Live(req[r].id), "children")
    <3> DEFINE ok == Live(req[r].id)
    <3>1. /\ r \in InFlight /\ req[r].verb = "remove" /\ req[r].id \in Products
          /\ req[r].step = "check"
      BY <2>1, AtIs DEF Steps
    <3>2. ok => Checked(r, req[r].slug, "children")
      BY <3>1, TablesDistinct, IsChild, IsClassifier DEF Checked, Unindexed
    <3> HIDE DEF ok
    <3>3. ok \in BOOLEAN /\ Gate(r, ok, "children")
      BY <2>1 DEF ok, Live
    <3> QED
      BY <3>1, <3>2, <3>3, GateChecks
  <2>2. CASE At(r, "remove", Products, "children") /\ Write(r, ChildrenRemoved(r), "row")
    BY <2>2, AtIs, ChildrenRemovedRemoves, TablesDistinct DEF Steps
  <2>3. CASE At(r, "remove", Products, "row") /\ Write(r, SoftDelete(r), "done")
    BY <2>3, AtIs, SoftDeleteRemoves DEF Steps
  <2> QED
    BY <1>1, <2>1, <2>2, <2>3 DEF RemoveProduct
<1>2. CASE DeleteMedia(r)
  <2>1. CASE /\ At(r, "remove", Media, "check")
            /\ Gate(r, Live(req[r].id) /\ ~\E l \in link : l[2] = req[r].id, "row")
    <3> DEFINE ok == Live(req[r].id) /\ ~\E l \in link : l[2] = req[r].id
    <3>1. /\ r \in InFlight /\ req[r].verb = "remove" /\ req[r].id \in Media
          /\ req[r].step = "check"
      BY <2>1, AtIs DEF Steps
    <3>2. ok => Checked(r, req[r].slug, "row")
      BY <3>1, TablesDistinct, IsChild, IsClassifier DEF Checked, Unindexed
    <3> HIDE DEF ok
    <3>3. ok \in BOOLEAN /\ Gate(r, ok, "row")
      BY <2>1 DEF ok
    <3> QED
      BY <3>1, <3>2, <3>3, GateChecks
  <2>2. CASE At(r, "remove", Media, "row") /\ Write(r, SoftDelete(r), "done")
    BY <2>2, AtIs, SoftDeleteRemoves DEF Steps
  <2> QED
    BY <1>2, <2>1, <2>2 DEF DeleteMedia
<1> QED
  BY <1>1, <1>2

LEMMA GenerateChecks ==
  ASSUME RequestsOK, NEW r \in InFlight, req[r].step = "check", req[r].verb # "remove",
         req[r].id \in Variations \/ req[r].id \in Products, Generate(r, "row")
  PROVE  Moves(r)
<1>1. PICK slug \in Slugs :
        /\ req' = [req EXCEPT ![r] = Advanced(r, slug, req[r].old, "row")]
        /\ UNCHANGED <<row, link, files, desk, screen, overtaken>>
  BY DEF Generate
<1>2. Goes(r, slug, "row")
  BY <1>1, GoesIs, InFlightIs DEF Steps
<1>3. Checked(r, slug, "row")
  BY TablesDistinct, IsChild DEF Checked, Unindexed
<1> QED
  BY <1>1, <1>2, <1>3 DEF Checks, Moves

LEMMA RefusalQuits ==
  ASSUME RequestsOK, NEW r \in InFlight, Gate(r, FALSE, "done")
  PROVE  Moves(r)
BY GateIs DEF Moves

LEMMA RelinkMoves ==
  ASSUME RequestsOK, NEW r \in InFlight, NEW links, NEW next \in {"done", "link"},
         req[r].step \in {"link", "unlink"},
         next = "link" => req[r].verb # "remove" /\ req[r].step = "unlink",
         req[r].verb # "remove" => req[r].id \in Brands \cup Products \cup Variants,
         links \subseteq link \cup ({req[r].id} \X (req[r].refs \cap Media)),
         Relink(r, links, next)
  PROVE  Moves(r)
<1>1. IF next = "done" THEN Ends(r) ELSE Goes(r, req[r].slug, next)
  BY GoesOnIs DEF Relink, Steps
<1> QED
  BY <1>1 DEF Relink, Relinks, Moves

LEMMA BrandsMove ==
  ASSUME RequestsOK, TypeOK, ReferencesOK, NEW r \in Requests,
         CreateBrand(r) \/ UpdateBrand(r) \/ RemoveBrand(r)
  PROVE  Moves(r)
<1>1. CASE CreateBrand(r)
  <2>1. CASE /\ At(r, "create", Brands, "check")
             /\ Gate(r, SlugFree(req[r].id, req[r].slug) /\ \A m \in req[r].refs : Live(m), "row")
    <3> DEFINE ok == SlugFree(req[r].id, req[r].slug) /\ \A m \in req[r].refs : Live(m)
    <3>1. /\ r \in InFlight /\ req[r].verb = "create" /\ req[r].id \in Brands
          /\ req[r].step = "check"
      BY <2>1, AtIs DEF Steps
    <3>2. ok => Checked(r, req[r].slug, "row")
      BY <3>1, TablesDistinct, IsChild DEF Checked
    <3> HIDE DEF ok
    <3>3. ok \in BOOLEAN /\ Gate(r, ok, "row")
      BY <2>1 DEF ok
    <3> QED
      BY <3>1, <3>2, <3>3, GateChecks
  <2>2. CASE /\ At(r, "create", Brands, "row")
             /\ Write(r, New(r, req[r].refs), IF req[r].refs = {} THEN "done" ELSE "link")
    <3>1. /\ r \in InFlight /\ req[r].verb = "create" /\ req[r].id \in Brands
          /\ req[r].step = "row"
      BY <2>2, AtIs DEF Steps
    <3>2. req[r].id \notin Products
      BY <3>1, TablesDistinct
    <3>3. CASE req[r].refs = {}
      <4>1. Write(r, New(r, req[r].refs), "done")
        BY <2>2, <3>3
      <4> QED
        BY <3>1, <3>2, <4>1, NewCreates
    <3>4. CASE req[r].refs # {}
      <4>1. Write(r, New(r, req[r].refs), "link")
        BY <2>2, <3>4
      <4> QED
        BY <3>1, <3>2, <4>1, NewCreates
    <3> QED
      BY <3>3, <3>4
  <2>3. CASE /\ At(r, "create", Brands, "link")
             /\ Relink(r, link \cup ({req[r].id} \X req[r].refs), "done")
    <3>1. /\ r \in InFlight /\ req[r].verb = "create" /\ req[r].id \in Brands
          /\ req[r].step = "link"
      BY <2>3, AtIs DEF Steps
    <3>2. req[r].refs \subseteq Media
      BY <3>1 DEF ReferencesOK
    <3>3. link \cup ({req[r].id} \X req[r].refs)
            \subseteq link \cup ({req[r].id} \X (req[r].refs \cap Media))
      BY <3>2
    <3> QED
      BY <2>3, <3>1, <3>3, RelinkMoves
  <2> QED
    BY <1>1, <2>1, <2>2, <2>3 DEF CreateBrand
<1>2. CASE UpdateBrand(r)
  <2> DEFINE id == req[r].id
             logo == IF req[r].given = {} THEN row[id].refs ELSE req[r].refs
             rows == [i \in {id} |-> [row[i] EXCEPT !.slug = req[r].slug, !.refs = logo]]
             next == IF req[r].refs \in {{}, req[r].old} THEN "done"
                     ELSE IF req[r].old = {} THEN "link" ELSE "unlink"
  <2>1. CASE /\ At(r, "update", Brands, "check")
             /\ IF /\ Live(id) /\ SlugFree(id, req[r].slug)
                   /\ \A m \in req[r].refs : m \in row[id].refs \/ Live(m)
                THEN /\ req' = [req EXCEPT ![r] = Advanced(r, req[r].slug, row[id].refs, "row")]
                     /\ UNCHANGED <<row, link, files, desk, screen, overtaken>>
                ELSE Gate(r, FALSE, "done")
    <3>1. /\ r \in InFlight /\ req[r].verb = "update" /\ id \in Brands /\ req[r].step = "check"
      BY <2>1, AtIs DEF Steps
    <3>2. CASE Gate(r, FALSE, "done")
      BY <3>1, <3>2, RefusalQuits
    <3>3. CASE ~Gate(r, FALSE, "done")
      <4>1. /\ SlugFree(id, req[r].slug)
            /\ req' = [req EXCEPT ![r] = Advanced(r, req[r].slug, row[id].refs, "row")]
            /\ UNCHANGED <<row, link, files, desk, screen, overtaken>>
        BY <2>1, <3>3
      <4>2. row[id].refs \in SUBSET Rows /\ req[r].slug \in Slugs \cup {None}
        BY <3>1, InFlightIs DEF TypeOK
      <4>3. Goes(r, req[r].slug, "row")
        BY <3>1, <4>1, <4>2, GoesIs DEF Steps
      <4>4. Checked(r, req[r].slug, "row")
        BY <3>1, <4>1 DEF Checked
      <4> QED
        BY <3>1, <4>1, <4>2, <4>3, <4>4 DEF Checks, Moves
    <3> QED
      BY <3>2, <3>3
  <2>2. CASE At(r, "update", Brands, "row") /\ Write(r, rows, next)
    <3>1. /\ r \in InFlight /\ req[r].verb = "update" /\ id \in Brands /\ req[r].step = "row"
      BY <2>2, AtIs DEF Steps
    <3>2. /\ DOMAIN rows = {id} /\ next \in {"done", "link", "unlink"}
          /\ rows[id] = [row[id] EXCEPT !.slug = req[r].slug, !.refs = logo]
      OBVIOUS
    <3>3. row[id] \in [state : {"none", "live", "removed"}, slug : Slugs \cup {None},
                       refs : SUBSET Rows]
      BY <3>1, InFlightIs DEF TypeOK
    <3>4. rows[id].slug = req[r].slug /\ logo \in SUBSET (row[id].refs \cup req[r].refs)
      BY <3>2, <3>3
    <3>5. id \notin Products
      BY <3>1, TablesDistinct
    <3> HIDE DEF rows, next, logo
    <3>6. CASE Quits(r)
      BY <3>6 DEF Moves
    <3>7. CASE ~Quits(r)
      <4>1. /\ IndexAllows(id, rows[id].slug) /\ Puts(id, rows[id])
            /\ IF next = "done" THEN Ends(r) ELSE Goes(r, req[r].slug, next)
        BY <2>2, <3>1, <3>2, <3>7, WriteOne DEF Steps
      <4> QED
        BY <3>1, <3>2, <3>4, <3>5, <4>1 DEF Rewrites, Moves
    <3> QED
      BY <3>6, <3>7
  <2>3. CASE At(r, "update", Brands, "unlink") /\ Relink(r, {l \in link : l[1] # id}, "link")
    <3>1. /\ r \in InFlight /\ req[r].verb = "update" /\ id \in Brands /\ req[r].step = "unlink"
      BY <2>3, AtIs DEF Steps
    <3>2. {l \in link : l[1] # id} \subseteq link \cup ({id} \X (req[r].refs \cap Media))
      OBVIOUS
    <3> QED
      BY <2>3, <3>1, <3>2, RelinkMoves
  <2>4. CASE /\ At(r, "update", Brands, "link")
             /\ Relink(r, link \cup ({id} \X req[r].refs), "done")
    <3>1. /\ r \in InFlight /\ req[r].verb = "update" /\ id \in Brands /\ req[r].step = "link"
      BY <2>4, AtIs DEF Steps
    <3>2. req[r].refs \subseteq Media
      BY <3>1 DEF ReferencesOK
    <3>3. link \cup ({id} \X req[r].refs) \subseteq link \cup ({id} \X (req[r].refs \cap Media))
      BY <3>2
    <3> QED
      BY <2>4, <3>1, <3>3, RelinkMoves
  <2> QED
    BY <1>2, <2>1, <2>2, <2>3, <2>4 DEF UpdateBrand
<1>3. CASE RemoveBrand(r)
  <2> DEFINE id == req[r].id
  <2>1. CASE /\ At(r, "remove", Brands, "check")
             /\ IF Live(id) /\ ~UsedByLive(id)
                THEN /\ req' = [req EXCEPT ![r] = Advanced(r, req[r].slug, row[id].refs, "row")]
                     /\ UNCHANGED <<row, link, files, desk, screen, overtaken>>
                ELSE Gate(r, FALSE, "done")
    <3>1. /\ r \in InFlight /\ req[r].verb = "remove" /\ id \in Brands /\ req[r].step = "check"
      BY <2>1, AtIs DEF Steps
    <3>2. CASE Gate(r, FALSE, "done")
      BY <3>1, <3>2, RefusalQuits
    <3>3. CASE ~Gate(r, FALSE, "done")
      <4>1. /\ ~UsedByLive(id)
            /\ req' = [req EXCEPT ![r] = Advanced(r, req[r].slug, row[id].refs, "row")]
            /\ UNCHANGED <<row, link, files, desk, screen, overtaken>>
        BY <2>1, <3>3
      <4>2. row[id].refs \in SUBSET Rows /\ req[r].slug \in Slugs \cup {None}
        BY <3>1, InFlightIs DEF TypeOK
      <4>3. Goes(r, req[r].slug, "row")
        BY <3>1, <4>1, <4>2, GoesIs DEF Steps
      <4>4. Checked(r, req[r].slug, "row")
        BY <3>1, <4>1, TablesDistinct DEF Checked
      <4> QED
        BY <3>1, <4>1, <4>2, <4>3, <4>4 DEF Checks, Moves
    <3> QED
      BY <3>2, <3>3
  <2>2. CASE /\ At(r, "remove", Brands, "row")
             /\ Write(r, SoftDelete(r), IF req[r].old = {} THEN "done" ELSE "unlink")
    <3>1. /\ r \in InFlight /\ req[r].verb = "remove" /\ req[r].step = "row"
          /\ Write(r, SoftDelete(r), "done") \/ Write(r, SoftDelete(r), "unlink")
      BY <2>2, AtIs DEF Steps
    <3> QED
      BY <3>1, SoftDeleteRemoves
  <2>3. CASE At(r, "remove", Brands, "unlink") /\ Relink(r, {l \in link : l[1] # id}, "done")
    <3>1. /\ r \in InFlight /\ req[r].verb = "remove" /\ req[r].step = "unlink"
      BY <2>3, AtIs DEF Steps
    <3>2. {l \in link : l[1] # id} \subseteq link \cup ({id} \X (req[r].refs \cap Media))
      OBVIOUS
    <3> QED
      BY <2>3, <3>1, <3>2, RelinkMoves
  <2> QED
    BY <1>3, <2>1, <2>2, <2>3 DEF RemoveBrand
<1> QED
  BY <1>1, <1>2, <1>3
LEMMA NewVariationsMove ==
  ASSUME RequestsOK, TypeOK, NEW r \in Requests, CreateVariation(r) \/ UpdateVariation(r)
  PROVE  Moves(r)
<1>1. CASE CreateVariation(r)
  <2>1. CASE At(r, "create", Variations, "check") /\ Generate(r, "row")
    BY <2>1, AtIs, GenerateChecks DEF Steps
  <2>2. CASE At(r, "create", Variations, "row") /\ Write(r, New(r, {}), "values")
    BY <2>2, AtIs, NewCreates, TablesDistinct DEF Steps
  <2>3. CASE /\ At(r, "create", Variations, "values")
             /\ \E v \in req[r].refs \cap Children(req[r].id) :
                  /\ row[v].state = "none"
                  /\ row' = [row EXCEPT ![v] = Begun(v)]
                  /\ UNCHANGED <<link, files, desk, screen, req, overtaken>>
    <3>1. /\ r \in InFlight /\ req[r].verb = "create" /\ req[r].id \in Variations
          /\ req[r].step = "values"
      BY <2>3, AtIs DEF Steps
    <3>2. PICK v \in req[r].refs \cap Children(req[r].id) :
            /\ row[v].state = "none"
            /\ row' = [row EXCEPT ![v] = Begun(v)]
            /\ UNCHANGED <<link, files, desk, screen, req, overtaken>>
      BY <2>3
    <3>3. row' = [j \in Rows |-> IF j = v THEN Begun(v) ELSE row[j]]
      BY <3>2 DEF TypeOK
    <3> QED
      BY <3>1, <3>2, <3>3 DEF AddsValue, Puts, Moves
  <2>4. CASE /\ At(r, "create", Variations, "values")
             /\ \A v \in req[r].refs : Exists(v)
             /\ Gate(r, FALSE, "done")
    BY <2>4, AtIs, RefusalQuits DEF Steps
  <2> QED
    BY <1>1, <2>1, <2>2, <2>3, <2>4 DEF CreateVariation
<1>2. CASE UpdateVariation(r)
  <2>1. CASE At(r, "update", Variations, "check") /\ ~Live(req[r].id) /\ Gate(r, FALSE, "done")
    BY <2>1, AtIs, RefusalQuits DEF Steps
  <2>2. CASE At(r, "update", Variations, "check") /\ Live(req[r].id) /\ Generate(r, "row")
    BY <2>2, AtIs, GenerateChecks DEF Steps
  <2>3. CASE At(r, "update", Variations, "row") /\ Write(r, Renamed(r), "done")
    BY <2>3, AtIs, RenamedRewrites, TablesDistinct DEF Steps
  <2> QED
    BY <1>2, <2>1, <2>2, <2>3 DEF UpdateVariation
<1> QED
  BY <1>1, <1>2

LEMMA UploadMoves ==
  ASSUME RequestsOK, TypeOK, NEW r \in Requests, UploadMedia(r)
  PROVE  Moves(r)
<1>1. CASE At(r, "create", Media, "check") /\ Gate(r, TRUE, "files")
  <2>1. /\ r \in InFlight /\ req[r].verb = "create" /\ req[r].id \in Media /\ req[r].step = "check"
    BY <1>1, AtIs DEF Steps
  <2>2. Checked(r, req[r].slug, "files")
    BY <2>1, TablesDistinct, IsChild DEF Checked, Unindexed
  <2> QED
    BY <1>1, <2>1, <2>2, GateChecks
<1>2. CASE /\ At(r, "create", Media, "files")
           /\ files' = files \cup {req[r].id}
           /\ GoesOn(r, "row")
           /\ UNCHANGED <<row, link, desk, screen, overtaken>>
  <2>1. /\ r \in InFlight /\ req[r].verb = "create" /\ req[r].id \in Media /\ req[r].step = "files"
    BY <1>2, AtIs DEF Steps
  <2>2. Goes(r, req[r].slug, "row")
    BY <1>2, <2>1, GoesOnIs DEF Steps
  <2> QED
    BY <1>2, <2>1, <2>2 DEF StoresFiles, Moves
<1>3. CASE At(r, "create", Media, "row") /\ Write(r, New(r, {}), "done")
  BY <1>3, AtIs, NewCreates, TablesDistinct DEF Steps
<1> QED
  BY <1>1, <1>2, <1>3 DEF UploadMedia

LEMMA CreateProductMoves ==
  ASSUME RequestsOK, TypeOK, NEW r \in Requests, CreateProduct(r)
  PROVE  Moves(r)
<1> DEFINE id == req[r].id
           refs == req[r].refs
           new == [state |-> "live", slug |-> req[r].slug, refs |-> References(refs)]
           rows(uid) == [i \in {id} \cup Born(refs) |-> IF i = id THEN new ELSE Made(i, uid)]
           ok(uid) == IndexAllows(id, req[r].slug) /\ \A v \in DOMAIN uid : IndexAllows(v, uid[v])
           next(uid) == IF ok(uid) /\ refs \cap Variants = {} /\ refs \cap Media # {} THEN "link" ELSE "done"
<1>1. CASE At(r, "create", Products, "check") /\ Generate(r, "row")
  BY <1>1, AtIs, GenerateChecks DEF Steps
<1>2. CASE /\ At(r, "create", Products, "row")
           /\ \E uid \in Uids(refs) :
                /\ row' = IF ok(uid)
                          THEN [i \in Rows |-> IF i \in DOMAIN rows(uid) THEN rows(uid)[i] ELSE row[i]]
                          ELSE row
                /\ link' = IF ok(uid) THEN link \cup ((refs \cap Variants) \X (refs \cap Media))
                           ELSE link
                /\ GoesOn(r, next(uid))
                /\ UNCHANGED <<files, desk, screen, overtaken>>
  <2>0. PICK uid \in Uids(refs) :
          /\ row' = IF ok(uid)
                    THEN [i \in Rows |-> IF i \in DOMAIN rows(uid) THEN rows(uid)[i] ELSE row[i]]
                    ELSE row
          /\ link' = IF ok(uid) THEN link \cup ((refs \cap Variants) \X (refs \cap Media)) ELSE link
          /\ GoesOn(r, next(uid))
          /\ UNCHANGED <<files, desk, screen, overtaken>>
    BY <1>2
  <2>1. /\ r \in InFlight /\ req[r].verb = "create" /\ id \in Products /\ req[r].step = "row"
    BY <1>2, AtIs DEF Steps
  <2>2. IF next(uid) = "done" THEN Ends(r) ELSE Goes(r, req[r].slug, next(uid))
    BY <2>0, <2>1, GoesOnIs DEF Steps
  <2>3. CASE ~ok(uid)
    BY <2>0, <2>1, <2>2, <2>3 DEF Quits, Moves
  <2>4. CASE ok(uid)
    <3>1. [i \in Rows |-> IF i \in DOMAIN rows(uid) THEN rows(uid)[i] ELSE row[i]]
            = [i \in Rows |-> IF i = id THEN new
                              ELSE IF i \in Born(refs) THEN Made(i, uid) ELSE row[i]]
      OBVIOUS
    <3>2. /\ row' = [i \in Rows |-> IF i = id THEN new
                                    ELSE IF i \in Born(refs) THEN Made(i, uid) ELSE row[i]]
          /\ link' = link \cup ((refs \cap Variants) \X (refs \cap Media))
      BY <2>0, <2>4, <3>1
    <3>3. Ends(r) \/ Goes(r, req[r].slug, "link")
      BY <2>2
    <3> QED
      BY <2>0, <2>1, <2>4, <3>2, <3>3 DEF CreatesProduct, Moves
  <2> QED
    BY <2>3, <2>4
<1>3. CASE /\ At(r, "create", Products, "link")
           /\ LinkMediaToEntity(r, id, refs \cap Media)
  <2> DEFINE links == IF \A m \in refs \cap Media : Live(m)
                      THEN link \cup ({id} \X (refs \cap Media)) ELSE link
  <2>1. /\ r \in InFlight /\ req[r].verb = "create" /\ id \in Products /\ req[r].step = "link"
    BY <1>3, AtIs DEF Steps
  <2>2. links \subseteq link \cup ({id} \X (refs \cap Media))
    OBVIOUS
  <2>3. Relink(r, links, "done")
    BY <1>3 DEF LinkMediaToEntity
  <2> HIDE DEF links
  <2> QED
    BY <2>1, <2>2, <2>3, RelinkMoves
<1> QED
  BY <1>1, <1>2, <1>3 DEF CreateProduct

LEMMA UpdateProductMoves ==
  ASSUME RequestsOK, TypeOK, NEW r \in Requests, UpdateProduct(r)
  PROVE  Moves(r)
<1> DEFINE id == req[r].id
           refs == (row[id].refs \ req[r].given) \cup References(req[r].refs)
           rows == [i \in {id} |->
                      [row[i] EXCEPT !.refs = (@ \ req[r].given) \cup References(req[r].refs)]]
           next == IF req[r].given \cap Media = {} THEN "done" ELSE "link"
<1>1. CASE At(r, "update", Products, "check") /\ Gate(r, Live(id), "row")
  <2>1. /\ r \in InFlight /\ req[r].verb = "update" /\ id \in Products /\ req[r].step = "check"
    BY <1>1, AtIs DEF Steps
  <2>2. Checked(r, req[r].slug, "row")
    BY <2>1, TablesDistinct DEF Checked, Unindexed
  <2>3. Live(id) \in BOOLEAN
    BY DEF Live
  <2> QED
    BY <1>1, <2>1, <2>2, <2>3, GateChecks
<1>2. CASE At(r, "update", Products, "row") /\ Write(r, rows, next)
  <2>1. /\ r \in InFlight /\ req[r].verb = "update" /\ id \in Products /\ req[r].step = "row"
    BY <1>2, AtIs DEF Steps
  <2>2. row[id] \in [state : {"none", "live", "removed"}, slug : Slugs \cup {None},
                     refs : SUBSET Rows]
    BY <2>1, InFlightIs DEF TypeOK
  <2>3. DOMAIN rows = {id} /\ rows[id] = [row[id] EXCEPT !.refs = refs]
    OBVIOUS
  <2>4. refs \in SUBSET (row[id].refs \cup req[r].refs)
    BY DEF References
  <2>5. rows[id].slug = row[id].slug /\ rows[id] = [row[id] EXCEPT !.slug = row[id].slug, !.refs = refs]
    <3> HIDE DEF rows, refs
    <3> QED
      BY <2>2, <2>3
  <2>6. next \in {"done", "link"} /\ refs = (row[id].refs \ req[r].given) \cup References(req[r].refs)
    OBVIOUS
  <2> HIDE DEF rows, next, refs
  <2>7. CASE Quits(r)
    BY <2>7 DEF Moves
  <2>8. CASE ~Quits(r)
    <3>1. /\ IndexAllows(id, rows[id].slug) /\ Puts(id, rows[id])
          /\ IF next = "done" THEN Ends(r) ELSE Goes(r, req[r].slug, next)
      BY <1>2, <2>1, <2>3, <2>6, <2>8, WriteOne DEF Steps
    <3> QED
      BY <2>1, <2>4, <2>5, <2>6, <3>1 DEF Rewrites, Moves
  <2> QED
    BY <2>7, <2>8
<1>3. CASE /\ At(r, "update", Products, "link")
           /\ UpdateEntityMedia(r, id, req[r].refs \cap Media)
  <2>1. /\ r \in InFlight /\ req[r].verb = "update" /\ id \in Products /\ req[r].step = "link"
    BY <1>3, AtIs DEF Steps
  <2>2. {l \in link : l[1] # id} \cup ({id} \X (req[r].refs \cap Media))
          \subseteq link \cup ({id} \X (req[r].refs \cap Media))
    OBVIOUS
  <2> QED
    BY <1>3, <2>1, <2>2, RelinkMoves DEF UpdateEntityMedia
<1> QED
  BY <1>1, <1>2, <1>3 DEF UpdateProduct

LEMMA UpdateVariantMoves ==
  ASSUME RequestsOK, TypeOK, ReferencesOK, NEW r \in Requests, UpdateVariant(r)
  PROVE  Moves(r)
<1> DEFINE id == req[r].id
           rows == [i \in {id} |-> row[i]]
           next == IF req[r].given = {} THEN "done" ELSE "link"
<1>1. CASE At(r, "update", Variants, "check") /\ Gate(r, Live(id), "row")
  <2>1. /\ r \in InFlight /\ req[r].verb = "update" /\ id \in Variants /\ req[r].step = "check"
    BY <1>1, AtIs DEF Steps
  <2>2. Checked(r, req[r].slug, "row")
    BY <2>1, TablesDistinct DEF Checked, Unindexed
  <2>3. Live(id) \in BOOLEAN
    BY DEF Live
  <2> QED
    BY <1>1, <2>1, <2>2, <2>3, GateChecks
<1>2. CASE At(r, "update", Variants, "row") /\ Write(r, rows, next)
  <2>1. /\ r \in InFlight /\ req[r].verb = "update" /\ id \in Variants /\ req[r].step = "row"
    BY <1>2, AtIs DEF Steps
  <2>2. row[id] \in [state : {"none", "live", "removed"}, slug : Slugs \cup {None},
                     refs : SUBSET Rows]
    BY <2>1, InFlightIs DEF TypeOK
  <2>3. DOMAIN rows = {id} /\ rows[id] = row[id] /\ next \in {"done", "link"}
    OBVIOUS
  <2>4. row[id] = [row[id] EXCEPT !.slug = row[id].slug, !.refs = row[id].refs]
    BY <2>2
  <2>5. id \notin Products
    BY <2>1, TablesDistinct
  <2> HIDE DEF rows, next
  <2>6. CASE Quits(r)
    BY <2>6 DEF Moves
  <2>7. CASE ~Quits(r)
    <3>1. /\ IndexAllows(id, row[id].slug) /\ Puts(id, row[id])
          /\ IF next = "done" THEN Ends(r) ELSE Goes(r, req[r].slug, next)
      BY <1>2, <2>1, <2>3, <2>7, WriteOne DEF Steps
    <3>2. row[id].refs \in SUBSET (row[id].refs \cup req[r].refs)
      OBVIOUS
    <3> QED
      BY <2>1, <2>3, <2>4, <2>5, <3>1, <3>2 DEF Rewrites, Moves
  <2> QED
    BY <2>6, <2>7
<1>3. CASE At(r, "update", Variants, "link") /\ UpdateEntityMedia(r, id, req[r].refs)
  <2>1. /\ r \in InFlight /\ req[r].verb = "update" /\ id \in Variants /\ req[r].step = "link"
    BY <1>3, AtIs DEF Steps
  <2>2. req[r].refs \subseteq Media
    BY <2>1 DEF ReferencesOK
  <2>3. {l \in link : l[1] # id} \cup ({id} \X req[r].refs)
          \subseteq link \cup ({id} \X (req[r].refs \cap Media))
    BY <2>2
  <2> QED
    BY <1>3, <2>1, <2>3, RelinkMoves DEF UpdateEntityMedia
<1> QED
  BY <1>1, <1>2, <1>3 DEF UpdateVariant

\* Every step of a handler, and a stop, is of one of these kinds.
LEMMA StepMoves ==
  ASSUME RequestsOK, TypeOK, ReferencesOK, NEW r \in Requests, Step(r) \/ Stop(r)
  PROVE  Moves(r) /\ r \in InFlight
<1>1. CASE Step(r)
  <2>1. r \in InFlight
    BY <1>1 DEF Step, At, InFlight, CreateBrand, UpdateBrand, RemoveBrand, CreateTag, UpdateTag,
      RemoveTag, CreateAttributeSet, UpdateAttributeSet, RemoveAttributeSet, CreateAttribute,
      UpdateAttribute, RemoveAttribute, AddAttributeValue, DeleteAttributeValue, CreateVariation,
      UpdateVariation, RemoveVariation, AddVariationValue, RemoveVariationValue, CreateTaxClass,
      UpdateTaxClass, RemoveTaxClass, CreateTaxRate, UpdateTaxRate, RemoveTaxRate, UploadMedia,
      DeleteMedia, CreateProduct, UpdateProduct, RemoveProduct, UpdateVariant
  <2>2. Moves(r)
    BY <1>1, BrandsMove, TagsMove, AttributeSetsMove, AttributesMove, NewVariationsMove,
      VariationsMove, TaxesMove, UploadMoves, RemovalProductsMediaMove, CreateProductMoves,
      UpdateProductMoves, UpdateVariantMoves DEF Step
  <2> QED
    BY <2>1, <2>2
<1>2. CASE Stop(r)
  BY <1>2, RefusalQuits DEF Stop
<1> QED
  BY <1>1, <1>2
-----------------------------------------------------------------------------
(* What a step of a request changes. *)

\* Rows appear by their own creation, or with the product or the variation that brings them.
Appears(r) ==
  \A i \in Rows :
    /\ Exists(i) => Exists(i)'
    /\ Exists(i)' => Exists(i) \/ Live(i)'
    /\ Live(i)' =>
         \/ Live(i)
         \/ req[r].verb = "create" /\ req[r].step = "row" /\ i = req[r].id
         \/ /\ req[r].verb = "create" /\ ~Exists(i) /\ i \in req[r].refs
            /\ i \in Variations \/ i \in VariationValues \/ i \in Variants
            /\ i \in Variants => /\ req[r].id \in Products /\ req[r].step = "row"
                                 /\ Parent[i] = req[r].id /\ row'[req[r].id].state = "live"
            /\ i \in VariationValues =>
                 \/ req[r].id \in Variations /\ req[r].step = "values" /\ Parent[i] = req[r].id
                 \/ /\ req[r].id \in Products /\ req[r].step = "row"
                    /\ Parent[i] \in req[r].refs /\ (Exists(Parent[i]) \/ Live(Parent[i])')

\* Rows are removed by their own removal, or by that of their parent.
Disappears(r) ==
  \A i \in Rows : row'[i].state = "removed" =>
    \/ row[i].state = "removed"
    \/ /\ req[r].verb = "remove"
       /\ \/ req[r].step = "row" /\ i = req[r].id
          \/ req[r].step = "children" /\ i \in Children(req[r].id) /\ i \notin Attributes

\* A product comes to use only what its request refers to, an entity to show only that.
Uses(r) ==
  /\ \A p \in Products : Live(p)' =>
       \A i \in row'[p].refs : i \in req[r].refs \/ (Live(p) /\ i \in row[p].refs)
  /\ \A l \in link' : l \in link \/ l[2] \in req[r].refs

\* A row takes its request's slug, or keeps its own, or is a new variation with one of its own.
Names(r) ==
  \A i \in Rows :
    \/ /\ i = req[r].id /\ req[r].verb # "remove" /\ req[r].step = "row"
       /\ row'[i].slug = req[r].slug /\ IndexAllows(i, req[r].slug) /\ Exists(i)'
    \/ /\ row'[i].slug = row[i].slug
       /\ row[i].slug = None \/ ((Live(i)' => Live(i)) /\ (Exists(i)' => Exists(i)))
    \/ /\ i \in Variations /\ i # req[r].id /\ Exists(i)'
       /\ \A j \in Peers(i) : Exists(j)' => row'[j].slug # row'[i].slug

Effects(r) ==
  /\ UNCHANGED <<desk, screen, overtaken>> /\ files \subseteq files'
  /\ Appears(r) /\ Disappears(r) /\ Uses(r) /\ Names(r)

RowType ==
  [state : {"none", "live", "removed"}, slug : Slugs \cup {None}, refs : SUBSET Rows]

LEMMA RowsTyped ==
  ASSUME TypeOK
  PROVE  /\ DOMAIN row = Rows
         /\ \A i \in Rows :
              /\ row[i] \in RowType
              /\ row[i].state \in {"none", "live", "removed"}
              /\ row[i].slug \in Slugs \cup {None} /\ row[i].refs \subseteq Rows
<1>1. row \in [Rows -> RowType]
  BY DEF TypeOK, RowType
<1>2. \A i \in Rows : row[i] \in RowType
  BY <1>1
<1> QED
  BY <1>1, <1>2 DEF RowType

LEMMA SameEffects ==
  ASSUME TypeOK, NEW r \in InFlight, UNCHANGED <<row, desk, screen, overtaken>>,
         files \subseteq files', link' \subseteq link \cup ({req[r].id} \X (req[r].refs \cap Media))
  PROVE  Effects(r)
BY DEF Effects, Appears, Disappears, Uses, Names, Exists, Live

LEMMA PutsIs ==
  ASSUME NEW i \in Rows, NEW new, Puts(i, new)
  PROVE  /\ row'[i] = new
         /\ \A j \in Rows : j # i => row'[j] = row[j]
BY DEF Puts

LEMMA CreatesEffects ==
  ASSUME RequestsOK, TypeOK, ReferencesOK, ProductsOK, NEW r \in InFlight, Creates(r)
  PROVE  Effects(r)
<1> DEFINE id == req[r].id
<1>1. id \in Rows /\ req[r].verb = "create" /\ req[r].step = "row" /\ id \notin Products
  BY InFlightIs DEF Creates
<1>2. /\ row'[id].state = "live" /\ row'[id].slug = req[r].slug
      /\ \A j \in Rows : j # id => row'[j] = row[j]
  BY <1>1, PutsIs DEF Creates
<1>3. UNCHANGED <<link, files, desk, screen, overtaken>> /\ IndexAllows(id, req[r].slug)
  BY DEF Creates, Puts
<1>4. Appears(r)
  BY <1>1, <1>2 DEF Appears, Exists, Live
<1>5. Disappears(r)
  BY <1>1, <1>2 DEF Disappears
<1>6. Uses(r)
  BY <1>1, <1>2, <1>3, IsRow DEF Uses, Live
<1>7. Names(r)
  BY <1>1, <1>2, <1>3 DEF Names, Exists, Live
<1> QED
  BY <1>3, <1>4, <1>5, <1>6, <1>7 DEF Effects

\* What comes of a row made for a product.
MadeFrom(i, uid) ==
  /\ Made(i, uid).state = "live" /\ Made(i, uid).refs = row[i].refs
  /\ Made(i, uid).slug = IF i \in Variations THEN uid[i] ELSE row[i].slug

LEMMA BornAre ==
  ASSUME RequestsOK, TypeOK, ReferencesOK, NEW r \in InFlight, req[r].verb = "create",
         req[r].id \in Products
  PROVE  \A i \in Born(req[r].refs) :
           /\ i \in Rows /\ i # req[r].id /\ i \in req[r].refs /\ row[i].state = "none" /\ ~Exists(i)
           /\ \/ i \in Variations
              \/ i \in VariationValues /\ Parent[i] \in req[r].refs
              \/ i \in Variants /\ i \in Children(req[r].id) /\ Parent[i] = req[r].id
           /\ \A uid \in Uids(req[r].refs) : MadeFrom(i, uid)
<1> SUFFICES ASSUME NEW i \in Born(req[r].refs)
             PROVE  /\ i \in Rows /\ i # req[r].id /\ i \in req[r].refs /\ row[i].state = "none"
                    /\ ~Exists(i)
                    /\ \/ i \in Variations
                       \/ i \in VariationValues /\ Parent[i] \in req[r].refs
                       \/ i \in Variants /\ i \in Children(req[r].id) /\ Parent[i] = req[r].id
                    /\ \A uid \in Uids(req[r].refs) : MadeFrom(i, uid)
  OBVIOUS
<1>1. i \in req[r].refs /\ row[i].state = "none" /\ ~Exists(i)
  BY DEF Born, Exists
<1>2. i \in Rows
  BY <1>1, InFlightIs
<1>3. i \in Variations \/ i \in VariationValues \/ i \in Variants
  BY <1>1 DEF ReferencesOK
<1>4. /\ \/ i \in Classifiers \/ i \in Variations \/ i \in VariationValues \/ i \in Media
         \/ i \in Children(req[r].id)
      /\ Closed(req[r].refs)
  BY <1>1 DEF ReferencesOK
<1>5. \/ i \in Variations
      \/ i \in VariationValues /\ Parent[i] \in req[r].refs
      \/ i \in Variants /\ i \in Children(req[r].id) /\ Parent[i] = req[r].id
  BY <1>1, <1>3, <1>4, IsClassifier, ChildrenOf, TablesDistinct DEF Closed
<1>6. row[i] \in RowType
  BY <1>2, RowsTyped
<1>7. ASSUME NEW uid \in Uids(req[r].refs)
      PROVE  MadeFrom(i, uid)
  <2>1. i \in DOMAIN uid <=> i \in Variations
    BY DEF Uids
  <2>2. CASE i \in DOMAIN uid
    <3>1. Made(i, uid) = [[row[i] EXCEPT !.state = "live"] EXCEPT !.slug = uid[i]]
      BY <2>2 DEF Made, Begun
    <3> QED
      BY <1>6, <2>1, <2>2, <3>1 DEF RowType, MadeFrom
  <2>3. CASE i \notin DOMAIN uid
    BY <1>6, <2>1, <2>3 DEF Made, Begun, RowType, MadeFrom
  <2> QED
    BY <2>2, <2>3
<1> QED
  BY <1>1, <1>2, <1>5, <1>7, TablesDistinct

LEMMA CreatesProductRows ==
  ASSUME RequestsOK, TypeOK, ReferencesOK, NEW r \in InFlight, CreatesProduct(r)
  PROVE  LET q == req[r] IN
         /\ row'[q.id].state = "live" /\ row'[q.id].slug = q.slug
         /\ row'[q.id].refs = References(q.refs)
         /\ \A i \in Born(q.refs) : row'[i].state = "live" /\ row'[i].refs = row[i].refs
         /\ \E uid \in Uids(q.refs) :
              /\ \A v \in DOMAIN uid : IndexAllows(v, uid[v])
              /\ \A i \in Born(q.refs) :
                   row'[i].slug = IF i \in Variations THEN uid[i] ELSE row[i].slug
         /\ \A i \in Rows : i # q.id /\ i \notin Born(q.refs) => row'[i] = row[i]
<1> DEFINE q == req[r]
<1>1. q.id \in Rows
  BY InFlightIs
<1>2. PICK uid \in Uids(q.refs) :
        /\ \A v \in DOMAIN uid : IndexAllows(v, uid[v])
        /\ row' = [i \in Rows |->
             IF i = q.id THEN [state |-> "live", slug |-> q.slug, refs |-> References(q.refs)]
             ELSE IF i \in Born(q.refs) THEN Made(i, uid) ELSE row[i]]
  BY DEF CreatesProduct
<1>3. /\ row'[q.id].state = "live" /\ row'[q.id].slug = q.slug
      /\ row'[q.id].refs = References(q.refs)
  BY <1>1, <1>2
<1>4. \A i \in Born(q.refs) : row'[i] = Made(i, uid) /\ MadeFrom(i, uid)
  BY <1>2, BornAre DEF CreatesProduct
<1>5. \A i \in Born(q.refs) :
        /\ row'[i].state = "live" /\ row'[i].refs = row[i].refs
        /\ row'[i].slug = IF i \in Variations THEN uid[i] ELSE row[i].slug
  BY <1>4 DEF MadeFrom
<1>6. \A i \in Rows : i # q.id /\ i \notin Born(q.refs) => row'[i] = row[i]
  BY <1>2
<1> QED
  BY <1>2, <1>3, <1>5, <1>6

LEMMA CreatesProductEffects ==
  ASSUME RequestsOK, TypeOK, ReferencesOK, ProductsOK, NEW r \in InFlight, CreatesProduct(r)
  PROVE  Effects(r)
<1> DEFINE id == req[r].id
<1>1. id \in Rows /\ req[r].verb = "create" /\ req[r].step = "row" /\ id \in Products
  BY InFlightIs DEF CreatesProduct
<1>2. /\ row'[id].state = "live" /\ row'[id].slug = req[r].slug
      /\ row'[id].refs = References(req[r].refs)
  BY CreatesProductRows
<1>3. \A i \in Born(req[r].refs) : row'[i].state = "live" /\ row'[i].refs = row[i].refs
  BY CreatesProductRows
<1>4. \A i \in Rows : i # id /\ i \notin Born(req[r].refs) => row'[i] = row[i]
  BY CreatesProductRows
<1>5. \A i \in Born(req[r].refs) :
        /\ i \in Rows /\ i # id /\ i \in req[r].refs /\ row[i].state = "none" /\ ~Exists(i)
        /\ \/ i \in Variations
           \/ i \in VariationValues /\ Parent[i] \in req[r].refs
           \/ i \in Variants /\ Parent[i] = id
  BY <1>1, BornAre
<1>6. /\ UNCHANGED <<files, desk, screen, overtaken>> /\ IndexAllows(id, req[r].slug)
      /\ link' = link \cup ((req[r].refs \cap Variants) \X (req[r].refs \cap Media))
  BY DEF CreatesProduct
<1>7. Appears(r)
  <2>1. \A j \in req[r].refs : Exists(j) \/ j \in Born(req[r].refs)
    BY DEF Born, Exists
  <2>2. \A j \in req[r].refs : Exists(j) \/ Live(j)'
    BY <1>3, <2>1 DEF Live
  <2> QED
    BY <1>1, <1>2, <1>3, <1>4, <1>5, <2>2, TablesDistinct DEF Appears, Exists, Live
<1>8. Disappears(r)
  BY <1>1, <1>2, <1>3, <1>4, <1>5 DEF Disappears
<1>9. Uses(r)
  <2>1. ASSUME NEW p \in Products, Live(p)', NEW i \in row'[p].refs
        PROVE  i \in req[r].refs \/ (Live(p) /\ i \in row[p].refs)
    <3>1. p \notin Born(req[r].refs)
      BY <1>5, TablesDistinct
    <3>2. p \in Rows
      BY IsRow
    <3> QED
      BY <1>2, <1>4, <2>1, <3>1, <3>2 DEF References, Live
  <2>2. \A l \in link' : l \in link \/ l[2] \in req[r].refs
    BY <1>6
  <2> QED
    BY <2>1, <2>2 DEF Uses
<1>10. Names(r)
  <2>1. \A i \in Rows : ~Exists(i) => row[i].slug = None
    BY DEF ProductsOK
  <2>2. PICK uid \in Uids(req[r].refs) :
          /\ \A v \in DOMAIN uid : IndexAllows(v, uid[v])
          /\ \A i \in Born(req[r].refs) :
               row'[i].slug = IF i \in Variations THEN uid[i] ELSE row[i].slug
    BY CreatesProductRows
  <2>3. ASSUME NEW i \in Born(req[r].refs), i \in Variations, NEW j \in Peers(i), Exists(j)'
        PROVE  row'[j].slug # row'[i].slug
    <3>1. i \in DOMAIN uid /\ row'[i].slug = uid[i] /\ uid[i] \in Slugs /\ uid[i] # None
      BY <2>2, <2>3, NoneIsNoSlug DEF Uids
    <3>2. j \in Variations /\ j # i /\ j \in Rows /\ j # id
      <4>1. PICK T \in Named : i \in T /\ j \in T
        BY <2>3 DEF Peers
      <4>2. j \in Variations
        BY <2>3, <4>1, TablesDistinct DEF Named
      <4> QED
        BY <1>1, <2>3, <4>2, PeersAre, TablesDistinct
    <3>3. CASE j \in Born(req[r].refs)
      BY <2>2, <3>1, <3>2, <3>3 DEF Uids
    <3>4. CASE j \notin Born(req[r].refs)
      <4>1. row'[j] = row[j]
        BY <1>4, <3>2, <3>4
      <4>2. Exists(j)
        BY <2>3, <4>1 DEF Exists
      <4>3. i \notin Unindexed
        BY <2>3, <1>5, TablesDistinct DEF Unindexed
      <4> QED
        BY <2>2, <2>3, <3>1, <4>1, <4>2, <4>3 DEF IndexAllows
    <3> QED
      BY <3>3, <3>4
  <2>4. ASSUME NEW i \in Rows
        PROVE  \/ /\ i = id /\ row'[i].slug = req[r].slug /\ IndexAllows(i, req[r].slug) /\ Exists(i)'
               \/ /\ row'[i].slug = row[i].slug
                  /\ row[i].slug = None \/ row'[i] = row[i]
               \/ /\ i \in Variations /\ i # id /\ Exists(i)'
                  /\ \A j \in Peers(i) : Exists(j)' => row'[j].slug # row'[i].slug
    <3>1. CASE i = id
      BY <1>2, <1>6, <3>1 DEF Exists
    <3>2. CASE i \in Born(req[r].refs) /\ i \in Variations
      BY <1>3, <1>5, <2>3, <3>2 DEF Exists
    <3>3. CASE i \in Born(req[r].refs) /\ i \notin Variations
      BY <1>5, <2>1, <2>2, <3>3
    <3>4. CASE i # id /\ i \notin Born(req[r].refs)
      BY <1>4, <3>4
    <3> QED
      BY <3>1, <3>2, <3>3, <3>4
  <2> QED
    BY <1>1, <2>4 DEF Names, Exists, Live
<1> QED
  BY <1>6, <1>7, <1>8, <1>9, <1>10 DEF Effects

LEMMA RewritesRows ==
  ASSUME RequestsOK, TypeOK, ReferencesOK, NEW r \in InFlight, Rewrites(r)
  PROVE  LET q == req[r] IN
         /\ q.id \in Rows /\ q.verb = "update" /\ q.step = "row" /\ Exists(q.id)
         /\ row'[q.id].state = row[q.id].state
         /\ row'[q.id].slug \in {q.slug, row[q.id].slug} /\ IndexAllows(q.id, row'[q.id].slug)
         /\ row'[q.id].refs \subseteq row[q.id].refs \cup q.refs
         /\ q.id \in Products =>
              row'[q.id].refs = (row[q.id].refs \ q.given) \cup References(q.refs)
         /\ \A i \in Rows : i # q.id => row'[i] = row[i]
<1> DEFINE q == req[r]
<1>1. q.id \in Rows /\ row[q.id] \in RowType /\ q.verb = "update" /\ q.step = "row" /\ Exists(q.id)
  BY InFlightIs, RowsTyped DEF Rewrites, ReferencesOK
<1>2. PICK slug \in {q.slug, row[q.id].slug}, refs \in SUBSET (row[q.id].refs \cup q.refs) :
       /\ IndexAllows(q.id, slug)
       /\ q.id \in Products => refs = (row[q.id].refs \ q.given) \cup References(q.refs)
       /\ Puts(q.id, [row[q.id] EXCEPT !.slug = slug, !.refs = refs])
  BY DEF Rewrites
<1>3. /\ row'[q.id] = [row[q.id] EXCEPT !.slug = slug, !.refs = refs]
      /\ \A i \in Rows : i # q.id => row'[i] = row[i]
  BY <1>1, <1>2, PutsIs
<1>4. row'[q.id].state = row[q.id].state /\ row'[q.id].slug = slug /\ row'[q.id].refs = refs
  BY <1>1, <1>3 DEF RowType
<1> QED
  BY <1>1, <1>2, <1>3, <1>4

LEMMA RewritesEffects ==
  ASSUME RequestsOK, TypeOK, ReferencesOK, NEW r \in InFlight, Rewrites(r)
  PROVE  Effects(r)
<1> DEFINE id == req[r].id
<1>1. /\ id \in Rows /\ req[r].verb = "update" /\ req[r].step = "row" /\ Exists(id)
      /\ row'[id].state = row[id].state
      /\ row'[id].slug \in {req[r].slug, row[id].slug} /\ IndexAllows(id, row'[id].slug)
      /\ row'[id].refs \subseteq row[id].refs \cup req[r].refs
      /\ \A i \in Rows : i # id => row'[i] = row[i]
  BY RewritesRows
<1>2. UNCHANGED <<link, files, desk, screen, overtaken>>
  BY DEF Rewrites, Puts
<1>3. Appears(r)
  BY <1>1 DEF Appears, Exists, Live
<1>4. Disappears(r)
  BY <1>1 DEF Disappears
<1>5. Uses(r)
  BY <1>1, <1>2, IsRow DEF Uses, Live
<1>6. Names(r)
  BY <1>1 DEF Names, Exists, Live
<1> QED
  BY <1>2, <1>3, <1>4, <1>5, <1>6 DEF Effects
LEMMA RemovesRows ==
  ASSUME RequestsOK, TypeOK, ReferencesOK, NEW r \in InFlight, Removes(r)
  PROVE  LET q == req[r] IN
         /\ q.id \in Rows /\ q.verb = "remove" /\ q.step = "row" /\ Exists(q.id)
         /\ row'[q.id].state = "removed" /\ row'[q.id].slug = row[q.id].slug
         /\ row'[q.id].refs = row[q.id].refs
         /\ \A i \in Rows : i # q.id => row'[i] = row[i]
<1> DEFINE q == req[r]
<1>1. q.id \in Rows /\ row[q.id] \in RowType /\ q.verb = "remove" /\ q.step = "row" /\ Exists(q.id)
  BY InFlightIs, RowsTyped DEF Removes, ReferencesOK
<1>2. /\ row'[q.id] = [row[q.id] EXCEPT !.state = "removed"]
      /\ \A i \in Rows : i # q.id => row'[i] = row[i]
  BY <1>1, PutsIs DEF Removes
<1> QED
  BY <1>1, <1>2 DEF RowType

LEMMA RemovesEffects ==
  ASSUME RequestsOK, TypeOK, ReferencesOK, NEW r \in InFlight, Removes(r)
  PROVE  Effects(r)
<1> DEFINE id == req[r].id
<1>1. /\ id \in Rows /\ req[r].verb = "remove" /\ req[r].step = "row" /\ Exists(id)
      /\ row'[id].state = "removed" /\ row'[id].slug = row[id].slug
      /\ row'[id].refs = row[id].refs
      /\ \A i \in Rows : i # id => row'[i] = row[i]
  BY RemovesRows
<1>2. UNCHANGED <<link, files, desk, screen, overtaken>>
  BY DEF Removes, Puts
<1>3. Appears(r)
  BY <1>1 DEF Appears, Exists, Live
<1>4. Disappears(r)
  BY <1>1 DEF Disappears
<1>5. Uses(r)
  BY <1>1, <1>2, IsRow DEF Uses, Live
<1>6. Names(r)
  BY <1>1 DEF Names, Exists, Live
<1> QED
  BY <1>2, <1>3, <1>4, <1>5, <1>6 DEF Effects

LEMMA RemovesChildrenRows ==
  ASSUME RequestsOK, TypeOK, NEW r \in InFlight, RemovesChildren(r)
  PROVE  \A i \in Rows :
           IF i \in Children(req[r].id) /\ Live(i)
           THEN row'[i].state = "removed" /\ row'[i].slug = row[i].slug /\ row'[i].refs = row[i].refs
           ELSE row'[i] = row[i]
<1> SUFFICES ASSUME NEW i \in Rows
             PROVE  IF i \in Children(req[r].id) /\ Live(i)
                    THEN row'[i].state = "removed" /\ row'[i].slug = row[i].slug
                         /\ row'[i].refs = row[i].refs
                    ELSE row'[i] = row[i]
  OBVIOUS
<1>1. row[i] \in RowType
  BY RowsTyped
<1>2. row'[i] = IF i \in Children(req[r].id) /\ Live(i)
                THEN [row[i] EXCEPT !.state = "removed"] ELSE row[i]
  BY DEF RemovesChildren
<1> QED
  BY <1>1, <1>2 DEF RowType

LEMMA RemovesChildrenEffects ==
  ASSUME RequestsOK, TypeOK, NEW r \in InFlight, RemovesChildren(r)
  PROVE  Effects(r)
<1>1. /\ req[r].verb = "remove" /\ req[r].step = "children"
      /\ \A i \in Children(req[r].id) : i \notin Attributes
  <2>1. \A i \in Attributes : Parent[i] \in AttributeSets
    BY ParentAssumption
  <2> QED
    BY <2>1, ChildrenOf DEF RemovesChildren
<1>2. \A i \in Rows :
        /\ \/ row'[i] = row[i]
           \/ Live(i) /\ row'[i].state = "removed" /\ i \in Children(req[r].id)
        /\ row'[i].slug = row[i].slug /\ row'[i].refs = row[i].refs
  BY RemovesChildrenRows
<1>3. UNCHANGED <<link, files, desk, screen, overtaken>>
  BY DEF RemovesChildren
<1>4. Appears(r)
  BY <1>2 DEF Appears, Exists, Live
<1>5. Disappears(r)
  BY <1>1, <1>2 DEF Disappears
<1>6. Uses(r)
  BY <1>2, <1>3, IsRow DEF Uses, Live
<1>7. Names(r)
  BY <1>2 DEF Names, Exists, Live
<1> QED
  BY <1>3, <1>4, <1>5, <1>6, <1>7 DEF Effects

LEMMA AddsValueRows ==
  ASSUME RequestsOK, TypeOK, NEW r \in InFlight, AddsValue(r)
  PROVE  \E v \in req[r].refs :
           /\ v \in Rows /\ v \in VariationValues /\ Parent[v] = req[r].id /\ ~Exists(v)
           /\ row'[v].state = "live" /\ row'[v].slug = row[v].slug /\ row'[v].refs = row[v].refs
           /\ \A i \in Rows : i # v => row'[i] = row[i]
<1>1. PICK v \in req[r].refs \cap Children(req[r].id) : row[v].state = "none" /\ Puts(v, Begun(v))
  BY DEF AddsValue
<1>2. v \in VariationValues /\ Parent[v] = req[r].id
  BY <1>1, ChildrenOf DEF AddsValue
<1>3. v \in Rows /\ row[v] \in RowType
  BY <1>2, IsRow, RowsTyped
<1>4. row'[v] = Begun(v) /\ \A i \in Rows : i # v => row'[i] = row[i]
  BY <1>1, <1>3, PutsIs
<1>5. row'[v].state = "live" /\ row'[v].slug = row[v].slug /\ row'[v].refs = row[v].refs
  BY <1>3, <1>4 DEF Begun, RowType
<1> QED
  BY <1>1, <1>2, <1>3, <1>4, <1>5 DEF Exists

LEMMA AddsValueEffects ==
  ASSUME RequestsOK, TypeOK, ProductsOK, NEW r \in InFlight, AddsValue(r)
  PROVE  Effects(r)
<1>1. PICK v \in req[r].refs :
        /\ v \in Rows /\ v \in VariationValues /\ Parent[v] = req[r].id /\ ~Exists(v)
        /\ row'[v].state = "live" /\ row'[v].slug = row[v].slug /\ row'[v].refs = row[v].refs
        /\ \A i \in Rows : i # v => row'[i] = row[i]
  BY AddsValueRows
<1>2. /\ UNCHANGED <<link, files, desk, screen, overtaken>> /\ req[r].verb = "create"
      /\ req[r].id \in Variations /\ req[r].step = "values"
  BY DEF AddsValue, Puts
<1>3. Appears(r)
  BY <1>1, <1>2, TablesDistinct DEF Appears, Exists, Live
<1>4. Disappears(r)
  BY <1>1 DEF Disappears
<1>5. Uses(r)
  BY <1>1, <1>2, IsRow, TablesDistinct DEF Uses, Live
<1>6. Names(r)
  <2>1. row[v].slug = None
    BY <1>1 DEF ProductsOK
  <2> QED
    BY <1>1, <2>1 DEF Names, Exists, Live
<1> QED
  BY <1>2, <1>3, <1>4, <1>5, <1>6 DEF Effects

LEMMA EffectsOf ==
  ASSUME RequestsOK, TypeOK, ReferencesOK, ProductsOK, NEW r \in InFlight, Moves(r)
  PROVE  Effects(r)
<1>1. CASE Quits(r)
  BY <1>1, SameEffects DEF Quits
<1>2. CASE Checks(r)
  BY <1>2, SameEffects DEF Checks
<1>3. CASE Relinks(r)
  BY <1>3, SameEffects DEF Relinks
<1>4. CASE StoresFiles(r)
  BY <1>4, SameEffects DEF StoresFiles
<1> QED
  BY <1>1, <1>2, <1>3, <1>4, CreatesEffects, CreatesProductEffects, RewritesEffects,
     RemovesEffects, RemovesChildrenEffects, AddsValueEffects DEF Moves
-----------------------------------------------------------------------------
(* Types. *)

LEMMA PutsTyped ==
  ASSUME TypeOK, NEW i \in Rows, NEW new \in RowType, Puts(i, new)
  PROVE  row' \in [Rows -> RowType]
BY RowsTyped DEF Puts

LEMMA RowTypeStep ==
  ASSUME RequestsOK, TypeOK, ReferencesOK, NEW r \in InFlight, Moves(r)
  PROVE  row' \in [Rows -> RowType]
<1> DEFINE q == req[r]
<1>1. /\ q.id \in Rows /\ q.slug \in Slugs \cup {None} /\ q.refs \subseteq Rows
      /\ row[q.id] \in RowType
  BY InFlightIs, RowsTyped
<1>2. row \in [Rows -> RowType]
  BY DEF TypeOK, RowType
<1>3. CASE Quits(r) \/ Checks(r) \/ Relinks(r) \/ StoresFiles(r)
  BY <1>2, <1>3 DEF Quits, Checks, Relinks, StoresFiles
<1>4. CASE Creates(r)
  <2>1. [state |-> "live", slug |-> q.slug, refs |-> IF q.id \in Brands THEN q.refs ELSE {}]
          \in RowType
    BY <1>1 DEF RowType
  <2> QED
    BY <1>1, <1>4, <2>1, PutsTyped DEF Creates
<1>5. CASE CreatesProduct(r)
  <2>1. [state |-> "live", slug |-> q.slug, refs |-> References(q.refs)] \in RowType
    BY <1>1 DEF RowType, References
  <2>2. \A i \in Rows : Begun(i) \in RowType
    BY RowsTyped DEF Begun, RowType
  <2>3. ASSUME NEW uid \in Uids(q.refs), NEW i \in Rows
        PROVE  Made(i, uid) \in RowType
    <3>1. CASE i \in DOMAIN uid
      <4>1. uid[i] \in Slugs
        BY <3>1 DEF Uids
      <4> QED
        BY <2>2, <3>1, <4>1 DEF Made, RowType
    <3> QED
      BY <2>2, <3>1 DEF Made
  <2>4. PICK uid \in Uids(q.refs) : row' = [i \in Rows |->
            IF i = q.id THEN [state |-> "live", slug |-> q.slug, refs |-> References(q.refs)]
            ELSE IF i \in Born(q.refs) THEN Made(i, uid) ELSE row[i]]
    BY <1>5 DEF CreatesProduct
  <2> QED
    BY <1>2, <2>1, <2>3, <2>4
<1>6. CASE Rewrites(r)
  <2>1. PICK slug \in {q.slug, row[q.id].slug}, refs \in SUBSET (row[q.id].refs \cup q.refs) :
          Puts(q.id, [row[q.id] EXCEPT !.slug = slug, !.refs = refs])
    BY <1>6 DEF Rewrites
  <2>2. [row[q.id] EXCEPT !.slug = slug, !.refs = refs] \in RowType
    BY <1>1 DEF RowType
  <2> QED
    BY <1>1, <2>1, <2>2, PutsTyped
<1>7. CASE Removes(r)
  <2>1. [row[q.id] EXCEPT !.state = "removed"] \in RowType
    BY <1>1 DEF RowType
  <2> QED
    BY <1>1, <1>7, <2>1, PutsTyped DEF Removes
<1>8. CASE RemovesChildren(r)
  <2>1. \A i \in Rows : [row[i] EXCEPT !.state = "removed"] \in RowType
    BY RowsTyped DEF RowType
  <2> QED
    BY <1>2, <1>8, <2>1 DEF RemovesChildren
<1>9. CASE AddsValue(r)
  <2>1. PICK v \in q.refs : Puts(v, Begun(v))
    BY <1>9 DEF AddsValue
  <2>2. v \in Rows /\ Begun(v) \in RowType
    BY <1>1, <2>1, RowsTyped DEF Begun, RowType
  <2> QED
    BY <2>1, <2>2, PutsTyped
<1> QED
  BY <1>3, <1>4, <1>5, <1>6, <1>7, <1>8, <1>9 DEF Moves

\* What a row refers to after a step.
LEMMA RefersTo ==
  ASSUME RequestsOK, TypeOK, ReferencesOK, ProductsOK, NEW r \in InFlight, Moves(r),
         NEW i \in Rows
  PROVE  \/ row'[i].refs = row[i].refs
         \/ row'[i].refs = {}
         \/ /\ i = req[r].id /\ i \notin Products
            /\ row'[i].refs \subseteq row[i].refs \cup req[r].refs
            /\ req[r].verb = "create" => i \in Brands
         \/ /\ i = req[r].id /\ i \in Products /\ req[r].verb = "create" /\ CreatesProduct(r)
            /\ row'[i].refs = References(req[r].refs)
         \/ /\ i = req[r].id /\ i \in Products /\ req[r].verb = "update"
            /\ row'[i].refs = (row[i].refs \ req[r].given) \cup References(req[r].refs)
<1>1. CASE Quits(r) \/ Checks(r) \/ Relinks(r) \/ StoresFiles(r)
  BY <1>1 DEF Quits, Checks, Relinks, StoresFiles
<1>2. CASE Creates(r)
  <2>1. /\ req[r].id \in Rows /\ req[r].id \notin Products
        /\ Puts(req[r].id, [state |-> "live", slug |-> req[r].slug,
                            refs |-> IF req[r].id \in Brands THEN req[r].refs ELSE {}])
    BY <1>2, InFlightIs DEF Creates
  <2>2. /\ row'[req[r].id].refs = IF req[r].id \in Brands THEN req[r].refs ELSE {}
        /\ \A j \in Rows : j # req[r].id => row'[j] = row[j]
    BY <2>1, PutsIs
  <2> QED
    BY <2>1, <2>2
<1>3. CASE CreatesProduct(r)
  <2>1. req[r].id \in Products /\ req[r].verb = "create"
    BY <1>3 DEF CreatesProduct
  <2> QED
    BY <1>3, <2>1, CreatesProductRows
<1>4. CASE Rewrites(r)
  BY <1>4, RewritesRows
<1>5. CASE Removes(r)
  BY <1>5, RemovesRows
<1>6. CASE RemovesChildren(r)
  BY <1>6, RemovesChildrenRows
<1>7. CASE AddsValue(r)
  BY <1>7, AddsValueRows
<1> QED
  BY <1>1, <1>2, <1>3, <1>4, <1>5, <1>6, <1>7 DEF Moves

\* What an entity shows after a step.
LEMMA Shows ==
  ASSUME RequestsOK, TypeOK, ReferencesOK, ProductsOK, ChecksHold, NEW r \in InFlight, Moves(r),
         NEW l \in link'
  PROVE  \/ l \in link
         \/ /\ l \in (Brands \cup Products \cup Variants) \X Media
            /\ Exists(l[1])' /\ l[2] \in req[r].refs
<1>0. Appears(r)
  BY EffectsOf DEF Effects
<1>1. CASE link' = link
  BY <1>1
<1>2. CASE CreatesProduct(r)
  <2>1. CASE l \notin link
    <3>1. l \in (req[r].refs \cap Variants) \X (req[r].refs \cap Media)
      BY <1>2, <2>1 DEF CreatesProduct
    <3>2. l \in (Brands \cup Products \cup Variants) \X Media /\ l[2] \in req[r].refs
      BY <3>1
    <3>3. l[1] \in req[r].refs /\ l[1] \in Rows
      BY <3>1, InFlightIs
    <3>4. Exists(l[1]) \/ l[1] \in Born(req[r].refs)
      BY <3>3 DEF Born, Exists
    <3>5. Exists(l[1])'
      <4>1. CASE Exists(l[1])
        BY <1>0, <3>3, <4>1 DEF Appears, Exists
      <4>2. CASE l[1] \in Born(req[r].refs)
        BY <1>2, <4>2, CreatesProductRows DEF Exists
      <4> QED
        BY <3>4, <4>1, <4>2
    <3> QED
      BY <3>2, <3>5
  <2> QED
    BY <2>1
<1>3. CASE Relinks(r)
  <2>1. CASE l \notin link
    <3>1. /\ req[r].step \in {"link", "unlink"} /\ l \in {req[r].id} \X (req[r].refs \cap Media)
          /\ req[r].verb # "remove" => req[r].id \in Brands \cup Products \cup Variants
      BY <1>3, <2>1 DEF Relinks
    <3>2. l[1] = req[r].id /\ l[2] \in req[r].refs /\ l[2] \in Media /\ req[r].verb # "remove"
      BY <3>1 DEF ReferencesOK
    <3>3. l \in (Brands \cup Products \cup Variants) \X Media
      BY <3>1, <3>2
    <3>4. r \in Requests /\ req[r].verb \in {"create", "update", "remove"} /\ req[r].id \in Rows
      BY InFlightIs
    <3>5. Exists(req[r].id)
      <4>1. CASE req[r].verb = "update"
        BY <4>1 DEF ReferencesOK
      <4>2. CASE req[r].verb = "create"
        BY <3>1, <3>4, <4>2 DEF ChecksHold, Doing
      <4> QED
        BY <3>2, <3>4, <4>1, <4>2
    <3>6. Exists(l[1])'
      BY <1>0, <3>2, <3>4, <3>5 DEF Appears, Exists
    <3> QED
      BY <3>2, <3>3, <3>6
  <2> QED
    BY <2>1
<1> QED
  BY <1>1, <1>2, <1>3
    DEF Moves, Quits, Checks, Creates, Rewrites, Removes, RemovesChildren, AddsValue, StoresFiles,
        Puts
LEMMA TypeStep ==
  ASSUME RequestsOK, TypeOK, ReferencesOK, ProductsOK, ChecksHold, NEW r \in InFlight, Moves(r)
  PROVE  TypeOK'
<1> DEFINE q == req[r]
<1>0. Effects(r) /\ q.id \in Rows /\ q.refs \subseteq Rows
  BY EffectsOf, InFlightIs
<1>1. row' \in [Rows -> RowType]
  BY RowTypeStep
<1>2. ASSUME NEW i \in Rows \ UNION Named
      PROVE  row'[i].slug = None
  <2>1. row[i].slug = None
    BY DEF TypeOK
  <2>2. i = q.id => q.slug = None
    BY DEF ReferencesOK
  <2>3. i \notin Variations
    BY IsNamed
  <2> QED
    BY <1>0, <2>1, <2>2, <2>3 DEF Effects, Names
<1>3. link' \subseteq {i \in Brands \cup Products \cup Variants : Exists(i)'}
                      \X {m \in Media : Exists(m)'}
  <2> SUFFICES ASSUME NEW l \in link'
               PROVE  l \in {i \in Brands \cup Products \cup Variants : Exists(i)'}
                              \X {m \in Media : Exists(m)'}
    OBVIOUS
  <2>1. CASE l \in link
    <3>1. l \in {i \in Brands \cup Products \cup Variants : Exists(i)} \X {m \in Media : Exists(m)}
      BY <2>1 DEF TypeOK
    <3>2. /\ \A i \in Brands \cup Products \cup Variants : Exists(i) => Exists(i)'
          /\ \A m \in Media : Exists(m) => Exists(m)'
      BY <1>0, IsRow DEF Effects, Appears
    <3> QED
      BY <3>1, <3>2
  <2>2. CASE /\ l \in (Brands \cup Products \cup Variants) \X Media
             /\ Exists(l[1])' /\ l[2] \in q.refs
    <3>1. Exists(l[2])
      BY <2>2, TablesDistinct DEF ReferencesOK
    <3>2. Exists(l[2])'
      BY <1>0, <2>2, <3>1, IsRow DEF Effects, Appears
    <3> QED
      BY <2>2, <3>2
  <2> QED
    BY <2>1, <2>2, Shows
<1>4. ASSUME NEW i \in Rows
      PROVE  row'[i].refs \subseteq {j \in Rows : Exists(j)'}
  <2>1. \A j \in Rows : Exists(j) => Exists(j)'
    BY <1>0 DEF Effects, Appears
  <2>2. row[i].refs \subseteq {j \in Rows : Exists(j)'}
    BY <2>1 DEF TypeOK
  <2>3. CASE row'[i].refs = row[i].refs \/ row'[i].refs = {}
    BY <2>2, <2>3
  <2>4. CASE /\ i = q.id /\ i \notin Products /\ row'[i].refs \subseteq row[i].refs \cup q.refs
             /\ q.verb = "create" => i \in Brands
    <3>1. \A j \in q.refs : Exists(j)
      BY <1>0, <2>4, TablesDistinct DEF ReferencesOK
    <3> QED
      BY <1>0, <2>1, <2>2, <2>4, <3>1
  <2>5. CASE CreatesProduct(r) /\ row'[i].refs = References(q.refs)
    <3>1. \A j \in References(q.refs) : j \in q.refs /\ (Exists(j) \/ j \in Born(q.refs))
      BY DEF References, Born, Exists
    <3>2. \A j \in Born(q.refs) : Exists(j)'
      BY <2>5, CreatesProductRows DEF Exists
    <3> QED
      BY <1>0, <2>1, <2>5, <3>1, <3>2
  <2>6. CASE q.verb = "update" /\ row'[i].refs = (row[i].refs \ q.given) \cup References(q.refs)
    <3>1. \A j \in q.refs : Exists(j)
      BY <2>6 DEF ReferencesOK
    <3> QED
      BY <1>0, <2>1, <2>2, <2>6, <3>1 DEF References
  <2> QED
    BY <2>3, <2>4, <2>5, <2>6, RefersTo
<1>5. files' \subseteq Media
  <2>1. files' = files \/ (files' = files \cup {q.id} /\ q.id \in Media)
    BY DEF Moves, Quits, Checks, Creates, CreatesProduct, Rewrites, Removes, RemovesChildren,
           AddsValue, Relinks, StoresFiles, Puts
  <2> QED
    BY <2>1 DEF TypeOK
<1>6. UNCHANGED <<desk, screen, overtaken>>
  BY <1>0 DEF Effects
<1> QED
  BY <1>1, <1>2, <1>3, <1>4, <1>5, <1>6 DEF TypeOK, RowType, Exists

-----------------------------------------------------------------------------
(* Requests. *)

\* A step keeps what the requests are about.
LEMMA RequestsStep ==
  ASSUME RequestsOK, NEW r \in InFlight, Moves(r)
  PROVE  /\ RequestsOK'
         /\ \A q \in Requests \ {r} : req'[q] = req[q]
         /\ \A q \in InFlight' :
              /\ q \in InFlight /\ q \in Requests
              /\ req'[q].verb = req[q].verb /\ req'[q].id = req[q].id
              /\ req'[q].refs = req[q].refs /\ req'[q].given = req[q].given
              /\ \/ req'[q].slug = req[q].slug
                 \/ req[q].id \in Variations \/ req[q].id \in Products
<1> DEFINE Kept == /\ req'[r] \in RequestType
                   /\ req'[r].verb = req[r].verb /\ req'[r].id = req[r].id
                   /\ req'[r].refs = req[r].refs /\ req'[r].given = req[r].given
                   /\ \/ req'[r].slug = req[r].slug
                      \/ req[r].id \in Variations \/ req[r].id \in Products
<1>1. r \in Requests /\ req[r] \in RequestType /\ DOMAIN req = Requests
  BY InFlightIs
<1>2. \/ Ends(r)
      \/ \E slug, next : Goes(r, slug, next)
                         /\ (slug = req[r].slug \/ req[r].id \in Variations \/ req[r].id \in Products)
      \/ req' = req
  BY DEF Moves, Quits, Checks, Checked, Creates, CreatesProduct, Rewrites, Removes, RemovesChildren,
         AddsValue, Relinks, StoresFiles, Puts
<1>3. Others(r) /\ (req'[r] = Over \/ Kept)
  BY <1>1, <1>2 DEF Ends, Goes, Others
<1>4. Over.step = "done"
  BY DEF Over, Free
<1>5. \A q \in RequestType : q.step \notin {"free", "done"}
  BY DEF RequestType
<1>6. InFlight = {q \in Requests : req[q] \in RequestType}
  <2>1. Free.step = "free"
    BY DEF Free
  <2> QED
    BY <1>4, <1>5, <2>1 DEF InFlight, RequestsOK
<1>7. \A q \in Requests : q \in InFlight' <=> req'[q].step \notin {"free", "done"}
  BY DEF InFlight
<1>8. RequestsOK'
  <2>1. ASSUME NEW q \in Requests
        PROVE  IF q \in InFlight' THEN req'[q] \in RequestType ELSE req'[q] \in {Free, Over}
    <3>1. CASE q = r
      BY <1>3, <1>4, <1>5, <1>7, <3>1
    <3>2. CASE q # r
      <4>1. req'[q] = req[q]
        BY <1>3, <3>2 DEF Others
      <4>2. q \in InFlight' <=> q \in InFlight
        BY <1>7, <4>1 DEF InFlight
      <4> QED
        BY <4>1, <4>2 DEF RequestsOK
    <3> QED
      BY <3>1, <3>2
  <2> QED
    BY <1>3, <2>1 DEF RequestsOK, Others
<1>9. ASSUME NEW q \in InFlight'
      PROVE  /\ q \in InFlight /\ q \in Requests
             /\ req'[q].verb = req[q].verb /\ req'[q].id = req[q].id
             /\ req'[q].refs = req[q].refs /\ req'[q].given = req[q].given
             /\ \/ req'[q].slug = req[q].slug
                \/ req[q].id \in Variations \/ req[q].id \in Products
  <2>1. q \in Requests /\ req'[q].step \notin {"free", "done"}
    BY DEF InFlight
  <2>2. CASE q = r
    BY <1>1, <1>3, <1>4, <2>1, <2>2
  <2>3. CASE q # r
    <3>1. req'[q] = req[q]
      BY <1>3, <2>1, <2>3 DEF Others
    <3> QED
      BY <2>1, <3>1 DEF InFlight
  <2> QED
    BY <2>2, <2>3
<1> QED
  BY <1>3, <1>8, <1>9 DEF Others
LEMMA ReferencesStep ==
  ASSUME RequestsOK, TypeOK, ReferencesOK, ProductsOK, NEW r \in InFlight, Moves(r)
  PROVE  ReferencesOK'
<1>1. Appears(r)
  BY EffectsOf DEF Effects
<1> SUFFICES ASSUME NEW x \in InFlight'
             PROVE  LET q == req'[x] IN
                    /\ q.verb = "create" => q.id \notin Variants
                    /\ q.verb # "create" =>
                         row'[q.id].state # "none" /\ \A i \in q.refs : row'[i].state # "none"
                    /\ q.verb = "remove" => q.refs = {}
                    /\ q.id \notin UNION Named => q.slug = None
                    /\ q.id \notin UNION {Brands, Variations, Products, Variants} => q.refs = {}
                    /\ q.id \in Brands \cup Variants => q.refs \subseteq Media
                    /\ q.id \in Variations => q.refs \subseteq Children(q.id)
                    /\ q.id \in Products =>
                         /\ q.refs \subseteq
                              UNION {Classifiers, Variations, VariationValues, Media, Children(q.id)}
                         /\ Closed(q.refs)
                         /\ q.verb = "update" =>
                              /\ q.refs \subseteq q.given
                              /\ \/ (Attributes \cup AttributeValues) \cap q.given = {}
                                 \/ Attributes \cup AttributeValues \subseteq q.given
                    /\ \A i \in q.refs :
                         \/ row'[i].state # "none"
                         \/ i \in UNION {Variations, VariationValues, Variants}
  BY DEF ReferencesOK, Exists
<1>2. /\ x \in InFlight
      /\ req'[x].verb = req[x].verb /\ req'[x].id = req[x].id
      /\ req'[x].refs = req[x].refs /\ req'[x].given = req[x].given
      /\ req'[x].slug = req[x].slug \/ req[x].id \in UNION Named
  BY RequestsStep, IsNamed
<1>3. req[x].id \in Rows /\ req[x].refs \subseteq Rows
  BY <1>2, InFlightIs
<1>4. \A i \in Rows : Exists(i) => row'[i].state # "none"
  BY <1>1 DEF Appears, Exists
<1> QED
  BY <1>2, <1>3, <1>4 DEF ReferencesOK

LEMMA MeetingsStep ==
  ASSUME RequestsOK, TypeOK, ReferencesOK, ProductsOK, MeetingsOK, NEW r \in InFlight, Moves(r)
  PROVE  MeetingsOK'
<1>1. Disappears(r) /\ overtaken' = overtaken
  BY EffectsOf DEF Effects
<1>2. \A x \in InFlight' :
        x \in InFlight /\ req'[x].id = req[x].id /\ req'[x].refs = req[x].refs
  BY RequestsStep
<1>3. \A x, y \in InFlight' : x # y =>
        Touched(req'[x].id, req'[x].refs) \cap Touched(req'[y].id, req'[y].refs)
          \subseteq overtaken'
  BY <1>1, <1>2 DEF MeetingsOK
<1>4. ASSUME NEW x \in InFlight', NEW i \in req'[x].refs \ overtaken'
      PROVE  row'[i].state # "removed"
  <2>1. x \in InFlight /\ i \in req[x].refs /\ i \notin overtaken /\ i \in Rows
    BY <1>1, <1>2, <1>4, InFlightIs
  <2>2. row[i].state # "removed"
    BY <2>1 DEF MeetingsOK
  <2>3. SUFFICES ASSUME row'[i].state = "removed" PROVE FALSE
    OBVIOUS
  <2>4. req[r].verb = "remove" /\ (i = req[r].id \/ i \in Children(req[r].id))
    BY <1>1, <2>1, <2>2, <2>3 DEF Disappears
  <2>5. x # r
    BY <2>1, <2>4 DEF ReferencesOK
  <2>6. /\ i \in Touched(req[r].id, req[r].refs)
        /\ i \in Touched(req[x].id, req[x].refs)
    BY <2>1, <2>4 DEF Touched
  <2> QED
    BY <2>1, <2>5, <2>6 DEF MeetingsOK
<1> QED
  BY <1>3, <1>4 DEF MeetingsOK

LEMMA IndexesStep ==
  ASSUME RequestsOK, TypeOK, ReferencesOK, ProductsOK, IndexesOK, NEW r \in InFlight, Moves(r)
  PROVE  IndexesOK'
<1>1. Names(r)
  BY EffectsOf DEF Effects
<1> SUFFICES ASSUME NEW i \in (UNION Named) \ Unindexed, NEW j \in Peers(i),
                    Exists(i)', Exists(j)', row'[i].slug = row'[j].slug
             PROVE  row'[i].slug = None
  BY DEF IndexesOK, Exists
<1>2. /\ i \in Rows /\ j \in Rows /\ j # i /\ i \in Peers(j) /\ j \notin Unindexed
      /\ j \in UNION Named
  BY PeersAre, IsNamed, IsRow
<1>3. ASSUME NEW a \in (UNION Named) \ Unindexed, NEW b \in Peers(a), a \in Rows, b \in Rows,
             a = req[r].id, row'[a].slug = req[r].slug, IndexAllows(a, req[r].slug), a # b,
             Exists(a)', Exists(b)', row'[a].slug = row'[b].slug
      PROVE  row'[a].slug = None
  <2>1. /\ row'[b].slug = row[b].slug
        /\ row[b].slug = None \/ (Exists(b)' => Exists(b))
    BY <1>1, <1>3, PeersAre DEF Names
  <2> QED
    BY <1>3, <2>1 DEF IndexAllows
<1>4. CASE i = req[r].id /\ row'[i].slug = req[r].slug /\ IndexAllows(i, req[r].slug)
  BY <1>2, <1>3, <1>4
<1>5. CASE j = req[r].id /\ row'[j].slug = req[r].slug /\ IndexAllows(j, req[r].slug)
  <2>1. row'[j].slug = None
    BY <1>2, <1>3, <1>5
  <2> QED
    BY <2>1
<1>6. CASE /\ row'[i].slug = row[i].slug /\ (row[i].slug = None \/ (Exists(i)' => Exists(i)))
           /\ row'[j].slug = row[j].slug /\ (row[j].slug = None \/ (Exists(j)' => Exists(j)))
  BY <1>6 DEF IndexesOK
<1>7. CASE \A b \in Peers(i) : Exists(b)' => row'[b].slug # row'[i].slug
  BY <1>7
<1>8. CASE \A b \in Peers(j) : Exists(b)' => row'[b].slug # row'[j].slug
  BY <1>2, <1>8
<1> QED
  BY <1>1, <1>2, <1>4, <1>5, <1>6, <1>7, <1>8 DEF Names

\* How a request that is not over goes on.
LEMMA NextStepIs ==
  ASSUME RequestsOK, NEW r \in InFlight, Moves(r), r \in InFlight'
  PROVE  \/ AddsValue(r) /\ req'[r] = req[r]
         \/ Checks(r) /\ Checked(r, req'[r].slug, req'[r].step)
         \/ Creates(r) /\ req[r].id \in Brands /\ req'[r].step = "link"
         \/ Creates(r) /\ req[r].id \in Variations /\ req'[r].step = "values"
         \/ CreatesProduct(r) /\ req'[r].step = "link"
         \/ Rewrites(r) /\ req'[r].step \in {"link", "unlink"}
         \/ Removes(r) /\ req'[r].step = "unlink"
         \/ RemovesChildren(r) /\ req'[r].step = "row"
         \/ Relinks(r) /\ req'[r].step = "link" /\ req[r].verb # "remove" /\ req[r].step = "unlink"
         \/ StoresFiles(r) /\ req'[r].step = "row"
<1>1. ~Ends(r)
  <2>1. req'[r].step # "done"
    BY DEF InFlight
  <2> QED
    BY <2>1 DEF Ends, Over, Free
<1>2. ~Quits(r)
  BY <1>1 DEF Quits
<1>3. CASE Checks(r)
  BY <1>3 DEF Checks, Goes
<1>4. CASE Creates(r)
  BY <1>1, <1>4 DEF Creates, Goes
<1>5. CASE CreatesProduct(r)
  BY <1>1, <1>5 DEF CreatesProduct, Goes
<1>6. CASE Rewrites(r)
  <2>1. PICK next \in {"link", "unlink"} : Goes(r, req[r].slug, next)
    BY <1>1, <1>6 DEF Rewrites
  <2> QED
    BY <1>6, <2>1 DEF Goes
<1>7. CASE Removes(r)
  BY <1>1, <1>7 DEF Removes, Goes
<1>8. CASE RemovesChildren(r)
  BY <1>8 DEF RemovesChildren, Goes
<1>9. CASE AddsValue(r)
  BY <1>9 DEF AddsValue
<1>10. CASE Relinks(r)
  BY <1>1, <1>10 DEF Relinks, Goes
<1>11. CASE StoresFiles(r)
  BY <1>11 DEF StoresFiles, Goes
<1> QED
  BY <1>2, <1>3, <1>4, <1>5, <1>6, <1>7, <1>8, <1>9, <1>10, <1>11 DEF Moves

LEMMA ProductsStep ==
  ASSUME RequestsOK, TypeOK, ReferencesOK, ProductsOK, NEW r \in InFlight, Moves(r)
  PROVE  ProductsOK'
<1>1. Appears(r) /\ Names(r) /\ screen' = screen
  BY EffectsOf DEF Effects
<1>2. ASSUME NEW p \in Products
      PROVE  row'[p].refs \subseteq Classifiers \cup Variations /\ Closed(row'[p].refs)
  <2>1. p \in Rows /\ row[p].refs \subseteq Classifiers \cup Variations /\ Closed(row[p].refs)
    BY IsRow DEF ProductsOK
  <2>2. CASE row'[p].refs = row[p].refs \/ row'[p].refs = {}
    BY <2>1, <2>2 DEF Closed
  <2>3. ASSUME p = req[r].id
        PROVE  /\ References(req[r].refs) \subseteq Classifiers \cup Variations
               /\ Closed(References(req[r].refs))
    <3>1. /\ \A i \in req[r].refs : \/ i \in Classifiers \/ i \in Variations \/ i \in Media
                                     \/ i \in Variants \/ i \in VariationValues
          /\ Closed(req[r].refs)
      BY <2>3, ChildrenOf DEF ReferencesOK
    <3>2. \A v \in AttributeValues : Parent[v] \in Attributes
      BY ParentAssumption
    <3>3. \A i \in References(req[r].refs) :
            i \in req[r].refs /\ (i \in Classifiers \/ i \in Variations) /\ i \notin VariationValues
      BY <3>1 DEF References
    <3>4. \A v \in AttributeValues : Parent[v] \notin Media \cup Variants \cup VariationValues
      BY <3>2, TablesDistinct
    <3> QED
      BY <3>1, <3>3, <3>4 DEF Closed, References
  <2>4. CASE p = req[r].id /\ row'[p].refs = References(req[r].refs)
    BY <2>3, <2>4
  <2>5. CASE /\ p = req[r].id /\ req[r].verb = "update"
             /\ row'[p].refs = (row[p].refs \ req[r].given) \cup References(req[r].refs)
    <3>1. /\ References(req[r].refs) \subseteq req[r].given
          /\ \/ (Attributes \cup AttributeValues) \cap req[r].given = {}
             \/ Attributes \cup AttributeValues \subseteq req[r].given
      BY <2>5 DEF ReferencesOK, References
    <3>2. \A v \in AttributeValues : Parent[v] \in Attributes
      BY ParentAssumption
    <3>3. \A i \in row'[p].refs : i \notin VariationValues
      BY <2>1, <2>3, <2>5, IsClassifier, TablesDistinct
    <3> QED
      BY <2>1, <2>3, <2>5, <3>1, <3>2, <3>3 DEF Closed
  <2> QED
    BY <2>1, <2>2, <2>4, <2>5, RefersTo
<1>3. ASSUME NEW x \in InFlight', Doing(x, "create", Products, {"check", "row"})'
      PROVE  /\ row'[req'[x].id].state = "none"
             /\ \A y \in InFlight' : Doing(y, "create", {req[x].id}, {"check", "row"})' => y = x
  <2>1. ASSUME NEW y \in InFlight', Doing(y, "create", Products, {"check", "row"})'
        PROVE  /\ y \in InFlight /\ req'[y].id = req[y].id /\ req[y].id \in Products
               /\ Doing(y, "create", Products, {"check", "row"})
               /\ ~(y = r /\ req[r].step = "row")
    <3>1. /\ y \in InFlight /\ req'[y].id = req[y].id /\ req[y].id \in Products
          /\ req[y].verb = "create" /\ req'[y].step \in {"check", "row"} /\ y \in Requests
      BY <2>1, RequestsStep DEF Doing
    <3>2. CASE y = r
      <4>1. Checks(r)
        BY <3>1, <3>2, NextStepIs, TablesDistinct
          DEF AddsValue, Rewrites, Removes, RemovesChildren, Relinks, StoresFiles
      <4> QED
        BY <3>1, <3>2, <4>1 DEF Checks, Doing
    <3>3. CASE y # r
      <4>1. req'[y] = req[y]
        BY <3>1, <3>3, RequestsStep
      <4> QED
        BY <3>1, <3>3, <4>1 DEF Doing
    <3> QED
      BY <3>2, <3>3
  <2>2. /\ x \in InFlight /\ req'[x].id = req[x].id /\ req[x].id \in Products
        /\ Doing(x, "create", Products, {"check", "row"})
        /\ ~(x = r /\ req[r].step = "row")
    BY <1>3, <2>1
  <2>3. /\ ~Exists(req[x].id)
        /\ \A q \in InFlight : Doing(q, "create", {req[x].id}, {"check", "row"}) => q = x
    BY <2>2 DEF ProductsOK
  <2>4. ASSUME NEW y \in InFlight', Doing(y, "create", {req[x].id}, {"check", "row"})'
        PROVE  y = x
    <3>1. Doing(y, "create", Products, {"check", "row"})' /\ req'[y].id = req[x].id
      BY <2>2, <2>4 DEF Doing
    <3>2. y \in InFlight /\ Doing(y, "create", {req[x].id}, {"check", "row"})
      BY <2>1, <3>1 DEF Doing
    <3> QED
      BY <2>3, <3>2
  <2>5. row'[req[x].id].state = "none"
    <3>1. SUFFICES ASSUME row'[req[x].id].state # "none" PROVE FALSE
      OBVIOUS
    <3>2. req[x].id \in Rows
      BY <2>2, IsRow
    <3>3. row'[req[x].id].state = "live"
      BY <1>1, <2>3, <3>1, <3>2 DEF Appears, Exists, Live
    <3>4. req[r].verb = "create" /\ req[r].step = "row" /\ req[x].id = req[r].id
      BY <1>1, <2>2, <2>3, <3>2, <3>3, TablesDistinct DEF Appears, Exists, Live
    <3>5. r = x
      BY <2>3, <3>4 DEF Doing
    <3> QED
      BY <2>2, <3>4, <3>5
  <2> QED
    BY <2>2, <2>4, <2>5
<1>4. \A i \in Rows : ~Exists(i)' => row'[i].slug = None
  BY <1>1 DEF Appears, Names, ProductsOK
<1>5. \A i \in screen' : Exists(i)'
  <2>1. screen \subseteq Rows
    BY BudgetAssumption DEF TypeOK
  <2> QED
    BY <1>1, <2>1 DEF Appears, ProductsOK
<1>6. \A x \in InFlight' : req'[x].id = req[x].id
  BY RequestsStep
<1> QED
  BY <1>2, <1>3, <1>4, <1>5, <1>6 DEF ProductsOK, Exists
-----------------------------------------------------------------------------
(* The safety properties. *)

LEMMA InUseStep ==
  ASSUME RequestsOK, TypeOK, ReferencesOK, MeetingsOK, ProductsOK, ChecksHold,
         NothingInUseIsRemoved, NEW r \in InFlight, Moves(r)
  PROVE  NothingInUseIsRemoved'
<1>1. Uses(r) /\ Disappears(r) /\ overtaken' = overtaken
  BY EffectsOf DEF Effects
<1> SUFFICES ASSUME NEW i \in Rows \ overtaken, row'[i].state = "removed"
             PROVE  ~UsedByLive(i)' /\ ~\E l \in link' : l[2] = i
  BY <1>1 DEF NothingInUseIsRemoved
<1>2. CASE row[i].state = "removed"
  <2>1. i \notin req[r].refs
    BY <1>2 DEF MeetingsOK
  <2> QED
    BY <1>1, <1>2, <2>1 DEF NothingInUseIsRemoved, Uses, UsedByLive, Live
<1>3. CASE row[i].state # "removed"
  <2>1. /\ req[r].verb = "remove"
        /\ \/ req[r].step = "row" /\ i = req[r].id
           \/ /\ req[r].step = "children" /\ i \in Children(req[r].id) /\ i \notin Attributes
    BY <1>1, <1>3 DEF Disappears
  <2>2. req[r].refs = {}
    BY <2>1 DEF ReferencesOK
  <2>3. Doing(r, "remove", Rows, {"children", "row"})
    BY <2>1, InFlightIs DEF Doing
  <2>4. ~UsedByLive(i)
    BY <2>1, <2>3 DEF ChecksHold
  <2>5. ~\E l \in link : l[2] = i
    <3>1. CASE i \in Media
      <4>1. i = req[r].id
        BY <2>1, <3>1, ChildrenOf, IsChild, TablesDistinct
      <4> QED
        BY <2>3, <3>1, <4>1 DEF ChecksHold
    <3>2. CASE i \notin Media
      BY <3>2 DEF TypeOK
    <3> QED
      BY <3>1, <3>2
  <2> QED
    BY <1>1, <2>2, <2>4, <2>5 DEF Uses, UsedByLive, Live
<1> QED
  BY <1>2, <1>3

\* A creation removes nothing, and a removal takes the children first.
LEMMA ParentsStay ==
  ASSUME RequestsOK, TypeOK, ReferencesOK, ProductsOK, ChecksHold, NEW r \in InFlight, Moves(r),
         NEW i \in DOMAIN Parent, i \notin TaxRates, Live(Parent[i])
  PROVE  \/ row'[Parent[i]].state = "live"
         \/ /\ req[r].verb = "remove" /\ req[r].step = "row" /\ Parent[i] = req[r].id
            /\ Live(i) => {i, Parent[i]} \cap overtaken # {} /\ i \notin Variants
<1> DEFINE p == Parent[i]
<1>1. Appears(r) /\ Disappears(r)
  BY EffectsOf DEF Effects
<1>2. p \in Rows
  BY ParentRows
<1>3. row' \in [Rows -> RowType]
  BY RowTypeStep
<1>4. row'[p].state \in {"none", "live", "removed"}
  BY <1>2, <1>3 DEF RowType
<1>5. CASE row'[p].state # "live"
  <2>1. row'[p].state = "removed"
    BY <1>1, <1>2, <1>4, <1>5 DEF Appears, Exists, Live
  <2>2. /\ req[r].verb = "remove"
        /\ \/ req[r].step = "row" /\ p = req[r].id
           \/ req[r].step = "children" /\ p \in Children(req[r].id) /\ p \notin Attributes
    BY <1>1, <1>2, <2>1 DEF Disappears, Live
  <2>3. p \in AttributeSets \/ p \in Attributes \/ p \in Variations \/ p \in Products
    BY IsChild, ParentAssumption
  <2>4. ~(p \in Children(req[r].id) /\ p \notin Attributes)
    BY <2>3, ChildrenOf, IsChild, TablesDistinct
  <2>5. req[r].step = "row" /\ p = req[r].id /\ i \in Children(req[r].id)
    BY <2>2, <2>4 DEF Children
  <2>6. CASE p \in Products
    <3>1. Doing(r, "remove", Products, {"row"})
      BY <2>2, <2>5, <2>6 DEF Doing
    <3>2. ~Live(i)
      BY <2>5, <3>1 DEF ChecksHold
    <3> QED
      BY <2>2, <2>5, <3>2
  <2>7. CASE p \notin Products
    <3>1. Doing(r, "remove", AttributeSets \cup Attributes \cup Variations, {"row"})
      BY <2>2, <2>3, <2>5, <2>7 DEF Doing
    <3>2. Live(i) => {i, req[r].id} \cap overtaken # {}
      BY <2>5, <3>1 DEF ChecksHold
    <3>3. i \notin Variants
      BY <2>7, ParentAssumption
    <3> QED
      BY <2>2, <2>5, <3>2, <3>3
  <2> QED
    BY <2>6, <2>7
<1> QED
  BY <1>5

LEMMA OrphansStep ==
  ASSUME RequestsOK, TypeOK, ReferencesOK, MeetingsOK, ProductsOK, ChecksHold, NoOrphans,
         NEW r \in InFlight, Moves(r)
  PROVE  NoOrphans'
<1>1. Appears(r) /\ overtaken' = overtaken /\ files \subseteq files'
  BY EffectsOf DEF Effects
<1>2. ASSUME NEW i \in DOMAIN Parent, i \notin TaxRates, row'[i].state = "live"
      PROVE  /\ row'[Parent[i]].state = "live" \/ {i, Parent[i]} \cap overtaken # {}
             /\ i \in Variants => row'[Parent[i]].state = "live"
  <2>1. i \in Rows
    BY ParentRows
  <2>2. CASE Live(i)
    <3>1. /\ Live(Parent[i]) \/ {i, Parent[i]} \cap overtaken # {}
          /\ i \in Variants => Live(Parent[i])
      BY <1>2, <2>2 DEF NoOrphans
    <3> QED
      BY <1>2, <2>2, <3>1, ParentsStay
  <2>3. CASE /\ req[r].verb = "create" /\ req[r].step = "row" /\ i = req[r].id
    <3>1. i \in Attributes \/ i \in AttributeValues \/ i \in VariationValues
      BY <1>2, <2>3, IsChild DEF ReferencesOK
    <3>2. Doing(r, "create", UNION {Attributes, AttributeValues, VariationValues}, {"row"})
      BY <2>3, <3>1 DEF Doing
    <3>3. Live(Parent[i]) \/ Parent[i] \in overtaken
      BY <2>3, <3>2 DEF ChecksHold
    <3> QED
      BY <1>2, <2>3, <3>1, <3>3, ParentsStay, TablesDistinct
  <2>4. CASE /\ i \in VariationValues /\ req[r].verb = "create" /\ req[r].id \in Variations
             /\ req[r].step = "values" /\ Parent[i] = req[r].id
    <3>1. Live(Parent[i]) \/ Parent[i] \in overtaken
      BY <2>4 DEF ChecksHold, Doing
    <3> QED
      BY <1>2, <2>4, <3>1, ParentsStay, TablesDistinct
  <2>5. CASE i \in Variants /\ Parent[i] = req[r].id /\ row'[req[r].id].state = "live"
    BY <2>5
  <2>6. i \notin Variations
    BY <1>2, IsChild, TablesDistinct
  <2>7. CASE /\ i \in VariationValues /\ req[r].verb = "create" /\ Parent[i] \in req[r].refs
             /\ Exists(Parent[i]) \/ row'[Parent[i]].state = "live"
    <3>1. i \notin Variants
      BY <2>7, TablesDistinct
    <3>2. CASE row'[Parent[i]].state # "live" /\ Parent[i] \notin overtaken
      <4>1. row[Parent[i]].state # "removed"
        BY <2>7, <3>2 DEF MeetingsOK
      <4>2. row[Parent[i]].state \in {"none", "live", "removed"}
        BY ParentRows, RowsTyped
      <4>3. Live(Parent[i])
        BY <2>7, <3>2, <4>1, <4>2 DEF Exists, Live
      <4> QED
        BY <1>2, <2>7, <3>1, <3>2, <4>3, ParentsStay
    <3> QED
      BY <3>1, <3>2
  <2> QED
    BY <1>1, <1>2, <2>1, <2>2, <2>3, <2>4, <2>5, <2>6, <2>7 DEF Appears, Live
<1>3. ASSUME NEW m \in Media, row'[m].state = "live"
      PROVE  m \in files'
  <2>1. CASE Live(m)
    BY <1>1, <2>1 DEF NoOrphans
  <2>2. CASE /\ req[r].verb = "create" /\ req[r].step = "row" /\ m = req[r].id
    <3>1. Doing(r, "create", Media, {"row"})
      BY <2>2 DEF Doing
    <3> QED
      BY <1>1, <2>2, <3>1 DEF ChecksHold
  <2> QED
    BY <1>1, <1>3, <2>1, <2>2, IsRow, TablesDistinct DEF Appears, Live
<1>4. \A i \in Variants : i \in DOMAIN Parent /\ i \notin TaxRates
  BY IsChild, TablesDistinct
<1> QED
  BY <1>1, <1>2, <1>3, <1>4 DEF NoOrphans, Live

LEMMA SlugsStep ==
  ASSUME RequestsOK, TypeOK, ReferencesOK, ProductsOK, IndexesOK, ChecksHold, SlugsDistinct,
         NEW r \in InFlight, Moves(r)
  PROVE  SlugsDistinct'
<1>1. Names(r) /\ Appears(r) /\ overtaken' = overtaken /\ IndexesOK'
  BY EffectsOf, IndexesStep DEF Effects
<1> SUFFICES ASSUME NEW i \in UNION Named, NEW j \in Peers(i), Live(i)', Live(j)',
                    row'[i].slug = row'[j].slug
             PROVE  \/ row'[i].slug = None
                    \/ {i, j} \subseteq Unindexed /\ {i, j} \cap overtaken # {}
  BY <1>1 DEF SlugsDistinct, Live
<1>2. /\ i \in Rows /\ j \in Rows /\ j # i /\ i \in Peers(j)
      /\ i \in Unindexed <=> j \in Unindexed
  BY PeersAre, IsNamed, IsRow
<1>3. CASE i \notin Unindexed
  BY <1>1, <1>3 DEF IndexesOK, Exists, Live
<1>4. CASE i \in Unindexed
  <2>1. ASSUME NEW a \in Rows, NEW b \in Peers(a), a = req[r].id, req[r].verb # "remove",
               req[r].step = "row", a \in Unindexed, a # b, b \in Rows,
               row'[a].slug = req[r].slug, row'[a].slug = row'[b].slug, Live(b)'
        PROVE  row'[a].slug = None \/ {b, a} \cap overtaken # {}
    <3>1. /\ row'[b].slug = row[b].slug
          /\ row[b].slug = None \/ (Live(b)' => Live(b))
      BY <1>1, <2>1, PeersAre, TablesDistinct DEF Names, Unindexed
    <3> QED
      BY <2>1, <3>1 DEF ChecksHold
  <2>2. CASE i = req[r].id /\ req[r].verb # "remove" /\ req[r].step = "row"
             /\ row'[i].slug = req[r].slug
    BY <1>2, <1>4, <2>1, <2>2
  <2>3. CASE j = req[r].id /\ req[r].verb # "remove" /\ req[r].step = "row"
             /\ row'[j].slug = req[r].slug
    <3>1. row'[j].slug = None \/ {i, j} \cap overtaken # {}
      BY <1>2, <1>4, <2>1, <2>3
    <3> QED
      BY <1>2, <1>4, <3>1
  <2>4. CASE /\ row'[i].slug = row[i].slug /\ (row[i].slug = None \/ (Live(i)' => Live(i)))
             /\ row'[j].slug = row[j].slug /\ (row[j].slug = None \/ (Live(j)' => Live(j)))
    BY <2>4 DEF SlugsDistinct
  <2>5. i \notin Variations /\ j \notin Variations
    BY <1>2, <1>4, TablesDistinct DEF Unindexed
  <2> QED
    BY <1>1, <1>2, <2>2, <2>3, <2>4, <2>5 DEF Names
<1> QED
  BY <1>3, <1>4
\* Where another request steps on what one is about, overtaken says so.
LEMMA Meeting ==
  ASSUME MeetingsOK, NEW r \in InFlight, NEW x \in InFlight, x # r, NEW i,
         i \in Touched(req[r].id, req[r].refs), i \in Touched(req[x].id, req[x].refs)
  PROVE  i \in overtaken
BY DEF MeetingsOK

LEMMA UsesNothingElse ==
  ASSUME RequestsOK, ProductsOK, NEW x \in InFlight, NEW i,
         i \in Children(req[x].id) \ Attributes, UsedByLive(i)
  PROVE  req[x].id \in Attributes /\ UsedByLive(req[x].id)
<1>1. PICK p \in Products : Live(p) /\ i \in row[p].refs
  BY DEF UsedByLive
<1>2. row[p].refs \subseteq Classifiers \cup Variations /\ Closed(row[p].refs)
  BY <1>1 DEF ProductsOK
<1>3. i \in AttributeValues
  BY <1>1, <1>2, ChildrenOf, IsChild, IsClassifier, TablesDistinct
<1>4. Parent[i] = req[x].id /\ Parent[i] \in row[p].refs /\ Parent[i] \in Attributes
  BY <1>1, <1>2, <1>3, ChildrenOf, ParentAssumption DEF Closed
<1> QED
  BY <1>1, <1>4 DEF UsedByLive

\* A removal's check of use.
LEMMA UseCheckHolds ==
  ASSUME RequestsOK, TypeOK, ReferencesOK, MeetingsOK, ProductsOK, ChecksHold,
         NEW r \in InFlight, Moves(r), NEW x \in InFlight', x \in InFlight,
         Doing(x, "remove", Rows, {"children", "row"})'
  PROVE  /\ \A i \in ({req[x].id} \cup (Children(req[x].id) \ Attributes)) \ overtaken :
              ~UsedByLive(i)'
         /\ req[x].id \in Media \ overtaken => ~\E l \in link' : l[2] = req[x].id
<1> DEFINE id == req[x].id
<1>0. /\ req[x].verb = "remove" /\ req'[x].step \in {"children", "row"} /\ id \in Rows
      /\ x \in Requests /\ req[x].refs = {} /\ req[x].step \in Steps
  BY RequestsStep, InFlightIs DEF Doing, ReferencesOK
<1>1. Uses(r)
  BY EffectsOf DEF Effects
<1>2. CASE x = r
  <2>1. CASE Doing(x, "remove", Rows, {"children", "row"})
    <3>1. /\ \A i \in ({id} \cup (Children(id) \ Attributes)) \ overtaken : ~UsedByLive(i)
          /\ id \in Media \ overtaken => ~\E l \in link : l[2] = id
      BY <2>1 DEF ChecksHold
    <3> QED
      BY <1>0, <1>1, <1>2, <3>1 DEF Uses, UsedByLive, Live
  <2>2. CASE ~Doing(x, "remove", Rows, {"children", "row"})
    <3>1. req[x].step \notin {"children", "row"}
      BY <1>0, <2>2 DEF Doing
    <3>2. Checks(r) /\ Checked(r, req'[r].slug, req'[r].step)
      BY <1>0, <1>2, <3>1, NextStepIs
        DEF AddsValue, Creates, CreatesProduct, Rewrites, Removes, RemovesChildren, StoresFiles
    <3>3. /\ id \in Classifiers \cup Variations => ~UsedByLive(id)
          /\ id \in Media => ~\E l \in link : l[2] = id
          /\ row' = row /\ link' = link
      BY <1>0, <1>2, <3>2 DEF Checked, Checks
    <3>4. ~UsedByLive(id)
      BY <3>3 DEF UsedByLive, ProductsOK
    <3>5. \A i \in Children(id) \ Attributes : ~UsedByLive(i)
      BY <3>4, UsesNothingElse
    <3> QED
      BY <3>3, <3>4, <3>5 DEF UsedByLive, Live
  <2> QED
    BY <2>1, <2>2
<1>3. CASE x # r
  <2>1. Doing(x, "remove", Rows, {"children", "row"})
    <3>1. req'[x] = req[x]
      BY <1>0, <1>3, RequestsStep
    <3> QED
      BY <1>0, <3>1 DEF Doing
  <2>2. /\ \A i \in ({id} \cup (Children(id) \ Attributes)) \ overtaken : ~UsedByLive(i)
        /\ id \in Media \ overtaken => ~\E l \in link : l[2] = id
    BY <2>1 DEF ChecksHold
  <2>3. ASSUME NEW i \in {id} \cup Children(id), i \in req[r].refs
        PROVE  i \in overtaken
    <3>1. i \in Touched(req[r].id, req[r].refs) /\ i \in Touched(req[x].id, req[x].refs)
      BY <2>3 DEF Touched
    <3> QED
      BY <1>3, <3>1, Meeting
  <2>4. ASSUME NEW i \in ({id} \cup (Children(id) \ Attributes)) \ overtaken
        PROVE  ~UsedByLive(i)'
    <3>1. ~UsedByLive(i) /\ i \notin req[r].refs
      BY <2>2, <2>3, <2>4
    <3> QED
      BY <1>1, <3>1 DEF Uses, UsedByLive, Live
  <2>5. ASSUME id \in Media \ overtaken
        PROVE  ~\E l \in link' : l[2] = id
    <3>1. id \notin req[r].refs /\ ~\E l \in link : l[2] = id
      BY <2>2, <2>3, <2>5
    <3> QED
      BY <1>1, <3>1 DEF Uses
  <2> QED
    BY <2>4, <2>5
<1> QED
  BY <1>2, <1>3

\* A child that is still there when its parent goes.
LEMMA ChildCheckHolds ==
  ASSUME RequestsOK, TypeOK, ReferencesOK, MeetingsOK, ProductsOK, ChecksHold,
         NEW r \in InFlight, Moves(r), NEW x \in InFlight', x \in InFlight,
         Doing(x, "remove", AttributeSets \cup Attributes \cup Variations \cup Products, {"row"})',
         NEW c \in Children(req[x].id), row'[c].state = "live"
  PROVE  {c, req[x].id} \cap overtaken # {} /\ req[x].id \notin Products
<1> DEFINE id == req[x].id
<1>0. /\ req[x].verb = "remove" /\ req'[x].step = "row" /\ id \in Rows /\ x \in Requests
      /\ id \in AttributeSets \cup Attributes \cup Variations \cup Products
      /\ c \in Rows /\ Exists(id)
  BY RequestsStep, InFlightIs, ParentRows DEF Doing, ReferencesOK
<1>1. Appears(r)
  BY EffectsOf DEF Effects
<1>2. CASE x = r
  <2>1. Live(c)
    BY <1>0, <1>1, <1>2 DEF Appears, Live
  <2>2. CASE Checks(r) /\ Checked(r, req'[r].slug, req'[r].step)
    <3>1. id \in AttributeSets /\ ~\E d \in Children(id) : Live(d)
      BY <1>0, <1>2, <2>2 DEF Checked
    <3> QED
      BY <2>1, <3>1
  <2>3. CASE RemovesChildren(r)
    <3>1. row'[c].state = "removed"
      BY <1>0, <1>2, <2>1, <2>3, RemovesChildrenRows
    <3> QED
      BY <3>1
  <2> QED
    BY <1>0, <1>2, <2>2, <2>3, NextStepIs
      DEF AddsValue, Creates, CreatesProduct, Rewrites, Removes, StoresFiles
<1>3. CASE x # r
  <2>1. req'[x] = req[x]
    BY <1>0, <1>3, RequestsStep
  <2>2. CASE Live(c)
    <3>1. id \in Products => ~Live(c)
      BY <1>0, <2>1 DEF ChecksHold, Doing
    <3>2. id \notin Products => {c, id} \cap overtaken # {}
      BY <1>0, <2>1, <2>2 DEF ChecksHold, Doing
    <3> QED
      BY <2>2, <3>1, <3>2
  <2>3. CASE ~Live(c)
    <3>1. c = req[r].id \/ c \in req[r].refs
      BY <1>0, <1>1, <2>3 DEF Appears, Live
    <3>2. c \in Touched(req[r].id, req[r].refs) /\ c \in Touched(req[x].id, req[x].refs)
      BY <3>1 DEF Touched
    <3>3. c \in overtaken
      BY <1>3, <3>2, Meeting
    <3>4. ASSUME id \in Products PROVE FALSE
      <4>1. c \in Variants /\ Parent[c] = id
        BY <3>4, ChildrenOf
      <4>2. req[r].verb = "create"
        BY <1>0, <1>1, <2>3 DEF Appears, Live
      <4>3. c # req[r].id
        BY <4>1, <4>2 DEF ReferencesOK
      <4>4. /\ req[r].id \in Products /\ req[r].step = "row" /\ Parent[c] = req[r].id
        BY <1>0, <1>1, <2>3, <4>1, <4>3 DEF Appears, Live
      <4>5. Doing(r, "create", Products, {"check", "row"})
        BY <4>2, <4>4 DEF Doing
      <4>6. ~Exists(id)
        BY <4>1, <4>4, <4>5 DEF ProductsOK
      <4> QED
        BY <1>0, <4>6
    <3> QED
      BY <3>3, <3>4
  <2> QED
    BY <2>2, <2>3
<1> QED
  BY <1>2, <1>3
\* What a creation needs to be there.
LEMMA LiveCheckHolds ==
  ASSUME RequestsOK, TypeOK, ReferencesOK, MeetingsOK, ProductsOK, NEW r \in InFlight, Moves(r),
         NEW x \in InFlight, req[x].verb = "create", NEW i \in Rows,
         i \in Touched(req[x].id, req[x].refs), Live(i) \/ i \in overtaken
  PROVE  row'[i].state = "live" \/ i \in overtaken
<1>1. Appears(r) /\ Disappears(r)
  BY EffectsOf DEF Effects
<1>2. row'[i].state \in {"none", "live", "removed"}
  BY RowTypeStep DEF RowType
<1>3. SUFFICES ASSUME i \notin overtaken, row'[i].state # "live" PROVE FALSE
  OBVIOUS
<1>4. row'[i].state = "removed" /\ row[i].state # "removed"
  BY <1>1, <1>2, <1>3 DEF Appears, Exists, Live
<1>5. req[r].verb = "remove" /\ i \in Touched(req[r].id, req[r].refs)
  BY <1>1, <1>4 DEF Disappears, Touched
<1>6. x # r
  BY <1>5
<1> QED
  BY <1>3, <1>5, <1>6, Meeting

LEMMA ParentCheckHolds ==
  ASSUME RequestsOK, TypeOK, ReferencesOK, MeetingsOK, ProductsOK, ChecksHold,
         NEW r \in InFlight, Moves(r), NEW x \in InFlight', x \in InFlight,
         Doing(x, "create", UNION {Attributes, AttributeValues, VariationValues}, {"row"})'
  PROVE  row'[Parent[req[x].id]].state = "live" \/ Parent[req[x].id] \in overtaken
<1> DEFINE id == req[x].id
<1>0. /\ req[x].verb = "create" /\ req'[x].step = "row" /\ x \in Requests
      /\ id \in Attributes \/ id \in AttributeValues \/ id \in VariationValues
  BY RequestsStep DEF Doing
<1>1. id \in DOMAIN Parent /\ Parent[id] \in Rows
  BY <1>0, IsChild, ParentRows
<1>2. Parent[id] \in Touched(req[x].id, req[x].refs)
  BY <1>1 DEF Touched
<1>3. Live(Parent[id]) \/ Parent[id] \in overtaken
  <2>1. CASE x # r
    <3>1. req'[x] = req[x]
      BY <1>0, <2>1, RequestsStep
    <3> QED
      BY <1>0, <3>1 DEF ChecksHold, Doing
  <2>2. CASE x = r
    <3>1. id \notin Media
      BY <1>0, TablesDistinct
    <3>2. Checks(r) /\ Checked(r, req'[r].slug, req'[r].step)
      BY <1>0, <2>2, <3>1, NextStepIs
        DEF AddsValue, Creates, CreatesProduct, Rewrites, Removes, RemovesChildren, StoresFiles
    <3> QED
      BY <1>0, <1>1, <2>2, <3>2 DEF Checked
  <2> QED
    BY <2>1, <2>2
<1> QED
  BY <1>0, <1>1, <1>2, <1>3, LiveCheckHolds

LEMMA ValuesCheckHolds ==
  ASSUME RequestsOK, TypeOK, ReferencesOK, MeetingsOK, ProductsOK, ChecksHold,
         NEW r \in InFlight, Moves(r), NEW x \in InFlight', x \in InFlight,
         Doing(x, "create", Variations, {"values"})'
  PROVE  row'[req[x].id].state = "live" \/ req[x].id \in overtaken
<1> DEFINE id == req[x].id
<1>0. /\ req[x].verb = "create" /\ req'[x].step = "values" /\ id \in Variations /\ x \in Requests
      /\ id \in Rows /\ id \in Touched(req[x].id, req[x].refs)
  BY RequestsStep, IsRow DEF Doing, Touched
<1>1. CASE req[x].step = "values"
  <2>1. Live(id) \/ id \in overtaken
    BY <1>0, <1>1 DEF ChecksHold, Doing
  <2> QED
    BY <1>0, <2>1, LiveCheckHolds
<1>2. CASE req[x].step # "values"
  <2>1. x = r
    BY <1>0, <1>2, RequestsStep
  <2>2. Creates(r)
    BY <1>0, <1>2, <2>1, NextStepIs
      DEF AddsValue, Checks, Checked, CreatesProduct, Rewrites, Removes, RemovesChildren, StoresFiles
  <2>3. row'[id] = [state |-> "live", slug |-> req[r].slug,
                    refs |-> IF id \in Brands THEN req[r].refs ELSE {}]
    BY <1>0, <2>1, <2>2, PutsIs DEF Creates
  <2> QED
    BY <2>3
<1> QED
  BY <1>1, <1>2

LEMMA RowsCheckHolds ==
  ASSUME RequestsOK, TypeOK, ReferencesOK, ProductsOK, ChecksHold,
         NEW r \in InFlight, Moves(r), NEW x \in InFlight', x \in InFlight
  PROVE  /\ Doing(x, "create", Media, {"row"})' => req[x].id \in files'
         /\ Doing(x, "create", Rows, {"link", "unlink", "values"})' =>
              row'[req[x].id].state # "none"
<1> DEFINE id == req[x].id
<1>0. /\ x \in Requests /\ id \in Rows /\ req'[x].id = id /\ req'[x].verb = req[x].verb
      /\ Appears(r) /\ files \subseteq files'
  BY RequestsStep, InFlightIs, EffectsOf DEF Effects
<1>1. CASE x # r
  <2>1. req'[x] = req[x]
    BY <1>0, <1>1, RequestsStep
  <2>2. Doing(x, "create", Media, {"row"})' => id \in files
    BY <2>1 DEF ChecksHold, Doing
  <2>3. Doing(x, "create", Rows, {"link", "unlink", "values"})' => Exists(id)
    BY <2>1 DEF ChecksHold, Doing
  <2> QED
    BY <1>0, <2>2, <2>3 DEF Appears, Exists
<1>2. CASE x = r
  <2>1. ASSUME Doing(x, "create", Media, {"row"})'
        PROVE  id \in files'
    <3>1. id \in Media /\ req'[x].step = "row" /\ req[x].verb = "create"
      BY <1>0, <2>1 DEF Doing
    <3>2. CASE StoresFiles(r)
      BY <1>2, <3>2 DEF StoresFiles
    <3>3. CASE AddsValue(r) /\ req'[r] = req[r]
      BY <1>2, <3>1, <3>3 DEF AddsValue
    <3>4. CASE Checks(r) /\ Checked(r, req'[r].slug, req'[r].step)
      BY <1>2, <3>1, <3>4 DEF Checked
    <3> QED
      BY <1>2, <3>1, <3>2, <3>3, <3>4, NextStepIs DEF RemovesChildren
  <2>2. ASSUME Doing(x, "create", Rows, {"link", "unlink", "values"})'
        PROVE  row'[id].state # "none"
    <3>1. req'[x].step \in {"link", "unlink", "values"} /\ req[x].verb = "create"
      BY <1>0, <2>2 DEF Doing
    <3>2. CASE Creates(r)
      <4>1. row'[id] = [state |-> "live", slug |-> req[r].slug,
                        refs |-> IF id \in Brands THEN req[r].refs ELSE {}]
        BY <1>0, <1>2, <3>2, PutsIs DEF Creates
      <4> QED
        BY <4>1
    <3>3. CASE CreatesProduct(r)
      BY <1>2, <3>3, CreatesProductRows
    <3>4. CASE req[x].step \in {"link", "unlink", "values"}
      <4>1. Exists(id)
        BY <1>0, <3>1, <3>4 DEF ChecksHold, Doing
      <4> QED
        BY <1>0, <4>1 DEF Appears, Exists
    <3>5. CASE Checks(r) /\ Checked(r, req'[r].slug, req'[r].step)
      BY <1>2, <3>1, <3>5 DEF Checked
    <3> QED
      BY <1>2, <3>1, <3>2, <3>3, <3>4, <3>5, NextStepIs
        DEF AddsValue, Rewrites, Removes, RemovesChildren, Relinks, StoresFiles
  <2> QED
    BY <2>1, <2>2
<1> QED
  BY <1>1, <1>2

LEMMA SlugCheckHolds ==
  ASSUME RequestsOK, TypeOK, ReferencesOK, MeetingsOK, ProductsOK, ChecksHold,
         NEW r \in InFlight, Moves(r), NEW x \in InFlight', x \in InFlight,
         req'[x].step = "row", req'[x].verb # "remove", req[x].id \in Unindexed,
         NEW j \in Peers(req[x].id), row'[j].state = "live", row'[j].slug = req'[x].slug
  PROVE  {j, req[x].id} \cap overtaken # {}
<1> DEFINE id == req[x].id
<1>0. /\ x \in Requests /\ req[x].verb # "remove" /\ j \in Rows /\ j # id /\ j \in Unindexed
      /\ Appears(r) /\ Names(r)
  BY RequestsStep, EffectsOf, PeersAre DEF Effects
<1>1. /\ j \notin Variations /\ j \notin VariationValues /\ j \notin Variants
      /\ id \notin Variations /\ id \notin Products /\ id \notin Media
  BY <1>0, TablesDistinct DEF Unindexed
<1>2. req'[x].slug = req[x].slug
  BY <1>1, RequestsStep
<1>3. CASE x # r
  <2>1. req'[x] = req[x]
    BY <1>0, <1>3, RequestsStep
  <2>2. CASE j = req[r].id
    <3>1. j \in Touched(req[r].id, req[r].refs) /\ j \in Touched(req[x].id, req[x].refs)
      BY <2>2 DEF Touched
    <3> QED
      BY <1>3, <3>1, Meeting
  <2>3. CASE j # req[r].id
    <3>1. Live(j) /\ row[j].slug = req[x].slug
      BY <1>0, <1>1, <1>2, <2>3 DEF Appears, Names, Live
    <3> QED
      BY <1>0, <2>1, <3>1 DEF ChecksHold
  <2> QED
    BY <2>2, <2>3
<1>4. CASE x = r
  <2>1. Checks(r) /\ Checked(r, req'[r].slug, req'[r].step)
    BY <1>0, <1>1, <1>4, NextStepIs
      DEF AddsValue, Creates, CreatesProduct, Rewrites, Removes, RemovesChildren, StoresFiles
  <2>2. SlugFree(id, req[x].slug) /\ row' = row
    BY <1>0, <1>2, <1>4, <2>1 DEF Checked, Checks
  <2> QED
    BY <1>2, <2>2 DEF SlugFree, Live
<1> QED
  BY <1>3, <1>4
LEMMA ChecksStep ==
  ASSUME RequestsOK, TypeOK, ReferencesOK, MeetingsOK, ProductsOK, ChecksHold,
         NEW r \in InFlight, Moves(r)
  PROVE  ChecksHold'
<1>1. \A x \in InFlight' : x \in InFlight /\ req'[x].id = req[x].id /\ req'[x].verb = req[x].verb
  BY RequestsStep
<1>2. overtaken' = overtaken
  BY EffectsOf DEF Effects
<1>3. ASSUME NEW x \in InFlight', Doing(x, "remove", Rows, {"children", "row"})'
      PROVE  /\ \A i \in ({req'[x].id} \cup (Children(req'[x].id) \ Attributes)) \ overtaken' :
                  ~UsedByLive(i)'
             /\ req'[x].id \in Media \ overtaken' => ~\E l \in link' : l[2] = req'[x].id
  BY <1>1, <1>2, <1>3, UseCheckHolds
<1>4. ASSUME NEW x \in InFlight',
             Doing(x, "remove", AttributeSets \cup Attributes \cup Variations, {"row"})',
             NEW c \in Children(req'[x].id), row'[c].state = "live"
      PROVE  {c, req'[x].id} \cap overtaken' # {}
  <2>1. Doing(x, "remove", AttributeSets \cup Attributes \cup Variations \cup Products, {"row"})'
    BY <1>4 DEF Doing
  <2> QED
    BY <1>1, <1>2, <1>4, <2>1, ChildCheckHolds
<1>5. ASSUME NEW x \in InFlight', Doing(x, "remove", Products, {"row"})',
             NEW c \in Children(req'[x].id)
      PROVE  row'[c].state # "live"
  <2>1. Doing(x, "remove", AttributeSets \cup Attributes \cup Variations \cup Products, {"row"})'
        /\ req[x].id \in Products
    BY <1>1, <1>5 DEF Doing
  <2> QED
    BY <1>1, <1>5, <2>1, ChildCheckHolds
<1>6. ASSUME NEW x \in InFlight',
             Doing(x, "create", UNION {Attributes, AttributeValues, VariationValues}, {"row"})'
      PROVE  row'[Parent[req'[x].id]].state = "live" \/ Parent[req'[x].id] \in overtaken'
  BY <1>1, <1>2, <1>6, ParentCheckHolds
<1>7. ASSUME NEW x \in InFlight', Doing(x, "create", Variations, {"values"})'
      PROVE  row'[req'[x].id].state = "live" \/ req'[x].id \in overtaken'
  BY <1>1, <1>2, <1>7, ValuesCheckHolds
<1>8. ASSUME NEW x \in InFlight', req'[x].step = "row", req'[x].verb # "remove",
             req'[x].id \in Unindexed, NEW j \in Peers(req'[x].id), row'[j].state = "live",
             row'[j].slug = req'[x].slug
      PROVE  {j, req'[x].id} \cap overtaken' # {}
  BY <1>1, <1>2, <1>8, SlugCheckHolds
<1>9. ASSUME NEW x \in InFlight'
      PROVE  /\ Doing(x, "create", Media, {"row"})' => req'[x].id \in files'
             /\ Doing(x, "create", Rows, {"link", "unlink", "values"})' =>
                  row'[req'[x].id].state # "none"
  BY <1>1, RowsCheckHolds
<1> QED
  BY <1>3, <1>4, <1>5, <1>6, <1>7, <1>8, <1>9 DEF ChecksHold, Live, Exists

LEMMA MovesStep ==
  ASSUME CatalogInv, NEW r \in InFlight, Moves(r)
  PROVE  CatalogInv'
BY RequestsStep, TypeStep, ReferencesStep, MeetingsStep, ProductsStep, IndexesStep, ChecksStep,
   InUseStep, OrphansStep, SlugsStep DEF CatalogInv

-----------------------------------------------------------------------------
(* Arrivals and listings. *)

\* What an administrator's form makes sure of.
Proper(verb, id, slug, refs, given) ==
  /\ verb \in {"create", "update", "remove"} /\ id \in Rows /\ slug \in Slugs \cup {None}
  /\ refs \subseteq Rows /\ given \subseteq Rows
  /\ verb = "create" => /\ id \notin Variants /\ ~Exists(id)
                        /\ \A q \in Requests : req[q].id # id
  /\ verb # "create" => Exists(id) /\ \A i \in refs : Exists(i)
  /\ verb = "remove" => refs = {}
  /\ id \notin UNION Named => slug = None
  /\ id \notin UNION {Brands, Variations, Products, Variants} => refs = {}
  /\ id \in Brands \cup Variants => refs \subseteq Media
  /\ id \in Variations => refs \subseteq Children(id)
  /\ id \in Products =>
       /\ refs \subseteq UNION {Classifiers, Variations, VariationValues, Media, Children(id)}
       /\ Closed(refs)
       /\ verb = "update" =>
            /\ refs \subseteq given
            /\ \/ (Attributes \cup AttributeValues) \cap given = {}
               \/ Attributes \cup AttributeValues \subseteq given
  /\ \A i \in refs : Exists(i) \/ i \in UNION {Variations, VariationValues, Variants}

LEMMA DeskRows ==
  ASSUME TypeOK, ProductsOK
  PROVE  desk \subseteq Rows /\ screen \subseteq desk /\ \A i \in screen : i \in Rows /\ Exists(i)
BY BudgetAssumption DEF TypeOK, ProductsOK

LEMMA CreateAsks ==
  ASSUME TypeOK, ProductsOK, NEW r \in Requests, NEW id \in desk, Create(r, id)
  PROVE  \E slug, refs :
           Ask(r, "create", id, slug, refs, {}) /\ Proper("create", id, slug, refs, {})
<1>1. /\ id \in Rows /\ screen \subseteq Rows /\ desk \subseteq Rows
      /\ \A i \in screen : Exists(i)
  BY DeskRows
<1>2. ~Exists(id) /\ \A q \in Requests : req[q].id # id
  BY DEF Create, Unclaimed
<1>3. CASE /\ id \in Tags \cup AttributeSets \cup Attributes \cup TaxClasses \cup TaxRates
           /\ \E slug \in Slugs : Ask(r, "create", id, slug, {}, {})
  <2>1. PICK slug \in Slugs : Ask(r, "create", id, slug, {}, {})
    BY <1>3
  <2>2. id \notin Variants /\ id \notin Products /\ id \in UNION Named
    BY <1>3, TablesDistinct, IsNamed
  <2>3. Proper("create", id, slug, {}, {})
    BY <1>1, <1>2, <2>2 DEF Proper
  <2> QED
    BY <2>1, <2>3
<1>4. CASE /\ id \in AttributeValues \cup VariationValues \cup Media
           /\ Ask(r, "create", id, None, {}, {})
  <2>1. id \notin Variants /\ id \notin Products
    BY <1>4, TablesDistinct
  <2>2. Proper("create", id, None, {}, {})
    BY <1>1, <1>2, <2>1 DEF Proper
  <2> QED
    BY <1>4, <2>2
<1>5. CASE /\ id \in Brands
           /\ \E slug \in Slugs, logo \in {{}} \cup {{m} : m \in screen \cap Media} :
                Ask(r, "create", id, slug, logo, {})
  <2>1. PICK slug \in Slugs, logo \in {{}} \cup {{m} : m \in screen \cap Media} :
          Ask(r, "create", id, slug, logo, {})
    BY <1>5
  <2>2. logo \subseteq screen /\ logo \subseteq Media
    OBVIOUS
  <2>3. id \notin Variants /\ id \notin Variations /\ id \notin Products /\ id \in UNION Named
    BY <1>5, TablesDistinct, IsNamed
  <2>4. Proper("create", id, slug, logo, {})
    BY <1>1, <1>2, <1>5, <2>2, <2>3 DEF Proper
  <2> QED
    BY <2>1, <2>4
<1>6. CASE /\ id \in Variations
           /\ \E values \in SUBSET (Children(id) \cap desk) : Ask(r, "create", id, None, values, {})
  <2>1. PICK values \in SUBSET (Children(id) \cap desk) : Ask(r, "create", id, None, values, {})
    BY <1>6
  <2>2. \A i \in values : i \in Children(id) /\ i \in Rows /\ i \in VariationValues
    BY <1>1, <1>6, <2>1, ChildrenOf
  <2>3. id \notin Variants /\ id \notin Brands /\ id \notin Products
    BY <1>6, TablesDistinct
  <2>4. Proper("create", id, None, values, {})
    BY <1>1, <1>2, <1>6, <2>2, <2>3 DEF Proper
  <2> QED
    BY <2>1, <2>4
<1>7. CASE /\ id \in Products
           /\ \E refs \in SUBSET ((screen \cap (Classifiers \cup Variations \cup Media))
                                    \cup Brings(id)) :
                FormAllows(refs) /\ Ask(r, "create", id, None, refs, {})
  <2>1. PICK refs \in SUBSET ((screen \cap (Classifiers \cup Variations \cup Media))
                                \cup Brings(id)) :
          FormAllows(refs) /\ Ask(r, "create", id, None, refs, {})
    BY <1>7
  <2>2. \A i \in refs :
          /\ i \in Rows
          /\ i \in UNION {Classifiers, Variations, VariationValues, Media, Children(id)}
          /\ Exists(i) \/ i \in Variations \/ i \in VariationValues \/ i \in Variants
    <3>1. \A i \in Brings(id) :
            i \in desk /\ (i \in Variations \/ i \in VariationValues \/ i \in Children(id))
      BY DEF Brings
    <3>2. \A i \in Children(id) : i \in Variants
      BY <1>7, ChildrenOf
    <3> QED
      BY <1>1, <2>1, <3>1, <3>2
  <2>3. Closed(refs)
    BY <2>1 DEF FormAllows, Closed
  <2>4. id \notin Variants /\ id \notin Brands /\ id \notin Variations
    BY <1>7, TablesDistinct
  <2>5. Proper("create", id, None, refs, {})
    BY <1>1, <1>2, <1>7, <2>2, <2>3, <2>4 DEF Proper
  <2> QED
    BY <2>1, <2>5
<1> QED
  BY <1>3, <1>4, <1>5, <1>6, <1>7 DEF Create

LEMMA UpdateAsks ==
  ASSUME TypeOK, ProductsOK, NEW r \in Requests, NEW id \in desk, Update(r, id)
  PROVE  \E slug, refs, given :
           Ask(r, "update", id, slug, refs, given) /\ Proper("update", id, slug, refs, given)
<1>1. /\ id \in Rows /\ Exists(id) /\ screen \subseteq Rows /\ \A i \in screen : Exists(i)
  BY DeskRows DEF Update
<1>2. CASE /\ \E T \in Named \ {Brands, Variations, Products} : id \in T
           /\ \E slug \in Slugs : Ask(r, "update", id, slug, {}, {})
  <2>1. PICK slug \in Slugs : Ask(r, "update", id, slug, {}, {})
    BY <1>2
  <2>2. id \in UNION Named
    BY <1>2
  <2>3. Closed({})
    BY DEF Closed
  <2>4. Proper("update", id, slug, {}, {})
    BY <1>1, <2>2, <2>3 DEF Proper
  <2> QED
    BY <2>1, <2>4
<1>3. CASE id \in Variations /\ Ask(r, "update", id, None, {}, {})
  <2>1. Closed({})
    BY DEF Closed
  <2>2. Proper("update", id, None, {}, {})
    BY <1>1, <2>1 DEF Proper
  <2> QED
    BY <1>3, <2>2
<1>4. CASE /\ id \in Brands
           /\ \E slug \in Slugs, given \in {{}, Media} :
                \E logo \in {{}} \cup {{m} : m \in given \cap screen} :
                  Ask(r, "update", id, slug, logo, given)
  <2>1. PICK slug \in Slugs, given \in {{}, Media} :
          \E logo \in {{}} \cup {{m} : m \in given \cap screen} :
            Ask(r, "update", id, slug, logo, given)
    BY <1>4
  <2>2. PICK logo \in {{}} \cup {{m} : m \in given \cap screen} :
          Ask(r, "update", id, slug, logo, given)
    BY <2>1
  <2>3. logo \subseteq screen /\ logo \subseteq Media /\ given \subseteq Rows
    BY <2>1, <2>2, IsRow
  <2>4. id \notin Variations /\ id \notin Products /\ id \in UNION Named
    BY <1>4, TablesDistinct, IsNamed
  <2>5. Proper("update", id, slug, logo, given)
    BY <1>1, <1>4, <2>3, <2>4 DEF Proper
  <2> QED
    BY <2>2, <2>5
<1>5. CASE /\ id \in Products
           /\ \E given \in {UNION F : F \in SUBSET {T \in Facets : T \cap desk # {}}} :
                \E refs \in SUBSET (given \cap screen) :
                  FormAllows(refs) /\ Ask(r, "update", id, None, refs, given)
  <2>1. PICK F \in SUBSET Facets :
          \E refs \in SUBSET ((UNION F) \cap screen) :
            FormAllows(refs) /\ Ask(r, "update", id, None, refs, UNION F)
    BY <1>5
  <2>2. PICK refs \in SUBSET ((UNION F) \cap screen) :
          FormAllows(refs) /\ Ask(r, "update", id, None, refs, UNION F)
    BY <2>1
  <2>3. \A i \in UNION F : i \in Rows /\ (i \in Classifiers \/ i \in Media)
    <3>1. \A T \in Facets : \A i \in T : i \in Rows /\ (i \in Classifiers \/ i \in Media)
      BY IsRow, IsClassifier DEF Facets
    <3> QED
      BY <2>1, <3>1
  <2>4. \/ (Attributes \cup AttributeValues) \cap UNION F = {}
        \/ Attributes \cup AttributeValues \subseteq UNION F
    <3>1. \A T \in Facets : \A i \in T :
            i \in Attributes \/ i \in AttributeValues => T = Attributes \cup AttributeValues
      BY TablesDistinct DEF Facets
    <3> QED
      BY <2>1, <3>1
  <2>5. Closed(refs)
    BY <2>2 DEF FormAllows, Closed
  <2>6. id \notin Variants /\ id \notin Brands /\ id \notin Variations
    BY <1>5, TablesDistinct
  <2>7. \A i \in refs : i \in UNION F /\ i \in screen
    BY <2>2
  <2>8. Proper("update", id, None, refs, UNION F)
    BY <1>1, <1>5, <2>3, <2>4, <2>5, <2>6, <2>7 DEF Proper
  <2> QED
    BY <2>2, <2>8
<1>6. CASE /\ id \in Variants
           /\ \E given \in {{}, Media} : \E media \in SUBSET (given \cap screen) :
                Ask(r, "update", id, None, media, given)
  <2>1. PICK given \in {{}, Media} : \E media \in SUBSET (given \cap screen) :
          Ask(r, "update", id, None, media, given)
    BY <1>6
  <2>2. PICK media \in SUBSET (given \cap screen) : Ask(r, "update", id, None, media, given)
    BY <2>1
  <2>3. media \subseteq screen /\ media \subseteq Media /\ given \subseteq Rows
    BY <2>1, <2>2, IsRow
  <2>4. id \notin Variations /\ id \notin Products
    BY <1>6, TablesDistinct
  <2>5. Proper("update", id, None, media, given)
    BY <1>1, <1>6, <2>3, <2>4 DEF Proper
  <2> QED
    BY <2>2, <2>5
<1> QED
  BY <1>2, <1>3, <1>4, <1>5, <1>6 DEF Update

LEMMA RemoveAsks ==
  ASSUME TypeOK, ProductsOK, NEW r \in Requests, NEW id \in desk, Remove(r, id)
  PROVE  Ask(r, "remove", id, None, {}, {}) /\ Proper("remove", id, None, {}, {})
<1>1. id \in Rows /\ Exists(id) /\ Ask(r, "remove", id, None, {}, {})
  BY DeskRows DEF Remove
<1>2. Closed({})
  BY DEF Closed
<1> QED
  BY <1>1, <1>2 DEF Proper
\* A request that arrives.
LEMMA AskIs ==
  ASSUME RequestsOK, NEW r \in Requests, NEW verb, NEW id, NEW slug, NEW refs, NEW given,
         Proper(verb, id, slug, refs, given), Ask(r, verb, id, slug, refs, given)
  PROVE  /\ r \notin InFlight /\ InFlight' = InFlight \cup {r} /\ RequestsOK'
         /\ \A x \in InFlight : x # r /\ x \in Requests /\ req'[x] = req[x]
         /\ req'[r].verb = verb /\ req'[r].id = id /\ req'[r].slug = slug
         /\ req'[r].refs = refs /\ req'[r].given = given /\ req'[r].step = "check"
         /\ UNCHANGED <<row, link, files, desk, screen>>
         /\ overtaken \subseteq overtaken'
         /\ \A i \in overtaken' : i \in overtaken \/ i \in Touched(id, refs)
         /\ \A i \in refs : row[i].state = "removed" => i \in overtaken'
         /\ \A x \in InFlight :
              Touched(id, refs) \cap Touched(req[x].id, req[x].refs) \subseteq overtaken'
<1> DEFINE new == [verb |-> verb, id |-> id, slug |-> slug, refs |-> refs, given |-> given,
                   old |-> {}, step |-> "check"]
           met == UNION {Touched(req[q].id, req[q].refs) : q \in InFlight}
           gone == {i \in refs : row[i].state = "removed"}
<1>0. overtaken' = overtaken \cup (Touched(id, refs) \cap (met \cup gone))
  BY DEF Ask
<1>1. /\ req[r].step = "free" /\ req' = [req EXCEPT ![r] = new]
      /\ UNCHANGED <<row, link, files, desk, screen>>
  BY DEF Ask
<1>2. new \in RequestType
  BY DEF Proper, RequestType
<1>3. DOMAIN req' = Requests /\ req'[r] = new /\ \A x \in Requests \ {r} : req'[x] = req[x]
  BY <1>1 DEF RequestsOK
<1>4. /\ req'[r].verb = verb /\ req'[r].id = id /\ req'[r].slug = slug
      /\ req'[r].refs = refs /\ req'[r].given = given /\ req'[r].step = "check"
  BY <1>3
<1>5. r \notin InFlight
  BY <1>1 DEF InFlight
<1>6. InFlight' = InFlight \cup {r}
  BY <1>3, <1>4 DEF InFlight
<1>7. \A x \in InFlight : x # r /\ x \in Requests /\ req'[x] = req[x]
  BY <1>3, <1>5 DEF InFlight
<1>8. RequestsOK'
  <2>1. ASSUME NEW x \in Requests
        PROVE  IF x \in InFlight' THEN req'[x] \in RequestType ELSE req'[x] \in {Free, Over}
    BY <1>2, <1>3, <1>6, <1>7 DEF RequestsOK
  <2> QED
    BY <1>3, <2>1 DEF RequestsOK
<1>9. overtaken \subseteq overtaken' /\ \A i \in overtaken' : i \in overtaken \/ i \in Touched(id, refs)
  BY <1>0
<1>10. \A i \in refs : i \in Touched(id, refs)
  BY DEF Touched
<1>11. \A i \in refs : row[i].state = "removed" => i \in overtaken'
  <2> SUFFICES ASSUME NEW i \in refs, row[i].state = "removed" PROVE i \in overtaken'
    OBVIOUS
  <2>1. i \in gone /\ i \in Touched(id, refs)
    BY <1>10
  <2> HIDE DEF met, gone
  <2> QED
    BY <1>0, <2>1
<1>12. \A x \in InFlight :
         Touched(id, refs) \cap Touched(req[x].id, req[x].refs) \subseteq overtaken'
  BY <1>0
<1> HIDE DEF new
<1> QED
  BY <1>1, <1>4, <1>5, <1>6, <1>7, <1>8, <1>9, <1>11, <1>12

LEMMA TouchedRows ==
  ASSUME NEW id \in Rows, NEW refs \in SUBSET Rows
  PROVE  Touched(id, refs) \subseteq Rows
BY ParentRows, PeersAre, IsNamed, IsRow DEF Touched

LEMMA AskTypes ==
  ASSUME RequestsOK, TypeOK, ReferencesOK, NEW r \in Requests, NEW verb, NEW id, NEW slug,
         NEW refs, NEW given, Proper(verb, id, slug, refs, given),
         Ask(r, verb, id, slug, refs, given)
  PROVE  TypeOK' /\ ReferencesOK'
<1>1. /\ InFlight' = InFlight \cup {r}
      /\ \A x \in InFlight : x # r /\ req'[x] = req[x]
      /\ req'[r].verb = verb /\ req'[r].id = id /\ req'[r].slug = slug
      /\ req'[r].refs = refs /\ req'[r].given = given
      /\ UNCHANGED <<row, link, files, desk, screen>>
      /\ \A i \in overtaken' : i \in overtaken \/ i \in Touched(id, refs)
  BY AskIs
<1>2. id \in Rows /\ refs \in SUBSET Rows
  BY DEF Proper
<1>3. TypeOK'
  <2>1. overtaken' \subseteq Rows
    BY <1>1, <1>2, TouchedRows DEF TypeOK
  <2> QED
    BY <1>1, <2>1 DEF TypeOK, Exists
<1>4. ReferencesOK'
  <2> SUFFICES ASSUME NEW x \in InFlight'
               PROVE  LET q == req'[x] IN
                      /\ q.verb = "create" => q.id \notin Variants
                      /\ q.verb # "create" =>
                           row'[q.id].state # "none" /\ \A i \in q.refs : row'[i].state # "none"
                      /\ q.verb = "remove" => q.refs = {}
                      /\ q.id \notin UNION Named => q.slug = None
                      /\ q.id \notin UNION {Brands, Variations, Products, Variants} => q.refs = {}
                      /\ q.id \in Brands \cup Variants => q.refs \subseteq Media
                      /\ q.id \in Variations => q.refs \subseteq Children(q.id)
                      /\ q.id \in Products =>
                           /\ q.refs \subseteq
                                UNION {Classifiers, Variations, VariationValues, Media, Children(q.id)}
                           /\ Closed(q.refs)
                           /\ q.verb = "update" =>
                                /\ q.refs \subseteq q.given
                                /\ \/ (Attributes \cup AttributeValues) \cap q.given = {}
                                   \/ Attributes \cup AttributeValues \subseteq q.given
                      /\ \A i \in q.refs :
                           \/ row'[i].state # "none"
                           \/ i \in UNION {Variations, VariationValues, Variants}
    BY DEF ReferencesOK, Exists
  <2>1. CASE x = r
    BY <1>1, <2>1 DEF Proper, Exists
  <2>2. CASE x # r
    <3>1. x \in InFlight /\ req'[x] = req[x] /\ row' = row
      BY <1>1, <2>2
    <3> QED
      BY <3>1 DEF ReferencesOK, Exists
  <2> QED
    BY <2>1, <2>2
<1> QED
  BY <1>3, <1>4

LEMMA AskStep ==
  ASSUME CatalogInv, NEW r \in Requests, NEW verb, NEW id, NEW slug, NEW refs, NEW given,
         Proper(verb, id, slug, refs, given), Ask(r, verb, id, slug, refs, given)
  PROVE  CatalogInv'
<1>0. /\ TypeOK /\ RequestsOK /\ ReferencesOK /\ MeetingsOK /\ ProductsOK /\ IndexesOK
      /\ ChecksHold /\ NothingInUseIsRemoved /\ NoOrphans /\ SlugsDistinct
  BY DEF CatalogInv
<1>1. /\ InFlight' = InFlight \cup {r} /\ r \notin InFlight
      /\ \A x \in InFlight : x # r /\ x \in Requests /\ req'[x] = req[x]
      /\ req'[r].verb = verb /\ req'[r].id = id /\ req'[r].refs = refs /\ req'[r].step = "check"
      /\ UNCHANGED <<row, link, files, desk, screen>>
      /\ overtaken \subseteq overtaken'
      /\ \A i \in refs : row[i].state = "removed" => i \in overtaken'
      /\ \A x \in InFlight :
           Touched(id, refs) \cap Touched(req[x].id, req[x].refs) \subseteq overtaken'
  BY <1>0, AskIs
<1>2. TypeOK' /\ ReferencesOK' /\ RequestsOK'
  BY <1>0, AskTypes, AskIs
<1>3. MeetingsOK'
  <2>1. ASSUME NEW x \in InFlight', NEW y \in InFlight', x # y
        PROVE  Touched(req'[x].id, req'[x].refs) \cap Touched(req'[y].id, req'[y].refs)
                 \subseteq overtaken'
    <3>1. CASE x = r
      BY <1>1, <2>1, <3>1
    <3>2. CASE y = r
      BY <1>1, <2>1, <3>2
    <3>3. CASE x # r /\ y # r
      BY <1>0, <1>1, <2>1, <3>3 DEF MeetingsOK
    <3> QED
      BY <3>1, <3>2, <3>3
  <2>2. ASSUME NEW x \in InFlight', NEW i \in req'[x].refs \ overtaken'
        PROVE  row'[i].state # "removed"
    <3>1. CASE x = r
      BY <1>1, <2>2, <3>1
    <3>2. CASE x # r
      BY <1>0, <1>1, <2>2, <3>2 DEF MeetingsOK
    <3> QED
      BY <3>1, <3>2
  <2> QED
    BY <2>1, <2>2 DEF MeetingsOK
<1>4. ProductsOK'
  <2>1. ASSUME NEW x \in InFlight', Doing(x, "create", Products, {"check", "row"})'
        PROVE  /\ row'[req'[x].id].state = "none"
               /\ \A y \in InFlight' :
                    req'[y].verb = "create" /\ req'[y].id = req'[x].id
                      /\ req'[y].step \in {"check", "row"} => y = x
    <3>1. CASE x = r
      <4>1. ~Exists(id) /\ \A q \in Requests : req[q].id # id
        BY <1>1, <2>1, <3>1 DEF Proper, Doing
      <4> QED
        BY <1>1, <3>1, <4>1 DEF Doing, Exists
    <3>2. CASE x # r
      <4>1. x \in InFlight /\ req'[x] = req[x] /\ x \in Requests
        BY <1>1, <3>2
      <4>2. /\ Doing(x, "create", Products, {"check", "row"})
        BY <2>1, <4>1 DEF Doing
      <4>3. /\ ~Exists(req[x].id)
            /\ \A q \in InFlight : Doing(q, "create", {req[x].id}, {"check", "row"}) => q = x
        BY <1>0, <4>1, <4>2 DEF ProductsOK
      <4>4. verb = "create" => id # req[x].id
        BY <4>1 DEF Proper
      <4> QED
        BY <1>1, <4>1, <4>3, <4>4 DEF Doing, Exists
    <3> QED
      BY <3>1, <3>2
  <2>2. UNCHANGED <<row, screen>>
    BY <1>1
  <2>3. \A p \in Products :
          row'[p].refs \subseteq Classifiers \cup Variations /\ Closed(row'[p].refs)
    BY <1>0, <2>2 DEF ProductsOK
  <2>4. /\ \A i \in Rows : row'[i].state = "none" => row'[i].slug = None
        /\ \A i \in screen' : row'[i].state # "none"
    BY <1>0, <2>2 DEF ProductsOK, Exists
  <2> QED
    BY <2>1, <2>3, <2>4 DEF ProductsOK, Exists, Doing
<1>5. IndexesOK'
  BY <1>0, <1>1 DEF IndexesOK, Exists
<1>6. ChecksHold'
  <2> SUFFICES ASSUME NEW x \in InFlight'
               PROVE  LET i == req'[x].id IN
                 /\ Doing(x, "remove", Rows, {"children", "row"})' =>
                      /\ \A j \in ({i} \cup (Children(i) \ Attributes)) \ overtaken' :
                           ~UsedByLive(j)'
                      /\ i \in Media \ overtaken' => ~\E l \in link' : l[2] = i
                 /\ Doing(x, "remove", AttributeSets \cup Attributes \cup Variations, {"row"})' =>
                      \A c \in Children(i) :
                        row'[c].state = "live" => {c, i} \cap overtaken' # {}
                 /\ Doing(x, "remove", Products, {"row"})' =>
                      \A c \in Children(i) : row'[c].state # "live"
                 /\ Doing(x, "create", UNION {Attributes, AttributeValues, VariationValues},
                          {"row"})' =>
                      row'[Parent[i]].state = "live" \/ Parent[i] \in overtaken'
                 /\ Doing(x, "create", Variations, {"values"})' =>
                      row'[i].state = "live" \/ i \in overtaken'
                 /\ Doing(x, "create", Media, {"row"})' => i \in files'
                 /\ Doing(x, "create", Rows, {"link", "unlink", "values"})' =>
                      row'[i].state # "none"
                 /\ req'[x].step = "row" /\ req'[x].verb # "remove" /\ i \in Unindexed =>
                      \A j \in Peers(i) :
                        row'[j].state = "live" /\ row'[j].slug = req'[x].slug =>
                          {j, i} \cap overtaken' # {}
    BY DEF ChecksHold, Live, Exists
  <2>1. CASE x = r
    BY <1>1, <2>1 DEF Doing
  <2>2. CASE x # r
    <3>1. x \in InFlight /\ req'[x] = req[x]
      BY <1>1, <2>2
    <3>2. \A verb_, table, steps : Doing(x, verb_, table, steps)' <=> Doing(x, verb_, table, steps)
      BY <3>1 DEF Doing
    <3>3. /\ \A j : UsedByLive(j)' <=> UsedByLive(j)
          /\ row' = row /\ link' = link /\ files' = files /\ overtaken \subseteq overtaken'
      BY <1>1 DEF UsedByLive, Live
    <3> QED
      BY <1>0, <3>1, <3>2, <3>3 DEF ChecksHold, Live, Exists
  <2> QED
    BY <2>1, <2>2
<1>7. NothingInUseIsRemoved'
  BY <1>0, <1>1 DEF NothingInUseIsRemoved, UsedByLive, Live
<1>8. NoOrphans'
  BY <1>0, <1>1 DEF NoOrphans, Live
<1>9. SlugsDistinct'
  BY <1>0, <1>1 DEF SlugsDistinct, Live
<1> QED
  BY <1>2, <1>3, <1>4, <1>5, <1>6, <1>7, <1>8, <1>9 DEF CatalogInv
LEMMA ArriveStep ==
  ASSUME CatalogInv, NEW r \in Requests, Arrive(r)
  PROVE  CatalogInv'
<1>1. PICK id \in desk : Create(r, id) \/ Update(r, id) \/ Remove(r, id)
  BY DEF Arrive
<1>2. TypeOK /\ ProductsOK
  BY DEF CatalogInv
<1>3. \E verb, slug, refs, given :
        Ask(r, verb, id, slug, refs, given) /\ Proper(verb, id, slug, refs, given)
  BY <1>1, <1>2, CreateAsks, UpdateAsks, RemoveAsks
<1> QED
  BY <1>3, AskStep

LEMMA RefreshStep ==
  ASSUME CatalogInv, NEW table, Refresh(table)
  PROVE  CatalogInv'
<1>0. /\ TypeOK /\ RequestsOK /\ ReferencesOK /\ MeetingsOK /\ ProductsOK /\ IndexesOK
      /\ ChecksHold /\ NothingInUseIsRemoved /\ NoOrphans /\ SlugsDistinct
  BY DEF CatalogInv
<1>1. /\ UNCHANGED <<row, link, files, desk, req, overtaken>>
      /\ \A i \in screen' : i \in desk /\ (i \in screen \/ Live(i))
  BY <1>0 DEF Refresh, TypeOK
<1>2. TypeOK'
  BY <1>0, <1>1 DEF TypeOK, Exists
<1>3. RequestsOK' /\ ReferencesOK' /\ MeetingsOK'
  BY <1>0, <1>1 DEF RequestsOK, ReferencesOK, MeetingsOK, InFlight, Exists
<1>4. ProductsOK'
  <2>1. \A i \in screen' : row'[i].state # "none"
    BY <1>0, <1>1 DEF ProductsOK, Exists, Live
  <2> QED
    BY <1>0, <1>1, <2>1 DEF ProductsOK, InFlight, Doing, Exists
<1>5. IndexesOK' /\ NothingInUseIsRemoved' /\ NoOrphans' /\ SlugsDistinct'
  BY <1>0, <1>1 DEF IndexesOK, NothingInUseIsRemoved, NoOrphans, SlugsDistinct, UsedByLive, Live,
    Exists
<1>6. ChecksHold'
  BY <1>0, <1>1 DEF ChecksHold, InFlight, Doing, UsedByLive, Live, Exists
<1> QED
  BY <1>2, <1>3, <1>4, <1>5, <1>6 DEF CatalogInv

LEMMA NextStep ==
  ASSUME CatalogInv, [Next]_vars
  PROVE  CatalogInv'
<1>1. CASE List
  BY <1>1, RefreshStep DEF List, ListBrands, ListTags, ListAttributeSets, ListAttributes,
    ListVariations, ListTaxClasses, ListTaxRates, ListMedia, ListProducts
<1>2. ASSUME NEW r \in Requests, Step(r) \/ Stop(r)
      PROVE  CatalogInv'
  BY <1>2, StepMoves, MovesStep DEF CatalogInv
<1>3. CASE UNCHANGED vars
  BY <1>3 DEF vars, CatalogInv, TypeOK, RequestsOK, ReferencesOK, MeetingsOK, ProductsOK, IndexesOK,
    ChecksHold, NothingInUseIsRemoved, NoOrphans, SlugsDistinct, InFlight, Doing, UsedByLive, Live,
    Exists
<1> QED
  BY <1>1, <1>2, <1>3, ArriveStep DEF Next

\* The catalog an administrator may find.
LEMMA InitHolds ==
  ASSUME Init
  PROVE  CatalogInv
<1>1. PICK there \in SUBSET desk :
        /\ \A i \in there \cap DOMAIN Parent : Parent[i] \in there
        /\ \E slug \in [there \cap UNION Named -> Slugs],
              refs \in [there \cap Products ->
                          SUBSET (there \cap (Classifiers \cup Variations))] :
             /\ \A p \in DOMAIN refs : FormAllows(refs[p])
             /\ row = [i \in Rows |->
                  IF i \notin there THEN Absent
                  ELSE [state |-> "live",
                        slug |-> IF i \in DOMAIN slug THEN slug[i] ELSE None,
                        refs |-> IF i \in DOMAIN refs THEN refs[i] ELSE {}]]
             /\ \A i \in DOMAIN slug : SlugFree(i, slug[i])
  BY DEF Init
<1>2. PICK slug \in [there \cap UNION Named -> Slugs],
           refs \in [there \cap Products -> SUBSET (there \cap (Classifiers \cup Variations))] :
        /\ \A p \in DOMAIN refs : FormAllows(refs[p])
        /\ row = [i \in Rows |->
             IF i \notin there THEN Absent
             ELSE [state |-> "live",
                   slug |-> IF i \in DOMAIN slug THEN slug[i] ELSE None,
                   refs |-> IF i \in DOMAIN refs THEN refs[i] ELSE {}]]
        /\ \A i \in DOMAIN slug : SlugFree(i, slug[i])
  BY <1>1
<1>3. /\ desk \in Desks /\ link = {} /\ files = {m \in Media : Live(m)}
      /\ screen = {i \in Rows : Live(i)} /\ req = [r \in Requests |-> Free] /\ overtaken = {}
  BY DEF Init
<1>4. desk \subseteq Rows /\ there \subseteq Rows
  BY <1>3, BudgetAssumption
<1>5. \A i \in Rows :
        IF i \in there
        THEN /\ row[i].state = "live" /\ Live(i) /\ Exists(i)
             /\ row[i].slug = IF i \in UNION Named THEN slug[i] ELSE None
             /\ row[i].refs = IF i \in Products THEN refs[i] ELSE {}
        ELSE row[i] = Absent
  BY <1>2 DEF Live, Exists
<1>6. /\ Absent.state = "none" /\ Absent.slug = None /\ Absent.refs = {}
  BY DEF Absent
<1>7. \A i \in Rows :
        /\ Live(i) <=> i \in there
        /\ Exists(i) <=> i \in there
        /\ row[i].state # "removed"
  BY <1>5, <1>6 DEF Live, Exists
<1>8. InFlight = {}
  BY <1>3 DEF InFlight, Free
<1>9. \A p \in Products : /\ p \in Rows /\ row[p].refs \subseteq there
                          /\ row[p].refs \subseteq Classifiers \cup Variations
                          /\ Closed(row[p].refs)
  <2> SUFFICES ASSUME NEW p \in Products
               PROVE  /\ p \in Rows /\ row[p].refs \subseteq there
                      /\ row[p].refs \subseteq Classifiers \cup Variations
                      /\ Closed(row[p].refs)
    OBVIOUS
  <2>1. p \in Rows
    BY IsRow
  <2>2. CASE p \in there
    <3>1. row[p].refs = refs[p] /\ refs[p] \subseteq there \cap (Classifiers \cup Variations)
      BY <1>2, <1>5, <2>1, <2>2
    <3>2. FormAllows(refs[p])
      BY <1>2, <2>2
    <3> QED
      BY <2>1, <3>1, <3>2 DEF FormAllows, Closed
  <2>3. CASE p \notin there
    BY <1>5, <1>6, <2>1, <2>3 DEF Closed
  <2> QED
    BY <2>2, <2>3
<1>10. TypeOK
  <2>1. row \in [Rows -> RowType]
    <3>1. \A i \in there :
            [state |-> "live", slug |-> IF i \in DOMAIN slug THEN slug[i] ELSE None,
             refs |-> IF i \in DOMAIN refs THEN refs[i] ELSE {}] \in RowType
      BY <1>2, <1>4 DEF RowType
    <3>2. Absent \in RowType
      BY DEF Absent, RowType
    <3> QED
      BY <1>2, <3>1, <3>2
  <2>2. \A i \in Rows \ UNION Named : row[i].slug = None
    BY <1>5, <1>6
  <2>3. \A i \in Rows : row[i].refs \subseteq {j \in Rows : Exists(j)}
    BY <1>4, <1>5, <1>6, <1>7, <1>9
  <2>4. screen \subseteq desk /\ files \subseteq Media
    BY <1>1, <1>3, <1>7
  <2> QED
    BY <1>3, <2>1, <2>2, <2>3, <2>4 DEF TypeOK, RowType
<1>11. RequestsOK
  BY <1>3, <1>8 DEF RequestsOK
<1>12. ReferencesOK /\ MeetingsOK /\ ChecksHold
  BY <1>8 DEF ReferencesOK, MeetingsOK, ChecksHold
<1>13. ProductsOK
  BY <1>3, <1>5, <1>6, <1>7, <1>8, <1>9 DEF ProductsOK
<1>14. \A i \in UNION Named : \A j \in Peers(i) :
         Live(i) /\ Live(j) => row[i].slug # row[j].slug
  <2> SUFFICES ASSUME NEW i \in UNION Named, NEW j \in Peers(i), Live(i), Live(j)
               PROVE  row[i].slug # row[j].slug
    OBVIOUS
  <2>1. i \in Rows /\ j \in Rows
    BY IsNamed, IsRow, PeersAre
  <2>2. i \in there \cap UNION Named /\ row[i].slug = slug[i]
    BY <1>5, <1>7, <2>1
  <2>3. SlugFree(i, slug[i])
    BY <1>2, <2>2
  <2> QED
    BY <2>2, <2>3 DEF SlugFree
<1>15. IndexesOK /\ SlugsDistinct
  <2>1. \A i \in UNION Named : i \in Rows /\ \A j \in Peers(i) : j \in Rows
    BY IsNamed, IsRow, PeersAre
  <2> QED
    BY <1>7, <1>14, <2>1 DEF IndexesOK, SlugsDistinct
<1>16. NothingInUseIsRemoved
  BY <1>7 DEF NothingInUseIsRemoved
<1>17. NoOrphans
  <2>1. \A i \in DOMAIN Parent : Live(i) => Live(Parent[i])
    BY <1>1, <1>7, ParentRows
  <2>2. \A i \in Variants : i \in DOMAIN Parent
    BY IsChild
  <2> QED
    BY <1>3, <2>1, <2>2 DEF NoOrphans
<1> QED
  BY <1>10, <1>11, <1>12, <1>13, <1>15, <1>16, <1>17 DEF CatalogInv

-----------------------------------------------------------------------------
(* The theorems.  Checkouts and edits of coupons and prices leave the      *)
(* catalog alone.                                                          *)

LEMMA PricingLeavesCatalog ==
  [PricingNext]_<<vars, pricingVars>> => [Next]_vars
BY DEF PricingNext, Quote, ResolveLines, CalculateShipping, ValidateCoupon, FindByCode,
  CalculateTax, PlaceOrder, CreateCoupon, UpdateCoupon, RemoveCoupon, Tick, EditPrices, Edit, Leave

\* CatalogInv is an invariant.
THEOREM CatalogIsSound == PricingSpec => []CatalogInv
<1>1. PricingInit => CatalogInv
  BY InitHolds DEF PricingInit
<1>2. CatalogInv /\ [PricingNext]_<<vars, pricingVars>> => CatalogInv'
  BY NextStep, PricingLeavesCatalog
<1> QED
  BY <1>1, <1>2, PTL DEF PricingSpec
\* What in-use checks guard: nothing a product still uses, and no media shown somewhere, is
\* removed, except where requests met (the removal handlers of the catalog's services).
THEOREM NothingInUse == PricingSpec => []NothingInUseIsRemoved
<1>1. CatalogInv => NothingInUseIsRemoved
  BY DEF CatalogInv
<1> QED
  BY <1>1, CatalogIsSound, PTL

\* Whatever step a request stops at, no value, attribute, variant or media row is orphaned.
THEOREM NothingOrphaned == PricingSpec => []NoOrphans
<1>1. CatalogInv => NoOrphans
  BY DEF CatalogInv
<1> QED
  BY <1>1, CatalogIsSound, PTL

\* Slugs, uids, names and locations stay distinct: by the unique indexes where the schema has
\* them, and by the services' own checks elsewhere, unless two requests met.
THEOREM SlugsStayDistinct == PricingSpec => []SlugsDistinct
<1>1. CatalogInv => SlugsDistinct
  BY DEF CatalogInv
<1> QED
  BY <1>1, CatalogIsSound, PTL

\* Rows keep their type; in particular references and links lead to rows that were created.
THEOREM TypeCorrect == PricingSpec => []TypeOK
<1>1. CatalogInv => TypeOK
  BY DEF CatalogInv
<1> QED
  BY <1>1, CatalogIsSound, PTL

-----------------------------------------------------------------------------
(* The discount of a checkout: the second reading of a code finds the      *)
(* coupon the first one found, unless an edit of it came in between.       *)

LEMMA TermsType ==
  ASSUME NEW t \in Terms
  PROVE  t.type \in {"FIXED", "PERCENT"} /\ t.value \in Nat
BY PricingAssumption

\* A removed coupon, or one that was never there, is not on offer: an index over all coupons is
\* stronger than the check over those on offer.
LEMMA IndexIsStronger ==
  ASSUME NEW k \in Coupons, NEW code, IndexFree(k, code)
  PROVE  CodeFree(k, code)
BY DEF IndexFree, CodeFree, Offered

\* One coupon gets a new row; the others keep theirs.
LEMMA OneCouponChanges ==
  ASSUME CouponsOK, NEW k \in Coupons, NEW new,
         coupon' = [coupon EXCEPT ![k] = new],
         DOMAIN new = DOMAIN NoCoupon,
         new.state = "live" => new.terms \in Terms /\ CodeFree(k, new.code),
         edit'.verb \in {"create", "update"} => edit'.terms \in Terms
  PROVE  CouponsOK'
<1>1. DOMAIN coupon = Coupons /\ coupon'[k] = new
      /\ \A j \in Coupons \ {k} : coupon'[j] = coupon[j]
  BY DEF CouponsOK
<1>2. DOMAIN coupon' = Coupons
  BY <1>1
<1>3. ASSUME NEW j \in Coupons
      PROVE  DOMAIN coupon'[j] = DOMAIN NoCoupon
  BY <1>1 DEF CouponsOK
<1>4. ASSUME NEW j \in Coupons, coupon'[j].state = "live"
      PROVE  coupon'[j].terms \in Terms
             /\ \A h \in Coupons \ {j} : coupon'[h].state = "live" => coupon'[h].code # coupon'[j].code
  <2>1. CASE j = k
    BY <1>1, <1>4, <2>1 DEF CodeFree, Offered
  <2>2. CASE j # k
    <3>1. Offered(j) /\ coupon'[j] = coupon[j]
      BY <1>1, <1>4, <2>2 DEF Offered
    <3>2. \A h \in Coupons \ {j} : coupon'[h].state = "live" => coupon'[h].code # coupon'[j].code
      BY <1>1, <2>2, <3>1 DEF CodeFree, Offered, CouponsOK
    <3> QED
      BY <3>1, <3>2 DEF CouponsOK
  <2> QED
    BY <2>1, <2>2
<1> QED
  BY <1>2, <1>3, <1>4 DEF CouponsOK, CodeFree, Offered

LEMMA CouponsUnchanged ==
  ASSUME CouponsOK, coupon' = coupon,
         edit'.verb \in {"create", "update"} => edit'.terms \in Terms
  PROVE  CouponsOK'
BY DEF CouponsOK, Offered, CodeFree
LEMMA CouponsStep ==
  ASSUME CouponsOK, PricingNext
  PROVE  CouponsOK'
<1>1. ASSUME NEW k \in Coupons, CreateCoupon(k)
      PROVE  CouponsOK'
  <2>1. CASE coupon' = coupon
    <3>1. edit'.verb \in {"create", "update"} => edit'.terms \in Terms
      BY <1>1 DEF CreateCoupon, Edit, NoEdit, CouponsOK
    <3> QED
      BY <2>1, <3>1, CouponsUnchanged
  <2>2. CASE coupon' # coupon
    <3>1. edit.verb = "create" /\ IndexFree(k, edit.code) /\ edit' = NoEdit
          /\ coupon' = [coupon EXCEPT ![k] = [state |-> "live", code |-> edit.code,
                          terms |-> edit.terms, used |-> 0, active |-> TRUE, current |-> TRUE]]
      BY <1>1, <2>2 DEF CreateCoupon, Edit
    <3>2. edit.terms \in Terms /\ CodeFree(k, edit.code)
      BY <3>1, IndexIsStronger DEF CouponsOK
    <3>3. edit'.verb \notin {"create", "update"}
      BY <3>1 DEF NoEdit
    <3> DEFINE new == [state |-> "live", code |-> edit.code, terms |-> edit.terms, used |-> 0,
                       active |-> TRUE, current |-> TRUE]
    <3>4. DOMAIN new = DOMAIN NoCoupon /\ new.terms \in Terms /\ CodeFree(k, new.code)
      BY <3>2 DEF NoCoupon
    <3>5. coupon' = [coupon EXCEPT ![k] = new]
      BY <3>1
    <3> HIDE DEF new
    <3> QED
      BY <3>3, <3>4, <3>5, OneCouponChanges
  <2> QED
    BY <2>1, <2>2
<1>2. ASSUME NEW k \in Coupons, UpdateCoupon(k)
      PROVE  CouponsOK'
  <2>1. CASE coupon' = coupon
    <3>1. edit'.verb \in {"create", "update"} => edit'.terms \in Terms
      BY <1>2 DEF UpdateCoupon, Edit, NoEdit, CouponsOK
    <3> QED
      BY <2>1, <3>1, CouponsUnchanged
  <2>2. CASE coupon' # coupon
    <3>1. PICK active \in BOOLEAN :
            edit.verb = "update" /\ IndexFree(k, edit.code) /\ edit' = NoEdit
            /\ coupon' = [coupon EXCEPT ![k] = Edited(k, active)]
      BY <1>2, <2>2 DEF UpdateCoupon, Edit
    <3>2. edit.terms \in Terms /\ CodeFree(k, edit.code)
      BY <3>1, IndexIsStronger DEF CouponsOK
    <3>3. edit'.verb \notin {"create", "update"}
      BY <3>1 DEF NoEdit
    <3>4. DOMAIN coupon[k] = DOMAIN NoCoupon
      BY DEF CouponsOK
    <3>5. DOMAIN Edited(k, active) = DOMAIN NoCoupon
          /\ Edited(k, active).terms = edit.terms /\ Edited(k, active).code = edit.code
      BY <3>4 DEF Edited, NoCoupon
    <3> QED
      BY <3>1, <3>2, <3>3, <3>5, OneCouponChanges
  <2> QED
    BY <2>1, <2>2
<1>3. ASSUME NEW k \in Coupons, RemoveCoupon(k)
      PROVE  CouponsOK'
  <2>1. CASE coupon' = coupon
    <3>1. edit'.verb \in {"create", "update"} => edit'.terms \in Terms
      BY <1>3 DEF RemoveCoupon, Edit, NoEdit, CouponsOK
    <3> QED
      BY <2>1, <3>1, CouponsUnchanged
  <2>2. CASE coupon' # coupon
    <3> DEFINE new == [coupon[k] EXCEPT !.state = "removed"]
    <3>1. edit' = NoEdit /\ coupon' = [coupon EXCEPT ![k] = new]
      BY <1>3, <2>2 DEF RemoveCoupon, Edit
    <3>2. DOMAIN coupon[k] = DOMAIN NoCoupon
      BY DEF CouponsOK
    <3>3. DOMAIN new = DOMAIN NoCoupon /\ new.state # "live"
      BY <3>2 DEF NoCoupon
    <3>4. edit'.verb \notin {"create", "update"}
      BY <3>1 DEF NoEdit
    <3> HIDE DEF new
    <3> QED
      BY <3>1, <3>3, <3>4, OneCouponChanges
  <2> QED
    BY <2>1, <2>2
<1>4. ASSUME NEW k \in Coupons, Tick(k)
      PROVE  CouponsOK'
  <2> DEFINE new == [coupon[k] EXCEPT !.current = ~coupon[k].current]
  <2>1. Offered(k) /\ edit' = edit /\ coupon' = [coupon EXCEPT ![k] = new]
    BY <1>4 DEF Tick
  <2>2. DOMAIN coupon[k] = DOMAIN NoCoupon
    BY DEF CouponsOK
  <2>3. DOMAIN new = DOMAIN NoCoupon /\ new.terms = coupon[k].terms /\ new.code = coupon[k].code
    BY <2>2 DEF NoCoupon
  <2>4. new.terms \in Terms /\ CodeFree(k, new.code)
    BY <2>1, <2>3 DEF CouponsOK
  <2>5. edit'.verb \in {"create", "update"} => edit'.terms \in Terms
    BY <2>1 DEF CouponsOK
  <2> HIDE DEF new
  <2> QED
    BY <2>1, <2>3, <2>4, <2>5, OneCouponChanges
<1>5. ASSUME PlaceOrder
      PROVE  CouponsOK'
  <2>1. edit' = edit
    BY <1>5 DEF PlaceOrder
  <2>2. \A k \in Coupons : \/ coupon'[k] = coupon[k]
                           \/ coupon'[k] = [coupon[k] EXCEPT !.used = coupon[k].used + 1]
    BY <1>5 DEF PlaceOrder
  <2>3. DOMAIN coupon' = Coupons
    BY <1>5 DEF PlaceOrder
  <2>4. \A k \in Coupons : /\ DOMAIN coupon'[k] = DOMAIN NoCoupon
                           /\ coupon'[k].state = coupon[k].state
                           /\ coupon'[k].code = coupon[k].code
                           /\ coupon'[k].terms = coupon[k].terms
    BY <2>2 DEF CouponsOK, NoCoupon
  <2> QED
    BY <2>1, <2>3, <2>4 DEF CouponsOK, Offered, CodeFree
<1>6. CASE UNCHANGED <<coupon, edit>>
  BY <1>6, CouponsUnchanged DEF CouponsOK
<1>7. (Next /\ UNCHANGED pricingVars) => UNCHANGED <<coupon, edit>>
  BY DEF pricingVars
<1>8. Quote \/ ResolveLines \/ CalculateShipping \/ ValidateCoupon \/ FindByCode \/ CalculateTax
        => UNCHANGED <<coupon, edit>>
  BY DEF Quote, ResolveLines, CalculateShipping, ValidateCoupon, FindByCode, CalculateTax, Leave
<1>9. \A p \in Products : EditPrices(p) => UNCHANGED <<coupon, edit>>
  BY DEF EditPrices
<1> QED
  BY <1>1, <1>2, <1>3, <1>4, <1>5, <1>6, <1>7, <1>8, <1>9 DEF PricingNext
\* What FindByCode finds is the coupon that was validated, if it was not edited since.
LEMMA SecondReading ==
  ASSUME CouponsOK, QuoteOK, FindByCode
  PROVE  QuoteOK'
<1> DEFINE found == {k \in Coupons : Offered(k) /\ coupon[k].code = quote.code}
<1>1. CASE found = {}
  <2>1. quote' = [quote EXCEPT !.step = "refused"]
    BY <1>1 DEF FindByCode
  <2> QED
    BY <2>1 DEF QuoteOK, NoQuote
<1>2. CASE found # {}
  <2> DEFINE k == CHOOSE k \in found : TRUE
             snap == [id |-> k, type |-> coupon[k].terms.type, value |-> coupon[k].terms.value]
  <2>1. k \in found
    BY <1>2
  <2>2. quote' = [quote EXCEPT !.snapshot = snap, !.discount = AtMost(quote.discount, quote.sub),
                               !.step = "tax"]
    BY <1>2 DEF FindByCode
  <2>3. \A j \in found : j = k
    BY <2>1 DEF CouponsOK, CodeFree
  <2> HIDE DEF k
  <2>4. k \in Coupons /\ coupon[k].terms \in Terms
    BY <2>1 DEF CouponsOK
  <2>5. snap \in [id : Coupons, type : {"FIXED", "PERCENT"}, value : Nat]
    BY <2>4, TermsType
  <2>6. snap # None
    BY <2>5, NoneIsNoSnapshot
  <2>7. DiscountOf(snap, quote.sub) = DiscountOf(coupon[k].terms, quote.sub)
    BY DEF DiscountOf
  <2>8. ~quote.overtaken => quote.discount = DiscountOf(snap, quote.sub)
    <3>1. QuoteAt("details")
      BY DEF FindByCode
    <3>2. ~quote.overtaken => \E j \in found : quote.discount = DiscountOf(coupon[j].terms, quote.sub)
      BY <3>1 DEF QuoteOK, QuoteAt
    <3> HIDE DEF found, snap
    <3> QED
      BY <2>3, <2>7, <3>2
  <2> HIDE DEF snap
  <2>9. /\ DOMAIN quote' = DOMAIN NoQuote /\ quote'.step = "tax" /\ quote'.snapshot = snap
        /\ quote'.overtaken = quote.overtaken /\ quote'.sub = quote.sub
        /\ quote'.discount = AtMost(quote.discount, quote.sub)
    BY <2>2 DEF QuoteOK, NoQuote
  <2> QED
    BY <2>6, <2>8, <2>9 DEF QuoteOK
<1> QED
  BY <1>1, <1>2

\* A coupon that changes while a quote is between its readings overtakes it.
LEMMA EditsOvertake ==
  ASSUME CouponsOK, QuoteOK, NEW k \in Coupons, quote' = Overtaken(k),
         \A j \in Coupons \ {k} : coupon'[j] = coupon[j]
  PROVE  QuoteOK'
<1>1. /\ DOMAIN quote' = DOMAIN NoQuote
      /\ quote'.step = quote.step /\ quote'.discount = quote.discount
      /\ quote'.waived = quote.waived /\ quote'.snapshot = quote.snapshot
      /\ quote'.code = quote.code /\ quote'.sub = quote.sub /\ quote'.counted = quote.counted
      /\ quote'.overtaken = (quote.overtaken \/ (quote.step = "details" /\ quote.code = coupon'[k].code)
                                             \/ (quote.step = "details" /\ quote.code = coupon[k].code))
  BY DEF Overtaken, QuoteOK, NoQuote
<1>2. ASSUME quote'.step = "details", ~quote'.overtaken
      PROVE  \E j \in Coupons : /\ coupon'[j].state = "live" /\ coupon'[j].code = quote'.code
                                /\ quote'.discount = DiscountOf(coupon'[j].terms, quote'.sub)
  <2>1. PICK j \in Coupons : /\ Offered(j) /\ coupon[j].code = quote.code
                             /\ quote.discount = DiscountOf(coupon[j].terms, quote.sub)
    BY <1>1, <1>2 DEF QuoteOK
  <2>2. j # k
    BY <1>1, <1>2, <2>1
  <2> QED
    BY <1>1, <2>1, <2>2 DEF Offered
<1>3. ~quote'.overtaken => ~quote.overtaken
  BY <1>1
<1> QED
  BY <1>1, <1>2, <1>3 DEF QuoteOK, Offered

LEMMA QuoteStep ==
  ASSUME CouponsOK, QuoteOK, PricingNext
  PROVE  QuoteOK'
<1>1. CASE Quote
  <2>1. PICK cart, rule, code :
          quote' = [NoQuote EXCEPT !.step = "price", !.cart = cart, !.rule = rule, !.code = code]
    BY <1>1 DEF Quote
  <2> QED
    BY <2>1 DEF QuoteOK, NoQuote
<1>2. CASE ResolveLines
  <2>1. QuoteAt("price")
    BY <1>2 DEF ResolveLines
  <2>2. CASE quote' = [quote EXCEPT !.step = "refused"]
    BY <2>2 DEF QuoteOK, NoQuote
  <2>3. CASE \E lines, sub : quote' = [quote EXCEPT !.lines = lines, !.sub = sub, !.step = "shipping"]
    BY <2>1, <2>3 DEF QuoteOK, NoQuote, QuoteAt
  <2> QED
    BY <1>2, <2>2, <2>3 DEF ResolveLines
<1>3. CASE CalculateShipping
  <2>1. QuoteAt("shipping")
        /\ \E cost : quote' = [quote EXCEPT !.shipping = cost,
                                !.step = IF quote.code = None THEN "tax" ELSE "validate"]
    BY <1>3 DEF CalculateShipping
  <2> QED
    BY <2>1 DEF QuoteOK, NoQuote, QuoteAt
<1>4. CASE ValidateCoupon
  <2> DEFINE found == {k \in Coupons : Offered(k) /\ coupon[k].code = quote.code
                                  /\ Validates(coupon[k], quote.sub, quote.cart)}
             k == CHOOSE k \in found : TRUE
             discount == DiscountOf(coupon[k].terms, quote.sub)
  <2>1. QuoteAt("validate")
    BY <1>4 DEF ValidateCoupon
  <2>2. CASE found # {} /\ quote' = [quote EXCEPT !.discount = discount,
                                       !.waived = coupon[k].terms.free, !.step = "details"]
    <3>1. k \in found
      BY <2>2
    <3>2. Offered(k) /\ coupon[k].code = quote.code /\ k \in Coupons
      BY <3>1
    <3>3. coupon' = coupon
      BY <1>4 DEF ValidateCoupon, Leave
    <3> HIDE DEF k
    <3>4. /\ DOMAIN quote' = DOMAIN NoQuote /\ quote'.step = "details"
          /\ quote'.code = quote.code /\ quote'.sub = quote.sub
          /\ quote'.discount = DiscountOf(coupon[k].terms, quote.sub)
      BY <2>2 DEF QuoteOK, NoQuote
    <3>5. /\ k \in Coupons /\ coupon'[k].state = "live" /\ coupon'[k].code = quote'.code
          /\ quote'.discount = DiscountOf(coupon'[k].terms, quote'.sub)
      BY <3>2, <3>3, <3>4 DEF Offered
    <3> QED
      BY <3>4, <3>5 DEF QuoteOK, Offered
  <2>3. CASE quote' = [quote EXCEPT !.step = "tax"]
    BY <2>1, <2>3 DEF QuoteOK, NoQuote, QuoteAt
  <2>4. \/ found # {} /\ quote' = [quote EXCEPT !.discount = discount,
                                     !.waived = coupon[k].terms.free, !.step = "details"]
        \/ quote' = [quote EXCEPT !.step = "tax"]
    BY <1>4 DEF ValidateCoupon
  <2> QED
    BY <2>2, <2>3, <2>4
<1>5. CASE FindByCode
  BY <1>5, SecondReading
<1>6. CASE CalculateTax
  <2>1. QuoteAt("tax")
        /\ \E tax, full, total :
             quote' = [quote EXCEPT !.tax = tax, !.taxFull = full, !.total = total, !.step = "place"]
    BY <1>6 DEF CalculateTax
  <2> QED
    BY <2>1 DEF QuoteOK, NoQuote, QuoteAt
<1>7. CASE PlaceOrder
  <2>1. QuoteAt("place")
        /\ quote' = [quote EXCEPT !.step = "placed",
                       !.counted = IF quote.snapshot = None THEN None ELSE quote.snapshot.id]
    BY <1>7 DEF PlaceOrder
  <2> QED
    BY <2>1 DEF QuoteOK, NoQuote, QuoteAt
<1>8. ASSUME NEW k \in Coupons, CreateCoupon(k) \/ UpdateCoupon(k) \/ RemoveCoupon(k)
      PROVE  QuoteOK'
  <2>1. CASE UNCHANGED <<quote, coupon>>
    BY <2>1 DEF QuoteOK, Offered
  <2>2. CASE quote' = Overtaken(k)
    <3>1. \A j \in Coupons \ {k} : coupon'[j] = coupon[j]
      BY <1>8, <2>2 DEF CreateCoupon, UpdateCoupon, RemoveCoupon, Edit, CouponsOK
    <3> QED
      BY <2>2, <3>1, EditsOvertake
  <2> QED
    BY <1>8, <2>1, <2>2 DEF CreateCoupon, UpdateCoupon, RemoveCoupon, Edit
<1>9. ASSUME NEW k \in Coupons, Tick(k)
      PROVE  QuoteOK'
  <2>1. quote' = quote /\ coupon' = [coupon EXCEPT ![k].current = ~coupon[k].current]
    BY <1>9 DEF Tick
  <2>2. \A j \in Coupons : /\ coupon'[j].state = coupon[j].state
                           /\ coupon'[j].code = coupon[j].code
                           /\ coupon'[j].terms = coupon[j].terms
    BY <2>1 DEF CouponsOK, NoCoupon
  <2> QED
    BY <2>1, <2>2 DEF QuoteOK, Offered
<1>10. CASE UNCHANGED <<quote, coupon>>
  BY <1>10 DEF QuoteOK, Offered
<1>11. (Next /\ UNCHANGED pricingVars) => UNCHANGED <<quote, coupon>>
  BY DEF pricingVars
<1>12. \A p \in Products : EditPrices(p) => UNCHANGED <<quote, coupon>>
  BY DEF EditPrices
<1> QED
  BY <1>1, <1>2, <1>3, <1>4, <1>5, <1>6, <1>7, <1>8, <1>9, <1>10, <1>11, <1>12 DEF PricingNext

\* What a quote has taken off is explained by a coupon at each of its steps, and no two coupons
\* on offer share a code.
THEOREM QuotesExplained == PricingSpec => [](CouponsOK /\ QuoteOK)
<1>1. PricingInit => CouponsOK /\ QuoteOK
  <2>1. ASSUME PricingInit
        PROVE  CouponsOK
    <3>1. PICK code \in [Coupons -> Codes \cup {None}], terms \in [Coupons -> Terms] :
            /\ \A j, k \in Coupons : j # k /\ code[j] # None => code[j] # code[k]
            /\ coupon = [k \in Coupons |->
                 IF code[k] = None \/ desk \notin PricingDesks THEN NoCoupon
                 ELSE [state |-> "live", code |-> code[k], terms |-> terms[k], used |-> 0,
                       active |-> TRUE, current |-> TRUE]]
      BY <2>1 DEF PricingInit
    <3>2. \A k \in Coupons : /\ DOMAIN coupon[k] = DOMAIN NoCoupon
                             /\ Offered(k) => /\ coupon[k].terms = terms[k]
                                              /\ coupon[k].code = code[k] /\ code[k] # None
      BY <3>1 DEF NoCoupon, Offered
    <3>3. edit.verb \notin {"create", "update"}
      BY <2>1 DEF PricingInit, NoEdit
    <3> QED
      BY <3>1, <3>2, <3>3 DEF CouponsOK, CodeFree
  <2>2. PricingInit => QuoteOK
    BY DEF PricingInit, QuoteOK, NoQuote
  <2> QED
    BY <2>1, <2>2
<1>2. CouponsOK /\ QuoteOK /\ [PricingNext]_<<vars, pricingVars>> => (CouponsOK /\ QuoteOK)'
  <2>1. UNCHANGED <<vars, pricingVars>> => (CouponsOK /\ QuoteOK => (CouponsOK /\ QuoteOK)')
    BY DEF pricingVars, CouponsOK, QuoteOK, Offered, CodeFree
  <2> QED
    BY <2>1, CouponsStep, QuoteStep
<1> QED
  BY <1>1, <1>2, PTL DEF PricingSpec

\* An order that takes a discount off remembers a coupon that explains it and counts as a use of
\* it, unless that coupon was edited between the two readings (calculate).
THEOREM DiscountAccountedFor == PricingSpec => []DiscountIsAccountedFor
<1>1. QuoteOK => DiscountIsAccountedFor
  BY DEF QuoteOK, DiscountIsAccountedFor
<1> QED
  BY <1>1, QuotesExplained, PTL
LEMMA ProductsGrow ==
  ASSUME NEW u \in Nat, NEW a \in Int, NEW b \in Int, a <= b
  PROVE  u * a \in Int /\ u * b \in Int /\ u * a <= u * b
<1>1. u * (b - a) >= 0
  OBVIOUS
<1>2. u * (b - a) = u * b - u * a
  OBVIOUS
<1> QED
  BY <1>1, <1>2

\* Dividing by a positive number keeps the order.
LEMMA QuotientsGrow ==
  ASSUME NEW a \in Int, NEW b \in Int, a <= b, NEW d \in Nat, d > 0
  PROVE  a \div d \in Int /\ b \div d \in Int /\ a \div d <= b \div d
<1> DEFINE q == a \div d
           r == b \div d
<1>1. /\ q \in Int /\ r \in Int
      /\ q * d <= a /\ b < (r + 1) * d
  OBVIOUS
<1> HIDE DEF q, r
<1> SUFFICES ASSUME ~(q <= r) PROVE FALSE
  BY <1>1 DEF q, r
<1>2. r + 1 <= q
  BY <1>1
<1>3. d * (r + 1) <= d * q
  BY <1>1, <1>2, ProductsGrow
<1>4. d * (r + 1) = (r + 1) * d /\ d * q = q * d
  BY <1>1
<1> QED
  BY <1>1, <1>3, <1>4

LEMMA QuotientsNatural ==
  ASSUME NEW a \in Nat, NEW d \in Nat, d > 0
  PROVE  a \div d \in Nat
<1>1. 0 \div d <= a \div d /\ a \div d \in Int
  BY QuotientsGrow
<1>2. 0 \div d = 0
  OBVIOUS
<1> QED
  BY <1>1, <1>2

\* The rates of a class add up to a number that is not negative.
LEMMA RatesNatural ==
  ASSUME NEW class
  PROVE  RateOf(class) \in Nat
<1> DEFINE S == MatchingRates(class)
<1>1. S \subseteq TaxRates
  BY DEF MatchingRates
<1>2. IsFiniteSet(S)
  BY <1>1, FiniteTables, FS_Subset
<1>3. \A x \in S : RateValue[x] \in Nat
  BY <1>1, PricingAssumption
<1> HIDE DEF S
<1>4. SumFunctionOnSet(RateValue, S) \in Nat
  BY <1>2, <1>3, SumNatural
<1> QED
  BY <1>4 DEF RateOf, S

\* What is charged on a line grows with the part of it that is taxed.
LEMMA LineTaxGrows ==
  ASSUME NEW unit \in Nat, NEW rate \in Nat, NEW sub \in Nat, sub > 0,
         NEW part \in Nat, NEW whole \in Nat, part <= whole
  PROVE  /\ (unit * part * rate) \div (sub * 100) \in Nat
         /\ (unit * whole * rate) \div (sub * 100) \in Nat
         /\ (unit * part * rate) \div (sub * 100) <= (unit * whole * rate) \div (sub * 100)
<1> DEFINE a == unit * part * rate
           b == unit * whole * rate
           d == sub * 100
<1>1. d \in Nat /\ d > 0
  OBVIOUS
<1>2. a \in Nat /\ b \in Nat
  <2>1. unit * part \in Nat /\ unit * whole \in Nat
    OBVIOUS
  <2> QED
    BY <2>1
<1>3. a <= b
  <2> DEFINE up == unit * part
             uw == unit * whole
  <2>1. up \in Nat /\ uw \in Nat /\ up <= uw
    BY ProductsGrow
  <2> HIDE DEF up, uw
  <2>2. rate * up <= rate * uw
    BY <2>1, ProductsGrow
  <2>3. rate * up = up * rate /\ rate * uw = uw * rate
    BY <2>1
  <2> QED
    BY <2>2, <2>3 DEF up, uw
<1> HIDE DEF a, b, d
<1>4. a \div d \in Nat /\ b \div d \in Nat /\ a \div d <= b \div d
  BY <1>1, <1>2, <1>3, QuotientsGrow, QuotientsNatural
<1> QED
  BY <1>4 DEF a, b, d

\* Taxing a part of what is taxed in full costs no more, and never less than nothing.
LEMMA TaxGrows ==
  ASSUME NEW lines, IsFiniteSet(DOMAIN lines), \A p \in DOMAIN lines : lines[p].unit \in Nat,
         NEW sub \in Nat, NEW part \in Int, part <= sub
  PROVE  /\ TaxOn(lines, sub, part) \in Nat /\ TaxOn(lines, sub, sub) \in Nat
         /\ TaxOn(lines, sub, part) <= TaxOn(lines, sub, sub)
<1> DEFINE on(t) == [p \in DOMAIN lines |->
                       (lines[p].unit * t * RateOf(lines[p].class)) \div (sub * 100)]
           D == DOMAIN lines
           f == on(part)
           g == on(sub)
<1>1. CASE sub > 0 /\ part > 0
  <2>1. \A p \in D : f[p] \in Nat /\ g[p] \in Nat /\ f[p] <= g[p]
    <3> TAKE p \in D
    <3> DEFINE u == lines[p].unit
               w == RateOf(lines[p].class)
    <3>1. u \in Nat /\ w \in Nat /\ part \in Nat
      BY <1>1, RatesNatural
    <3>2. f[p] = (u * part * w) \div (sub * 100) /\ g[p] = (u * sub * w) \div (sub * 100)
      OBVIOUS
    <3> HIDE DEF u, w, f, g
    <3> QED
      BY <1>1, <3>1, <3>2, LineTaxGrows
  <2>2. TaxOn(lines, sub, part) = SumFunctionOnSet(f, D)
    BY <1>1 DEF TaxOn
  <2>3. TaxOn(lines, sub, sub) = SumFunctionOnSet(g, D)
    BY <1>1 DEF TaxOn
  <2> HIDE DEF f, g, D
  <2>4. IsFiniteSet(D)
    BY DEF D
  <2>5. SumFunctionOnSet(f, D) \in Nat /\ SumFunctionOnSet(g, D) \in Nat
    BY <2>1, <2>4, SumNatural
  <2>6. SumFunctionOnSet(f, D) <= SumFunctionOnSet(g, D)
    BY <2>1, <2>4, SumMonotone
  <2> QED
    BY <2>2, <2>3, <2>5, <2>6
<1>2. CASE sub > 0 /\ ~(part > 0)
  <2>1. TaxOn(lines, sub, part) = 0
    BY <1>2 DEF TaxOn
  <2>2. TaxOn(lines, sub, sub) = SumFunctionOnSet(g, D)
    BY <1>2 DEF TaxOn
  <2>3. \A p \in D : g[p] \in Nat
    <3> TAKE p \in D
    <3> DEFINE u == lines[p].unit
               w == RateOf(lines[p].class)
    <3>1. u \in Nat /\ w \in Nat
      BY RatesNatural
    <3>2. g[p] = (u * sub * w) \div (sub * 100)
      OBVIOUS
    <3> HIDE DEF u, w, g
    <3> QED
      BY <1>2, <3>1, <3>2, LineTaxGrows
  <2> HIDE DEF g, D
  <2>4. IsFiniteSet(D)
    BY DEF D
  <2>5. SumFunctionOnSet(g, D) \in Nat
    BY <2>3, <2>4, SumNatural
  <2> QED
    BY <2>1, <2>2, <2>5
<1>3. CASE ~(sub > 0)
  BY <1>3 DEF TaxOn
<1> QED
  BY <1>1, <1>2, <1>3

LEMMA PriceType ==
  ASSUME NEW p \in Prices, NEW inWindow \in BOOLEAN
  PROVE  EffectivePrice(p, inWindow) \in Int
<1>1. p.base \in Nat /\ p.special \in Nat
  BY PricingAssumption
<1> DEFINE b == p.base
           s == p.special
<1>2. b - (b * s) \div 100 \in Int
  <2> HIDE DEF b, s
  <2>0. b \in Nat /\ s \in Nat
    BY <1>1 DEF b, s
  <2>1. b * s \in Int
    BY <2>0
  <2> DEFINE m == b * s
  <2> HIDE DEF m
  <2>2. m \in Int
    BY <2>1 DEF m
  <2>3. b - m \div 100 \in Int
    BY <2>0, <2>2
  <2> QED
    BY <2>3 DEF m
<1> QED
  BY <1>1, <1>2 DEF EffectivePrice

LEMMA ShippingType ==
  ASSUME NEW rule \in ShippingRules, NEW sub
  PROVE  ShippingCost(rule, sub) \in Nat
BY PricingAssumption DEF ShippingCost

LEMMA DiscountType ==
  ASSUME NEW terms \in Terms, NEW sub \in Int
  PROVE  /\ DiscountOf(terms, sub) \in Int
         /\ sub >= 0 => DiscountOf(terms, sub) >= 0
<1> DEFINE v == terms.value
<1>1. v \in Nat
  BY PricingAssumption
<1>2. (sub * v) \div 100 \in Int /\ (sub >= 0 => (sub * v) \div 100 >= 0)
  <2> HIDE DEF v
  <2> DEFINE m == sub * v
  <2>1. m \in Int /\ (sub >= 0 => m \in Nat)
    BY <1>1
  <2> HIDE DEF m
  <2>2. m \div 100 \in Int /\ (m \in Nat => m \div 100 \in Nat)
    BY <2>1, QuotientsNatural
  <2> QED
    BY <2>1, <2>2 DEF m
<1> QED
  BY <1>1, <1>2 DEF DiscountOf

\* What is left to pay after a discount, taxed, is no more than the whole, taxed.
LEMMA TotalGrows ==
  ASSUME NEW sub \in Nat, NEW discount \in Nat, NEW cost \in Nat, NEW shipping \in {0, cost},
         NEW tax \in Nat, NEW full \in Nat, tax <= full
  PROVE  TotalOf(sub, discount, shipping, tax) <= sub + cost + full
BY DEF TotalOf, AtLeast

-----------------------------------------------------------------------------
(* A coupon never costs more. *)

LEMMA DeskStays ==
  ASSUME CatalogInv, [Next]_vars
  PROVE  desk' = desk
<1>1. CASE List
  BY <1>1 DEF List, ListBrands, ListTags, ListAttributeSets, ListAttributes, ListVariations,
    ListTaxClasses, ListTaxRates, ListMedia, ListProducts, Refresh
<1>2. ASSUME NEW r \in Requests, Step(r) \/ Stop(r)
      PROVE  desk' = desk
  <2>1. Effects(r)
    BY <1>2, StepMoves, EffectsOf DEF CatalogInv
  <2> QED
    BY <2>1 DEF Effects
<1>3. ASSUME NEW r \in Requests, Arrive(r)
      PROVE  desk' = desk
  <2>1. PICK id \in desk : Create(r, id) \/ Update(r, id) \/ Remove(r, id)
    BY <1>3 DEF Arrive
  <2>2. \E verb, slug, refs, given : Ask(r, verb, id, slug, refs, given)
    BY <2>1, CreateAsks, UpdateAsks, RemoveAsks DEF CatalogInv
  <2> QED
    BY <2>2 DEF Ask
<1> QED
  BY <1>1, <1>2, <1>3 DEF Next, vars

LEMMA PricesStep ==
  ASSUME CatalogInv, PricesOK, [PricingNext]_<<vars, pricingVars>>
  PROVE  PricesOK'
<1>1. desk' = desk
  BY PricingLeavesCatalog, DeskStays
<1>2. CASE UNCHANGED price
  BY <1>1, <1>2 DEF PricesOK
<1>3. ASSUME NEW p \in Products, EditPrices(p)
      PROVE  PricesOK'
  <2>1. PICK new \in Prices : price' = [price EXCEPT ![p] = new]
    BY <1>3 DEF EditPrices
  <2> QED
    BY <1>1, <2>1 DEF PricesOK
<1>4. UNCHANGED price \/ \E p \in Products : EditPrices(p)
  BY DEF PricingNext, pricingVars, Quote, ResolveLines, CalculateShipping, ValidateCoupon,
    FindByCode, CalculateTax, PlaceOrder, CreateCoupon, UpdateCoupon, RemoveCoupon, Tick, Edit, Leave
<1> QED
  BY <1>2, <1>3, <1>4

\* A step that leaves the cart, the lines and the amounts leaves what they come to.
LEMMA AmountsUnchanged ==
  ASSUME AmountsOK, desk' = desk, quote'.step = quote.step, quote'.cart = quote.cart,
         quote'.lines = quote.lines, quote'.rule = quote.rule, quote'.sub = quote.sub,
         quote'.shipping = quote.shipping, quote'.discount = quote.discount,
         quote'.total = quote.total, quote'.taxFull = quote.taxFull
  PROVE  AmountsOK'
BY DEF AmountsOK, NoNegativeUnit

LEMMA LinesResolved ==
  ASSUME QuoteOK, PricesOK, AmountsOK, desk' = desk, ResolveLines
  PROVE  AmountsOK'
<1>1. CASE quote' = [quote EXCEPT !.step = "refused"]
  <2>1. /\ quote'.step = "refused" /\ quote'.cart = quote.cart /\ quote'.rule = quote.rule
        /\ quote.step = "price"
    BY <1>1 DEF QuoteOK, NoQuote, ResolveLines, QuoteAt
  <2> QED
    BY <2>1 DEF AmountsOK
<1>2. CASE \A p \in quote.cart : Live(p)
  <2> DEFINE cart == quote.cart
             class(p) == IF row[p].refs \cap TaxClasses = {} THEN None
                         ELSE CHOOSE c \in row[p].refs \cap TaxClasses : TRUE
             unit(w) == [p \in cart |-> EffectivePrice(price[p], w)]
  <2>1. PICK w \in BOOLEAN :
          quote' = [quote EXCEPT
            !.lines = [p \in cart |-> [unit |-> unit(w)[p], class |-> class(p)]],
            !.sub = SumFunctionOnSet(unit(w), cart), !.step = "shipping"]
    BY <1>2 DEF ResolveLines
  <2>2. quote.step = "price" /\ cart \subseteq desk \cap Products /\ quote.rule \in ShippingRules
        /\ desk \in PricingDesks
    BY DEF ResolveLines, QuoteAt, AmountsOK
  <2> DEFINE u == unit(w)
             lines == [p \in cart |-> [unit |-> u[p], class |-> class(p)]]
             sum == SumFunctionOnSet(u, cart)
  <2>3. \A p \in cart : u[p] \in Int
    BY <2>2, PriceType DEF PricesOK
  <2>4. IsFiniteSet(cart)
    BY <2>2, FiniteTables, FS_Subset
  <2>5. DOMAIN lines = cart /\ \A p \in cart : lines[p].unit = u[p]
    OBVIOUS
  <2> HIDE DEF u
  <2>6. sum \in Int
    BY <2>3, <2>4, SumType
  <2>7. (\A p \in cart : u[p] \in Nat) => sum \in Nat
    BY <2>4, SumNatural
  <2>8. (\A p \in cart : u[p] >= 0) => sum >= 0
    BY <2>3, <2>7
  <2>9. /\ quote'.step = "shipping" /\ quote'.cart = cart /\ quote'.rule = quote.rule
        /\ quote'.lines = lines /\ quote'.sub = sum /\ quote'.discount = 0
    BY <2>1, <2>2 DEF QuoteOK, NoQuote, u
  <2> HIDE DEF sum, lines
  <2> QED
    BY <2>2, <2>3, <2>5, <2>6, <2>8, <2>9 DEF AmountsOK, NoNegativeUnit
<1> QED
  BY <1>1, <1>2 DEF ResolveLines

LEMMA ShippingCalculated ==
  ASSUME QuoteOK, AmountsOK, desk' = desk, CalculateShipping
  PROVE  AmountsOK'
<1>1. /\ quote.step = "shipping" /\ quote'.step \in {"tax", "validate"}
      /\ quote'.cart = quote.cart /\ quote'.lines = quote.lines /\ quote'.rule = quote.rule
      /\ quote'.sub = quote.sub /\ quote'.discount = quote.discount
      /\ quote'.shipping = ShippingCost(quote.rule, quote.sub)
  BY DEF CalculateShipping, QuoteAt, QuoteOK, NoQuote
<1> QED
  BY <1>1 DEF AmountsOK, NoNegativeUnit

LEMMA CouponValidated ==
  ASSUME CouponsOK, QuoteOK, AmountsOK, desk' = desk, ValidateCoupon
  PROVE  AmountsOK'
<1> DEFINE found == {k \in Coupons : Offered(k) /\ coupon[k].code = quote.code
                                /\ Validates(coupon[k], quote.sub, quote.cart)}
           k == CHOOSE k \in found : TRUE
<1>1. CASE found # {} /\ quote' = [quote EXCEPT !.discount = DiscountOf(coupon[k].terms, quote.sub),
                                     !.waived = coupon[k].terms.free, !.step = "details"]
  <2>1. k \in found
    BY <1>1
  <2>2. coupon[k].terms \in Terms
    BY <2>1 DEF CouponsOK
  <2> HIDE DEF k
  <2> DEFINE discount == DiscountOf(coupon[k].terms, quote.sub)
  <2>3. quote.step = "validate" /\ quote.sub \in Int
    BY DEF ValidateCoupon, QuoteAt, AmountsOK
  <2>4. discount \in Int /\ (quote.sub >= 0 => discount >= 0)
    BY <2>2, <2>3, DiscountType
  <2>5. /\ quote'.step = "details"
        /\ quote'.cart = quote.cart /\ quote'.lines = quote.lines /\ quote'.rule = quote.rule
        /\ quote'.sub = quote.sub /\ quote'.discount = discount /\ quote'.shipping = quote.shipping
    BY <1>1 DEF QuoteOK, NoQuote
  <2> HIDE DEF discount
  <2> QED
    BY <2>3, <2>4, <2>5 DEF AmountsOK, NoNegativeUnit
<1>2. CASE quote' = [quote EXCEPT !.step = "tax"]
  <2>1. /\ quote.step = "validate" /\ quote'.step = "tax"
        /\ quote'.cart = quote.cart /\ quote'.lines = quote.lines /\ quote'.rule = quote.rule
        /\ quote'.sub = quote.sub /\ quote'.discount = quote.discount
        /\ quote'.shipping = quote.shipping
    BY <1>2 DEF ValidateCoupon, QuoteAt, QuoteOK, NoQuote
  <2> QED
    BY <2>1 DEF AmountsOK, NoNegativeUnit
<1>3. \/ found # {} /\ quote' = [quote EXCEPT !.discount = DiscountOf(coupon[k].terms, quote.sub),
                                   !.waived = coupon[k].terms.free, !.step = "details"]
      \/ quote' = [quote EXCEPT !.step = "tax"]
  BY DEF ValidateCoupon
<1> QED
  BY <1>1, <1>2, <1>3

LEMMA SecondReadingCaps ==
  ASSUME QuoteOK, AmountsOK, desk' = desk, FindByCode
  PROVE  AmountsOK'
<1>0. quote.step = "details" /\ quote.sub \in Int /\ quote.discount \in Int
  BY DEF FindByCode, QuoteAt, AmountsOK
<1>1. CASE quote' = [quote EXCEPT !.step = "refused"]
  <2>1. quote'.step = "refused" /\ quote'.cart = quote.cart /\ quote'.rule = quote.rule
    BY <1>1 DEF QuoteOK, NoQuote
  <2> QED
    BY <1>0, <2>1 DEF AmountsOK
<1>2. CASE \E snap : quote' = [quote EXCEPT !.snapshot = snap,
                                !.discount = AtMost(quote.discount, quote.sub), !.step = "tax"]
  <2> DEFINE least == AtMost(quote.discount, quote.sub)
  <2>1. /\ quote'.step = "tax"
        /\ quote'.cart = quote.cart /\ quote'.lines = quote.lines /\ quote'.rule = quote.rule
        /\ quote'.sub = quote.sub /\ quote'.discount = least /\ quote'.shipping = quote.shipping
    BY <1>2 DEF QuoteOK, NoQuote
  <2>2. /\ least \in Int /\ least <= quote.sub
        /\ quote.sub >= 0 /\ quote.discount >= 0 => least >= 0
    BY <1>0 DEF AtMost
  <2> HIDE DEF least
  <2> QED
    BY <1>0, <2>1, <2>2 DEF AmountsOK, NoNegativeUnit
<1> QED
  BY <1>1, <1>2 DEF FindByCode

LEMMA TaxCalculated ==
  ASSUME QuoteOK, AmountsOK, desk' = desk, CalculateTax
  PROVE  AmountsOK'
<1> DEFINE sub == quote.sub
           lines == quote.lines
           discount == quote.discount
           cost == ShippingCost(quote.rule, sub)
           part == TaxOn(lines, sub, sub - discount)
           full == TaxOn(lines, sub, sub)
           shipping == IF quote.waived THEN 0 ELSE quote.shipping
           total == TotalOf(sub, discount, shipping, part)
<1>1. quote.step = "tax"
  BY DEF CalculateTax, QuoteAt
<1>2. /\ quote'.step = "place"
      /\ quote'.cart = quote.cart /\ quote'.lines = quote.lines /\ quote'.rule = quote.rule
      /\ quote'.sub = sub /\ quote'.discount = discount
      /\ quote'.taxFull = full /\ quote'.total = total
  BY DEF CalculateTax, QuoteOK, NoQuote
<1>3. ASSUME NoNegativeUnit
      PROVE  total <= sub + cost + full
  <2>1. sub \in Nat /\ discount \in Nat /\ discount <= sub
    BY <1>1, <1>3 DEF AmountsOK
  <2>2. cost \in Nat /\ shipping \in {0, cost}
    BY <1>1, ShippingType DEF AmountsOK
  <2>3. DOMAIN lines = quote.cart /\ quote.cart \subseteq Products
        /\ \A p \in quote.cart : lines[p].unit \in Int
    BY <1>1 DEF AmountsOK
  <2>4. IsFiniteSet(DOMAIN lines) /\ \A p \in DOMAIN lines : lines[p].unit \in Nat
    BY <1>3, <2>3, FiniteTables, FS_Subset DEF NoNegativeUnit
  <2> HIDE DEF sub, lines, discount, cost, shipping
  <2>5. sub - discount \in Int /\ sub - discount <= sub
    BY <2>1
  <2>6. part \in Nat /\ full \in Nat /\ part <= full
    BY <2>1, <2>4, <2>5, TaxGrows
  <2> HIDE DEF part, full
  <2> QED
    BY <2>1, <2>2, <2>6, TotalGrows
<1> HIDE DEF total, full
<1> QED
  BY <1>1, <1>2, <1>3 DEF AmountsOK, NoNegativeUnit

LEMMA AmountsStep ==
  ASSUME CatalogInv, CouponsOK, QuoteOK, PricesOK, AmountsOK, PricingNext
  PROVE  AmountsOK'
<1>0. desk' = desk
  BY PricingLeavesCatalog, DeskStays
<1>1. CASE Quote
  <2>1. PICK cart \in (SUBSET (desk \cap Products)) \ {{}}, rule \in ShippingRules,
           code \in Codes \cup {None} :
          quote' = [NoQuote EXCEPT !.step = "price", !.cart = cart, !.rule = rule, !.code = code]
    BY <1>1 DEF Quote
  <2>2. quote'.step = "price" /\ quote'.cart = cart /\ quote'.rule = rule
    BY <2>1 DEF NoQuote
  <2>3. desk \in PricingDesks
    BY <1>1, <2>2 DEF PricingNext, pricingVars, Quote, QuoteAt
  <2> QED
    BY <1>0, <2>2, <2>3 DEF AmountsOK
<1>2. CASE PlaceOrder
  <2>1. /\ quote.step = "place" /\ quote'.step = "placed"
        /\ quote'.cart = quote.cart /\ quote'.lines = quote.lines /\ quote'.rule = quote.rule
        /\ quote'.sub = quote.sub /\ quote'.discount = quote.discount
        /\ quote'.total = quote.total /\ quote'.taxFull = quote.taxFull
    BY <1>2 DEF PlaceOrder, QuoteAt, QuoteOK, NoQuote
  <2> QED
    BY <1>0, <2>1 DEF AmountsOK, NoNegativeUnit
<1>3. ASSUME NEW k \in Coupons, quote' = Overtaken(k)
      PROVE  AmountsOK'
  <2>1. /\ quote'.step = quote.step /\ quote'.cart = quote.cart /\ quote'.lines = quote.lines
        /\ quote'.rule = quote.rule /\ quote'.sub = quote.sub /\ quote'.shipping = quote.shipping
        /\ quote'.discount = quote.discount /\ quote'.total = quote.total
        /\ quote'.taxFull = quote.taxFull
    BY <1>3 DEF Overtaken, QuoteOK, NoQuote
  <2> QED
    BY <1>0, <2>1, AmountsUnchanged
<1>4. CASE quote' = quote
  BY <1>0, <1>4, AmountsUnchanged
<1>5. \A k \in Coupons : CreateCoupon(k) \/ UpdateCoupon(k) \/ RemoveCoupon(k) \/ Tick(k)
        => quote' = quote \/ quote' = Overtaken(k)
  BY DEF CreateCoupon, UpdateCoupon, RemoveCoupon, Tick, Edit
<1>6. /\ (Next /\ UNCHANGED pricingVars) => quote' = quote
      /\ \A p \in Products : EditPrices(p) => quote' = quote
  BY DEF pricingVars, EditPrices
<1> QED
  BY <1>0, <1>1, <1>2, <1>3, <1>4, <1>5, <1>6, LinesResolved, ShippingCalculated, CouponValidated,
    SecondReadingCaps, TaxCalculated DEF PricingNext

\* The order a customer places with a coupon costs no more than the same order without it would
\* (calculate), whatever the prices, rates, rules and coupons are and however they are edited.
THEOREM CouponsNeverCostMore == PricingSpec => []CouponNeverCostsMore
<1>1. PricingInit => PricesOK /\ AmountsOK
  BY DEF PricingInit, PricesOK, AmountsOK, NoQuote
<1>2. CatalogInv /\ CouponsOK /\ QuoteOK /\ PricesOK /\ AmountsOK
        /\ [PricingNext]_<<vars, pricingVars>> => (PricesOK /\ AmountsOK)'
  <2>1. ASSUME AmountsOK, UNCHANGED <<vars, pricingVars>>
        PROVE  AmountsOK'
    BY <2>1 DEF vars, pricingVars, AmountsOK, NoNegativeUnit
  <2> QED
    BY <2>1, PricesStep, AmountsStep
<1>3. AmountsOK => CouponNeverCostsMore
  BY DEF AmountsOK, CouponNeverCostsMore, NoNegativeUnit
<1> QED
  BY <1>1, <1>2, <1>3, CatalogIsSound, QuotesExplained, PTL DEF PricingSpec
=============================================================================
