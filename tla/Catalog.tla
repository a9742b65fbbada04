------------------------------ MODULE Catalog ------------------------------
(***************************************************************************)
(* The catalog as its administrators edit it: brands, tags, attribute sets *)
(* with their attributes and values, variations with their values, tax     *)
(* classes with their rates, products with their variants, and the media   *)
(* library.  Rows are only ever marked as removed.  A request reads, then  *)
(* writes in one or more steps of their own; requests overlap, and each may*)
(* stop between two steps (a crash, or a statement that fails).            *)
(* The reads a handler makes before its first write are one step: each of  *)
(* them can only refuse the request.  Counters (viewed, referenceCount),   *)
(* positions, labels and prices are left out.                              *)
(***************************************************************************)
EXTENDS Naturals, FiniteSets

CONSTANTS
  Brands, Tags, AttributeSets, Attributes, AttributeValues, Variations,
  VariationValues, TaxClasses, TaxRates, Products, Variants, Media,
  Parent,     \* the set of an attribute, the product of a variant, ...
  Slugs,      \* slugs, uids, and names or locations that must not repeat
  None,       \* no slug
  Desks,      \* sets of rows the administrators may be working on
  Requests,
  Overlap,    \* how many requests run at once
  Budget      \* how many requests a desk makes

VARIABLES
  row,        \* the rows: state, slug, and the rows they refer to
  link,       \* entity_media: <<brand, product or variant, media>>
  files,      \* the media whose files are in the store
  desk,       \* the rows being worked on
  screen,     \* the rows the administrators' pages show, as they were listed
  req,        \* the requests
  overtaken   \* rows on which a request met another one, or a row that was
              \* already removed: the checks say nothing about these

vars == <<row, link, files, desk, screen, req, overtaken>>

Rows == UNION {Brands, Tags, AttributeSets, Attributes, AttributeValues, Variations,
               VariationValues, TaxClasses, TaxRates, Products, Variants, Media}

\* The rows of different tables are different rows.
ASSUME TablesAssumption ==
  /\ Brands \cap Tags = {}
  /\ (Brands \cup Tags) \cap AttributeSets = {}
  /\ (Brands \cup Tags \cup AttributeSets) \cap Attributes = {}
  /\ (Brands \cup Tags \cup AttributeSets \cup Attributes) \cap AttributeValues = {}
  /\ (Brands \cup Tags \cup AttributeSets \cup Attributes \cup AttributeValues) \cap
        Variations = {}
  /\ (Brands \cup Tags \cup AttributeSets \cup Attributes \cup AttributeValues \cup
        Variations) \cap VariationValues = {}
  /\ (Brands \cup Tags \cup AttributeSets \cup Attributes \cup AttributeValues \cup
        Variations \cup VariationValues) \cap TaxClasses = {}
  /\ (Brands \cup Tags \cup AttributeSets \cup Attributes \cup AttributeValues \cup
        Variations \cup VariationValues \cup TaxClasses) \cap TaxRates = {}
  /\ (Brands \cup Tags \cup AttributeSets \cup Attributes \cup AttributeValues \cup
        Variations \cup VariationValues \cup TaxClasses \cup TaxRates) \cap Products = {}
  /\ (Brands \cup Tags \cup AttributeSets \cup Attributes \cup AttributeValues \cup
        Variations \cup VariationValues \cup TaxClasses \cup TaxRates \cup Products) \cap
        Variants = {}
  /\ (Brands \cup Tags \cup AttributeSets \cup Attributes \cup AttributeValues \cup
        Variations \cup VariationValues \cup TaxClasses \cup TaxRates \cup Products \cup
        Variants) \cap Media = {}

\* The foreign keys.
ASSUME ParentAssumption ==
  /\ DOMAIN Parent = UNION {Attributes, AttributeValues, VariationValues, TaxRates, Variants}
  /\ \A i \in Attributes : Parent[i] \in AttributeSets
  /\ \A i \in AttributeValues : Parent[i] \in Attributes
  /\ \A i \in VariationValues : Parent[i] \in Variations
  /\ \A i \in TaxRates : Parent[i] \in TaxClasses
  /\ \A i \in Variants : Parent[i] \in Products
ASSUME BudgetAssumption == Desks \subseteq SUBSET Rows /\ Budget \in [Desks -> Nat]
ASSUME NoneIsNoSlug == None \notin Slugs

\* A table with a slug, a uid or a name that its service keeps distinct.
Named == {Brands, Tags, AttributeSets, Attributes, Variations, TaxClasses, TaxRates, Products}
\* Those without a unique index in the schema.
Unindexed == Attributes \cup TaxClasses \cup TaxRates

Absent == [state |-> "none", slug |-> None, refs |-> {}]
Free == [verb |-> "none", id |-> None, slug |-> None, refs |-> {}, given |-> {},
         old |-> {}, step |-> "free"]
Over == [Free EXCEPT !.step = "done"]

Live(i) == row[i].state = "live"
Exists(i) == row[i].state # "none"
Children(i) == {c \in DOMAIN Parent : Parent[c] = i}

\* The rows among which the slug of i must be the only one of its kind: its
\* table, within one set or one tax class for attributes and rates.
Peers(i) ==
  {j \in UNION {T \in Named : i \in T} :
     /\ j # i
     /\ i \in Attributes \cup TaxRates => Parent[j] = Parent[i]}

\* What the services look up: another row that is not removed has the slug.
SlugFree(i, slug) == \A j \in Peers(i) : Live(j) => row[j].slug # slug

\* What the database enforces: its unique indexes cover removed rows as well.
IndexAllows(i, slug) ==
  slug = None \/ i \in Unindexed \/ \A j \in Peers(i) : Exists(j) => row[j].slug # slug

-----------------------------------------------------------------------------
(* Requests.                                                               *)

InFlight == {r \in Requests : req[r].step \notin {"free", "done"}}

At(r, verb, table, step) ==
  req[r].verb = verb /\ req[r].id \in table /\ req[r].step = step

\* The rows a request reads or writes.
Touched(id, refs) ==
  {id} \cup refs \cup Children(id) \cup (IF id \in Unindexed THEN Peers(id) ELSE {})
       \cup (IF id \in DOMAIN Parent THEN {Parent[id]} ELSE {})

Ask(r, verb, id, slug, refs, given) ==
  /\ req[r].step = "free" /\ Cardinality(InFlight) < Overlap
  /\ Cardinality({q \in Requests : req[q].step # "free"}) < Budget[desk]
  /\ req' = [req EXCEPT ![r] = [verb |-> verb, id |-> id, slug |-> slug, refs |-> refs,
                                given |-> given, old |-> {}, step |-> "check"]]
  /\ overtaken' = overtaken \cup
       (Touched(id, refs) \cap
          ((UNION {Touched(req[q].id, req[q].refs) : q \in InFlight})
             \cup {i \in refs : row[i].state = "removed"}))
  /\ UNCHANGED <<row, link, files, desk, screen>>

Advanced(r, slug, old, next) == [req[r] EXCEPT !.slug = slug, !.old = old, !.step = next]

GoesOn(r, next) ==
  req' = [req EXCEPT ![r] = IF next = "done" THEN Over
                            ELSE Advanced(r, req[r].slug, req[r].old, next)]

\* A handler goes on to its next step, or refuses the request.
Gate(r, ok, next) ==
  /\ GoesOn(r, IF ok THEN next ELSE "done")
  /\ UNCHANGED <<row, link, files, desk, screen, overtaken>>

\* A statement that writes rows, unless a unique index refuses it.
Write(r, rows, next) ==
  LET allowed == IndexAllows(req[r].id, rows[req[r].id].slug) IN
  /\ row' = IF allowed THEN [i \in Rows |-> IF i \in DOMAIN rows THEN rows[i] ELSE row[i]]
            ELSE row
  /\ GoesOn(r, IF allowed THEN next ELSE "done")
  /\ UNCHANGED <<link, files, desk, screen, overtaken>>

Relink(r, links, next) ==
  /\ link' = links
  /\ GoesOn(r, next)
  /\ UNCHANGED <<row, files, desk, screen, overtaken>>

New(r, refs) == [i \in {req[r].id} |-> [state |-> "live", slug |-> req[r].slug, refs |-> refs]]
Renamed(r) == [i \in {req[r].id} |-> [row[i] EXCEPT !.slug = req[r].slug]]

\* updateMany of the children that are not yet removed
ChildrenRemoved(r) ==
  [i \in {req[r].id} \cup Children(req[r].id) |->
     IF i # req[r].id /\ Live(i) THEN [row[i] EXCEPT !.state = "removed"] ELSE row[i]]

\* A row that comes with the row of another table.
Begun(i) == [row[i] EXCEPT !.state = "live"]

SoftDelete(r) == [i \in {req[r].id} |-> [row[i] EXCEPT !.state = "removed"]]

\* Whether a product refers to i: any product, or only those not removed.
UsedByLive(i) == \E p \in Products : Live(p) /\ i \in row[p].refs
UsedByAny(i) == \E p \in Products : Exists(p) /\ i \in row[p].refs

\* What a generated slug looks like: any that no row still there has.
Generate(r, next) ==
  \E slug \in Slugs :
    /\ SlugFree(req[r].id, slug)
    /\ req' = [req EXCEPT ![r] = Advanced(r, slug, req[r].old, next)]
    /\ UNCHANGED <<row, link, files, desk, screen, overtaken>>

\* The process stops, or a statement fails: nothing after this step happens.
Stop(r) ==
  /\ r \in InFlight
  /\ Gate(r, FALSE, "done")

-----------------------------------------------------------------------------
(* Brands.                                                                 *)

\* The logo is linked before the brand is there.
CreateBrandLinkFirst(r) ==
  \/ /\ At(r, "create", Brands, "check")
     /\ Gate(r, SlugFree(req[r].id, req[r].slug) /\ \A m \in req[r].refs : Live(m), "link")
  \/ /\ At(r, "create", Brands, "link")
     /\ Relink(r, link \cup ({req[r].id} \X req[r].refs), "row")
  \/ At(r, "create", Brands, "row") /\ Write(r, New(r, req[r].refs), "done")

CreateBrand(r) ==
  \/ /\ At(r, "create", Brands, "check")
     /\ Gate(r, SlugFree(req[r].id, req[r].slug) /\ \A m \in req[r].refs : Live(m), "row")
  \/ /\ At(r, "create", Brands, "row")
     /\ Write(r, New(r, req[r].refs), IF req[r].refs = {} THEN "done" ELSE "link")
  \/ /\ At(r, "create", Brands, "link")
     /\ Relink(r, link \cup ({req[r].id} \X req[r].refs), "done")

\* The new logo is checked only when it differs from the one that was read.
UpdateBrand(r) ==
  LET id == req[r].id
      logo == IF req[r].given = {} THEN row[id].refs ELSE req[r].refs IN
  \/ /\ At(r, "update", Brands, "check")
     /\ IF /\ Live(id) /\ SlugFree(id, req[r].slug)
           /\ \A m \in req[r].refs : m \in row[id].refs \/ Live(m)
        THEN /\ req' = [req EXCEPT ![r] = Advanced(r, req[r].slug, row[id].refs, "row")]
             /\ UNCHANGED <<row, link, files, desk, screen, overtaken>>
        ELSE Gate(r, FALSE, "done")
  \/ /\ At(r, "update", Brands, "row")
     /\ Write(r, [i \in {id} |-> [row[i] EXCEPT !.slug = req[r].slug, !.refs = logo]],
              IF req[r].refs \in {{}, req[r].old} THEN "done"
              ELSE IF req[r].old = {} THEN "link" ELSE "unlink")
  \/ /\ At(r, "update", Brands, "unlink")
     /\ Relink(r, {l \in link : l[1] # id}, "link")
  \/ /\ At(r, "update", Brands, "link")
     /\ Relink(r, link \cup ({id} \X req[r].refs), "done")

RemoveBrand(r) ==
  LET id == req[r].id IN
  \/ /\ At(r, "remove", Brands, "check")
     /\ IF Live(id) /\ ~UsedByLive(id)
        THEN /\ req' = [req EXCEPT ![r] = Advanced(r, req[r].slug, row[id].refs, "row")]
             /\ UNCHANGED <<row, link, files, desk, screen, overtaken>>
        ELSE Gate(r, FALSE, "done")
  \/ /\ At(r, "remove", Brands, "row")
     /\ Write(r, SoftDelete(r), IF req[r].old = {} THEN "done" ELSE "unlink")
  \/ /\ At(r, "remove", Brands, "unlink")
     /\ Relink(r, {l \in link : l[1] # id}, "done")

-----------------------------------------------------------------------------
(* Tags.                                                                   *)

CreateTag(r) ==
  \/ At(r, "create", Tags, "check") /\ Gate(r, SlugFree(req[r].id, req[r].slug), "row")
  \/ At(r, "create", Tags, "row") /\ Write(r, New(r, {}), "done")

UpdateTag(r) ==
  \/ /\ At(r, "update", Tags, "check")
     /\ Gate(r, Live(req[r].id) /\ SlugFree(req[r].id, req[r].slug), "row")
  \/ At(r, "update", Tags, "row") /\ Write(r, Renamed(r), "done")

\* Unlike brands, a tag is kept for the sake of removed products too.
RemoveTag(r) ==
  \/ /\ At(r, "remove", Tags, "check")
     /\ Gate(r, Live(req[r].id) /\ ~UsedByAny(req[r].id), "row")
  \/ At(r, "remove", Tags, "row") /\ Write(r, SoftDelete(r), "done")

-----------------------------------------------------------------------------
(* Attribute sets, attributes and their values.                            *)

CreateAttributeSet(r) ==
  \/ /\ At(r, "create", AttributeSets, "check")
     /\ Gate(r, SlugFree(req[r].id, req[r].slug), "row")
  \/ At(r, "create", AttributeSets, "row") /\ Write(r, New(r, {}), "done")

UpdateAttributeSet(r) ==
  \/ /\ At(r, "update", AttributeSets, "check")
     /\ Gate(r, Live(req[r].id) /\ SlugFree(req[r].id, req[r].slug), "row")
  \/ At(r, "update", AttributeSets, "row") /\ Write(r, Renamed(r), "done")

RemoveAttributeSet(r) ==
  \/ /\ At(r, "remove", AttributeSets, "check")
     /\ Gate(r, Live(req[r].id) /\ ~\E a \in Children(req[r].id) : Live(a), "row")
  \/ At(r, "remove", AttributeSets, "row") /\ Write(r, SoftDelete(r), "done")

CreateAttribute(r) ==
  \/ /\ At(r, "create", Attributes, "check")
     /\ Gate(r, Live(Parent[req[r].id]) /\ SlugFree(req[r].id, req[r].slug), "row")
  \/ At(r, "create", Attributes, "row") /\ Write(r, New(r, {}), "done")

UpdateAttribute(r) ==
  \/ /\ At(r, "update", Attributes, "check")
     /\ Gate(r, Live(req[r].id) /\ SlugFree(req[r].id, req[r].slug), "row")
  \/ At(r, "update", Attributes, "row") /\ Write(r, Renamed(r), "done")

\* The values are removed before anyone asks whether they are in use.
RemoveAttributeCheckedLate(r) ==
  \/ At(r, "remove", Attributes, "check") /\ Gate(r, Live(req[r].id), "children")
  \/ At(r, "remove", Attributes, "children") /\ Write(r, ChildrenRemoved(r), "usage")
  \/ At(r, "remove", Attributes, "usage") /\ Gate(r, ~UsedByAny(req[r].id), "row")
  \/ At(r, "remove", Attributes, "row") /\ Write(r, SoftDelete(r), "done")

\* The values go first, so that a stop in between leaves no value without its
\* attribute.
RemoveAttribute(r) ==
  \/ /\ At(r, "remove", Attributes, "check")
     /\ Gate(r, Live(req[r].id) /\ ~UsedByAny(req[r].id), "children")
  \/ At(r, "remove", Attributes, "children") /\ Write(r, ChildrenRemoved(r), "row")
  \/ At(r, "remove", Attributes, "row") /\ Write(r, SoftDelete(r), "done")

AddAttributeValue(r) ==
  \/ At(r, "create", AttributeValues, "check") /\ Gate(r, Live(Parent[req[r].id]), "row")
  \/ At(r, "create", AttributeValues, "row") /\ Write(r, New(r, {}), "done")

DeleteAttributeValue(r) ==
  \/ /\ At(r, "remove", AttributeValues, "check")
     /\ Gate(r, Live(Parent[req[r].id]) /\ Live(req[r].id) /\ ~UsedByAny(req[r].id), "row")
  \/ At(r, "remove", AttributeValues, "row") /\ Write(r, SoftDelete(r), "done")

-----------------------------------------------------------------------------
(* Variations and their values.                                            *)

\* The inline values come one statement at a time, after their variation.
CreateVariation(r) ==
  \/ At(r, "create", Variations, "check") /\ Generate(r, "row")
  \/ At(r, "create", Variations, "row") /\ Write(r, New(r, {}), "values")
  \/ /\ At(r, "create", Variations, "values")
     /\ \/ \E v \in req[r].refs \cap Children(req[r].id) :
             /\ row[v].state = "none"
             /\ row' = [row EXCEPT ![v] = Begun(v)]
             /\ UNCHANGED <<link, files, desk, screen, req, overtaken>>
        \/ /\ \A v \in req[r].refs : Exists(v)
           /\ Gate(r, FALSE, "done")

\* A new name brings a new uid.
UpdateVariation(r) ==
  \/ At(r, "update", Variations, "check") /\ ~Live(req[r].id) /\ Gate(r, FALSE, "done")
  \/ At(r, "update", Variations, "check") /\ Live(req[r].id) /\ Generate(r, "row")
  \/ At(r, "update", Variations, "row") /\ Write(r, Renamed(r), "done")

RemoveVariation(r) ==
  \/ /\ At(r, "remove", Variations, "check")
     /\ Gate(r, Live(req[r].id) /\ ~UsedByAny(req[r].id), "children")
  \/ At(r, "remove", Variations, "children") /\ Write(r, ChildrenRemoved(r), "row")
  \/ At(r, "remove", Variations, "row") /\ Write(r, SoftDelete(r), "done")

AddVariationValue(r) ==
  \/ At(r, "create", VariationValues, "check") /\ Gate(r, Live(Parent[req[r].id]), "row")
  \/ At(r, "create", VariationValues, "row") /\ Write(r, New(r, {}), "done")

\* Nobody asks whether a variant is made of the value.
RemoveVariationValue(r) ==
  \/ At(r, "remove", VariationValues, "check") /\ Gate(r, Live(req[r].id), "row")
  \/ At(r, "remove", VariationValues, "row") /\ Write(r, SoftDelete(r), "done")

-----------------------------------------------------------------------------
(* Tax classes and their rates.                                            *)

CreateTaxClass(r) ==
  \/ At(r, "create", TaxClasses, "check") /\ Gate(r, SlugFree(req[r].id, req[r].slug), "row")
  \/ At(r, "create", TaxClasses, "row") /\ Write(r, New(r, {}), "done")

UpdateTaxClass(r) ==
  \/ /\ At(r, "update", TaxClasses, "check")
     /\ Gate(r, Live(req[r].id) /\ SlugFree(req[r].id, req[r].slug), "row")
  \/ At(r, "update", TaxClasses, "row") /\ Write(r, Renamed(r), "done")

\* The rates of the class stay behind.
RemoveTaxClass(r) ==
  \/ /\ At(r, "remove", TaxClasses, "check")
     /\ Gate(r, Live(req[r].id) /\ ~UsedByLive(req[r].id), "row")
  \/ At(r, "remove", TaxClasses, "row") /\ Write(r, SoftDelete(r), "done")

CreateTaxRate(r) ==
  \/ /\ At(r, "create", TaxRates, "check")
     /\ Gate(r, Live(Parent[req[r].id]) /\ SlugFree(req[r].id, req[r].slug), "row")
  \/ At(r, "create", TaxRates, "row") /\ Write(r, New(r, {}), "done")

\* A rate may be moved to the location of another one.
UpdateTaxRateUnchecked(r) ==
  \/ At(r, "update", TaxRates, "check") /\ Gate(r, Live(req[r].id), "row")
  \/ At(r, "update", TaxRates, "row") /\ Write(r, Renamed(r), "done")

UpdateTaxRate(r) ==
  \/ /\ At(r, "update", TaxRates, "check")
     /\ Gate(r, Live(req[r].id) /\ SlugFree(req[r].id, req[r].slug), "row")
  \/ At(r, "update", TaxRates, "row") /\ Write(r, Renamed(r), "done")

RemoveTaxRate(r) ==
  \/ At(r, "remove", TaxRates, "check") /\ Gate(r, Live(req[r].id), "row")
  \/ At(r, "remove", TaxRates, "row") /\ Write(r, SoftDelete(r), "done")

-----------------------------------------------------------------------------
(* The media library.                                                      *)

\* The files are written first, then the row that names them.
UploadMedia(r) ==
  \/ At(r, "create", Media, "check") /\ Gate(r, TRUE, "files")
  \/ /\ At(r, "create", Media, "files")
     /\ files' = files \cup {req[r].id}
     /\ GoesOn(r, "row")
     /\ UNCHANGED <<row, link, desk, screen, overtaken>>
  \/ At(r, "create", Media, "row") /\ Write(r, New(r, {}), "done")

\* The links are counted, not the reference count; the files stay.
DeleteMedia(r) ==
  \/ /\ At(r, "remove", Media, "check")
     /\ Gate(r, Live(req[r].id) /\ ~\E l \in link : l[2] = req[r].id, "row")
  \/ At(r, "remove", Media, "row") /\ Write(r, SoftDelete(r), "done")

\* linkMediaToEntity: all of the media, or none if one has been removed.
LinkMediaToEntity(r, entity, media) ==
  Relink(r, IF \A m \in media : Live(m) THEN link \cup ({entity} \X media) ELSE link, "done")

\* updateEntityMedia: the links become those of the given media, live or not.
UpdateEntityMedia(r, entity, media) ==
  Relink(r, {l \in link : l[1] # entity} \cup ({entity} \X media), "done")

-----------------------------------------------------------------------------
(* Products.                                                               *)

\* What the product row and its junction rows refer to, and the rows that come
\* into being with it: its variants, and the variations made for it, with values.
\* (A row's stock columns are OrderStock's: CreatedRow, EditProduct, EditStock.)
References(refs) == refs \ UNION {Media, Variants, VariationValues}
Born(refs) == {i \in refs : row[i].state = "none"}

\* Each of these variations gets a uid that no variation still there has.
Uids(refs) ==
  {uid \in [Born(refs) \cap Variations -> Slugs] :
     \A v \in DOMAIN uid : /\ SlugFree(v, uid[v])
                          /\ \A w \in DOMAIN uid \ {v} : uid[w] # uid[v]}
Made(i, uid) == IF i \in DOMAIN uid THEN [Begun(i) EXCEPT !.slug = uid[i]] ELSE Begun(i)

\* Nothing the product refers to is looked at.  All of it is one transaction,
\* except the gallery of a product without variants.
CreateProduct(r) ==
  LET id == req[r].id
      refs == req[r].refs
      variants == refs \cap Variants IN
  \/ At(r, "create", Products, "check") /\ Generate(r, "row")
  \/ /\ At(r, "create", Products, "row")
     /\ \E uid \in Uids(refs) :
        LET rows == [i \in {id} \cup Born(refs) |->
                       IF i = id THEN [state |-> "live", slug |-> req[r].slug,
                                       refs |-> References(refs)]
                       ELSE Made(i, uid)]
            ok == IndexAllows(id, req[r].slug) /\ \A v \in DOMAIN uid : IndexAllows(v, uid[v]) IN
        /\ row' = IF ok THEN [i \in Rows |-> IF i \in DOMAIN rows THEN rows[i] ELSE row[i]]
                  ELSE row
        /\ link' = IF ok THEN link \cup (variants \X (refs \cap Media)) ELSE link
        /\ GoesOn(r, IF ok /\ variants = {} /\ refs \cap Media # {} THEN "link" ELSE "done")
        /\ UNCHANGED <<files, desk, screen, overtaken>>
  \/ At(r, "create", Products, "link") /\ LinkMediaToEntity(r, id, refs \cap Media)

\* Only the kinds of references the request gives are replaced; the stock columns
\* that the same statement writes are in OrderStock's EditProduct.
UpdateProduct(r) ==
  LET id == req[r].id IN
  \/ At(r, "update", Products, "check") /\ Gate(r, Live(id), "row")
  \/ /\ At(r, "update", Products, "row")
     /\ Write(r, [i \in {id} |->
                    [row[i] EXCEPT !.refs = (@ \ req[r].given) \cup References(req[r].refs)]],
              IF req[r].given \cap Media = {} THEN "done" ELSE "link")
  \/ At(r, "update", Products, "link") /\ UpdateEntityMedia(r, id, req[r].refs \cap Media)

\* The product goes before its variants.
RemoveProductTopDown(r) ==
  \/ At(r, "remove", Products, "check") /\ Gate(r, Live(req[r].id), "row")
  \/ At(r, "remove", Products, "row") /\ Write(r, SoftDelete(r), "children")
  \/ At(r, "remove", Products, "children") /\ Write(r, ChildrenRemoved(r), "done")

\* The variants go first.
RemoveProduct(r) ==
  \/ At(r, "remove", Products, "check") /\ Gate(r, Live(req[r].id), "children")
  \/ At(r, "remove", Products, "children") /\ Write(r, ChildrenRemoved(r), "row")
  \/ At(r, "remove", Products, "row") /\ Write(r, SoftDelete(r), "done")

\* A variant is edited on its own; of that, its gallery is kept here, its prices in
\* Pricing's EditPrices, its stock columns in OrderStock's EditStock.
UpdateVariant(r) ==
  \/ At(r, "update", Variants, "check") /\ Gate(r, Live(req[r].id), "row")
  \/ /\ At(r, "update", Variants, "row")
     /\ Write(r, [i \in {req[r].id} |-> row[i]],
              IF req[r].given = {} THEN "done" ELSE "link")
  \/ /\ At(r, "update", Variants, "link")
     /\ UpdateEntityMedia(r, req[r].id, req[r].refs)

-----------------------------------------------------------------------------
(* Listings: findAll, findOne, findBySlug and their like leave out what is *)
(* removed.  A page keeps what it was given until it is listed again.      *)

Refresh(table) ==
  LET shown == {i \in table \cap desk : Live(i)} IN
  /\ screen \cap table # shown
  /\ screen' = (screen \ table) \cup shown
  /\ UNCHANGED <<row, link, files, desk, req, overtaken>>

ListBrands == Refresh(Brands)
ListTags == Refresh(Tags)
ListAttributeSets == Refresh(AttributeSets)
ListAttributes == Refresh(Attributes \cup AttributeValues)
ListVariations == Refresh(Variations \cup VariationValues)
ListTaxClasses == Refresh(TaxClasses)
ListTaxRates == Refresh(TaxRates)
ListMedia == Refresh(Media)
ListProducts == Refresh(Products \cup Variants)

-----------------------------------------------------------------------------
(* What an administrator may ask for.                                      *)

\* The form of a product offers one brand, one tax class, and the values of
\* the attributes that are chosen; what it offers is on the screen.
FormAllows(refs) ==
  /\ Cardinality(refs \cap Brands) <= 1 /\ Cardinality(refs \cap TaxClasses) <= 1
  /\ \A v \in refs \cap (AttributeValues \cup VariationValues) : Parent[v] \in refs

\* A row that is not there, nor on its way.
Unclaimed(i) == ~Exists(i) /\ \A q \in Requests : i \notin {req[q].id} \cup req[q].refs

\* New rows a product may bring: its variants, and a variation of its own with values.
Brings(id) ==
  {i \in desk : /\ Unclaimed(i)
                /\ \/ i \in Variations \cup Children(id)
                   \/ i \in VariationValues /\ Unclaimed(Parent[i])}

Classifiers == UNION {Brands, TaxClasses, Tags, Attributes, AttributeValues}

\* A request speaks of whole kinds of references.
Facets == {Brands, TaxClasses, Tags, Attributes \cup AttributeValues, Media}

Create(r, id) ==
  /\ Unclaimed(id)
  /\ \/ /\ id \in Tags \cup AttributeSets \cup Attributes \cup TaxClasses \cup TaxRates
        /\ id \in DOMAIN Parent => Parent[id] \in screen
        /\ \E slug \in Slugs : Ask(r, "create", id, slug, {}, {})
     \/ /\ id \in AttributeValues \cup VariationValues \cup Media
        /\ id \in DOMAIN Parent => Parent[id] \in screen
        /\ Ask(r, "create", id, None, {}, {})
     \/ /\ id \in Brands
        /\ \E slug \in Slugs, logo \in {{}} \cup {{m} : m \in screen \cap Media} :
             Ask(r, "create", id, slug, logo, {})
     \/ /\ id \in Variations
        /\ \E values \in SUBSET (Children(id) \cap desk) : Ask(r, "create", id, None, values, {})
     \/ /\ id \in Products
        /\ \E refs \in SUBSET ((screen \cap (Classifiers \cup Variations \cup Media)) \cup Brings(id)) :
             FormAllows(refs) /\ Ask(r, "create", id, None, refs, {})

Update(r, id) ==
  /\ id \in screen
  /\ \/ /\ \E T \in Named \ {Brands, Variations, Products} : id \in T
        /\ \E slug \in Slugs : Ask(r, "update", id, slug, {}, {})
     \/ id \in Variations /\ Ask(r, "update", id, None, {}, {})
     \/ /\ id \in Brands
        /\ \E slug \in Slugs, given \in {{}, Media} :
             \E logo \in {{}} \cup {{m} : m \in given \cap screen} :
               Ask(r, "update", id, slug, logo, given)
     \/ /\ id \in Products
        /\ \E given \in {UNION F : F \in SUBSET {T \in Facets : T \cap desk # {}}} :
             \E refs \in SUBSET (given \cap screen) :
               FormAllows(refs) /\ Ask(r, "update", id, None, refs, given)
     \/ /\ id \in Variants
        /\ \E given \in {{}, Media} : \E media \in SUBSET (given \cap screen) :
             Ask(r, "update", id, None, media, given)

Remove(r, id) ==
  /\ id \in screen \ Variants
  /\ Ask(r, "remove", id, None, {}, {})

Arrive(r) == \E id \in desk : Create(r, id) \/ Update(r, id) \/ Remove(r, id)

-----------------------------------------------------------------------------
\* A catalog an administrator may find: parts of what the desk holds, with no
\* slug twice, and products that refer to what is there.
Init ==
  /\ desk \in Desks
  /\ \E there \in SUBSET desk :
       /\ \A i \in there \cap DOMAIN Parent : Parent[i] \in there
       /\ \E slug \in [there \cap UNION Named -> Slugs],
             refs \in [there \cap Products ->
                         SUBSET (there \cap (Classifiers \cup Variations))] :
            /\ \A p \in DOMAIN refs : FormAllows(refs[p])
            /\ row = [i \in Rows |->
                 IF i \notin there THEN Absent
                 ELSE [state |-> "live",
                       slug |-> IF i \in DOMAIN slug THEN slug[i] ELSE None,
                       refs |-> IF i \in DOMAIN refs THEN refs[i] ELSE {}]]
            /\ \A i \in DOMAIN slug : SlugFree(i, slug[i])
  /\ link = {}
  /\ files = {m \in Media : Live(m)}
  /\ screen = {i \in Rows : Live(i)}
  /\ req = [r \in Requests |-> Free]
  /\ overtaken = {}

Step(r) ==
  \/ CreateBrand(r) \/ UpdateBrand(r) \/ RemoveBrand(r)
  \/ CreateTag(r) \/ UpdateTag(r) \/ RemoveTag(r)
  \/ CreateAttributeSet(r) \/ UpdateAttributeSet(r) \/ RemoveAttributeSet(r)
  \/ CreateAttribute(r) \/ UpdateAttribute(r) \/ RemoveAttribute(r)
  \/ AddAttributeValue(r) \/ DeleteAttributeValue(r)
  \/ CreateVariation(r) \/ UpdateVariation(r) \/ RemoveVariation(r)
  \/ AddVariationValue(r) \/ RemoveVariationValue(r)
  \/ CreateTaxClass(r) \/ UpdateTaxClass(r) \/ RemoveTaxClass(r)
  \/ CreateTaxRate(r) \/ UpdateTaxRate(r) \/ RemoveTaxRate(r)
  \/ UploadMedia(r) \/ DeleteMedia(r)
  \/ CreateProduct(r) \/ UpdateProduct(r) \/ RemoveProduct(r) \/ UpdateVariant(r)

List ==
  \/ ListBrands \/ ListTags \/ ListAttributeSets \/ ListAttributes \/ ListVariations
  \/ ListTaxClasses \/ ListTaxRates \/ ListMedia \/ ListProducts

Next == List \/ \E r \in Requests : Arrive(r) \/ Step(r) \/ Stop(r)

Spec == Init /\ [][Next]_vars

-----------------------------------------------------------------------------
(* Properties.                                                             *)

\* Every variable keeps its type: a row is absent, live or removed, has a slug
\* only in a table that has one, and neither refers to a row nor is linked to
\* media before both are there.
TypeOK ==
  /\ row \in [Rows -> [state : {"none", "live", "removed"}, slug : Slugs \cup {None},
                       refs : SUBSET Rows]]
  /\ \A i \in Rows \ UNION Named : row[i].slug = None
  /\ link \subseteq {i \in Brands \cup Products \cup Variants : Exists(i)}
                    \X {m \in Media : Exists(m)}
  /\ \A i \in Rows : row[i].refs \subseteq {j \in Rows : Exists(j)}
  /\ files \subseteq Media
  /\ desk \in Desks /\ screen \subseteq desk
  /\ overtaken \subseteq Rows

\* What the removal handlers of brands, tags, attributes, values, variations,
\* tax classes and media check for: nothing a product still uses, and no media
\* that is shown somewhere, is removed.  Rows on which requests met, or which a
\* form still showed after their removal, are exempt.
NothingInUseIsRemoved ==
  \A i \in Rows \ overtaken :
    row[i].state = "removed" => ~UsedByLive(i) /\ ~\E l \in link : l[2] = i

\* Whatever step a request stops at, no value, attribute or variant outlives
\* what it belongs to (a rate may: its tax class is removed alone), and no
\* media row is without its files.
NoOrphans ==
  /\ \A i \in DOMAIN Parent \ TaxRates :
       Live(i) => Live(Parent[i]) \/ {i, Parent[i]} \cap overtaken # {}
  /\ \A i \in Variants : Live(i) => Live(Parent[i])
  /\ \A m \in Media : Live(m) => m \in files

\* Two rows of a table, set or tax class never share a slug, name or location;
\* where only the service checks this, unless two requests met on them.
SlugsDistinct ==
  \A i \in UNION Named : \A j \in Peers(i) :
    Live(i) /\ Live(j) /\ row[i].slug = row[j].slug =>
      \/ row[i].slug = None
      \/ {i, j} \subseteq Unindexed /\ {i, j} \cap overtaken # {}

-----------------------------------------------------------------------------
(* The inductive invariant.                                                *)

Doing(r, verb, table, steps) ==
  req[r].verb = verb /\ req[r].id \in table /\ req[r].step \in steps

RequestType ==
  [verb : {"create", "update", "remove"}, id : Rows, slug : Slugs \cup {None},
   refs : SUBSET Rows, given : SUBSET Rows, old : SUBSET Rows,
   step : {"check", "row", "link", "unlink", "children", "values", "files"}]

RequestsOK ==
  /\ DOMAIN req = Requests
  /\ \A r \in Requests :
    IF r \in InFlight
      THEN req[r] \in RequestType ELSE req[r] \in {Free, Over}

\* What a request is about: new rows come with a product or a variation only, and what else it
\* refers to was there when its form was filled.
Closed(refs) == \A v \in refs \cap (AttributeValues \cup VariationValues) : Parent[v] \in refs

ReferencesOK ==
  \A r \in InFlight :
    LET q == req[r] IN
    /\ q.verb = "create" => q.id \notin Variants
    /\ q.verb # "create" => Exists(q.id) /\ \A i \in q.refs : Exists(i)
    /\ q.verb = "remove" => q.refs = {}
    /\ q.id \notin UNION Named => q.slug = None
    /\ q.id \notin UNION {Brands, Variations, Products, Variants} => q.refs = {}
    /\ q.id \in Brands \cup Variants => q.refs \subseteq Media
    /\ q.id \in Variations => q.refs \subseteq Children(q.id)
    /\ q.id \in Products =>
         /\ q.refs \subseteq
              UNION {Classifiers, Variations, VariationValues, Media, Children(q.id)}
         /\ Closed(q.refs)
         /\ q.verb = "update" =>
              /\ q.refs \subseteq q.given
              /\ (Attributes \cup AttributeValues) \cap q.given = {}
                   \/ Attributes \cup AttributeValues \subseteq q.given
    /\ \A i \in q.refs : Exists(i) \/ i \in UNION {Variations, VariationValues, Variants}

\* Where two requests meet, overtaken says so; and what a request refers to was removed only by
\* one that it met.
MeetingsOK ==
  /\ \A q, r \in InFlight : q # r =>
       Touched(req[q].id, req[q].refs) \cap Touched(req[r].id, req[r].refs) \subseteq overtaken
  /\ \A r \in InFlight : \A i \in req[r].refs \ overtaken : row[i].state # "removed"

\* The rows of products and variants, and those that are not there.
ProductsOK ==
  /\ \A p \in Products :
       row[p].refs \subseteq Classifiers \cup Variations /\ Closed(row[p].refs)
  /\ \A r \in InFlight :
       Doing(r, "create", Products, {"check", "row"}) =>
         /\ ~Exists(req[r].id)
         /\ \A q \in InFlight : Doing(q, "create", {req[r].id}, {"check", "row"}) => q = r
  /\ \A i \in Rows : ~Exists(i) => row[i].slug = None
  /\ \A i \in screen : Exists(i)

\* A unique index never lets a slug in twice.
IndexesOK ==
  \A i \in (UNION Named) \ Unindexed : \A j \in Peers(i) :
    Exists(i) /\ Exists(j) /\ row[i].slug = row[j].slug => row[i].slug = None

\* What a handler checked or did first still holds at its later steps, unless it was overtaken.
ChecksHold ==
  \A r \in InFlight :
    LET id == req[r].id IN
    /\ Doing(r, "remove", Rows, {"children", "row"}) =>
         /\ \A i \in ({id} \cup (Children(id) \ Attributes)) \ overtaken : ~UsedByLive(i)
         /\ id \in Media \ overtaken => ~\E l \in link : l[2] = id
    /\ Doing(r, "remove", AttributeSets \cup Attributes \cup Variations, {"row"}) =>
         \A c \in Children(id) : Live(c) => {c, id} \cap overtaken # {}
    /\ Doing(r, "remove", Products, {"row"}) => \A c \in Children(id) : ~Live(c)
    /\ Doing(r, "create", UNION {Attributes, AttributeValues, VariationValues}, {"row"}) =>
         Live(Parent[id]) \/ Parent[id] \in overtaken
    /\ Doing(r, "create", Variations, {"values"}) => Live(id) \/ id \in overtaken
    /\ Doing(r, "create", Media, {"row"}) => id \in files
    /\ Doing(r, "create", Rows, {"link", "unlink", "values"}) => Exists(id)
    /\ req[r].step = "row" /\ req[r].verb # "remove" /\ id \in Unindexed =>
         \A j \in Peers(id) :
           Live(j) /\ row[j].slug = req[r].slug => {j, id} \cap overtaken # {}

CatalogInv ==
  /\ TypeOK /\ RequestsOK /\ ReferencesOK /\ MeetingsOK /\ ProductsOK /\ IndexesOK /\ ChecksHold
  /\ NothingInUseIsRemoved /\ NoOrphans /\ SlugsDistinct
=============================================================================
