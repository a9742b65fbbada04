------------------------------ MODULE Pricing ------------------------------
(***************************************************************************)
(* How a checkout is priced, over the catalog: the unit prices, the        *)
(* shipping rule, the coupon, which is read twice, and the tax.  Each is a *)
(* query of its own, so an administrator's edits of coupons, prices and    *)
(* rates come in between.  Amounts are whole numbers; what the code rounds *)
(* to four decimals is exact for the amounts used here.                    *)
(***************************************************************************)
EXTENDS Catalog, Integers, Functions

CONSTANTS
  Coupons,      \* identities of coupons
  Codes,        \* coupon codes
  Terms,        \* what a coupon may offer, and on what conditions
  Prices,       \* what a price form may hold
  ShippingRules,
  RateValue,    \* the percentage of a tax rate
  RateLocation, \* the place a tax rate is for, each part of it possibly "*" for any
  PricingDesks, \* the desks at which coupons and prices are edited
  MaxEdits      \* edits of coupons and prices at each of these desks

VARIABLES
  coupon,       \* the coupons
  price,        \* the price fields of the products being priced
  edit,         \* the coupon request an administrator has in progress
  edits,        \* edits made so far
  quote         \* the checkout being priced

pricingVars == <<coupon, price, edit, edits, quote>>

ASSUME PricingAssumption ==
  /\ Terms \subseteq [type : {"FIXED", "PERCENT"}, value : Nat, free : BOOLEAN,
                      min : Nat \cup {None}, max : Nat \cup {None}, limit : Nat,
                      products : SUBSET Products]
  /\ Prices \subseteq [base : Nat, special : Nat, type : {"FIXED", "PERCENT", None}]
  /\ ShippingRules \subseteq [type : {"FLAT", "PRICE_BASED", "WEIGHT_BASED"}, base : Nat,
                              minimum : Nat]
  /\ RateValue \in [TaxRates -> Nat] /\ DOMAIN RateLocation = TaxRates
  /\ PricingDesks \subseteq Desks /\ MaxEdits \in [PricingDesks -> Nat]
\* Tables have finitely many rows.
ASSUME FiniteTables == IsFiniteSet(Products) /\ IsFiniteSet(TaxRates)
ASSUME NoneIsNoSnapshot == None \notin [id : Coupons, type : {"FIXED", "PERCENT"}, value : Nat]

NoCoupon == [state |-> "none", code |-> None, terms |-> None, used |-> 0, active |-> FALSE,
             current |-> FALSE]
NoEdit == [verb |-> "none", id |-> None, code |-> None, terms |-> None, step |-> "free"]
NoQuote == [step |-> "free", cart |-> {}, lines |-> <<>>, code |-> None, sub |-> 0, shipping |-> 0,
            rule |-> None, discount |-> 0, waived |-> FALSE, snapshot |-> None, tax |-> 0,
            taxFull |-> 0, total |-> 0, counted |-> None, overtaken |-> FALSE]

Offered(k) == coupon[k].state = "live"
AtLeast(x, y) == IF x > y THEN x ELSE y
AtMost(x, y) == IF x < y THEN x ELSE y

-----------------------------------------------------------------------------
(* What things cost.                                                       *)

\* A special price replaces the price or takes a percentage off, in its window.
EffectivePrice(p, inWindow) ==
  IF p.special = 0 \/ p.type = None \/ ~inWindow THEN p.base
  ELSE IF p.type = "FIXED" THEN p.special
  ELSE p.base - (p.base * p.special) \div 100

\* No weight is passed, so a rule by weight costs its base alone.  A minimum of 0
\* is none: createRule, which alone writes rules, stores none when it is given 0.
ShippingCost(rule, sub) ==
  IF rule.type = "PRICE_BASED" /\ rule.minimum # 0 /\ sub >= rule.minimum THEN 0
  ELSE rule.base

\* Every condition of validateCoupon that a checkout reaches: it passes no
\* categories, so those are never compared, and no service excludes a product.
\* A limit of 0 is none, as to the code a number 0 is false; a least or greatest
\* amount of 0 is set, as its Decimal is not.
Validates(c, sub, cart) ==
  /\ c.active /\ c.current
  /\ c.terms.limit # 0 => c.used < c.terms.limit
  /\ c.terms.min # None => sub >= c.terms.min
  /\ c.terms.max # None => sub <= c.terms.max
  /\ c.terms.products # {} => c.terms.products \cap cart # {}

DiscountOf(terms, sub) ==
  IF terms.type = "FIXED" THEN terms.value ELSE (sub * terms.value) \div 100

\* checkout hands the name of the customer's division on as the country, that of
\* the city as the state, and nothing as the city and the zip code.
TaxAddress == [country |-> "division", state |-> "city", city |-> "", zip |-> ""]

\* The rates of a tax class that apply, however specific they are: every part of
\* their location is "*" or that of the address.
MatchingRates(class) ==
  {x \in TaxRates : Live(x) /\ Parent[x] = class /\ Live(class)
                    /\ \A part \in DOMAIN TaxAddress :
                         RateLocation[x][part] \in {"*", TaxAddress[part]}}

RateOf(class) == SumFunctionOnSet(RateValue, MatchingRates(class))

\* What is charged of each line's tax class: all its matching rates, on the
\* part of the line the discount leaves.
TaxOn(lines, sub, taxable) ==
  LET onLine == [p \in DOMAIN lines |->
                   (lines[p].unit * taxable * RateOf(lines[p].class)) \div (sub * 100)]
  IN IF sub > 0 /\ taxable > 0 THEN SumFunctionOnSet(onLine, DOMAIN lines) ELSE 0

TotalOf(sub, discount, shipping, tax) == AtLeast(sub - discount + shipping + tax, 0)

-----------------------------------------------------------------------------
(* The checkout being priced, one query after the other.                   *)

QuoteAt(step) == quote.step = step
Leave == UNCHANGED <<vars, coupon, price, edit, edits>>

\* A customer checks out products with a shipping rule for the area; an area
\* without one is refused.
Quote ==
  /\ QuoteAt("free")
  /\ \E cart \in (SUBSET (desk \cap Products)) \ {{}}, rule \in ShippingRules,
        code \in Codes \cup {None} :
       quote' = [NoQuote EXCEPT !.step = "price", !.cart = cart, !.rule = rule, !.code = code]
  /\ Leave

\* The lines are resolved: the product must be there, its price is today's.
ResolveLines ==
  /\ QuoteAt("price")
  /\ IF \A p \in quote.cart : Live(p)
     THEN \E inWindow \in BOOLEAN :
            LET unit == [p \in quote.cart |-> EffectivePrice(price[p], inWindow)] IN
            quote' = [quote EXCEPT
              !.lines = [p \in quote.cart |->
                          [unit |-> unit[p],
                           class |-> IF row[p].refs \cap TaxClasses = {} THEN None
                                     ELSE CHOOSE c \in row[p].refs \cap TaxClasses : TRUE]],
              !.sub = SumFunctionOnSet(unit, quote.cart),
              !.step = "shipping"]
     ELSE quote' = [quote EXCEPT !.step = "refused"]
  /\ Leave

CalculateShipping ==
  /\ QuoteAt("shipping")
  /\ quote' = [quote EXCEPT !.shipping = ShippingCost(quote.rule, quote.sub),
                            !.step = IF quote.code = None THEN "tax" ELSE "validate"]
  /\ Leave

\* A code that is not valid, or takes nothing off, is ignored without a word.
ValidateCoupon ==
  /\ QuoteAt("validate")
  /\ LET found == {k \in Coupons : Offered(k) /\ coupon[k].code = quote.code
                                  /\ Validates(coupon[k], quote.sub, quote.cart)}
         discount(k) == DiscountOf(coupon[k].terms, quote.sub) IN
     quote' = IF \E k \in found : discount(k) # 0
              THEN LET k == CHOOSE k \in found : TRUE IN
                   [quote EXCEPT !.discount = discount(k), !.waived = coupon[k].terms.free,
                                 !.step = "details"]
              ELSE [quote EXCEPT !.step = "tax"]
  /\ Leave

\* A coupon that is gone by then is forgotten, its discount is not.
FindByCodeLenient ==
  /\ QuoteAt("details")
  /\ LET found == {k \in Coupons : Offered(k) /\ coupon[k].code = quote.code} IN
     quote' = [quote EXCEPT
       !.snapshot = IF found = {} THEN None
                    ELSE LET k == CHOOSE k \in found : TRUE IN
                         [id |-> k, type |-> coupon[k].terms.type, value |-> coupon[k].terms.value],
       !.discount = AtMost(@, quote.sub), !.step = "tax"]
  /\ Leave

\* The coupon is read again, by its code, for the order to remember.
FindByCode ==
  /\ QuoteAt("details")
  /\ LET found == {k \in Coupons : Offered(k) /\ coupon[k].code = quote.code} IN
     quote' = IF found = {} THEN [quote EXCEPT !.step = "refused"]
              ELSE LET k == CHOOSE k \in found : TRUE IN
                   [quote EXCEPT !.snapshot = [id |-> k, type |-> coupon[k].terms.type,
                                               value |-> coupon[k].terms.value],
                                 !.discount = AtMost(@, quote.sub), !.step = "tax"]
  /\ Leave

\* Shipping is charged by what is left to pay, after the discount.
CalculateTaxShippingLast ==
  /\ QuoteAt("tax")
  /\ LET tax == TaxOn(quote.lines, quote.sub, quote.sub - quote.discount)
         shipping == IF quote.waived THEN 0
                     ELSE ShippingCost(quote.rule, quote.sub - quote.discount) IN
     quote' = [quote EXCEPT
       !.tax = tax, !.taxFull = TaxOn(quote.lines, quote.sub, quote.sub),
       !.total = TotalOf(quote.sub, quote.discount, shipping, tax), !.step = "place"]
  /\ Leave

CalculateTax ==
  /\ QuoteAt("tax")
  /\ LET tax == TaxOn(quote.lines, quote.sub, quote.sub - quote.discount)
         shipping == IF quote.waived THEN 0 ELSE quote.shipping IN
     quote' = [quote EXCEPT
       !.tax = tax, !.taxFull = TaxOn(quote.lines, quote.sub, quote.sub),
       !.total = TotalOf(quote.sub, quote.discount, shipping, tax), !.step = "place"]
  /\ Leave

\* The order is created, and counts as a use of the coupon it remembers.
PlaceOrder ==
  /\ QuoteAt("place")
  /\ quote' = [quote EXCEPT !.step = "placed",
                            !.counted = IF quote.snapshot = None THEN None ELSE quote.snapshot.id]
  /\ coupon' = [k \in Coupons |->
                 IF quote.snapshot # None /\ quote.snapshot.id = k
                 THEN [coupon[k] EXCEPT !.used = @ + 1] ELSE coupon[k]]
  /\ UNCHANGED <<vars, price, edit, edits>>

-----------------------------------------------------------------------------
(* Administrators: coupons and prices.                                     *)

\* Whatever happens to a coupon while it is between its two reads overtakes
\* the quote.
Overtaken(k) ==
  [quote EXCEPT !.overtaken = @ \/ (quote.step = "details" /\ quote.code = coupon'[k].code)
                                \/ (quote.step = "details" /\ quote.code = coupon[k].code)]

CodeFree(k, code) == \A j \in Coupons \ {k} : Offered(j) => coupon[j].code # code
IndexFree(k, code) == \A j \in Coupons \ {k} : coupon[j].state # "none" => coupon[j].code # code

\* An edit starts with its checks.
Edit(verb, k, code, terms, ok) ==
  /\ edit.step = "free" /\ edits < MaxEdits[desk]
  /\ edits' = edits + 1
  /\ edit' = IF ok THEN [verb |-> verb, id |-> k, code |-> code, terms |-> terms, step |-> "row"]
             ELSE edit
  /\ UNCHANGED <<vars, coupon, price, quote>>

ProductsThere(terms) == \A p \in terms.products : Live(p)

CreateCoupon(k) ==
  \/ /\ coupon[k].state = "none"
     /\ \E code \in Codes, terms \in Terms :
          Edit("create", k, code, terms, CodeFree(k, code) /\ ProductsThere(terms))
  \/ /\ edit.verb = "create" /\ edit.id = k
     /\ coupon' = IF IndexFree(k, edit.code)
                  THEN [coupon EXCEPT ![k] = [state |-> "live", code |-> edit.code,
                          terms |-> edit.terms, used |-> 0, active |-> TRUE, current |-> TRUE]]
                  ELSE coupon
     /\ edit' = NoEdit /\ quote' = Overtaken(k)
     /\ UNCHANGED <<vars, price, edits>>

Edited(k, active) ==
  [coupon[k] EXCEPT !.code = edit.code, !.terms = edit.terms, !.active = active]

UpdateCoupon(k) ==
  \/ /\ coupon[k].state # "none"
     /\ \E code \in Codes, terms \in Terms :
          Edit("update", k, code, terms,
               Offered(k) /\ CodeFree(k, code) /\ ProductsThere(terms))
  \/ /\ edit.verb = "update" /\ edit.id = k
     /\ \E active \in BOOLEAN :
          coupon' = IF IndexFree(k, edit.code) THEN [coupon EXCEPT ![k] = Edited(k, active)]
                    ELSE coupon
     /\ edit' = NoEdit /\ quote' = Overtaken(k)
     /\ UNCHANGED <<vars, price, edits>>

RemoveCoupon(k) ==
  \/ /\ coupon[k].state # "none"
     /\ Edit("remove", k, None, None, Offered(k))
  \/ /\ edit.verb = "remove" /\ edit.id = k
     /\ coupon' = [coupon EXCEPT ![k].state = "removed"]
     /\ edit' = NoEdit /\ quote' = Overtaken(k)
     /\ UNCHANGED <<vars, price, edits>>

\* The prices of a product, of a variant, or of all variants of a product at once.
\* (The same forms may hold quantities and stock flags: OrderStock's EditStock.)
EditPrices(p) ==
  /\ p \in desk /\ Live(p) /\ edits < MaxEdits[desk]
  /\ \E new \in Prices : price' = [price EXCEPT ![p] = new]
  /\ edits' = edits + 1
  /\ UNCHANGED <<vars, coupon, edit, quote>>

\* The validity window of a coupon opens or closes.
Tick(k) ==
  /\ Offered(k) /\ edits < MaxEdits[desk]
  /\ coupon' = [coupon EXCEPT ![k].current = ~@]
  /\ edits' = edits + 1 /\ UNCHANGED <<vars, price, edit, quote>>

-----------------------------------------------------------------------------
PricingInit ==
  /\ Init
  /\ \E code \in [Coupons -> Codes \cup {None}], terms \in [Coupons -> Terms] :
       /\ \A j, k \in Coupons : j # k /\ code[j] # None => code[j] # code[k]
       /\ coupon = [k \in Coupons |->
            IF code[k] = None \/ desk \notin PricingDesks THEN NoCoupon
            ELSE [state |-> "live", code |-> code[k], terms |-> terms[k], used |-> 0,
                  active |-> TRUE, current |-> TRUE]]
  /\ price \in [IF desk \in PricingDesks THEN desk \cap Products ELSE {} -> Prices]
  /\ edit = NoEdit /\ edits = 0 /\ quote = NoQuote

PricingNext ==
  \/ Next /\ UNCHANGED pricingVars
  \/ /\ desk \in PricingDesks
     /\ \/ Quote \/ ResolveLines \/ CalculateShipping \/ ValidateCoupon \/ FindByCode
        \/ CalculateTax \/ PlaceOrder
        \/ \E k \in Coupons : CreateCoupon(k) \/ UpdateCoupon(k) \/ RemoveCoupon(k) \/ Tick(k)
        \/ \E p \in Products : EditPrices(p)

PricingSpec == PricingInit /\ [][PricingNext]_<<vars, pricingVars>>

-----------------------------------------------------------------------------
(* Properties.                                                             *)

\* An order that takes a discount off remembers a coupon and counts as a use of
\* it, and what it remembers explains the discount, unless that coupon was
\* edited between calculate's two reads (validateCoupon, findByCode).
DiscountIsAccountedFor ==
  quote.step = "placed" =>
    /\ quote.discount > 0 => quote.snapshot # None /\ quote.counted = quote.snapshot.id
    /\ quote.waived => quote.snapshot # None
    /\ quote.snapshot # None /\ ~quote.overtaken =>
         quote.discount = AtMost(DiscountOf(quote.snapshot, quote.sub), quote.sub)

\* A coupon never makes an order dearer than it is without it, at the prices,
\* the shipping rule and the rates that were read.  (Nothing keeps a special
\* price from taking off more than there is: such lines are exempt.)
CouponNeverCostsMore ==
  quote.step = "placed" /\ (\A p \in quote.cart : quote.lines[p].unit >= 0) =>
    /\ quote.total <= quote.sub + ShippingCost(quote.rule, quote.sub) + quote.taxFull
    /\ quote.discount <= quote.sub

-----------------------------------------------------------------------------
(* The inductive invariant behind DiscountIsAccountedFor.                  *)

\* No two coupons on offer have one code, so its second reading finds the
\* coupon the first one found.
CouponsOK ==
  /\ DOMAIN coupon = Coupons
  /\ \A k \in Coupons : DOMAIN coupon[k] = DOMAIN NoCoupon
  /\ \A k \in Coupons : Offered(k) => coupon[k].terms \in Terms /\ CodeFree(k, coupon[k].code)
  /\ edit.verb \in {"create", "update"} => edit.terms \in Terms

\* What a quote has taken off at each step, and why.
QuoteOK ==
  /\ DOMAIN quote = DOMAIN NoQuote
  /\ quote.step \in {"free", "price", "shipping", "validate"} =>
       quote.discount = 0 /\ ~quote.waived /\ quote.snapshot = None
  /\ quote.step = "details" /\ ~quote.overtaken =>
       \E k \in Coupons : Offered(k) /\ coupon[k].code = quote.code
                         /\ quote.discount = DiscountOf(coupon[k].terms, quote.sub)
  /\ quote.step \in {"tax", "place", "placed"} =>
       IF quote.snapshot = None THEN quote.discount = 0 /\ ~quote.waived
       ELSE ~quote.overtaken =>
              quote.discount = AtMost(DiscountOf(quote.snapshot, quote.sub), quote.sub)
  /\ quote.step = "placed" /\ quote.snapshot # None => quote.counted = quote.snapshot.id
\* The prices that are edited are those a checkout reads.
PricesOK ==
  /\ desk \in PricingDesks => DOMAIN price = desk \cap Products
  /\ \A p \in DOMAIN price : price[p] \in Prices

\* What a quote has added up at each step, and what it may come to.
NoNegativeUnit == \A p \in quote.cart : quote.lines[p].unit >= 0
AmountsOK ==
  /\ quote.step # "free" => quote.cart \subseteq desk \cap Products /\ quote.rule \in ShippingRules
                            /\ desk \in PricingDesks
  /\ quote.step \in {"shipping", "validate", "details", "tax", "place", "placed"} =>
       /\ DOMAIN quote.lines = quote.cart
       /\ \A p \in quote.cart : quote.lines[p].unit \in Int
       /\ quote.sub \in Int
       /\ NoNegativeUnit => quote.sub >= 0
       /\ quote.discount \in Int
       /\ quote.step # "details" /\ NoNegativeUnit =>
            quote.discount <= quote.sub
       /\ NoNegativeUnit => quote.discount >= 0
  /\ quote.step \in {"validate", "details", "tax"} =>
       quote.shipping = ShippingCost(quote.rule, quote.sub)
  /\ quote.step \in {"place", "placed"} /\ NoNegativeUnit =>
       quote.total <= quote.sub + ShippingCost(quote.rule, quote.sub) + quote.taxFull
=============================================================================
