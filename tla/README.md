# A verification of the e-commerce backend in TLA+

The repository is a NestJS backend for a shop: services that run SQL statements through Prisma on
one PostgreSQL database, two scheduled jobs, and an HTTP controller per service. This directory
holds TLA+ modules that model the parts of it where order, concurrency or history matter, the
TLC configurations that check them, and proofs about the central ones. Paths below are relative to
the repository's root; line numbers are those of the modelled commit.

Contents: [the system](#the-system) · [modules](#modules-and-the-code-they-model) ·
[runs](#runs) · [bounds and fairness](#bounds-and-fairness) · [proofs](#proofs) ·
[disagreements](#where-code-and-text-disagree) · [not modelled](#what-is-not-modelled) ·
[plan](#plan)

## The system

Every piece of durable state is a table; the Node process keeps none between requests. A service
method is a sequence of `await`ed statements, and other requests run at every `await`. Some methods
wrap their statements in `prisma.$transaction`, which runs under PostgreSQL's default READ
COMMITTED isolation: it makes the writes atomic and undoes them on an exception, but a value read
inside it can be stale when it is written back.

| component | state | operations that change it | talks to |
|---|---|---|---|
| orders (`src/order`) | orders, order lines, taxes, history | checkout, updateStatus, cancelOrder, cancelOrderItem | inventory, coupons, pricing, address book |
| inventory (`src/inventory`) | `qty`, `in_stock`, `manage_stock` of products and variants; inventory_logs | deductStock, restoreStock (inside an order's transaction), manualAdjust; past this service, the product forms | orders, flash sales, catalogue |
| coupons (`src/coupon`) | coupons, `used` | create, update, remove; checkout increments `used` | pricing |
| pricing (`order-calculator`, `src/tax`, `src/shipping`) | none of its own | pure calculation from rates and rules | orders |
| flash sales (`src/flash-sale`) | sales with a status, per-product `sold` and `reserved` | create, reserveStock, the job of every minute | clock |
| categories (`src/category`) | tree of categories, each with its stored id path and slug path | create, update, move, remove | media, products |
| tokens and devices (`src/auth/token.service.ts`) | devices, auth_tokens | login, rotation, logouts, nightly cleanup | both authentications, guards |
| customer and administrator authentication (`src/auth`) | accounts with failure counter and lock | registration, logins, password changes and resets | codes, tokens |
| one-time codes (`src/otp`) | verification_otps | send, verify, hourly cleanup | SMS and mail gateways |
| address book (`src/address`) | addresses, one of them the default | create, update, setDefault, delete, saveFromOrder | orders |
| catalogue (`src/product`, `variation`, `attribute`, `brand`, `tag`, tax administration) | products with variants and their satellites, unique slugs, tax classes with rates | create, update, remove | media, inventory, pricing |
| media (`src/media`, `src/prisma`) | files, links, a reference count per file | upload, link, unlink, delete | everything with pictures |
| administrators, customers (`src/admin`, `src/customer`) | accounts with a role, permissions, a profile | new passwords, disable, enable, unlock, delete, deactivate | tokens |
| locations, couriers | divisions, areas, zones, rules | single reads and writes | orders |

How they interact: a checkout reads products, stock, rates and the coupon without locks, prices the order, and
then in one transaction deducts each line through the inventory service, inserts the order and increments the
coupon. Cancellations run the same way backwards. An administrator's adjustment runs beside both, and product
forms write quantity, flag and `manageStock` without the inventory service. Every login and every password
change goes through the token service.

What is hard here, and what makes each part right:

* *Orders and stock.* Reads without locks followed by absolute writes; row locks taken in the cart's order; a
  transaction that can be timed out, aborted as a deadlock victim or rolled back by an exception at its second
  line. Right means: no request sells stock that is counted below zero, the `in_stock` flag the inventory
  service writes tells the truth, the log and the forms explain the quantity, the coupon counter counts
  orders, an order's total covers its lines, and every request is answered.
* *Flash sales.* A job that compares with a clock it read earlier, possibly overlapping with its own
  next run, and grants based on unlocked reads. Right means: the status follows the clock, in one
  direction, and every grant is counted.
* *Categories.* The tree is stored three times (parent, ids, slugs) and the copies are spliced, not
  rebuilt. Right means the copies agree after any history.
* *Tokens.* No transactions at all: a rotation is three statements, between which a login, a logout
  or the cleanup may run. Right means: one live token in a family, and none after a detected reuse.
* *Sessions.* A new password, a disabled or a deleted account must end the sessions there are; but
  sign-ins read the account long before they insert their token, and rotations never read it. Right
  means: whatever is still alive belongs to a request that was already under way.
* *Codes and logins.* Comparing a code or a password takes long, between a read and a write. Right means: a
  use of a code never tries one that was superseded when it began, wrong tries and sends keep a bound, a full
  failure counter has its lock and no late write lifts it; where one does (the administrator's), guessing
  stays bounded.
* *Catalogue and media.* Usage is checked before the removal, uniqueness before the insert, removals
  and links take several statements, and rows are marked as removed, not deleted. Right means: nothing in
  use goes, no child outlives its owner, no slug is there twice.
* *Pricing.* Five queries, with an administrator's edits in between, and the coupon read twice. Right
  means: a discount comes with the coupon that explains it, and a coupon never makes an order dearer.
* *Address book.* "The default" is a property of a set of rows, kept by several statements. Right
  means exactly one, whatever the history.

`PROJECT.json` lists 40 hazards at their lines, each with the properties that watch it or the reason
why none does yet.

## Modules and the code they model

`PROJECT.json` maps each definition to its lines. The correspondence in outline:

### OrderStock

A process per HTTP request; `pc[r]` says which statement it sends next, `job`, `todo`, `line`, `before`,
`remaining` and `withCoupon` are its local variables (request body, lines still to handle, current line,
quantity read, lines counted, coupon accepted). The tables are `stock`, `ord` and `used`. A stock row has its
three columns (`qty`, `inStock`, `managed`) and its history: `logged` is the sum of the log's quantities,
`formed` what product forms have put into the quantity, `lost` whether a write ever overtook a read, `counted`
whether `manageStock` was on all the time and no form entered a negative number, `recomputed` whether the
inventory service was the last to write quantity or flag. Uncommitted versions live in `draft`, row locks in
`lock`, `ordLock` and `couponLock`. Rows are created as product.service.ts:297-299 and 499-501 create them,
with a quantity of zero or more and any flag, also on sale with none left.

| action | code |
|---|---|
| Checkout, ValidateLine, Reject, Calculate | checkout before its transaction: order-validator, checkAvailability, the coupon's limit |
| ReadStock, WriteStock, InsufficientStock | getCurrentQtyTx; deductStock, restoreStock or manualAdjust |
| EditProduct, EditStock | the stock columns in product update, updateVariant and bulkEditVariants (product.service.ts:816-822, 1106-1108, 1032-1040): written as the form says, row by row, with no flag computed and no log row |
| IncrementUsage | `used: { increment: 1 }`, step 6f of checkout |
| ReadOrder, LoadProducts | the reads of updateStatus, cancelOrder, cancelOrderItem, and the second query of their `include` |
| DeleteLine, LineGone, Recount, WriteOrder | the rest of cancelOrderItem; the order writes of all three |
| Commit, Timeout, DeadlockVictim | what PostgreSQL and Prisma do to a transaction |

READ COMMITTED is modelled as it works: reads do not wait and see the newest committed row or the
transaction's own version; a write waits for the row's lock, which is kept to the end, and then
stores the value computed earlier. A deadlock is a cycle of waits, and any member of it may be the
victim. Rows that a checkout inserts are visible to nobody before its commit, so they appear in
`Commit`. An order's `sub` is the set of lines its subtotal was computed from: amounts are sums over
it, so comparing sets says all that comparing totals would.

### OrderBook

The abstract specification of the order table: an order is placed with all its lines billed and counts
its coupon in the same step, loses one line at a time to a bill that still covers the rest, or gets
another status; nothing else ever happens to it, and each of these happens at once. OrderStock defines
`Book == INSTANCE OrderBook WITH ...`: the refinement mapping keeps the committed orders and
the counter, and forgets requests, locks, drafts and stock. That a transaction of a dozen statements that can
time out anywhere appears to its readers as one of three steps is `ImplementsOrderBook`.

### FlashSale

`sale`, `row` are the tables; `form` is what create has computed but not stored; `cron` holds, for
each run of the job, the statement it is at and the time it read. Tick moves the clock. CheckWindow
and StoreSale are create; StartCron, StartSales, EndSales the job; Check and Reserve a reservation.

### CategoryTree

`row` holds parent, ids, slug path and which of two names a category has; `job` holds the request and what its
reads returned. CreateBegin/Insert, MoveBegin/MoveBuild/MoveWrite, RenameBegin/RenameBuild/RenameWrite,
RemoveBegin/RemoveFind/Delete are the four operations; FindDescendants and RewriteDescendant are
updateDescendantPaths, one row per step. `depth` equals the length of the ids in every write and is left out.
SwitchActive is an update that only turns a category on or off; a rename may do so too. `ChildrenOf` and
`Loaded` are the trees that are built from one query, by parent: `Tree` is the administrators' (getTree), with
inactive categories, `TreeWithCounts` the public one, without them. `WithSubcategories` is the lookup of the
products of a category "with its subcategories", in the stored ids: the category asked for, active or not, and
the active ones below it. It does not ask whether the categories in between are active, so it also lists what
the public tree hides behind an inactive one.

### AuthTokens

One account: `device` by client device id (the unique index of migration 20260222055745 leaves one
row for each), `token` in order of issue with a family, `burned` as history. Login is upsertDevice
and issuesTokenPair; Refresh is rotateRefreshToken with its reuse branch; Logout is the three ways
to revoke (a token and its device, a device, everything). Age stands for expiry and for a revocation
growing a week old; CleanupExpiredTokens is the nightly job. An access token is accepted as long as
its device is active, so it needs no state.

### Sessions

AuthTokens with the account the tokens belong to, an administrator's or a customer's (`kind`). A sign-in is
now ReadAccount, the slow comparison, EnterDevice, and AuthTokens' statements for the device and the token;
`visit` says where it is. Operations on the account are FindAccount and then WritePassword, Disable, Enable or
SoftDelete, with AuthTokens' two statements of revokeAllOwnerTokens after the write, or before it in deleteAdmin.
`late`, `spared` and `ended` are history: requests that had read their row before the account was shut,
families that they issued tokens of, and families older than the last password or disabling.

### AddressBook

One customer: `row` per address, in creation order, with a place (what saveFromOrder compares) and
the default flag. Each statement of the five operations is an action.

### CustomerAuth

One customer with one phone: `code` holds the verification_otps rows in order of creation, for the two
purposes an existing customer can ask for; `customer` the account's flag, failure counter and lock;
`now` the clock. RequestCode, CheckResendCooldown, ExpirePrevious, CreateCode are a request for a code
with sendOtp and storeOtp; ReadCode, CountMiss, ConsumeCode, CodeGone, FindAccount, Reset a login or
reset by code; ReadAccount, ReadAttempts, WriteAttempts, Reset a login by password.
Whether a code or a password is right is a free choice at the comparison. `guesses` counts the wrong
ones, `late` marks a code inserted when it had hardly any life left; both are history.

### AdminAuth

The administrator's sign-in on the same row: AdminLogin reads it once, before the comparison, and AdminMiss
writes the counter and the lock, or null, from that read; AdminReset, UnlockAdmin, EnableAdmin and CustomerAuth's
DeactivateAccount are the other writes. A behaviour is one customer's or one administrator's, so one
run checks both. `wrong` counts refused passwords since the clock moved, a success or an unlock (history).

### Catalog

Brands, tags, attribute sets, attributes, values, variations, tax classes and rates, products, variants and
media are rows of one function `row`: absent, live or removed, with a slug (or uid, name, location: whatever
its service keeps distinct) and the rows they refer to. `link` is entity_media, `files` the media store,
`screen` what the administrators' pages list, which may be out of date when a form built from it arrives.
Variations and their values may be made along with a product, with uids of their own (`Uids`, `Made`).
The stock columns of products and variants are in OrderStock.
A request (`req`) first makes its checks, in one step since each can only refuse it, then its writes, one
statement or transaction per step; requests overlap, and Stop ends one between any two steps, as a
crash or a failed statement does. One operation per service method: CreateBrand, UpdateBrand, RemoveBrand and so
on. What is only read at one end (labels, positions, counters) is left out. `overtaken` is history: rows on which
two requests met, or that a request named after their removal.

### Pricing

Catalog with `coupon` and `price` and one checkout being priced (`quote`). Quote, ResolveLines,
CalculateShipping, ValidateCoupon, FindByCode, CalculateTax and PlaceOrder are the queries of
order-calculator's `calculate` in their order; CreateCoupon, UpdateCoupon, RemoveCoupon (a check, then a
write), EditPrices, the coupon's window and all of Catalog's edits of products and tax rates happen in
between. EffectivePrice, ShippingCost, Validates, DiscountOf, MatchingRates and TaxOn are the formulas. A rate
applies when country, state, city and zip all match or are "*"; `TaxAddress` is what a checkout passes: its
division as the country, its city as the state, no city and no zip code. As in the code, a usage limit of 0 is
no limit, while a least or greatest amount of 0 is one (`None` is its absence); a shipping rule's minimum of 0
is none, because createRule, the only writer of rules, stores nothing for it.

### Instances

`MCOrderStock`, `MCCategoryTree`, `MCAuthTokens`, `MCSessions`, `MCCustomerAuth` (AdminAuth with CustomerAuth in it)
and `MCPricing` (Pricing with Catalog in it) define carts, stock, rows, desks and symmetry sets for TLC. The
other modules are checked directly.

## Runs

| run | asks | result |
|---|---|---|
| checkout | Two checkouts with crossed carts and a coupon with one use, beside a product edit, with timeouts and deadlocks: is counted stock never negative, is the coupon's counter right, and does every request end? | holds, about 287,000 states |
| cancel | One order (two items, or one item twice) cancelled whole and line by line under status changes, an adjustment and a product edit: is it charged in full, is a line removed once, does the subtotal cover the rest, are flag and log right, and does all of it implement OrderBook? | holds, about 771,000 states up to symmetry |
| lost_update | Is every logged deduction in the quantity? | no: see below |
| coupon_limit | Is the coupon used at most as often as it says? | no: see below |
| flash_sale | Every window, two overlapping runs of the job, two reservations | holds, about 123,000 states |
| category_edits | Every history of four categories, at most one of them inactive, one request at a time: do the copies of the tree agree, and do the reads show it? | holds, about 4,690,000 states up to symmetry |
| category_cycle | May a category get below itself? | yes: see below |
| auth_sessions | A client refreshing one token at a time beside a sign-in and a logout, or an operation on the account, with expiry and cleanup | holds, about 9,397,000 states up to symmetry |
| auth_fingerprint | Does a known device with another browser and address log in? | no: see below |
| address_default | Every history of four addresses, one request at a time | holds, about 39,000 states |
| customer_auth | One sender, two overlapping uses of a code, two overlapping password logins, clock, cleanup; or two overlapping sign-ins of an administrator with unlocking and disabling | holds, about 7,404,000 states up to symmetry |
| catalog | Two overlapping edits, out of two or three, at each of twelve desks, with stops; and a checkout priced under edits | holds, about 777,000 states up to symmetry |

What the properties say, and what would break them:

* **ManagedNonNegative**: no interleaving sells a row below zero whose stock was always counted: `manageStock` never
  off, no negative number entered in a form. It holds *despite* lost updates and quantities that forms change under
  a request, because each write stores a number checked against the same read.
* **InStockTruthful**: from the moment the inventory service has rewritten a counted row until the next form, the flag
  says whether there are units left. restoreStock sets it blindly; this is right only because what it adds is
  at least one and what it adds to is not negative. A form may leave any flag with any quantity.
* **CouponUsedExact**: the counter counts exactly the committed orders with the coupon; it is the one
  write that is computed by the database.
* **LedgerExplainsStock**: unless a write overtook somebody's read, quantity = log + what forms entered, the quantity
  at creation included. So lost updates and product forms are the *only* ways the log and the quantity part, and
  a rolled-back transaction leaves neither.
* **PlacedOrderCharged**: an order appears together with a log entry for each of its lines, also when
  two lines name one item, in which case the second must read the first's uncommitted write.
* **NeverUndercharged**: the subtotal of an order covers every line still in it, although the
  transaction that computed it may have seen lines that another was deleting.
* **ItemCancelledOnce**: of overlapping cancellations of a line one commits, because the row's
  deletion makes the other wait and then fail.
* **EveryRequestEnds**: with the lock order left to carts, cycles of waits do occur; each is broken.
* **ReservedIsWhatWasGranted**, **StatusFollowsClock**, **SalesNeverReopen**, **ActiveSalesEnd**: every
  grant is in the counter; no late statement of a slow run opens a sale early, ends it early or
  opens it again; a sale that opened is ended.
* **ImplementsOrderBook**: the refinement. A commit that published an order without its coupon, or a
  line's deletion without its new bill, would be a step OrderBook does not have.
* **IdsFollowParents**, **SlugsFollowNames**: between requests the spliced paths are those a rebuild from the
  top would give. **ReadsShowTheTree**: the administrators' tree holds every live category; the lookup by
  stored ids finds a category and the active ones the tree shows below it; the public tree shows an active
  category just if all that its stored path names are active; removing a category strands nobody.
* **OneLiveTokenPerFamily**, **BurnedFamilyStaysDead**: for a client that does not refresh twice at a time,
  whatever logins, logouts, expiry and the cleanup do between the statements. With two overlapping
  refreshes of one token neither holds: both issue a successor, and a reuse detected between
  another's two statements misses the token about to be inserted.
* **ShutAccountsHaveNoSessions**: once a new password, a disabling or a deletion has been answered, a token is
  alive only if its sign-in read the account afterwards, or if it is of a request that had already read its row
  (a sign-in before the slow comparison, a rotation between its statements), or, for deleteAdmin, came between its
  revocation and its deletion. It counts out exactly what the missing transaction costs.
* **AtMostOneDefault**, **AlwaysADefault**: for one request at a time. Two that both clear before either sets
  leave two defaults; the run excludes them.
* **NewestCodeTried**: a use of a code tries no code but the newest there was when it began, even after the
  newer one is used up or removed. It speaks of the beginning: a request that had read its row before a newer
  code was stored goes on to accept the old one and to log in (otp.service.ts:197-221). **SendsAreSpaced**:
  the cooldown survives the cleanup, which removes the rows it is looked up in, because a code outlives the
  cooldown; the hourly limit does not survive it. **GuessesBounded**: overlap overshoots the limit of tries by
  at most one per request under way.
* **LimitBringsLock**, **CustomerLockHolds**: counts may get lost between overlapping failures, but no
  stale write separates a full counter from its lock or lifts a customer's running one.
* **AdminGuessesBounded**: an administrator's lock is lifted by a failure that read the row before it was set.
  Two overlapping sign-ins can go on lifting each other's lock, but each time from a higher count, so that
  they are refused M(M+3)/2 times at most instead of M, per unit of the model's clock: the count starts again
  when the clock moves. The bound is met: for M = 5, the limit in
  the code, 20 tries instead of 5.
* **NothingInUseIsRemoved**, **NoOrphans**, **SlugsDistinct** (catalog): whatever the overlap and wherever a
  request stops, as long as the requests did not meet on the row. The exemption is `overtaken`, and
  it is needed: every usage check and most uniqueness checks are made before, and apart from, the write. Where the
  schema has a unique index SlugsDistinct holds without exemption; for attributes, tax classes and rates two
  requests that overlap can both store one slug, name or location. A stop between a brand's row and its link
  (brand.service.ts:276-315) leaves the brand without its picture, which no property forbids; what holds is that
  no link names a row that is not there.
* **DiscountIsAccountedFor**: the order remembers and counts the coupon that was read second; it is the one that
  gave the discount unless it was edited between the two reads, and there is always one.
* **CouponNeverCostsMore**: the tax falls with the discount, the delivery is judged before it, so no choice of
  coupon, rule, rates and edits makes the total larger than without the coupon, nor the discount larger than
  the subtotal. Orders with a negative price are exempt: nothing prevents one (see below), and then tax and
  discount change sign.

Each property has a mutant in `PROJECT.json`: a plausible bug in one definition that the same run
must catch.

## Bounds and fairness

* *Orders.* Two checkouts, one product edit and two items are what a deadlock, a lost update and a contested
  last unit need (a cycle of waits needs two rows, a stale write two writers). Quantities 2 and 1 make one
  item contested and the other sold out by one order. The edit is one of three forms (`Forms`): an item on
  sale with no unit left, a negative number, and a bulk edit that stops counting both rows. The cancel run has
  one order, two item cancellations that may choose the same line, a whole cancellation, a status update, an
  adjustment and an edit, of which at most four requests are served in one behaviour (`FourRequests`), the
  order's own checkout among them. The theorems below have none of these bounds.
* *Flash sales.* Clock 0..3 with every window `start < end`, two runs of the job so that one can be
  stale while the next completes, two units and two reservations of one or two.
* *Categories.* Four allow a subtree of two levels moved below a fourth. One request at a time: the code has
  no transaction here, so overlapping edits do leave mixed paths. `MayLoop = FALSE` leaves out moves below
  oneself, which the run category_cycle shows to break the tree. At most one category is inactive at a time
  (`OneInactive`): it can be above, below or beside every other one.
* *Tokens and sessions.* Two client devices, three tokens in all, one login, one refresh, one logout or operation
  on the account, each a process that serves one call after the other; two operations (a disabling
  and an enabling, say), after the first of which only two tokens are issued in all: a session from before and one
  from after. A third would only repeat the second.
* *Addresses.* Four addresses, two places; `MayUnset = FALSE` leaves out updates that clear the
  default flag by hand, after which there is no default (address.service.ts:86-88).
* *Codes and logins.* A clock 0..4 with cooldown 1, expiry, lock and window 3: a second code can be sent
  while the first is still good, a code can expire and be removed before the end, and a lock can run
  out. One wrong try allowed per code and two failures before a lock, so that each limit is reached
  and overshot. One sender: two that overlap leave two valid codes. AdminGuessesBounded was also
  checked with limits of 3 and 4.
* *Catalogue.* A "desk" is the set of one or two rows per table that one administrator's service edits, with a
  product that uses them: the services do not touch each other's tables except through what products refer to,
  so desks are checked one at a time. Three requests, two of them at once, let one overlap two others; at the
  desk of two variations and a product, which is there for variations made with the product, two requests
  suffice for two products or a product and a variation to compete for a uid. Two slugs make every collision
  possible. At the pricing desks either two edits of coupons and prices, or one of a product, its tax class
  and a rate, fall between the queries of a checkout, or none, with three rates of which two apply: two edits
  are what it takes to remove a coupon and give its code to another. Terms, prices and rules are chosen to sit
  on both sides of every comparison (a coupon worth more than the order, a minimum between the price and the
  discounted price).
* *Deadlock checking* is off only in category_edits, address_default, customer_auth and catalog, which stop when
  every identifier has been used and deleted, the clock has stopped and the account is off, or the edits are
  used up. OrderStock has an explicit step for a quiet server.
* *Fairness.* OrderStock: weak fairness of each accepted request's own steps. Node runs every
  continuation that is ready, PostgreSQL grants a free lock and picks a victim in a deadlock.
  Arrivals and timeouts are not fair: a request may never come, and no request is saved by a
  timeout. FlashSale: weak fairness of the clock and of each statement of the job, which
  `@Cron(EVERY_MINUTE)` starts again and again. The other modules have no fairness and no liveness.

## Proofs

TLAPS proves the theorems below for every value of the constants: any finite or infinite sets of requests, items,
addresses, tables and so on, unless an assumption is named. Each has the name of a property that a run checks. Every
other theorem and lemma in the `_proofs` modules serves these.

| module | theorem | property |
|---|---|---|
| OrderStock_proofs | TypeCorrect, StockNeverNegative, FlagTruthful, CouponCountExact, OrdersNeverUndercharged, LedgerExplains | TypeOK, ManagedNonNegative, InStockTruthful, CouponUsedExact, NeverUndercharged, LedgerExplainsStock |
| | ItemsCancelledOnce, PlacedOrdersCharged | the action properties ItemCancelledOnce, PlacedOrderCharged |
| | OrderBookImplemented | ImplementsOrderBook, the refinement |
| FlashSale_proofs | TypeCorrect, StatusIsTruthful, EveryGrantCounts | TypeOK, StatusFollowsClock, ReservedIsWhatWasGranted |
| | NeverReopened | the action property SalesNeverReopen |
| Sessions_proofs | TypeCorrect, ShutOut | SessionsTypeOK, ShutAccountsHaveNoSessions |
| | OneLivePerFamily, BurnedStaysDead (if OneRefresher) | OneLiveTokenPerFamily, BurnedFamilyStaysDead |
| AddressBook_proofs | TypeCorrect | TypeOK |
| | OneDefaultAtMost, ADefaultAlways (if OneAtATime) | AtMostOneDefault, AlwaysADefault |
| AdminAuth_proofs | TypeCorrect, CodeTriesBounded, LimitLocks, AdminRefusalsBounded | AdminAuthTypeOK, GuessesBounded, LimitBringsLock, AdminGuessesBounded |
| | LockOnlyLiftedByLogin | the action property CustomerLockHolds |
| | OnlyNewestTried, CooldownIsKept (if OneSender) | NewestCodeTried, SendsAreSpaced |
| Catalog_proofs | TypeCorrect, NothingInUse, NothingOrphaned, SlugsStayDistinct | TypeOK, NothingInUseIsRemoved, NoOrphans, SlugsDistinct |
| | DiscountAccountedFor, CouponsNeverCostMore | DiscountIsAccountedFor, CouponNeverCostsMore |
| CategoryTree_proofs | TypeCorrect | TypeOK |
| | IdsStayWithParents, SlugsStayWithNames (if OneAtATime) | IdsFollowParents, SlugsFollowNames |
| | ReadsAgree (if OneAtATime, finitely many categories) | ReadsShowTheTree |
| | NoCycleUnlessAskedFor (if OneAtATime) | NoCycle |

*Hypotheses.* Some theorems hold under a condition on who overlaps with whom, stated in the theorem as ASSUME
and defined in the model. OneRefresher: a client does not refresh twice at a time. OneSender: codes for one
phone are sent one at a time. OneAtATime, in AddressBook: one address request at a time, and none that only
unsets the default; in CategoryTree: one edit at a time, and none that moves a category below itself. TLC
refutes each of these properties without its condition, and the runs above have the same conditions as their
bounds; the code does not enforce them. ReadsAgree also assumes finitely many categories, because the model
counts them to bound the walk. No other theorem has a hypothesis.

*Assumptions on constants* are named in the model's modules and evaluated by TLC: kinds of requests are
disjoint and finite where a cardinality counts them; carts are non-empty sequences with positive quantities
(`checkout.dto.ts`); times, limits and quantities are natural numbers; a failure counter can reach its limit
(FailuresReachTheLimit); tables are disjoint and a row's parent is in the right one (TablesAssumption,
ParentAssumption); the tables that a cart and a tax class are looked up in have finitely many rows
(FiniteTables); the models' null is no value (NoneIsNoSlug, NoneIsNoSnapshot).

The argument is the same everywhere. The property is not inductive; the model ends with an invariant that is, a
conjunction of named parts, which TLC checked before it was proved; the proof has a lemma per action and
part that the action can disturb, and the last step is temporal. What the parts say is what makes the code right:

* **OrderStock.** *JobsOK* ties a request's program counter to its data: whoever works on an order works on
  one that exists, with its cart. *OrdersOK*: an order exists exactly when its checkout is done, so a step of
  one checkout cannot change another's order. *StockOK* extends non-negativity and the flag to pending rows
  and, for rows that are still counted, to the quantity a request has read: this is what makes a stale
  absolute write harmless for the sign, also when a form has changed the quantity since. *CouponOK*: whoever
  holds the coupon row is a checkout about to commit with it, and the other way round. *TotalsOK*: an item
  cancellation about to write has counted at least what will be left. *LedgerOK*: the log and the forms
  account for committed and pending rows alike. *DeletionOK*: a line marked for deletion is still in its
  order, and only one request has it. *ChargesOK*: of every item, a checkout's draft has logged what its lines
  done so far ask for, and at the commit no line is left. The refinement follows from the same parts: OrdersOK
  makes a checkout's commit the placing of an order that was absent, CouponOK ties the counter to it, TotalsOK
  and DeletionOK make an item cancellation's commit the dropping of one line with a bill that covers the rest.
* **FlashSale.** What a run of the job will write was right at the time it read, and time only moves on: a run
  past its reading has a time that the clock has passed. *GrantsOK* keeps the grants of a sale finite and
  numeric; each Reserve adds one element and the counter adds its quantity.
* **Sessions.** *TokensOK*, *RotationsOK*: a rotation between its statements knows its family has no other live
  token and was not burned. *FamiliesSound*: once no revocation is outstanding, every live family, and
  every family that a rotation under way will renew, is one the account still allows, was spared, or is an exception
  that the property names. *EarlyOK*: a sign-in that is not late read what is still true.
* **AddressBook.** *StatementOK* says for each statement of each operation how many defaults there are and
  which: after Clear none or the one being set, before Promote none.
* **AdminAuth, CustomerAuth.** *CodesOK* orders the rows, *LockOK* ties the counter to the lock. For
  GuessesBounded each request that has compared but not counted is added to the counter. AdminGuessesBounded
  rests on a potential: `Alone(n)` and `Both(n)` are how many more refusals one, or two overlapping, sign-ins
  can cause from a counter of n; every refusal lowers it, also the one that lifts the other's lock, because it
  does so from a higher count.
* **Catalog.** The thirty operations are reduced to ten kinds of steps (`Moves`: a request quits, checks, creates,
  rewrites, removes, relinks ...), one lemma per operation, and the kinds to what they can do to rows (`Effects`:
  a row appears or disappears only by its own request or its parent's). *ChecksHold* is the heart of the
  invariant: what a handler checked still holds at its later statements, unless another request met it
  on that row (*MeetingsOK*). *IndexesOK* is the part of the database, without exemption.
* **Pricing.** *CouponsOK*: no two coupons on offer share a code, so that the second reading finds the coupon
  the first one found. *QuoteOK*: what a quote has taken off at each step, and why. *PricesOK* and
  *AmountsOK*: amounts are integers, a discount is between nothing and the subtotal, the delivery is that of
  the subtotal. The rest is arithmetic: a line's tax is monotone in what is taxed (through the rounding of
  `\div`), and so is the sum over the lines. Negative prices are exempt in the property: see below.
* **CategoryTree.** A move makes the rows disagree for as long as its rewriting takes. The invariant speaks of
  the ids that each row will have when the request under way is done (*Final*): those it has, or, for a row
  still *Due*, those spliced. With these the tree is *Rooted* at every moment: each id in a path is live and
  its own path is the part before it; hence no id occurs twice, none in its own path, and indexOf finds the
  only place there is. The write of a move changes all final paths at once (lemma MoveKeepsRoots), the write
  of a rename and each rewriting change none. *EndsInParent* ties paths to parents, *ShowsNames* the slugs to
  the current names of all rows but the *Stale* ones, *KnowsTree* what a request has read to what is there.
  From rooted paths the reads follow: the n-th level below a category holds those that have it n-th from the
  end of their path, and no path is longer than there are categories; in the public tree, those whose path
  from there on is all active. That the walk's recursion is defined at all is proved by a least counterexample
  as well. TLC has checked these parts on the instance of category_edits.
* **SumTheorems.** Sums over finite sets are needed in three places, and the library's induction theorems are out of
  the provers' reach. Its lemmas (SumType, SumSplit, SumMonotone, SumSame, SumNatural, about SumFunctionOnSet of
  the community modules) are proved by a smallest counterexample instead: the set of the subsets for which the claim
  fails would have a minimal element, because strict inclusion is well-founded on finite sets.

Only model-checked: the liveness properties EveryRequestEnds and ActiveSalesEnd (fairness and ENABLED are outside the
prover). Every invariant and every other action property that a run checks is also a theorem.

## Where code and text disagree

Each is a run that TLC ends with a counterexample, and an entry of `findings`.

1. **lost_update** (`inventory.service.ts:86`). Two checkouts read quantity 2, both write 1. Two
   orders, two log entries, one unit deducted.
2. **coupon_limit** (`coupon.service.ts:340`). The limit is compared when pricing; the increment in the
   transaction does not compare again.
3. **category_cycle** (`category.service.ts:758`). The guard looks for the new parent among the moved
   category's *ancestors*. A move below an own descendant passes; a move to an own ancestor is refused.
4. **auth_fingerprint** (`token.service.ts:190`). A device whose fingerprint changed is turned off and
   inserted again, which the unique index refuses; so does every later login from it.

Met while modelling, without a run, because the runs speak of other things or no text says otherwise:

* two flash-sale reservations can together exceed the quantity (flash-sale.service.ts:236, against the
  comment above it); a sale whose window lies between two runs of the job stays SCHEDULED;
* cancelOrder can cancel an order that has just become PROCESSING; two overlapping cancellations restore the
  stock twice;
* two rotations of one token both succeed, and rotation never looks at the account;
* overlapping changes of the default address can leave two;
* every tax rate that matches is charged, although the comment promises the most specific first
  (tax.service.ts:468); checkout passes the division's name where the calculation expects the country
  (order.service.ts:59, order-calculator.service.ts:32), so that only rates for "*" or for a country named like
  the division apply; removing a tax class leaves its rates (line 205); a rate's location is compared with
  case when it is saved and without when it is applied;
* a coupon's categories and its limit per customer are stored, but a checkout compares neither; a coupon with free
  delivery and a discount of zero is ignored (order-calculator.service.ts:66);
* a percentage as special price is only required not to be negative (create-product.dto.ts:131-137), and
  effectivePrice subtracts it as it is (order-validator.service.ts:130-146): above 100 the price is negative;
* a value of a variation is removed without asking whether a variant is made of it (variation.service.ts:363), and a
  product is saved without asking whether what it names has been removed;
* breadcrumbs are asked for with a list of ids where one id is expected (category.service.ts:483 and 550), and
  come back empty.

The services are read against the tables that the migrations make, whose columns they write (city, state, road and
zip of an address, in the address book and in the registration, among them); `prisma/schema.prisma` was edited
ahead of some services and lacks these. Some controllers name service methods that do not exist (flash-sale
findAll, findActive, findOne, update, remove); they are not modelled. product.service.ts as committed does
not compile (a stray brace, a service that is used and not injected); Catalog follows what its methods plainly do.

## What is not modelled

* Listings, search, pagination, except those whose agreement with the stored tree is a property; request
  validation and wording of answers; guards and filters, which keep no state; JWT signing and password
  hashing; file storage; the gateways. Order queries are such reads.
* Code without callers or without a body: reserveStock and releaseReservedStock of the inventory service,
  releaseStock and confirmPurchase of the flash-sale service, updateProductRating and updateProductPriceRange, the
  e-mail codes and the daily limit, the verification of a changed phone number.
* Registration and upgradeGuest. Registration is a lookup and inserts in one transaction, behind a unique index on the
  phone; the address it may insert is the customer's first and the default, as AddressBook's create would make
  it. Nothing in the repository creates the guests that upgradeGuest takes.
* An administrator's role, permissions and profile, a customer's profile: one check and one write of one row.
* Of the catalogue: the counters (reference counts, views, ratings), positions and their reordering, labels and
  colours, SKUs, related, up-sell and cross-sell links, and which categories a product or an attribute is in. No
  condition in the modelled operations depends on them. The reference count is both decremented twice and
  incremented for links that existed (hazard at media.service.ts:205), but no code decides by it.
* Locations and couriers: rows that a checkout looks up.

## Plan

Done, in this order: OrderStock with its proofs (money and goods first), FlashSale, CategoryTree,
AuthTokens, AddressBook, CustomerAuth; then OrderBook with the refinement and its theorem, Catalog, Pricing,
Sessions, AdminAuth and the reads of CategoryTree; then the proofs of all of them, CategoryTree last.

Left, most important first:

1. What holds without the hypotheses: how many defaults overlapping address requests can leave, how many live tokens
   overlapping rotations of a family, and which rows of a subtree two overlapping edits can leave behind.
2. Bounds on the disagreements that are findings: a stock that overlapping checkouts lose differs from the
   ledger by at most what they took; a coupon is used at most as often beyond its limit as checkouts overlap.
