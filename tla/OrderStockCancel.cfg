\* An order cancelled as a whole and line by line while an admin moves it on, adjusts the
\* stock or edits the products: any four of these requests.
CONSTANTS
  NoOne = NoOne
  i1 = i1
  i2 = i2
  Items = {i1, i2}
  Managed = {i1}
  InitQty <- TwoAndOne
  Carts <- CancelCarts
  AdjustQtys = {0}
  CouponLimit = 0
  NewStatuses = {"PENDING", "PROCESSING"}
  Checkouts = {c1}
  Cancels = {x1}
  ItemCancels = {y1, y2}
  StatusUpdates = {s1}
  Adjusts = {a1}
  EditForms <- Forms
  Edits = {e1}
SPECIFICATION Spec
INVARIANTS NeverUndercharged InStockTruthful LedgerExplainsStock
PROPERTIES ItemCancelledOnce PlacedOrderCharged ImplementsOrderBook
CONSTRAINT FourRequests
SYMMETRY TwinCancels
