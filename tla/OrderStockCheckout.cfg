\* Overlapping checkouts of the last units in opposite lock orders, beside a product edit.
CONSTANTS
  NoOne = NoOne
  i1 = i1
  i2 = i2
  Items = {i1, i2}
  Managed = {i1, i2}
  InitQty <- TwoAndOne
  Carts <- CrossedCarts
  AdjustQtys = {}
  CouponLimit = 1
  NewStatuses = {}
  Checkouts = {c1, c2}
  Cancels = {}
  ItemCancels = {}
  StatusUpdates = {}
  Adjusts = {}
  EditForms <- Forms
  Edits = {e1}
SPECIFICATION FairSpec
INVARIANTS TypeOK ManagedNonNegative CouponUsedExact
PROPERTIES EveryRequestEnds
