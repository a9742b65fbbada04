\* Two checkouts with a coupon that may be used once.
CONSTANTS
  NoOne = NoOne
  i1 = i1
  i2 = i2
  Items = {i1, i2}
  Managed = {i1, i2}
  InitQty <- TwoAndOne
  Carts <- SingleCarts
  AdjustQtys = {}
  CouponLimit = 1
  NewStatuses = {}
  Checkouts = {c1, c2}
  Cancels = {}
  ItemCancels = {}
  StatusUpdates = {}
  Adjusts = {}
  EditForms = {}
  Edits = {}
SPECIFICATION Spec
INVARIANTS CouponWithinLimit
