\* Two checkouts of one item: is every deduction kept?
CONSTANTS
  NoOne = NoOne
  i1 = i1
  i2 = i2
  Items = {i1, i2}
  Managed = {i1, i2}
  InitQty <- TwoAndOne
  Carts <- SingleCarts
  AdjustQtys = {}
  CouponLimit = 0
  NewStatuses = {}
  Checkouts = {c1, c2}
  Cancels = {}
  ItemCancels = {}
  StatusUpdates = {}
  Adjusts = {}
  EditForms = {}
  Edits = {}
SPECIFICATION Spec
INVARIANTS StockConserved
