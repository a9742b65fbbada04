SPECIFICATION PricingSpec
CONSTANTS
  b1 = b1  b2 = b2  t1 = t1  t2 = t2  s1 = s1  a1 = a1  a2 = a2  w1 = w1  y1 = y1  y2 = y2
  z1 = z1  c1 = c1  x1 = x1  x2 = x2  x3 = x3  p1 = p1  p2 = p2  v1 = v1  m1 = m1  m2 = m2
  k1 = k1  k2 = k2
  r1 = r1  r2 = r2  r3 = r3
  Brands = {b1, b2}
  Tags = {t1, t2}
  AttributeSets = {s1}
  Attributes = {a1, a2}
  AttributeValues = {w1}
  Variations = {y1, y2}
  VariationValues = {z1}
  TaxClasses = {c1}
  TaxRates = {x1, x2, x3}
  Products = {p1, p2}
  Variants = {v1}
  Media = {m1, m2}
  Parent <- MCParent
  Slugs = {"one", "two"}
  None = None
  Desks <- MCDesks
  Requests = {r1, r2, r3}
  Overlap = 2
  Budget <- MCBudget
  Coupons = {k1, k2}
  Codes = {"A"}
  Terms <- MCTerms
  Prices <- MCPrices
  ShippingRules <- MCShippingRules
  RateValue <- MCRateValue
  RateLocation <- MCRateLocation
  PricingDesks <- MCPricingDesks
  MaxEdits <- MCMaxEdits
SYMMETRY MCSymmetry
CHECK_DEADLOCK FALSE
INVARIANTS
  TypeOK NothingInUseIsRemoved NoOrphans SlugsDistinct
  DiscountIsAccountedFor CouponNeverCostsMore
