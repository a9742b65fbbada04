\* One move below the category's own descendant.
CONSTANTS
  Root = Root
  Categories = {a, b}
  Requests = {r1}
  MayLoop = TRUE
SPECIFICATION Spec
INVARIANT NoCycle
