\* One request at a time: every tree of four categories, moved, renamed and removed.
\* Once every id is deleted there is nothing left to edit, hence no deadlock check.
CONSTANTS
  Root = Root
  a = a
  b = b
  c = c
  d = d
  Categories = {a, b, c, d}
  Requests = {r1}
  MayLoop = FALSE
SPECIFICATION Spec
INVARIANTS TypeOK IdsFollowParents SlugsFollowNames ReadsShowTheTree
CONSTRAINT OneInactive
SYMMETRY Ids
CHECK_DEADLOCK FALSE
