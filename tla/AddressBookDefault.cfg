\* One request at a time, every history of four addresses.
\* Once all are created and deleted there is nothing left to do, hence no deadlock check.
CONSTANTS
  MaxAddresses = 4
  Places = {p1, p2}
  Requests = {r1}
  MayUnset = FALSE
SPECIFICATION Spec
INVARIANTS TypeOK AtMostOneDefault AlwaysADefault
CHECK_DEADLOCK FALSE
