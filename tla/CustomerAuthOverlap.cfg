\* One sender, two overlapping uses of a code, two password logins; or two sign-ins of an administrator.
\* When the clock has stopped and the account is off nothing is left to do, hence no deadlock check.
CONSTANTS
  Sends = {s1}
  Verifies = {v1, v2}
  Logins = {g1, g2}
  Cooldown = 1
  Expiry = 3
  Window = 3
  MaxPerWindow = 2
  MaxAttempts = 1
  MaxLoginAttempts = 2
  LockFor = 3
  Horizon = 4
  MaxCodes = 2
  MaxFailures = 2
SPECIFICATION AdminAuthSpec
INVARIANTS AdminAuthTypeOK NewestCodeTried GuessesBounded SendsAreSpaced LimitBringsLock AdminGuessesBounded
PROPERTY CustomerLockHolds
SYMMETRY SameKind
CHECK_DEADLOCK FALSE
