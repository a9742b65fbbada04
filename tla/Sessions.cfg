\* A client that refreshes one token at a time, with a sign-in and a logout or an operation on
\* the account under way.
CONSTANTS
  NoClient = NoClient
  Clients = {c1, c2}
  MaxTokens = 3
  Logins = {l1}
  Refreshes = {f1}
  Logouts = {o1}
  MaxOperations = 2
SPECIFICATION SessionsSpec
INVARIANTS SessionsTypeOK OneLiveTokenPerFamily BurnedFamilyStaysDead ShutAccountsHaveNoSessions
CONSTRAINT FewerTokensUnderOperations
SYMMETRY ClientIds
