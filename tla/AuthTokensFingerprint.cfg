\* One client logs in again from another browser and address.
CONSTANTS
  NoClient = NoClient
  Clients = {c1, c2}
  MaxTokens = 3
  Logins = {l1}
  Refreshes = {f1}
  Logouts = {}
SPECIFICATION Spec
INVARIANT ChangedDeviceLogsIn
