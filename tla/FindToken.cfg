SPECIFICATION Spec
CONSTANTS
  Clients = {c1}
  Keys = {k1}
  Slots = {r1, r2}
  NoClient = NoClient
  NoKey = NoKey
  Fields <- NetbirdLinkFields
  MaxFaults = 0
  Served <- AllOps
INVARIANTS
  OneTimeToken
CHECK_DEADLOCK FALSE
