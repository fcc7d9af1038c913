SPECIFICATION Spec
CONSTANTS
  Clients = {c1}
  Keys = {k1, k2, k3}
  Slots = {r1, r2}
  NoClient = NoClient
  NoKey = NoKey
  Fields <- NetbirdLinkFields
  MaxFaults = 0
  Served <- KeyOps
INVARIANTS
  SingleActiveKey
CHECK_DEADLOCK FALSE
