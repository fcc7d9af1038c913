SPECIFICATION Spec
CONSTANTS
  Clients = {c1}
  Keys = {k1}
  Slots = {r1}
  NoClient = NoClient
  NoKey = NoKey
  Fields <- NetbirdLinkFields
  MaxFaults = 0
  Served <- AllOps
INVARIANTS
  EnabledMeansNbSsh
CHECK_DEADLOCK FALSE
