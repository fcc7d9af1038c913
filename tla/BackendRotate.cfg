CONSTANTS
  Clients = {c1}
  Keys = {k1, k2, k3}
  Slots = {r1, r2}
  NoClient = NoClient
  NoKey = NoKey
  Fields <- NetbirdLinkFields
  MaxFaults = 1
  Served <- KeyOps
SPECIFICATION FairSpec
INVARIANTS ClientIsComplete SerialRotationsKeepOneKey
PROPERTIES RefinesRegistry RequestsFinish
CHECK_DEADLOCK FALSE
