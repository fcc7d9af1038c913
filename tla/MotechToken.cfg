CONSTANTS
  Clients = {c1, c2}
  Keys = {k1, k2}
  Slots = {r1}
  NoClient = NoClient
  NoKey = NoKey
  NoSlot = NoSlot
  Fields <- NetbirdLinkFields
  MaxFaults = 1
  Served <- TokenOps
  Attempts = 1
  MaxLost = 0
  OthersKeys = {o1}
  MaxTroubles = 1
  Joining = {}
  MaxRestarts = 0
SPECIFICATION FairMotechSpec
PROPERTIES StaleTokenRecovers
CHECK_DEADLOCK FALSE
