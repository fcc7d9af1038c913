CONSTANTS
  Clients = {c1}
  Keys = {k1}
  Slots = {r1}
  NoClient = NoClient
  NoKey = NoKey
  NoSlot = NoSlot
  Fields <- NetbirdLinkFields
  MaxFaults = 0
  Served <- HandshakeOps
  Attempts = 2
  MaxLost = 1
  OthersKeys = {o1}
  MaxTroubles = 1
  Joining = {}
  MaxRestarts = 0
SPECIFICATION MotechSpec
INVARIANT RegisterSurvivesBlip
CHECK_DEADLOCK FALSE
