CONSTANTS
  Clients = {c1}
  Keys = {k1, k2, k3}
  Slots = {r1, r2}
  NoClient = NoClient
  NoKey = NoKey
  NoSlot = NoSlot
  Fields <- NetbirdLinkFields
  MaxFaults = 0
  Served <- HandshakeOps
  Attempts = 1
  MaxLost = 0
  OthersKeys = {o1}
  MaxTroubles = 0
  Joining = {}
  MaxRestarts = 0
SPECIFICATION MotechSpec
SYMMETRY Symmetry
INVARIANT RotatedOkIsLatestKey
CHECK_DEADLOCK FALSE
