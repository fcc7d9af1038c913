CONSTANTS
  Clients = {c1}
  Keys = {k1, k2}
  Slots = {r1}
  NoClient = NoClient
  NoKey = NoKey
  NoSlot = NoSlot
  Fields <- NetbirdLinkFields
  MaxFaults = 0
  Served <- LiveOps
  Attempts = 1
  MaxLost = 1
  OthersKeys = {o1}
  MaxTroubles = 1
  Joining = {c1}
  MaxRestarts = 1
SPECIFICATION FairMotechSpec
PROPERTIES RotationReachesDevice ConfirmEnds SshGetsApplied
CHECK_DEADLOCK FALSE
