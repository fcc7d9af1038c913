CONSTANTS
  Clients = {c1}
  Keys = {k1, k2, k3}
  Slots = {r1, r2}
  NoClient = NoClient
  NoKey = NoKey
  NoSlot = NoSlot
  Fields <- NetbirdLinkFields
  MaxFaults = 1
  Served <- HandshakeOps
  Attempts = 1
  MaxLost = 1
  OthersKeys = {o1}
  MaxTroubles = 1
  Joining = {}
  MaxRestarts = 1
SPECIFICATION MotechSpec
INVARIANTS MotechTypeOK ConfirmedKeyIsInstalled OldKeysAreRevoked AnswersCarryKey
PROPERTIES OthersKeysKept
SYMMETRY Symmetry
CHECK_DEADLOCK FALSE
