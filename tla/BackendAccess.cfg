SPECIFICATION Spec
CONSTANTS
  Clients = {c1}
  Keys = {k1, k2}
  Slots = {r1, r2}
  NoClient = NoClient
  NoKey = NoKey
  Fields <- LinkColumns
  MaxFaults = 1
  Served <- AccessOps
SYMMETRY Symmetry
INVARIANT TypeOK
PROPERTIES DisableSticks PeerForgottenOnlyIfRemoved
CHECK_DEADLOCK FALSE
