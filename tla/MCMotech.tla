------------------------------ MODULE MCMotech ------------------------------
(* Instances of Motech for TLC.                                            *)
EXTENDS Motech, TLC

HandshakeOps == {"create", "rotate"}
Symmetry == Permutations(Slots) \cup Permutations(Keys)
TokenOps == {"create", "delete"}
LiveOps == {"create", "rotate", "delete", "disable", "connection"}
=============================================================================
