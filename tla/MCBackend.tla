----------------------------- MODULE MCBackend -----------------------------
(* Instances of Backend for TLC: the operations a run serves.              *)
EXTENDS BackendRegistry, TLC

AllOps == Ops \ {"none"}
KeyOps == {"create", "rotate", "delete", "update", "connection", "private"}
WithdrawOps == {"create", "register", "heartbeat", "disable", "delete"}
AccessOps == {"create", "rotate", "disable", "register", "heartbeat"}
Symmetry == Permutations(Slots) \cup Permutations(Keys) \cup Permutations(Clients)
=============================================================================
