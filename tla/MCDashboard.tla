---------------------------- MODULE MCDashboard ----------------------------
(* Instances of Dashboard for TLC: the operations served, and symmetry.    *)
EXTENDS Dashboard, TLC

DashboardOps == Ops \ {"none", "rotate", "connection"}
Symmetry == Permutations(Slots) \cup Permutations(Tabs)
=============================================================================
