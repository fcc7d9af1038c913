----------------------------- MODULE Dashboard -----------------------------
(***************************************************************************)
(* The parts of the server behind the pages of the dashboard, next to each *)
(* other.  They share no row: the accounts, the activity log of the        *)
(* clients' requests, and the presence of a machine.  A behaviour is of    *)
(* one page, so that their instances add up instead of multiplying.        *)
(***************************************************************************)
EXTENDS Audit, Accounts, Presence, FiniteSets

VARIABLE page

Pages == {"account", "clients", "requests", "agents"}
dashboard == <<auditVars, accounts, presence, page>>

DashboardInit ==
  /\ AuditInit /\ AccountsInit /\ PresenceInit
  /\ page \in Pages

(* The administrators' requests and the registrations, two at a time; and  *)
(* the agents' heartbeats among them, one request at a time.               *)
ServedOn(p, op) ==
  CASE p = "requests" -> op \notin {"heartbeat", "update"}
    [] p = "agents" -> op \notin {"private", "delete"}
Pace(p) == IF p = "agents" THEN 1 ELSE 2

RequestsNext ==
  /\ AuditNext
  /\ \A r \in Slots : ServedOn(page, req'[r].op)
  /\ Cardinality({r \in Slots : req'[r].pc # "idle"}) <= Pace(page)

DashboardNext ==
  /\ UNCHANGED page
  /\ \/ /\ page \in {"requests", "agents"} /\ RequestsNext
        /\ UNCHANGED <<accounts, presence>>
     \/ /\ page = "account" /\ AccountsNext
        /\ UNCHANGED <<auditVars, presence>>
     \/ /\ page = "clients" /\ PresenceNext
        /\ UNCHANGED <<auditVars, accounts>>

DashboardSpec == DashboardInit /\ [][DashboardNext]_dashboard
=============================================================================
