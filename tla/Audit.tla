------------------------------- MODULE Audit -------------------------------
(***************************************************************************)
(* The activity log.  A handler calls logActivity once its own statements  *)
(* have taken effect and before it answers; the INSERT is a statement like *)
(* any other, outside of the handler's transaction, and its error is       *)
(* ignored.  activity_log.client_id refers to the clients table: an entry  *)
(* about a client can be written only while the client's row exists, and   *)
(* ON DELETE SET NULL keeps it, without its client, when the row goes.     *)
(***************************************************************************)
EXTENDS Backend

VARIABLES
  log,    \* the rows of activity_log: action and client_id
  owed,   \* the entry a request has to write before it goes on
  gap     \* history: an entry was lost, by a failed INSERT or by a crash

auditVars == <<vars, log, owed, gap>>

(* The entry of a handler that has succeeded.                              *)
ActionOf == [create |-> "client.create", update |-> "client.update",
             rotate |-> "client.rotate_key", disable |-> "client.disable",
             private |-> "client.private_key_accessed",
             delete |-> "client.delete",
             connection |-> "client.connection_copied",
             register |-> "agent.register"]

Succeeded(q) == q.op \in DOMAIN ActionOf /\ q.pc = "done" /\ q.code \in {200, 201}
Entry(action, c) == [action |-> action, client |-> c]

(* Mutants: the handlers that change nothing log nothing; an answer of 201 *)
(* is not logged.                                                          *)
DueOfChanges(q, p) ==
  CASE Succeeded(p) /\ p.op \notin {"private", "connection"} -> ActionOf[p.op]
    [] q.pc = "di_forget" -> "netbird.peer_deleted"
    [] q.pc = "hb_record" -> "netbird.ssh_enabled"
    [] OTHER -> "none"

DueOf200(q, p) ==
  CASE Succeeded(p) /\ p.code = 200 -> ActionOf[p.op]
    [] q.pc = "di_forget" -> "netbird.peer_deleted"
    [] q.pc = "hb_record" -> "netbird.ssh_enabled"
    [] q.pc = "hb_ack" /\ acked' # acked -> "agent.rotated_applied"
    [] OTHER -> "none"

(* What a request that goes from q to p has to log.                        *)
Due(q, p) ==
  CASE Succeeded(p) -> ActionOf[p.op]
    [] q.pc = "di_forget" -> "netbird.peer_deleted"
    [] q.pc = "hb_record" -> "netbird.ssh_enabled"
    [] q.pc = "hb_ack" /\ acked' # acked -> "agent.rotated_applied"
    [] OTHER -> "none"

(* ON DELETE SET NULL.                                                     *)
SetNull(e) ==
  IF e.client \in Clients /\ status'[e.client] = "deleted"
    THEN Entry(e.action, NoClient) ELSE e

AuditStart(r) ==
  /\ \E c \in Clients : Start(r, c)
  /\ UNCHANGED <<log, owed, gap>>

AuditServe(r) ==
  /\ owed[r] = "none"
  /\ Serve(r)
  /\ owed' = [owed EXCEPT ![r] = Due(req[r], req'[r])]
  /\ log' = {SetNull(e) : e \in log}
  /\ UNCHANGED gap

AuditReceive(r) ==
  /\ owed[r] = "none"
  /\ Receive(r)
  /\ UNCHANGED <<log, owed, gap>>

(* The foreign key makes the INSERT wait for a DELETE of the client's row, *)
(* and fail when the row is gone.                                          *)
LogActivity(r) ==
  LET c == req[r].client IN
  /\ owed[r] # "none"
  /\ \/ /\ ~RowLocked(c)
        /\ log' = IF Live(c) THEN log \cup {Entry(owed[r], c)} ELSE log
        /\ UNCHANGED <<faults, gap>>
     \/ /\ Fault
        /\ gap' = TRUE
        /\ UNCHANGED log
  /\ owed' = [owed EXCEPT ![r] = "none"]
  /\ UNCHANGED <<dbVars, req>>

AuditCrash ==
  /\ ServerCrash
  /\ owed' = [r \in Slots |-> "none"]
  /\ gap' = (gap \/ \E r \in Slots : owed[r] # "none")
  /\ UNCHANGED log

AuditWorld ==
  /\ \E c \in Clients : World(c)
  /\ UNCHANGED <<log, owed, gap>>

AuditInit ==
  /\ Init
  /\ log = {} /\ gap = FALSE
  /\ owed = [r \in Slots |-> "none"]

AuditNext ==
  \/ \E r \in Slots : \/ AuditStart(r) \/ AuditServe(r)
                      \/ LogActivity(r) \/ AuditReceive(r)
  \/ AuditWorld
  \/ AuditCrash

AuditSpec == AuditInit /\ [][AuditNext]_auditVars

---------------------------------------------------------------------------
Owes(c, action) ==
  \E r \in Slots : req[r].client = c /\ owed[r] = action
OnRecord(c, action) == Entry(action, c) \in log \/ Owes(c, action)

(* What the rows of a client tell is explained by the log, as long as no   *)
(* entry was lost: who created it, that its device was registered, that    *)
(* its SSH access was opened and that it was disabled, however the         *)
(* requests interleave.                                                    *)
LogExplainsState ==
  ~gap => \A c \in Clients : Live(c) =>
    /\ OnRecord(c, "client.create")
    /\ issued[c] > 0 => OnRecord(c, "agent.register")
    /\ link[c].enabled => OnRecord(c, "netbird.ssh_enabled")
    /\ status[c] = "disabled" => OnRecord(c, "client.disable")

(* An administrator who has the answer of a sensitive operation, a private *)
(* key among them, has left a trace of it, as long as the client exists.   *)
AnsweredIsLogged ==
  \A r \in Slots :
    LET q == req[r] IN
    Succeeded(q) /\ owed[r] = "none" /\ Live(q.client) /\ ~gap
      => Entry(ActionOf[q.op], q.client) \in log
=============================================================================
