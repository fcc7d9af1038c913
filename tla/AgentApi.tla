------------------------------ MODULE AgentApi ------------------------------
(***************************************************************************)
(* The handlers the device agents call: AgentRegister, which redeems the   *)
(* one-time setup token, and AgentHeartbeat, which records what the agent  *)
(* reports and answers with the pending commands.  Every statement in them *)
(* commits by itself, and most of their errors are ignored: a statement    *)
(* that fails has no effect and the handler goes on.                       *)
(***************************************************************************)
EXTENDS BackendState

---------------------------------------------------------------------------
(* AgentRegister.                                                          *)

StartRegister(r, c) ==
  /\ status[c] # "absent"
  /\ Begin(r, "register", "rg_token", c)
  /\ UNCHANGED <<dbVars, faults>>

CheckToken(r) ==
  LET c == req[r].client IN
  /\ At(r, "rg_token")
  /\ \E ok \in BOOLEAN :
       /\ Got(ok)
       /\ CASE ~ok \/ token[c] = "none" -> Respond(r, 401)
            [] ok /\ token[c] = "used" -> Respond(r, 409)
            [] ok /\ token[c] = "unused" /\ expired[c] -> Respond(r, 410)
            [] OTHER -> Goto(r, "rg_used")
  /\ UNCHANGED dbVars

MarkTokenUsed(r) ==
  LET c == req[r].client IN
  /\ At(r, "rg_used")
  /\ \/ /\ token' = [token EXCEPT ![c] = IF @ = "none" THEN @ ELSE "used"]
        /\ expired' = [expired EXCEPT ![c] = FALSE]
        /\ UNCHANGED faults
     \/ Fault /\ UNCHANGED <<token, expired>>
  /\ Goto(r, "rg_online")
  /\ UNCHANGED <<status, keyVars, sideVars>>

RegisterOnline(r) ==
  LET c == req[r].client IN
  /\ At(r, "rg_online")
  /\ \/ /\ status' = [status EXCEPT ![c] = IF Live(c) THEN "online" ELSE @]
        /\ UNCHANGED faults
     \/ Fault /\ UNCHANGED status
  /\ Goto(r, "rg_setup")
  /\ UNCHANGED <<token, expired, keyVars, sideVars>>

ReadSetupKey(r) ==
  /\ At(r, "rg_setup")
  /\ \E ok \in BOOLEAN :
       /\ Got(ok)
       /\ Put(r, [req[r] EXCEPT !.pc = "rg_key",
                                !.setup = ok /\ link[req[r].client].row])
  /\ UNCHANGED dbVars

IssueAgentToken(r) ==
  LET c == req[r].client IN
  /\ At(r, "rg_key")
  /\ \E ok \in BOOLEAN : \E k \in ReadKey(c, ok) :
       /\ Got(ok)
       /\ Put(r, [req[r] EXCEPT !.pc = "done", !.code = 200, !.key = k])
  /\ issued' = [issued EXCEPT ![c] = @ + 1]
  /\ UNCHANGED <<clientVars, keyVars, link, nb>>

---------------------------------------------------------------------------
(* AgentHeartbeat: the body has the NetBird IP of the device, if it knows  *)
(* one, and says whether it has installed the pushed key (rotated_ok) and  *)
(* whether it has restarted NetBird with its SSH server (ssh_applied).     *)

StartHeartbeat(r, c, peer, rotated, applied) ==
  /\ issued[c] > 0
  /\ At(r, "idle")
  /\ Put(r, [Idle EXCEPT !.op = "heartbeat", !.pc = "hb_read", !.client = c,
               !.peer = peer, !.rotated = rotated, !.applied = applied])
  /\ UNCHANGED <<dbVars, faults>>

ReadStatus(r) ==
  LET c == req[r].client IN
  /\ At(r, "hb_read")
  /\ \E ok \in BOOLEAN :
       /\ Got(ok)
       /\ IF ok /\ Live(c)
            THEN Put(r, [req[r] EXCEPT !.seen = status[c],
                     !.pc = IF req[r].peer # NoClient THEN "hb_peer"
                                                      ELSE "hb_applied"])
            ELSE Respond(r, 401)
  /\ UNCHANGED dbVars

RecordPeer(r) ==
  LET c == req[r].client IN
  /\ At(r, "hb_peer")
  /\ \/ /\ link' = [link EXCEPT ![c].peer =
                      IF link[c].row THEN req[r].peer ELSE @]
        /\ UNCHANGED faults
     \/ Fault /\ UNCHANGED link
  /\ Goto(r, "hb_enabled")
  /\ UNCHANGED <<clientVars, keyVars, nb, issued>>

ReadAlreadyEnabled(r) ==
  /\ At(r, "hb_enabled")
  /\ \E ok \in BOOLEAN :
       /\ Got(ok)
       /\ Goto(r, IF ok /\ link[req[r].client].enabled THEN "hb_applied"
                                                        ELSE "hb_nbssh")
  /\ UNCHANGED dbVars

(* EnableSSH looks the peer up by its IP and reports success, having done  *)
(* nothing, when NetBird does not list it.                                 *)
EnableSSH(r) ==
  LET d == req[r].peer IN
  /\ At(r, "hb_nbssh")
  /\ \/ /\ nb' = [nb EXCEPT ![d].ssh = nb[d].peer]
        /\ Goto(r, "hb_record")
        /\ UNCHANGED faults
     \/ Fault /\ Goto(r, "hb_applied") /\ UNCHANGED nb
  /\ UNCHANGED <<clientVars, keyVars, link, issued>>

RecordEnabled(r) ==
  LET c == req[r].client IN
  /\ At(r, "hb_record")
  /\ \/ /\ link' = [link EXCEPT ![c].enabled = link[c].row]
        /\ UNCHANGED faults
     \/ Fault /\ UNCHANGED link
  /\ Goto(r, "hb_applied")
  /\ UNCHANGED <<clientVars, keyVars, nb, issued>>

RecordApplied(r) ==
  LET c == req[r].client IN
  /\ At(r, "hb_applied")
  /\ \/ /\ link' = [link EXCEPT ![c].applied =
                      IF req[r].applied THEN link[c].row ELSE @]
        /\ UNCHANGED faults
     \/ req[r].applied /\ Fault /\ UNCHANGED link
  /\ Put(r, [req[r] EXCEPT !.pc = "hb_ack", !.peer = NoClient, !.applied = FALSE])
  /\ UNCHANGED <<clientVars, keyVars, nb, issued>>

(* rotated_ok names no key: it confirms every active one.                  *)
AcknowledgeRotation(r) ==
  LET c == req[r].client IN
  /\ At(r, "hb_ack")
  /\ \/ /\ acked' = IF req[r].rotated THEN acked \cup active[c] ELSE acked
        /\ UNCHANGED faults
     \/ req[r].rotated /\ Fault /\ UNCHANGED acked
  /\ Put(r, [req[r] EXCEPT !.pc = "hb_online", !.rotated = FALSE])
  /\ UNCHANGED <<clientVars, active, generated, overlap, sideVars>>

(* Mutant: the status that was read does not matter.                       *)
AlwaysOnline(r) ==
  LET c == req[r].client IN
  /\ At(r, "hb_online")
  /\ status' = [status EXCEPT ![c] = IF Live(c) THEN "online" ELSE @]
  /\ Goto(r, "hb_pending")
  /\ UNCHANGED <<token, expired, keyVars, sideVars, faults>>

HeartbeatOnline(r) ==
  LET c == req[r].client IN
  /\ At(r, "hb_online")
  /\ IF req[r].seen # "disabled"
       THEN \/ /\ status' = [status EXCEPT ![c] = IF Live(c) THEN "online" ELSE @]
               /\ UNCHANGED faults
            \/ Fault /\ UNCHANGED status
       ELSE UNCHANGED <<status, faults>>
  /\ Goto(r, "hb_pending")
  /\ UNCHANGED <<token, expired, keyVars, sideVars>>

PendingKeys(c) == active[c] \ acked

ReadPendingRotation(r) ==
  /\ At(r, "hb_pending")
  /\ \E ok \in BOOLEAN :
       LET pending == ok /\ PendingKeys(req[r].client) # {} IN
       /\ Got(ok)
       /\ Put(r, [req[r] EXCEPT !.rotate = pending,
                                !.pc = IF pending THEN "hb_pub" ELSE "hb_ssh"])
  /\ UNCHANGED dbVars

ReadInstallPub(r) ==
  /\ At(r, "hb_pub")
  /\ \E ok \in BOOLEAN : \E k \in ReadKey(req[r].client, ok) :
       /\ Got(ok)
       /\ Put(r, [req[r] EXCEPT !.pc = "hb_ssh", !.key = k])
  /\ UNCHANGED dbVars

ReadSshEnabled(r) ==
  /\ At(r, "hb_ssh")
  /\ \E ok \in BOOLEAN :
       /\ Got(ok)
       /\ Put(r, [req[r] EXCEPT !.pc = "hb_reply",
                                !.enabled = ok /\ link[req[r].client].enabled])
  /\ UNCHANGED dbVars

ReplyHeartbeat(r) ==
  LET c == req[r].client IN
  /\ At(r, "hb_reply")
  /\ \E ok \in BOOLEAN :
       /\ Got(ok)
       /\ Put(r, [req[r] EXCEPT !.pc = "done", !.code = 200, !.enabled = FALSE,
                    !.apply = req[r].enabled /\ ~(ok /\ link[c].applied)])
  /\ UNCHANGED dbVars

---------------------------------------------------------------------------
StepAgent(r) ==
  \/ CheckToken(r) \/ MarkTokenUsed(r) \/ RegisterOnline(r)
  \/ ReadSetupKey(r) \/ IssueAgentToken(r)
  \/ ReadStatus(r) \/ RecordPeer(r) \/ ReadAlreadyEnabled(r)
  \/ EnableSSH(r) \/ RecordEnabled(r) \/ RecordApplied(r)
  \/ AcknowledgeRotation(r) \/ HeartbeatOnline(r)
  \/ ReadPendingRotation(r) \/ ReadInstallPub(r)
  \/ ReadSshEnabled(r) \/ ReplyHeartbeat(r)
=============================================================================
