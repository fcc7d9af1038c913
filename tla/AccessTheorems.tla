--------------------------- MODULE AccessTheorems ---------------------------
(***************************************************************************)
(* What disabling a client and what the heartbeats do to its access,       *)
(* proved for every value of the constants: a settled disable sticks, and  *)
(* the peer of a client is forgotten only when NetBird has removed it.     *)
(***************************************************************************)
EXTENDS BackendTheorems

---------------------------------------------------------------------------
(* What a statement leaves of its request: the client, the peer, and for a *)
(* heartbeat on its way to the UPDATE of the status the one it has read.   *)
LEMMA GotoSeen ==
  ASSUME TypeOK, NEW r \in Slots, ~At(r, "idle"), NEW p \in PCs, Goto(r, p)
  PROVE  /\ OthersStay(r) /\ req'[r].client = req[r].client
         /\ req'[r].pc = p /\ req'[r].seen = req[r].seen
         /\ req'[r].peer = req[r].peer
<1>1. RequestsOK /\ req[r] \in Requests
  BY DEF TypeOK, RequestsOK
<1> DEFINE s == [req[r] EXCEPT !.pc = p]
<1>2. s.seen = req[r].seen /\ s.peer = req[r].peer
  BY <1>1 DEF Requests
<1>3. req'[r] = s
  BY <1>1 DEF Goto, Put, RequestsOK
<1> QED BY <1>1, <1>2, <1>3, GotoOK

(* The steps of the agents' handlers: where they come from.                *)
AgentMove(r) ==
  LET q == req[r]
      n == req'[r] IN
  /\ OthersStay(r) /\ n.client = q.client
  /\ n.pc \notin CleanPCs \cup {"hb_read", "di_peer", "di_forget", "cc_setup"}
  /\ n.pc \in RegisterPCs => q.pc \in RegisterPCs
  /\ n.pc = "rg_used" => token[q.client] = "unused"
  /\ n.pc = "rg_online" => q.pc = "rg_used"
  /\ n.pc \in EnablePCs => /\ n.peer = q.peer
                           /\ \/ q.pc \in EnablePCs
                              \/ q.pc = "hb_read" /\ q.peer # NoClient
  /\ n.pc \in BeatPCs => \/ q.pc \in BeatPCs /\ n.seen = q.seen
                         \/ q.pc = "hb_read" /\ n.seen = status[q.client]

(* Every step of an agent's handler is such a move.                        *)
LEMMA AgentMoves ==
  ASSUME TypeOK, NEW r \in Slots, StepAgent(r)
  PROVE  AgentMove(r)
<1> USE DEF RegisterPCs, EnablePCs, BeatPCs, CleanPCs
<1> DEFINE c == req[r].client
<1>t. RequestsOK /\ req[r] \in Requests
  BY DEF TypeOK, RequestsOK
<1>o. OthersStay(r)
  BY AgentQuiet DEF Quiet
<1>g. ASSUME NEW p \in PCs, Goto(r, p), ~At(r, "idle")
      PROVE  /\ OthersStay(r) /\ req'[r].client = c
             /\ req'[r].pc = p /\ req'[r].seen = req[r].seen
             /\ req'[r].peer = req[r].peer
  BY <1>g, GotoSeen
<1>d. ASSUME NEW code \in Codes, Respond(r, code), ~At(r, "idle")
      PROVE  AgentMove(r)
  BY <1>d, <1>t, RespondOK DEF Quiet, AgentMove
<1>e. ASSUME OthersStay(r), req'[r].client = c,
             req'[r].pc \in {"done", "hb_pending", "hb_pub", "hb_ssh", "hb_reply"}
      PROVE  AgentMove(r)
  BY <1>e DEF AgentMove
<1>1. CASE CheckToken(r)
  <2>1. /\ ~At(r, "idle") /\ At(r, "rg_token")
        /\ \/ Respond(r, 401) \/ Respond(r, 409) \/ Respond(r, 410)
           \/ Goto(r, "rg_used") /\ token[c] \notin {"none", "used"}
    BY <1>1 DEF CheckToken, At
  <2>2. Goto(r, "rg_used") /\ token[c] \notin {"none", "used"} => token[c] = "unused"
    <3>1. c \in Clients
      BY <2>1, <1>t DEF RequestsOK
    <3> QED BY <3>1 DEF TypeOK, RowsOK
  <2>3. Goto(r, "rg_used") /\ token[c] = "unused" => AgentMove(r)
    BY <2>1, <1>g, Names DEF AgentMove, At
  <2> QED BY <2>1, <2>2, <2>3, <1>d, Names
<1>2. CASE MarkTokenUsed(r)
  <2>1. At(r, "rg_used") /\ ~At(r, "idle") /\ Goto(r, "rg_online")
    BY <1>2 DEF MarkTokenUsed, At
  <2> QED BY <2>1, <1>g, Names DEF AgentMove, At
<1>3. CASE RegisterOnline(r)
  <2>1. At(r, "rg_online") /\ ~At(r, "idle") /\ Goto(r, "rg_setup")
    BY <1>3 DEF RegisterOnline, At
  <2> QED BY <2>1, <1>g, Names DEF AgentMove, At
<1>4. CASE ReadSetupKey(r)
  <2> DEFINE s(x) == [req[r] EXCEPT !.pc = "rg_key", !.setup = x]
  <2>1. At(r, "rg_setup") /\ \E ok \in BOOLEAN : req'[r] = s(ok /\ link[c].row)
    BY <1>4, <1>t DEF ReadSetupKey, Put, RequestsOK
  <2>2. \A x : s(x).pc = "rg_key" /\ s(x).client = c
    BY <1>t DEF Requests
  <2> HIDE DEF s
  <2>3. req'[r].pc = "rg_key" /\ req'[r].client = c
    BY <2>1, <2>2
  <2> QED BY <2>1, <2>3, <1>o DEF AgentMove, At
<1>5. CASE IssueAgentToken(r)
  <2> DEFINE s(k) == [req[r] EXCEPT !.pc = "done", !.code = 200, !.key = k]
  <2>1. \E k : req'[r] = s(k)
    BY <1>5, <1>t DEF IssueAgentToken, Put, RequestsOK
  <2>2. \A k : s(k).pc = "done" /\ s(k).client = c
    BY <1>t DEF Requests
  <2> HIDE DEF s
  <2>3. req'[r].pc = "done" /\ req'[r].client = c
    BY <2>1, <2>2
  <2> QED BY <2>3, <1>e, <1>o
<1>6. CASE ReadStatus(r)
  <2> DEFINE s(p) == [req[r] EXCEPT !.seen = status[c], !.pc = p]
  <2>1. /\ At(r, "hb_read") /\ ~At(r, "idle")
        /\ \/ Respond(r, 401)
           \/ req' = [req EXCEPT ![r] = s(IF req[r].peer # NoClient THEN "hb_peer" ELSE "hb_applied")]
    BY <1>6 DEF ReadStatus, Put, At
  <2>2. \A p : /\ s(p).pc = p /\ s(p).client = c
               /\ s(p).seen = status[c] /\ s(p).peer = req[r].peer
    BY <1>t DEF Requests
  <2> HIDE DEF s
  <2>3. ASSUME req' = [req EXCEPT ![r] = s(IF req[r].peer # NoClient THEN "hb_peer" ELSE "hb_applied")]
        PROVE  AgentMove(r)
    <3>1. req'[r] = s(IF req[r].peer # NoClient THEN "hb_peer" ELSE "hb_applied")
      BY <2>3, <1>t DEF RequestsOK
    <3>2. /\ req'[r].pc = IF req[r].peer # NoClient THEN "hb_peer" ELSE "hb_applied"
          /\ req'[r].client = c /\ req'[r].seen = status[c]
          /\ req'[r].peer = req[r].peer
      BY <2>2, <3>1
    <3> QED BY <2>1, <3>2, <1>o DEF AgentMove, At
  <2> QED BY <2>1, <2>3, <1>d, Names
<1>7. CASE RecordPeer(r)
  <2>1. At(r, "hb_peer") /\ ~At(r, "idle") /\ Goto(r, "hb_enabled")
    BY <1>7 DEF RecordPeer, At
  <2> QED BY <2>1, <1>g, Names DEF AgentMove, At
<1>8. CASE ReadAlreadyEnabled(r)
  <2>1. /\ At(r, "hb_enabled") /\ ~At(r, "idle")
        /\ Goto(r, "hb_applied") \/ Goto(r, "hb_nbssh")
    BY <1>8 DEF ReadAlreadyEnabled, At
  <2> QED BY <2>1, <1>g, Names DEF AgentMove, At
<1>9. CASE EnableSSH(r)
  <2>1. /\ At(r, "hb_nbssh") /\ ~At(r, "idle")
        /\ Goto(r, "hb_record") \/ Goto(r, "hb_applied")
    BY <1>9 DEF EnableSSH, At
  <2> QED BY <2>1, <1>9, <1>g, Names DEF AgentMove, At
<1>10. CASE RecordEnabled(r)
  <2>1. At(r, "hb_record") /\ ~At(r, "idle") /\ Goto(r, "hb_applied")
    BY <1>10 DEF RecordEnabled, At
  <2> QED BY <2>1, <1>g, Names DEF AgentMove, At
<1>11. CASE RecordApplied(r)
  <2> DEFINE s == [req[r] EXCEPT !.pc = "hb_ack", !.peer = NoClient, !.applied = FALSE]
  <2>1. At(r, "hb_applied") /\ req'[r] = s
    BY <1>11, <1>t DEF RecordApplied, Put, RequestsOK
  <2>2. s.pc = "hb_ack" /\ s.client = c /\ s.seen = req[r].seen
    BY <1>t DEF Requests
  <2> HIDE DEF s
  <2> QED BY <2>1, <2>2, <1>o DEF AgentMove, At
<1>12. CASE AcknowledgeRotation(r)
  <2> DEFINE s == [req[r] EXCEPT !.pc = "hb_online", !.rotated = FALSE]
  <2>1. At(r, "hb_ack") /\ req'[r] = s
    BY <1>12, <1>t DEF AcknowledgeRotation, Put, RequestsOK
  <2>2. s.pc = "hb_online" /\ s.client = c /\ s.seen = req[r].seen
    BY <1>t DEF Requests
  <2> HIDE DEF s
  <2> QED BY <2>1, <2>2, <1>o DEF AgentMove, At
<1>13. CASE HeartbeatOnline(r)
  <2>1. ~At(r, "idle") /\ Goto(r, "hb_pending")
    BY <1>13 DEF HeartbeatOnline, At
  <2> QED BY <2>1, <1>g, <1>e, Names
<1>14. CASE ReadPendingRotation(r)
  <2> DEFINE s(x, p) == [req[r] EXCEPT !.rotate = x, !.pc = p]
  <2>1. \E x, p : p \in {"hb_pub", "hb_ssh"} /\ req'[r] = s(x, p)
    BY <1>14, <1>t DEF ReadPendingRotation, Put, RequestsOK
  <2>2. \A x, p : s(x, p).pc = p /\ s(x, p).client = c
    BY <1>t DEF Requests
  <2> HIDE DEF s
  <2>3. req'[r].pc \in {"hb_pub", "hb_ssh"} /\ req'[r].client = c
    BY <2>1, <2>2
  <2> QED BY <2>3, <1>e, <1>o
<1>15. CASE ReadInstallPub(r)
  <2> DEFINE s(k) == [req[r] EXCEPT !.pc = "hb_ssh", !.key = k]
  <2>1. \E k : req'[r] = s(k)
    BY <1>15, <1>t DEF ReadInstallPub, Put, RequestsOK
  <2>2. \A k : s(k).pc = "hb_ssh" /\ s(k).client = c
    BY <1>t DEF Requests
  <2> HIDE DEF s
  <2>3. req'[r].pc = "hb_ssh" /\ req'[r].client = c
    BY <2>1, <2>2
  <2> QED BY <2>3, <1>e, <1>o
<1>16. CASE ReadSshEnabled(r)
  <2> DEFINE s(x) == [req[r] EXCEPT !.pc = "hb_reply", !.enabled = x]
  <2>1. \E x : req'[r] = s(x)
    BY <1>16, <1>t DEF ReadSshEnabled, Put, RequestsOK
  <2>2. \A x : s(x).pc = "hb_reply" /\ s(x).client = c
    BY <1>t DEF Requests
  <2> HIDE DEF s
  <2>3. req'[r].pc = "hb_reply" /\ req'[r].client = c
    BY <2>1, <2>2
  <2> QED BY <2>3, <1>e, <1>o
<1>17. CASE ReplyHeartbeat(r)
  <2> DEFINE s(x) == [req[r] EXCEPT !.pc = "done", !.code = 200,
                                    !.enabled = FALSE, !.apply = x]
  <2>1. \E x : req'[r] = s(x)
    <3>1. \E ok \in BOOLEAN : Put(r, s(req[r].enabled /\ ~(ok /\ link[c].applied)))
      BY <1>17 DEF ReplyHeartbeat
    <3> HIDE DEF s
    <3> QED BY <3>1, <1>t DEF Put, RequestsOK
  <2>2. \A x : s(x).pc = "done" /\ s(x).client = c
    BY <1>t DEF Requests
  <2> HIDE DEF s
  <2>3. req'[r].pc = "done" /\ req'[r].client = c
    BY <2>1, <2>2
  <2> QED BY <2>3, <1>e, <1>o
<1> QED BY <1>1, <1>2, <1>3, <1>4, <1>5, <1>6, <1>7, <1>8, <1>9, <1>10,
       <1>11, <1>12, <1>13, <1>14, <1>15, <1>16, <1>17 DEF StepAgent

(* The steps of the dashboard's handlers: DisableClient forgets the peer   *)
(* only after NetBird has removed it.                                      *)
AdminMove(r) ==
  LET q == req[r]
      n == req'[r] IN
  /\ OthersStay(r) /\ n.client = q.client
  /\ n.pc \notin RegisterPCs \cup BeatPCs \cup {"hb_read", "cc_setup"}
  /\ n.pc = "di_peer" => n.peer \in Clients
  /\ n.pc = "di_forget" => /\ At(r, "di_peer") /\ n.peer = q.peer
                           /\ PeerDeleted(q.peer)
  /\ n.pc \in CleanPCs => q.pc \in CleanPCs

(* Every step of a handler of the dashboard is such a move.                *)
LEMMA AdminMoves ==
  ASSUME TypeOK, NEW r \in Slots, StepAdmin(r)
  PROVE  AdminMove(r)
<1> USE DEF RegisterPCs, EnablePCs, BeatPCs, CleanPCs
<1> DEFINE c == req[r].client
           others == {"done", "cc_commit", "rk_begin", "rk_delete", "rk_insert",
                      "rk_commit", "di_status", "dl_lock", "dl_cascade",
                      "cn_link", "cn_pub", "cn_priv"}
<1>t. RequestsOK /\ req[r] \in Requests
  BY DEF TypeOK, RequestsOK
<1>p. others \cup {"di_peer", "di_forget", "dl_setup"} \subseteq PCs
  BY DEF PCs
<1>e. ASSUME OthersStay(r), req'[r].client = c, req'[r].pc \in others
      PROVE  AdminMove(r)
  BY <1>e DEF AdminMove
<1>g. ASSUME NEW p \in others, Goto(r, p), ~At(r, "idle")
      PROVE  AdminMove(r)
  BY <1>g, <1>p, <1>e, GotoSeen
<1>d. ASSUME NEW code \in Codes, Respond(r, code), ~At(r, "idle")
      PROVE  AdminMove(r)
  BY <1>d, <1>t, <1>e, RespondOK DEF Quiet
<1>1. CASE CreateSetupKey(r)
  <2>1. ~At(r, "idle") /\ (Goto(r, "cc_commit") \/ Respond(r, 502))
    BY <1>1 DEF CreateSetupKey, At
  <2> QED BY <2>1, <1>g, <1>d, Names
<1>2. CASE CommitClient(r)
  <2>1. ~At(r, "idle") /\ (Respond(r, 201) \/ Respond(r, 500))
    BY <1>2 DEF CommitClient, At
  <2> QED BY <2>1, <1>d, Names
<1>3. CASE ReadName(r)
  <2>1. ~At(r, "idle") /\ (Goto(r, "rk_begin") \/ Respond(r, 404))
    BY <1>3 DEF ReadName, At
  <2> QED BY <2>1, <1>g, <1>d, Names
<1>4. CASE BeginDelete(r)
  <2> DEFINE s == [req[r] EXCEPT !.pc = "rk_delete", !.snap = active[c]]
  <2>1. ~At(r, "idle") /\ (Respond(r, 500) \/ req' = [req EXCEPT ![r] = s])
    BY <1>4 DEF BeginDelete, Put, At
  <2>2. s.pc = "rk_delete" /\ s.client = c
    BY <1>t DEF Requests
  <2> HIDE DEF s
  <2>3. ASSUME req' = [req EXCEPT ![r] = s] PROVE AdminMove(r)
    BY <2>2, <2>3, <1>t, <1>e DEF RequestsOK, OthersStay
  <2> QED BY <2>1, <2>3, <1>d, Names
<1>5. CASE DeleteOldKeys(r)
  BY <1>5, <1>e, DeleteOldKeysOK
<1>6. CASE InsertKey(r)
  <2>1. ~At(r, "idle") /\ (Goto(r, "rk_commit") \/ Respond(r, 500))
    BY <1>6 DEF InsertKey, At
  <2> QED BY <2>1, <1>g, <1>d, Names
<1>7. CASE CommitRotation(r)
  <2>1. ~At(r, "idle") /\ (Respond(r, 200) \/ Respond(r, 500))
    BY <1>7 DEF CommitRotation, At
  <2> QED BY <2>1, <1>d, Names
<1>8. CASE DisableScanLink(r)
  <2> DEFINE known(ok) == IF ok THEN ScanLink(c).peer ELSE NoClient
             s(x, p) == [req[r] EXCEPT !.peer = x, !.pc = p]
  <2>1. PICK ok \in BOOLEAN :
          req' = [req EXCEPT ![r] = s(known(ok), IF known(ok) # NoClient
                                                   THEN "di_peer" ELSE "di_status")]
    BY <1>8 DEF DisableScanLink, Put
  <2>2. \A x, p : s(x, p).pc = p /\ s(x, p).client = c /\ s(x, p).peer = x
    BY <1>t DEF Requests
  <2>3. known(ok) \in Clients \cup {NoClient}
    <3>1. c \in Clients
      BY <1>8, <1>t DEF DisableScanLink, At, RequestsOK
    <3> QED BY <3>1 DEF ScanLink, TypeOK, RowsOK, Links, Peers
  <2> HIDE DEF s, known
  <2>4. \/ req'[r] = s(known(ok), "di_peer") /\ known(ok) \in Clients
        \/ req'[r] = s(known(ok), "di_status")
    BY <2>1, <2>3, <1>t DEF RequestsOK
  <2>5. OthersStay(r)
    BY <2>1, <1>t DEF RequestsOK, OthersStay
  <2> QED BY <2>2, <2>4, <2>5 DEF AdminMove
<1>9. CASE DisableDeletePeer(r)
  <2>1. /\ ~At(r, "idle") /\ At(r, "di_peer")
        /\ \/ PeerDeleted(req[r].peer) /\ Goto(r, "di_forget")
           \/ Goto(r, "di_status")
    BY <1>9 DEF DisableDeletePeer, At
  <2>2. Goto(r, "di_forget") /\ PeerDeleted(req[r].peer) => AdminMove(r)
    BY <2>1, <1>p, GotoSeen DEF AdminMove
  <2> QED BY <2>1, <2>2, <1>g
<1>10. CASE ForgetPeer(r)
  <2>1. ~At(r, "idle") /\ Goto(r, "di_status")
    BY <1>10 DEF ForgetPeer, At
  <2> QED BY <2>1, <1>g
<1>11. CASE SetDisabled(r)
  <2>1. ~At(r, "idle") /\ (Respond(r, 200) \/ Respond(r, 500))
    BY <1>11 DEF SetDisabled, At
  <2> QED BY <2>1, <1>d, Names
<1>12. CASE DeleteScanLink(r)
  <2> DEFINE s(x, y) == [req[r] EXCEPT !.peer = x, !.setup = y, !.pc = "dl_peer"]
  <2>1. \E x, y : req' = [req EXCEPT ![r] = s(x, y)]
    BY <1>12 DEF DeleteScanLink, Put
  <2>2. \A x, y : s(x, y).pc = "dl_peer" /\ s(x, y).client = c
    BY <1>t DEF Requests
  <2> HIDE DEF s
  <2>3. OthersStay(r) /\ req'[r].client = c /\ req'[r].pc = "dl_peer"
    BY <2>1, <2>2, <1>t DEF RequestsOK, OthersStay
  <2> QED BY <2>3, <1>12 DEF AdminMove, DeleteScanLink, At
<1>13. CASE DeleteDeletePeer(r)
  <2>1. At(r, "dl_peer") /\ ~At(r, "idle") /\ Goto(r, "dl_setup")
    BY <1>13 DEF DeleteDeletePeer, At
  <2> QED BY <2>1, <1>p, GotoSeen DEF AdminMove, At
<1>14. CASE DeleteSetupKey(r)
  <2>1. ~At(r, "idle") /\ Goto(r, "dl_lock")
    BY <1>14 DEF DeleteSetupKey, At
  <2> QED BY <2>1, <1>g
<1>15. CASE LockClient(r)
  <2>1. ~At(r, "idle") /\ (Goto(r, "dl_cascade") \/ Respond(r, 200) \/ Respond(r, 500))
    BY <1>15 DEF LockClient, At
  <2> QED BY <2>1, <1>g, <1>d, Names
<1>16. CASE Cascade(r)
  <2>1. ~At(r, "idle") /\ (Respond(r, 200) \/ Respond(r, 500))
    BY <1>16 DEF Cascade, At
  <2> QED BY <2>1, <1>d, Names
<1>17. CASE ReadConnection(r)
  <2> DEFINE s(x) == [req[r] EXCEPT !.peer = x, !.pc = "cn_pub"]
             u(k) == [req[r] EXCEPT !.key = k, !.pc = "cn_priv"]
             v(k) == [req[r] EXCEPT !.priv = k, !.pc = "done", !.code = 200]
  <2>1. /\ ~At(r, "idle")
        /\ \/ Goto(r, "cn_link") \/ Respond(r, 404)
           \/ \E x : Put(r, s(x)) \/ Put(r, u(x)) \/ Put(r, v(x))
    BY <1>17 DEF ReadConnection, At
  <2>2. \A x : /\ s(x).pc = "cn_pub" /\ s(x).client = c
               /\ u(x).pc = "cn_priv" /\ u(x).client = c
               /\ v(x).pc = "done" /\ v(x).client = c
    BY <1>t DEF Requests
  <2> HIDE DEF s, u, v
  <2>3. ASSUME NEW x, Put(r, s(x)) \/ Put(r, u(x)) \/ Put(r, v(x))
        PROVE  AdminMove(r)
    BY <2>2, <2>3, <1>t, <1>e DEF RequestsOK, OthersStay, Put
  <2> QED BY <2>1, <2>3, <1>g, <1>d, Names
<1>18. CASE UpdateRow(r)
  <2>1. ~At(r, "idle") /\ (Respond(r, 200) \/ Respond(r, 404) \/ Respond(r, 500))
    BY <1>18 DEF UpdateRow, At
  <2> QED BY <2>1, <1>d, Names
<1>19. CASE ReadPrivateKey(r)
  <2> DEFINE s(k) == [req[r] EXCEPT !.priv = k, !.pc = "done", !.code = 200]
  <2>1. ~At(r, "idle") /\ (Respond(r, 404) \/ Respond(r, 500) \/ \E k : Put(r, s(k)))
    BY <1>19 DEF ReadPrivateKey, At
  <2>2. \A k : s(k).pc = "done" /\ s(k).client = c
    BY <1>t DEF Requests
  <2> HIDE DEF s
  <2>3. ASSUME NEW k, Put(r, s(k)) PROVE AdminMove(r)
    BY <2>2, <2>3, <1>t, <1>e DEF RequestsOK, OthersStay, Put
  <2> QED BY <2>1, <2>3, <1>d, Names
<1> QED BY <1>1, <1>2, <1>3, <1>4, <1>5, <1>6, <1>7, <1>8, <1>9, <1>10,
       <1>11, <1>12, <1>13, <1>14, <1>15, <1>16, <1>17, <1>18, <1>19 DEF StepAdmin

(* A new request knows nothing but what the device reports in a heartbeat. *)
StartMove(r, c) ==
  LET n == req'[r] IN
  /\ OthersStay(r) /\ n.client = c
  /\ n.pc \notin PeerPCs \cup BeatPCs
  /\ n.pc = "cc_setup" => nb[c].setup = "none"
  /\ n.pc \in CleanPCs => status[c] # "absent"
  /\ n.pc \in RegisterPCs => n.pc = "rg_token" /\ status[c] # "absent"
  /\ n.pc = "hb_read" => issued[c] > 0
  /\ UNCHANGED <<status, token, link, nb, issued>>

(* Every new request starts so.                                            *)
LEMMA StartMoves ==
  ASSUME TypeOK, NEW r \in Slots, NEW c \in Clients, Start(r, c)
  PROVE  StartMove(r, c)
<1> USE DEF RegisterPCs, PeerPCs, EnablePCs, BeatPCs, CleanPCs, dbVars, clientVars, keyVars, sideVars
<1>t. RequestsOK
  BY DEF TypeOK
<1>o. {"update", "private", "disable", "delete", "connection", "register"} \subseteq Ops
  BY DEF Ops
<1>b. ASSUME NEW op \in Ops,
             NEW p \in {"di_scan", "dl_scan", "cn_client", "up_row", "pk_key"},
             Begin(r, op, p, c), UNCHANGED dbVars, status[c] # "absent"
      PROVE  StartMove(r, c)
  <2>1. p \in PCs \ TxPCs
    BY Names
  <2> QED BY <2>1, <1>b, <1>t, BeginOK DEF StartMove, Quiet
<1>1. CASE StartCreateClient(r, c) \/ StartRotateKey(r, c)
  <2>1. OthersStay(r) /\ req'[r].client = c /\ req'[r].pc \in {"cc_setup", "rk_read"}
    BY <1>1, StartKeyOK
  <2>2. CASE StartCreateClient(r, c)
    BY <2>1, <2>2 DEF StartMove, StartCreateClient
  <2>3. CASE StartRotateKey(r, c)
    <3>1. req'[r].pc = "rk_read"
      BY <2>3, <1>t, IdleOK DEF StartRotateKey, Put, RequestsOK, Idle
    <3> QED BY <2>1, <2>3, <3>1 DEF StartMove, StartRotateKey
  <2> QED BY <1>1, <2>2, <2>3
<1>2. CASE \/ StartDisableClient(r, c) \/ StartDeleteClient(r, c)
           \/ StartConnection(r, c) \/ StartUpdateClient(r, c) \/ StartPrivateKey(r, c)
  <2>1. /\ UNCHANGED dbVars /\ status[c] # "absent"
        /\ \/ Begin(r, "disable", "di_scan", c) \/ Begin(r, "delete", "dl_scan", c)
           \/ Begin(r, "connection", "cn_client", c) \/ Begin(r, "update", "up_row", c)
           \/ Begin(r, "private", "pk_key", c)
    BY <1>2 DEF StartDisableClient, StartDeleteClient, StartConnection,
                StartUpdateClient, StartPrivateKey
  <2> QED BY <2>1, <1>b, <1>o
<1>3. CASE StartRegister(r, c)
  <2>1. "rg_token" \in PCs \ TxPCs
    BY Names
  <2>2. Begin(r, "register", "rg_token", c)
    BY <1>3 DEF StartRegister
  <2>3. OthersStay(r) /\ req'[r].client = c /\ req'[r].pc = "rg_token"
    BY <2>1, <2>2, <1>t, <1>o, BeginOK DEF Quiet
  <2> QED BY <2>3, <1>3 DEF StartMove, StartRegister
<1>4. CASE StartHeartbeats(r, c)
  <2> DEFINE s(x, y, z) == [Idle EXCEPT !.op = "heartbeat", !.pc = "hb_read",
                              !.client = c, !.peer = x, !.rotated = y, !.applied = z]
  <2>1. PICK x, y, z : StartHeartbeat(r, c, x, y, z)
    BY <1>4 DEF StartHeartbeats
  <2>2. req' = [req EXCEPT ![r] = s(x, y, z)] /\ issued[c] > 0 /\ UNCHANGED dbVars
    BY <2>1 DEF StartHeartbeat, Put
  <2>4. s(x, y, z).pc = "hb_read" /\ s(x, y, z).client = c
    BY DEF Idle
  <2> HIDE DEF s
  <2>5. req'[r] = s(x, y, z) /\ OthersStay(r)
    BY <2>2, <1>t DEF RequestsOK, OthersStay
  <2> QED BY <2>2, <2>4, <2>5 DEF StartMove
<1> QED BY <1>1, <1>2, <1>3, <1>4 DEF Start

---------------------------------------------------------------------------
(* A settled disable.                                                      *)

(* What a settled disable needs of the next state.                         *)
LEMMA StaysSettled ==
  ASSUME NEW c \in Clients, Settled(c), NEW r \in Slots, OthersStay(r),
         ~WritesOnline(r, c)', status'[c] = "disabled", token'[c] = "used"
  PROVE  Settled(c)'
BY DEF Settled, WritesOnline, OthersStay

(* Nothing the device sends undoes it.                                     *)
LEMMA AgentSettled ==
  ASSUME TypeOK, NEW c \in Clients, Settled(c), NEW r \in Slots, StepAgent(r)
  PROVE  Settled(c)'
<1>1. AgentMove(r)
  BY AgentMoves
<1>2. ~WritesOnline(r, c)'
  BY <1>1 DEF AgentMove, Settled, WritesOnline, RegisterPCs, BeatPCs, EnablePCs
<1>3. status'[c] = "disabled" /\ token'[c] = "used"
  <2> USE DEF Settled, TypeOK, RowsOK, dbVars, clientVars, keyVars, sideVars
  <2>1. CASE MarkTokenUsed(r)
    BY <2>1 DEF MarkTokenUsed
  <2>2. CASE RegisterOnline(r)
    BY <2>2 DEF RegisterOnline, WritesOnline, At
  <2>3. CASE HeartbeatOnline(r)
    <3>1. req[r].client # c \/ req[r].seen = "disabled"
      BY <2>3 DEF HeartbeatOnline, WritesOnline, At
    <3> QED BY <3>1, <2>3 DEF HeartbeatOnline
  <2>4. CASE \/ CheckToken(r) \/ ReadSetupKey(r) \/ IssueAgentToken(r)
             \/ ReadStatus(r) \/ RecordPeer(r) \/ ReadAlreadyEnabled(r)
             \/ EnableSSH(r) \/ RecordEnabled(r) \/ RecordApplied(r)
             \/ AcknowledgeRotation(r) \/ ReadPendingRotation(r)
             \/ ReadInstallPub(r) \/ ReadSshEnabled(r) \/ ReplyHeartbeat(r)
    <3>1. UNCHANGED <<status, token>>
      BY <2>4 DEF CheckToken, ReadSetupKey, IssueAgentToken, ReadStatus, RecordPeer,
             ReadAlreadyEnabled, EnableSSH, RecordEnabled, RecordApplied,
             AcknowledgeRotation, ReadPendingRotation, ReadInstallPub,
             ReadSshEnabled, ReplyHeartbeat
    <3> QED BY <3>1
  <2> QED BY <2>1, <2>2, <2>3, <2>4 DEF StepAgent
<1> QED BY <1>1, <1>2, <1>3, StaysSettled DEF AgentMove

(* Nor does a handler of the dashboard, short of deleting the client.      *)
LEMMA AdminSettled ==
  ASSUME IInv, NEW c \in Clients, Settled(c), NEW r \in Slots, StepAdmin(r)
  PROVE  Settled(c)' \/ status'[c] = "deleted"
<1>1. AdminMove(r)
  BY AdminMoves DEF IInv
<1>2. ~WritesOnline(r, c)'
  BY <1>1 DEF AdminMove, WritesOnline, RegisterPCs, BeatPCs, EnablePCs
<1>3. (status'[c] = "disabled" /\ token'[c] = "used") \/ status'[c] = "deleted"
  <2> USE DEF IInv, Settled, TypeOK, RowsOK, dbVars, clientVars, keyVars, sideVars
  <2>1. CASE CommitClient(r)
    <3>1. req[r].client # c
      BY <2>1 DEF CommitClient, RowInv, CreatePCs, At
    <3> QED BY <3>1, <2>1 DEF CommitClient
  <2>2. CASE SetDisabled(r)
    BY <2>2 DEF SetDisabled
  <2>3. CASE Cascade(r)
    BY <2>3 DEF Cascade
  <2>4. CASE \/ CreateSetupKey(r) \/ ReadName(r) \/ BeginDelete(r)
             \/ DeleteOldKeys(r) \/ InsertKey(r) \/ CommitRotation(r)
             \/ DisableScanLink(r) \/ DisableDeletePeer(r) \/ ForgetPeer(r)
             \/ DeleteScanLink(r) \/ DeleteDeletePeer(r) \/ DeleteSetupKey(r)
             \/ LockClient(r) \/ ReadConnection(r) \/ UpdateRow(r)
             \/ ReadPrivateKey(r)
    <3>1. UNCHANGED <<status, token>>
      BY <2>4 DEF CreateSetupKey, ReadName, BeginDelete, DeleteOldKeys, InsertKey,
             CommitRotation, DisableScanLink, DisableDeletePeer, ForgetPeer,
             DeleteScanLink, DeleteDeletePeer, DeleteSetupKey, LockClient,
             ReadConnection, UpdateRow, ReadPrivateKey
    <3> QED BY <3>1
  <2> QED BY <2>1, <2>2, <2>3, <2>4 DEF StepAdmin
<1> QED BY <1>1, <1>2, <1>3, StaysSettled DEF AdminMove

(* Nor does a new request, an answer, a restart or the world outside.      *)
LEMMA OutsideSettled ==
  ASSUME TypeOK, NEW c \in Clients, Settled(c),
         \/ \E d \in Clients : World(d)
         \/ \E r \in Slots : Receive(r) \/ \E d \in Clients : Start(r, d)
         \/ ServerCrash
  PROVE  Settled(c)'
<1> USE DEF dbVars, clientVars, keyVars, sideVars
<1>i. Idle.pc = "idle"
  BY IdleOK
<1>1. CASE \E d \in Clients : World(d)
  BY <1>1 DEF World, TokenExpires, PeerJoins, Settled, WritesOnline
<1>2. CASE \E r \in Slots : Receive(r)
  <2>1. PICK r \in Slots : Receive(r)
    BY <1>2
  <2>2. OthersStay(r) /\ req'[r] = Idle /\ UNCHANGED <<status, token>>
    BY <2>1 DEF Receive, Put, TypeOK, RequestsOK, OthersStay
  <2>3. ~WritesOnline(r, c)'
    BY <1>i, <2>2 DEF WritesOnline
  <2> QED BY <2>2, <2>3, StaysSettled DEF Settled
<1>3. CASE \E r \in Slots, d \in Clients : Start(r, d)
  <2>1. PICK r \in Slots, d \in Clients : Start(r, d)
    BY <1>3
  <2>2. StartMove(r, d)
    BY <2>1, StartMoves
  <2>3. ~WritesOnline(r, c)'
    BY <2>2 DEF StartMove, WritesOnline, RegisterPCs, BeatPCs, EnablePCs
  <2> QED BY <2>2, <2>3, StaysSettled DEF StartMove, Settled
<1>4. CASE ServerCrash
  BY <1>i, <1>4 DEF ServerCrash, Settled, WritesOnline
<1> QED BY <1>1, <1>2, <1>3, <1>4

(* Once a disable is settled, no heartbeat, registration, restart or other *)
(* request undoes it: DisableSticks, for any number of requests in flight. *)
THEOREM DisabledStaysDisabled == Spec => DisableSticks
<1> DEFINE sticks == \A c \in Clients : Settled(c) => Settled(c)' \/ status'[c] = "deleted"
<1>1. IInv /\ [Next]_vars => [sticks]_vars
  <2> SUFFICES ASSUME IInv, Next, NEW c \in Clients, Settled(c)
               PROVE  Settled(c)' \/ status'[c] = "deleted"
    OBVIOUS
  <2> QED BY AgentSettled, AdminSettled, OutsideSettled DEF Next, Serve, IInv
<1> QED BY <1>1, Inductive, PTL DEF Spec, DisableSticks

---------------------------------------------------------------------------
(* What is known of a peer stays true.  A device joins with a valid setup  *)
(* key only, and a client's setup key is made once, so a peer that NetBird *)
(* has removed does not come back.                                         *)

Stable ==
  /\ \A c \in Clients :
       /\ status[c] # "absent" => status'[c] # "absent"
       /\ nb'[c].peer => JoinedOnce(c)'
       /\ Gone(c) => Gone(c)'
  /\ \A q \in Slots : At(q, "cc_setup") /\ At(q, "cc_setup")' =>
       nb'[req[q].client].setup = "none"

(* A step that writes neither the clients nor NetBird's objects, except    *)
(* for whether a peer is gone.                                             *)
LEMMA SameIsStable ==
  ASSUME TypeOK, PeerInv,
         \A c \in Clients : /\ status[c] # "absent" => status'[c] # "absent"
                            /\ nb'[c].setup = nb[c].setup
                            /\ nb'[c].peer => nb[c].peer
  PROVE  Stable
<1>1. \A q \in Slots : At(q, "cc_setup") => req[q].client \in Clients
  BY DEF TypeOK, RequestsOK, At
<1> QED BY <1>1 DEF Stable, PeerInv, Gone, JoinedOnce

(* NetBird removing a peer leaves the setup key that brought it.           *)
LEMMA PeerDeletedStable ==
  ASSUME TypeOK, PeerInv, NEW d, PeerDeleted(d), UNCHANGED status
  PROVE  /\ Stable
         /\ d \in Clients => Gone(d)'
<1>t. nb \in [Clients -> NbObjects]
  BY DEF TypeOK
<1> DEFINE x == [nb[d] EXCEPT !.peer = FALSE, !.ssh = FALSE]
<1>1. d \in Clients => x.setup = nb[d].setup /\ ~x.peer
  BY <1>t DEF NbObjects
<1>2. nb' = [nb EXCEPT ![d] = x]
  BY DEF PeerDeleted
<1> HIDE DEF x
<1>3. \A c \in Clients : nb'[c] = IF c = d THEN x ELSE nb[c]
  BY <1>t, <1>2
<1>4. Stable
  BY <1>1, <1>3, SameIsStable
<1>5. d \in Clients => JoinedOnce(d)
  BY DEF PeerDeleted, PeerInv
<1> QED BY <1>1, <1>3, <1>4, <1>5 DEF Gone, JoinedOnce

(* No step of an agent's handler brings a removed peer back.               *)
LEMMA AgentStable ==
  ASSUME TypeOK, PeerInv, NEW r \in Slots, StepAgent(r)
  PROVE  Stable
<1> USE DEF dbVars, clientVars, keyVars, sideVars
<1>t. /\ nb \in [Clients -> NbObjects]
      /\ status \in [Clients -> Rows \cup {"absent", "deleted"}]
  BY DEF TypeOK, RowsOK
<1>1. CASE RegisterOnline(r) \/ HeartbeatOnline(r)
  <2>1. \A d \in Clients : status[d] # "absent" => status'[d] # "absent"
    BY <1>1, <1>t DEF RegisterOnline, HeartbeatOnline
  <2>2. UNCHANGED nb
    BY <1>1 DEF RegisterOnline, HeartbeatOnline
  <2> QED BY <2>1, <2>2, SameIsStable
<1>2. CASE EnableSSH(r)
  <2> DEFINE d == req[r].peer
             x == [nb[d] EXCEPT !.ssh = nb[d].peer]
  <2>1. UNCHANGED status /\ (nb' = nb \/ nb' = [nb EXCEPT ![d] = x])
    BY <1>2 DEF EnableSSH
  <2>2. d \in Clients => x.setup = nb[d].setup /\ x.peer = nb[d].peer
    BY <1>t DEF NbObjects
  <2> HIDE DEF x
  <2>3. \A c \in Clients : nb'[c] = nb[c] \/ (c = d /\ nb'[c] = x)
    BY <2>1, <1>t
  <2> QED BY <2>1, <2>2, <2>3, SameIsStable
<1>3. CASE \/ CheckToken(r) \/ ReadSetupKey(r) \/ IssueAgentToken(r)
           \/ ReadStatus(r) \/ RecordPeer(r) \/ ReadAlreadyEnabled(r)
           \/ MarkTokenUsed(r) \/ RecordEnabled(r) \/ RecordApplied(r)
           \/ AcknowledgeRotation(r) \/ ReadPendingRotation(r)
           \/ ReadInstallPub(r) \/ ReadSshEnabled(r) \/ ReplyHeartbeat(r)
  <2>1. UNCHANGED <<status, nb>>
    BY <1>3 DEF CheckToken, ReadSetupKey, IssueAgentToken, ReadStatus, RecordPeer,
           ReadAlreadyEnabled, MarkTokenUsed, RecordEnabled, RecordApplied,
           AcknowledgeRotation, ReadPendingRotation, ReadInstallPub,
           ReadSshEnabled, ReplyHeartbeat
  <2> QED BY <2>1, SameIsStable
<1> QED BY <1>1, <1>2, <1>3 DEF StepAgent

(* No step of a handler of the dashboard does.                             *)
LEMMA AdminStable ==
  ASSUME IInv, PeerInv, NEW r \in Slots, StepAdmin(r)
  PROVE  Stable
<1> USE DEF dbVars, clientVars, keyVars, sideVars
<1> DEFINE c == req[r].client
<1>t. /\ TypeOK /\ nb \in [Clients -> NbObjects]
      /\ status \in [Clients -> Rows \cup {"absent", "deleted"}]
      /\ \A q \in Slots : ~At(q, "idle") => req[q].client \in Clients
  BY DEF IInv, TypeOK, RowsOK, RequestsOK
<1>1. CASE CommitClient(r) \/ SetDisabled(r) \/ Cascade(r)
  <2>1. \A d \in Clients : status[d] # "absent" => status'[d] # "absent"
    BY <1>1, <1>t DEF CommitClient, SetDisabled, Cascade
  <2>2. UNCHANGED nb
    BY <1>1 DEF CommitClient, SetDisabled, Cascade
  <2> QED BY <2>1, <2>2, <1>t, SameIsStable
<1>2. CASE DisableDeletePeer(r) \/ DeleteDeletePeer(r)
  <2>1. UNCHANGED status /\ (PeerDeleted(req[r].peer) \/ UNCHANGED nb)
    BY <1>2 DEF DisableDeletePeer, DeleteDeletePeer, PeerNotDeleted
  <2> QED BY <2>1, <1>t, SameIsStable, PeerDeletedStable
<1>3. CASE CreateSetupKey(r)
  <2>1. /\ UNCHANGED status /\ c \in Clients /\ At(r, "cc_setup")
        /\ nb[c].setup = "none" /\ ~nb[c].peer
    BY <1>3, <1>t DEF CreateSetupKey, At, PeerInv, JoinedOnce
  <2> DEFINE x == [nb[c] EXCEPT !.setup = "valid"]
  <2>2. nb' = nb \/ nb' = [nb EXCEPT ![c] = x]
    BY <1>3 DEF CreateSetupKey
  <2>3. ~x.peer
    BY <2>1, <1>t DEF NbObjects
  <2> HIDE DEF x
  <2>4. \A d \in Clients : nb'[d] = nb[d] \/ (d = c /\ ~nb'[d].peer)
    BY <2>1, <2>2, <2>3, <1>t
  <2>5. ~At(r, "cc_setup")'
    <3>1. {"cc_commit", "done"} \subseteq PCs
      BY DEF PCs
    <3>2. ~At(r, "idle") /\ (Goto(r, "cc_commit") \/ Respond(r, 502))
      BY <1>3 DEF CreateSetupKey, At
    <3>3. Goto(r, "cc_commit") => req'[r].pc = "cc_commit"
      BY <1>t, <3>1, <3>2, GotoSeen
    <3>4. Respond(r, 502) => req'[r].pc = "done"
      BY <1>t, <3>2, RespondOK, Names DEF TypeOK
    <3> QED BY <3>2, <3>3, <3>4 DEF At
  <2>6. \A q \in Slots : At(q, "cc_setup") /\ q # r => req[q].client # c
    BY <2>1 DEF IInv, RowInv, CreatePCs, At
  <2>7. ASSUME NEW q \in Slots, At(q, "cc_setup"), At(q, "cc_setup")'
        PROVE  nb'[req[q].client].setup = "none"
    <3>1. q # r /\ req[q].client \in Clients /\ req[q].client # c
      BY <2>5, <2>6, <2>7, <1>t DEF At
    <3>2. nb'[req[q].client] = nb[req[q].client]
      BY <3>1, <2>2, <1>t
    <3> QED BY <3>2, <2>7 DEF PeerInv
  <2> QED BY <2>1, <2>4, <2>7 DEF Stable, PeerInv, Gone, JoinedOnce
<1>4. CASE DeleteSetupKey(r)
  <2>1. UNCHANGED status /\ c \in Clients /\ status[c] # "absent"
    BY <1>4, <1>t DEF DeleteSetupKey, At, PeerInv, CleanPCs
  <2> DEFINE x == [nb[c] EXCEPT !.setup = "deleted"]
  <2>2. nb' = nb \/ nb' = [nb EXCEPT ![c] = x]
    BY <1>4, <1>t DEF DeleteSetupKey, NbObjects
  <2>3. x.setup = "deleted" /\ x.peer = nb[c].peer
    BY <2>1, <1>t DEF NbObjects
  <2> HIDE DEF x
  <2>4. \A d \in Clients : nb'[d] = nb[d] \/ (d = c /\ nb'[d] = x)
    BY <2>1, <2>2, <1>t
  <2>5. \A q \in Slots : At(q, "cc_setup") => /\ req[q].client \in Clients
                                             /\ req[q].client # c
    BY <2>1, <1>t DEF IInv, RowInv, CreatePCs, At
  <2> QED BY <2>1, <2>3, <2>4, <2>5 DEF Stable, PeerInv, Gone, JoinedOnce
<1>5. CASE \/ ReadName(r) \/ BeginDelete(r) \/ DeleteOldKeys(r) \/ InsertKey(r)
           \/ CommitRotation(r) \/ DisableScanLink(r) \/ ForgetPeer(r)
           \/ DeleteScanLink(r) \/ LockClient(r) \/ ReadConnection(r)
           \/ UpdateRow(r) \/ ReadPrivateKey(r)
  <2>1. UNCHANGED <<status, nb>>
    BY <1>5 DEF ReadName, BeginDelete, DeleteOldKeys, InsertKey, CommitRotation,
           DisableScanLink, ForgetPeer, DeleteScanLink, LockClient,
           ReadConnection, UpdateRow, ReadPrivateKey
  <2> QED BY <2>1, <1>t, SameIsStable
<1> QED BY <1>1, <1>2, <1>3, <1>4, <1>5 DEF StepAdmin

(* Nor does a token's expiry, or a device joining.                         *)
LEMMA WorldStable ==
  ASSUME TypeOK, PeerInv, NEW c \in Clients, World(c)
  PROVE  Stable
<1>1. CASE TokenExpires(c)
  BY <1>1, SameIsStable DEF TokenExpires, sideVars
<1>2. CASE PeerJoins(c)
  <2>1. nb \in [Clients -> NbObjects]
    BY DEF TypeOK
  <2> DEFINE x == [nb[c] EXCEPT !.setup = "used", !.peer = TRUE]
  <2>2. nb[c].setup = "valid" /\ nb' = [nb EXCEPT ![c] = x] /\ UNCHANGED status
    BY <1>2 DEF PeerJoins, clientVars
  <2>3. x.setup = "used"
    BY <2>1 DEF NbObjects
  <2> HIDE DEF x
  <2>4. \A d \in Clients : nb'[d] = IF d = c THEN x ELSE nb[d]
    BY <2>1, <2>2
  <2>5. \A q \in Slots : At(q, "cc_setup") => /\ req[q].client \in Clients
                                             /\ req[q].client # c
    BY <2>2 DEF PeerInv, TypeOK, RequestsOK, At
  <2> QED BY <2>2, <2>3, <2>4, <2>5 DEF Stable, PeerInv, Gone, JoinedOnce
<1> QED BY <1>1, <1>2 DEF World

---------------------------------------------------------------------------
(* PeerInv.  A step keeps it if what it makes of a request is true of the  *)
(* request's client and of the peer it knows.                              *)

RequestStep(q) ==
  LET n == req'[q] IN
  /\ n.pc = "cc_setup" => nb'[n.client].setup = "none"
  /\ n.pc \in CleanPCs => n.client \in Clients /\ status[n.client] # "absent"
  /\ n.pc \in PeerPCs => n.peer \in Clients
  /\ n.pc = "di_forget" => ~nb'[n.peer].peer /\ nb'[n.peer].setup \notin {"none", "valid"}

(* That, with what stays true of peers, is enough for the invariant.       *)
LEMMA PeerStep ==
  ASSUME TypeOK, PeerInv, Stable,
         \A q \in Slots : req'[q] = req[q] \/ RequestStep(q)
  PROVE  PeerInv'
<1>c. \A q \in Slots : req[q].pc # "idle" => req[q].client \in Clients
  BY DEF TypeOK, RequestsOK, At
<1>1. (\A c \in Clients : nb[c].peer => JoinedOnce(c))'
  BY DEF Stable
<1> SUFFICES ASSUME NEW q \in Slots
             PROVE  /\ At(q, "cc_setup")' => nb'[req'[q].client].setup = "none"
                    /\ req'[q].pc \in CleanPCs => status'[req'[q].client] # "absent"
                    /\ req'[q].pc \in PeerPCs => req'[q].peer \in Clients
                    /\ At(q, "di_forget")' => Gone(req[q].peer)'
  BY <1>1 DEF PeerInv
<1>2. CASE RequestStep(q)
  BY <1>2 DEF RequestStep, Stable, Gone, JoinedOnce, At
<1>3. CASE req'[q] = req[q]
  <2>1. At(q, "cc_setup")' => nb'[req'[q].client].setup = "none"
    BY <1>3 DEF Stable, At
  <2>2. req'[q].pc \in CleanPCs => status'[req'[q].client] # "absent"
    BY <1>3, <1>c DEF Stable, PeerInv, CleanPCs
  <2>3. req'[q].pc \in PeerPCs => req'[q].peer \in Clients
    BY <1>3 DEF PeerInv
  <2>4. ASSUME At(q, "di_forget")'
        PROVE  Gone(req[q].peer)'
    <3>1. At(q, "di_forget") /\ req[q].peer \in Clients
      BY <1>3, <2>3, <2>4 DEF PeerPCs, At
    <3>2. PICK d \in Clients : d = req[q].peer /\ Gone(d)
      BY <3>1 DEF PeerInv
    <3>3. Gone(d)'
      BY <3>2 DEF Stable
    <3> QED BY <1>3, <3>2, <3>3 DEF Gone, JoinedOnce
  <2> QED BY <2>1, <2>2, <2>3, <2>4
<1> QED BY <1>2, <1>3

(* The agents' handlers keep the invariant.                                *)
LEMMA AgentPeers ==
  ASSUME IInv, PeerInv, NEW r \in Slots, StepAgent(r)
  PROVE  PeerInv'
<1>t. TypeOK /\ req[r] \in Requests
  BY DEF IInv, TypeOK, RequestsOK
<1>m. AgentMove(r)
  BY <1>t, AgentMoves
<1>1. req'[r].pc \in PeerPCs => req'[r].peer \in Clients
  <2>1. req[r].pc \in EnablePCs => req[r].peer \in Clients
    BY DEF PeerInv, PeerPCs
  <2>2. req[r].peer # NoClient => req[r].peer \in Clients
    BY <1>t DEF Requests, Peers
  <2> QED BY <1>m, <2>1, <2>2 DEF AgentMove, PeerPCs
<1>2. RequestStep(r)
  BY <1>m, <1>1 DEF AgentMove, RequestStep
<1> QED BY <1>t, <1>m, <1>2, AgentStable, PeerStep DEF AgentMove, OthersStay

(* The dashboard's handlers keep it.                                       *)
LEMMA AdminPeers ==
  ASSUME IInv, PeerInv, NEW r \in Slots, StepAdmin(r)
  PROVE  PeerInv'
<1>t. /\ TypeOK /\ RequestsOK
      /\ req[r].pc \in CleanPCs => req[r].client \in Clients
  BY DEF IInv, TypeOK, RequestsOK, CleanPCs, At
<1>m. AdminMove(r)
  BY <1>t, AdminMoves
<1>1. ASSUME At(r, "di_forget")'
      PROVE  ~nb'[req'[r].peer].peer /\ nb'[req'[r].peer].setup \notin {"none", "valid"}
  <2>1. /\ At(r, "di_peer") /\ PeerDeleted(req[r].peer)
        /\ req'[r].peer = req[r].peer
    BY <1>m, <1>1 DEF AdminMove, At
  <2>2. PICK d \in Clients : d = req[r].peer
    BY <2>1 DEF PeerInv, PeerPCs, At
  <2>3. UNCHANGED status
    BY <2>1 DEF At, StepAdmin, CreateSetupKey, CommitClient, ReadName, BeginDelete,
           DeleteOldKeys, InsertKey, CommitRotation, DisableScanLink,
           DisableDeletePeer, ForgetPeer, SetDisabled, DeleteScanLink,
           DeleteDeletePeer, DeleteSetupKey, LockClient, Cascade,
           ReadConnection, UpdateRow, ReadPrivateKey, dbVars, clientVars
  <2>4. Gone(d)'
    BY <2>1, <2>2, <2>3, <1>t, PeerDeletedStable
  <2> QED BY <2>1, <2>2, <2>4 DEF Gone, JoinedOnce
<1>2. req'[r].pc \in PeerPCs => req'[r].peer \in Clients
  BY <1>m DEF AdminMove, PeerPCs, BeatPCs, EnablePCs, PeerInv, At
<1>3. RequestStep(r)
  <2>1. req'[r].pc # "cc_setup"
    BY <1>m DEF AdminMove
  <2>2. req'[r].pc \in CleanPCs =>
          req'[r].client \in Clients /\ status[req'[r].client] # "absent"
    BY <1>t, <1>m DEF AdminMove, PeerInv
  <2> QED BY <2>1, <2>2, <1>1, <1>2 DEF RequestStep, At
<1> QED BY <1>t, <1>m, <1>3, AdminStable, PeerStep DEF AdminMove, OthersStay

(* New requests, answers, restarts and the world outside keep it.          *)
LEMMA OutsidePeers ==
  ASSUME TypeOK, PeerInv,
         \/ \E c \in Clients : World(c)
         \/ \E r \in Slots : Receive(r) \/ \E c \in Clients : Start(r, c)
         \/ ServerCrash
         \/ UNCHANGED vars
  PROVE  PeerInv'
<1> USE DEF dbVars, clientVars, keyVars, sideVars
<1>i. Idle.pc = "idle"
  BY IdleOK
<1>n. \A q \in Slots : req'[q].pc = "idle" => RequestStep(q)
  BY DEF RequestStep, CleanPCs, PeerPCs, EnablePCs
<1>1. CASE \E c \in Clients : World(c)
  BY <1>1, WorldStable, PeerStep DEF World, TokenExpires, PeerJoins
<1>2. CASE (\E r \in Slots : Receive(r)) \/ ServerCrash
  <2>1. \A q \in Slots : req'[q] = req[q] \/ req'[q].pc = "idle"
    BY <1>2, <1>i DEF Receive, ServerCrash, Put, TypeOK, RequestsOK
  <2>2. UNCHANGED <<status, nb>>
    BY <1>2 DEF Receive, ServerCrash
  <2> QED BY <2>1, <2>2, <1>n, SameIsStable, PeerStep
<1>3. CASE \E r \in Slots, c \in Clients : Start(r, c)
  <2>1. PICK r \in Slots, c \in Clients : Start(r, c)
    BY <1>3
  <2>2. StartMove(r, c)
    BY <2>1, StartMoves
  <2>3. RequestStep(r)
    BY <2>2 DEF StartMove, RequestStep, PeerPCs
  <2> QED BY <2>2, <2>3, SameIsStable, PeerStep DEF StartMove, OthersStay
<1>4. CASE UNCHANGED vars
  BY <1>4, SameIsStable, PeerStep DEF vars
<1> QED BY <1>1, <1>2, <1>3, <1>4

(* It holds at the start, where no setup key has been made.                *)
LEMMA InitPeers == Init => PeerInv
<1> SUFFICES ASSUME Init PROVE PeerInv
  OBVIOUS
<1>1. \A r \in Slots : req[r].pc = "idle"
  BY IdleOK DEF Init
<1>2. \A c \in Clients : ~nb[c].peer
  BY DEF Init
<1> QED BY <1>1, <1>2 DEF PeerInv, CleanPCs, PeerPCs, EnablePCs, At

(* A peer joins once: PeerInv in every reachable state.                    *)
THEOREM PeersInductive == Spec => []PeerInv
<1>1. IInv /\ PeerInv /\ [Next]_vars => PeerInv'
  BY AgentPeers, AdminPeers, OutsidePeers DEF Next, Serve, IInv
<1> QED BY <1>1, InitPeers, Inductive, PTL DEF Spec

(* A peer goes out of the record only when NetBird has removed it, or when *)
(* it has been swapped for the one that was removed.                       *)
LEMMA Forgets ==
  ASSUME IInv, PeerInv, Next, NEW c \in Clients,
         Listed(c), link'[c].row, link'[c].peer = NoClient
  PROVE  Swapped(c)
<1> USE DEF dbVars, clientVars, keyVars, sideVars
<1>t. /\ link \in [Clients -> Links] /\ link[c].peer # NoClient
      /\ link'[c] # link[c] /\ nb[link[c].peer].peer
  BY DEF IInv, TypeOK, RowsOK, Listed
<1>1. ASSUME NEW r \in Slots, StepAgent(r)
      PROVE  FALSE
  <2> DEFINE d == req[r].client
  <2>1. CASE RecordPeer(r)
    <3>1. req[r].peer \in Clients /\ req[r].peer # NoClient
      BY <2>1, ConstantsAssumption DEF RecordPeer, At, PeerInv, PeerPCs, EnablePCs
    <3> DEFINE b == IF link[d].row THEN req[r].peer ELSE link[d].peer
               x == [link[d] EXCEPT !.peer = b]
    <3>2. link' = [link EXCEPT ![d] = x]
      BY <2>1, <1>t DEF RecordPeer
    <3>3. c = d
      BY <3>2, <1>t
    <3>4. x.peer = b
      BY <3>3, <1>t DEF Links
    <3>5. b # NoClient
      BY <3>1, <3>3, <1>t
    <3> HIDE DEF x
    <3> QED BY <3>2, <3>3, <3>4, <3>5, <1>t
  <2>2. CASE RecordEnabled(r) \/ RecordApplied(r)
    <3>1. c = d
      BY <2>2, <1>t DEF RecordEnabled, RecordApplied
    <3> DEFINE x(b) == [link[d] EXCEPT !.enabled = b]
               y(b) == [link[d] EXCEPT !.applied = b]
    <3>2. \E b : link' = [link EXCEPT ![d] = x(b)] \/ link' = [link EXCEPT ![d] = y(b)]
      BY <2>2, <1>t DEF RecordEnabled, RecordApplied
    <3>3. \A b : x(b).peer = link[d].peer /\ y(b).peer = link[d].peer
      BY <3>1, <1>t DEF Links
    <3> HIDE DEF x, y
    <3> QED BY <3>1, <3>2, <3>3, <1>t
  <2>3. ~(RecordPeer(r) \/ RecordEnabled(r) \/ RecordApplied(r)) => UNCHANGED link
    BY <1>1 DEF StepAgent, CheckToken, MarkTokenUsed, RegisterOnline, ReadSetupKey,
           IssueAgentToken, ReadStatus, ReadAlreadyEnabled, EnableSSH,
           AcknowledgeRotation, HeartbeatOnline, ReadPendingRotation,
           ReadInstallPub, ReadSshEnabled, ReplyHeartbeat
  <2> QED BY <2>1, <2>2, <2>3, <1>t
<1>2. ASSUME NEW r \in Slots, StepAdmin(r)
      PROVE  Swapped(c)
  <2>1. CASE ForgetPeer(r)
    <3>1. At(r, "di_forget") /\ req[r].client = c
      BY <2>1, <1>t DEF ForgetPeer
    <3>2. req[r].peer # link[c].peer
      BY <3>1, <1>t DEF PeerInv, Gone
    <3> QED BY <3>1, <3>2 DEF Swapped
  <2>2. CASE CommitClient(r)
    <3>1. req[r].client = c /\ status[c] = "absent"
      BY <2>2, <1>t DEF CommitClient, IInv, RowInv, CreatePCs, At
    <3>2. link[c] = NoLink
      BY <3>1 DEF IInv, RowInv, ClientIsComplete, Live, Rows
    <3> QED BY <3>2, <1>t DEF NoLink
  <2>3. CASE Cascade(r)
    <3>1. link'[c] = link[c] \/ link'[c] = NoLink
      BY <2>3, <1>t DEF Cascade
    <3> QED BY <3>1, <1>t DEF NoLink
  <2>4. ~(ForgetPeer(r) \/ CommitClient(r) \/ Cascade(r)) => UNCHANGED link
    BY <1>2 DEF StepAdmin, CreateSetupKey, ReadName, BeginDelete, DeleteOldKeys,
           InsertKey, CommitRotation, DisableScanLink, DisableDeletePeer,
           SetDisabled, DeleteScanLink, DeleteDeletePeer, DeleteSetupKey,
           LockClient, ReadConnection, UpdateRow, ReadPrivateKey
  <2> QED BY <2>1, <2>2, <2>3, <2>4, <1>t
<1>3. ASSUME NEW r \in Slots, NEW d \in Clients, Start(r, d)
      PROVE  FALSE
  BY <1>3, <1>t, StartMoves DEF StartMove, IInv
<1>4. ~ServerCrash /\ (\A r \in Slots : ~Receive(r)) /\ (\A d \in Clients : ~World(d))
  BY <1>t DEF ServerCrash, Receive, World, TokenExpires, PeerJoins
<1> QED BY <1>1, <1>2, <1>3, <1>4 DEF Next, Serve

(* DisableClient forgets no peer that NetBird still lists, however many    *)
(* requests, failures and restarts come between, unless a heartbeat has    *)
(* put it on record while the disable was with NetBird: the action         *)
(* property PeerForgottenOnlyIfRemoved.                                    *)
THEOREM PeersAreNotForgotten == Spec => PeerForgottenOnlyIfRemoved
<1> DEFINE kept == \A c \in Clients :
                     Listed(c) /\ link'[c].row => link'[c].peer # NoClient \/ Swapped(c)
<1>1. IInv /\ PeerInv /\ [Next]_vars => [kept]_vars
  BY Forgets
<1> QED BY <1>1, Inductive, PeersInductive, PTL DEF Spec, PeerForgottenOnlyIfRemoved
=============================================================================
