--------------------------- MODULE RequestTheorems ---------------------------
(***************************************************************************)
(* What the answers of the handlers say, proved for every value of the     *)
(* constants: an agent that is told to install a key gets one, and a setup *)
(* token is redeemed once.  The proofs of Motech and of the activity log   *)
(* rest on the moves of the requests listed here.                          *)
(***************************************************************************)
EXTENDS AccessTheorems

---------------------------------------------------------------------------
(* The moves of a request.                                                 *)

(* No step moves another request, or turns it into one of another kind.    *)
Keeps(r) ==
  LET q == req[r]
      n == req'[r] IN
  /\ OthersStay(r) /\ n.op = q.op /\ n.client = q.client
  /\ q.pc \notin {"idle", "done"} /\ n.pc # "idle"
  /\ n.pc = "done" \/ OpOf(n.pc) = OpOf(q.pc)

(* What the request has of its body and of its answer.                     *)
SameAnswer(q, n) ==
  /\ n.rotated = q.rotated /\ n.rotate = q.rotate
  /\ n.key = q.key /\ n.code = q.code

(* A statement whose result only decides where the handler goes on, ...    *)
GoesOn(r) ==
  LET q == req[r]
      n == req'[r] IN
  /\ SameAnswer(q, n) /\ n.pc # "done"
  /\ \/ q.pc = "hb_ssh" /\ n.pc = "hb_reply"
     \/ {q.pc, n.pc} \cap (ReplyPCs \cup {"hb_pub", "done"}) = {}

(* ... or where it ends.                                                   *)
Ends(r, codes) ==
  LET n == req'[r] IN
  /\ n.pc = "done" /\ n.code \in codes
  /\ ~n.rotated /\ ~n.rotate /\ n.key = NoKey

(* The steps of the agents' handlers that make their answers.              *)
Redeems(r, ok, k) ==
  LET n == req'[r] IN
  /\ At(r, "rg_key") /\ Got(ok) /\ k \in ReadKey(req[r].client, ok)
  /\ n.pc = "done" /\ n.code = 200 /\ n.key = k
Confirms(r) ==
  LET n == req'[r] IN
  /\ At(r, "hb_ack") /\ n.pc = "hb_online" /\ ~n.rotated
  /\ n.rotate = req[r].rotate /\ n.key = req[r].key /\ n.code = req[r].code
Looks(r, ok) ==
  LET n == req'[r] IN
  /\ At(r, "hb_pending") /\ Got(ok)
  /\ n.rotate = (ok /\ PendingKeys(req[r].client) # {})
  /\ n.pc = IF n.rotate THEN "hb_pub" ELSE "hb_ssh"
  /\ n.rotated = req[r].rotated /\ n.key = req[r].key
Reads(r, ok, k) ==
  LET n == req'[r] IN
  /\ At(r, "hb_pub") /\ Got(ok) /\ k \in ReadKey(req[r].client, ok)
  /\ n.pc = "hb_ssh" /\ n.key = k
  /\ n.rotated = req[r].rotated /\ n.rotate = req[r].rotate
Replies(r) ==
  LET n == req'[r] IN
  /\ At(r, "hb_reply") /\ n.pc = "done" /\ n.code = 200
  /\ n.rotated = req[r].rotated /\ n.rotate = req[r].rotate /\ n.key = req[r].key

AgentAnswer(r) ==
  /\ Keeps(r) /\ OpOf(req[r].pc) \in {"register", "heartbeat"}
  /\ \/ GoesOn(r) \/ Ends(r, Codes \ {200}) \/ Confirms(r) \/ Replies(r)
     \/ \E ok \in BOOLEAN :
          \/ Looks(r, ok)
          \/ \E k \in Keys \cup {NoKey} : Redeems(r, ok, k) \/ Reads(r, ok, k)

(* Every statement that only advances the program counter.                 *)
LEMMA GotoKeeps ==
  ASSUME TypeOK, NEW r \in Slots, ~At(r, "idle"), NEW p \in PCs, Goto(r, p)
  PROVE  /\ OthersStay(r) /\ req'[r].pc = p
         /\ req'[r].op = req[r].op /\ req'[r].client = req[r].client
         /\ SameAnswer(req[r], req'[r])
<1> DEFINE s == [req[r] EXCEPT !.pc = p]
<1>1. RequestsOK /\ req[r] \in Requests
  BY DEF TypeOK, RequestsOK
<1>2. s.pc = p /\ s.op = req[r].op /\ s.client = req[r].client /\ SameAnswer(req[r], s)
  BY <1>1 DEF Requests, SameAnswer
<1>3. OthersStay(r) /\ req'[r] = s
  BY <1>1, GotoOK
<1> HIDE DEF s
<1> QED BY <1>2, <1>3

(* Every response that carries nothing but its code.                       *)
LEMMA RespondEnds ==
  ASSUME TypeOK, NEW r \in Slots, NEW code \in Codes, Respond(r, code)
  PROVE  /\ OthersStay(r) /\ Ends(r, {code})
         /\ req'[r].op = req[r].op /\ req'[r].client = req[r].client
<1> DEFINE s == [Idle EXCEPT !.op = req[r].op, !.pc = "done",
                             !.client = req[r].client, !.code = code]
<1>1. OthersStay(r) /\ req'[r] = s
  BY DEF TypeOK, RequestsOK, Respond, Put, OthersStay
<1>2. /\ s.op = req[r].op /\ s.client = req[r].client /\ s.pc = "done"
      /\ s.code = code /\ ~s.rotated /\ ~s.rotate /\ s.key = NoKey
  BY DEF Idle
<1> HIDE DEF s
<1> QED BY <1>1, <1>2 DEF Ends

(* The handler each program counter belongs to.                            *)
LEMMA Handlers ==
  /\ \A p \in {"rg_token", "rg_used", "rg_online", "rg_setup", "rg_key"} :
       OpOf(p) = "register"
  /\ \A p \in {"hb_read", "hb_peer", "hb_enabled", "hb_nbssh", "hb_record",
                "hb_applied", "hb_ack", "hb_online", "hb_pending", "hb_pub",
                "hb_ssh", "hb_reply"} : OpOf(p) = "heartbeat"
  /\ \A p \in {"cc_setup", "cc_commit"} : OpOf(p) = "create"
  /\ \A p \in {"rk_read", "rk_begin", "rk_delete", "rk_insert", "rk_commit"} :
       OpOf(p) = "rotate"
  /\ \A p \in {"di_scan", "di_peer", "di_forget", "di_status"} : OpOf(p) = "disable"
  /\ \A p \in {"dl_scan", "dl_peer", "dl_setup", "dl_lock", "dl_cascade"} :
       OpOf(p) = "delete"
  /\ \A p \in {"cn_client", "cn_link", "cn_pub", "cn_priv"} : OpOf(p) = "connection"
  /\ OpOf("up_row") = "update" /\ OpOf("pk_key") = "private"
<1> USE DEF CreatePCs, RotatePCs, DisablePCs, DeletePCs, ConnectionPCs, RegisterPCs,
            EnablePCs, BeatPCs, UnreadPCs, ReplyPCs
<1>1. \A p \in {"rg_token", "rg_used", "rg_online", "rg_setup", "rg_key"} :
        OpOf(p) = "register"
  BY DEF OpOf
<1>2. \A p \in {"hb_read", "hb_peer", "hb_enabled", "hb_nbssh", "hb_record",
                "hb_applied", "hb_ack", "hb_online", "hb_pending", "hb_pub",
                "hb_ssh", "hb_reply"} : OpOf(p) = "heartbeat"
  BY DEF OpOf
<1>3. \A p \in {"cc_setup", "cc_commit"} : OpOf(p) = "create"
  BY DEF OpOf
<1>4. \A p \in {"rk_read", "rk_begin", "rk_delete", "rk_insert", "rk_commit"} :
        OpOf(p) = "rotate"
  BY DEF OpOf
<1>5. \A p \in {"di_scan", "di_peer", "di_forget", "di_status"} : OpOf(p) = "disable"
  BY DEF OpOf
<1>6. \A p \in {"dl_scan", "dl_peer", "dl_setup", "dl_lock", "dl_cascade"} :
        OpOf(p) = "delete"
  BY DEF OpOf
<1>7. \A p \in {"cn_client", "cn_link", "cn_pub", "cn_priv"} : OpOf(p) = "connection"
  BY DEF OpOf
<1>8. OpOf("up_row") = "update" /\ OpOf("pk_key") = "private"
  BY DEF OpOf
<1> QED BY <1>1, <1>2, <1>3, <1>4, <1>5, <1>6, <1>7, <1>8

(* Every step of an agent's handler is one of these moves.                 *)
LEMMA AgentAnswers ==
  ASSUME TypeOK, NEW r \in Slots, StepAgent(r)
  PROVE  AgentAnswer(r)
<1> DEFINE c == req[r].client
           from == {"rg_token", "rg_used", "rg_online", "rg_setup", "hb_read",
                    "hb_peer", "hb_enabled", "hb_nbssh", "hb_record", "hb_applied",
                    "hb_online", "rg_key", "hb_ack", "hb_pending"}
<1>t. RequestsOK /\ req[r] \in Requests /\ (~At(r, "idle") => c \in Clients)
  BY DEF TypeOK, RequestsOK
<1>k. \A ok \in BOOLEAN : ~At(r, "idle") => ReadKey(c, ok) \subseteq Keys \cup {NoKey}
  BY <1>t, ReadKeyOK DEF TypeOK
<1>o. OthersStay(r)
  BY AgentQuiet DEF Quiet
<1>g. ASSUME NEW f \in from, At(r, f), NEW p \in from, OpOf(p) = OpOf(f),
             OthersStay(r), req'[r].pc = p, req'[r].op = req[r].op,
             req'[r].client = c, SameAnswer(req[r], req'[r])
      PROVE  AgentAnswer(r)
  BY <1>g, Handlers DEF AgentAnswer, Keeps, GoesOn, ReplyPCs, At
<1>j. ASSUME NEW f \in from, At(r, f), NEW p \in from, OpOf(p) = OpOf(f), Goto(r, p)
      PROVE  AgentAnswer(r)
  BY <1>j, <1>g, GotoKeeps DEF PCs, At
<1>d. ASSUME NEW code \in Codes \ {200}, Respond(r, code), NEW f \in from, At(r, f)
      PROVE  AgentAnswer(r)
  BY <1>d, Handlers, RespondEnds DEF AgentAnswer, Keeps, Ends, At
<1>1. CASE CheckToken(r)
  <2>1. /\ At(r, "rg_token")
        /\ \/ Respond(r, 401) \/ Respond(r, 409) \/ Respond(r, 410)
           \/ Goto(r, "rg_used")
    BY <1>1 DEF CheckToken
  <2> QED BY <2>1, <1>j, <1>d, Handlers, Names
<1>2. CASE MarkTokenUsed(r)
  BY <1>2, <1>j, Handlers DEF MarkTokenUsed
<1>3. CASE RegisterOnline(r)
  BY <1>3, <1>j, Handlers DEF RegisterOnline
<1>4. CASE ReadSetupKey(r)
  <2> DEFINE s(x) == [req[r] EXCEPT !.pc = "rg_key", !.setup = x]
  <2>1. At(r, "rg_setup") /\ \E x : req'[r] = s(x)
    BY <1>4, <1>t DEF ReadSetupKey, Put, RequestsOK
  <2>2. \A x : /\ s(x).pc = "rg_key" /\ s(x).op = req[r].op /\ s(x).client = c
              /\ SameAnswer(req[r], s(x))
    BY <1>t DEF Requests, SameAnswer
  <2> HIDE DEF s
  <2> QED BY <2>1, <2>2, <1>o, <1>g, Handlers
<1>5. CASE IssueAgentToken(r)
  <2> DEFINE s(k) == [req[r] EXCEPT !.pc = "done", !.code = 200, !.key = k]
  <2>1. /\ At(r, "rg_key")
        /\ \E ok \in BOOLEAN : \E k \in ReadKey(c, ok) : Got(ok) /\ req'[r] = s(k)
    BY <1>5, <1>t DEF IssueAgentToken, Put, RequestsOK
  <2>2. \A k : /\ s(k).pc = "done" /\ s(k).code = 200 /\ s(k).key = k
              /\ s(k).op = req[r].op /\ s(k).client = c
    BY <1>t DEF Requests
  <2> HIDE DEF s
  <2>3. \E ok \in BOOLEAN, k \in Keys \cup {NoKey} : Redeems(r, ok, k)
    BY <2>1, <2>2, <1>k DEF Redeems, At
  <2>4. Keeps(r) /\ OpOf(req[r].pc) = "register"
    BY <2>1, <2>2, <1>o, Handlers DEF Keeps, At
  <2> QED BY <2>3, <2>4 DEF AgentAnswer
<1>6. CASE ReadStatus(r)
  <2> DEFINE s(p) == [req[r] EXCEPT !.seen = status[c], !.pc = p]
  <2>1. /\ At(r, "hb_read")
        /\ \/ Respond(r, 401)
           \/ req'[r] = s(IF req[r].peer # NoClient THEN "hb_peer" ELSE "hb_applied")
    BY <1>6, <1>t DEF ReadStatus, Put, RequestsOK
  <2>2. \A p : /\ s(p).pc = p /\ s(p).op = req[r].op /\ s(p).client = c
              /\ SameAnswer(req[r], s(p))
    BY <1>t DEF Requests, SameAnswer
  <2> HIDE DEF s
  <2> QED BY <2>1, <2>2, <1>o, <1>g, <1>d, Handlers, Names
<1>7. CASE RecordPeer(r)
  BY <1>7, <1>j, Handlers DEF RecordPeer
<1>8. CASE ReadAlreadyEnabled(r)
  <2>1. At(r, "hb_enabled") /\ (Goto(r, "hb_applied") \/ Goto(r, "hb_nbssh"))
    BY <1>8 DEF ReadAlreadyEnabled
  <2> QED BY <2>1, <1>j, Handlers
<1>9. CASE EnableSSH(r)
  BY <1>9, <1>j, Handlers DEF EnableSSH
<1>10. CASE RecordEnabled(r)
  BY <1>10, <1>j, Handlers DEF RecordEnabled
<1>11. CASE RecordApplied(r)
  <2> DEFINE s == [req[r] EXCEPT !.pc = "hb_ack", !.peer = NoClient, !.applied = FALSE]
  <2>1. At(r, "hb_applied") /\ req'[r] = s
    BY <1>11, <1>t DEF RecordApplied, Put, RequestsOK
  <2>2. s.pc = "hb_ack" /\ s.op = req[r].op /\ s.client = c /\ SameAnswer(req[r], s)
    BY <1>t DEF Requests, SameAnswer
  <2> HIDE DEF s
  <2> QED BY <2>1, <2>2, <1>o, <1>g, Handlers
<1>12. CASE AcknowledgeRotation(r)
  <2> DEFINE s == [req[r] EXCEPT !.pc = "hb_online", !.rotated = FALSE]
  <2>1. At(r, "hb_ack") /\ req'[r] = s
    BY <1>12, <1>t DEF AcknowledgeRotation, Put, RequestsOK
  <2>2. /\ s.pc = "hb_online" /\ s.op = req[r].op /\ s.client = c /\ ~s.rotated
        /\ s.rotate = req[r].rotate /\ s.key = req[r].key /\ s.code = req[r].code
    BY <1>t DEF Requests
  <2> HIDE DEF s
  <2>3. Confirms(r)
    BY <2>1, <2>2 DEF Confirms
  <2>4. Keeps(r) /\ OpOf(req[r].pc) = "heartbeat"
    BY <2>1, <2>2, <1>o, Handlers DEF Keeps, At
  <2> QED BY <2>3, <2>4 DEF AgentAnswer
<1>13. CASE HeartbeatOnline(r)
  BY <1>13, <1>j, Handlers DEF HeartbeatOnline
<1>14. CASE ReadPendingRotation(r)
  <2> DEFINE s(x) == [req[r] EXCEPT !.rotate = x, !.pc = IF x THEN "hb_pub" ELSE "hb_ssh"]
  <2>1. PICK ok \in BOOLEAN : Got(ok) /\ Put(r, s(ok /\ PendingKeys(c) # {}))
    BY <1>14 DEF ReadPendingRotation
  <2>2. \A x \in BOOLEAN :
          /\ s(x).pc = IF x THEN "hb_pub" ELSE "hb_ssh"
          /\ s(x).op = req[r].op /\ s(x).client = c
          /\ s(x).rotated = req[r].rotated /\ s(x).rotate = x /\ s(x).key = req[r].key
    BY <1>t DEF Requests
  <2>3. At(r, "hb_pending")
    BY <1>14 DEF ReadPendingRotation
  <2> HIDE DEF s
  <2>4. PICK x \in BOOLEAN : x = (ok /\ PendingKeys(c) # {}) /\ req'[r] = s(x)
    BY <2>1, <1>t DEF Put, RequestsOK
  <2>5. Looks(r, ok)
    BY <2>1, <2>2, <2>3, <2>4 DEF Looks
  <2>6. /\ req'[r].pc \in {"hb_pub", "hb_ssh"} /\ req'[r].op = req[r].op
        /\ req'[r].client = c
    BY <2>2, <2>4
  <2>7. Keeps(r) /\ OpOf(req[r].pc) = "heartbeat"
    BY <2>3, <2>6, <1>o, Handlers DEF Keeps, At
  <2> QED BY <2>5, <2>7 DEF AgentAnswer
<1>15. CASE ReadInstallPub(r)
  <2> DEFINE s(k) == [req[r] EXCEPT !.pc = "hb_ssh", !.key = k]
  <2>1. /\ At(r, "hb_pub")
        /\ \E ok \in BOOLEAN : \E k \in ReadKey(c, ok) : Got(ok) /\ req'[r] = s(k)
    BY <1>15, <1>t DEF ReadInstallPub, Put, RequestsOK
  <2>2. \A k : /\ s(k).pc = "hb_ssh" /\ s(k).key = k /\ s(k).op = req[r].op
              /\ s(k).client = c /\ s(k).rotated = req[r].rotated
              /\ s(k).rotate = req[r].rotate
    BY <1>t DEF Requests
  <2> HIDE DEF s
  <2>3. \E ok \in BOOLEAN, k \in Keys \cup {NoKey} : Reads(r, ok, k)
    BY <2>1, <2>2, <1>k DEF Reads, At
  <2>4. Keeps(r) /\ OpOf(req[r].pc) = "heartbeat"
    BY <2>1, <2>2, <1>o, Handlers DEF Keeps, At
  <2> QED BY <2>3, <2>4 DEF AgentAnswer
<1>16. CASE ReadSshEnabled(r)
  <2> DEFINE s(x) == [req[r] EXCEPT !.pc = "hb_reply", !.enabled = x]
  <2>1. At(r, "hb_ssh") /\ \E x : req'[r] = s(x)
    BY <1>16, <1>t DEF ReadSshEnabled, Put, RequestsOK
  <2>2. \A x : /\ s(x).pc = "hb_reply" /\ s(x).op = req[r].op /\ s(x).client = c
              /\ SameAnswer(req[r], s(x))
    BY <1>t DEF Requests, SameAnswer
  <2> HIDE DEF s
  <2>3. GoesOn(r)
    BY <2>1, <2>2 DEF GoesOn, At
  <2>4. Keeps(r) /\ OpOf(req[r].pc) = "heartbeat"
    BY <2>1, <2>2, <1>o, Handlers DEF Keeps, At
  <2> QED BY <2>3, <2>4 DEF AgentAnswer
<1>17. CASE ReplyHeartbeat(r)
  <2> DEFINE s(x) == [req[r] EXCEPT !.pc = "done", !.code = 200,
                                    !.enabled = FALSE, !.apply = x]
  <2>1. At(r, "hb_reply") /\ \E x : req'[r] = s(x)
    <3>1. \E ok \in BOOLEAN : Put(r, s(req[r].enabled /\ ~(ok /\ link[c].applied)))
      BY <1>17 DEF ReplyHeartbeat
    <3> HIDE DEF s
    <3> QED BY <3>1, <1>17, <1>t DEF ReplyHeartbeat, Put, RequestsOK
  <2>2. \A x : /\ s(x).pc = "done" /\ s(x).code = 200 /\ s(x).op = req[r].op
              /\ s(x).client = c /\ s(x).rotated = req[r].rotated
              /\ s(x).rotate = req[r].rotate /\ s(x).key = req[r].key
    BY <1>t DEF Requests
  <2> HIDE DEF s
  <2>3. Replies(r)
    BY <2>1, <2>2 DEF Replies
  <2>4. Keeps(r) /\ OpOf(req[r].pc) = "heartbeat"
    BY <2>1, <2>2, <1>o, Handlers DEF Keeps, At
  <2> QED BY <2>3, <2>4 DEF AgentAnswer
<1> QED BY <1>1, <1>2, <1>3, <1>4, <1>5, <1>6, <1>7, <1>8, <1>9, <1>10,
       <1>11, <1>12, <1>13, <1>14, <1>15, <1>16, <1>17 DEF StepAgent

(* Nor does a step of the dashboard's handlers change the kind of a        *)
(* request.                                                                *)
AdminOps == {"create", "rotate", "disable", "delete", "connection", "update", "private"}
LEMMA AdminAnswers ==
  ASSUME TypeOK, NEW r \in Slots, StepAdmin(r)
  PROVE  Keeps(r) /\ OpOf(req[r].pc) \in AdminOps
<1> DEFINE c == req[r].client
           goal == Keeps(r) /\ OpOf(req[r].pc) \in AdminOps
           admin == {"cc_setup", "cc_commit", "rk_read", "rk_begin", "rk_delete",
                     "rk_insert", "rk_commit", "di_scan", "di_peer", "di_forget",
                     "di_status", "dl_scan", "dl_peer", "dl_setup", "dl_lock",
                     "dl_cascade", "cn_client", "cn_link", "cn_pub", "cn_priv",
                     "up_row", "pk_key"}
<1>t. RequestsOK /\ req[r] \in Requests
  BY DEF TypeOK, RequestsOK
<1>h. \A p \in admin : OpOf(p) \in AdminOps
  BY Handlers DEF AdminOps
<1>o. OthersStay(r) /\ req'[r].client = c
  BY AdminMoves DEF AdminMove
<1>e. ASSUME NEW f \in admin, At(r, f), req'[r].op = req[r].op,
             NEW p \in admin \cup {"done"}, p = "done" \/ OpOf(p) = OpOf(f),
             req'[r].pc = p
      PROVE  goal
  BY <1>e, <1>h, <1>o DEF Keeps, At
<1>g. ASSUME NEW f \in admin, At(r, f), NEW p \in admin, OpOf(p) = OpOf(f), Goto(r, p)
      PROVE  goal
  BY <1>g, <1>e, GotoKeeps DEF PCs, At
<1>d. ASSUME NEW code \in Codes, Respond(r, code), NEW f \in admin, At(r, f)
      PROVE  goal
  BY <1>d, <1>e, RespondEnds DEF Ends
<1>1. CASE CreateSetupKey(r) \/ CommitClient(r)
  <2>1. \/ At(r, "cc_setup") /\ (Goto(r, "cc_commit") \/ Respond(r, 502))
        \/ At(r, "cc_commit") /\ (Respond(r, 201) \/ Respond(r, 500))
    BY <1>1 DEF CreateSetupKey, CommitClient
  <2> QED BY <2>1, <1>g, <1>d, Handlers, Names
<1>2. CASE ReadName(r) \/ InsertKey(r) \/ CommitRotation(r)
  <2>1. \/ At(r, "rk_read") /\ (Goto(r, "rk_begin") \/ Respond(r, 404))
        \/ At(r, "rk_insert") /\ (Goto(r, "rk_commit") \/ Respond(r, 500))
        \/ At(r, "rk_commit") /\ (Respond(r, 200) \/ Respond(r, 500))
    BY <1>2 DEF ReadName, InsertKey, CommitRotation
  <2> QED BY <2>1, <1>g, <1>d, Handlers, Names
<1>3. CASE BeginDelete(r)
  <2> DEFINE s == [req[r] EXCEPT !.pc = "rk_delete", !.snap = active[c]]
  <2>1. At(r, "rk_begin") /\ (Respond(r, 500) \/ req'[r] = s)
    BY <1>3, <1>t DEF BeginDelete, Put, RequestsOK
  <2>2. s.pc = "rk_delete" /\ s.op = req[r].op
    BY <1>t DEF Requests
  <2> HIDE DEF s
  <2> QED BY <2>1, <2>2, <1>e, <1>d, Handlers, Names
<1>4. CASE DeleteOldKeys(r)
  <2> DEFINE s == [req[r] EXCEPT !.pc = "rk_insert", !.doomed = req[r].snap \cap active[c]]
  <2>1. At(r, "rk_delete") /\ req'[r] = s
    BY <1>4, <1>t DEF DeleteOldKeys, Put, RequestsOK
  <2>2. s.pc = "rk_insert" /\ s.op = req[r].op
    BY <1>t DEF Requests
  <2> HIDE DEF s
  <2> QED BY <2>1, <2>2, <1>e, Handlers
<1>5. CASE DisableScanLink(r)
  <2> DEFINE s(x, p) == [req[r] EXCEPT !.peer = x, !.pc = p]
  <2>1. At(r, "di_scan") /\ \E x : req'[r] = s(x, IF x # NoClient THEN "di_peer" ELSE "di_status")
    BY <1>5, <1>t DEF DisableScanLink, Put, RequestsOK
  <2>2. \A x, p : s(x, p).pc = p /\ s(x, p).op = req[r].op
    BY <1>t DEF Requests
  <2> HIDE DEF s
  <2>3. req'[r].pc \in {"di_peer", "di_status"} /\ req'[r].op = req[r].op
    BY <2>1, <2>2
  <2> QED BY <2>1, <2>3, <1>e, Handlers
<1>6. CASE DisableDeletePeer(r) \/ ForgetPeer(r) \/ SetDisabled(r)
  <2>1. \/ At(r, "di_peer") /\ (Goto(r, "di_forget") \/ Goto(r, "di_status"))
        \/ At(r, "di_forget") /\ Goto(r, "di_status")
        \/ At(r, "di_status") /\ (Respond(r, 200) \/ Respond(r, 500))
    BY <1>6 DEF DisableDeletePeer, ForgetPeer, SetDisabled
  <2> QED BY <2>1, <1>g, <1>d, Handlers, Names
<1>7. CASE DeleteScanLink(r)
  <2> DEFINE s(x, y) == [req[r] EXCEPT !.peer = x, !.setup = y, !.pc = "dl_peer"]
  <2>1. At(r, "dl_scan") /\ \E x, y : req'[r] = s(x, y)
    BY <1>7, <1>t DEF DeleteScanLink, Put, RequestsOK
  <2>2. \A x, y : s(x, y).pc = "dl_peer" /\ s(x, y).op = req[r].op
    BY <1>t DEF Requests
  <2> HIDE DEF s
  <2> QED BY <2>1, <2>2, <1>e, Handlers
<1>8. CASE DeleteDeletePeer(r) \/ DeleteSetupKey(r) \/ LockClient(r) \/ Cascade(r)
  <2>1. \/ At(r, "dl_peer") /\ Goto(r, "dl_setup")
        \/ At(r, "dl_setup") /\ Goto(r, "dl_lock")
        \/ /\ At(r, "dl_lock")
           /\ Goto(r, "dl_cascade") \/ Respond(r, 200) \/ Respond(r, 500)
        \/ At(r, "dl_cascade") /\ (Respond(r, 200) \/ Respond(r, 500))
    BY <1>8 DEF DeleteDeletePeer, DeleteSetupKey, LockClient, Cascade
  <2> QED BY <2>1, <1>g, <1>d, Handlers, Names
<1>9. CASE ReadConnection(r)
  <2> DEFINE s(x) == [req[r] EXCEPT !.peer = x, !.pc = "cn_pub"]
             u(k) == [req[r] EXCEPT !.key = k, !.pc = "cn_priv"]
             v(k) == [req[r] EXCEPT !.priv = k, !.pc = "done", !.code = 200]
  <2>1. \/ At(r, "cn_client") /\ (Goto(r, "cn_link") \/ Respond(r, 404))
        \/ At(r, "cn_link") /\ \E x : req'[r] = s(x)
        \/ At(r, "cn_pub") /\ \E k : req'[r] = u(k)
        \/ At(r, "cn_priv") /\ \E k : req'[r] = v(k)
    <3>1. PICK ok \in BOOLEAN :
            \/ At(r, "cn_client") /\ (Goto(r, "cn_link") \/ Respond(r, 404))
            \/ At(r, "cn_link") /\ Put(r, s(IF ok THEN ScanLink(c).peer ELSE NoClient))
            \/ At(r, "cn_pub") /\ \E k \in ReadKey(c, ok) : Put(r, u(k))
            \/ At(r, "cn_priv") /\ \E k \in ReadKey(c, ok) : Put(r, v(k))
      BY <1>9 DEF ReadConnection
    <3> HIDE DEF s, u, v
    <3> QED BY <3>1, <1>t DEF Put, RequestsOK
  <2>2. \A x : /\ s(x).pc = "cn_pub" /\ s(x).op = req[r].op
              /\ u(x).pc = "cn_priv" /\ u(x).op = req[r].op
              /\ v(x).pc = "done" /\ v(x).op = req[r].op
    BY <1>t DEF Requests
  <2> HIDE DEF s, u, v
  <2> QED BY <2>1, <2>2, <1>e, <1>g, <1>d, Handlers, Names
<1>10. CASE UpdateRow(r)
  <2>1. At(r, "up_row") /\ (Respond(r, 200) \/ Respond(r, 404) \/ Respond(r, 500))
    BY <1>10 DEF UpdateRow
  <2> QED BY <2>1, <1>d, Names
<1>11. CASE ReadPrivateKey(r)
  <2> DEFINE s(k) == [req[r] EXCEPT !.priv = k, !.pc = "done", !.code = 200]
  <2>1. /\ At(r, "pk_key")
        /\ Respond(r, 404) \/ Respond(r, 500) \/ \E k : req'[r] = s(k)
    BY <1>11, <1>t DEF ReadPrivateKey, Put, RequestsOK
  <2>2. \A k : s(k).pc = "done" /\ s(k).op = req[r].op
    BY <1>t DEF Requests
  <2> HIDE DEF s
  <2> QED BY <2>1, <2>2, <1>e, <1>d, Names
<1> QED BY <1>1, <1>2, <1>3, <1>4, <1>5, <1>6, <1>7, <1>8, <1>9, <1>10, <1>11
        DEF StepAdmin

(* A heartbeat starts with what the agent reports.                         *)
LEMMA HeartbeatStarts ==
  ASSUME TypeOK, NEW r \in Slots, NEW c \in Clients, NEW peer \in Peers,
         NEW rotated \in BOOLEAN, NEW applied \in BOOLEAN,
         StartHeartbeat(r, c, peer, rotated, applied)
  PROVE  LET n == req'[r] IN
         /\ At(r, "idle") /\ OthersStay(r) /\ issued[c] > 0
         /\ n.op = "heartbeat" /\ n.pc = "hb_read" /\ n.client = c
         /\ n.rotated = rotated /\ ~n.rotate /\ n.key = NoKey
<1> DEFINE s == [Idle EXCEPT !.op = "heartbeat", !.pc = "hb_read", !.client = c,
                   !.peer = peer, !.rotated = rotated, !.applied = applied]
<1>1. At(r, "idle") /\ OthersStay(r) /\ issued[c] > 0 /\ req'[r] = s
  BY DEF TypeOK, RequestsOK, StartHeartbeat, Put, OthersStay
<1>2. /\ s.op = "heartbeat" /\ s.pc = "hb_read" /\ s.client = c
      /\ s.rotated = rotated /\ ~s.rotate /\ s.key = NoKey
  BY DEF Idle
<1> HIDE DEF s
<1> QED BY <1>1, <1>2

(* A request starts at the top of its handler, for a client that exists or *)
(* existed if it is not the one to create it.                              *)
FirstPCs == {"cc_setup", "rk_read", "di_scan", "dl_scan", "cn_client", "up_row",
             "pk_key", "rg_token", "hb_read"}
Starts(r, c) ==
  LET n == req'[r] IN
  /\ At(r, "idle") /\ OthersStay(r) /\ n.client = c
  /\ n.pc \in FirstPCs /\ n.op = OpOf(n.pc)
  /\ ~n.rotate /\ (n.pc = "hb_read" => n.key = NoKey)
  /\ n.pc # "cc_setup" => status[c] # "absent"
  /\ UNCHANGED <<clientVars, active, acked, overlap, sideVars, faults>>

(* The requests that are opened: those of Backend's callers, and those of  *)
(* Motech's machine, which reports an IP under the token it has.           *)
Opens(r, c) ==
  \/ Start(r, c) \/ StartRegister(r, c)
  \/ \E peer \in Peers, rotated, applied \in BOOLEAN :
       StartHeartbeat(r, c, peer, rotated, applied)

(* All that is not a statement of a request; a failure may be one of the   *)
(* machine.                                                                *)
Outside ==
  \/ \E r \in Slots, c \in Clients : Opens(r, c)
  \/ \E r \in Slots : Receive(r)
  \/ \E c \in Clients : World(c)
  \/ ServerCrash
  \/ UNCHANGED <<dbVars, req>> /\ (UNCHANGED faults \/ Fault)

LEMMA NextIs == [Next]_vars => Outside \/ \E r \in Slots : Serve(r)
BY DEF Next, Outside, Opens, vars

LEMMA StartAnswers ==
  ASSUME TypeOK, KnownInv, NEW r \in Slots, NEW c \in Clients, Opens(r, c)
  PROVE  Starts(r, c)
<1> USE DEF dbVars, keyVars
<1>t. req \in [Slots -> Requests]
  BY DEF TypeOK, RequestsOK
<1>b. ASSUME NEW op, NEW p \in FirstPCs \ {"cc_setup", "hb_read"}, OpOf(p) = op,
             Begin(r, op, p, c), status[c] # "absent", UNCHANGED <<dbVars, faults>>
      PROVE  Starts(r, c)
  <2> DEFINE s == [Idle EXCEPT !.op = op, !.pc = p, !.client = c]
  <2>1. At(r, "idle") /\ OthersStay(r) /\ req'[r] = s
    BY <1>b, <1>t DEF Begin, Put, OthersStay
  <2>2. s.op = op /\ s.pc = p /\ s.client = c /\ ~s.rotate
    BY DEF Idle
  <2> HIDE DEF s
  <2> QED BY <2>1, <2>2, <1>b DEF Starts
<1>k. ASSUME NEW op, NEW p \in {"cc_setup", "rk_read"}, OpOf(p) = op, NEW k,
             Put(r, [Idle EXCEPT !.op = op, !.pc = p, !.client = c, !.key = k]),
             At(r, "idle"), p # "cc_setup" => status[c] # "absent",
             UNCHANGED <<clientVars, active, acked, overlap, sideVars, faults>>
      PROVE  Starts(r, c)
  <2> DEFINE s == [Idle EXCEPT !.op = op, !.pc = p, !.client = c, !.key = k]
  <2>1. OthersStay(r) /\ req'[r] = s
    BY <1>k, <1>t DEF Put, OthersStay
  <2>2. s.op = op /\ s.pc = p /\ s.client = c /\ ~s.rotate
    BY DEF Idle
  <2> HIDE DEF s
  <2> QED BY <2>1, <2>2, <1>k DEF Starts, FirstPCs
<1>1. CASE StartCreateClient(r, c) \/ StartRotateKey(r, c)
  BY <1>1, <1>k, Handlers DEF StartCreateClient, StartRotateKey
<1>2. CASE \/ StartDisableClient(r, c) \/ StartDeleteClient(r, c)
           \/ StartConnection(r, c) \/ StartUpdateClient(r, c)
           \/ StartPrivateKey(r, c) \/ StartRegister(r, c)
  BY <1>2, <1>b, Handlers DEF FirstPCs, StartDisableClient, StartDeleteClient,
     StartConnection, StartUpdateClient, StartPrivateKey, StartRegister
<1>3. CASE \E x \in Peers, y, z \in BOOLEAN : StartHeartbeat(r, c, x, y, z)
  <2>1. PICK x \in Peers, y \in BOOLEAN, z \in BOOLEAN : StartHeartbeat(r, c, x, y, z)
    BY <1>3
  <2>2. UNCHANGED <<dbVars, faults>> /\ status[c] # "absent"
    BY <2>1 DEF StartHeartbeat, KnownInv
  <2> QED BY <2>1, <2>2, HeartbeatStarts, Handlers DEF Starts, FirstPCs
<1>4. StartHeartbeats(r, c) =>
        \E x \in Peers, y, z \in BOOLEAN : StartHeartbeat(r, c, x, y, z)
  BY DEF StartHeartbeats
<1> QED BY <1>1, <1>2, <1>3, <1>4 DEF Start, Opens

(* None of this disturbs the transactions.                                 *)
LEMMA OutsideKeeps ==
  ASSUME IInv, Outside
  PROVE  IInv'
<1>1. ASSUME NEW r \in Slots, NEW c \in Clients,
             NEW x \in Peers, NEW y \in BOOLEAN, NEW z \in BOOLEAN,
             StartHeartbeat(r, c, x, y, z)
      PROVE  IInv'
  <2> DEFINE s(op, p) == [Idle EXCEPT !.op = op, !.pc = p, !.client = c,
                            !.peer = x, !.rotated = y, !.applied = z]
  <2>1. UNCHANGED <<dbVars, faults>> /\ Put(r, s("heartbeat", "hb_read"))
    BY <1>1 DEF StartHeartbeat
  <2>2. ASSUME NEW op \in Ops, NEW p \in PCs
        PROVE  s(op, p) \in Requests /\ s(op, p).pc = p /\ s(op, p).client = c
    BY IdleOK DEF Requests
  <2> HIDE DEF s
  <2>3. Quiet(r)
    <3>1. "heartbeat" \in Ops
      BY DEF Ops
    <3> QED BY <2>1, <2>2, <3>1, PutOK, Names DEF Quiet, IInv, TypeOK
  <2>4. Benign /\ DataOK'
    BY <2>1 DEF IInv, TypeOK, RowsOK, DataOK, Benign, SameRows, Live,
                dbVars, clientVars, keyVars, sideVars
  <2> QED BY <2>3, <2>4, QuietStep
<1>2. ASSUME NEW r \in Slots, NEW c \in Clients, StartRegister(r, c)
      PROVE  IInv'
  <2>1. UNCHANGED <<dbVars, faults>>
    BY <1>2 DEF StartRegister
  <2>2. Benign /\ DataOK'
    BY <2>1 DEF IInv, TypeOK, RowsOK, DataOK, Benign, SameRows, Live,
                dbVars, clientVars, keyVars, sideVars
  <2> QED BY <1>2, <2>2, StartQuiet, QuietStep DEF IInv
<1>3. CASE UNCHANGED <<dbVars, req>> /\ (UNCHANGED faults \/ Fault)
  <2> USE <1>3 DEF dbVars, clientVars, keyVars, sideVars
  <2>1. TypeOK'
    BY DEF IInv, TypeOK, RowsOK, RequestsOK, Fault, At
  <2>2. KeyInv' /\ SerialInv'
    BY DEF IInv, KeyInv, SerialInv, At, Rotating
  <2>3. RowInv'
    BY DEF IInv, RowInv, ClientIsComplete, At, Live, RowLocked, Deleting
  <2> QED BY <2>1, <2>2, <2>3 DEF IInv
<1> QED BY <1>1, <1>2, <1>3, StartInv, OutsideInv DEF Outside, Opens

---------------------------------------------------------------------------
(* RouteInv.                                                               *)

(* The heartbeat's program counters.                                       *)
LEMMA HeartbeatPCs ==
  /\ \A p : OpOf(p) = "heartbeat" => p \in UnreadPCs \cup ReplyPCs
  /\ \A p \in UnreadPCs \cup ReplyPCs : OpOf(p) = "heartbeat"
<1>1. \A p : OpOf(p) = "heartbeat" => p \in UnreadPCs \cup ReplyPCs
  BY DEF OpOf
<1>2. \A p \in UnreadPCs \cup ReplyPCs : OpOf(p) = "heartbeat"
  BY Handlers DEF UnreadPCs, ReplyPCs, BeatPCs, EnablePCs
<1> QED BY <1>1, <1>2

(* A client that exists or existed does so for ever.                       *)
LEMMA RowsStay ==
  ASSUME IInv, NEW r \in Slots, Serve(r)
  PROVE  \A c \in Clients : status[c] # "absent" => status'[c] # "absent"
<1> USE DEF dbVars, clientVars, keyVars, sideVars
<1>t. status \in [Clients -> Rows \cup {"absent", "deleted"}]
  BY DEF IInv, TypeOK, RowsOK
<1>1. CASE StepAgent(r)
  <2>1. \/ UNCHANGED status
        \/ status' = [status EXCEPT ![req[r].client] =
                        IF Live(req[r].client) THEN "online" ELSE @]
    BY <1>1 DEF StepAgent, CheckToken, MarkTokenUsed, RegisterOnline, ReadSetupKey,
           IssueAgentToken, ReadStatus, RecordPeer, ReadAlreadyEnabled, EnableSSH,
           RecordEnabled, RecordApplied, AcknowledgeRotation, HeartbeatOnline,
           ReadPendingRotation, ReadInstallPub, ReadSshEnabled, ReplyHeartbeat
  <2> QED BY <2>1, <1>t
<1>2. CASE StepAdmin(r)
  <2>1. CASE CommitClient(r) \/ SetDisabled(r) \/ Cascade(r)
    BY <2>1, <1>t DEF CommitClient, SetDisabled, Cascade
  <2>2. CASE ~(CommitClient(r) \/ SetDisabled(r) \/ Cascade(r))
    BY <1>2, <2>2 DEF StepAdmin, CreateSetupKey, ReadName, BeginDelete, DeleteOldKeys,
       InsertKey, CommitRotation, DisableScanLink, DisableDeletePeer, ForgetPeer,
       DeleteScanLink, DeleteDeletePeer, DeleteSetupKey, LockClient,
       ReadConnection, UpdateRow, ReadPrivateKey
  <2> QED BY <2>1, <2>2
<1> QED BY <1>1, <1>2 DEF Serve

(* It is enough to look at the request that moves.                         *)
LEMMA RouteOne ==
  ASSUME TypeOK, RouteInv, NEW r \in Slots, OthersStay(r),
         \A c \in Clients : status[c] # "absent" => status'[c] # "absent",
         req'[r].pc \notin {"idle", "done"} => req'[r].op = OpOf(req'[r].pc),
         req'[r].pc # "idle" /\ req'[r].op # "create" =>
           req'[r].client \in Clients /\ status[req'[r].client] # "absent",
         req'[r].pc \in UnreadPCs => req'[r].key = NoKey,
         req'[r].pc = "hb_pub" => req'[r].rotate
  PROVE  RouteInv'
<1>1. \A q \in Slots : q = r \/ req'[q] = req[q]
  BY DEF OthersStay
<1>2. \A q \in Slots : req'[q].pc # "idle" /\ req'[q].op # "create" =>
        req'[q].client \in Clients /\ status[req'[q].client] # "absent"
  BY <1>1 DEF RouteInv, TypeOK, RequestsOK, At
<1>3. \A q \in Slots : ~At(q, "idle")' /\ req'[q].op # "create" =>
        status'[req'[q].client] # "absent"
  BY <1>2 DEF At
<1>4. /\ \A q \in Slots : req'[q].pc \notin {"idle", "done"} => req'[q].op = OpOf(req'[q].pc)
      /\ \A q \in Slots : req'[q].pc \in UnreadPCs => req'[q].key = NoKey
      /\ \A q \in Slots : At(q, "hb_pub")' => req'[q].rotate
  BY <1>1 DEF RouteInv, At
<1> QED BY <1>3, <1>4 DEF RouteInv

(* Every statement keeps it.                                               *)
LEMMA ServeRoute ==
  ASSUME IInv, RouteInv, NEW r \in Slots, Serve(r)
  PROVE  RouteInv'
<1>t. TypeOK
  BY DEF IInv
<1>1. Keeps(r) /\ (AgentAnswer(r) \/ OpOf(req[r].pc) \in AdminOps)
  BY <1>t, AgentAnswers, AdminAnswers DEF Serve, AgentAnswer
<1>2. \A c \in Clients : status[c] # "absent" => status'[c] # "absent"
  BY RowsStay
<1>3. req'[r].pc \notin {"idle", "done"} => req'[r].op = OpOf(req'[r].pc)
  BY <1>1 DEF Keeps, RouteInv
<1>4. req'[r].pc # "idle" /\ req'[r].op # "create" =>
        req'[r].client \in Clients /\ status[req'[r].client] # "absent"
  BY <1>1, <1>t DEF Keeps, RouteInv, TypeOK, RequestsOK, At
<1>5. /\ req'[r].pc \in UnreadPCs => req'[r].key = NoKey
      /\ req'[r].pc = "hb_pub" => req'[r].rotate
  <2>1. CASE OpOf(req[r].pc) \in AdminOps
    <3>1. OpOf(req[r].pc) # "heartbeat"
      BY <2>1 DEF AdminOps
    <3>2. req'[r].pc \notin UnreadPCs \cup {"hb_pub"}
      BY <1>1, <3>1, HeartbeatPCs, Handlers DEF Keeps, UnreadPCs, BeatPCs, EnablePCs
    <3> QED BY <3>2
  <2>2. CASE AgentAnswer(r)
    <3> USE DEF At, ReplyPCs
    <3>1. {"done", "hb_ssh", "hb_reply"} \cap UnreadPCs = {}
          /\ {"hb_ack", "hb_pending"} \subseteq UnreadPCs
      BY DEF UnreadPCs, BeatPCs, EnablePCs
    <3>2. CASE GoesOn(r)
      <4>1. req'[r].pc \in UnreadPCs => req[r].pc \in UnreadPCs
        <5> SUFFICES ASSUME req'[r].pc \in UnreadPCs PROVE req[r].pc \in UnreadPCs
          OBVIOUS
        <5>1. OpOf(req[r].pc) = "heartbeat"
          BY <1>1, <3>1, HeartbeatPCs DEF Keeps
        <5>2. req[r].pc \notin ReplyPCs
          BY <3>1, <3>2 DEF GoesOn
        <5> QED BY <5>1, <5>2, HeartbeatPCs
      <4> QED BY <3>1, <3>2, <4>1 DEF GoesOn, SameAnswer, RouteInv
    <3>3. CASE Ends(r, Codes \ {200}) \/ Confirms(r) \/ Replies(r)
      BY <3>1, <3>3 DEF Ends, Confirms, Replies, RouteInv
    <3>4. CASE \E ok \in BOOLEAN : Looks(r, ok)
      BY <3>1, <3>4 DEF Looks, RouteInv
    <3>5. CASE \E ok \in BOOLEAN, k \in Keys \cup {NoKey} : Redeems(r, ok, k) \/ Reads(r, ok, k)
      BY <3>1, <3>5 DEF Redeems, Reads
    <3> QED BY <2>2, <3>2, <3>3, <3>4, <3>5 DEF AgentAnswer
  <2> QED BY <1>1, <2>1, <2>2
<1> QED BY <1>1, <1>2, <1>3, <1>4, <1>5, <1>t, RouteOne DEF Keeps

(* So does everything else.                                                *)
LEMMA OtherRoute ==
  ASSUME IInv, KnownInv, RouteInv, Outside
  PROVE  RouteInv'
<1> USE DEF dbVars, clientVars, sideVars
<1>t. TypeOK
  BY DEF IInv
<1>1. CASE \E r \in Slots, c \in Clients : Opens(r, c)
  <2>1. PICK r \in Slots, c \in Clients : Opens(r, c)
    BY <1>1
  <2>2. Starts(r, c)
    BY <2>1, <1>t, StartAnswers
  <2>3. /\ req'[r].pc \notin {"idle", "done", "hb_pub"}
        /\ req'[r].pc \in UnreadPCs => req'[r].pc = "hb_read"
        /\ req'[r].pc = "cc_setup" => OpOf(req'[r].pc) = "create"
    BY <2>2, Handlers DEF Starts, FirstPCs, UnreadPCs, BeatPCs, EnablePCs
  <2> QED BY <2>2, <2>3, <1>t, RouteOne DEF Starts
<1>2. CASE \E r \in Slots : Receive(r)
  <2>1. PICK r \in Slots : Receive(r)
    BY <1>2
  <2>2. OthersStay(r) /\ req'[r] = Idle /\ UNCHANGED status
    BY <2>1, <1>t DEF Receive, Put, TypeOK, RequestsOK, OthersStay
  <2>3. req'[r].pc = "idle" /\ "idle" \notin UnreadPCs \cup {"hb_pub"}
    BY <2>2, IdleOK DEF UnreadPCs, BeatPCs, EnablePCs
  <2> QED BY <2>2, <2>3, <1>t, RouteOne
<1>3. CASE (\E c \in Clients : World(c)) \/ UNCHANGED <<dbVars, req>>
  BY <1>3 DEF World, TokenExpires, PeerJoins, RouteInv, At
<1>4. CASE ServerCrash
  <2>1. \A r \in Slots : req'[r].pc = "idle"
    BY <1>4, IdleOK DEF ServerCrash
  <2>2. "idle" \notin UnreadPCs \cup {"hb_pub"}
    BY DEF UnreadPCs, BeatPCs, EnablePCs
  <2> QED BY <2>1, <2>2 DEF RouteInv, At
<1> QED BY <1>1, <1>2, <1>3, <1>4 DEF Outside

---------------------------------------------------------------------------
(* The writes to the keys, and LockInv.                                    *)

(* Agents confirm keys; only administrators exchange them.                 *)
ConfirmsKeys(r) ==
  /\ At(r, "hb_ack") /\ req[r].rotated
  /\ acked' = acked \cup active[req[r].client]
LEMMA AgentKeys ==
  ASSUME NEW r \in Slots, StepAgent(r)
  PROVE  /\ UNCHANGED <<active, overlap>>
         /\ UNCHANGED acked \/ ConfirmsKeys(r)
         /\ \/ UNCHANGED issued
            \/ /\ IssueAgentToken(r)
               /\ issued' = [issued EXCEPT ![req[r].client] = @ + 1]
<1> USE DEF dbVars, clientVars, keyVars, sideVars
<1>1. CASE AcknowledgeRotation(r)
  BY <1>1 DEF AcknowledgeRotation, ConfirmsKeys
<1>2. CASE IssueAgentToken(r)
  BY <1>2 DEF IssueAgentToken
<1>3. CASE \/ CheckToken(r) \/ MarkTokenUsed(r) \/ RegisterOnline(r) \/ ReadSetupKey(r)
           \/ ReadStatus(r) \/ RecordPeer(r) \/ ReadAlreadyEnabled(r) \/ EnableSSH(r)
  BY <1>3 DEF CheckToken, MarkTokenUsed, RegisterOnline, ReadSetupKey, ReadStatus,
     RecordPeer, ReadAlreadyEnabled, EnableSSH
<1>4. CASE \/ RecordEnabled(r) \/ RecordApplied(r) \/ HeartbeatOnline(r)
           \/ ReadPendingRotation(r) \/ ReadInstallPub(r) \/ ReadSshEnabled(r)
           \/ ReplyHeartbeat(r)
  BY <1>4 DEF RecordEnabled, RecordApplied, HeartbeatOnline, ReadPendingRotation,
     ReadInstallPub, ReadSshEnabled, ReplyHeartbeat
<1> QED BY <1>1, <1>2, <1>3, <1>4 DEF StepAgent

(* The three commits that do.                                              *)
AddsClient(r) ==
  LET c == req[r].client IN
  /\ CommitClient(r) /\ At(r, "cc_commit") /\ status'[c] = "pending"
  /\ active' = [active EXCEPT ![c] = {req[r].key}]
  /\ acked' = acked \cup {req[r].key}
Exchanges(r) ==
  LET c == req[r].client IN
  /\ CommitRotation(r) /\ At(r, "rk_commit")
  /\ active' = [active EXCEPT ![c] = (active[c] \ req[r].doomed) \cup {req[r].key}]
  /\ acked' = acked \ req[r].doomed
RemovesClient(r) ==
  LET c == req[r].client IN
  /\ Cascade(r) /\ At(r, "dl_cascade") /\ \A q \in Slots : ~HoldsKeyOf(q, c)
  /\ active' = [active EXCEPT ![c] = {}]
  /\ acked' = acked \ active[c]
LEMMA AdminKeys ==
  ASSUME TypeOK, NEW r \in Slots, StepAdmin(r)
  PROVE  /\ UNCHANGED issued /\ overlap \subseteq overlap'
         /\ \/ UNCHANGED <<active, acked>> \/ AddsClient(r)
            \/ Exchanges(r) \/ RemovesClient(r)
<1> USE DEF dbVars, clientVars, keyVars, sideVars
<1>1. CASE CommitClient(r)
  <2>1. At(r, "cc_commit") /\ req[r].client \in Clients
    BY <1>1 DEF CommitClient, At, TypeOK, RequestsOK
  <2> QED BY <1>1, <2>1 DEF CommitClient, AddsClient, TypeOK, RowsOK
<1>2. CASE CommitRotation(r)
  BY <1>2 DEF CommitRotation, Exchanges
<1>3. CASE Cascade(r)
  BY <1>3 DEF Cascade, RemovesClient
<1>4. CASE \/ CreateSetupKey(r) \/ ReadName(r) \/ BeginDelete(r) \/ DeleteOldKeys(r)
           \/ InsertKey(r) \/ DisableScanLink(r) \/ DisableDeletePeer(r)
           \/ ForgetPeer(r) \/ SetDisabled(r)
  BY <1>4 DEF CreateSetupKey, ReadName, BeginDelete, DeleteOldKeys, InsertKey,
     DisableScanLink, DisableDeletePeer, ForgetPeer, SetDisabled
<1>5. CASE \/ DeleteScanLink(r) \/ DeleteDeletePeer(r) \/ DeleteSetupKey(r)
           \/ LockClient(r) \/ ReadConnection(r) \/ UpdateRow(r) \/ ReadPrivateKey(r)
  BY <1>5 DEF DeleteScanLink, DeleteDeletePeer, DeleteSetupKey, LockClient,
     ReadConnection, UpdateRow, ReadPrivateKey
<1> QED BY <1>1, <1>2, <1>3, <1>4, <1>5 DEF StepAdmin

(* A token is issued for a client that exists or existed.                  *)
LEMMA ServeKnown ==
  ASSUME IInv, KnownInv, RouteInv, NEW r \in Slots, Serve(r)
  PROVE  KnownInv'
<1>t. TypeOK
  BY DEF IInv
<1>1. \A c \in Clients : status[c] # "absent" => status'[c] # "absent"
  BY RowsStay
<1>2. CASE UNCHANGED issued
  BY <1>1, <1>2 DEF KnownInv
<1>3. CASE IssueAgentToken(r) /\ issued' = [issued EXCEPT ![req[r].client] = @ + 1]
  <2>1. req[r].pc = "rg_key"
    BY <1>3 DEF IssueAgentToken, At
  <2>2. req[r].op = "register"
    BY <2>1, Handlers DEF RouteInv
  <2>3. req[r].client \in Clients /\ status[req[r].client] # "absent"
    BY <2>1, <2>2, <1>t DEF RouteInv, TypeOK, RequestsOK, At
  <2> QED BY <2>3, <1>1, <1>3, <1>t DEF KnownInv, TypeOK
<1> QED BY <1>2, <1>3, <1>t, AgentKeys, AdminKeys DEF Serve

LEMMA OtherKnown ==
  ASSUME IInv, KnownInv, Outside
  PROVE  KnownInv'
<1> USE DEF dbVars, clientVars, sideVars
<1>t. TypeOK
  BY DEF IInv
<1>1. CASE \E r \in Slots, c \in Clients : Opens(r, c)
  BY <1>1, <1>t, StartAnswers DEF Starts, KnownInv
<1>2. CASE ~\E r \in Slots, c \in Clients : Opens(r, c)
  BY <1>2 DEF Outside, Receive, World, TokenExpires, PeerJoins, ServerCrash, KnownInv
<1> QED BY <1>1, <1>2

(* A request that takes no new locks keeps LockInv, if the keys the others *)
(* hold and the confirmed ones stay in their rows.                         *)
LEMMA LockOne ==
  ASSUME TypeOK, LockInv, NEW r \in Slots, OthersStay(r),
         req'[r].pc \in HoldPCs => /\ req[r].pc \in HoldPCs
                                   /\ req'[r].doomed = req[r].doomed
                                   /\ req'[r].client = req[r].client,
         \A q \in Slots : req'[q].pc \in HoldPCs /\ req[q].pc \in HoldPCs =>
           req[q].doomed \subseteq active'[req[q].client],
         \A k \in acked' : \E c \in Clients : k \in active'[c]
  PROVE  LockInv'
<1>1. \A q \in Slots : req'[q].pc \in HoldPCs =>
        /\ req[q].pc \in HoldPCs
        /\ req'[q].doomed = req[q].doomed /\ req'[q].client = req[q].client
  BY DEF OthersStay
<1> QED BY <1>1 DEF LockInv

(* Only the DELETE of a rotation takes locks, and InsertKey keeps them.    *)
LEMMA HoldMoves ==
  ASSUME TypeOK, NEW r \in Slots, Serve(r), ~DeleteOldKeys(r)
  PROVE  /\ OthersStay(r)
         /\ req'[r].pc \in HoldPCs => /\ req[r].pc \in HoldPCs
                                     /\ req'[r].doomed = req[r].doomed
                                     /\ req'[r].client = req[r].client
<1> DEFINE goal == /\ OthersStay(r)
                   /\ req'[r].pc \in HoldPCs => /\ req[r].pc \in HoldPCs
                                               /\ req'[r].doomed = req[r].doomed
                                               /\ req'[r].client = req[r].client
<1>t. RequestsOK /\ HoldPCs \subseteq TxPCs
  BY DEF TypeOK, HoldPCs, TxPCs
<1>q. Quiet(r) => goal
  BY <1>t DEF Quiet
<1>g. ASSUME NEW p \in {"cc_commit", "rk_begin", "dl_cascade"}, Goto(r, p), ~At(r, "idle")
      PROVE  goal
  BY <1>g, <1>t, GotoOK DEF PCs, HoldPCs
<1>1. CASE \/ StepAgent(r) \/ DisableScanLink(r) \/ DisableDeletePeer(r) \/ ForgetPeer(r)
           \/ SetDisabled(r) \/ DeleteScanLink(r) \/ DeleteDeletePeer(r)
           \/ DeleteSetupKey(r) \/ ReadConnection(r) \/ UpdateRow(r)
           \/ ReadPrivateKey(r)
  BY <1>1, <1>q, AgentQuiet, AdminQuiet
<1>2. CASE CommitClient(r) \/ CommitRotation(r) \/ Cascade(r)
  BY <1>2, <1>q, TxMoves
<1>3. CASE CreateSetupKey(r) \/ ReadName(r) \/ LockClient(r)
  <2>1. ~At(r, "idle")
    BY <1>3 DEF CreateSetupKey, ReadName, LockClient, At
  <2> QED BY <2>1, <1>3, <1>q, <1>g, TxMoves
<1>4. CASE BeginDelete(r)
  BY <1>4, <1>q, BeginDeleteOK DEF HoldPCs
<1>5. CASE InsertKey(r)
  <2>1. At(r, "rk_insert") /\ ~At(r, "idle")
    BY <1>5 DEF InsertKey, At
  <2>2. Goto(r, "rk_commit") => goal
    BY <2>1, <1>t, GotoOK DEF PCs, HoldPCs, At
  <2> QED BY <2>2, <1>5, <1>q, TxMoves
<1> QED BY <1>1, <1>2, <1>3, <1>4, <1>5 DEF Serve, StepAdmin

(* No statement breaks LockInv: PostgreSQL makes a DELETE and a cascade    *)
(* wait for the rows another rotation has deleted.                         *)
LEMMA ServeLock ==
  ASSUME IInv, LockInv, NEW r \in Slots, Serve(r)
  PROVE  LockInv'
<1> DEFINE c == req[r].client
<1>t. TypeOK /\ active \in [Clients -> SUBSET Keys]
      /\ \A q \in Slots : req[q].pc \in HoldPCs => req[q].client \in Clients
  BY DEF IInv, TypeOK, RowsOK, RequestsOK, At, HoldPCs
<1>c. ~At(r, "idle") => c \in Clients
  BY <1>t DEF TypeOK, RequestsOK
<1>1. CASE DeleteOldKeys(r)
  <2>1. /\ OthersStay(r) /\ req'[r].pc = "rk_insert" /\ req'[r].client = c
        /\ req'[r].doomed = req[r].snap \cap active[c] /\ UNCHANGED <<active, acked>>
        /\ \A q \in Slots : Rotating(q, c) => req[r].snap \cap req[q].doomed = {}
    BY <1>1, <1>t, DeleteOldKeysOK DEF DeleteOldKeys, dbVars, keyVars
  <2>2. c \in Clients
    BY <1>1, <1>c DEF DeleteOldKeys, At
  <2>3. \A q \in Slots \ {r} : req[q].pc \in HoldPCs => req'[r].doomed \cap req[q].doomed = {}
    <3> SUFFICES ASSUME NEW q \in Slots \ {r}, req[q].pc \in HoldPCs
                 PROVE  req'[r].doomed \cap req[q].doomed = {}
      OBVIOUS
    <3>1. CASE req[q].client = c
      BY <2>1, <3>1 DEF Rotating, HoldPCs
    <3>2. CASE req[q].client # c
      <4>1. active[req[q].client] \cap active[c] = {}
        BY <2>2, <3>2, <1>t DEF IInv, KeyInv
      <4> QED BY <2>1, <4>1 DEF LockInv
    <3> QED BY <3>1, <3>2
  <2>4. \A q \in Slots : q = r \/ req'[q] = req[q]
    BY <2>1 DEF OthersStay
  <2>5. \A q \in Slots : req'[q].pc \in HoldPCs =>
          req'[q].doomed \subseteq active'[req'[q].client]
    BY <2>1, <2>4 DEF LockInv
  <2>6. \A q, s \in Slots : req'[q].pc \in HoldPCs /\ req'[s].pc \in HoldPCs /\ q # s
          => req'[q].doomed \cap req'[s].doomed = {}
    BY <2>3, <2>4 DEF LockInv
  <2> QED BY <2>1, <2>5, <2>6 DEF LockInv
<1>2. ASSUME ~DeleteOldKeys(r),
             \A q \in Slots : req'[q].pc \in HoldPCs /\ req[q].pc \in HoldPCs =>
               req[q].doomed \subseteq active'[req[q].client],
             \A k \in acked' : \E d \in Clients : k \in active'[d]
      PROVE  LockInv'
  BY <1>2, <1>t, HoldMoves, LockOne
<1>3. CASE UNCHANGED <<active, acked>>
  BY <1>1, <1>2, <1>3 DEF LockInv
<1>4. CASE StepAgent(r)
  <2>1. UNCHANGED active /\ (UNCHANGED acked \/ ConfirmsKeys(r))
    BY <1>4, AgentKeys
  <2>2. ~DeleteOldKeys(r)
    BY <1>4, AgentQuiet, DeleteOldKeysOK, <1>t DEF Quiet, TxPCs
  <2>3. ConfirmsKeys(r) => c \in Clients
    BY <1>c DEF ConfirmsKeys, At
  <2> QED BY <2>1, <2>2, <2>3, <1>2 DEF ConfirmsKeys, LockInv
<1>5. CASE AddsClient(r) /\ ~DeleteOldKeys(r)
  <2>1. c \in Clients /\ active[c] = {}
    BY <1>5, <1>c DEF AddsClient, At, IInv, RowInv, ClientIsComplete, CreatePCs, Live, Rows
  <2>2. \A d \in Clients : active[d] \subseteq active'[d]
    BY <2>1, <1>5, <1>t DEF AddsClient
  <2>3. req[r].key \in active'[c]
    BY <2>1, <1>5, <1>t DEF AddsClient
  <2> QED BY <2>1, <2>2, <2>3, <1>2, <1>5, <1>t DEF AddsClient, LockInv
<1>6. CASE Exchanges(r) /\ ~DeleteOldKeys(r)
  <2>1. c \in Clients /\ req[r].pc \in HoldPCs
    BY <1>6, <1>c DEF Exchanges, At, HoldPCs
  <2>2. \A d \in Clients : active[d] \ req[r].doomed \subseteq active'[d]
    BY <2>1, <1>6, <1>t DEF Exchanges
  <2>3. req'[r].pc \notin HoldPCs
    BY <1>6, <1>t, TxMoves DEF Exchanges, Quiet, HoldPCs, TxPCs
  <2>4. \A q \in Slots : q # r /\ req[q].pc \in HoldPCs =>
          req[q].doomed \subseteq active'[req[q].client]
    BY <2>1, <2>2, <1>t DEF LockInv
  <2>5. \A k \in acked' : \E d \in Clients : k \in active'[d]
    BY <2>2, <1>6 DEF Exchanges, LockInv
  <2> QED BY <2>3, <2>4, <2>5, <1>2, <1>6
<1>7. CASE RemovesClient(r) /\ ~DeleteOldKeys(r)
  <2>1. c \in Clients
    BY <1>7, <1>c DEF RemovesClient, At
  <2>2. \A d \in Clients : d # c => active'[d] = active[d]
    BY <1>7, <1>t DEF RemovesClient
  <2>3. \A q \in Slots : req[q].pc \in HoldPCs /\ req[q].client = c => req[q].doomed = {}
    BY <1>7 DEF RemovesClient, HoldsKeyOf, Rotating, HoldPCs
  <2>4. \A k \in acked' : \E d \in Clients : k \in active'[d]
    BY <2>1, <2>2, <1>7 DEF RemovesClient, LockInv
  <2> QED BY <2>2, <2>3, <2>4, <1>2, <1>7, <1>t DEF LockInv
<1> QED BY <1>1, <1>3, <1>4, <1>5, <1>6, <1>7, <1>t, AdminKeys DEF Serve

(* Nor does anything else: a restart of the server frees all locks.        *)
LEMMA OtherLock ==
  ASSUME IInv, KnownInv, LockInv, Outside
  PROVE  LockInv'
<1> USE DEF dbVars, keyVars
<1>t. TypeOK
  BY DEF IInv
<1>0. ASSUME NEW r \in Slots, OthersStay(r), req'[r].pc \notin HoldPCs,
             UNCHANGED <<active, acked>>
      PROVE  LockInv'
  BY <1>0, <1>t, LockOne DEF LockInv
<1>1. CASE \E r \in Slots, c \in Clients : Opens(r, c)
  <2>1. PICK r \in Slots, c \in Clients : Opens(r, c)
    BY <1>1
  <2>2. Starts(r, c)
    BY <2>1, <1>t, StartAnswers
  <2> QED BY <2>2, <1>0 DEF Starts, FirstPCs, HoldPCs
<1>2. CASE \E r \in Slots : Receive(r)
  <2>1. PICK r \in Slots : Receive(r)
    BY <1>2
  <2>2. OthersStay(r) /\ req'[r] = Idle /\ UNCHANGED <<active, acked>>
    BY <2>1, <1>t DEF Receive, Put, TypeOK, RequestsOK, OthersStay
  <2> QED BY <2>2, <1>0, IdleOK DEF HoldPCs
<1>3. CASE (\E c \in Clients : World(c)) \/ UNCHANGED <<dbVars, req>>
  BY <1>3 DEF World, TokenExpires, PeerJoins, LockInv
<1>4. CASE ServerCrash
  <2>1. UNCHANGED <<active, acked>> /\ \A r \in Slots : req'[r].pc \notin HoldPCs
    BY <1>4, IdleOK DEF ServerCrash, HoldPCs
  <2> QED BY <2>1 DEF LockInv
<1> QED BY <1>1, <1>2, <1>3, <1>4 DEF Outside

---------------------------------------------------------------------------
(* CarryInv: while nothing has failed, the agents get the keys they are    *)
(* told to install.                                                        *)

(* Failures are counted, and a deleted client stays deleted.               *)
LEMMA FaultsGrow ==
  ASSUME TypeOK, Got(TRUE) \/ Got(FALSE), faults' = 0
  PROVE  faults = 0 /\ Got(TRUE) /\ ~Got(FALSE)
BY DEF TypeOK, Got, Fault

(* A read of the key that does not fail finds one, if there is a client.   *)
LEMMA KeyFound ==
  ASSUME IInv, NEW c \in Clients, Live(c), NEW k \in ReadKey(c, TRUE)
  PROVE  k # NoKey
<1>1. active[c] # {} /\ active[c] \subseteq Keys
  BY DEF IInv, RowInv, ClientIsComplete, TypeOK, RowsOK
<1> QED BY <1>1, ConstantsAssumption DEF ReadKey, SomeKey

LEMMA ServeFaults ==
  ASSUME NEW r \in Slots, Serve(r)
  PROVE  UNCHANGED faults \/ Fault
<1> USE DEF Got
<1>1. CASE \/ CheckToken(r) \/ MarkTokenUsed(r) \/ RegisterOnline(r) \/ ReadSetupKey(r)
           \/ ReadStatus(r) \/ RecordPeer(r) \/ ReadAlreadyEnabled(r) \/ EnableSSH(r)
           \/ AcknowledgeRotation(r) \/ IssueAgentToken(r)
  BY <1>1 DEF CheckToken, MarkTokenUsed, RegisterOnline, ReadSetupKey, ReadStatus,
     RecordPeer, ReadAlreadyEnabled, EnableSSH, AcknowledgeRotation, IssueAgentToken
<1>2. CASE \/ RecordEnabled(r) \/ RecordApplied(r) \/ HeartbeatOnline(r)
           \/ ReadPendingRotation(r) \/ ReadInstallPub(r) \/ ReadSshEnabled(r)
           \/ ReplyHeartbeat(r)
  BY <1>2 DEF RecordEnabled, RecordApplied, HeartbeatOnline, ReadPendingRotation,
     ReadInstallPub, ReadSshEnabled, ReplyHeartbeat
<1>3. CASE \/ CreateSetupKey(r) \/ CommitClient(r) \/ ReadName(r) \/ BeginDelete(r)
           \/ DeleteOldKeys(r) \/ InsertKey(r) \/ CommitRotation(r)
           \/ DisableScanLink(r) \/ DisableDeletePeer(r) \/ ForgetPeer(r)
  BY <1>3 DEF CreateSetupKey, CommitClient, ReadName, BeginDelete, DeleteOldKeys,
     InsertKey, CommitRotation, DisableScanLink, DisableDeletePeer, ForgetPeer,
     PeerDeleted, PeerNotDeleted
<1>4. CASE \/ SetDisabled(r) \/ DeleteScanLink(r) \/ DeleteDeletePeer(r)
           \/ DeleteSetupKey(r) \/ LockClient(r) \/ Cascade(r) \/ ReadConnection(r)
           \/ UpdateRow(r) \/ ReadPrivateKey(r)
  BY <1>4 DEF SetDisabled, DeleteScanLink, DeleteDeletePeer, DeleteSetupKey,
     LockClient, Cascade, ReadConnection, UpdateRow, ReadPrivateKey,
     PeerDeleted, PeerNotDeleted
<1> QED BY <1>1, <1>2, <1>3, <1>4 DEF Serve, StepAgent, StepAdmin

LEMMA DeletedStays ==
  ASSUME IInv, NEW r \in Slots, Serve(r), NEW c \in Clients, status[c] = "deleted"
  PROVE  status'[c] = "deleted"
<1> USE DEF dbVars, clientVars, keyVars, sideVars, Live, Rows
<1>t. status \in [Clients -> Rows \cup {"absent", "deleted"}]
  BY DEF IInv, TypeOK, RowsOK
<1>1. CASE \/ CheckToken(r) \/ MarkTokenUsed(r) \/ ReadSetupKey(r) \/ IssueAgentToken(r)
           \/ ReadStatus(r) \/ RecordPeer(r) \/ ReadAlreadyEnabled(r) \/ EnableSSH(r)
           \/ RecordEnabled(r) \/ RecordApplied(r) \/ AcknowledgeRotation(r)
           \/ ReadPendingRotation(r) \/ ReadInstallPub(r) \/ ReadSshEnabled(r)
           \/ ReplyHeartbeat(r)
  BY <1>1 DEF CheckToken, MarkTokenUsed, ReadSetupKey, IssueAgentToken, ReadStatus,
     RecordPeer, ReadAlreadyEnabled, EnableSSH, RecordEnabled, RecordApplied,
     AcknowledgeRotation, ReadPendingRotation, ReadInstallPub, ReadSshEnabled,
     ReplyHeartbeat
<1>2. CASE RegisterOnline(r) \/ HeartbeatOnline(r) \/ SetDisabled(r) \/ Cascade(r)
  BY <1>2, <1>t DEF RegisterOnline, HeartbeatOnline, SetDisabled, Cascade
<1>3. CASE CommitClient(r)
  <2>1. status[req[r].client] = "absent"
    BY <1>3 DEF CommitClient, At, IInv, RowInv, CreatePCs
  <2> QED BY <2>1, <1>3, <1>t DEF CommitClient
<1>4. CASE \/ CreateSetupKey(r) \/ ReadName(r) \/ BeginDelete(r) \/ DeleteOldKeys(r)
           \/ InsertKey(r) \/ CommitRotation(r) \/ DisableScanLink(r)
           \/ DisableDeletePeer(r) \/ ForgetPeer(r)
  BY <1>4 DEF CreateSetupKey, ReadName, BeginDelete, DeleteOldKeys, InsertKey,
     CommitRotation, DisableScanLink, DisableDeletePeer, ForgetPeer
<1>5. CASE \/ DeleteScanLink(r) \/ DeleteDeletePeer(r) \/ DeleteSetupKey(r)
           \/ LockClient(r) \/ ReadConnection(r) \/ UpdateRow(r) \/ ReadPrivateKey(r)
  BY <1>5 DEF DeleteScanLink, DeleteDeletePeer, DeleteSetupKey, LockClient,
     ReadConnection, UpdateRow, ReadPrivateKey
<1> QED BY <1>1, <1>2, <1>3, <1>4, <1>5 DEF Serve, StepAgent, StepAdmin

(* It is enough to look at the request that moves.                         *)
LEMMA CarryOne ==
  ASSUME TypeOK, CarryInv, NEW r \in Slots, OthersStay(r),
         faults' = 0 => faults = 0,
         \A c \in Clients : status[c] = "deleted" => status'[c] = "deleted",
         faults' = 0 /\ Carries(req'[r]) =>
           req'[r].key # NoKey \/ status'[req'[r].client] = "deleted"
  PROVE  CarryInv'
<1> SUFFICES ASSUME faults' = 0, NEW q \in Slots, Carries(req'[q])
             PROVE  req'[q].key # NoKey \/ status'[req'[q].client] = "deleted"
  BY DEF CarryInv, Carries
<1>1. CASE q = r
  BY <1>1
<1>2. CASE q # r
  <2>1. req'[q] = req[q]
    BY <1>2 DEF OthersStay
  <2>2. req[q].key # NoKey \/ status[req[q].client] = "deleted"
    BY <2>1 DEF CarryInv
  <2>3. req[q].client \in Clients
    BY <2>1, IdleOK DEF Carries, ReplyPCs, TypeOK, RequestsOK, At
  <2> QED BY <2>1, <2>2, <2>3
<1> QED BY <1>1, <1>2

(* Every statement keeps CarryInv: the one that reads the key finds it, or *)
(* its client is gone.                                                     *)
LEMMA ServeCarry ==
  ASSUME IInv, RouteInv, CarryInv, NEW r \in Slots, Serve(r)
  PROVE  CarryInv'
<1> USE DEF At
<1>t. TypeOK
  BY DEF IInv
<1>1. Keeps(r) /\ (AgentAnswer(r) \/ OpOf(req[r].pc) \in AdminOps)
  BY <1>t, AgentAnswers, AdminAnswers DEF Serve, AgentAnswer
<1>2. \A c \in Clients : status[c] = "deleted" => status'[c] = "deleted"
  BY DeletedStays
<1>3. faults' = 0 => faults = 0
  BY <1>t, ServeFaults DEF TypeOK, Fault
<1>4. /\ req'[r].op = OpOf(req[r].pc) /\ req'[r].client = req[r].client
      /\ req[r].client \in Clients
      /\ req[r].op = OpOf(req[r].pc)
  BY <1>1, <1>t DEF Keeps, RouteInv, TypeOK, RequestsOK
<1>5. ASSUME NEW ok \in BOOLEAN, NEW k, Got(ok), k \in ReadKey(req[r].client, ok),
             req[r].op # "create", faults' = 0
      PROVE  k # NoKey \/ status'[req[r].client] = "deleted"
  <2>1. ok
    BY <1>5, <1>t, FaultsGrow
  <2>2. status[req[r].client] # "absent"
    BY <1>1, <1>5 DEF RouteInv, Keeps
  <2>3. CASE Live(req[r].client)
    BY <2>1, <2>3, <1>4, <1>5, KeyFound
  <2>4. CASE ~Live(req[r].client)
    BY <2>2, <2>4, <1>2, <1>4, <1>t DEF Live, TypeOK, RowsOK
  <2> QED BY <2>3, <2>4
<1>6. ASSUME faults' = 0, Carries(req'[r])
      PROVE  req'[r].key # NoKey \/ status'[req'[r].client] = "deleted"
  <2>1. CASE OpOf(req[r].pc) \in AdminOps
    BY <2>1, <1>4, <1>6 DEF Carries, AdminOps
  <2>2. CASE GoesOn(r)
    <3>1. Carries(req[r]) /\ req[r].key = req'[r].key
      BY <2>2, <1>4, <1>6, <1>1 DEF GoesOn, SameAnswer, Carries, ReplyPCs, Keeps
    <3> QED BY <3>1, <1>2, <1>3, <1>4, <1>6 DEF CarryInv
  <2>3. CASE Ends(r, Codes \ {200}) \/ Confirms(r) \/ \E ok \in BOOLEAN : Looks(r, ok)
    BY <2>3, <1>6 DEF Ends, Confirms, Looks, Carries, ReplyPCs
  <2>4. CASE Replies(r)
    <3>1. Carries(req[r]) /\ req[r].key = req'[r].key
      <4>1. req[r].op = "heartbeat"
        BY <2>4, <1>4, Handlers DEF Replies
      <4> QED BY <4>1, <2>4, <1>4, <1>6 DEF Replies, Carries, ReplyPCs
    <3> QED BY <3>1, <1>2, <1>3, <1>4, <1>6 DEF CarryInv
  <2>5. CASE \E ok \in BOOLEAN, k \in Keys \cup {NoKey} : Redeems(r, ok, k) \/ Reads(r, ok, k)
    <3>1. req[r].op # "create"
      BY <2>5, <1>4, Handlers DEF Redeems, Reads
    <3> QED BY <3>1, <2>5, <1>4, <1>5, <1>6 DEF Redeems, Reads
  <2> QED BY <1>1, <2>1, <2>2, <2>3, <2>4, <2>5 DEF AgentAnswer
<1> QED BY <1>1, <1>2, <1>3, <1>6, <1>t, CarryOne DEF Keeps

(* So does everything else.                                                *)
LEMMA OtherCarry ==
  ASSUME IInv, KnownInv, CarryInv, Outside
  PROVE  CarryInv'
<1> USE DEF dbVars, clientVars
<1>t. TypeOK
  BY DEF IInv
<1>0. ASSUME NEW r \in Slots, OthersStay(r), req'[r].pc \notin ReplyPCs \cup {"done"},
             UNCHANGED <<status, faults>>
      PROVE  CarryInv'
  BY <1>0, <1>t, CarryOne DEF Carries
<1>1. CASE \E r \in Slots, c \in Clients : Opens(r, c)
  <2>1. PICK r \in Slots, c \in Clients : Opens(r, c)
    BY <1>1
  <2>2. Starts(r, c)
    BY <2>1, <1>t, StartAnswers
  <2> QED BY <2>2, <1>0 DEF Starts, FirstPCs, ReplyPCs
<1>2. CASE \E r \in Slots : Receive(r)
  <2>1. PICK r \in Slots : Receive(r)
    BY <1>2
  <2>2. OthersStay(r) /\ req'[r] = Idle /\ UNCHANGED <<status, faults>>
    BY <2>1, <1>t DEF Receive, Put, TypeOK, RequestsOK, OthersStay
  <2> QED BY <2>2, <1>0, IdleOK DEF ReplyPCs
<1>3. CASE \/ \E c \in Clients : World(c)
           \/ UNCHANGED <<dbVars, req>> /\ (UNCHANGED faults \/ Fault)
  <2>1. UNCHANGED <<status, req>>
    BY <1>3 DEF World, TokenExpires, PeerJoins
  <2>2. UNCHANGED faults \/ Fault
    BY <1>3 DEF World, TokenExpires, PeerJoins
  <2>3. faults' = 0 => faults = 0
    BY <2>2, <1>t DEF Fault, TypeOK
  <2> QED BY <2>1, <2>3 DEF CarryInv, Carries
<1>4. CASE ServerCrash
  <2>1. \A r \in Slots : req'[r].pc = "idle"
    BY <1>4, IdleOK DEF ServerCrash
  <2> QED BY <2>1 DEF CarryInv, Carries, ReplyPCs
<1> QED BY <1>1, <1>2, <1>3, <1>4 DEF Outside

---------------------------------------------------------------------------
(* RequestInv.                                                             *)

LEMMA RequestNext ==
  ASSUME IInv, RequestInv, Outside \/ \E r \in Slots : Serve(r)
  PROVE  IInv' /\ RequestInv'
<1>1. CASE \E r \in Slots : Serve(r)
  BY <1>1, ServeInv, ServeKnown, ServeRoute, ServeLock, ServeCarry DEF RequestInv
<1>2. CASE Outside
  BY <1>2, OutsideKeeps, OtherKnown, OtherRoute, OtherLock, OtherCarry DEF RequestInv
<1> QED BY <1>1, <1>2

LEMMA InitRequest == Init => RequestInv
<1> SUFFICES ASSUME Init PROVE RequestInv
  OBVIOUS
<1>1. \A r \in Slots : req[r].pc = "idle"
  BY IdleOK DEF Init
<1>2. RouteInv
  BY <1>1 DEF RouteInv, UnreadPCs, BeatPCs, EnablePCs, At
<1>3. LockInv
  BY <1>1 DEF LockInv, HoldPCs, Init
<1>4. CarryInv
  BY <1>1 DEF CarryInv, Carries, ReplyPCs
<1>5. KnownInv
  BY DEF KnownInv, Init
<1> QED BY <1>2, <1>3, <1>4, <1>5 DEF RequestInv

(* The handlers' invariant, with the one of the transactions.              *)
THEOREM RequestInductive == Spec => []RequestInv
<1>1. IInv /\ RequestInv /\ [Next]_vars => RequestInv'
  BY NextIs, RequestNext
<1> QED BY <1>1, InitRequest, Inductive, PTL DEF Spec

(* An agent that is answered "registered", or told to install a key, gets  *)
(* a key with the answer, unless a read failed or its client was deleted   *)
(* meanwhile: AgentRegister and AgentHeartbeat read the answer's parts in  *)
(* separate statements.                                                    *)
THEOREM AgentsGetTheKey == Spec => []AnswersCarryKey
<1>1. CarryInv => AnswersCarryKey
  BY DEF CarryInv, AnswersCarryKey, Carries, At
<1> QED BY <1>1, RequestInductive, PTL DEF RequestInv

---------------------------------------------------------------------------
(* TokenInv: as long as the registrations of a client do not meet and      *)
(* nothing has failed, its token is redeemed once.                         *)

(* What the statements say of tokens and of agents' tokens.                *)
LEMMA AdminTokens ==
  ASSUME IInv, NEW r \in Slots, StepAdmin(r), NEW c \in Clients, status[c] # "absent"
  PROVE  token'[c] = "unused" => token[c] = "unused"
<1> USE DEF dbVars, clientVars
<1>t. TypeOK /\ (~At(r, "idle") => req[r].client \in Clients)
  BY DEF IInv, TypeOK, RequestsOK
<1>1. CASE CommitClient(r)
  <2>1. status[req[r].client] = "absent"
    BY <1>1 DEF CommitClient, IInv, RowInv, CreatePCs, At
  <2>2. token' = token \/ token' = [token EXCEPT ![req[r].client] = "unused"]
    BY <1>1 DEF CommitClient
  <2> QED BY <2>1, <2>2, <1>t DEF TypeOK, RowsOK
<1>2. CASE Cascade(r)
  <2>1. token' = token \/ token' = [token EXCEPT ![req[r].client] = "none"]
    BY <1>2 DEF Cascade
  <2> QED BY <2>1, <1>t DEF TypeOK, RowsOK
<1>3. CASE \/ CreateSetupKey(r) \/ ReadName(r) \/ BeginDelete(r) \/ DeleteOldKeys(r)
           \/ InsertKey(r) \/ CommitRotation(r) \/ DisableScanLink(r) \/ DisableDeletePeer(r)
           \/ ForgetPeer(r) \/ SetDisabled(r)
           \/ DeleteScanLink(r) \/ DeleteDeletePeer(r) \/ DeleteSetupKey(r)
           \/ LockClient(r) \/ ReadConnection(r) \/ UpdateRow(r) \/ ReadPrivateKey(r)
  BY <1>3 DEF CreateSetupKey, ReadName, BeginDelete, DeleteOldKeys, InsertKey,
     CommitRotation, DisableScanLink, DisableDeletePeer, ForgetPeer, SetDisabled,
     DeleteScanLink, DeleteDeletePeer,
     DeleteSetupKey, LockClient, ReadConnection, UpdateRow, ReadPrivateKey
<1> QED BY <1>1, <1>2, <1>3 DEF StepAdmin

(* How a registration comes to redeem its token.                           *)
LEMMA AgentTokens ==
  ASSUME TypeOK, NEW r \in Slots, StepAgent(r), faults' = 0
  PROVE  LET q == req[r]
             n == req'[r] IN
         /\ \A c \in Clients : token'[c] = "unused" => token[c] = "unused"
         /\ n.pc = "rg_used" => At(r, "rg_token") /\ token[q.client] = "unused"
         /\ n.pc = "rg_online" => At(r, "rg_used") /\ token'[q.client] # "unused"
         /\ n.pc = "rg_setup" => At(r, "rg_online")
         /\ n.pc = "rg_key" => At(r, "rg_setup")
<1> USE DEF dbVars, clientVars
<1> DEFINE q == req[r]
           n == req'[r]
           d == q.client
           goal == /\ \A c \in Clients : token'[c] = "unused" => token[c] = "unused"
                   /\ n.pc = "rg_used" => At(r, "rg_token") /\ token[d] = "unused"
                   /\ n.pc = "rg_online" => At(r, "rg_used") /\ token'[d] # "unused"
                   /\ n.pc = "rg_setup" => At(r, "rg_online")
                   /\ n.pc = "rg_key" => At(r, "rg_setup")
<1>t. /\ token \in [Clients -> {"none", "unused", "used"}] /\ faults \in Nat
      /\ (~At(r, "idle") => d \in Clients)
  BY DEF TypeOK, RowsOK, RequestsOK
<1>f. ~Fault
  BY <1>t DEF Fault
<1>g. ASSUME NEW p \in PCs, Goto(r, p), ~At(r, "idle")
      PROVE  n.pc = p
  BY <1>g, GotoKeeps
<1>p. {"rg_used", "rg_online", "rg_setup", "rg_key"} \subseteq PCs
  BY DEF PCs
<1>1. CASE CheckToken(r)
  <2>1. At(r, "rg_token") /\ d \in Clients /\ token' = token
    BY <1>1, <1>t DEF CheckToken, At
  <2>2. (\E code \in {401, 409, 410} : Respond(r, code))
          \/ (Goto(r, "rg_used") /\ token[d] = "unused")
    <3>1. CASE token[d] = "none" \/ token[d] = "used"
      BY <1>1, <1>f, <3>1 DEF CheckToken, Got
    <3>2. CASE token[d] = "unused" /\ ~expired[d]
      BY <1>1, <1>f, <3>2 DEF CheckToken, Got
    <3>3. CASE token[d] = "unused" /\ expired[d]
      BY <1>1, <1>f, <3>3 DEF CheckToken, Got
    <3> QED BY <3>1, <3>2, <3>3, <2>1, <1>t
  <2>3. ASSUME NEW code \in {401, 409, 410}, Respond(r, code) PROVE n.pc = "done"
    BY <2>3, RespondEnds DEF Ends, Codes
  <2> QED BY <2>1, <2>2, <2>3, <1>g, <1>p DEF At
<1>2. CASE MarkTokenUsed(r)
  <2>1. At(r, "rg_used") /\ d \in Clients /\ n.pc = "rg_online"
    BY <1>2, <1>t, <1>g, <1>p DEF MarkTokenUsed, At
  <2>2. token' = [token EXCEPT ![d] = IF @ = "none" THEN @ ELSE "used"]
    BY <1>2, <1>f DEF MarkTokenUsed
  <2> QED BY <2>1, <2>2, <1>t
<1>3. CASE RegisterOnline(r)
  BY <1>3, <1>g, <1>p DEF RegisterOnline, At
<1>4. CASE ReadSetupKey(r)
  <2>1. n.pc = "rg_key"
    BY <1>4 DEF ReadSetupKey, Put, TypeOK, RequestsOK, Requests
  <2> QED BY <2>1, <1>4 DEF ReadSetupKey
<1>5. CASE IssueAgentToken(r)
  <2>1. n.pc = "done"
    BY <1>5 DEF IssueAgentToken, Put, TypeOK, RequestsOK, Requests
  <2> QED BY <2>1, <1>5 DEF IssueAgentToken
<1>6. CASE \/ ReadStatus(r) \/ RecordPeer(r) \/ ReadAlreadyEnabled(r) \/ EnableSSH(r)
           \/ RecordEnabled(r) \/ RecordApplied(r) \/ AcknowledgeRotation(r)
           \/ HeartbeatOnline(r) \/ ReadPendingRotation(r) \/ ReadInstallPub(r)
           \/ ReadSshEnabled(r) \/ ReplyHeartbeat(r)
  <2>1. token' = token
    BY <1>6 DEF ReadStatus, RecordPeer, ReadAlreadyEnabled, EnableSSH, RecordEnabled,
       RecordApplied, AcknowledgeRotation, HeartbeatOnline, ReadPendingRotation,
       ReadInstallPub, ReadSshEnabled, ReplyHeartbeat
  <2>2. q.pc \in {"hb_read", "hb_peer", "hb_enabled", "hb_nbssh", "hb_record",
                  "hb_applied", "hb_ack", "hb_online", "hb_pending", "hb_pub",
                  "hb_ssh", "hb_reply"}
    BY <1>6 DEF At, ReadStatus, RecordPeer, ReadAlreadyEnabled, EnableSSH, RecordEnabled,
       RecordApplied, AcknowledgeRotation, HeartbeatOnline, ReadPendingRotation,
       ReadInstallPub, ReadSshEnabled, ReplyHeartbeat
  <2>3. OpOf(q.pc) = "heartbeat"
    BY <2>2, Handlers
  <2>4. n.pc = "done" \/ OpOf(n.pc) = "heartbeat"
    BY <2>3, AgentAnswers DEF AgentAnswer, Keeps
  <2>5. n.pc \notin {"rg_used", "rg_online", "rg_setup", "rg_key"}
    BY <2>4, Handlers
  <2> QED BY <2>1, <2>5
<1> QED BY <1>1, <1>2, <1>3, <1>4, <1>5, <1>6 DEF StepAgent

LEMMA ServeTokens ==
  ASSUME IInv, RequestInv, TokenInv, OneRegistration, NEW r \in Slots, Serve(r)
  PROVE  TokenInv'
<1> DEFINE q == req[r]
           n == req'[r]
           d == q.client
<1> SUFFICES ASSUME faults' = 0 PROVE TokenInv'
  BY DEF TokenInv
<1>t. TypeOK /\ faults \in Nat /\ issued \in [Clients -> Nat]
  BY DEF IInv, TypeOK
<1>c. /\ \A s \in Slots : req[s].pc # "idle" => req[s].client \in Clients
      /\ \A s \in Slots : req[s].pc \in RegisterPCs => status[req[s].client] # "absent"
  <2>1. \A p \in RegisterPCs : OpOf(p) = "register" /\ p \notin {"idle", "done"}
    BY Handlers DEF RegisterPCs
  <2> QED BY <2>1, <1>t DEF TypeOK, RequestsOK, At, RequestInv, RouteInv
<1>k. Keeps(r) /\ q.op = OpOf(q.pc) /\ d \in Clients /\ OthersStay(r)
  BY <1>t, AgentAnswers, AdminAnswers DEF Serve, AgentAnswer, Keeps, RequestInv, RouteInv,
     TypeOK, RequestsOK, At
<1>f. faults = 0
  BY <1>t, ServeFaults DEF Fault
<1>h. /\ \A c \in Clients :
           issued[c] <= 1 /\ (issued[c] > 0 => token[c] # "unused")
      /\ \A s \in Slots : At(s, "rg_used") => issued[req[s].client] = 0
      /\ \A s \in Slots : req[s].pc \in {"rg_online", "rg_setup", "rg_key"} =>
           issued[req[s].client] = 0 /\ token[req[s].client] # "unused"
  BY <1>f DEF TokenInv
<1>1. \A c \in Clients : status[c] # "absent" /\ token'[c] = "unused" => token[c] = "unused"
  BY <1>t, AdminTokens, AgentTokens DEF Serve
<1>2. /\ n.pc = "rg_used" => At(r, "rg_token") /\ token[d] = "unused"
      /\ n.pc = "rg_online" => At(r, "rg_used") /\ token'[d] # "unused"
      /\ n.pc = "rg_setup" => At(r, "rg_online")
      /\ n.pc = "rg_key" => At(r, "rg_setup")
  <2>1. CASE StepAgent(r)
    BY <2>1, <1>t, AgentTokens
  <2>2. CASE StepAdmin(r)
    <3>1. n.pc = "done" \/ OpOf(n.pc) # "register"
      BY <2>2, <1>t, AdminAnswers DEF Keeps, AdminOps
    <3> QED BY <3>1, Handlers
  <2> QED BY <2>1, <2>2 DEF Serve
<1>3. \/ UNCHANGED issued
      \/ At(r, "rg_key") /\ n.pc = "done" /\ issued' = [issued EXCEPT ![d] = @ + 1]
  <2>1. IssueAgentToken(r) => At(r, "rg_key") /\ n.pc = "done"
    BY <1>t DEF IssueAgentToken, Put, TypeOK, RequestsOK, Requests
  <2> QED BY <2>1, <1>t, AgentKeys, AdminKeys DEF Serve
<1>4. ASSUME NEW c \in Clients
      PROVE  issued'[c] <= 1 /\ (issued'[c] > 0 => token'[c] # "unused")
  <2>1. issued[c] > 0 => status[c] # "absent"
    BY DEF RequestInv, KnownInv
  <2>2. CASE issued'[c] = issued[c]
    BY <2>1, <2>2, <1>h, <1>1
  <2>3. CASE At(r, "rg_key") /\ c = d /\ issued'[c] = issued[c] + 1
    <3>1. issued[c] = 0 /\ token[c] # "unused" /\ status[c] # "absent"
      BY <2>3, <1>h, <1>c DEF At, RegisterPCs
    <3> QED BY <3>1, <2>3, <1>1
  <2> QED BY <2>2, <2>3, <1>3, <1>t
<1>5. ASSUME NEW s \in Slots, At(s, "rg_used")'
      PROVE  issued'[req'[s].client] = 0
  <2>1. CASE s = r
    <3>1. At(r, "rg_token") /\ token[d] = "unused" /\ n.client = d
      BY <2>1, <1>5, <1>2, <1>k DEF Keeps, At
    <3>2. issued[d] = 0
      BY <3>1, <1>h, <1>k, <1>t
    <3> QED BY <2>1, <3>1, <3>2, <1>3 DEF At
  <2>2. CASE s # r
    <3>1. req'[s] = req[s] /\ issued[req[s].client] = 0 /\ req[s].client \in Clients
      BY <2>2, <1>5, <1>k, <1>h, <1>c DEF OthersStay, At
    <3>2. At(r, "rg_key") => req[s].client # d
      BY <2>2, <1>5, <3>1 DEF OneRegistration, RegisterPCs, At
    <3> QED BY <3>1, <3>2, <1>3, <1>k, <1>t
  <2> QED BY <2>1, <2>2
<1>6. ASSUME NEW s \in Slots, req'[s].pc \in {"rg_online", "rg_setup", "rg_key"}
      PROVE  issued'[req'[s].client] = 0 /\ token'[req'[s].client] # "unused"
  <2>1. CASE s = r
    <3>1. /\ req[r].pc \in {"rg_used", "rg_online", "rg_setup"} /\ n.client = d
          /\ At(r, "rg_used") => token'[d] # "unused"
      BY <2>1, <1>6, <1>2, <1>k DEF Keeps, At
    <3>2. issued[d] = 0 /\ status[d] # "absent"
      BY <3>1, <1>h, <1>c DEF At, RegisterPCs
    <3> QED BY <2>1, <3>1, <3>2, <1>3, <1>1, <1>h, <1>k DEF At
  <2>2. CASE s # r
    <3>1. /\ req'[s] = req[s] /\ issued[req[s].client] = 0 /\ req[s].client \in Clients
          /\ token[req[s].client] # "unused" /\ status[req[s].client] # "absent"
      BY <2>2, <1>6, <1>k, <1>h, <1>c DEF OthersStay, RegisterPCs
    <3>2. At(r, "rg_key") => req[s].client # d
      BY <2>2, <1>6, <3>1 DEF OneRegistration, RegisterPCs, At
    <3> QED BY <3>1, <3>2, <1>3, <1>1, <1>k, <1>t
  <2> QED BY <2>1, <2>2
<1> QED BY <1>4, <1>5, <1>6 DEF TokenInv

(* Requests that come and go, crashes and the world redeem nothing.        *)
LEMMA OtherTokens ==
  ASSUME IInv, KnownInv, TokenInv, Outside
  PROVE  TokenInv'
<1> USE DEF dbVars, clientVars, sideVars
<1>t. TypeOK
  BY DEF IInv
<1>0. ASSUME NEW r \in Slots, OthersStay(r),
             req'[r].pc \notin {"rg_used", "rg_online", "rg_setup", "rg_key"},
             UNCHANGED <<token, issued, faults>>
      PROVE  TokenInv'
  <2>1. \A q \in Slots : q = r \/ req'[q] = req[q]
    BY <1>0 DEF OthersStay
  <2> QED BY <2>1, <1>0 DEF TokenInv, At
<1>1. CASE \E r \in Slots, c \in Clients : Opens(r, c)
  <2>1. PICK r \in Slots, c \in Clients : Opens(r, c)
    BY <1>1
  <2>2. Starts(r, c)
    BY <2>1, <1>t, StartAnswers
  <2> QED BY <2>2, <1>0 DEF Starts, FirstPCs
<1>2. CASE \E r \in Slots : Receive(r)
  <2>1. PICK r \in Slots : Receive(r)
    BY <1>2
  <2>2. OthersStay(r) /\ req'[r] = Idle /\ UNCHANGED <<token, issued, faults>>
    BY <2>1, <1>t DEF Receive, Put, TypeOK, RequestsOK, OthersStay
  <2> QED BY <2>2, <1>0, IdleOK
<1>3. CASE \/ \E c \in Clients : World(c)
           \/ UNCHANGED <<dbVars, req>> /\ (UNCHANGED faults \/ Fault)
  <2>1. UNCHANGED <<token, issued, req>> /\ (UNCHANGED faults \/ Fault)
    BY <1>3 DEF World, TokenExpires, PeerJoins
  <2>2. faults' = 0 => faults = 0
    BY <2>1, <1>t DEF Fault, TypeOK
  <2> QED BY <2>1, <2>2 DEF TokenInv, At
<1>4. CASE ServerCrash
  <2>1. UNCHANGED <<token, issued, faults>> /\ \A r \in Slots : req'[r].pc = "idle"
    BY <1>4, IdleOK DEF ServerCrash
  <2> QED BY <2>1 DEF TokenInv, At
<1> QED BY <1>1, <1>2, <1>3, <1>4 DEF Outside

LEMMA InitTokens == Init => TokenInv
BY IdleOK DEF Init, TokenInv, At

(* One setup token is redeemed once, however many registrations are tried, *)
(* fail halfway or are interrupted, among any other requests: as long as   *)
(* no two of one client are in flight together, and no UPDATE failed.      *)
(* (FindToken shows the first condition needed: AgentRegister reads        *)
(* used_at and sets it in two statements.)                                 *)
THEOREM TokensAreRedeemedOnce == Spec /\ []OneRegistration => []OneTimeToken
<1>1. IInv /\ RequestInv /\ TokenInv /\ OneRegistration /\ [Next]_vars => TokenInv'
  BY NextIs, ServeTokens, OtherTokens DEF RequestInv
<1>2. TokenInv => OneTimeToken
  BY DEF TokenInv, OneTimeToken
<1> QED BY <1>1, <1>2, InitTokens, Inductive, RequestInductive, PTL DEF Spec

=============================================================================
