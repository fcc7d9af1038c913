---------------------------- MODULE BackendSteps ----------------------------
(***************************************************************************)
(* What each step of Backend does to the request that takes it and to the  *)
(* type of the rows, and that it keeps KeyInv and RowInv of the inductive  *)
(* invariant, for every value of the constants.                            *)
(*                                                                         *)
(* Most steps belong to no open transaction: Quiet says so of the request  *)
(* that moves.  One that creates and deletes no row (Benign) keeps each    *)
(* part of the invariant, proved once; the steps of the transactions are   *)
(* then taken one by one.                                                  *)
(***************************************************************************)
EXTENDS BackendInv, TLAPS

TxPCs == {"cc_setup", "cc_commit", "rk_read", "rk_begin", "rk_delete",
          "rk_insert", "rk_commit", "dl_cascade"}

OthersStay(r) == \A q \in Slots \ {r} : req'[q] = req[q]

Quiet(r) == RequestsOK' /\ req'[r].pc \notin TxPCs /\ OthersStay(r)

---------------------------------------------------------------------------
(* The ways a request moves.                                               *)

(* The body of every step: one slot takes a new value.                     *)
LEMMA PutOK ==
  ASSUME RequestsOK, NEW r \in Slots, NEW s \in Requests,
         s.pc # "idle" => s.client \in Clients, Put(r, s)
  PROVE  RequestsOK' /\ req'[r] = s /\ OthersStay(r)
BY DEF RequestsOK, Put, At, OthersStay

(* A request that goes on to its next statement keeps its other locals.    *)
LEMMA GotoOK ==
  ASSUME RequestsOK, NEW r \in Slots, ~At(r, "idle"), NEW p \in PCs, Goto(r, p)
  PROVE  /\ RequestsOK' /\ OthersStay(r)
         /\ req'[r] = [req[r] EXCEPT !.pc = p]
         /\ req'[r].pc = p /\ req'[r].client = req[r].client
         /\ req'[r].key = req[r].key /\ req'[r].snap = req[r].snap
         /\ req'[r].doomed = req[r].doomed
<1> DEFINE s == [req[r] EXCEPT !.pc = p]
<1>1. s \in Requests /\ s.client = req[r].client
  BY DEF RequestsOK, Requests
<1>2. s.pc = p /\ s.key = req[r].key /\ s.snap = req[r].snap
      /\ s.doomed = req[r].doomed
  BY DEF RequestsOK, Requests
<1> HIDE DEF s
<1>3. RequestsOK' /\ OthersStay(r) /\ req'[r] = s
  BY <1>1, PutOK DEF Goto, RequestsOK, s
<1> QED BY <1>1, <1>2, <1>3 DEF s

(* A free slot is a request.                                               *)
LEMMA IdleOK == Idle \in Requests /\ Idle.pc = "idle"
<1>1. "none" \in Ops /\ "idle" \in PCs /\ 0 \in Codes /\ NoClient \in Peers
  BY DEF Ops, PCs, Codes, Peers
<1> QED BY <1>1 DEF Idle, Requests

(* A request that answers is done, and keeps nothing but its client.       *)
LEMMA RespondOK ==
  ASSUME RequestsOK, NEW r \in Slots, ~At(r, "idle"), NEW code \in Codes,
         Respond(r, code)
  PROVE  Quiet(r) /\ req'[r].pc = "done" /\ req'[r].client = req[r].client
<1>1. req[r] \in Requests /\ req[r].client \in Clients
  BY DEF RequestsOK, At
<1> DEFINE s(op, c) == [Idle EXCEPT !.op = op, !.pc = "done", !.client = c,
                                    !.code = code]
<1>2. req[r].op \in Ops
  BY <1>1 DEF Requests
<1>3. ASSUME NEW op \in Ops, NEW c \in Clients
      PROVE  s(op, c) \in Requests /\ s(op, c).client = c /\ s(op, c).pc = "done"
  BY IdleOK DEF Requests, PCs
<1>4. req' = [req EXCEPT ![r] = s(req[r].op, req[r].client)]
  BY DEF Respond, Put
<1> HIDE DEF s
<1>5. Put(r, s(req[r].op, req[r].client))
  BY <1>4 DEF Put
<1> QED BY <1>1, <1>2, <1>3, <1>5, PutOK DEF Quiet, TxPCs, RequestsOK

(* A new request starts with fresh locals.                                 *)
LEMMA BeginOK ==
  ASSUME RequestsOK, NEW r \in Slots, NEW op \in Ops, NEW p \in PCs \ TxPCs,
         NEW c \in Clients, Begin(r, op, p, c)
  PROVE  Quiet(r) /\ req'[r].pc = p /\ req'[r].client = c
<1> DEFINE s == [Idle EXCEPT !.op = op, !.pc = p, !.client = c]
<1>1. s \in Requests /\ s.client = c /\ s.pc = p
  BY IdleOK DEF Requests
<1> HIDE DEF s
<1> QED BY <1>1, PutOK DEF Begin, s, Quiet

(* A statement outside of the open transactions leaves them alone: the     *)
(* handlers that commit statement by statement go on this way.             *)
LEMMA GotoQuiet ==
  ASSUME RequestsOK, NEW r \in Slots, ~At(r, "idle"),
         NEW p \in PCs \ TxPCs, Goto(r, p)
  PROVE  Quiet(r)
BY GotoOK DEF Quiet

(* So does one that also sets locals of its request.                       *)
LEMMA PutQuiet ==
  ASSUME RequestsOK, NEW r \in Slots, ~At(r, "idle"), NEW s \in Requests,
         s.pc \notin TxPCs, s.client = req[r].client, Put(r, s)
  PROVE  Quiet(r)
BY PutOK DEF Quiet, RequestsOK

(* The program counters and codes a step may name.                         *)
LEMMA Names ==
  /\ \A r \in Slots, p \in PCs : p # "idle" /\ At(r, p) => ~At(r, "idle")
  /\ {200, 201, 401, 404, 409, 410, 500, 502} \subseteq Codes
  /\ {"done", "di_scan", "di_peer", "di_forget", "di_status", "dl_scan",
      "dl_peer", "dl_setup", "dl_lock", "cn_client", "cn_link", "cn_pub",
      "cn_priv", "pk_key", "up_row", "rg_token", "rg_used", "rg_online",
      "rg_setup", "rg_key", "hb_read", "hb_peer", "hb_enabled", "hb_nbssh", "hb_record",
      "hb_applied", "hb_ack", "hb_online", "hb_pending", "hb_pub", "hb_ssh",
      "hb_reply"} \subseteq PCs \ TxPCs
  /\ TxPCs \subseteq PCs
<1>1. \A r \in Slots, p \in PCs : p # "idle" /\ At(r, p) => ~At(r, "idle")
  BY DEF At
<1>2. {200, 201, 401, 404, 409, 410, 500, 502} \subseteq Codes
  BY DEF Codes
<1>3. {"done", "di_scan", "di_peer", "di_forget", "di_status", "dl_scan",
      "dl_peer", "dl_setup", "dl_lock", "cn_client", "cn_link", "cn_pub",
      "cn_priv", "pk_key", "up_row", "rg_token", "rg_used", "rg_online",
      "rg_setup", "rg_key", "hb_read", "hb_peer", "hb_enabled", "hb_nbssh", "hb_record",
      "hb_applied", "hb_ack", "hb_online", "hb_pending", "hb_pub", "hb_ssh",
      "hb_reply"} \subseteq PCs \ TxPCs
  BY DEF PCs, TxPCs
<1>4. TxPCs \subseteq PCs
  BY DEF PCs, TxPCs
<1> QED BY <1>1, <1>2, <1>3, <1>4

(* The key SELECT ... LIMIT 1 returns.                                     *)
LEMMA ReadKeyOK ==
  ASSUME RowsOK, NEW c \in Clients, NEW ok \in BOOLEAN
  PROVE  ReadKey(c, ok) \subseteq Keys \cup {NoKey}
BY DEF RowsOK, SomeKey, ReadKey

(* The steps of DisableClient, of DeleteClient before it locks the row,    *)
(* and of Connection belong to no transaction.                             *)
LEMMA AdminQuiet ==
  ASSUME TypeOK, NEW r \in Slots,
         \/ DisableScanLink(r) \/ DisableDeletePeer(r) \/ ForgetPeer(r)
         \/ SetDisabled(r) \/ DeleteScanLink(r) \/ DeleteDeletePeer(r)
         \/ DeleteSetupKey(r) \/ ReadConnection(r) \/ UpdateRow(r)
         \/ ReadPrivateKey(r)
  PROVE  Quiet(r)
<1> DEFINE c == req[r].client
<1>t. RequestsOK /\ req[r] \in Requests
  BY DEF TypeOK, RequestsOK
<1>c. ~At(r, "idle") => c \in Clients
  BY <1>t DEF RequestsOK
<1>l. c \in Clients => ScanLink(c).peer \in Peers /\ ScanLink(c).setup \in BOOLEAN
  BY DEF TypeOK, RowsOK, ScanLink, Links, Peers
<1>p. /\ {"di_peer", "di_status", "dl_peer", "cn_pub", "cn_priv", "done"} \subseteq PCs
      /\ 200 \in Codes
  BY Names
<1>1. CASE DisableScanLink(r)
  <2> DEFINE s(x) == [req[r] EXCEPT !.peer = x,
                        !.pc = IF x # NoClient THEN "di_peer" ELSE "di_status"]
             seen(ok) == IF ok THEN ScanLink(c).peer ELSE NoClient
  <2>1. PICK ok \in BOOLEAN : ~At(r, "idle") /\ Put(r, s(seen(ok)))
    BY <1>1 DEF DisableScanLink, At
  <2>2. ASSUME NEW x \in Peers
        PROVE  s(x) \in Requests /\ s(x).client = c
               /\ s(x).pc \in {"di_peer", "di_status"}
    BY <2>1, <1>t, <1>c, <1>p DEF Requests
  <2>3. seen(ok) \in Peers
    BY <2>1, <1>c, <1>l DEF Peers
  <2> HIDE DEF s, seen
  <2> QED BY <2>1, <2>2, <2>3, <1>t, PutQuiet, Names DEF c
<1>2. CASE DisableDeletePeer(r)
  <2>1. ~At(r, "idle") /\ (Goto(r, "di_forget") \/ Goto(r, "di_status"))
    BY <1>2 DEF DisableDeletePeer, At
  <2> QED BY <2>1, <1>t, GotoQuiet, Names
<1>3. CASE ForgetPeer(r)
  <2>1. ~At(r, "idle") /\ Goto(r, "di_status")
    BY <1>3 DEF ForgetPeer, At
  <2> QED BY <2>1, <1>t, GotoQuiet, Names
<1>4. CASE SetDisabled(r)
  <2>1. ~At(r, "idle") /\ (Respond(r, 200) \/ Respond(r, 500))
    BY <1>4 DEF SetDisabled, At
  <2> QED BY <2>1, <1>t, RespondOK, Names
<1>5. CASE DeleteScanLink(r)
  <2> DEFINE s(x, y) == [req[r] EXCEPT !.peer = x, !.setup = y, !.pc = "dl_peer"]
             seen(ok) == IF ok THEN ScanLink(c).peer ELSE NoClient
  <2>1. PICK ok \in BOOLEAN :
          ~At(r, "idle") /\ Put(r, s(seen(ok), ok /\ ScanLink(c).setup))
    BY <1>5 DEF DeleteScanLink, At
  <2>2. ASSUME NEW x \in Peers, NEW y \in BOOLEAN
        PROVE  s(x, y) \in Requests /\ s(x, y).client = c /\ s(x, y).pc = "dl_peer"
    BY <2>1, <1>t, <1>c, <1>p DEF Requests
  <2>3. \E x \in Peers, y \in BOOLEAN : Put(r, s(x, y))
    <3> DEFINE x == seen(ok)
               y == ok /\ ScanLink(c).setup
    <3>1. x \in Peers /\ y \in BOOLEAN
      BY <2>1, <1>c, <1>l DEF Peers
    <3>2. Put(r, s(x, y))
      BY <2>1
    <3> HIDE DEF x, y, s
    <3> QED BY <3>1, <3>2
  <2> HIDE DEF s
  <2> QED BY <2>1, <2>2, <2>3, <1>t, PutQuiet, Names DEF c
<1>6. CASE DeleteDeletePeer(r)
  <2>1. ~At(r, "idle") /\ Goto(r, "dl_setup")
    BY <1>6 DEF DeleteDeletePeer, At
  <2> QED BY <2>1, <1>t, GotoQuiet, Names
<1>7. CASE DeleteSetupKey(r)
  <2>1. ~At(r, "idle") /\ Goto(r, "dl_lock")
    BY <1>7 DEF DeleteSetupKey, At
  <2> QED BY <2>1, <1>t, GotoQuiet, Names
<1>8. CASE ReadConnection(r)
  <2>0. ~At(r, "idle")
    BY <1>8 DEF ReadConnection, At
  <2>1. CASE Goto(r, "cn_link") \/ Respond(r, 404)
    BY <2>0, <2>1, <1>t, GotoQuiet, RespondOK, Names
  <2> DEFINE s2(x) == [req[r] EXCEPT !.peer = x, !.pc = "cn_pub"]
             s3(k) == [req[r] EXCEPT !.key = k, !.pc = "cn_priv"]
             s4(k) == [req[r] EXCEPT !.priv = k, !.pc = "done", !.code = 200]
             seen(ok) == IF ok THEN ScanLink(c).peer ELSE NoClient
  <2>2. ASSUME NEW x \in Peers
        PROVE  s2(x) \in Requests /\ s2(x).client = c /\ s2(x).pc = "cn_pub"
    BY <2>0, <1>t, <1>c, <1>l, <1>p DEF Requests
  <2>3. ASSUME NEW k \in Keys \cup {NoKey}
        PROVE  /\ s3(k) \in Requests /\ s3(k).client = c /\ s3(k).pc = "cn_priv"
               /\ s4(k) \in Requests /\ s4(k).client = c /\ s4(k).pc = "done"
    <3>1. s3(k) \in Requests /\ s3(k).client = c /\ s3(k).pc = "cn_priv"
      BY <2>3, <1>t, <1>p DEF Requests
    <3>2. ASSUME NEW p \in PCs, NEW d \in Codes
          PROVE  LET t == [req[r] EXCEPT !.priv = k, !.pc = p, !.code = d]
                 IN  t \in Requests /\ t.client = c /\ t.pc = p
      BY <2>3, <1>t DEF Requests
    <3>3. s4(k) \in Requests /\ s4(k).client = c /\ s4(k).pc = "done"
      BY <3>2, <1>p
    <3> QED BY <3>1, <3>3
  <2>4. PICK ok \in BOOLEAN :
          \/ Goto(r, "cn_link") \/ Respond(r, 404) \/ Put(r, s2(seen(ok)))
          \/ \E k \in ReadKey(c, ok) : Put(r, s3(k)) \/ Put(r, s4(k))
    BY <1>8 DEF ReadConnection
  <2>5. ReadKey(c, ok) \subseteq Keys \cup {NoKey}
    BY <2>0, <1>c, ReadKeyOK DEF TypeOK
  <2>b. seen(ok) \in Peers
    BY <2>0, <1>c, <1>l DEF Peers
  <2> HIDE DEF s2, s3, s4, seen
  <2>6. CASE Put(r, s2(seen(ok)))
    BY <2>0, <2>2, <2>6, <2>b, <1>t, PutQuiet, Names DEF c
  <2>7. CASE \E k \in ReadKey(c, ok) : Put(r, s3(k)) \/ Put(r, s4(k))
    BY <2>0, <2>3, <2>5, <2>7, <1>t, PutQuiet, Names DEF c
  <2> QED BY <2>1, <2>4, <2>6, <2>7
<1>9. CASE UpdateRow(r)
  <2>1. ~At(r, "idle") /\ (Respond(r, 200) \/ Respond(r, 404) \/ Respond(r, 500))
    BY <1>9 DEF UpdateRow, At
  <2> QED BY <2>1, <1>t, RespondOK, Names
<1>10. CASE ReadPrivateKey(r)
  <2> DEFINE s(k) == [req[r] EXCEPT !.priv = k, !.pc = "done", !.code = 200]
  <2>0. ~At(r, "idle")
    BY <1>10 DEF ReadPrivateKey, At
  <2>2. \A ok \in BOOLEAN : ReadKey(c, ok) \subseteq Keys \cup {NoKey}
    BY <2>0, <1>c, ReadKeyOK DEF TypeOK
  <2>1. PICK k \in Keys \cup {NoKey} :
          Respond(r, 404) \/ Respond(r, 500) \/ Put(r, s(k))
    BY <1>10, <2>2 DEF ReadPrivateKey
  <2>3. s(k) \in Requests /\ s(k).client = c /\ s(k).pc = "done"
    <3>1. ASSUME NEW p \in PCs, NEW v \in Codes
          PROVE  LET t == [req[r] EXCEPT !.priv = k, !.pc = p, !.code = v]
                 IN  t \in Requests /\ t.client = c /\ t.pc = p
      BY <2>2, <1>t DEF Requests
    <3> QED BY <3>1, <1>p
  <2> HIDE DEF s
  <2> QED BY <2>0, <2>1, <2>3, <1>t, PutQuiet, RespondOK, Names DEF c
<1> QED BY <1>1, <1>2, <1>3, <1>4, <1>5, <1>6, <1>7, <1>8, <1>9, <1>10

(* Every statement of AgentRegister and AgentHeartbeat commits by itself.  *)
LEMMA AgentQuiet ==
  ASSUME TypeOK, NEW r \in Slots, StepAgent(r)
  PROVE  Quiet(r)
<1> DEFINE c == req[r].client
<1>t. RequestsOK /\ req[r] \in Requests
  BY DEF TypeOK, RequestsOK
<1>c. ~At(r, "idle") => c \in Clients
  BY <1>t DEF RequestsOK
<1>l. c \in Clients => /\ link[c] \in Links
                       /\ status[c] \in Rows \cup {"absent", "deleted"}
                       /\ \A ok \in BOOLEAN : ReadKey(c, ok) \subseteq Keys \cup {NoKey}
  BY ReadKeyOK DEF TypeOK, RowsOK
<1>p. /\ {"done", "rg_key", "hb_peer", "hb_applied", "hb_ack", "hb_online",
           "hb_pub", "hb_ssh", "hb_reply"} \subseteq PCs
      /\ {"done", "rg_key", "hb_peer", "hb_applied", "hb_ack", "hb_online",
           "hb_pub", "hb_ssh", "hb_reply"} \cap TxPCs = {}
      /\ 200 \in Codes
  BY Names
<1>1. CASE CheckToken(r)
  <2>1. /\ ~At(r, "idle")
        /\ \/ Respond(r, 401) \/ Respond(r, 409) \/ Respond(r, 410)
           \/ Goto(r, "rg_used")
    BY <1>1 DEF CheckToken, At
  <2> QED BY <2>1, <1>t, GotoQuiet, RespondOK, Names
<1>2. CASE MarkTokenUsed(r)
  <2>1. ~At(r, "idle") /\ Goto(r, "rg_online")
    BY <1>2 DEF MarkTokenUsed, At
  <2> QED BY <2>1, <1>t, GotoQuiet, Names
<1>3. CASE RegisterOnline(r)
  <2>1. ~At(r, "idle") /\ Goto(r, "rg_setup")
    BY <1>3 DEF RegisterOnline, At
  <2> QED BY <2>1, <1>t, GotoQuiet, Names
<1>4. CASE ReadSetupKey(r)
  <2> DEFINE s(x) == [req[r] EXCEPT !.pc = "rg_key", !.setup = x]
  <2>1. PICK ok \in BOOLEAN : ~At(r, "idle") /\ Put(r, s(ok /\ link[c].row))
    BY <1>4 DEF ReadSetupKey, At
  <2>2. ASSUME NEW x \in BOOLEAN
        PROVE  s(x) \in Requests /\ s(x).client = c /\ s(x).pc \notin TxPCs
    BY <2>1, <1>t, <1>c, <1>p DEF Requests
  <2>3. (ok /\ link[c].row) \in BOOLEAN
    OBVIOUS
  <2> HIDE DEF s
  <2> QED BY <2>1, <2>2, <2>3, <1>t, PutQuiet DEF c
<1>5. CASE IssueAgentToken(r)
  <2> DEFINE s(k) == [req[r] EXCEPT !.pc = "done", !.code = 200, !.key = k]
  <2>1. PICK ok \in BOOLEAN : ~At(r, "idle") /\ \E k \in ReadKey(c, ok) : Put(r, s(k))
    BY <1>5 DEF IssueAgentToken, At
  <2>2. PICK k \in ReadKey(c, ok) : Put(r, s(k))
    BY <2>1
  <2>3. k \in Keys \cup {NoKey}
    BY <2>1, <2>2, <1>c, <1>l
  <2>4. s(k) \in Requests /\ s(k).client = c /\ s(k).pc \notin TxPCs
    <3>1. ASSUME NEW p \in PCs, NEW v \in Codes
          PROVE  LET t == [req[r] EXCEPT !.pc = p, !.code = v, !.key = k]
                 IN  t \in Requests /\ t.client = c /\ t.pc = p
      BY <2>3, <1>t DEF Requests
    <3>2. s(k) \in Requests /\ s(k).client = c /\ s(k).pc = "done"
      BY <3>1, <1>p
    <3> QED BY <3>2, <1>p
  <2> HIDE DEF s
  <2> QED BY <2>1, <2>2, <2>4, <1>t, PutQuiet DEF c
<1>6. CASE ReadStatus(r)
  <2> DEFINE s == [req[r] EXCEPT !.seen = status[c],
                     !.pc = IF req[r].peer # NoClient THEN "hb_peer"
                                                       ELSE "hb_applied"]
  <2>1. ~At(r, "idle") /\ (Put(r, s) \/ Respond(r, 401))
    BY <1>6 DEF ReadStatus, At
  <2>2. s \in Requests /\ s.client = c /\ s.pc \notin TxPCs
    BY <2>1, <1>t, <1>c, <1>l, <1>p DEF Requests
  <2> HIDE DEF s
  <2> QED BY <2>1, <2>2, <1>t, PutQuiet, RespondOK, Names DEF c
<1>7. CASE RecordPeer(r)
  <2>1. ~At(r, "idle") /\ Goto(r, "hb_enabled")
    BY <1>7 DEF RecordPeer, At
  <2> QED BY <2>1, <1>t, GotoQuiet, Names
<1>8. CASE ReadAlreadyEnabled(r)
  <2>1. ~At(r, "idle") /\ (Goto(r, "hb_applied") \/ Goto(r, "hb_nbssh"))
    BY <1>8 DEF ReadAlreadyEnabled, At
  <2> QED BY <2>1, <1>t, GotoQuiet, Names
<1>9. CASE EnableSSH(r)
  <2>1. ~At(r, "idle") /\ (Goto(r, "hb_record") \/ Goto(r, "hb_applied"))
    BY <1>9 DEF EnableSSH, At
  <2> QED BY <2>1, <1>t, GotoQuiet, Names
<1>10. CASE RecordEnabled(r)
  <2>1. ~At(r, "idle") /\ Goto(r, "hb_applied")
    BY <1>10 DEF RecordEnabled, At
  <2> QED BY <2>1, <1>t, GotoQuiet, Names
<1>11. CASE RecordApplied(r)
  <2> DEFINE s == [req[r] EXCEPT !.pc = "hb_ack", !.peer = NoClient,
                                 !.applied = FALSE]
  <2>1. ~At(r, "idle") /\ Put(r, s)
    BY <1>11 DEF RecordApplied, At
  <2>2. s \in Requests /\ s.client = c /\ s.pc \notin TxPCs
    BY <2>1, <1>t, <1>p DEF Requests, Peers
  <2> HIDE DEF s
  <2> QED BY <2>1, <2>2, <1>t, PutQuiet DEF c
<1>12. CASE AcknowledgeRotation(r)
  <2> DEFINE s == [req[r] EXCEPT !.pc = "hb_online", !.rotated = FALSE]
  <2>1. ~At(r, "idle") /\ Put(r, s)
    BY <1>12 DEF AcknowledgeRotation, At
  <2>2. s \in Requests /\ s.client = c /\ s.pc \notin TxPCs
    BY <2>1, <1>t, <1>p DEF Requests
  <2> HIDE DEF s
  <2> QED BY <2>1, <2>2, <1>t, PutQuiet DEF c
<1>13. CASE HeartbeatOnline(r)
  <2>1. ~At(r, "idle") /\ Goto(r, "hb_pending")
    BY <1>13 DEF HeartbeatOnline, At
  <2> QED BY <2>1, <1>t, GotoQuiet, Names
<1>14. CASE ReadPendingRotation(r)
  <2> DEFINE pending(ok) == ok /\ PendingKeys(c) # {}
             s(x) == [req[r] EXCEPT !.rotate = x,
                                    !.pc = IF x THEN "hb_pub" ELSE "hb_ssh"]
  <2>1. PICK ok \in BOOLEAN : ~At(r, "idle") /\ Put(r, s(pending(ok)))
    BY <1>14 DEF ReadPendingRotation, At
  <2>2. pending(ok) \in BOOLEAN
    OBVIOUS
  <2> HIDE DEF pending
  <2>3. ASSUME NEW x \in BOOLEAN
        PROVE  s(x) \in Requests /\ s(x).client = c /\ s(x).pc \notin TxPCs
    BY <1>t, <1>p DEF Requests
  <2> HIDE DEF s
  <2> QED BY <2>1, <2>2, <2>3, <1>t, PutQuiet DEF c
<1>15. CASE ReadInstallPub(r)
  <2> DEFINE s(k) == [req[r] EXCEPT !.pc = "hb_ssh", !.key = k]
  <2>1. PICK ok \in BOOLEAN : ~At(r, "idle") /\ \E k \in ReadKey(c, ok) : Put(r, s(k))
    BY <1>15 DEF ReadInstallPub, At
  <2>2. PICK k \in ReadKey(c, ok) : Put(r, s(k))
    BY <2>1
  <2>3. k \in Keys \cup {NoKey}
    BY <2>1, <2>2, <1>c, <1>l
  <2>4. s(k) \in Requests /\ s(k).client = c /\ s(k).pc \notin TxPCs
    BY <2>3, <1>t, <1>p DEF Requests
  <2> HIDE DEF s
  <2> QED BY <2>1, <2>2, <2>4, <1>t, PutQuiet DEF c
<1>16. CASE ReadSshEnabled(r)
  <2> DEFINE s(x) == [req[r] EXCEPT !.pc = "hb_reply", !.enabled = x]
  <2>1. PICK ok \in BOOLEAN : ~At(r, "idle") /\ Put(r, s(ok /\ link[c].enabled))
    BY <1>16 DEF ReadSshEnabled, At
  <2>2. ASSUME NEW x \in BOOLEAN
        PROVE  s(x) \in Requests /\ s(x).client = c /\ s(x).pc \notin TxPCs
    BY <2>1, <1>t, <1>c, <1>p DEF Requests
  <2>3. (ok /\ link[c].enabled) \in BOOLEAN
    OBVIOUS
  <2> HIDE DEF s
  <2> QED BY <2>1, <2>2, <2>3, <1>t, PutQuiet DEF c
<1>17. CASE ReplyHeartbeat(r)
  <2> DEFINE ask(ok) == req[r].enabled /\ ~(ok /\ link[c].applied)
             s(p, d, a) == [req[r] EXCEPT !.pc = p, !.code = d,
                                          !.enabled = FALSE, !.apply = a]
  <2>1. PICK ok \in BOOLEAN : ~At(r, "idle") /\ Put(r, s("done", 200, ask(ok)))
    BY <1>17 DEF ReplyHeartbeat, At
  <2>2. ask(ok) \in BOOLEAN
    OBVIOUS
  <2> HIDE DEF ask
  <2>3. ASSUME NEW p \in PCs, NEW d \in Codes, NEW a \in BOOLEAN
        PROVE  /\ s(p, d, a) \in Requests
               /\ s(p, d, a).client = c /\ s(p, d, a).pc = p
    BY <1>t DEF Requests
  <2> HIDE DEF s
  <2> QED BY <2>1, <2>2, <2>3, <1>t, <1>p, PutQuiet DEF c
<1> QED BY <1>1, <1>2, <1>3, <1>4, <1>5, <1>6, <1>7, <1>8, <1>9, <1>10,
       <1>11, <1>12, <1>13, <1>14, <1>15, <1>16, <1>17 DEF StepAgent

---------------------------------------------------------------------------
(* The steps of the transactions.                                          *)

(* CreateClient and RotateKey start with a key pair nobody has.            *)
LEMMA StartKeyOK ==
  ASSUME TypeOK, NEW r \in Slots, NEW c \in Clients,
         StartCreateClient(r, c) \/ StartRotateKey(r, c)
  PROVE  /\ RequestsOK' /\ OthersStay(r) /\ At(r, "idle")
         /\ req'[r].client = c /\ req'[r].key \in Unused
         /\ req'[r].pc = IF StartCreateClient(r, c) THEN "cc_setup" ELSE "rk_read"
         /\ generated' = generated \cup {req'[r].key}
<1> DEFINE s(op, p, k) == [Idle EXCEPT !.op = op, !.pc = p, !.client = c, !.key = k]
<1>1. ASSUME NEW op \in Ops, NEW p \in PCs, NEW k \in Keys
      PROVE  /\ s(op, p, k) \in Requests /\ s(op, p, k).pc = p
             /\ s(op, p, k).client = c /\ s(op, p, k).key = k
  BY IdleOK DEF Requests
<1>2. {"create", "rotate"} \subseteq Ops /\ {"cc_setup", "rk_read"} \subseteq PCs
  BY DEF Ops, PCs
<1>3. Unused \subseteq Keys /\ RequestsOK
  BY DEF Unused, TypeOK
<1>4. CASE StartCreateClient(r, c)
  <2>1. PICK k \in Unused : /\ generated' = generated \cup {k}
                            /\ At(r, "idle") /\ Put(r, s("create", "cc_setup", k))
    BY <1>4 DEF StartCreateClient
  <2> HIDE DEF s
  <2> QED BY <2>1, <1>1, <1>2, <1>3, <1>4, PutOK
<1>5. CASE StartRotateKey(r, c) /\ ~StartCreateClient(r, c)
  <2>1. PICK k \in Unused : /\ generated' = generated \cup {k}
                            /\ At(r, "idle") /\ Put(r, s("rotate", "rk_read", k))
    BY <1>5 DEF StartRotateKey
  <2> HIDE DEF s
  <2> QED BY <2>1, <1>1, <1>2, <1>3, <1>5, PutOK
<1> QED BY <1>4, <1>5

(* The DELETE of a rotation takes its view, then the locks.                *)
LEMMA BeginDeleteOK ==
  ASSUME TypeOK, NEW r \in Slots, BeginDelete(r)
  PROVE  \/ Quiet(r) /\ UNCHANGED overlap
         \/ /\ RequestsOK' /\ OthersStay(r) /\ req'[r].pc = "rk_delete"
            /\ req'[r].client = req[r].client /\ req'[r].key = req[r].key
            /\ req'[r].snap = active[req[r].client]
            /\ overlap' = IF \E q \in Slots : Rotating(q, req[r].client)
                            THEN overlap \cup {req[r].client} ELSE overlap
<1> DEFINE c == req[r].client
<1>1. ~At(r, "idle") /\ c \in Clients /\ req[r] \in Requests
  BY DEF BeginDelete, At, TypeOK, RequestsOK
<1>2. CASE Respond(r, 500) /\ UNCHANGED overlap
  BY <1>1, <1>2, RespondOK, Names DEF TypeOK
<1>3. CASE /\ Put(r, [req[r] EXCEPT !.pc = "rk_delete", !.snap = active[c]])
           /\ overlap' = IF \E q \in Slots : Rotating(q, c)
                           THEN overlap \cup {c} ELSE overlap
  <2> DEFINE s(p) == [req[r] EXCEPT !.pc = p, !.snap = active[c]]
  <2>1. active[c] \in SUBSET Keys /\ "rk_delete" \in PCs
    BY <1>1 DEF TypeOK, RowsOK, PCs
  <2>2. ASSUME NEW p \in PCs
        PROVE  /\ s(p) \in Requests /\ s(p).pc = p /\ s(p).client = c
               /\ s(p).key = req[r].key /\ s(p).snap = active[c]
    BY <1>1, <2>1 DEF Requests
  <2>3. Put(r, s("rk_delete"))
    BY <1>3
  <2> HIDE DEF s
  <2>4. /\ RequestsOK' /\ OthersStay(r) /\ req'[r] = s("rk_delete")
    BY <1>1, <2>1, <2>2, <2>3, PutOK DEF TypeOK
  <2> QED BY <1>3, <2>1, <2>2, <2>4
<1> QED BY <1>2, <1>3 DEF BeginDelete

(* The DELETE of RotateKey dooms the keys it has in view that are still    *)
(* there.                                                                  *)
LEMMA DeleteOldKeysOK ==
  ASSUME TypeOK, NEW r \in Slots, DeleteOldKeys(r)
  PROVE  /\ RequestsOK' /\ OthersStay(r) /\ req'[r].pc = "rk_insert"
         /\ req'[r].client = req[r].client /\ req'[r].key = req[r].key
         /\ req'[r].doomed = req[r].snap \cap active[req[r].client]
<1> DEFINE c == req[r].client
           y == req[r].snap \cap active[c]
<1>1. ~At(r, "idle") /\ c \in Clients /\ req[r] \in Requests
  BY DEF DeleteOldKeys, At, TypeOK, RequestsOK
<1>2. Put(r, [req[r] EXCEPT !.pc = "rk_insert", !.doomed = y])
  BY DEF DeleteOldKeys
<1>3. y \in SUBSET Keys /\ "rk_insert" \in PCs
  BY <1>1 DEF TypeOK, RowsOK, Requests, PCs
<1> DEFINE s(p) == [req[r] EXCEPT !.pc = p, !.doomed = y]
<1>4. Put(r, s("rk_insert"))
  BY <1>2
<1> HIDE DEF y
<1>5. ASSUME NEW p \in PCs
      PROVE  /\ s(p) \in Requests /\ s(p).pc = p /\ s(p).client = c
             /\ s(p).key = req[r].key /\ s(p).doomed = y
  BY <1>1, <1>3 DEF Requests
<1> HIDE DEF s
<1>6. /\ RequestsOK' /\ OthersStay(r) /\ req'[r] = s("rk_insert")
  BY <1>1, <1>3, <1>4, <1>5, PutOK DEF TypeOK
<1> QED BY <1>3, <1>5, <1>6 DEF y

(* The other steps of the transactions go on or answer.                    *)
LEMMA TxMoves ==
  ASSUME TypeOK, NEW r \in Slots
  PROVE  /\ CreateSetupKey(r) => Goto(r, "cc_commit") \/ Quiet(r)
         /\ CommitClient(r) \/ CommitRotation(r) \/ Cascade(r) => Quiet(r)
         /\ ReadName(r) =>
              (Live(req[r].client) /\ Goto(r, "rk_begin")) \/ Quiet(r)
         /\ InsertKey(r) => \/ Quiet(r)
                            \/ /\ Live(req[r].client) /\ ~RowLocked(req[r].client)
                               /\ Goto(r, "rk_commit")
         /\ LockClient(r) => \/ Quiet(r)
                             \/ /\ Live(req[r].client) /\ ~RowLocked(req[r].client)
                                /\ Goto(r, "dl_cascade")
<1>1. RequestsOK
  BY DEF TypeOK
<1>2. \A code \in {200, 201, 404, 500, 502} :
        ~At(r, "idle") /\ Respond(r, code) => Quiet(r)
  BY <1>1, RespondOK, Names
<1>3. CreateSetupKey(r) => Goto(r, "cc_commit") \/ Quiet(r)
  BY <1>2 DEF CreateSetupKey, At
<1>4. CommitClient(r) \/ CommitRotation(r) \/ Cascade(r) => Quiet(r)
  BY <1>2 DEF CommitClient, CommitRotation, Cascade, At
<1>5. ReadName(r) => (Live(req[r].client) /\ Goto(r, "rk_begin")) \/ Quiet(r)
  BY <1>2 DEF ReadName, At
<1>6. InsertKey(r) => \/ Quiet(r)
                      \/ /\ Live(req[r].client) /\ ~RowLocked(req[r].client)
                         /\ Goto(r, "rk_commit")
  BY <1>2 DEF InsertKey, At
<1>7. LockClient(r) => \/ Quiet(r)
                       \/ /\ Live(req[r].client) /\ ~RowLocked(req[r].client)
                          /\ Goto(r, "dl_cascade")
  BY <1>2 DEF LockClient, At
<1> QED BY <1>3, <1>4, <1>5, <1>6, <1>7

(* The other handlers start outside of any transaction.                    *)
LEMMA StartQuiet ==
  ASSUME TypeOK, NEW r \in Slots, NEW c \in Clients,
         \/ StartDisableClient(r, c) \/ StartDeleteClient(r, c)
         \/ StartConnection(r, c) \/ StartRegister(r, c) \/ StartHeartbeats(r, c)
         \/ StartUpdateClient(r, c) \/ StartPrivateKey(r, c)
  PROVE  Quiet(r)
<1>1. RequestsOK
  BY DEF TypeOK
<1>2. {"disable", "delete", "connection", "register", "heartbeat", "update",
       "private"} \subseteq Ops
  BY DEF Ops
<1>3. CASE StartHeartbeats(r, c)
  <2> DEFINE s(op, p, x, y, z) ==
        [Idle EXCEPT !.op = op, !.pc = p, !.client = c,
                     !.peer = x, !.rotated = y, !.applied = z]
  <2>1. PICK x \in Peers, y \in BOOLEAN, z \in BOOLEAN :
          Put(r, s("heartbeat", "hb_read", x, y, z))
    BY <1>3 DEF StartHeartbeats, StartHeartbeat
  <2>2. ASSUME NEW op \in Ops, NEW p \in PCs
        PROVE  /\ s(op, p, x, y, z) \in Requests
               /\ s(op, p, x, y, z).client = c /\ s(op, p, x, y, z).pc = p
    BY IdleOK DEF Requests
  <2>3. "hb_read" \in PCs \ TxPCs /\ At(r, "idle")
    BY <1>3, Names DEF StartHeartbeats, StartHeartbeat
  <2> HIDE DEF s
  <2> QED BY <2>1, <2>2, <2>3, <1>1, <1>2, PutOK DEF Quiet
<1>4. CASE \/ StartDisableClient(r, c) \/ StartDeleteClient(r, c)
           \/ StartConnection(r, c) \/ StartRegister(r, c)
           \/ StartUpdateClient(r, c) \/ StartPrivateKey(r, c)
  BY <1>1, <1>2, <1>4, BeginOK, Names
     DEF StartDisableClient, StartDeleteClient, StartConnection, StartRegister,
         StartUpdateClient, StartPrivateKey
<1> QED BY <1>3, <1>4

---------------------------------------------------------------------------
(* Type correctness.                                                       *)

DataOK == /\ RowsOK
          /\ nb \in [Clients -> NbObjects]
          /\ issued \in [Clients -> Nat]
          /\ overlap \subseteq Clients
          /\ faults \in Nat

(* The link row of CreateClient, and the one there is without a client.    *)
LEMMA LinksOK ==
  /\ NoLink \in Links /\ NewLink \in Links
  /\ NoLink.row = FALSE /\ NewLink.row = TRUE
BY DEF NoLink, NewLink, Links, Peers

(* NetBird's objects stay well formed when DeletePeer removes a peer.      *)
LEMMA PeerStepOK ==
  ASSUME nb \in [Clients -> NbObjects], NEW c, PeerDeleted(c)
  PROVE  nb' \in [Clients -> NbObjects]
<1> DEFINE x == [nb[c] EXCEPT !.peer = FALSE, !.ssh = FALSE]
<1>1. c \in Clients => x \in NbObjects
  BY DEF NbObjects
<1>2. nb' = [nb EXCEPT ![c] = x]
  BY DEF PeerDeleted
<1> HIDE DEF x
<1> QED BY <1>1, <1>2

(* The administrators' handlers write rows of the right type.              *)
LEMMA AdminDataOK ==
  ASSUME TypeOK, NEW r \in Slots, StepAdmin(r),
         req[r].pc \in {"cc_commit", "rk_commit"} => req[r].key \in Keys
  PROVE  DataOK'
<1> USE DEF TypeOK, DataOK, RowsOK, dbVars, clientVars, keyVars, sideVars
<1>c. ~At(r, "idle") => req[r].client \in Clients /\ req[r] \in Requests
  BY DEF RequestsOK
<1>1. CASE CreateSetupKey(r)
  <2> DEFINE c == req[r].client
  <2>c. c \in Clients
    BY <1>c, <1>1 DEF CreateSetupKey, At
  <2>1. faults' \in Nat
    BY <1>1 DEF CreateSetupKey, Fault
  <2>2. nb' \in [Clients -> NbObjects]
    BY <2>c, <1>1 DEF CreateSetupKey, NbObjects
  <2> QED BY <2>1, <2>2, <1>1 DEF CreateSetupKey
<1>2. CASE CommitClient(r)
  <2> DEFINE c == req[r].client
  <2>c. c \in Clients
    BY <1>c, <1>2 DEF CommitClient, At
  <2>0. req[r].key \in Keys
    BY <1>2 DEF CommitClient, At
  <2>1. faults' \in Nat /\ status' \in [Clients -> Rows \cup {"absent", "deleted"}]
        /\ token' \in [Clients -> {"none", "unused", "used"}]
    BY <2>c, <1>2 DEF CommitClient, Fault, Rows
  <2>2. link' \in [Clients -> Links]
    BY <2>c, <1>2, LinksOK DEF CommitClient
  <2>3. active' \in [Clients -> SUBSET Keys] /\ acked' \subseteq Keys
    BY <2>c, <2>0, <1>2 DEF CommitClient
  <2> QED BY <2>1, <2>2, <2>3, <1>2 DEF CommitClient
<1>3. CASE ReadName(r)
  BY <1>c, <1>3 DEF ReadName, At, Got, Fault
<1>4. CASE BeginDelete(r)
  BY <1>c, <1>4 DEF BeginDelete, At, Fault
<1>5. CASE DeleteOldKeys(r)
  BY <1>c, <1>5 DEF DeleteOldKeys, At
<1>6. CASE InsertKey(r)
  BY <1>c, <1>6 DEF InsertKey, At, Fault
<1>7. CASE CommitRotation(r)
  <2> DEFINE c == req[r].client
  <2>c. c \in Clients
    BY <1>c, <1>7 DEF CommitRotation, At
  <2>0. req[r].key \in Keys
    BY <1>7 DEF CommitRotation, At
  <2>1. faults' \in Nat
    BY <1>7 DEF CommitRotation, Fault
  <2>1a. active[c] \ req[r].doomed \in SUBSET Keys
    BY <2>c
  <2>2. active' \in [Clients -> SUBSET Keys] /\ acked' \subseteq Keys
    BY <2>c, <2>0, <2>1a, <1>7 DEF CommitRotation
  <2> QED BY <2>1, <2>2, <1>7 DEF CommitRotation
<1>8. CASE DisableScanLink(r)
  BY <1>c, <1>8 DEF DisableScanLink, At, Got, Fault
<1>9. CASE DisableDeletePeer(r)
  <2> DEFINE c == req[r].client
  <2>c. c \in Clients
    BY <1>c, <1>9 DEF DisableDeletePeer, At
  <2>1. faults' \in Nat
    BY <1>9 DEF DisableDeletePeer, PeerDeleted, PeerNotDeleted, Fault
  <2>2. nb' \in [Clients -> NbObjects]
    BY <2>c, <1>9, PeerStepOK DEF DisableDeletePeer, PeerNotDeleted
  <2> QED BY <2>1, <2>2, <1>9 DEF DisableDeletePeer
<1>10. CASE ForgetPeer(r)
  <2> DEFINE c == req[r].client
  <2>c. c \in Clients
    BY <1>c, <1>10 DEF ForgetPeer, At
  <2>1. faults' \in Nat
    BY <1>10 DEF ForgetPeer, Fault
  <2>2. link' = link \/ \E x \in {link[c], NewLink} : link' = [link EXCEPT ![c] = x]
    BY <1>10 DEF ForgetPeer
  <2>4. link' \in [Clients -> Links]
    BY <2>c, <2>2, LinksOK
  <2> QED BY <2>1, <2>4, <1>10 DEF ForgetPeer
<1>11. CASE SetDisabled(r)
  BY <1>c, <1>11 DEF SetDisabled, At, Rows, Fault
<1>12. CASE DeleteScanLink(r)
  BY <1>c, <1>12 DEF DeleteScanLink, At, Got, Fault
<1>13. CASE DeleteDeletePeer(r)
  <2> DEFINE c == req[r].client
  <2>c. c \in Clients
    BY <1>c, <1>13 DEF DeleteDeletePeer, At
  <2>1. faults' \in Nat
    BY <1>13 DEF DeleteDeletePeer, PeerDeleted, PeerNotDeleted, Fault
  <2>2. nb' \in [Clients -> NbObjects]
    BY <2>c, <1>13, PeerStepOK DEF DeleteDeletePeer, PeerNotDeleted
  <2> QED BY <2>1, <2>2, <1>13 DEF DeleteDeletePeer
<1>14. CASE DeleteSetupKey(r)
  BY <1>c, <1>14 DEF DeleteSetupKey, At, NbObjects, Fault
<1>15. CASE LockClient(r)
  BY <1>c, <1>15 DEF LockClient, At, Fault
<1>16. CASE Cascade(r)
  <2> DEFINE c == req[r].client
  <2>c. c \in Clients
    BY <1>c, <1>16 DEF Cascade, At
  <2>1. /\ status' \in [Clients -> Rows \cup {"absent", "deleted"}]
        /\ token' \in [Clients -> {"none", "unused", "used"}]
        /\ active' \in [Clients -> SUBSET Keys] /\ acked' \subseteq Keys
    BY <2>c, <1>16 DEF Cascade
  <2>2. link' \in [Clients -> Links]
    BY <2>c, <1>16, LinksOK DEF Cascade
  <2> QED BY <2>1, <2>2, <1>16 DEF Cascade
<1>17. CASE ReadConnection(r)
  <2>1. UNCHANGED dbVars
    BY <1>17 DEF ReadConnection
  <2>2. \E ok \in BOOLEAN : Got(ok)
    BY <1>17 DEF ReadConnection
  <2>3. faults' \in Nat
    BY <2>2 DEF Got, Fault
  <2> QED BY <2>1, <2>3
<1>18. CASE UpdateRow(r)
  BY <1>c, <1>18 DEF UpdateRow, At, Fault
<1>19. CASE ReadPrivateKey(r)
  <2>1. UNCHANGED dbVars
    BY <1>19 DEF ReadPrivateKey
  <2>2. (\E ok \in BOOLEAN : Got(ok)) \/ Fault
    BY <1>19 DEF ReadPrivateKey
  <2>3. faults' \in Nat
    BY <2>2 DEF Got, Fault
  <2> QED BY <2>1, <2>3
<1> QED BY <1>1, <1>2, <1>3, <1>4, <1>5, <1>6, <1>7, <1>8, <1>9, <1>10,
       <1>11, <1>12, <1>13, <1>14, <1>15, <1>16, <1>17, <1>18, <1>19 DEF StepAdmin

(* So do the agents' handlers.                                             *)
LEMMA AgentDataOK ==
  ASSUME TypeOK, NEW r \in Slots, StepAgent(r)
  PROVE  DataOK'
<1> USE DEF TypeOK, DataOK, RowsOK, dbVars, clientVars, keyVars, sideVars
<1>c. ~At(r, "idle") => req[r].client \in Clients /\ req[r] \in Requests
  BY DEF RequestsOK
<1>1. CASE CheckToken(r)
  BY <1>c, <1>1 DEF CheckToken, At, Got, Fault
<1>2. CASE MarkTokenUsed(r)
  <2>1. token' \in [Clients -> {"none", "unused", "used"}]
    BY <1>c, <1>2 DEF MarkTokenUsed, At
  <2>2. expired' \in [Clients -> BOOLEAN]
    BY <1>c, <1>2 DEF MarkTokenUsed, At
  <2>3. faults' \in Nat
    BY <1>2 DEF MarkTokenUsed, Fault
  <2> QED BY <2>1, <2>2, <2>3, <1>2 DEF MarkTokenUsed
<1>3. CASE RegisterOnline(r)
  BY <1>c, <1>3 DEF RegisterOnline, At, Rows, Fault
<1>4. CASE ReadSetupKey(r)
  BY <1>c, <1>4 DEF ReadSetupKey, At, Got, Fault
<1>5. CASE IssueAgentToken(r)
  BY <1>c, <1>5 DEF IssueAgentToken, At, Got, Fault
<1>6. CASE ReadStatus(r)
  BY <1>c, <1>6 DEF ReadStatus, At, Got, Fault
<1>7. CASE RecordPeer(r)
  <2> DEFINE c == req[r].client
  <2>c. c \in Clients
    BY <1>c, <1>7 DEF RecordPeer, At
  <2>1. faults' \in Nat
    BY <1>7 DEF RecordPeer, Fault
  <2>2. link[c] \in Links /\ link[c].row \in BOOLEAN
    BY <2>c DEF Links
  <2> DEFINE b == IF link[c].row THEN req[r].peer ELSE link[c].peer
             x == [link[c] EXCEPT !.peer = b]
  <2>b. b \in Peers
    BY <2>2, <2>c, <1>c, <1>7 DEF RecordPeer, At, Links, Requests
  <2>3. link' = link \/ link' = [link EXCEPT ![c] = x]
    BY <1>7 DEF RecordPeer
  <2> HIDE DEF b
  <2>x. x \in Links
    BY <2>2, <2>b DEF Links
  <2> HIDE DEF x
  <2>4. link' \in [Clients -> Links]
    BY <2>c, <2>3, <2>x
  <2> QED BY <2>1, <2>4, <1>7 DEF RecordPeer
<1>8. CASE ReadAlreadyEnabled(r)
  BY <1>c, <1>8 DEF ReadAlreadyEnabled, At, Got, Fault
<1>9. CASE EnableSSH(r)
  <2> DEFINE c == req[r].client
  <2>c. c \in Clients
    BY <1>c, <1>9 DEF EnableSSH, At
  <2>1. faults' \in Nat
    BY <1>9 DEF EnableSSH, Fault
  <2>2. nb' \in [Clients -> NbObjects]
    BY <2>c, <1>9 DEF EnableSSH, NbObjects
  <2> QED BY <2>1, <2>2, <1>9 DEF EnableSSH
<1>10. CASE RecordEnabled(r)
  <2> DEFINE c == req[r].client
  <2>c. c \in Clients
    BY <1>c, <1>10 DEF RecordEnabled, At
  <2>1. faults' \in Nat
    BY <1>10 DEF RecordEnabled, Fault
  <2>2. link[c] \in Links /\ link[c].row \in BOOLEAN
    BY <2>c DEF Links
  <2> DEFINE x == [link[c] EXCEPT !.enabled = link[c].row]
  <2>3. link' = link \/ link' = [link EXCEPT ![c] = x]
    BY <1>10 DEF RecordEnabled
  <2>x. x \in Links
    BY <2>2 DEF Links
  <2> HIDE DEF x
  <2>4. link' \in [Clients -> Links]
    BY <2>c, <2>3, <2>x
  <2> QED BY <2>1, <2>4, <1>10 DEF RecordEnabled
<1>11. CASE RecordApplied(r)
  <2> DEFINE c == req[r].client
  <2>c. c \in Clients
    BY <1>c, <1>11 DEF RecordApplied, At
  <2>1. faults' \in Nat
    BY <1>11 DEF RecordApplied, Fault
  <2>2. link[c] \in Links /\ link[c].row \in BOOLEAN /\ link[c].applied \in BOOLEAN
    BY <2>c DEF Links
  <2> DEFINE b == IF req[r].applied THEN link[c].row ELSE link[c].applied
  <2> DEFINE x == [link[c] EXCEPT !.applied = b]
  <2>3. link' = link \/ link' = [link EXCEPT ![c] = x]
    BY <1>11 DEF RecordApplied
  <2>x. x \in Links
    BY <2>2 DEF Links
  <2> HIDE DEF x
  <2>4. link' \in [Clients -> Links]
    BY <2>c, <2>3, <2>x
  <2> QED BY <2>1, <2>4, <1>11 DEF RecordApplied
<1>12. CASE AcknowledgeRotation(r)
  BY <1>c, <1>12 DEF AcknowledgeRotation, At, Fault
<1>13. CASE HeartbeatOnline(r)
  BY <1>c, <1>13 DEF HeartbeatOnline, At, Rows, Fault
<1>14. CASE ReadPendingRotation(r)
  BY <1>c, <1>14 DEF ReadPendingRotation, At, Got, Fault
<1>15. CASE ReadInstallPub(r)
  BY <1>c, <1>15 DEF ReadInstallPub, At, Got, Fault
<1>16. CASE ReadSshEnabled(r)
  BY <1>c, <1>16 DEF ReadSshEnabled, At, Got, Fault
<1>17. CASE ReplyHeartbeat(r)
  BY <1>c, <1>17 DEF ReplyHeartbeat, At, Got, Fault
<1> QED BY <1>1, <1>2, <1>3, <1>4, <1>5, <1>6, <1>7, <1>8, <1>9, <1>10,
       <1>11, <1>12, <1>13, <1>14, <1>15, <1>16, <1>17 DEF StepAgent

---------------------------------------------------------------------------
SameRows ==
  \A c \in Clients :
    /\ (status'[c] = "absent") = (status[c] = "absent")
    /\ Live(c)' = Live(c)
    /\ (token'[c] = "none") = (token[c] = "none")
    /\ link'[c].row = link[c].row
    /\ link[c] = NoLink => link'[c] = NoLink

Benign == SameRows /\ UNCHANGED <<active, generated, overlap>>

---------------------------------------------------------------------------
(* Steps outside the transactions.                                         *)

(* A step that changes neither the keys nor an open transaction leaves     *)
(* every key pair where it is.                                             *)
LEMMA KeyQuiet ==
  ASSUME KeyInv, NEW r \in Slots, Quiet(r), UNCHANGED <<active, generated>>
  PROVE  KeyInv'
BY DEF KeyInv, Quiet, OthersStay, TxPCs, KeyPCs, CreatePCs, RotatePCs

(* Nor does a step outside of the transactions that keeps the rows and     *)
(* the keys of every client tear them apart.                               *)
LEMMA RowQuiet ==
  ASSUME TypeOK, RowInv, NEW r \in Slots, Quiet(r), SameRows, UNCHANGED active
  PROVE  RowInv'
<1>1. ClientIsComplete'
  BY DEF RowInv, ClientIsComplete, SameRows
<1>2. \A q \in Slots : req'[q].pc \in TxPCs => q # r /\ req'[q] = req[q]
  BY DEF Quiet, OthersStay
<1>3. \A q \in Slots : req'[q].pc \in CreatePCs \/ At(q, "rk_commit")' \/ At(q, "dl_cascade")'
        => req'[q].pc \in TxPCs
  BY DEF TxPCs, CreatePCs, At
<1>4. \A q \in Slots : req'[q].pc \in CreatePCs => status'[req'[q].client] = "absent"
  <2> SUFFICES ASSUME NEW q \in Slots, req'[q].pc \in CreatePCs
               PROVE  status'[req'[q].client] = "absent"
    OBVIOUS
  <2>1. req[q].pc \in CreatePCs /\ req'[q] = req[q]
    BY <1>2, <1>3
  <2>2. req[q].client \in Clients
    BY <2>1 DEF TypeOK, RequestsOK, At, CreatePCs
  <2> QED BY <2>1, <2>2 DEF RowInv, SameRows
<1>5. \A q, s \in Slots : req'[q].pc \in CreatePCs /\ req'[s].pc \in CreatePCs
        /\ req'[q].client = req'[s].client => q = s
  BY <1>2, <1>3 DEF RowInv
<1>6. \A q \in Slots : At(q, "rk_commit")' =>
        Live(req[q].client)' /\ req'[q] = req[q] /\ ~RowLocked(req[q].client)'
  <2> SUFFICES ASSUME NEW q \in Slots, At(q, "rk_commit")'
               PROVE  Live(req[q].client)' /\ req'[q] = req[q] /\ ~RowLocked(req[q].client)'
    OBVIOUS
  <2>1. At(q, "rk_commit") /\ req'[q] = req[q]
    BY <1>2, <1>3 DEF At
  <2>2. req[q].client \in Clients
    BY <2>1 DEF TypeOK, RequestsOK, At
  <2>3. ~RowLocked(req[q].client)'
    BY <2>1, <1>2, <1>3 DEF RowInv, RowLocked, Deleting, At
  <2> QED BY <2>1, <2>2, <2>3 DEF RowInv, SameRows
<1>7. \A q \in Slots : At(q, "dl_cascade")' => Live(req[q].client)' /\ req'[q] = req[q]
  <2> SUFFICES ASSUME NEW q \in Slots, At(q, "dl_cascade")'
               PROVE  Live(req[q].client)' /\ req'[q] = req[q]
    OBVIOUS
  <2>1. At(q, "dl_cascade") /\ req'[q] = req[q]
    BY <1>2, <1>3 DEF At
  <2>2. req[q].client \in Clients
    BY <2>1 DEF TypeOK, RequestsOK, At
  <2> QED BY <2>1, <2>2 DEF RowInv, SameRows
<1>8. \A q, s \in Slots : At(q, "dl_cascade")' /\ At(s, "dl_cascade")'
        /\ req'[q].client = req'[s].client => q = s
  BY <1>2, <1>3 DEF RowInv, At
<1> QED BY <1>1, <1>4, <1>5, <1>6, <1>7, <1>8 DEF RowInv

(* Rotations that are open keep their view of the keys when another        *)
(* request takes a step that changes no key.                               *)
LEMMA SerialQuiet ==
  ASSUME TypeOK, SerialInv, NEW r \in Slots, Quiet(r), Benign
  PROVE  SerialInv'
<1>1. \A q \in Slots : req'[q].pc \in RotatePCs => q # r /\ req'[q] = req[q]
  BY DEF Quiet, OthersStay, TxPCs, RotatePCs
<1>2. \A q \in Slots : req'[q].pc \in RotatePCs => status'[req'[q].client] # "absent"
  <2> SUFFICES ASSUME NEW q \in Slots, req'[q].pc \in RotatePCs
               PROVE  status'[req'[q].client] # "absent"
    OBVIOUS
  <2>1. req[q].pc \in RotatePCs /\ req'[q] = req[q]
    BY <1>1
  <2>2. req[q].client \in Clients
    BY <2>1 DEF TypeOK, RequestsOK, At, RotatePCs
  <2> QED BY <2>1, <2>2 DEF SerialInv, Benign, SameRows
<1>3. \A q \in Slots, c \in Clients : Rotating(q, c)' =>
        Rotating(q, c) /\ req'[q] = req[q]
  BY <1>1 DEF Rotating, RotatePCs
<1> QED BY <1>2, <1>3 DEF SerialInv, Benign, At

(* No statement of the agents' handlers creates or deletes a row.          *)
LEMMA AgentBenign ==
  ASSUME TypeOK, RowInv, NEW r \in Slots, StepAgent(r)
  PROVE  Benign
<1> USE DEF Benign, SameRows, dbVars, clientVars, keyVars, sideVars
<1> DEFINE c == req[r].client
<1>c. ~At(r, "idle") => c \in Clients
  BY DEF TypeOK, RequestsOK
<1>l. ASSUME NEW d \in Clients
      PROVE  link[d] \in Links /\ (~link[d].row => link[d] = NoLink)
  BY DEF TypeOK, RowsOK, RowInv, ClientIsComplete
<1>1. CASE CheckToken(r)
  BY <1>1 DEF CheckToken, Live
<1>2. CASE ReadSetupKey(r)
  BY <1>2 DEF ReadSetupKey, Live
<1>3. CASE IssueAgentToken(r)
  BY <1>3 DEF IssueAgentToken, Live
<1>4. CASE ReadStatus(r)
  BY <1>4 DEF ReadStatus, Live
<1>5. CASE ReadAlreadyEnabled(r)
  BY <1>5 DEF ReadAlreadyEnabled, Live
<1>6. CASE EnableSSH(r)
  BY <1>6 DEF EnableSSH, Live
<1>7. CASE AcknowledgeRotation(r)
  BY <1>7 DEF AcknowledgeRotation, Live
<1>8. CASE ReadPendingRotation(r)
  BY <1>8 DEF ReadPendingRotation, Live
<1>9. CASE ReadInstallPub(r)
  BY <1>9 DEF ReadInstallPub, Live
<1>10. CASE ReadSshEnabled(r)
  BY <1>10 DEF ReadSshEnabled, Live
<1>11. CASE ReplyHeartbeat(r)
  BY <1>11 DEF ReplyHeartbeat, Live
<1>12. CASE MarkTokenUsed(r)
  <2>1. ASSUME NEW d \in Clients
        PROVE  (token'[d] = "none") = (token[d] = "none")
    BY <1>12, <1>c DEF MarkTokenUsed, At, TypeOK, RowsOK
  <2> QED BY <2>1, <1>12 DEF MarkTokenUsed, Live
<1>13. CASE RegisterOnline(r)
  <2>1. ASSUME NEW d \in Clients
        PROVE  /\ (status'[d] = "absent") = (status[d] = "absent")
               /\ Live(d)' = Live(d)
    BY <1>13, <1>c DEF RegisterOnline, At, TypeOK, RowsOK, Live, Rows
  <2> QED BY <2>1, <1>13 DEF RegisterOnline
<1>14. CASE HeartbeatOnline(r)
  <2>1. ASSUME NEW d \in Clients
        PROVE  /\ (status'[d] = "absent") = (status[d] = "absent")
               /\ Live(d)' = Live(d)
    BY <1>14, <1>c DEF HeartbeatOnline, At, TypeOK, RowsOK, Live, Rows
  <2> QED BY <2>1, <1>14 DEF HeartbeatOnline
<1>15. CASE RecordPeer(r)
  <2>1. ASSUME NEW d \in Clients
        PROVE  link'[d].row = link[d].row /\ (link[d] = NoLink => link'[d] = NoLink)
    <3>1. d # c => link'[d] = link[d]
      BY <1>15, <1>c DEF RecordPeer, At, TypeOK, RowsOK
    <3>2. d = c => \/ link'[d] = link[d]
                   \/ /\ link[d].row
                      /\ link'[d] = [link[d] EXCEPT !.peer = req[r].peer]
      <4>1. CASE link[c].row
        BY <4>1, <1>15, <1>c DEF RecordPeer, At, TypeOK, RowsOK
      <4>2. CASE ~link[c].row
        <5>1. c \in Clients /\ [link[c] EXCEPT !.peer = link[c].peer] = link[c]
          BY <1>15, <1>c, <1>l DEF RecordPeer, At, Links
        <5>2. link' = link \/ link' = [link EXCEPT ![c].peer = link[c].peer]
          BY <4>2, <1>15 DEF RecordPeer
        <5> QED BY <5>1, <5>2, <1>c DEF TypeOK, RowsOK
      <4> QED BY <4>1, <4>2
    <3>3. ASSUME link[d].row
          PROVE  /\ [link[d] EXCEPT !.peer = req[r].peer].row = link[d].row
                 /\ link[d] # NoLink
      <4>1. link[d] \in Links
        BY DEF TypeOK, RowsOK
      <4>2. NoLink.row = FALSE
        BY DEF NoLink
      <4> QED BY <3>3, <4>1, <4>2 DEF Links
    <3> QED BY <3>1, <3>2, <3>3
  <2> QED BY <2>1, <1>15 DEF RecordPeer, Live
<1>16. CASE RecordEnabled(r)
  <2>1. ASSUME NEW d \in Clients
        PROVE  link'[d].row = link[d].row /\ (link[d] = NoLink => link'[d] = NoLink)
    <3>1. d # c => link'[d] = link[d]
      BY <1>16, <1>c DEF RecordEnabled, At, TypeOK, RowsOK
    <3>2. d = c => \/ link'[d] = link[d]
                   \/ \E b \in {link[d].row, link[d].enabled} :
                       link'[d] = [link[d] EXCEPT !.enabled = b]
      BY <1>16, <1>c DEF RecordEnabled, At, TypeOK, RowsOK
    <3>3. ASSUME NEW b \in {link[d].row, link[d].enabled}
          PROVE  /\ [link[d] EXCEPT !.enabled = b].row = link[d].row
                 /\ link[d] = NoLink => [link[d] EXCEPT !.enabled = b] = NoLink
      BY <1>l DEF Links, NoLink
    <3> QED BY <3>1, <3>2, <3>3
  <2> QED BY <2>1, <1>16 DEF RecordEnabled, Live
<1>17. CASE RecordApplied(r)
  <2>1. ASSUME NEW d \in Clients
        PROVE  link'[d].row = link[d].row /\ (link[d] = NoLink => link'[d] = NoLink)
    <3>1. d # c => link'[d] = link[d]
      BY <1>17, <1>c DEF RecordApplied, At, TypeOK, RowsOK
    <3>2. d = c => \/ link'[d] = link[d]
                   \/ \E b \in {link[d].row, link[d].applied} :
                       link'[d] = [link[d] EXCEPT !.applied = b]
      BY <1>17, <1>c DEF RecordApplied, At, TypeOK, RowsOK
    <3>3. ASSUME NEW b \in {link[d].row, link[d].applied}
          PROVE  /\ [link[d] EXCEPT !.applied = b].row = link[d].row
                 /\ link[d] = NoLink => [link[d] EXCEPT !.applied = b] = NoLink
      BY <1>l DEF Links, NoLink
    <3> QED BY <3>1, <3>2, <3>3
  <2> QED BY <2>1, <1>17 DEF RecordApplied, Live
<1> QED BY <1>1, <1>2, <1>3, <1>4, <1>5, <1>6, <1>7, <1>8, <1>9, <1>10,
       <1>11, <1>12, <1>13, <1>14, <1>15, <1>16, <1>17 DEF StepAgent

(* Nor does DisableClient, or DeleteClient before its DELETE.              *)
LEMMA AdminBenign ==
  ASSUME TypeOK, RowInv, NEW r \in Slots,
         \/ DisableScanLink(r) \/ DisableDeletePeer(r) \/ ForgetPeer(r)
         \/ SetDisabled(r) \/ DeleteScanLink(r) \/ DeleteDeletePeer(r)
         \/ DeleteSetupKey(r) \/ ReadConnection(r) \/ UpdateRow(r)
         \/ ReadPrivateKey(r)
  PROVE  Benign
<1> USE DEF Benign, SameRows, dbVars, clientVars, keyVars, sideVars
<1> DEFINE c == req[r].client
<1>c. ~At(r, "idle") => c \in Clients
  BY DEF TypeOK, RequestsOK
<1>1. CASE DisableScanLink(r)
  BY <1>1 DEF DisableScanLink, Live
<1>2. CASE DisableDeletePeer(r)
  BY <1>2 DEF DisableDeletePeer, Live
<1>3. CASE DeleteScanLink(r)
  BY <1>3 DEF DeleteScanLink, Live
<1>4. CASE DeleteDeletePeer(r)
  BY <1>4 DEF DeleteDeletePeer, Live
<1>5. CASE DeleteSetupKey(r)
  BY <1>5 DEF DeleteSetupKey, Live
<1>6. CASE ReadConnection(r)
  BY <1>6 DEF ReadConnection, Live
<1>9. CASE UpdateRow(r) \/ ReadPrivateKey(r)
  BY <1>9 DEF UpdateRow, ReadPrivateKey, Live
<1>7. CASE ForgetPeer(r)
  <2>1. ASSUME NEW d \in Clients
        PROVE  link'[d].row = link[d].row /\ (link[d] = NoLink => link'[d] = NoLink)
    <3>1. \/ link'[d] = link[d]
          \/ d = c /\ Live(d) /\ link'[d] = NewLink
      BY <1>7, <1>c DEF ForgetPeer, At, TypeOK, RowsOK
    <3>2. Live(d) => link[d].row
      BY DEF RowInv, ClientIsComplete
    <3>3. link[d].row \in BOOLEAN
      BY DEF TypeOK, RowsOK, Links
    <3> QED BY <3>1, <3>2, <3>3, LinksOK
  <2> QED BY <2>1, <1>7 DEF ForgetPeer, Live
<1>8. CASE SetDisabled(r)
  <2>1. ASSUME NEW d \in Clients
        PROVE  /\ (status'[d] = "absent") = (status[d] = "absent")
               /\ Live(d)' = Live(d)
    BY <1>8, <1>c DEF SetDisabled, At, TypeOK, RowsOK, Live, Rows
  <2> QED BY <2>1, <1>8 DEF SetDisabled
<1> QED BY <1>1, <1>2, <1>3, <1>4, <1>5, <1>6, <1>7, <1>8, <1>9

---------------------------------------------------------------------------
(* The steps of the transactions: KeyInv.                                  *)

(* A request of CreateClient or RotateKey that goes on keeps its key pair. *)
LEMMA KeyMove ==
  ASSUME KeyInv, NEW r \in Slots, OthersStay(r), req[r].pc \in KeyPCs,
         req'[r].key = req[r].key, UNCHANGED <<active, generated>>
  PROVE  KeyInv'
BY DEF KeyInv, OthersStay

(* A commit hands the request's key over to the client.                    *)
LEMMA KeyCommit ==
  ASSUME TypeOK, KeyInv, NEW r \in Slots, Quiet(r), req[r].pc \in KeyPCs,
         NEW c \in Clients, NEW kept \in SUBSET active[c],
         active' = [active EXCEPT ![c] = kept \cup {req[r].key}],
         UNCHANGED generated
  PROVE  KeyInv'
<1>1. \A q \in Slots : req'[q].pc \in KeyPCs => q # r /\ req'[q] = req[q]
  BY DEF Quiet, OthersStay, TxPCs, KeyPCs, CreatePCs, RotatePCs
<1>2. \A d \in Clients :
        active'[d] = IF d = c THEN kept \cup {req[r].key} ELSE active[d]
  BY DEF TypeOK, RowsOK
<1>3. \A d \in Clients : req[r].key \notin active[d]
  BY DEF KeyInv
<1>4. \A q \in Slots : req'[q].pc \in KeyPCs =>
        /\ req'[q].key \in generated'
        /\ \A d \in Clients : req'[q].key \notin active'[d]
  BY <1>1, <1>2 DEF KeyInv
<1>5. \A q, t \in Slots : req'[q].pc \in KeyPCs /\ req'[t].pc \in KeyPCs /\ q # t
        => req'[q].key # req'[t].key
  BY <1>1 DEF KeyInv
<1>6. \A d \in Clients : active'[d] \subseteq generated'
  BY <1>2 DEF KeyInv
<1>7. \A d, e \in Clients : d # e => active'[d] \cap active'[e] = {}
  BY <1>2, <1>3 DEF KeyInv
<1> QED BY <1>4, <1>5, <1>6, <1>7 DEF KeyInv

(* Every step of CreateClient, RotateKey and the cascading DELETE leaves   *)
(* a key pair in one place.                                                *)
LEMMA KeyTx ==
  ASSUME TypeOK, KeyInv, NEW r \in Slots,
         \/ \E c \in Clients : StartCreateClient(r, c) \/ StartRotateKey(r, c)
         \/ CreateSetupKey(r) \/ CommitClient(r) \/ ReadName(r) \/ BeginDelete(r)
         \/ DeleteOldKeys(r) \/ InsertKey(r) \/ CommitRotation(r)
         \/ LockClient(r) \/ Cascade(r)
  PROVE  KeyInv'
<1> USE DEF dbVars, clientVars, keyVars, sideVars
<1>t. RequestsOK /\ (~At(r, "idle") => req[r].client \in Clients)
  BY DEF TypeOK, RequestsOK
<1>p. {"cc_commit", "rk_begin", "rk_commit", "dl_cascade"} \subseteq PCs
  BY DEF PCs
<1>1. CASE \E c \in Clients : StartCreateClient(r, c) \/ StartRotateKey(r, c)
  <2>1. PICK c \in Clients : StartCreateClient(r, c) \/ StartRotateKey(r, c)
    BY <1>1
  <2>2. /\ OthersStay(r) /\ req'[r].key \in Unused
        /\ generated' = generated \cup {req'[r].key} /\ UNCHANGED active
    BY <2>1, StartKeyOK DEF StartCreateClient, StartRotateKey
  <2> QED BY <2>2 DEF KeyInv, OthersStay, Unused
<1>2. CASE CreateSetupKey(r)
  <2>1. /\ UNCHANGED <<active, generated>> /\ At(r, "cc_setup") /\ ~At(r, "idle")
        /\ Goto(r, "cc_commit") \/ Quiet(r)
    BY <1>2, TxMoves DEF CreateSetupKey, At
  <2>2. Goto(r, "cc_commit") => OthersStay(r) /\ req'[r].key = req[r].key
    BY <2>1, <1>t, <1>p, GotoOK
  <2> QED BY <2>1, <2>2, KeyMove, KeyQuiet DEF At, KeyPCs, CreatePCs
<1>3. CASE CommitClient(r)
  <2> DEFINE c == req[r].client
  <2>1. /\ Quiet(r) /\ c \in Clients /\ req[r].pc \in KeyPCs /\ UNCHANGED generated
        /\ \/ active' = [active EXCEPT ![c] = {} \cup {req[r].key}]
           \/ UNCHANGED active
    BY <1>3, <1>t, TxMoves DEF CommitClient, At, KeyPCs, CreatePCs
  <2>2. {} \in SUBSET active[c]
    OBVIOUS
  <2> HIDE DEF c
  <2>3. CASE active' = [active EXCEPT ![c] = {} \cup {req[r].key}]
    BY <2>1, <2>2, <2>3, KeyCommit
  <2> QED BY <2>1, <2>3, KeyQuiet
<1>4. CASE ReadName(r)
  <2>1. /\ UNCHANGED <<active, generated>> /\ At(r, "rk_read") /\ ~At(r, "idle")
        /\ Goto(r, "rk_begin") \/ Quiet(r)
    BY <1>4, TxMoves DEF ReadName, At
  <2>2. Goto(r, "rk_begin") => OthersStay(r) /\ req'[r].key = req[r].key
    BY <2>1, <1>t, <1>p, GotoOK
  <2> QED BY <2>1, <2>2, KeyMove, KeyQuiet DEF At, KeyPCs, RotatePCs
<1>5. CASE BeginDelete(r)
  <2>1. UNCHANGED <<active, generated>> /\ At(r, "rk_begin")
    BY <1>5 DEF BeginDelete
  <2>2. Quiet(r) \/ (OthersStay(r) /\ req'[r].key = req[r].key)
    BY <1>5, BeginDeleteOK
  <2> QED BY <2>1, <2>2, KeyMove, KeyQuiet DEF At, KeyPCs, RotatePCs
<1>6. CASE DeleteOldKeys(r)
  <2>1. UNCHANGED <<active, generated>> /\ At(r, "rk_delete")
    BY <1>6 DEF DeleteOldKeys
  <2>2. OthersStay(r) /\ req'[r].key = req[r].key
    BY <1>6, DeleteOldKeysOK
  <2> QED BY <2>1, <2>2, KeyMove DEF At, KeyPCs, RotatePCs
<1>7. CASE InsertKey(r)
  <2>1. /\ UNCHANGED <<active, generated>> /\ At(r, "rk_insert") /\ ~At(r, "idle")
        /\ Goto(r, "rk_commit") \/ Quiet(r)
    BY <1>7, TxMoves DEF InsertKey, At
  <2>2. Goto(r, "rk_commit") => OthersStay(r) /\ req'[r].key = req[r].key
    BY <2>1, <1>t, <1>p, GotoOK
  <2> QED BY <2>1, <2>2, KeyMove, KeyQuiet DEF At, KeyPCs, RotatePCs
<1>8. CASE CommitRotation(r)
  <2> DEFINE c == req[r].client
  <2>1. /\ Quiet(r) /\ c \in Clients /\ req[r].pc \in KeyPCs /\ UNCHANGED generated
        /\ \/ active' = [active EXCEPT
                          ![c] = (active[c] \ req[r].doomed) \cup {req[r].key}]
           \/ UNCHANGED active
    BY <1>8, <1>t, TxMoves DEF CommitRotation, At, KeyPCs, RotatePCs
  <2>2. active[c] \ req[r].doomed \in SUBSET active[c]
    OBVIOUS
  <2> QED BY <2>1, <2>2, KeyCommit, KeyQuiet
<1>9. CASE LockClient(r)
  <2>1. /\ UNCHANGED <<active, generated>> /\ ~At(r, "idle")
        /\ Goto(r, "dl_cascade") \/ Quiet(r)
    BY <1>9, TxMoves DEF LockClient, At
  <2>2. Goto(r, "dl_cascade") => OthersStay(r) /\ req'[r].pc = "dl_cascade"
    BY <2>1, <1>t, <1>p, GotoOK
  <2>3. CASE OthersStay(r) /\ req'[r].pc = "dl_cascade"
    BY <2>1, <2>3 DEF KeyInv, OthersStay, KeyPCs, CreatePCs, RotatePCs
  <2> QED BY <2>1, <2>2, <2>3, KeyQuiet
<1>10. CASE Cascade(r)
  <2> DEFINE c == req[r].client
  <2>1. /\ Quiet(r) /\ c \in Clients /\ UNCHANGED generated
        /\ \A d \in Clients : active'[d] = active[d] \/ active'[d] = {}
    BY <1>10, <1>t, TxMoves DEF Cascade, At, TypeOK, RowsOK
  <2>2. \A q \in Slots : req'[q].pc \in KeyPCs => req'[q] = req[q]
    BY <2>1 DEF Quiet, OthersStay, TxPCs, KeyPCs, CreatePCs, RotatePCs
  <2> QED BY <2>1, <2>2 DEF KeyInv
<1> QED BY <1>1, <1>2, <1>3, <1>4, <1>5, <1>6, <1>7, <1>8, <1>9, <1>10

---------------------------------------------------------------------------
(* The steps of the transactions: RowInv.                                  *)

(* A request that goes on inside its transaction, no row having changed.   *)
LEMMA RowMove ==
  ASSUME TypeOK, RowInv, NEW r \in Slots, OthersStay(r),
         UNCHANGED <<status, token, link, active>>,
         req'[r].pc \notin {"cc_setup", "dl_cascade"},
         req'[r].pc = "cc_commit" => At(r, "cc_setup"),
         req'[r].pc = "rk_commit" =>
           Live(req[r].client) /\ ~RowLocked(req[r].client),
         req'[r].client = req[r].client
  PROVE  RowInv'
<1>1. ClientIsComplete'
  BY DEF RowInv, ClientIsComplete, Live
<1>2. \A q \in Slots : req'[q].client = req[q].client
        /\ (req'[q].pc \in CreatePCs => req[q].pc \in CreatePCs)
        /\ (At(q, "dl_cascade")' => At(q, "dl_cascade"))
        /\ (At(q, "rk_commit")' => Live(req[q].client) /\ ~RowLocked(req[q].client))
  BY DEF RowInv, OthersStay, CreatePCs, At
<1>3. \A c \in Clients \cup {NoClient} : RowLocked(c)' => RowLocked(c)
  BY <1>2 DEF RowLocked, Deleting
<1>4. \A q \in Slots : req[q].client \in Clients \cup {NoClient}
  BY DEF TypeOK, RequestsOK, Requests
<1> QED BY <1>1, <1>2, <1>3, <1>4 DEF RowInv, Live

(* Every step of those transactions leaves a client's rows together, and   *)
(* the locks of InsertKey and LockClient exclude each other.               *)
LEMMA RowTx ==
  ASSUME TypeOK, RowInv, SerialInv, NEW r \in Slots,
         \/ \E c \in Clients : StartCreateClient(r, c) \/ StartRotateKey(r, c)
         \/ CreateSetupKey(r) \/ CommitClient(r) \/ ReadName(r) \/ BeginDelete(r)
         \/ DeleteOldKeys(r) \/ InsertKey(r) \/ CommitRotation(r)
         \/ LockClient(r) \/ Cascade(r)
  PROVE  RowInv'
<1> USE DEF dbVars, clientVars, keyVars, sideVars
<1>t. RequestsOK /\ (~At(r, "idle") => req[r].client \in Clients)
  BY DEF TypeOK, RequestsOK
<1>p. {"cc_commit", "rk_begin", "rk_commit", "dl_cascade"} \subseteq PCs
  BY DEF PCs
<1>s. UNCHANGED <<status, token, link>> => SameRows
  BY DEF SameRows, Live
<1>1. CASE \E c \in Clients : StartCreateClient(r, c)
  <2>1. PICK c \in Clients : StartCreateClient(r, c)
    BY <1>1
  <2>2. /\ OthersStay(r) /\ req'[r].pc = "cc_setup" /\ req'[r].client = c
        /\ UNCHANGED <<status, token, link, active>> /\ status[c] = "absent"
        /\ \A q \in Slots : req[q].client # c
    BY <2>1, StartKeyOK DEF StartCreateClient
  <2>3. ClientIsComplete'
    BY <2>2 DEF RowInv, ClientIsComplete, Live
  <2>4. \A q \in Slots : q # r => req'[q] = req[q] /\ req'[q].client # c
    BY <2>2 DEF OthersStay
  <2>5. \A q \in Slots : q # r => (RowLocked(req[q].client)' => RowLocked(req[q].client))
    BY <2>2, <2>4 DEF RowLocked, Deleting, At
  <2> QED BY <2>2, <2>3, <2>4, <2>5 DEF RowInv, CreatePCs, Live, At
<1>2. CASE \E c \in Clients : StartRotateKey(r, c) /\ ~StartCreateClient(r, c)
  <2>1. PICK c \in Clients : StartRotateKey(r, c) /\ ~StartCreateClient(r, c)
    BY <1>2
  <2>2. /\ OthersStay(r) /\ req'[r].pc = "rk_read" /\ RequestsOK'
        /\ UNCHANGED <<status, token, link, active>>
    BY <2>1, StartKeyOK DEF StartRotateKey
  <2>3. ClientIsComplete'
    BY <2>2 DEF RowInv, ClientIsComplete, Live
  <2>5. \A q \in Slots : q # r => (RowLocked(req[q].client)' => RowLocked(req[q].client))
    BY <2>2 DEF RowLocked, Deleting, At, OthersStay
  <2> QED BY <2>2, <2>3, <2>5 DEF RowInv, CreatePCs, Live, At, OthersStay
<1>3. CASE CreateSetupKey(r)
  <2>1. /\ UNCHANGED <<status, token, link, active>> /\ ~At(r, "idle")
        /\ Goto(r, "cc_commit") \/ Quiet(r)
    BY <1>3, TxMoves DEF CreateSetupKey, At
  <2>2. Goto(r, "cc_commit") => /\ OthersStay(r) /\ req'[r].pc = "cc_commit"
                                /\ req'[r].client = req[r].client
    BY <2>1, <1>t, <1>p, GotoOK
  <2>3. At(r, "cc_setup")
    BY <1>3 DEF CreateSetupKey
  <2> QED BY <2>1, <2>2, <2>3, <1>s, RowMove, RowQuiet
<1>4. CASE CommitClient(r)
  <2> DEFINE c == req[r].client
  <2>1. Quiet(r) /\ c \in Clients /\ req[r].pc \in CreatePCs
    BY <1>4, <1>t, TxMoves DEF CommitClient, At, CreatePCs
  <2>2. CASE UNCHANGED <<status, token, link, active>>
    BY <2>1, <2>2, <1>s, RowQuiet
  <2>3. CASE /\ status' = [status EXCEPT ![c] = "pending"]
             /\ token' = [token EXCEPT ![c] = "unused"]
             /\ active' = [active EXCEPT ![c] = {req[r].key}]
             /\ link' = [link EXCEPT ![c] = NewLink]
    <3>1. \A d \in Clients :
            /\ d # c => /\ status'[d] = status[d] /\ token'[d] = token[d]
                        /\ active'[d] = active[d] /\ link'[d] = link[d]
            /\ d = c => /\ status'[d] = "pending" /\ token'[d] = "unused"
                        /\ active'[d] # {} /\ link'[d] = NewLink
      BY <2>3 DEF TypeOK, RowsOK
    <3>2. ClientIsComplete'
      BY <3>1, LinksOK DEF RowInv, ClientIsComplete, Live, Rows
    <3>3. status[c] = "absent"
      BY <2>1 DEF RowInv
    <3>4. \A q \in Slots : req'[q].pc \in TxPCs =>
            /\ q # r /\ req'[q] = req[q] /\ req[q].client \in Clients
      BY <2>1 DEF Quiet, OthersStay, TypeOK, RequestsOK, TxPCs, At
    <3>5. \A q \in Slots :
            req'[q].pc \in CreatePCs \/ At(q, "rk_commit")' \/ At(q, "dl_cascade")'
              => req'[q].pc \in TxPCs
      BY DEF TxPCs, CreatePCs, At
    <3>6. \A q \in Slots : req'[q].pc \in CreatePCs => req[q].client # c
      BY <2>1, <3>4, <3>5 DEF RowInv
    <3>7. \A d \in Clients : RowLocked(d)' => RowLocked(d)
      BY <3>4, <3>5 DEF RowLocked, Deleting, At
    <3>8. \A d \in Clients : Live(d) => Live(d)'
      BY <3>1, <3>3 DEF Live, Rows
    <3> QED BY <3>1, <3>2, <3>4, <3>5, <3>6, <3>7, <3>8 DEF RowInv, At
  <2> QED BY <2>2, <2>3, <1>4 DEF CommitClient
<1>5. CASE ReadName(r)
  <2>1. /\ UNCHANGED <<status, token, link, active>> /\ ~At(r, "idle")
        /\ Goto(r, "rk_begin") \/ Quiet(r)
    BY <1>5, TxMoves DEF ReadName, At
  <2>2. Goto(r, "rk_begin") => /\ OthersStay(r) /\ req'[r].pc = "rk_begin"
                               /\ req'[r].client = req[r].client
    BY <2>1, <1>t, <1>p, GotoOK
  <2> QED BY <2>1, <2>2, <1>s, RowMove, RowQuiet
<1>6. CASE BeginDelete(r)
  <2>1. UNCHANGED <<status, token, link, active>>
    BY <1>6 DEF BeginDelete
  <2>2. \/ Quiet(r)
        \/ /\ OthersStay(r) /\ req'[r].pc = "rk_delete"
           /\ req'[r].client = req[r].client
    BY <1>6, BeginDeleteOK
  <2> QED BY <2>1, <2>2, <1>s, RowMove, RowQuiet
<1>7. CASE DeleteOldKeys(r)
  <2>1. UNCHANGED <<status, token, link, active>>
    BY <1>7 DEF DeleteOldKeys
  <2>2. /\ OthersStay(r) /\ req'[r].pc = "rk_insert"
        /\ req'[r].client = req[r].client
    BY <1>7, DeleteOldKeysOK
  <2> QED BY <2>1, <2>2, RowMove
<1>8. CASE InsertKey(r)
  <2>1. /\ UNCHANGED <<status, token, link, active>> /\ ~At(r, "idle")
        /\ \/ Quiet(r)
           \/ /\ Goto(r, "rk_commit")
              /\ Live(req[r].client) /\ ~RowLocked(req[r].client)
    BY <1>8, TxMoves DEF InsertKey, At
  <2>2. Goto(r, "rk_commit") => /\ OthersStay(r) /\ req'[r].pc = "rk_commit"
                                /\ req'[r].client = req[r].client
    BY <2>1, <1>t, <1>p, GotoOK
  <2> QED BY <2>1, <2>2, <1>s, RowMove, RowQuiet
<1>9. CASE CommitRotation(r)
  <2> DEFINE c == req[r].client
  <2>1. Quiet(r) /\ c \in Clients /\ At(r, "rk_commit")
    BY <1>9, <1>t, TxMoves DEF CommitRotation, At
  <2>2. UNCHANGED <<status, token, link>>
    BY <1>9 DEF CommitRotation
  <2>3. CASE UNCHANGED active
    BY <2>1, <2>2, <2>3, <1>s, RowQuiet
  <2>4. CASE active' = [active EXCEPT ![c] = (active[c] \ req[r].doomed) \cup {req[r].key}]
    <3>1. Live(c)
      BY <2>1 DEF RowInv
    <3>2. \A d \in Clients : active'[d] = active[d] \/ (d = c /\ active'[d] # {})
      BY <2>4 DEF TypeOK, RowsOK
    <3>3. ClientIsComplete'
      BY <2>2, <3>1, <3>2 DEF RowInv, ClientIsComplete, Live
    <3>4. \A q \in Slots :
            req'[q].pc \in CreatePCs \/ At(q, "rk_commit")' \/ At(q, "dl_cascade")'
              => q # r /\ req'[q] = req[q]
      BY <2>1 DEF Quiet, OthersStay, TxPCs, CreatePCs, At
    <3>5. \A q \in Slots : RowLocked(req[q].client)' /\ req'[q] = req[q]
                            => RowLocked(req[q].client)
      BY <3>4 DEF RowLocked, Deleting, At
    <3> QED BY <2>2, <3>3, <3>4, <3>5 DEF RowInv, At, Live
  <2> QED BY <2>3, <2>4, <1>9 DEF CommitRotation
<1>10. CASE LockClient(r)
  <2> DEFINE c == req[r].client
  <2>1. /\ UNCHANGED <<status, token, link, active>> /\ ~At(r, "idle") /\ c \in Clients
        /\ \/ Quiet(r)
           \/ Goto(r, "dl_cascade") /\ Live(c) /\ ~RowLocked(c)
    BY <1>10, <1>t, TxMoves DEF LockClient, At
  <2>2. CASE Quiet(r)
    BY <2>1, <2>2, <1>s, RowQuiet
  <2>3. CASE Goto(r, "dl_cascade") /\ Live(c) /\ ~RowLocked(c) /\ ~Quiet(r)
    <3>1. /\ OthersStay(r) /\ req'[r].pc = "dl_cascade" /\ req'[r].client = c
      BY <2>1, <2>3, <1>t, <1>p, GotoOK
    <3>2. \A q \in Slots : ~(At(q, "rk_commit") /\ req[q].client = c)
      <4>1. ~Respond(r, 200) /\ ~Respond(r, 500)
        BY <2>1, <2>3, <1>t, RespondOK, Names
      <4> QED BY <4>1, <1>10 DEF LockClient
    <3>3. ClientIsComplete'
      BY <2>1 DEF RowInv, ClientIsComplete, Live
    <3>4. \A q \in Slots : q # r => req'[q] = req[q]
      BY <3>1 DEF OthersStay
    <3>5. \A q \in Slots : At(q, "rk_commit")' =>
            req'[q] = req[q] /\ Live(req[q].client)' /\ ~RowLocked(req[q].client)'
      BY <2>1, <3>1, <3>2, <3>4 DEF RowInv, RowLocked, Deleting, At, Live
    <3>6. \A q \in Slots : req'[q].pc \in CreatePCs => q # r /\ req[q].pc \in CreatePCs
      BY <3>1, <3>4 DEF CreatePCs
    <3>7. \A q \in Slots : At(q, "dl_cascade") => req[q].client # c
      BY <2>3 DEF RowLocked, Deleting
    <3>8. \A q, t \in Slots : At(q, "dl_cascade")' /\ At(t, "dl_cascade")'
            /\ req'[q].client = req'[t].client => q = t
      BY <3>1, <3>4, <3>7 DEF RowInv, At
    <3>9. \A q \in Slots : At(q, "dl_cascade")' => Live(req[q].client)'
      <4>1. /\ UNCHANGED status
            /\ \A q \in Slots : At(q, "dl_cascade") => Live(req[q].client)
        BY <2>1 DEF RowInv
      <4>2. \A d : Live(d) => Live(d)'
        BY <4>1 DEF Live
      <4>3. Live(req[r].client)'
        BY <2>3, <3>1, <4>1 DEF Live
      <4> QED BY <3>4, <4>1, <4>2, <4>3 DEF At
    <3>10. \A q, t \in Slots : req'[q].pc \in CreatePCs /\ req'[t].pc \in CreatePCs
             /\ req'[q].client = req'[t].client => q = t
      BY <3>4, <3>6 DEF RowInv
    <3>11. \A q \in Slots : req'[q].pc \in CreatePCs => status'[req'[q].client] = "absent"
      BY <2>1, <3>4, <3>6 DEF RowInv
    <3> QED BY <3>3, <3>5, <3>8, <3>9, <3>10, <3>11 DEF RowInv
  <2> QED BY <2>1, <2>2, <2>3
<1>11. CASE Cascade(r)
  <2> DEFINE c == req[r].client
  <2>1. Quiet(r) /\ c \in Clients /\ At(r, "dl_cascade")
    BY <1>11, <1>t, TxMoves DEF Cascade, At
  <2>2. CASE UNCHANGED <<status, token, link, active>>
    BY <2>1, <2>2, <1>s, RowQuiet
  <2>3. CASE /\ status' = [status EXCEPT ![c] = "deleted"]
             /\ token' = [token EXCEPT ![c] = "none"]
             /\ active' = [active EXCEPT ![c] = {}]
             /\ link' = [link EXCEPT ![c] = NoLink]
    <3>1. \A d \in Clients :
            /\ d # c => /\ status'[d] = status[d] /\ token'[d] = token[d]
                        /\ active'[d] = active[d] /\ link'[d] = link[d]
            /\ d = c => /\ status'[d] = "deleted" /\ token'[d] = "none"
                        /\ active'[d] = {} /\ link'[d] = NoLink
      BY <2>3 DEF TypeOK, RowsOK
    <3>2. ClientIsComplete'
      BY <3>1 DEF RowInv, ClientIsComplete, Live, Rows
    <3>3. Live(c) /\ RowLocked(c)
      BY <2>1 DEF RowInv, RowLocked, Deleting
    <3>4. \A q \in Slots : req'[q].pc \in TxPCs =>
            /\ q # r /\ req'[q] = req[q] /\ req[q].client \in Clients
      BY <2>1 DEF Quiet, OthersStay, TypeOK, RequestsOK, TxPCs, At
    <3>5. \A q \in Slots :
            req'[q].pc \in CreatePCs \/ At(q, "rk_commit")' \/ At(q, "dl_cascade")'
              => req'[q].pc \in TxPCs
      BY DEF TxPCs, CreatePCs, At
    <3>6. \A q \in Slots : req'[q].pc \in CreatePCs =>
            status'[req'[q].client] = "absent"
      BY <3>1, <3>3, <3>4, <3>5 DEF RowInv, Live, Rows
    <3>7. \A d \in Clients : RowLocked(d)' => RowLocked(d)
      BY <3>4, <3>5 DEF RowLocked, Deleting, At
    <3>8. \A q \in Slots : At(q, "rk_commit")' \/ At(q, "dl_cascade")' => req[q].client # c
      BY <2>1, <3>3, <3>4, <3>5 DEF RowInv, At
    <3>9. \A d \in Clients : d # c /\ Live(d) => Live(d)'
      BY <3>1 DEF Live
    <3> QED BY <3>2, <3>4, <3>5, <3>6, <3>7, <3>8, <3>9 DEF RowInv, At
  <2> QED BY <2>2, <2>3, <1>11 DEF Cascade
<1> QED BY <1>1, <1>2, <1>3, <1>4, <1>5, <1>6, <1>7, <1>8, <1>9, <1>10, <1>11
=============================================================================
