---------------------------- MODULE ClientAdmin ----------------------------
(***************************************************************************)
(* The handlers behind the dashboard's buttons: create a client, edit it,  *)
(* rotate its SSH key, disable it, delete it, and read its connection info *)
(* or its private key.                                                     *)
(***************************************************************************)
EXTENDS BackendState

Unused == Keys \ generated

---------------------------------------------------------------------------
(* CreateClient.  Everything before the NetBird call is private to the     *)
(* transaction: the rows appear at the commit, or never.                   *)

StartCreateClient(r, c) ==
  /\ status[c] = "absent" /\ nb[c].setup = "none"
  /\ \A q \in Slots : req[q].client # c
  /\ \E k \in Unused :
       /\ generated' = generated \cup {k}
       /\ At(r, "idle")
       /\ Put(r, [Idle EXCEPT !.op = "create", !.pc = "cc_setup",
                              !.client = c, !.key = k])
  /\ UNCHANGED <<clientVars, active, acked, overlap, sideVars, faults>>

CreateSetupKey(r) ==
  /\ At(r, "cc_setup")
  /\ \/ /\ nb' = [nb EXCEPT ![req[r].client].setup = "valid"]
        /\ Goto(r, "cc_commit")
        /\ UNCHANGED faults
     \/ /\ Fault
        /\ Respond(r, 502)
        /\ UNCHANGED nb
  /\ UNCHANGED <<clientVars, keyVars, link, issued>>

CommitClient(r) ==
  LET c == req[r].client IN
  /\ At(r, "cc_commit")
  /\ \/ /\ status' = [status EXCEPT ![c] = "pending"]
        /\ token' = [token EXCEPT ![c] = "unused"]
        /\ active' = [active EXCEPT ![c] = {req[r].key}]
        /\ acked' = acked \cup {req[r].key}
        /\ link' = [link EXCEPT ![c] = NewLink]
        /\ Respond(r, 201)
        /\ UNCHANGED faults
     \/ /\ Fault
        /\ Respond(r, 500)
        /\ UNCHANGED <<status, token, active, acked, link>>
  /\ UNCHANGED <<expired, generated, overlap, nb, issued>>

---------------------------------------------------------------------------
(* RotateKey.  DELETE and INSERT run in one READ COMMITTED transaction.    *)
(* The DELETE sees the rows committed when it starts, waits for the locks  *)
(* of those another open transaction has deleted, and skips the ones that  *)
(* are gone when it gets the lock.  Rows committed since are not in view.  *)

Rotating(r, c) ==
  req[r].client = c /\ req[r].pc \in {"rk_delete", "rk_insert", "rk_commit"}

StartRotateKey(r, c) ==
  /\ status[c] # "absent"
  /\ \E k \in Unused :
       /\ generated' = generated \cup {k}
       /\ At(r, "idle")
       /\ Put(r, [Idle EXCEPT !.op = "rotate", !.pc = "rk_read",
                              !.client = c, !.key = k])
  /\ UNCHANGED <<clientVars, active, acked, overlap, sideVars, faults>>

ReadName(r) ==
  /\ At(r, "rk_read")
  /\ \E ok \in BOOLEAN :
       /\ Got(ok)
       /\ IF ok /\ Live(req[r].client) THEN Goto(r, "rk_begin") ELSE Respond(r, 404)
  /\ UNCHANGED dbVars

BeginDelete(r) ==
  LET c == req[r].client IN
  /\ At(r, "rk_begin")
  /\ \/ /\ Put(r, [req[r] EXCEPT !.pc = "rk_delete", !.snap = active[c]])
        /\ overlap' = IF \E q \in Slots : Rotating(q, c)
                        THEN overlap \cup {c} ELSE overlap
        /\ UNCHANGED faults
     \/ /\ Fault
        /\ Respond(r, 500)
        /\ UNCHANGED overlap
  /\ UNCHANGED <<clientVars, active, acked, generated, sideVars>>

(* Mutants: the DELETE runs outside of the transaction; it deletes only    *)
(* keys the machine has confirmed.                                         *)
DeleteOldKeysAtOnce(r) ==
  LET c == req[r].client IN
  /\ At(r, "rk_delete")
  /\ Goto(r, "rk_insert")
  /\ active' = [active EXCEPT ![c] = @ \ req[r].snap]
  /\ UNCHANGED <<clientVars, acked, generated, overlap, sideVars, faults>>

DeleteAckedKeys(r) ==
  LET c == req[r].client IN
  /\ At(r, "rk_delete")
  /\ Put(r, [req[r] EXCEPT !.pc = "rk_insert",
                           !.doomed = req[r].snap \cap active[c] \cap acked])
  /\ UNCHANGED <<dbVars, faults>>

DeleteOldKeys(r) ==
  LET c == req[r].client IN
  /\ At(r, "rk_delete")
  /\ \A q \in Slots : Rotating(q, c) => req[r].snap \cap req[q].doomed = {}
  /\ Put(r, [req[r] EXCEPT !.pc = "rk_insert",
                           !.doomed = req[r].snap \cap active[c]])
  /\ UNCHANGED <<dbVars, faults>>

(* The foreign key makes the INSERT wait for a DELETE of the client's row. *)
(* The two can wait for each other; PostgreSQL then fails one of them.     *)
Deleting(q, c) == At(q, "dl_cascade") /\ req[q].client = c
(* Mutant: a DELETE waits for its own lock.                                *)
RowLockedBySelf(c) ==
  \E q \in Slots : req[q].client = c /\ req[q].pc \in {"dl_lock", "dl_cascade"}

RowLocked(c) == \E q \in Slots : Deleting(q, c)

InsertKey(r) ==
  LET c == req[r].client IN
  /\ At(r, "rk_insert")
  /\ \/ /\ ~RowLocked(c)
        /\ IF Live(c) THEN Goto(r, "rk_commit") ELSE Respond(r, 500)
        /\ UNCHANGED faults
     \/ /\ RowLocked(c) /\ req[r].doomed # {}
        /\ Respond(r, 500)
        /\ UNCHANGED faults
     \/ /\ Fault
        /\ Respond(r, 500)
  /\ UNCHANGED dbVars

CommitRotation(r) ==
  LET c == req[r].client IN
  /\ At(r, "rk_commit")
  /\ \/ /\ active' = [active EXCEPT
                        ![c] = (active[c] \ req[r].doomed) \cup {req[r].key}]
        /\ acked' = acked \ req[r].doomed
        /\ Respond(r, 200)
        /\ UNCHANGED faults
     \/ /\ Fault
        /\ Respond(r, 500)
        /\ UNCHANGED <<active, acked>>
  /\ UNCHANGED <<clientVars, generated, overlap, sideVars>>

---------------------------------------------------------------------------
(* NetBird: DeletePeer resolves the peer's IP first, and reports an error  *)
(* when the API fails and when it lists no peer with that IP.              *)

PeerDeleted(d) ==
  /\ nb[d].peer
  /\ nb' = [nb EXCEPT ![d].peer = FALSE, ![d].ssh = FALSE]
  /\ UNCHANGED faults

PeerNotDeleted(d) ==
  /\ \/ ~nb[d].peer /\ UNCHANGED faults
     \/ Fault
  /\ UNCHANGED nb

---------------------------------------------------------------------------
(* DisableClient.                                                          *)

StartDisableClient(r, c) ==
  /\ status[c] # "absent"
  /\ Begin(r, "disable", "di_scan", c)
  /\ UNCHANGED <<dbVars, faults>>

DisableScanLink(r) ==
  /\ At(r, "di_scan")
  /\ \E ok \in BOOLEAN :
       LET known == IF ok THEN ScanLink(req[r].client).peer ELSE NoClient IN
       /\ Got(ok)
       /\ Put(r, [req[r] EXCEPT !.peer = known, !.pc = IF known # NoClient
                                                      THEN "di_peer" ELSE "di_status"])
  /\ UNCHANGED dbVars

(* Mutant: the error of DeletePeer is ignored.                             *)
DisableIgnoresError(r) ==
  /\ At(r, "di_peer")
  /\ PeerDeleted(req[r].peer) \/ PeerNotDeleted(req[r].peer)
  /\ Goto(r, "di_forget")
  /\ UNCHANGED <<clientVars, keyVars, link, issued>>

DisableDeletePeer(r) ==
  /\ At(r, "di_peer")
  /\ \/ PeerDeleted(req[r].peer) /\ Goto(r, "di_forget")
     \/ PeerNotDeleted(req[r].peer) /\ Goto(r, "di_status")
  /\ UNCHANGED <<clientVars, keyVars, link, issued>>

(* The UPDATE clears whatever IP is on record by now.                      *)
ForgetPeer(r) ==
  LET c == req[r].client IN
  /\ At(r, "di_forget")
  /\ \/ /\ link' = [link EXCEPT ![c] = IF Live(c) THEN NewLink ELSE @]
        /\ UNCHANGED faults
     \/ Fault /\ UNCHANGED link
  /\ Goto(r, "di_status")
  /\ UNCHANGED <<clientVars, keyVars, nb, issued>>

SetDisabled(r) ==
  LET c == req[r].client IN
  /\ At(r, "di_status")
  /\ \/ /\ status' = [status EXCEPT ![c] = IF Live(c) THEN "disabled" ELSE @]
        /\ Respond(r, 200)
        /\ UNCHANGED faults
     \/ /\ Fault
        /\ Respond(r, 500)
        /\ UNCHANGED status
  /\ UNCHANGED <<token, expired, keyVars, sideVars>>

---------------------------------------------------------------------------
(* DeleteClient.  The cascade deletes the rows of every other table.       *)

StartDeleteClient(r, c) ==
  /\ status[c] # "absent"
  /\ Begin(r, "delete", "dl_scan", c)
  /\ UNCHANGED <<dbVars, faults>>

DeleteScanLink(r) ==
  LET nbl == ScanLink(req[r].client) IN
  /\ At(r, "dl_scan")
  /\ \E ok \in BOOLEAN :
       /\ Got(ok)
       /\ Put(r, [req[r] EXCEPT !.peer = IF ok THEN nbl.peer ELSE NoClient,
                                !.setup = ok /\ nbl.setup, !.pc = "dl_peer"])
  /\ UNCHANGED dbVars

DeleteDeletePeer(r) ==
  LET d == req[r].peer IN
  /\ At(r, "dl_peer")
  /\ IF d # NoClient THEN PeerDeleted(d) \/ PeerNotDeleted(d)
                     ELSE UNCHANGED <<nb, faults>>
  /\ Goto(r, "dl_setup")
  /\ UNCHANGED <<clientVars, keyVars, link, issued>>

DeleteSetupKey(r) ==
  LET c == req[r].client IN
  /\ At(r, "dl_setup")
  /\ \/ /\ nb' = [nb EXCEPT ![c].setup = IF req[r].setup THEN "deleted" ELSE @]
        /\ UNCHANGED faults
     \/ req[r].setup /\ Fault /\ UNCHANGED nb
  /\ Goto(r, "dl_lock")
  /\ UNCHANGED <<clientVars, keyVars, link, issued>>

(* Mutant: the DELETE does not wait for the rows that refer to the client. *)
LockClientAtOnce(r) ==
  LET c == req[r].client IN
  /\ At(r, "dl_lock")
  /\ IF Live(c) THEN Goto(r, "dl_cascade") ELSE Respond(r, 200)
  /\ UNCHANGED <<dbVars, faults>>

(* DELETE FROM clients: locks the row, waiting for a transaction that has  *)
(* inserted a row which refers to it, then cascades to the other tables,   *)
(* waiting for a transaction that holds a lock there.                      *)
LockClient(r) ==
  LET c == req[r].client IN
  /\ At(r, "dl_lock")
  /\ \/ /\ ~RowLocked(c)
        /\ \A q \in Slots : ~(At(q, "rk_commit") /\ req[q].client = c)
        /\ IF Live(c) THEN Goto(r, "dl_cascade") ELSE Respond(r, 200)
        /\ UNCHANGED faults
     \/ Fault /\ Respond(r, 500)
  /\ UNCHANGED dbVars

HoldsKeyOf(q, c) == Rotating(q, c) /\ req[q].doomed # {}

Cascade(r) ==
  LET c == req[r].client IN
  /\ At(r, "dl_cascade")
  /\ \/ /\ \A q \in Slots : ~HoldsKeyOf(q, c)
        /\ status' = [status EXCEPT ![c] = "deleted"]
        /\ token' = [token EXCEPT ![c] = "none"]
        /\ active' = [active EXCEPT ![c] = {}]
        /\ acked' = acked \ active[c]
        /\ link' = [link EXCEPT ![c] = NoLink]
        /\ Respond(r, 200)
     \/ /\ \E q \in Slots : At(q, "rk_insert") /\ HoldsKeyOf(q, c)
        /\ Respond(r, 500)
        /\ UNCHANGED <<status, token, active, acked, link>>
  /\ UNCHANGED <<expired, generated, overlap, nb, issued, faults>>

---------------------------------------------------------------------------
(* Connection: four reads that other requests may come between.  Only the  *)
(* error of the first is looked at.                                        *)

StartConnection(r, c) ==
  /\ status[c] # "absent"
  /\ Begin(r, "connection", "cn_client", c)
  /\ UNCHANGED <<dbVars, faults>>

ReadConnection(r) ==
  LET c == req[r].client IN
  /\ \E ok \in BOOLEAN :
       /\ Got(ok)
       /\ \/ /\ At(r, "cn_client")
             /\ IF ok /\ Live(c) THEN Goto(r, "cn_link") ELSE Respond(r, 404)
          \/ /\ At(r, "cn_link")
             /\ Put(r, [req[r] EXCEPT !.pc = "cn_pub",
                          !.peer = IF ok THEN ScanLink(c).peer ELSE NoClient])
          \/ /\ At(r, "cn_pub")
             /\ \E k \in ReadKey(c, ok) :
                  Put(r, [req[r] EXCEPT !.key = k, !.pc = "cn_priv"])
          \/ /\ At(r, "cn_priv")
             /\ \E k \in ReadKey(c, ok) :
                  Put(r, [req[r] EXCEPT !.priv = k, !.pc = "done", !.code = 200])
  /\ UNCHANGED dbVars

---------------------------------------------------------------------------
(* UpdateClient: the UPDATE of the row (whose fields are abstracted) waits *)
(* for a DELETE of it.  PrivateKey: the key read is the key disclosed, if  *)
(* the master key decrypts it.                                             *)

StartUpdateClient(r, c) ==
  /\ status[c] # "absent"
  /\ Begin(r, "update", "up_row", c)
  /\ UNCHANGED <<dbVars, faults>>

UpdateRow(r) ==
  LET c == req[r].client IN
  /\ At(r, "up_row")
  /\ \/ ~RowLocked(c) /\ Respond(r, IF Live(c) THEN 200 ELSE 404) /\ UNCHANGED faults
     \/ Fault /\ Respond(r, 500)
  /\ UNCHANGED dbVars

StartPrivateKey(r, c) ==
  /\ status[c] # "absent"
  /\ Begin(r, "private", "pk_key", c)
  /\ UNCHANGED <<dbVars, faults>>

ReadPrivateKey(r) ==
  /\ At(r, "pk_key")
  /\ \/ \E ok \in BOOLEAN : \E k \in ReadKey(req[r].client, ok) :
          /\ Got(ok)
          /\ IF k = NoKey THEN Respond(r, 404)
             ELSE Put(r, [req[r] EXCEPT !.priv = k, !.pc = "done", !.code = 200])
     \/ active[req[r].client] # {} /\ Fault /\ Respond(r, 500)
  /\ UNCHANGED dbVars

---------------------------------------------------------------------------
StepAdmin(r) ==
  \/ CreateSetupKey(r) \/ CommitClient(r)
  \/ ReadName(r) \/ BeginDelete(r) \/ DeleteOldKeys(r)
  \/ InsertKey(r) \/ CommitRotation(r)
  \/ DisableScanLink(r) \/ DisableDeletePeer(r) \/ ForgetPeer(r)
  \/ SetDisabled(r)
  \/ DeleteScanLink(r) \/ DeleteDeletePeer(r) \/ DeleteSetupKey(r)
  \/ LockClient(r) \/ Cascade(r)
  \/ ReadConnection(r) \/ UpdateRow(r) \/ ReadPrivateKey(r)
=============================================================================
