----------------------------- MODULE BackendInv -----------------------------
(***************************************************************************)
(* The inductive invariants behind the safety properties of Backend.  None *)
(* of them is inductive alone: that a client keeps its rows together rests *)
(* on the locks (a rotation that has inserted its key keeps the client's   *)
(* row from being deleted), and that a rotation leaves one key rests on    *)
(* what its DELETE has in view.                                            *)
(***************************************************************************)
EXTENDS Backend

CreatePCs == {"cc_setup", "cc_commit"}
RotatePCs == {"rk_read", "rk_begin", "rk_delete", "rk_insert", "rk_commit"}
KeyPCs == CreatePCs \cup RotatePCs

(* A key pair is in one place: with the request that generated it, or in   *)
(* the rows of one client.                                                 *)
KeyInv ==
  /\ \A r \in Slots : req[r].pc \in KeyPCs =>
       req[r].key \in generated /\ \A c \in Clients : req[r].key \notin active[c]
  /\ \A q, r \in Slots :
       req[q].pc \in KeyPCs /\ req[r].pc \in KeyPCs /\ q # r
         => req[q].key # req[r].key
  /\ \A c \in Clients : active[c] \subseteq generated
  /\ \A c, d \in Clients : c # d => active[c] \cap active[d] = {}

(* The rows, and the locks that keep them together.                        *)
RowInv ==
  /\ ClientIsComplete
  /\ \A r \in Slots : req[r].pc \in CreatePCs => status[req[r].client] = "absent"
  /\ \A q, r \in Slots : req[q].pc \in CreatePCs /\ req[r].pc \in CreatePCs
       /\ req[q].client = req[r].client => q = r
  /\ \A r \in Slots : At(r, "rk_commit") =>
       Live(req[r].client) /\ ~RowLocked(req[r].client)
  /\ \A r \in Slots : At(r, "dl_cascade") => Live(req[r].client)
  /\ \A q, r \in Slots : At(q, "dl_cascade") /\ At(r, "dl_cascade")
       /\ req[q].client = req[r].client => q = r

(* A client whose rotations never overlapped.                              *)
SerialInv ==
  /\ \A r \in Slots : req[r].pc \in RotatePCs => status[req[r].client] # "absent"
  /\ \A c \in Clients \ overlap :
       /\ \A j, k \in active[c] : j = k
       /\ \A q, r \in Slots : Rotating(q, c) /\ Rotating(r, c) => q = r
       /\ \A r \in Slots : Rotating(r, c) =>
            active[c] \subseteq IF At(r, "rk_delete") THEN req[r].snap
                                                     ELSE req[r].doomed

IInv == TypeOK /\ KeyInv /\ RowInv /\ SerialInv

---------------------------------------------------------------------------
(* What the statements about NetBird rest on.                              *)

RegisterPCs == {"rg_token", "rg_used", "rg_online", "rg_setup", "rg_key"}
EnablePCs == {"hb_peer", "hb_enabled", "hb_nbssh", "hb_record"}
BeatPCs == EnablePCs \cup {"hb_applied", "hb_ack", "hb_online"}

(* The peer that a device once had is gone for good: no device joins with  *)
(* its setup key any more.                                                 *)
JoinedOnce(c) == nb[c].setup \notin {"none", "valid"}
Gone(c) == JoinedOnce(c) /\ ~nb[c].peer

(* A setup key is made once, for a client that no other request is about   *)
(* yet, and a peer joins with it once: a peer that NetBird has removed for *)
(* a disable does not come back before its IP is forgotten.                *)
PeerPCs == EnablePCs \cup {"di_peer", "di_forget"}
CleanPCs == {"dl_scan", "dl_peer", "dl_setup"}
PeerInv ==
  /\ \A c \in Clients : nb[c].peer => JoinedOnce(c)
  /\ \A r \in Slots : At(r, "cc_setup") => nb[req[r].client].setup = "none"
  /\ \A r \in Slots : req[r].pc \in CleanPCs => status[req[r].client] # "absent"
  /\ \A r \in Slots : req[r].pc \in PeerPCs => req[r].peer \in Clients
  /\ \A r \in Slots : At(r, "di_forget") => Gone(req[r].peer)

---------------------------------------------------------------------------
(* What the answers of the handlers rest on.                               *)

DisablePCs == {"di_scan", "di_peer", "di_forget", "di_status"}
DeletePCs == {"dl_scan", "dl_peer", "dl_setup", "dl_lock", "dl_cascade"}
ConnectionPCs == {"cn_client", "cn_link", "cn_pub", "cn_priv"}
ReplyPCs == {"hb_ssh", "hb_reply"}
UnreadPCs == {"hb_read", "hb_pending", "hb_pub"} \cup BeatPCs

OpOf(p) ==
  CASE p \in CreatePCs -> "create"
    [] p \in RotatePCs -> "rotate"
    [] p \in DisablePCs -> "disable"
    [] p \in DeletePCs -> "delete"
    [] p \in ConnectionPCs -> "connection"
    [] p = "up_row" -> "update"
    [] p = "pk_key" -> "private"
    [] p \in RegisterPCs -> "register"
    [] p \in UnreadPCs \cup ReplyPCs -> "heartbeat"
    [] OTHER -> "none"

(* A request is in the handler of its route, for a client that exists or   *)
(* existed; a heartbeat has no key before it reads the one to push.        *)
RouteInv ==
  /\ \A r \in Slots : req[r].pc \notin {"idle", "done"} => req[r].op = OpOf(req[r].pc)
  /\ \A r \in Slots : ~At(r, "idle") /\ req[r].op # "create" =>
       status[req[r].client] # "absent"
  /\ \A r \in Slots : req[r].pc \in UnreadPCs => req[r].key = NoKey
  /\ \A r \in Slots : At(r, "hb_pub") => req[r].rotate

(* An agent has a token only of a client that exists or existed.           *)
KnownInv == \A c \in Clients : issued[c] > 0 => status[c] # "absent"

(* What a rotation has deleted stays in its client's rows, and belongs to  *)
(* it alone, until it ends; a confirmed key is in a row.                   *)
HoldPCs == {"rk_insert", "rk_commit"}
LockInv ==
  /\ \A r \in Slots : req[r].pc \in HoldPCs =>
       req[r].doomed \subseteq active[req[r].client]
  /\ \A q, r \in Slots : req[q].pc \in HoldPCs /\ req[r].pc \in HoldPCs /\ q # r
       => req[q].doomed \cap req[r].doomed = {}
  /\ \A k \in acked : \E c \in Clients : k \in active[c]

(* As long as nothing has failed, a request that has read the key to push  *)
(* has one, if its client has not been deleted since.                      *)
Carries(q) ==
  \/ q.op = "heartbeat" /\ q.rotate /\ q.pc \in ReplyPCs \cup {"done"}
  \/ q.op = "register" /\ q.pc = "done" /\ q.code = 200
CarryInv ==
  faults = 0 =>
    \A r \in Slots :
      Carries(req[r]) => req[r].key # NoKey \/ status[req[r].client] = "deleted"

RequestInv == KnownInv /\ RouteInv /\ LockInv /\ CarryInv

---------------------------------------------------------------------------
(* What holds as long as certain requests do not meet.                     *)

(* No two registrations of one client are in flight together.              *)
OneRegistration ==
  \A q, r \in Slots :
    /\ {req[q].pc, req[r].pc} \subseteq RegisterPCs
    /\ req[q].client = req[r].client
    => q = r

(* A token that was redeemed is used; a registration that has found its    *)
(* token unused is the first one.                                          *)
TokenInv ==
  faults = 0 =>
    /\ \A c \in Clients :
         issued[c] <= 1 /\ (issued[c] > 0 => token[c] # "unused")
    /\ \A r \in Slots : At(r, "rg_used") => issued[req[r].client] = 0
    /\ \A r \in Slots : req[r].pc \in {"rg_online", "rg_setup", "rg_key"} =>
         issued[req[r].client] = 0 /\ token[req[r].client] # "unused"
=============================================================================
