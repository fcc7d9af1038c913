------------------------------ MODULE Backend ------------------------------
(***************************************************************************)
(* The backend server: any number of requests of the administrators and of *)
(* the agents in flight together, the server process that may stop at any  *)
(* point, and the outside world it depends on (time, NetBird).  The agents *)
(* are the most general ones: a registered device may report anything.     *)
(***************************************************************************)
EXTENDS ClientAdmin, AgentApi

CONSTANT Served   \* the operations this instance serves
ASSUME ServedAssumption == Served \subseteq Ops

(* 24 hours after CreateClient: expires_at.                                *)
TokenExpires(c) ==
  /\ token[c] = "unused" /\ ~expired[c]
  /\ expired' = [expired EXCEPT ![c] = TRUE]
  /\ UNCHANGED <<status, token, keyVars, sideVars, req, faults>>

(* NetBird: the device joins the mesh with its one-off setup key.          *)
PeerJoins(c) ==
  /\ nb[c].setup = "valid"
  /\ nb' = [nb EXCEPT ![c].setup = "used", ![c].peer = TRUE]
  /\ UNCHANGED <<clientVars, keyVars, link, issued, req, faults>>

(* The server process stops: every request is lost, and the database rolls *)
(* the open transactions back.  It is started again by its supervisor.     *)
ServerCrash ==
  /\ \E r \in Slots : ~At(r, "idle")
  /\ req' = [r \in Slots |-> Idle]
  /\ UNCHANGED <<dbVars, faults>>

(* The caller has its response; the slot is free again.                    *)
Receive(r) ==
  /\ At(r, "done")
  /\ Put(r, Idle)
  /\ UNCHANGED <<dbVars, faults>>

(* `netbird status` gives any IP: one that NetBird does not list yet or any *)
(* more, or that of the peer by which the machine joined for a client      *)
(* before.                                                                 *)
StartHeartbeats(r, c) ==
  \E peer \in Peers, rotated, applied \in BOOLEAN :
    StartHeartbeat(r, c, peer, rotated, applied)

Start(r, c) ==
  \/ "create" \in Served /\ StartCreateClient(r, c)
  \/ "rotate" \in Served /\ StartRotateKey(r, c)
  \/ "disable" \in Served /\ StartDisableClient(r, c)
  \/ "delete" \in Served /\ StartDeleteClient(r, c)
  \/ "connection" \in Served /\ StartConnection(r, c)
  \/ "update" \in Served /\ StartUpdateClient(r, c)
  \/ "private" \in Served /\ StartPrivateKey(r, c)
  \/ "register" \in Served /\ StartRegister(r, c)
  \/ "heartbeat" \in Served /\ StartHeartbeats(r, c)

Serve(r) == StepAdmin(r) \/ StepAgent(r)

World(c) == TokenExpires(c) \/ PeerJoins(c)

Next ==
  \/ \E r \in Slots : (\E c \in Clients : Start(r, c)) \/ Serve(r) \/ Receive(r)
  \/ \E c \in Clients : World(c)
  \/ ServerCrash

Spec == Init /\ [][Next]_vars

(* net/http runs every accepted request to its end: the SQL statements and *)
(* the NetBird calls all return (15 s timeout on the latter).              *)
Fairness == \A r \in Slots : WF_vars(Serve(r))
FairSpec == Spec /\ Fairness

---------------------------------------------------------------------------
(* Safety.                                                                 *)

(* CreateClient, RotateKey and DeleteClient keep a client's rows together: *)
(* whatever crashes, fails or interleaves, a client has its token, its     *)
(* NetBird link and at least one SSH key, and no row outlives the client.  *)
ClientIsComplete ==
  \A c \in Clients :
    IF Live(c) THEN token[c] # "none" /\ link[c].row /\ active[c] # {}
               ELSE token[c] = "none" /\ link[c] = NoLink /\ active[c] = {}

(* RotateKey leaves exactly one key as long as no two rotations of the     *)
(* client have ever been open together.                                    *)
SerialRotationsKeepOneKey ==
  \A c \in Clients \ overlap : \A j, k \in active[c] : j = k

(* A key pair belongs to one client, and a pair no transaction has         *)
(* committed yet is in no row.                                             *)
KeysNotShared ==
  /\ \A c, d \in Clients : c # d => active[c] \cap active[d] = {}
  /\ \A r \in Slots, c \in Clients :
       req[r].pc \in {"cc_setup", "cc_commit", "rk_read", "rk_begin",
                      "rk_delete", "rk_insert", "rk_commit"}
         => req[r].key \notin active[c]

(* AgentHeartbeat reads "is a rotation pending" and the key to push in two *)
(* statements, AgentRegister the token and the key in several: the agent   *)
(* still never gets an empty key, unless a read failed or the client was   *)
(* deleted meanwhile.                                                      *)
AnswersCarryKey ==
  \A r \in Slots :
    LET q == req[r] IN
    /\ At(r, "done") /\ q.code = 200 /\ status[q.client] # "deleted" /\ faults = 0
    /\ q.op = "register" \/ (q.op = "heartbeat" /\ q.rotate)
    => q.key # NoKey

(* The peer on record for a client, as NetBird lists it.                   *)
Listed(c) == link[c].peer # NoClient /\ nb[link[c].peer].peer

(* The database says that NetBird's SSH server is enabled for a client's   *)
(* peer only when it is: AgentHeartbeat records ssh_enabled after          *)
(* EnableSSH, once.                                                        *)
EnabledMeansNbSsh ==
  \A c \in Clients : link[c].enabled /\ Listed(c) => nb[link[c].peer].ssh

(* Disabling and deleting a client cut its access: a client that has been  *)
(* disabled with an answer of 200, and whose row is about to be deleted,   *)
(* nothing having failed, is not to be reached by SSH over the mesh.       *)
(* DisableClient and DeleteClient each promise to remove the peer on       *)
(* record.                                                                 *)
Reachable(c) == Listed(c) /\ nb[link[c].peer].ssh
WithdrawalCutsAccess ==
  \A q, r \in Slots :
    /\ At(q, "done") /\ req[q].op = "disable" /\ req[q].code = 200
    /\ At(r, "dl_cascade") /\ req[r].client = req[q].client /\ faults = 0
    => ~Reachable(req[r].client)

(* A one-time setup token yields one agent token, unless the statement     *)
(* that marks it used failed.                                              *)
OneTimeToken == \A c \in Clients : faults = 0 => issued[c] <= 1

(* At most one key is active: RotateKey permanently deletes the others.    *)
SingleActiveKey == \A c \in Clients : \A j, k \in active[c] : j = k

---------------------------------------------------------------------------
(* Action properties.                                                      *)

(* A disabled client whose token is spent, and for which no request that   *)
(* may still write the old status is in flight, stays disabled until it is *)
(* deleted, whatever its device goes on sending.                           *)
WritesOnline(r, c) ==
  /\ req[r].client = c
  /\ \/ req[r].pc \in {"rg_used", "rg_online"}
     \/ /\ req[r].pc \in {"hb_peer", "hb_enabled", "hb_nbssh", "hb_record",
                          "hb_applied", "hb_ack", "hb_online"}
        /\ req[r].seen # "disabled"
Settled(c) ==
  /\ status[c] = "disabled" /\ token[c] = "used"
  /\ \A r \in Slots : ~WritesOnline(r, c)
DisableSticks ==
  [][\A c \in Clients : Settled(c) => Settled(c)' \/ status'[c] = "deleted"]_vars

(* DisableClient forgets the peer's IP only when NetBird has removed the   *)
(* peer: a peer that could not be removed stays on record, unless it is    *)
(* another one, which a heartbeat has put there while the disable was with *)
(* NetBird: its UPDATE clears that one, too.                               *)
Swapped(c) ==
  \E r \in Slots : /\ At(r, "di_forget") /\ req[r].client = c
                   /\ req[r].peer # link[c].peer
PeerForgottenOnlyIfRemoved ==
  [][\A c \in Clients :
       Listed(c) /\ link'[c].row => link'[c].peer # NoClient \/ Swapped(c)]_vars

---------------------------------------------------------------------------
(* Liveness.                                                               *)

(* Every request is answered (or lost in a crash): a rotation and a delete *)
(* of the same client that wait for each other's locks do not wait forever.*)
RequestsFinish ==
  \A r \in Slots : ~At(r, "idle") ~> (At(r, "done") \/ At(r, "idle"))
=============================================================================
