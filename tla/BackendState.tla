---------------------------- MODULE BackendState ----------------------------
(***************************************************************************)
(* What the handlers of the backend share: the rows of the PostgreSQL      *)
(* database, the objects the handlers own in the NetBird management API,   *)
(* and the requests being served.                                          *)
(*                                                                         *)
(* A request is a goroutine of net/http.  It occupies a slot and keeps its *)
(* local variables there; every SQL statement and every NetBird call is    *)
(* one step, so the steps of two requests interleave as the database lets  *)
(* them.  Statements outside a transaction commit by themselves; the open  *)
(* transactions of CreateClient, RotateKey and of the cascading DELETE are *)
(* kept in their slots until they commit (READ COMMITTED).                 *)
(***************************************************************************)
EXTENDS Naturals

CONSTANTS
  Clients,    \* client ids: one per row CreateClient may ever insert
  Keys,       \* key pairs generateKeypair may return, each one once
  Slots,      \* requests that can be in flight at the same time
  NoClient, NoKey,
  Fields,     \* the columns the Go struct NetbirdLink has a field for
  MaxFaults   \* bound on the failures of statements and of NetBird calls

(* The columns of the table netbird_links after all migrations, and the    *)
(* columns models.NetbirdLink can receive.                                 *)
LinkColumns == {"client_id", "peer_id", "setup_key_ref", "group_id",
                "created_at", "setup_key_full", "ssh_enabled", "ssh_applied"}
NetbirdLinkFields == {"client_id", "peer_id", "setup_key_ref",
                      "setup_key_full", "group_id", "created_at"}

ASSUME ConstantsAssumption ==
  /\ NoClient \notin Clients
  /\ NoKey \notin Keys
  /\ Fields \subseteq LinkColumns
  /\ MaxFaults \in Nat

VARIABLES
  status,     \* clients.status, or "absent" / "deleted" when there is no row
  token,      \* the client's setup_tokens row: "none", "unused" or "used"
  expired,    \* the client's token is past expires_at and still unused
  active,     \* public keys of the client's ssh_keys rows (all are active)
  acked,      \* keys whose row has rotated_at set
  generated,  \* keys handed out by generateKeypair so far
  link,       \* the client's netbird_links row
  nb,         \* NetBird: the client's setup key and the peer it brought
  req,        \* the requests in flight
  faults,     \* failures so far
  issued,     \* history: agent tokens issued for the client
  overlap     \* history: clients whose rotations were once open together

Rows == {"pending", "online", "disabled"}
Live(c) == status[c] \in Rows

(* A NetBird peer, and its IP, go by the client whose setup key the device *)
(* joined with; NoClient stands for no IP.                                 *)
Peers == Clients \cup {NoClient}

NoLink == [row |-> FALSE, peer |-> NoClient, enabled |-> FALSE, applied |-> FALSE]
NewLink == [NoLink EXCEPT !.row = TRUE]
Links == [row : BOOLEAN, peer : Peers, enabled : BOOLEAN, applied : BOOLEAN]

NbObjects == [setup : {"none", "valid", "used", "deleted"},
              peer : BOOLEAN, ssh : BOOLEAN]

(* db.Get(&nb, SELECT * FROM netbird_links ...): sqlx fills the struct only *)
(* when every column of the result has a field in it; otherwise it fails   *)
(* with "missing destination name" and the struct keeps its zero value.    *)
(* The handlers ignore the error.                                          *)
ScanLink(c) ==
  IF LinkColumns \subseteq Fields
    THEN [peer |-> link[c].peer, setup |-> link[c].row]
    ELSE [peer |-> NoClient, setup |-> FALSE]

(* Mutant: every row instead of one.                                       *)
AllKeysAsOne(c) == {active[c]}

(* SELECT ... FROM ssh_keys WHERE active LIMIT 1: any row, zero without one. *)
SomeKey(c) == IF active[c] = {} THEN {NoKey} ELSE active[c]
ReadKey(c, ok) == IF ok THEN SomeKey(c) ELSE {NoKey}

---------------------------------------------------------------------------
(* Requests.                                                               *)

PCs == {"idle", "done",
        "cc_setup", "cc_commit",
        "rk_read", "rk_begin", "rk_delete", "rk_insert", "rk_commit",
        "di_scan", "di_peer", "di_forget", "di_status",
        "dl_scan", "dl_peer", "dl_setup", "dl_lock", "dl_cascade",
        "cn_client", "cn_link", "cn_pub", "cn_priv", "pk_key", "up_row",
        "rg_token", "rg_used", "rg_online", "rg_setup", "rg_key",
        "hb_read", "hb_peer", "hb_enabled", "hb_nbssh", "hb_record",
        "hb_applied", "hb_ack", "hb_online", "hb_pending", "hb_pub",
        "hb_ssh", "hb_reply"}
Ops == {"none", "create", "update", "rotate", "private", "disable", "delete",
        "connection", "register", "heartbeat"}
Codes == {0, 200, 201, 401, 404, 409, 410, 500, 502}

Requests ==
  [op : Ops, pc : PCs, client : Clients \cup {NoClient}, code : Codes,
   seen : Rows \cup {"absent", "deleted"},  \* status read by the heartbeat
   peer : Peers,                    \* a NetBird peer IP: reported, or read
   setup : BOOLEAN,                 \* a setup key: read from the link
   rotated : BOOLEAN,               \* heartbeat body: rotated_ok
   applied : BOOLEAN,               \* heartbeat body: ssh_applied
   enabled : BOOLEAN,               \* ssh_enabled as read
   rotate : BOOLEAN, apply : BOOLEAN,             \* heartbeat response
   key : Keys \cup {NoKey},         \* key generated, or public key read
   priv : Keys \cup {NoKey},        \* private key read
   snap : SUBSET Keys,              \* rows the rotation's DELETE has in view
   doomed : SUBSET Keys]            \* rows the rotation has deleted and locks

Idle == [op |-> "none", pc |-> "idle", client |-> NoClient, code |-> 0,
         seen |-> "absent", peer |-> NoClient, setup |-> FALSE,
         rotated |-> FALSE, applied |-> FALSE, enabled |-> FALSE,
         rotate |-> FALSE, apply |-> FALSE, key |-> NoKey, priv |-> NoKey,
         snap |-> {}, doomed |-> {}]

At(r, p) == req[r].pc = p
Put(r, s) == req' = [req EXCEPT ![r] = s]
Goto(r, p) == Put(r, [req[r] EXCEPT !.pc = p])

(* writeJSON / writeErr: the handler ends, with its local variables, and   *)
(* its transaction, if one is still open, is rolled back by the deferred   *)
(* tx.Rollback.                                                            *)
Respond(r, code) ==
  Put(r, [Idle EXCEPT !.op = req[r].op, !.pc = "done", !.client = req[r].client,
                      !.code = code])

Begin(r, op, p, c) ==
  /\ At(r, "idle")
  /\ Put(r, [Idle EXCEPT !.op = op, !.pc = p, !.client = c])

(* A statement or a NetBird call that fails without effect, and the two    *)
(* outcomes of a db.Get: where the handler ignores its error, the variable *)
(* it reads into keeps its zero value.                                     *)
Fault == faults < MaxFaults /\ faults' = faults + 1
Got(ok) == IF ok THEN UNCHANGED faults ELSE Fault

clientVars == <<status, token, expired>>
keyVars == <<active, acked, generated, overlap>>
sideVars == <<link, nb, issued>>
dbVars == <<clientVars, keyVars, sideVars>>
vars == <<dbVars, req, faults>>

RowsOK ==
  /\ status \in [Clients -> Rows \cup {"absent", "deleted"}]
  /\ token \in [Clients -> {"none", "unused", "used"}]
  /\ expired \in [Clients -> BOOLEAN]
  /\ active \in [Clients -> SUBSET Keys]
  /\ link \in [Clients -> Links]
  /\ acked \subseteq Keys /\ generated \subseteq Keys

RequestsOK ==
  /\ req \in [Slots -> Requests]
  /\ \A r \in Slots : ~At(r, "idle") => req[r].client \in Clients

TypeOK ==
  /\ RowsOK
  /\ RequestsOK
  /\ nb \in [Clients -> NbObjects]
  /\ issued \in [Clients -> Nat]
  /\ overlap \subseteq Clients
  /\ faults \in Nat

Init ==
  /\ status = [c \in Clients |-> "absent"]
  /\ token = [c \in Clients |-> "none"]
  /\ expired = [c \in Clients |-> FALSE]
  /\ active = [c \in Clients |-> {}]
  /\ acked = {} /\ generated = {} /\ overlap = {}
  /\ link = [c \in Clients |-> NoLink]
  /\ nb = [c \in Clients |-> [setup |-> "none", peer |-> FALSE, ssh |-> FALSE]]
  /\ req = [r \in Slots |-> Idle]
  /\ faults = 0
  /\ issued = [c \in Clients |-> 0]
=============================================================================
