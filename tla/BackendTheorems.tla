-------------------------- MODULE BackendTheorems --------------------------
(***************************************************************************)
(* What is proved of Backend for every value of its constants.  The parts  *)
(* KeyInv and RowInv of the inductive invariant are in BackendSteps; this  *)
(* module has the part about serial rotations, puts the parts together     *)
(* over the whole next-state relation and draws the conclusions.           *)
(***************************************************************************)
EXTENDS BackendSteps

---------------------------------------------------------------------------
(* The steps of the transactions: SerialInv.                               *)

(* A step after which the request holds no lock of a rotation.  The keys   *)
(* of a client only become fewer, or no other rotation of it is open.      *)
LEMMA SerialLeaves ==
  ASSUME TypeOK, SerialInv, NEW r \in Slots, OthersStay(r),
         req'[r].pc \notin {"rk_delete", "rk_insert", "rk_commit"},
         req'[r].pc \in RotatePCs => status'[req'[r].client] # "absent",
         \A c \in Clients : status[c] # "absent" => status'[c] # "absent",
         UNCHANGED overlap,
         \A c \in Clients \ overlap :
           \/ active'[c] \subseteq active[c]
           \/ /\ \A j, k \in active'[c] : j = k
              /\ \A q \in Slots \ {r} : ~Rotating(q, c)
  PROVE  SerialInv'
<1>1. \A q \in Slots \ {r} : req[q].pc \in RotatePCs => req[q].client \in Clients
  BY DEF TypeOK, RequestsOK, At, RotatePCs
<1>2. \A q \in Slots : req'[q].pc \in RotatePCs => status'[req'[q].client] # "absent"
  BY <1>1 DEF SerialInv, OthersStay
<1>3. \A q \in Slots, c \in Clients : Rotating(q, c)' =>
        q # r /\ Rotating(q, c) /\ req'[q] = req[q]
  BY DEF Rotating, OthersStay
<1>4. ASSUME NEW c \in Clients \ overlap
      PROVE  /\ \A j, k \in active'[c] : j = k
             /\ \A q, s \in Slots : Rotating(q, c)' /\ Rotating(s, c)' => q = s
             /\ \A q \in Slots : Rotating(q, c)' =>
                  active'[c] \subseteq IF At(q, "rk_delete")' THEN req'[q].snap
                                                              ELSE req'[q].doomed
  <2>1. \A q, s \in Slots : Rotating(q, c)' /\ Rotating(s, c)' => q = s
    BY <1>3 DEF SerialInv
  <2>2. \A j, k \in active'[c] : j = k
    BY DEF SerialInv
  <2>3. \A q \in Slots : Rotating(q, c)' =>
          active'[c] \subseteq IF At(q, "rk_delete")' THEN req'[q].snap
                                                      ELSE req'[q].doomed
    BY <1>3 DEF SerialInv, At
  <2> QED BY <2>1, <2>2, <2>3
<1> QED BY <1>2, <1>4 DEF SerialInv

(* A rotation that goes on: its view of the client's keys stays complete.  *)
LEMMA SerialStays ==
  ASSUME TypeOK, SerialInv, NEW r \in Slots, OthersStay(r),
         UNCHANGED <<status, active, overlap>>,
         Rotating(r, req[r].client), req'[r].client = req[r].client,
         req'[r].pc \in {"rk_insert", "rk_commit"},
         LET c == req[r].client IN
         active[c] \subseteq (IF At(r, "rk_delete") THEN req[r].snap ELSE req[r].doomed)
           => active[c] \subseteq req'[r].doomed
  PROVE  SerialInv'
<1>1. \A q \in Slots : req[q].pc \in RotatePCs => req[q].client \in Clients
  BY DEF TypeOK, RequestsOK, At, RotatePCs
<1>2. \A q \in Slots : req'[q].pc \in RotatePCs => status'[req'[q].client] # "absent"
  BY <1>1 DEF SerialInv, OthersStay, Rotating, RotatePCs
<1>3. \A q \in Slots, c \in Clients : Rotating(q, c)' =>
        Rotating(q, c) /\ (q # r => req'[q] = req[q])
  BY DEF Rotating, OthersStay
<1>4. ASSUME NEW c \in Clients \ overlap, NEW q \in Slots, Rotating(q, c)'
      PROVE  active[c] \subseteq IF At(q, "rk_delete")' THEN req'[q].snap
                                                        ELSE req'[q].doomed
  <2>1. CASE q # r
    BY <2>1, <1>3, <1>4 DEF SerialInv, At
  <2>2. CASE q = r
    <3>1. c = req[r].client /\ ~At(r, "rk_delete")'
      BY <2>2, <1>4 DEF Rotating, At
    <3>2. active[c] \subseteq IF At(r, "rk_delete") THEN req[r].snap ELSE req[r].doomed
      BY <3>1 DEF SerialInv
    <3> QED BY <2>2, <3>1, <3>2
  <2> QED BY <2>1, <2>2
<1>5. \A c \in Clients \ overlap' : \A q, s \in Slots :
        Rotating(q, c)' /\ Rotating(s, c)' => q = s
  BY <1>3 DEF SerialInv
<1>6. \A c \in Clients \ overlap' : \A j, k \in active'[c] : j = k
  BY DEF SerialInv
<1> QED BY <1>2, <1>4, <1>5, <1>6 DEF SerialInv

(* Every transaction step keeps SerialInv.  BeginDelete is where rotations *)
(* of a client overlap, and where overlap records it.                      *)
LEMMA SerialTx ==
  ASSUME TypeOK, RowInv, SerialInv, NEW r \in Slots,
         \/ \E c \in Clients : StartCreateClient(r, c) \/ StartRotateKey(r, c)
         \/ CreateSetupKey(r) \/ CommitClient(r) \/ ReadName(r) \/ BeginDelete(r)
         \/ DeleteOldKeys(r) \/ InsertKey(r) \/ CommitRotation(r)
         \/ LockClient(r) \/ Cascade(r)
  PROVE  SerialInv'
<1> USE DEF dbVars, clientVars, keyVars, sideVars
<1> DEFINE c == req[r].client
<1>t. RequestsOK /\ (~At(r, "idle") => c \in Clients)
  BY DEF TypeOK, RequestsOK
<1>p. {"cc_commit", "rk_begin", "rk_commit", "dl_cascade"} \subseteq PCs
  BY DEF PCs
<1>k. TxPCs \cap {"done"} = {} /\ RotatePCs \subseteq TxPCs
  BY DEF TxPCs, RotatePCs
<1>q. ASSUME Quiet(r), UNCHANGED <<status, active, overlap>>
      PROVE  SerialInv'
  BY <1>q, <1>k, SerialLeaves DEF Quiet, TxPCs, RotatePCs
<1>1. CASE \E d \in Clients : StartCreateClient(r, d) \/ StartRotateKey(r, d)
  <2>1. PICK d \in Clients : StartCreateClient(r, d) \/ StartRotateKey(r, d)
    BY <1>1
  <2>2. /\ OthersStay(r) /\ req'[r].pc \in {"cc_setup", "rk_read"}
        /\ UNCHANGED <<status, active, overlap>> /\ req'[r].client = d
        /\ req'[r].pc = "rk_read" => status[d] # "absent"
    BY <2>1, StartKeyOK DEF StartCreateClient, StartRotateKey
  <2> QED BY <2>2, SerialLeaves DEF RotatePCs
<1>2. CASE CreateSetupKey(r)
  <2>1. /\ UNCHANGED <<status, active, overlap>> /\ ~At(r, "idle")
        /\ Goto(r, "cc_commit") \/ Quiet(r)
    BY <1>2, TxMoves DEF CreateSetupKey, At
  <2>2. Goto(r, "cc_commit") => OthersStay(r) /\ req'[r].pc = "cc_commit"
    BY <2>1, <1>t, <1>p, GotoOK
  <2> QED BY <2>1, <2>2, <1>q, SerialLeaves DEF RotatePCs
<1>3. CASE CommitClient(r)
  <2>1. Quiet(r) /\ c \in Clients /\ req[r].pc \in CreatePCs /\ UNCHANGED overlap
    BY <1>3, <1>t, TxMoves DEF CommitClient, At, CreatePCs
  <2>2. CASE UNCHANGED <<status, active>>
    BY <2>1, <2>2, <1>q
  <2>3. CASE /\ status' = [status EXCEPT ![c] = "pending"]
             /\ active' = [active EXCEPT ![c] = {req[r].key}]
    <3>1. status[c] = "absent"
      BY <2>1 DEF RowInv
    <3>2. \A q \in Slots : ~Rotating(q, c)
      BY <3>1 DEF SerialInv, Rotating, RotatePCs
    <3>3. \A d \in Clients : /\ status[d] # "absent" => status'[d] # "absent"
                             /\ d # c => active'[d] = active[d]
      BY <2>3 DEF TypeOK, RowsOK
    <3>4. active'[c] = {req[r].key}
      BY <2>1, <2>3 DEF TypeOK, RowsOK
    <3>5. /\ OthersStay(r) /\ req'[r].pc \notin RotatePCs
          /\ req'[r].pc \notin {"rk_delete", "rk_insert", "rk_commit"}
      BY <2>1 DEF Quiet, TxPCs, RotatePCs
    <3>6. \A d \in Clients \ overlap :
            \/ active'[d] \subseteq active[d]
            \/ /\ \A j, k \in active'[d] : j = k
               /\ \A q \in Slots \ {r} : ~Rotating(q, d)
      BY <3>2, <3>3, <3>4
    <3> QED BY <2>1, <3>3, <3>5, <3>6, SerialLeaves
  <2> QED BY <2>2, <2>3, <1>3 DEF CommitClient
<1>4. CASE ReadName(r)
  <2>1. /\ UNCHANGED <<status, active, overlap>> /\ ~At(r, "idle") /\ At(r, "rk_read")
        /\ Goto(r, "rk_begin") \/ Quiet(r)
    BY <1>4, TxMoves DEF ReadName, At
  <2>2. Goto(r, "rk_begin") => /\ OthersStay(r) /\ req'[r].pc = "rk_begin"
                               /\ req'[r].client = c
    BY <2>1, <1>t, <1>p, GotoOK
  <2>3. status[c] # "absent"
    BY <2>1 DEF SerialInv, At, RotatePCs
  <2> QED BY <2>1, <2>2, <2>3, <1>q, SerialLeaves
<1>5. CASE BeginDelete(r)
  <2>1. At(r, "rk_begin") /\ UNCHANGED <<status, active>>
    BY <1>5 DEF BeginDelete
  <2>2. CASE Quiet(r) /\ UNCHANGED overlap
    BY <2>1, <2>2, <1>q
  <2>3. CASE /\ OthersStay(r) /\ req'[r].pc = "rk_delete" /\ req'[r].client = c
             /\ req'[r].snap = active[c]
             /\ overlap' = IF \E q \in Slots : Rotating(q, c)
                             THEN overlap \cup {c} ELSE overlap
    <3>1. \A q \in Slots : req'[q].pc \in RotatePCs => status'[req'[q].client] # "absent"
      BY <2>1, <2>3 DEF SerialInv, OthersStay, RotatePCs, At
    <3>2. \A q \in Slots, d \in Clients :
            Rotating(q, d)' => (q = r /\ d = c) \/ (q # r /\ Rotating(q, d) /\ req'[q] = req[q])
      BY <2>3 DEF Rotating, OthersStay
    <3>3. c \notin overlap' => \A q \in Slots : ~Rotating(q, c)
      BY <2>3
    <3>4. overlap \subseteq overlap'
      BY <2>3
    <3>5. \A d \in Clients \ overlap' :
            /\ \A j, k \in active'[d] : j = k
            /\ \A q, s \in Slots : Rotating(q, d)' /\ Rotating(s, d)' => q = s
      BY <2>1, <3>2, <3>3, <3>4 DEF SerialInv
    <3>6. ASSUME NEW d \in Clients \ overlap', NEW q \in Slots, Rotating(q, d)'
          PROVE  active'[d] \subseteq IF At(q, "rk_delete")' THEN req'[q].snap
                                                             ELSE req'[q].doomed
      <4>1. CASE q = r /\ d = c
        BY <4>1, <2>1, <2>3 DEF At
      <4>2. CASE q # r /\ Rotating(q, d) /\ req'[q] = req[q]
        BY <4>2, <2>1, <3>4 DEF SerialInv, At
      <4> QED BY <4>1, <4>2, <3>2, <3>6
    <3> QED BY <3>1, <3>5, <3>6 DEF SerialInv
  <2> QED BY <2>2, <2>3, <1>5, BeginDeleteOK
<1>6. CASE DeleteOldKeys(r)
  <2>1. /\ UNCHANGED <<status, active, overlap>> /\ Rotating(r, c) /\ At(r, "rk_delete")
    BY <1>6 DEF DeleteOldKeys, Rotating, At
  <2>2. /\ OthersStay(r) /\ req'[r].pc = "rk_insert" /\ req'[r].client = c
        /\ req'[r].doomed = req[r].snap \cap active[c]
    BY <1>6, DeleteOldKeysOK
  <2> QED BY <2>1, <2>2, SerialStays
<1>7. CASE InsertKey(r)
  <2>1. /\ UNCHANGED <<status, active, overlap>> /\ ~At(r, "idle") /\ At(r, "rk_insert")
        /\ Rotating(r, c) /\ ~At(r, "rk_delete")
        /\ Goto(r, "rk_commit") \/ Quiet(r)
    BY <1>7, TxMoves DEF InsertKey, At, Rotating
  <2>2. Goto(r, "rk_commit") => /\ OthersStay(r) /\ req'[r].pc = "rk_commit"
                                /\ req'[r].client = c /\ req'[r].doomed = req[r].doomed
    BY <2>1, <1>t, <1>p, GotoOK
  <2> QED BY <2>1, <2>2, <1>q, SerialStays
<1>8. CASE CommitRotation(r)
  <2>1. /\ Quiet(r) /\ c \in Clients /\ At(r, "rk_commit") /\ Rotating(r, c)
        /\ UNCHANGED <<status, overlap>>
    BY <1>8, <1>t, TxMoves DEF CommitRotation, At, Rotating
  <2>2. CASE UNCHANGED active
    BY <2>1, <2>2, <1>q
  <2>3. CASE active' = [active EXCEPT ![c] = (active[c] \ req[r].doomed) \cup {req[r].key}]
    <3>1. \A d \in Clients : d # c => active'[d] = active[d]
      BY <2>3 DEF TypeOK, RowsOK
    <3>2. active'[c] = (active[c] \ req[r].doomed) \cup {req[r].key}
      BY <2>1, <2>3 DEF TypeOK, RowsOK
    <3>3. c \notin overlap => /\ active'[c] = {req[r].key}
                              /\ \A q \in Slots \ {r} : ~Rotating(q, c)
      BY <2>1, <3>2 DEF SerialInv, At
    <3> QED BY <2>1, <3>1, <3>3, <1>k, SerialLeaves DEF Quiet, TxPCs, RotatePCs
  <2> QED BY <2>2, <2>3, <1>8 DEF CommitRotation
<1>9. CASE LockClient(r)
  <2>1. /\ UNCHANGED <<status, active, overlap>> /\ ~At(r, "idle")
        /\ Goto(r, "dl_cascade") \/ Quiet(r)
    BY <1>9, TxMoves DEF LockClient, At
  <2>2. Goto(r, "dl_cascade") => OthersStay(r) /\ req'[r].pc = "dl_cascade"
    BY <2>1, <1>t, <1>p, GotoOK
  <2> QED BY <2>1, <2>2, <1>q, SerialLeaves DEF RotatePCs
<1>10. CASE Cascade(r)
  <2>1. Quiet(r) /\ c \in Clients /\ UNCHANGED overlap
    BY <1>10, <1>t, TxMoves DEF Cascade, At
  <2>2. \A d \in Clients : /\ status[d] # "absent" => status'[d] # "absent"
                           /\ active'[d] \subseteq active[d]
    BY <1>10, <2>1 DEF Cascade, TypeOK, RowsOK
  <2> QED BY <2>1, <2>2, <1>k, SerialLeaves DEF Quiet, TxPCs, RotatePCs
<1> QED BY <1>1, <1>2, <1>3, <1>4, <1>5, <1>6, <1>7, <1>8, <1>9, <1>10

---------------------------------------------------------------------------
(* The whole next-state relation.                                          *)

(* The steps of the open transactions keep the requests well formed.       *)
LEMMA TxRequestsOK ==
  ASSUME TypeOK, NEW r \in Slots,
         \/ CreateSetupKey(r) \/ CommitClient(r) \/ ReadName(r) \/ BeginDelete(r)
         \/ DeleteOldKeys(r) \/ InsertKey(r) \/ CommitRotation(r)
         \/ LockClient(r) \/ Cascade(r)
  PROVE  RequestsOK'
<1>1. ASSUME NEW p \in {"cc_commit", "rk_begin", "rk_commit", "dl_cascade"},
             Goto(r, p), ~At(r, "idle")
      PROVE  RequestsOK'
  <2>1. p \in PCs /\ RequestsOK
    BY DEF PCs, TypeOK
  <2> QED BY <2>1, <1>1, GotoOK
<1>2. Quiet(r) => RequestsOK'
  BY DEF Quiet
<1>3. CASE BeginDelete(r)
  BY <1>3, <1>2, BeginDeleteOK
<1>4. CASE DeleteOldKeys(r)
  BY <1>4, DeleteOldKeysOK
<1>5. CASE CommitClient(r) \/ CommitRotation(r) \/ Cascade(r)
  BY <1>5, <1>2, TxMoves
<1>6. CASE CreateSetupKey(r) \/ ReadName(r) \/ InsertKey(r) \/ LockClient(r)
  <2>1. ~At(r, "idle")
    BY <1>6 DEF CreateSetupKey, ReadName, InsertKey, LockClient, At
  <2> QED BY <2>1, <1>6, <1>1, <1>2, TxMoves
<1> QED BY <1>3, <1>4, <1>5, <1>6

(* The step of a request that no transaction holds.                        *)
LEMMA QuietStep ==
  ASSUME IInv, NEW r \in Slots, Quiet(r), Benign, DataOK'
  PROVE  IInv'
<1>1. TypeOK'
  BY DEF Quiet, DataOK, TypeOK
<1>2. KeyInv' /\ RowInv' /\ SerialInv'
  BY KeyQuiet, RowQuiet, SerialQuiet DEF IInv, Benign
<1> QED BY <1>1, <1>2 DEF IInv

(* No statement of any handler breaks the invariant.                       *)
LEMMA ServeInv ==
  ASSUME IInv, NEW r \in Slots, Serve(r)
  PROVE  IInv'
<1>1. req[r].pc \in {"cc_commit", "rk_commit"} => req[r].key \in Keys
  BY DEF IInv, KeyInv, TypeOK, RowsOK, KeyPCs, CreatePCs, RotatePCs
<1>2. CASE StepAgent(r)
  BY <1>2, AgentQuiet, AgentBenign, AgentDataOK, QuietStep DEF IInv
<1>3. CASE StepAdmin(r)
  <2>1. DataOK'
    BY <1>1, <1>3, AdminDataOK DEF IInv
  <2>2. CASE \/ DisableScanLink(r) \/ DisableDeletePeer(r) \/ ForgetPeer(r)
             \/ SetDisabled(r) \/ DeleteScanLink(r) \/ DeleteDeletePeer(r)
             \/ DeleteSetupKey(r) \/ ReadConnection(r) \/ UpdateRow(r)
             \/ ReadPrivateKey(r)
    BY <2>1, <2>2, AdminQuiet, AdminBenign, QuietStep DEF IInv
  <2>3. CASE \/ CreateSetupKey(r) \/ CommitClient(r) \/ ReadName(r) \/ BeginDelete(r)
             \/ DeleteOldKeys(r) \/ InsertKey(r) \/ CommitRotation(r)
             \/ LockClient(r) \/ Cascade(r)
    <3>1. TypeOK'
      BY <2>1, <2>3, TxRequestsOK DEF IInv, DataOK, TypeOK
    <3>2. KeyInv' /\ RowInv' /\ SerialInv'
      BY <2>3, KeyTx, RowTx, SerialTx DEF IInv
    <3> QED BY <3>1, <3>2 DEF IInv
  <2> QED BY <1>3, <2>2, <2>3 DEF StepAdmin
<1> QED BY <1>2, <1>3 DEF Serve

(* Nor does a new request.                                                 *)
LEMMA StartInv ==
  ASSUME IInv, NEW r \in Slots, NEW c \in Clients, Start(r, c)
  PROVE  IInv'
<1> USE DEF dbVars, clientVars, keyVars, sideVars
<1>1. CASE \/ StartDisableClient(r, c) \/ StartDeleteClient(r, c)
           \/ StartConnection(r, c) \/ StartRegister(r, c) \/ StartHeartbeats(r, c)
           \/ StartUpdateClient(r, c) \/ StartPrivateKey(r, c)
  <2>1. UNCHANGED <<dbVars, faults>>
    BY <1>1 DEF StartDisableClient, StartDeleteClient, StartConnection,
                StartRegister, StartHeartbeats, StartHeartbeat,
                StartUpdateClient, StartPrivateKey
  <2>2. Benign /\ DataOK'
    BY <2>1 DEF IInv, TypeOK, RowsOK, DataOK, Benign, SameRows, Live
  <2> QED BY <1>1, <2>2, StartQuiet, QuietStep DEF IInv
<1>2. CASE StartCreateClient(r, c) \/ StartRotateKey(r, c)
  <2>1. /\ RequestsOK' /\ generated' = generated \cup {req'[r].key}
        /\ req'[r].key \in Unused
    BY <1>2, StartKeyOK DEF IInv
  <2>2. DataOK'
    BY <1>2, <2>1 DEF IInv, TypeOK, RowsOK, DataOK, Unused, StartCreateClient,
                      StartRotateKey
  <2>3. TypeOK'
    BY <2>1, <2>2 DEF DataOK, TypeOK
  <2>4. KeyInv' /\ RowInv' /\ SerialInv'
    BY <1>2, KeyTx, RowTx, SerialTx DEF IInv
  <2> QED BY <2>3, <2>4 DEF IInv
<1> QED BY <1>1, <1>2 DEF Start

(* Time and NetBird touch no row an open transaction relies on.            *)
LEMMA OutsideInv ==
  ASSUME IInv,
         \/ \E c \in Clients : World(c)
         \/ \E r \in Slots : Receive(r)
         \/ ServerCrash
         \/ UNCHANGED vars
  PROVE  IInv'
<1> USE DEF dbVars, clientVars, keyVars, sideVars
<1>1. CASE (\E c \in Clients : World(c)) \/ UNCHANGED vars
  <2> DEFINE same == UNCHANGED <<status, token, active, acked, generated,
                                 overlap, link, issued, req, faults>>
             typed == /\ expired' \in [Clients -> BOOLEAN]
                      /\ nb' \in [Clients -> NbObjects]
  <2>1. same /\ typed
    <3>1. expired \in [Clients -> BOOLEAN] /\ nb \in [Clients -> NbObjects]
      BY DEF IInv, TypeOK, RowsOK
    <3>2. ASSUME NEW c \in Clients, TokenExpires(c)
          PROVE  same /\ typed
      BY <3>1, <3>2 DEF TokenExpires
    <3>3. ASSUME NEW c \in Clients, PeerJoins(c)
          PROVE  same /\ typed
      <4>1. same /\ UNCHANGED expired
        BY <3>3 DEF PeerJoins
      <4> DEFINE x == [nb[c] EXCEPT !.setup = "used", !.peer = TRUE]
      <4>2. x \in NbObjects
        BY <3>1 DEF NbObjects
      <4>3. nb' = [nb EXCEPT ![c] = x]
        BY <3>3 DEF PeerJoins
      <4> HIDE DEF x
      <4> QED BY <3>1, <4>1, <4>2, <4>3
    <3>4. UNCHANGED vars => same /\ typed
      BY <3>1 DEF vars
    <3> QED BY <3>2, <3>3, <3>4, <1>1 DEF World
  <2>2. TypeOK'
    BY <2>1 DEF IInv, TypeOK, RowsOK, RequestsOK, At
  <2>3. KeyInv'
    BY <2>1 DEF IInv, KeyInv
  <2>4. RowInv'
    BY <2>1 DEF IInv, RowInv, ClientIsComplete, Live, RowLocked, Deleting, At
  <2>5. SerialInv'
    BY <2>1 DEF IInv, SerialInv, Rotating, At
  <2> QED BY <2>2, <2>3, <2>4, <2>5 DEF IInv
<1>2. ASSUME UNCHANGED <<dbVars, faults>>
      PROVE  Benign /\ DataOK'
  BY <1>2 DEF IInv, TypeOK, RowsOK, DataOK, Benign, SameRows, Live
<1>3. CASE \E r \in Slots : Receive(r)
  <2>1. PICK r \in Slots : Receive(r)
    BY <1>3
  <2>2. Quiet(r)
    <3>1. RequestsOK' /\ req'[r] = Idle /\ OthersStay(r)
      BY <2>1, IdleOK, PutOK DEF Receive, IInv, TypeOK
    <3> QED BY <3>1, IdleOK DEF Quiet, TxPCs
  <2> QED BY <2>1, <2>2, <1>2, QuietStep DEF Receive
<1>4. CASE ServerCrash
  <2>1. /\ UNCHANGED <<dbVars, faults>> /\ RequestsOK'
        /\ \A r \in Slots : req'[r].pc = "idle"
    BY <1>4, IdleOK DEF ServerCrash, RequestsOK, At
  <2>2. TypeOK'
    BY <2>1, <1>2 DEF DataOK, TypeOK
  <2>3. KeyInv'
    BY <2>1 DEF IInv, KeyInv, KeyPCs, CreatePCs, RotatePCs
  <2>4. RowInv'
    BY <2>1 DEF IInv, RowInv, ClientIsComplete, Live, CreatePCs, At
  <2>5. SerialInv'
    BY <2>1 DEF IInv, SerialInv, Rotating, RotatePCs
  <2> QED BY <2>2, <2>3, <2>4, <2>5 DEF IInv
<1> QED BY <1>1, <1>3, <1>4

(* The empty database is a good start.                                     *)
LEMMA InitInv == Init => IInv
<1> SUFFICES ASSUME Init PROVE IInv
  OBVIOUS
<1>1. \A r \in Slots : req[r] = Idle /\ req[r].pc = "idle"
  BY IdleOK DEF Init
<1>2. TypeOK
  <2>1. RowsOK
    BY LinksOK DEF Init, RowsOK
  <2>2. RequestsOK
    BY <1>1, IdleOK DEF Init, RequestsOK, At
  <2>3. nb \in [Clients -> NbObjects]
    BY DEF Init, NbObjects
  <2> QED BY <2>1, <2>2, <2>3 DEF Init, TypeOK
<1>3. KeyInv
  BY <1>1 DEF Init, KeyInv, KeyPCs, CreatePCs, RotatePCs
<1>4. RowInv
  BY <1>1 DEF Init, RowInv, ClientIsComplete, Live, Rows, CreatePCs, At
<1>5. SerialInv
  BY <1>1 DEF Init, SerialInv, Rotating, RotatePCs
<1> QED BY <1>2, <1>3, <1>4, <1>5 DEF IInv

(* The inductive invariant holds in every reachable state: no interleaving *)
(* of requests, failure or crash of the server breaks it.                  *)
THEOREM Inductive == Spec => []IInv
<1>1. IInv /\ [Next]_vars => IInv'
  <2> SUFFICES ASSUME IInv, [Next]_vars PROVE IInv'
    OBVIOUS
  <2>1. CASE \E r \in Slots : (\E c \in Clients : Start(r, c)) \/ Serve(r)
    BY <2>1, StartInv, ServeInv
  <2>2. CASE \/ \E c \in Clients : World(c)
             \/ \E r \in Slots : Receive(r)
             \/ ServerCrash
             \/ UNCHANGED vars
    BY <2>2, OutsideInv
  <2> QED BY <2>1, <2>2 DEF Next
<1> QED BY <1>1, InitInv, PTL DEF Spec

(* Every variable keeps its type, for every instance of the backend.       *)
THEOREM TypeCorrect == Spec => []TypeOK
<1>1. IInv => TypeOK
  BY DEF IInv
<1> QED BY <1>1, Inductive, PTL

(* A client always has its token, its NetBird link and a key, and leaves   *)
(* no row behind, whatever fails, crashes or interleaves in CreateClient,  *)
(* RotateKey and DeleteClient.                                             *)
THEOREM ClientsAreComplete == Spec => []ClientIsComplete
<1>1. IInv => ClientIsComplete
  BY DEF IInv, RowInv
<1> QED BY <1>1, Inductive, PTL

(* No key pair is in the rows of two clients, or in a row before the       *)
(* transaction that generated it commits.                                  *)
THEOREM KeysBelongToOneClient == Spec => []KeysNotShared
<1>1. IInv => KeysNotShared
  BY DEF IInv, KeyInv, KeysNotShared, KeyPCs, CreatePCs, RotatePCs
<1> QED BY <1>1, Inductive, PTL

(* A client keeps a single key as long as no two of its rotations have     *)
(* been open together, even if deletes, crashes and failures come between. *)
THEOREM SerialRotations == Spec => []SerialRotationsKeepOneKey
<1>1. IInv => SerialRotationsKeepOneKey
  BY DEF IInv, SerialInv, SerialRotationsKeepOneKey
<1> QED BY <1>1, Inductive, PTL
=============================================================================
