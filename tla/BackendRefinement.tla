------------------------- MODULE BackendRefinement -------------------------
(***************************************************************************)
(* The backend implements ClientRegistry, for every number of clients, key *)
(* pairs and concurrent requests and every fault budget.  A step either    *)
(* leaves the rows of the keys alone, and then at most drops a key pair    *)
(* that was in flight, or it is one of the few that the registry names.    *)
(***************************************************************************)
EXTENDS BackendTheorems, BackendRegistry

RegistryFacts == INSTANCE RegistryTheorems WITH
  life <- Life, keys <- active, confirmed <- acked,
  used <- generated, fresh <- PairsInFlight, met <- overlap

Allowed == [Registry!Next]_(Registry!registry)

(* The life of a client is in its status row.                              *)
LEMMA LifeOK ==
  ASSUME TypeOK, NEW c \in Clients
  PROVE  /\ Life[c] = "live" <=> Live(c)
         /\ Life[c] = "absent" <=> status[c] = "absent"
         /\ ~Live(c) => Life[c] = status[c]
BY DEF Life, Live, Rows, TypeOK, RowsOK

LEMMA LifeStays ==
  ASSUME TypeOK, TypeOK', Benign
  PROVE  Life' = Life
<1> SUFFICES ASSUME NEW c \in Clients
             PROVE  (IF Live(c) THEN "live" ELSE status[c])'
                      = IF Live(c) THEN "live" ELSE status[c]
  BY DEF Life
<1>1. Live(c)' = Live(c) /\ (status'[c] = "absent") = (status[c] = "absent")
  BY DEF Benign, SameRows
<1>2. ~Live(c) => status[c] \in {"absent", "deleted"}
  BY DEF TypeOK, RowsOK, Live
<1>3. ~Live(c)' => status'[c] \in {"absent", "deleted"}
  BY DEF TypeOK, RowsOK, Live
<1> QED BY <1>1, <1>2, <1>3

(* Nothing happens to the keys, but a pair in flight may be dropped.       *)
LEMMA AbandonOK ==
  ASSUME TypeOK, TypeOK', Benign, UNCHANGED acked,
         PairsInFlight' \subseteq PairsInFlight
  PROVE  Allowed
<1>1. Life' = Life
  BY LifeStays
<1>2. Registry!Abandon
  BY <1>1 DEF Registry!Abandon, Benign
<1> QED BY <1>2 DEF Allowed, Registry!Next

(* A request that goes on keeps its pair, or has none any more.            *)
LEMMA PairsShrink ==
  ASSUME NEW r \in Slots, OthersStay(r),
         req'[r].pc \in KeyPCs =>
           req[r].pc \in KeyPCs /\ req'[r].key = req[r].key
  PROVE  PairsInFlight' \subseteq PairsInFlight
<1> SUFFICES ASSUME NEW q \in Slots, req'[q].pc \in KeyPCs
             PROVE  \E s \in Slots : req[s].pc \in KeyPCs /\ req[s].key = req'[q].key
  BY DEF PairsInFlight
<1> QED BY DEF OthersStay

LEMMA QuietPairs ==
  ASSUME NEW r \in Slots, Quiet(r)
  PROVE  PairsInFlight' \subseteq PairsInFlight
BY PairsShrink DEF Quiet, TxPCs, KeyPCs, CreatePCs, RotatePCs

(* A commit takes the pair of its request out of flight, and only that.    *)
LEMMA CommitPairs ==
  ASSUME IInv, NEW r \in Slots, Quiet(r), req[r].pc \in KeyPCs
  PROVE  /\ req[r].key \in PairsInFlight
         /\ PairsInFlight' = PairsInFlight \ {req[r].key}
<1>1. req[r].key \in PairsInFlight
  BY DEF PairsInFlight
<1>2. \A q \in Slots : req'[q].pc \in KeyPCs <=> q # r /\ req[q].pc \in KeyPCs
  BY DEF Quiet, OthersStay, TxPCs, KeyPCs, CreatePCs, RotatePCs
<1>3. \A q \in Slots : q # r => req'[q] = req[q]
  BY DEF Quiet, OthersStay
<1>4. \A q \in Slots : q # r /\ req[q].pc \in KeyPCs => req[q].key # req[r].key
  BY DEF IInv, KeyInv
<1>5. ASSUME NEW k \in PairsInFlight' PROVE k \in PairsInFlight \ {req[r].key}
  <2>1. PICK q \in Slots : req'[q].pc \in KeyPCs /\ k = req'[q].key
    BY <1>5 DEF PairsInFlight
  <2> QED BY <2>1, <1>2, <1>3, <1>4 DEF PairsInFlight
<1>6. ASSUME NEW k \in PairsInFlight \ {req[r].key} PROVE k \in PairsInFlight'
  <2>1. PICK q \in Slots : req[q].pc \in KeyPCs /\ k = req[q].key
    BY <1>6 DEF PairsInFlight
  <2>2. q # r /\ req'[q] = req[q] /\ req'[q].pc \in KeyPCs
    BY <2>1, <1>2, <1>3, <1>6
  <2> QED BY <2>1, <2>2 DEF PairsInFlight
<1> QED BY <1>1, <1>5, <1>6

---------------------------------------------------------------------------
(* The agents' statements confirm keys, and do no more to them.            *)
LEMMA AgentAllowed ==
  ASSUME IInv, IInv', NEW r \in Slots, StepAgent(r)
  PROVE  Allowed
<1> USE DEF dbVars, clientVars, keyVars, sideVars
<1>1. Quiet(r) /\ Benign /\ TypeOK /\ TypeOK'
  BY AgentQuiet, AgentBenign DEF IInv
<1>2. CASE UNCHANGED acked
  BY <1>1, <1>2, QuietPairs, AbandonOK
<1>3. CASE AcknowledgeRotation(r) /\ acked' # acked
  <2> DEFINE c == req[r].client
  <2>1. c \in Clients /\ acked' = acked \cup active[c] /\ req[r].pc \notin KeyPCs
    BY <1>3 DEF AcknowledgeRotation, IInv, TypeOK, RequestsOK, At, KeyPCs,
                CreatePCs, RotatePCs
  <2>2. Life' = Life
    BY <1>1, LifeStays
  <2>3. PairsInFlight' = PairsInFlight
    <3>1. \A q \in Slots : req'[q].pc \in KeyPCs <=> req[q].pc \in KeyPCs
      BY <1>1, <2>1 DEF Quiet, OthersStay, TxPCs, KeyPCs, CreatePCs, RotatePCs
    <3>2. \A q \in Slots : req[q].pc \in KeyPCs => req'[q] = req[q]
      BY <1>1, <2>1 DEF Quiet, OthersStay
    <3> QED BY <3>1, <3>2 DEF PairsInFlight
  <2>4. Registry!Confirm(c)
    BY <2>1, <2>2, <2>3, <1>1 DEF Registry!Confirm, Benign
  <2> QED BY <2>1, <2>4 DEF Allowed, Registry!Next
<1>4. StepAgent(r) => AcknowledgeRotation(r) \/ UNCHANGED acked
  BY DEF StepAgent, CheckToken, MarkTokenUsed, RegisterOnline, ReadSetupKey,
         IssueAgentToken, ReadStatus, RecordPeer, ReadAlreadyEnabled, EnableSSH,
         RecordEnabled, RecordApplied, HeartbeatOnline, ReadPendingRotation,
         ReadInstallPub, ReadSshEnabled, ReplyHeartbeat
<1> QED BY <1>2, <1>3, <1>4

---------------------------------------------------------------------------
(* CreateClient commits.                                                   *)
LEMMA CommitClientAllowed ==
  ASSUME IInv, IInv', NEW r \in Slots, CommitClient(r)
  PROVE  Allowed
<1> USE DEF dbVars, clientVars, keyVars, sideVars
<1> DEFINE c == req[r].client
           k == req[r].key
<1>1. /\ Quiet(r) /\ req[r].pc \in KeyPCs /\ c \in Clients
      /\ status[c] = "absent" /\ k \in Keys
  BY TxMoves DEF CommitClient, IInv, TypeOK, RowsOK, RequestsOK, RowInv, KeyInv, At,
                 KeyPCs, CreatePCs
<1>2. CASE UNCHANGED <<status, token, active, acked, link>>
  <2>1. Benign /\ UNCHANGED acked
    BY <1>2 DEF CommitClient, Benign, SameRows, Live
  <2> QED BY <1>1, <2>1, QuietPairs, AbandonOK DEF IInv
<1>3. CASE /\ status' = [status EXCEPT ![c] = "pending"]
           /\ active' = [active EXCEPT ![c] = {k}]
           /\ acked' = acked \cup {k}
  <2>1. \A d \in Clients : status'[d] = IF d = c THEN "pending" ELSE status[d]
    BY <1>1, <1>3 DEF IInv, TypeOK, RowsOK
  <2>2. Life[c] = "absent"
    BY <1>1, LifeOK DEF IInv
  <2>3. Life' = [Life EXCEPT ![c] = "live"]
    BY <1>1, <2>1 DEF Life, Live, Rows
  <2>4. UNCHANGED <<generated, overlap>>
    BY DEF CommitClient
  <2>5. Registry!Create(c, k)
    BY <1>1, <1>3, <2>2, <2>3, <2>4, CommitPairs DEF Registry!Create
  <2> QED BY <1>1, <2>5 DEF Allowed, Registry!Next
<1> QED BY <1>2, <1>3 DEF CommitClient

(* RotateKey commits: without overlap nothing but the new key remains.     *)
LEMMA CommitRotationAllowed ==
  ASSUME IInv, IInv', NEW r \in Slots, CommitRotation(r)
  PROVE  Allowed
<1> USE DEF dbVars, clientVars, keyVars, sideVars
<1> DEFINE c == req[r].client
           k == req[r].key
           kept == active[c] \ req[r].doomed
<1>1. /\ Quiet(r) /\ req[r].pc \in KeyPCs /\ c \in Clients
      /\ Live(c) /\ k \in Keys /\ Rotating(r, c) /\ ~At(r, "rk_delete")
  BY TxMoves DEF CommitRotation, IInv, TypeOK, RowsOK, RequestsOK, RowInv, KeyInv, At,
                 KeyPCs, RotatePCs, Rotating
<1>2. CASE UNCHANGED <<active, acked>>
  <2>1. Benign /\ UNCHANGED acked
    BY <1>2 DEF CommitRotation, Benign, SameRows, Live
  <2> QED BY <1>1, <2>1, QuietPairs, AbandonOK DEF IInv
<1>3. CASE /\ active' = [active EXCEPT ![c] = kept \cup {k}]
           /\ acked' = acked \ req[r].doomed
  <2>1. c \notin overlap => kept = {}
    BY <1>1 DEF IInv, SerialInv
  <2>2. Life[c] = "live"
    BY <1>1, LifeOK DEF IInv
  <2>3. Life' = Life /\ UNCHANGED <<generated, overlap>>
    BY DEF CommitRotation, Life, Live
  <2>4. acked' \subseteq acked /\ acked \cap kept \subseteq acked'
    BY <1>3
  <2>5. Registry!Rotate(c, k, kept)
    BY <1>1, <1>3, <2>1, <2>2, <2>3, <2>4, CommitPairs DEF Registry!Rotate
  <2>6. kept \in SUBSET active[c]
    OBVIOUS
  <2> HIDE DEF kept
  <2> QED BY <1>1, <2>5, <2>6 DEF Allowed, Registry!Next
<1> QED BY <1>2, <1>3 DEF CommitRotation

(* The cascade deletes the client and its keys together.                   *)
LEMMA CascadeAllowed ==
  ASSUME IInv, IInv', NEW r \in Slots, Cascade(r)
  PROVE  Allowed
<1> USE DEF dbVars, clientVars, keyVars, sideVars
<1> DEFINE c == req[r].client
<1>1. Quiet(r) /\ req[r].pc \notin KeyPCs /\ c \in Clients /\ Live(c)
  BY TxMoves DEF Cascade, IInv, TypeOK, RequestsOK, RowInv, At, KeyPCs, CreatePCs,
                 RotatePCs
<1>2. CASE UNCHANGED <<status, token, active, acked, link>>
  <2>1. Benign /\ UNCHANGED acked
    BY <1>2 DEF Cascade, Benign, SameRows, Live
  <2> QED BY <1>1, <2>1, QuietPairs, AbandonOK DEF IInv
<1>3. CASE /\ status' = [status EXCEPT ![c] = "deleted"]
           /\ active' = [active EXCEPT ![c] = {}]
           /\ acked' = acked \ active[c]
  <2>1. \A d \in Clients : status'[d] = IF d = c THEN "deleted" ELSE status[d]
    BY <1>1, <1>3 DEF IInv, TypeOK, RowsOK
  <2>2. Life[c] = "live"
    BY <1>1, LifeOK DEF IInv
  <2>3. Life' = [Life EXCEPT ![c] = "deleted"]
    BY <1>1, <2>1 DEF Life, Live, Rows
  <2>4. UNCHANGED <<generated, overlap>>
    BY DEF Cascade
  <2>5. PairsInFlight' = PairsInFlight
    <3>1. \A q \in Slots : req'[q].pc \in KeyPCs <=> req[q].pc \in KeyPCs
      BY <1>1 DEF Quiet, OthersStay, TxPCs, KeyPCs, CreatePCs, RotatePCs
    <3>2. \A q \in Slots : req[q].pc \in KeyPCs => req'[q] = req[q]
      BY <1>1 DEF Quiet, OthersStay
    <3> QED BY <3>1, <3>2 DEF PairsInFlight
  <2>6. Registry!Delete(c)
    BY <1>1, <1>3, <2>2, <2>3, <2>4, <2>5 DEF Registry!Delete
  <2> QED BY <1>1, <2>6 DEF Allowed, Registry!Next
<1> QED BY <1>2, <1>3 DEF Cascade

(* The other statements of the transactions change no row yet; BEGIN may   *)
(* find another rotation of the client open.                               *)
LEMMA MovesAllowed ==
  ASSUME IInv, IInv', NEW r \in Slots,
         \/ CreateSetupKey(r) \/ ReadName(r) \/ BeginDelete(r)
         \/ DeleteOldKeys(r) \/ InsertKey(r) \/ LockClient(r)
  PROVE  Allowed
<1> USE DEF dbVars, clientVars, keyVars, sideVars
<1> DEFINE c == req[r].client
<1>1. /\ ~At(r, "idle") /\ c \in Clients
      /\ UNCHANGED <<status, token, link, active, acked, generated>>
  BY DEF CreateSetupKey, ReadName, BeginDelete, DeleteOldKeys, InsertKey, LockClient,
         At, IInv, TypeOK, RequestsOK
<1>2. PairsInFlight' \subseteq PairsInFlight
  <2>1. ASSUME NEW p \in {"cc_commit", "rk_begin", "rk_commit", "dl_cascade"}, Goto(r, p),
               p # "dl_cascade" => req[r].pc \in KeyPCs
        PROVE  PairsInFlight' \subseteq PairsInFlight
    <3>1. p \in PCs /\ RequestsOK /\ (p = "dl_cascade" => p \notin KeyPCs)
      BY DEF PCs, IInv, TypeOK, KeyPCs, CreatePCs, RotatePCs
    <3> QED BY <1>1, <2>1, <3>1, GotoOK, PairsShrink
  <2>2. CASE CreateSetupKey(r) \/ ReadName(r) \/ InsertKey(r)
    <3>1. req[r].pc \in KeyPCs
      BY <2>2 DEF CreateSetupKey, ReadName, InsertKey, At, KeyPCs, CreatePCs, RotatePCs
    <3> QED BY <2>1, <2>2, <3>1, TxMoves, QuietPairs DEF IInv
  <2>3. CASE LockClient(r)
    BY <2>1, <2>3, TxMoves, QuietPairs DEF IInv
  <2>4. CASE BeginDelete(r)
    <3>1. req[r].pc \in KeyPCs
      BY <2>4 DEF BeginDelete, At, KeyPCs, RotatePCs
    <3> QED BY <2>4, <3>1, BeginDeleteOK, QuietPairs, PairsShrink DEF IInv
  <2>5. CASE DeleteOldKeys(r)
    <3>1. req[r].pc \in KeyPCs
      BY <2>5 DEF DeleteOldKeys, At, KeyPCs, RotatePCs
    <3> QED BY <2>5, <3>1, DeleteOldKeysOK, PairsShrink DEF IInv
  <2> QED BY <2>2, <2>3, <2>4, <2>5
<1>3. CASE UNCHANGED overlap
  <2>1. Benign
    BY <1>1, <1>3 DEF Benign, SameRows, Live
  <2> QED BY <1>1, <1>2, <2>1, AbandonOK DEF IInv
<1>4. CASE overlap' # overlap
  <2>1. BeginDelete(r)
    BY <1>4 DEF CreateSetupKey, ReadName, DeleteOldKeys, InsertKey, LockClient
  <2>2. /\ OthersStay(r) /\ req'[r].pc = "rk_delete" /\ req'[r].key = req[r].key
        /\ overlap' = overlap \cup {c}
    BY <1>4, <2>1, BeginDeleteOK DEF IInv
  <2>3. At(r, "rk_begin")
    BY <2>1 DEF BeginDelete
  <2>4. PairsInFlight' = PairsInFlight
    <3>1. \A q \in Slots : req'[q].pc \in KeyPCs <=> req[q].pc \in KeyPCs
      BY <2>2, <2>3 DEF OthersStay, At, KeyPCs, RotatePCs
    <3>2. \A q \in Slots : req[q].pc \in KeyPCs => req'[q].key = req[q].key
      BY <2>2 DEF OthersStay
    <3> QED BY <3>1, <3>2 DEF PairsInFlight
  <2>5. Life' = Life
    BY <1>1 DEF Life, Live
  <2>6. Registry!Meet(c)
    BY <1>1, <2>2, <2>4, <2>5 DEF Registry!Meet
  <2> QED BY <1>1, <2>6 DEF Allowed, Registry!Next
<1> QED BY <1>3, <1>4

(* Every statement of every handler.                                       *)
LEMMA ServeAllowed ==
  ASSUME IInv, IInv', NEW r \in Slots, Serve(r)
  PROVE  Allowed
<1>1. CASE StepAgent(r)
  BY <1>1, AgentAllowed
<1>2. CASE \/ DisableScanLink(r) \/ DisableDeletePeer(r) \/ ForgetPeer(r)
           \/ SetDisabled(r) \/ DeleteScanLink(r) \/ DeleteDeletePeer(r)
           \/ DeleteSetupKey(r) \/ ReadConnection(r) \/ UpdateRow(r)
           \/ ReadPrivateKey(r)
  <2>1. Quiet(r) /\ Benign
    BY <1>2, AdminQuiet, AdminBenign DEF IInv
  <2>2. UNCHANGED acked
    BY <1>2 DEF DisableScanLink, DisableDeletePeer, ForgetPeer, SetDisabled,
                DeleteScanLink, DeleteDeletePeer, DeleteSetupKey, ReadConnection,
                UpdateRow, ReadPrivateKey, dbVars, keyVars
  <2> QED BY <2>1, <2>2, QuietPairs, AbandonOK DEF IInv
<1>3. CASE \/ CreateSetupKey(r) \/ ReadName(r) \/ BeginDelete(r)
           \/ DeleteOldKeys(r) \/ InsertKey(r) \/ LockClient(r)
  BY <1>3, MovesAllowed
<1>4. CASE CommitClient(r) \/ CommitRotation(r) \/ Cascade(r)
  BY <1>4, CommitClientAllowed, CommitRotationAllowed, CascadeAllowed
<1> QED BY <1>1, <1>2, <1>3, <1>4 DEF Serve, StepAdmin

(* A new request: CreateClient and RotateKey make a key pair.              *)
LEMMA StartAllowed ==
  ASSUME IInv, IInv', NEW r \in Slots, NEW c \in Clients, Start(r, c)
  PROVE  Allowed
<1> USE DEF dbVars, clientVars, keyVars, sideVars
<1>1. CASE \/ StartDisableClient(r, c) \/ StartDeleteClient(r, c)
           \/ StartConnection(r, c) \/ StartRegister(r, c) \/ StartHeartbeats(r, c)
           \/ StartUpdateClient(r, c) \/ StartPrivateKey(r, c)
  <2>1. UNCHANGED dbVars
    BY <1>1 DEF StartDisableClient, StartDeleteClient, StartConnection,
                StartRegister, StartHeartbeats, StartHeartbeat,
                StartUpdateClient, StartPrivateKey
  <2>2. Benign /\ UNCHANGED acked
    BY <2>1 DEF Benign, SameRows, Live
  <2> QED BY <1>1, <2>2, StartQuiet, QuietPairs, AbandonOK DEF IInv
<1>2. CASE StartCreateClient(r, c) \/ StartRotateKey(r, c)
  <2> DEFINE k == req'[r].key
  <2>1. /\ OthersStay(r) /\ At(r, "idle") /\ req'[r].pc \in {"cc_setup", "rk_read"}
        /\ k \in Unused /\ generated' = generated \cup {k}
    BY <1>2, StartKeyOK DEF IInv
  <2>2. UNCHANGED <<status, active, acked, overlap>>
    BY <1>2 DEF StartCreateClient, StartRotateKey
  <2>3. Life' = Life /\ k \in Keys /\ k \notin generated
    BY <2>1, <2>2 DEF Life, Live, Unused
  <2>4. PairsInFlight' = PairsInFlight \cup {k}
    <3>1. \A q \in Slots : req'[q].pc \in KeyPCs <=> q = r \/ req[q].pc \in KeyPCs
      BY <2>1 DEF OthersStay, KeyPCs, CreatePCs, RotatePCs
    <3>2. \A q \in Slots : req[q].pc \in KeyPCs => q # r /\ req'[q] = req[q]
      BY <2>1 DEF OthersStay, At, KeyPCs, CreatePCs, RotatePCs
    <3>3. PairsInFlight' \subseteq PairsInFlight \cup {k}
      BY <3>1, <3>2 DEF PairsInFlight
    <3>4. PairsInFlight \subseteq PairsInFlight' /\ k \in PairsInFlight'
      BY <3>1, <3>2 DEF PairsInFlight
    <3> QED BY <3>3, <3>4
  <2>5. Registry!Make(k)
    BY <2>1, <2>2, <2>3, <2>4 DEF Registry!Make
  <2> HIDE DEF k
  <2> QED BY <2>3, <2>5 DEF Allowed, Registry!Next
<1> QED BY <1>1, <1>2 DEF Start

(* Time, NetBird, the answers' way back; a crash abandons every pair.      *)
LEMMA OutsideAllowed ==
  ASSUME IInv, IInv',
         \/ \E c \in Clients : World(c)
         \/ \E r \in Slots : Receive(r)
         \/ ServerCrash
         \/ UNCHANGED vars
  PROVE  Allowed
<1> USE DEF dbVars, clientVars, keyVars, sideVars
<1>1. UNCHANGED <<status, token, link, active, acked, generated, overlap>>
  BY DEF World, TokenExpires, PeerJoins, Receive, ServerCrash, vars
<1>2. Benign
  BY <1>1 DEF Benign, SameRows, Live
<1>3. PairsInFlight' \subseteq PairsInFlight
  <2>1. CASE UNCHANGED req
    BY <2>1 DEF PairsInFlight
  <2>2. CASE ServerCrash
    <3>1. \A r \in Slots : req'[r].pc = "idle"
      BY <2>2, IdleOK DEF ServerCrash
    <3> QED BY <3>1 DEF PairsInFlight, KeyPCs, CreatePCs, RotatePCs
  <2>3. CASE \E r \in Slots : Receive(r)
    <3>1. PICK r \in Slots : Receive(r)
      BY <2>3
    <3>2. OthersStay(r) /\ req'[r].pc = "idle"
      BY <3>1, IdleOK, PutOK DEF Receive, IInv, TypeOK
    <3> QED BY <3>2, PairsShrink DEF KeyPCs, CreatePCs, RotatePCs
  <2> QED BY <2>1, <2>2, <2>3 DEF World, TokenExpires, PeerJoins, vars
<1> QED BY <1>1, <1>2, <1>3, AbandonOK DEF IInv

LEMMA NextAllowed == IInv /\ IInv' /\ [Next]_vars => Allowed
<1> SUFFICES ASSUME IInv, IInv', [Next]_vars PROVE Allowed
  OBVIOUS
<1>1. CASE \E r \in Slots : (\E c \in Clients : Start(r, c)) \/ Serve(r)
  BY <1>1, StartAllowed, ServeAllowed
<1>2. CASE \/ \E c \in Clients : World(c)
           \/ \E r \in Slots : Receive(r)
           \/ ServerCrash \/ UNCHANGED vars
  BY <1>2, OutsideAllowed
<1> QED BY <1>1, <1>2 DEF Next

LEMMA InitAllowed == Init => Registry!Init
<1> SUFFICES ASSUME Init PROVE Registry!Init
  OBVIOUS
<1>1. \A r \in Slots : req[r].pc = "idle"
  BY IdleOK DEF Init
<1>2. PairsInFlight = {}
  BY <1>1 DEF PairsInFlight, KeyPCs, CreatePCs, RotatePCs
<1>3. Life = [c \in Clients |-> "absent"]
  BY DEF Init, Life, Live, Rows
<1> QED BY <1>2, <1>3 DEF Init, Registry!Init

(* The backend implements ClientRegistry.                                  *)
THEOREM BackendRefinesRegistry == Spec => RefinesRegistry
<1>1. Spec => []IInv
  BY Inductive
<1>2. IInv /\ IInv' /\ [Next]_vars => [Registry!Next]_(Registry!registry)
  BY NextAllowed DEF Allowed
<1> QED BY <1>1, <1>2, InitAllowed, PTL DEF Spec, RefinesRegistry, Registry!Spec

(* What was proved of the registry holds of the backend.                   *)
THEOREM RevokedKeysStayRevoked == Spec => KeysNeverReturn
<1>1. Registry!Spec => RegistryFacts!Spec
  BY DEF Registry!Spec, Registry!Init, Registry!Next, Registry!registry, Registry!Make,
         Registry!Abandon, Registry!Create, Registry!Meet, Registry!Rotate,
         Registry!Confirm, Registry!Delete, RegistryFacts!Spec, RegistryFacts!Init,
         RegistryFacts!Next, RegistryFacts!registry, RegistryFacts!Make,
         RegistryFacts!Abandon, RegistryFacts!Create, RegistryFacts!Meet,
         RegistryFacts!Rotate, RegistryFacts!Confirm, RegistryFacts!Delete
<1>2. RegistryFacts!RevokedStaysRevoked => KeysNeverReturn
  BY DEF KeysNeverReturn, Registry!RevokedStaysRevoked, Registry!Revoked,
         Registry!registry, RegistryFacts!RevokedStaysRevoked, RegistryFacts!Revoked,
         RegistryFacts!registry
<1>3. RegistryFacts!Spec => RegistryFacts!RevokedStaysRevoked
  BY RegistryFacts!RevokedForGood
<1> QED BY <1>1, <1>2, <1>3, BackendRefinesRegistry, PTL DEF RefinesRegistry
=============================================================================
