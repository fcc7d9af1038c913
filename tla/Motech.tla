------------------------------- MODULE Motech -------------------------------
(***************************************************************************)
(* The backend and one machine's agent together.  The calls of the agent   *)
(* are requests of Backend; an answer that is lost or comes after the 15 s *)
(* timeout of the agent leaves its request running in the backend.         *)
(*                                                                         *)
(* The handshake of a key rotation: the administrator rotates, the backend *)
(* answers heartbeats with the new key until rotated_ok comes back, the    *)
(* agent installs the key and confirms it until the backend stops asking.  *)
(***************************************************************************)
EXTENDS Backend, Device

CONSTANT Joining   \* clients with whose setup key the machine gets NetBird to
                   \* work: the installer goes on when JoinNetbird fails
CONSTANT MaxTroubles   \* bound on the failures, lost calls and reboots together
ASSUME MotechAssumption == Joining \subseteq Clients /\ MaxTroubles \in Nat

VARIABLE early   \* history: clients rotated while a handshake was under way

motechVars == <<vars, deviceVars, early>>

MotechInit == Init /\ DeviceInit /\ early = {}

MotechTypeOK == TypeOK /\ DeviceTypeOK /\ early \subseteq Clients

---------------------------------------------------------------------------
(* Calls.                                                                  *)

Awaited(r) == r \in {setup.call, loop.call}

(* The IP a heartbeat reports: none, or that of a peer the machine joined  *)
(* as, whether NetBird lists it or not.                                    *)
MachineIPs == {NoClient} \cup Joining

PostRegister(r) ==
  /\ setup.pc = "register"
  /\ StartRegister(r, setup.client)
  /\ setup' = [setup EXCEPT !.pc = "wait", !.call = r]
  /\ UNCHANGED <<disk, keyfile, service, loop, lost, restarts>>

RegisterAnswered(r) ==
  /\ setup.pc = "wait" /\ setup.call = r
  /\ setup' = AfterRegister(req[r].code, req[r].key)
  /\ Receive(r)
  /\ UNCHANGED <<disk, keyfile, service, loop, lost, restarts>>

(* The installer's TokenManager was seeded before Register, maybe with the *)
(* token of a former client.  Its heartbeat is reported and forgotten.     *)
SetupBeat(r) ==
  /\ setup.pc = "beat"
  /\ \E reload \in BOOLEAN, peer \in MachineIPs :
       /\ StartHeartbeat(r, AuthToken(setup, reload), peer, setup.mem.confirm,
                         setup.mem.applied)
       /\ setup' = [setup EXCEPT !.pc = "beating", !.call = r,
                                 !.cached = FreshToken(@, reload)]
  /\ UNCHANGED <<disk, keyfile, service, loop, lost, restarts>>

AfterSetupBeat(code) ==
  CASE code = 401 /\ disk.token \notin {NoClient, setup.cached} ->
         [setup EXCEPT !.pc = "beat", !.call = NoSlot, !.cached = disk.token]
    [] OTHER ->
         IF code # 200 /\ setup.tries < Attempts
           THEN [setup EXCEPT !.pc = "beat", !.call = NoSlot, !.tries = @ + 1]
           ELSE NoSetup

SetupBeatAnswered(r) ==
  /\ setup.pc = "beating" /\ setup.call = r
  /\ setup' = AfterSetupBeat(req[r].code)
  /\ Receive(r)
  /\ UNCHANGED <<disk, keyfile, service, loop, lost, restarts>>

(* Mutant: every heartbeat confirms, as the agent used to.                 *)
AlwaysConfirms(r) ==
  /\ loop.pc \in {"tick", "resend"}
  /\ LET c == AuthToken(loop, FALSE) IN
     /\ c # NoClient
     /\ \E peer \in MachineIPs : StartHeartbeat(r, c, peer, TRUE, loop.mem.applied)
  /\ loop' = [loop EXCEPT !.pc = "wait", !.call = r]
  /\ UNCHANGED <<disk, keyfile, service, setup, lost, restarts>>

(* Mutant: the heartbeat does not say that ssh was applied.                *)
BeatUnreported(r) ==
  /\ loop.pc \in {"tick", "resend"}
  /\ \E reload \in IF loop.pc = "tick" THEN BOOLEAN ELSE {FALSE} :
       LET c == AuthToken(loop, reload) IN
       /\ loop.pc = "tick" /\ loop.age = 2 => reload
       /\ c # NoClient
       /\ \E peer \in MachineIPs : StartHeartbeat(r, c, peer, loop.mem.confirm, FALSE)
       /\ loop' = [(IF loop.pc = "tick" THEN TickToken(reload) ELSE loop)
                     EXCEPT !.pc = "wait", !.call = r]
  /\ UNCHANGED <<disk, keyfile, service, setup, lost, restarts>>

LoopBeat(r) ==
  /\ loop.pc \in {"tick", "resend"}
  /\ \E reload \in IF loop.pc = "tick" THEN BOOLEAN ELSE {FALSE} :
       LET c == AuthToken(loop, reload) IN
       /\ loop.pc = "tick" /\ loop.age = 2 => reload
       /\ c # NoClient
       /\ \E peer \in MachineIPs :
            StartHeartbeat(r, c, peer, loop.mem.confirm, loop.mem.applied)
       /\ loop' = [(IF loop.pc = "tick" THEN TickToken(reload) ELSE loop)
                     EXCEPT !.pc = "wait", !.call = r]
  /\ UNCHANGED <<disk, keyfile, service, setup, lost, restarts>>

LoopAnswered(r) ==
  /\ loop.pc = "wait" /\ loop.call = r
  /\ LET q == req[r] IN
     loop' = AfterHeartbeat(q.code, q.seen = "disabled", q.rotate, q.key, q.apply)
  /\ Receive(r)
  /\ UNCHANGED <<disk, keyfile, service, setup, lost, restarts>>

(* A transport error or a timeout: the agent stops waiting.                *)
Failed == [setup |-> CASE setup.pc = "wait" -> AfterRegister(0, NoKey)
                       [] setup.pc = "beating" -> AfterSetupBeat(0)
                       [] OTHER -> setup,
           loop |-> IF loop.pc = "wait"
                      THEN AfterHeartbeat(0, FALSE, FALSE, NoKey, FALSE) ELSE loop]

CallLost ==
  /\ lost < MaxLost
  /\ lost' = lost + 1
  /\ \/ setup.call # NoSlot /\ setup' = Failed.setup /\ UNCHANGED loop
     \/ loop.call # NoSlot /\ loop' = Failed.loop /\ UNCHANGED setup
  /\ UNCHANGED <<vars, disk, keyfile, service, restarts>>

(* The server restarts: the calls fail with their connections.             *)
ServerRestarts ==
  /\ lost < MaxLost
  /\ lost' = lost + 1
  /\ ServerCrash
  /\ setup' = Failed.setup /\ loop' = Failed.loop
  /\ UNCHANGED <<disk, keyfile, service, restarts>>

---------------------------------------------------------------------------
(* UpdateClient and PrivateKey change nothing a machine could see.         *)
AdminStart(r, c) ==
  \/ "create" \in Served /\ StartCreateClient(r, c)
  \/ "rotate" \in Served /\ StartRotateKey(r, c)
  \/ "disable" \in Served /\ StartDisableClient(r, c)
  \/ "delete" \in Served /\ StartDeleteClient(r, c)
  \/ "connection" \in Served /\ StartConnection(r, c)

(* A handshake under way with the machine: it has a key to confirm or to   *)
(* install, or a request in flight speaks of one.                          *)
Handshaking(c) ==
  \/ loop.mem.confirm \/ disk.confirm \/ loop.pc \in {"install", "record", "confirm"}
  \/ \E r \in Slots : /\ req[r].op = "heartbeat" /\ req[r].client = c
                      /\ req[r].rotated \/ req[r].rotate

Track ==
  early' = early \cup {c \in Clients : Handshaking(c) /\ ~(active'[c] \subseteq active[c])}

BackendStep(r) ==
  /\ \/ \E c \in Clients : AdminStart(r, c)
     \/ Serve(r)
     \/ Receive(r) /\ ~Awaited(r)
  /\ UNCHANGED deviceVars

AgentStep(r) ==
  \/ PostRegister(r) \/ RegisterAnswered(r)
  \/ SetupBeat(r) \/ SetupBeatAnswered(r)
  \/ LoopBeat(r) \/ LoopAnswered(r)

(* JoinNetbird runs between Register and InstallService, or the NetBird    *)
(* service connects later by itself.                                       *)
WorldStep(c) ==
  /\ TokenExpires(c) \/ (c \in Joining /\ c \in {disk.token, setup.client} /\ PeerJoins(c))
  /\ UNCHANGED deviceVars

MotechNext ==
  /\ \/ \E r \in Slots : BackendStep(r) \/ AgentStep(r)
     \/ \E c \in Clients : StartSetup(c) \/ WorldStep(c)
     \/ SetupStep \/ LoopStep
     \/ LoopStarts \/ Reboot \/ CallLost \/ ServerRestarts
  /\ Track
  /\ (faults + lost + restarts)' <= MaxTroubles

MotechSpec == MotechInit /\ [][MotechNext]_motechVars

(* net/http finishes the requests it has accepted, callers take their      *)
(* answers, and the scheduled task keeps the run loop going: its ticker    *)
(* fires every 20 seconds, its HTTP calls have a timeout, and the commands *)
(* it runs (netbird, PowerShell) are taken to return.  The server accepts  *)
(* any number of connections: other calls that occupy the few slots of an  *)
(* instance over and over do not starve the heartbeat (SF).                *)
MotechFairness ==
  /\ \A r \in Slots :
       /\ WF_motechVars(Serve(r) /\ UNCHANGED deviceVars /\ Track)
       /\ WF_motechVars(Receive(r) /\ ~Awaited(r) /\ UNCHANGED deviceVars /\ Track)
       /\ WF_motechVars(LoopAnswered(r) /\ Track)
       /\ WF_motechVars((RegisterAnswered(r) \/ SetupBeatAnswered(r)) /\ Track)
  /\ SF_motechVars((\E r \in Slots : LoopBeat(r)) /\ Track)
  /\ WF_motechVars(LoopStep /\ Track)
  /\ WF_motechVars(LoopStarts /\ Track)

FairMotechSpec == MotechSpec /\ MotechFairness

---------------------------------------------------------------------------
(* Safety.                                                                 *)

Installed(c) == disk.token = c /\ service /\ setup.pc = "off"

(* The machine has redeemed a single activation code, once, that of c; no  *)
(* rotation of c was committed during another one or during a handshake.   *)
RegisteredOnce(c) ==
  \A d \in Clients : issued[d] <= IF d = c THEN 1 ELSE 0
Undisturbed(c) == c \notin early \cup overlap /\ RegisteredOnce(c)

(* The backend stops pushing a key only when the machine has installed it, *)
(* as long as no rotation is committed during the handshake of another:    *)
(* rotated_ok, timeouts, retried and overtaken heartbeats and reboots of   *)
(* the machine do not confuse the two sides.  (The key of CreateClient     *)
(* counts as confirmed from the start: a machine whose installer failed to *)
(* install it has none.  On a machine that is set up a second time the old *)
(* run loop and the installer may both write the files: see the hazards.)  *)
ConfirmedKeyIsInstalled ==
  \A c \in Clients :
    Undisturbed(c) /\ Installed(c) /\ ~(faults > 0 /\ MotechKeys(keyfile) = {})
      => active[c] \cap acked \subseteq MotechKeys(keyfile)

(* rotated_ok confirms that the agent installed the latest public key, also *)
(* when the administrator rotates again during the handshake.              *)
RotatedOkIsLatestKey ==
  \A c \in Clients \ overlap :
    Installed(c) => active[c] \cap acked \subseteq MotechKeys(keyfile)

(* Once the machine has confirmed every key of the client, the keys that   *)
(* were rotated away before open no door any more.                         *)
OldKeysAreRevoked ==
  \A c \in Clients :
    Undisturbed(c) /\ Installed(c) /\ Live(c) /\ active[c] \subseteq acked
      => MotechKeys(keyfile) \subseteq active[c]

(* The lines of other administrators survive, unless the file could not be *)
(* read, the machine was rebooted or the run loop killed in the middle of  *)
(* a write, or installer and run loop were writing it at the same time.    *)
StoppedInWrite ==
  \/ "install" \in {setup.pc, loop.pc} /\ restarts' > restarts
  \/ setup.pc = "stop" /\ loop.pc = "install" /\ loop'.pc = "off"
OthersKeysKept ==
  [][ OthersLines \subseteq keyfile /\ ~(OthersLines \subseteq keyfile')
        => \/ faults' > faults
           \/ StoppedInWrite
           \/ setup.pc = "install" /\ loop.pc = "install" ]_motechVars

(* Register tries again when the network fails, so that one failure on the *)
(* way does not make the installation fail.                                *)
RegisterSurvivesBlip == setup.pc = "failed" => setup.code # 409

---------------------------------------------------------------------------
(* Liveness.                                                               *)

(* applyCommands does nothing more once the server says DISABLED.          *)
InService(c) == Installed(c) /\ status[c] # "disabled"

(* A rotated key is confirmed by the machine, or replaced by a later one,  *)
(* unless the machine loses its registration (a reboot during a save), is  *)
(* set up again, or is disabled.                                           *)
RotationReachesDevice ==
  \A c \in Clients, k \in Keys :
    InService(c) /\ k \in PendingKeys(c) ~> k \notin PendingKeys(c) \/ ~InService(c)

(* The agent does not go on confirming: rotated_ok stops, unless its       *)
(* client is disabled, or deleted: then every heartbeat ends with 401, and *)
(* applyCommands never runs again.                                         *)
ConfirmEnds ==
  loop.mem.confirm ~>
    \/ ~loop.mem.confirm
    \/ \E c \in Clients : c = AuthToken(loop, FALSE) /\ status[c] \in {"disabled", "deleted"}

(* Once NetBird's SSH is enabled for the peer, the machine is brought to   *)
(* restart NetBird, and the backend learns of it, unless the run loop goes *)
(* on missing the netbird command: it is then asked for ever.              *)
NetbirdMissed ==
  loop.pc = "reup" /\ loop'.pc = "tick" /\ ~loop'.mem.applied
SshGetsApplied ==
  <>[][~NetbirdMissed]_motechVars =>
    \A c \in Clients :
      InService(c) /\ link[c].enabled
        ~> link[c].applied \/ ~link[c].enabled \/ ~InService(c)

(* A run loop that started without the token, or with an old one, comes to *)
(* use the token of agent.json.                                            *)
StaleTokenRecovers ==
  \A c \in Clients : Installed(c) ~> loop.cached = c \/ disk.token # c
=============================================================================
