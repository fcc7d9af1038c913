------------------------------- MODULE Device -------------------------------
(***************************************************************************)
(* The agent on one customer machine: its files, the installer that a      *)
(* person runs with an activation code (motech-connect register, or the    *)
(* GUI), and the run loop that a scheduled task keeps alive.  Installer    *)
(* and run loop are two processes.  Each keeps its own copy of agent.json  *)
(* in memory and writes the whole file back; the file has no lock.         *)
(*                                                                         *)
(* The machine may be set up again with the code of another client, while  *)
(* the run loop of the previous one is still alive.                        *)
(***************************************************************************)
EXTENDS BackendState, AuthorizedKeys

CONSTANTS
  NoSlot,
  Attempts,      \* POSTs of Register (5 in the code) and of the installer's
                 \* heartbeat (3) before it gives up
  MaxLost,       \* bound on the calls of the agent that fail on the network
  MaxRestarts    \* bound on the reboots of the machine

ASSUME DeviceAssumption ==
  /\ NoSlot \notin Slots
  /\ Attempts \in Nat \ {0} /\ {MaxLost, MaxRestarts} \subseteq Nat

VARIABLES
  disk,       \* agent.json
  keyfile,    \* administrators_authorized_keys
  service,    \* the scheduled task is registered
  setup,      \* the installer process
  loop,       \* the run-loop process
  lost,       \* calls that failed on the network so far
  restarts    \* reboots so far

(* The State struct; a missing or unreadable file loads as Blank.          *)
Files == [token : Clients \cup {NoClient},    \* the client AgentToken is of
          install : Keys \cup {NoKey}, ssh : Keys \cup {NoKey},
          confirm : BOOLEAN,                  \* RotateConfirmPending
          applied : BOOLEAN]                  \* SSHApplied
Blank == [token |-> NoClient, install |-> NoKey, ssh |-> NoKey,
          confirm |-> FALSE, applied |-> FALSE]

Setups == [pc : {"off", "failed", "register", "wait", "save", "install", "record",
                 "stop", "start", "beat", "beating"},
           client : Clients \cup {NoClient}, tries : 0..Attempts, pass : 1..2,
           mem : Files, cached : Clients \cup {NoClient},
           call : Slots \cup {NoSlot}, code : Codes]
NoSetup == [pc |-> "off", client |-> NoClient, tries |-> 0, pass |-> 1,
            mem |-> Blank, cached |-> NoClient, call |-> NoSlot, code |-> 0]

Loops == [pc : {"off", "tick", "wait", "resend", "install", "record", "confirm",
                "acked", "reup"},
          mem : Files, cached : Clients \cup {NoClient}, age : 0..2,
          retried : BOOLEAN, call : Slots \cup {NoSlot}, key : Keys \cup {NoKey},
          apply : BOOLEAN]
LoopOff == [pc |-> "off", mem |-> Blank, cached |-> NoClient, age |-> 0,
            retried |-> FALSE, call |-> NoSlot, key |-> NoKey, apply |-> FALSE]

deviceVars == <<disk, keyfile, service, setup, loop, lost, restarts>>

DeviceTypeOK ==
  /\ disk \in Files /\ service \in BOOLEAN
  /\ keyfile \subseteq OthersLines \cup {Line(k, TRUE) : k \in Keys}
  /\ setup \in Setups /\ loop \in Loops
  /\ lost \in 0..MaxLost /\ restarts \in 0..MaxRestarts

DeviceInit ==
  /\ disk = Blank /\ keyfile = OthersLines /\ service = FALSE
  /\ setup = NoSetup /\ loop = LoopOff
  /\ lost = 0 /\ restarts = 0

---------------------------------------------------------------------------
(* The code ignores the error of every save but that of Register.          *)
SaveFile(m) == \/ disk' = m /\ UNCHANGED faults
               \/ Fault /\ UNCHANGED disk

(* os.WriteFile truncates first: a process that stops in the middle leaves *)
(* an agent.json that loadState cannot parse, or an empty key file.        *)
SetupSaving == setup.pc \in {"save", "record"}
LoopSaving == loop.pc \in {"record", "confirm", "acked", "reup"}
Interrupted(saving) == IF saving THEN {disk, Blank} ELSE {disk}
TornKeys(writing) == IF writing THEN {keyfile, {}} ELSE {keyfile}

Reboot ==
  /\ restarts < MaxRestarts
  /\ restarts' = restarts + 1
  /\ disk' \in Interrupted(SetupSaving \/ LoopSaving)
  /\ keyfile' \in TornKeys("install" \in {setup.pc, loop.pc})
  /\ setup' = NoSetup
  /\ loop' = LoopOff
  /\ UNCHANGED <<dbVars, req, faults, service, lost>>

(* installAuthorizedKey, by one process.  It reads what the file has, or   *)
(* nothing: another process has just truncated it, or the read fails.      *)
WriteKey(k, other) ==
  \/ keyfile' \in {Merge(f, k) : f \in TornKeys(other = "install")} /\ UNCHANGED faults
  \/ Fault /\ keyfile' = Merge({}, k)

---------------------------------------------------------------------------
(* The installer: Register, SetupAccess, InstallService, first heartbeat.  *)

StartSetup(c) ==
  /\ setup.pc \in {"off", "failed"}
  /\ token[c] = "unused" /\ disk.token # c
  /\ setup' = [NoSetup EXCEPT !.pc = "register", !.client = c, !.tries = 1,
                              !.mem = disk, !.cached = disk.token]
  /\ UNCHANGED <<dbVars, req, faults, disk, keyfile, service, loop, lost, restarts>>

(* Mutant: one try more than allowed.                                      *)
OneTryMore(code, key) ==
  CASE code = 200 ->
         [setup EXCEPT !.pc = "save", !.call = NoSlot,
            !.mem = [Blank EXCEPT !.token = setup.client, !.install = key]]
    [] code = 0 /\ setup.tries <= Attempts ->
         [setup EXCEPT !.pc = "register", !.call = NoSlot, !.tries = @ + 1]
    [] OTHER -> [NoSetup EXCEPT !.pc = "failed", !.client = setup.client]

(* The answer of POST /api/agent/register: code 0 is a transport error,    *)
(* tried again like every answer from 500 on.                              *)
(* The state saved before is replaced, not merged.                         *)
AfterRegister(code, key) ==
  CASE code = 200 ->
         [setup EXCEPT !.pc = "save", !.call = NoSlot,
            !.mem = [Blank EXCEPT !.token = setup.client, !.install = key]]
    [] (code = 0 \/ code >= 500) /\ setup.tries < Attempts ->
         [setup EXCEPT !.pc = "register", !.call = NoSlot, !.tries = @ + 1]
    [] OTHER ->
         [NoSetup EXCEPT !.pc = "failed", !.client = setup.client, !.code = code]

SaveRegistration ==
  /\ setup.pc = "save"
  /\ \/ /\ disk' = setup.mem
        /\ setup' = [setup EXCEPT !.pc = IF setup.mem.install = NoKey
                                           THEN "stop" ELSE "install"]
        /\ UNCHANGED faults
     \/ /\ Fault
        /\ setup' = [NoSetup EXCEPT !.pc = "failed", !.client = setup.client]
        /\ UNCHANGED disk
  /\ UNCHANGED <<dbVars, req, keyfile, service, loop, lost, restarts>>

(* installServerPublicKey, which Register runs and SetupAccess runs again, *)
(* up to three times: a fault here stands for all of them.                 *)
AfterKey == IF setup.pass = 1 THEN [setup EXCEPT !.pc = "install", !.pass = 2]
                              ELSE [setup EXCEPT !.pc = "stop"]

SetupInstallsKey ==
  /\ setup.pc = "install"
  /\ \/ /\ WriteKey(setup.mem.install, loop.pc)
        /\ setup' = [setup EXCEPT !.pc = "record"]
     \/ /\ Fault
        /\ setup' = AfterKey
        /\ UNCHANGED keyfile
  /\ UNCHANGED <<dbVars, req, disk, service, loop, lost, restarts>>

SetupRecordsKey ==
  LET m == [setup.mem EXCEPT !.ssh = setup.mem.install] IN
  /\ setup.pc = "record"
  /\ SaveFile(m)
  /\ setup' = [AfterKey EXCEPT !.mem = m]
  /\ UNCHANGED <<dbVars, req, keyfile, service, loop, lost, restarts>>

(* InstallService removes the old task and kills its process, whatever it  *)
(* is doing.  The error of taskkill is ignored.                            *)
StopOldLoop ==
  /\ setup.pc = "stop"
  /\ service' = FALSE
  /\ \/ /\ loop' = LoopOff
        /\ disk' \in Interrupted(LoopSaving)
        /\ keyfile' \in TornKeys(loop.pc = "install")
        /\ UNCHANGED faults
     \/ Fault /\ UNCHANGED <<loop, disk, keyfile>>
  /\ setup' = [setup EXCEPT !.pc = "start"]
  /\ UNCHANGED <<dbVars, req, lost, restarts>>

(* The task starts a run loop: New loads agent.json and seeds the token    *)
(* cache; next to one that is alive it exits (the single-instance mutex).  *)
Started ==
  IF loop.pc # "off" THEN loop
  ELSE [LoopOff EXCEPT !.pc = "tick", !.mem = disk, !.cached = disk.token]

StartService ==
  /\ setup.pc = "start"
  /\ \/ service' = TRUE /\ loop' = Started /\ UNCHANGED faults
     \/ Fault /\ UNCHANGED <<service, loop>>
  /\ setup' = [setup EXCEPT !.pc = "beat", !.tries = 1]
  /\ UNCHANGED <<dbVars, req, disk, keyfile, lost, restarts>>

(* The scheduled task starts the agent at boot and at logon.               *)
LoopStarts ==
  /\ service /\ loop.pc = "off"
  /\ loop' = Started
  /\ UNCHANGED <<dbVars, req, faults, disk, keyfile, service, setup, lost, restarts>>

---------------------------------------------------------------------------
(* TokenManager.  Get serves the cached token for 30 seconds, which is two *)
(* heartbeats (age), then reads agent.json again; a file without a token   *)
(* leaves the cache as it is.  Neither changes the State in memory.        *)

FreshToken(cached, reload) ==
  IF reload /\ disk.token # NoClient THEN disk.token ELSE cached
AuthToken(p, reload) ==
  LET t == FreshToken(p.cached, reload)
  IN  IF t = NoClient THEN p.mem.token ELSE t

(* Mutant: a token manager that never reads the file again.                *)
CachedForever(reload) == [loop EXCEPT !.age = IF @ = 2 THEN 2 ELSE @ + 1]

TickToken(reload) ==
  LET read == reload /\ disk.token # NoClient IN
  [loop EXCEPT !.cached = FreshToken(loop.cached, reload),
               !.age = IF read THEN 1 ELSE IF @ = 2 THEN 2 ELSE @ + 1]

(* The heartbeat cannot be sent: "not registered".                         *)
LoopUnregistered ==
  /\ loop.pc = "tick"
  /\ \E reload \in BOOLEAN :
       /\ loop.age = 2 => reload
       /\ AuthToken(loop, reload) = NoClient
       /\ loop' = TickToken(reload)
  /\ UNCHANGED <<dbVars, req, faults, disk, keyfile, service, setup, lost, restarts>>

(* The answer of POST /api/agent/heartbeat, code 0 being a transport error. *)
(* A 401 is tried again once, if agent.json has another token by now; any  *)
(* other error waits for the next tick; applyCommands looks at the rest.   *)
BeatOver == [loop EXCEPT !.pc = "tick", !.call = NoSlot, !.retried = FALSE]

ForceReload ==
  IF disk.token = NoClient THEN BeatOver
  ELSE IF disk.token = loop.cached THEN [BeatOver EXCEPT !.age = 1]
  ELSE [loop EXCEPT !.pc = "resend", !.call = NoSlot, !.retried = TRUE,
                    !.cached = disk.token, !.age = 1, !.mem.token = disk.token]

Reup(apply) == apply /\ ~loop.mem.applied

AfterHeartbeat(code, disabled, rotate, key, apply) ==
  CASE code = 401 /\ ~loop.retried -> ForceReload
    [] code = 200 /\ ~disabled /\ rotate /\ key # NoKey
         /\ ~(loop.mem.confirm /\ loop.mem.ssh = key) ->
         [BeatOver EXCEPT !.pc = "install", !.key = key]
    [] code = 200 /\ ~disabled /\ ~rotate /\ loop.mem.confirm ->
         [BeatOver EXCEPT !.pc = "acked", !.apply = apply]
    [] code = 200 /\ ~disabled /\ ~rotate /\ ~loop.mem.confirm /\ Reup(apply) ->
         [BeatOver EXCEPT !.pc = "reup"]
    [] OTHER -> BeatOver

(* applyCommands, rotate: the pushed key goes into the file, then twice    *)
(* into agent.json, the second time with RotateConfirmPending.             *)
InstallPushedKey ==
  /\ loop.pc = "install"
  /\ \/ /\ WriteKey(loop.key, setup.pc)
        /\ loop' = [loop EXCEPT !.pc = "record"]
     \/ /\ Fault
        /\ loop' = [loop EXCEPT !.pc = "tick", !.key = NoKey]
        /\ UNCHANGED keyfile
  /\ UNCHANGED <<dbVars, req, disk, service, setup, lost, restarts>>

LoopSaves(m, next, k) ==
  /\ SaveFile(m)
  /\ loop' = [loop EXCEPT !.pc = next, !.mem = m, !.key = k, !.apply = FALSE]
  /\ UNCHANGED <<dbVars, req, keyfile, service, setup, lost, restarts>>

RecordPushedKey ==
  /\ loop.pc = "record"
  /\ LoopSaves([loop.mem EXCEPT !.ssh = loop.key, !.install = loop.key],
               "confirm", loop.key)

(* Mutant: RotateConfirmPending is not set.                                *)
ForgetToConfirm ==
  /\ loop.pc = "confirm"
  /\ LoopSaves(loop.mem, "tick", NoKey)

ConfirmPending ==
  /\ loop.pc = "confirm"
  /\ LoopSaves([loop.mem EXCEPT !.confirm = TRUE], "tick", NoKey)

(* Mutant: RotateConfirmPending is not reset.                              *)
ConfirmForever ==
  /\ loop.pc = "acked"
  /\ LoopSaves(loop.mem, IF Reup(loop.apply) THEN "reup" ELSE "tick", NoKey)

(* rotate=false while confirming: the server has it.                       *)
ConfirmAcknowledged ==
  /\ loop.pc = "acked"
  /\ LoopSaves([loop.mem EXCEPT !.confirm = FALSE],
               IF Reup(loop.apply) THEN "reup" ELSE "tick", NoKey)

(* apply_ssh: NetBird is taken down and up; its exit status is ignored.    *)
(* Without the netbird command on the path nothing is done or recorded.    *)
ReupNetbird ==
  /\ loop.pc = "reup"
  /\ \/ LoopSaves([loop.mem EXCEPT !.applied = TRUE], "tick", NoKey)
     \/ /\ loop' = [loop EXCEPT !.pc = "tick"]
        /\ UNCHANGED <<dbVars, req, faults, disk, keyfile, service, setup, lost, restarts>>

LoopStep ==
  \/ LoopUnregistered \/ InstallPushedKey \/ RecordPushedKey
  \/ ConfirmPending \/ ConfirmAcknowledged \/ ReupNetbird

SetupStep ==
  \/ SaveRegistration \/ SetupInstallsKey \/ SetupRecordsKey
  \/ StopOldLoop \/ StartService
=============================================================================
