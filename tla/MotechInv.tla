----------------------------- MODULE MotechInv -----------------------------
(***************************************************************************)
(* The inductive invariant of the key handshake.  It speaks of one client  *)
(* c whose code is the only one the machine has redeemed and whose         *)
(* rotations came one after the other (Undisturbed): then every heartbeat  *)
(* is about c, and c has at most one active key.                           *)
(*                                                                         *)
(* A machine without a Motech key after a failure is in sync by default:   *)
(* the backend counts on a key that the machine could not write.  So one   *)
(* part holds only as long as nothing has failed: there, the file is never *)
(* torn by a reboot once the backend has been told that the key is in it.  *)
(***************************************************************************)
EXTENDS Motech, BackendInv

MK == MotechKeys(keyfile)

Beat(r) == req[r].op = "heartbeat" /\ ~At(r, "idle")
Confirming(r) == Beat(r) /\ req[r].rotated
Granted(r) == req[r].op = "register" /\ At(r, "done") /\ req[r].code = 200

(* Who waits for which answer, and what the processes have at hand.        *)
CallInv ==
  /\ setup.pc = "wait" => /\ setup.call \in Slots /\ ~At(setup.call, "idle")
                          /\ req[setup.call].op = "register"
                          /\ req[setup.call].client = setup.client
  /\ setup.pc = "beating" => setup.call \in Slots /\ Beat(setup.call)
  /\ setup.pc \notin {"wait", "beating"} => setup.call = NoSlot
  /\ loop.pc = "wait" => loop.call \in Slots /\ Beat(loop.call)
  /\ loop.pc # "wait" => loop.call = NoSlot
  /\ setup.call = loop.call => loop.call = NoSlot
  /\ \A r \in Slots : Beat(r) \/ Granted(r) => issued[req[r].client] > 0
Registering == setup.pc \in {"register", "wait"}
Registered ==
  setup.pc \in {"save", "install", "record", "stop", "start", "beat", "beating"}
HandInv ==
  /\ Registering \/ Registered => setup.client \in Clients
  /\ Registered => setup.mem.token = setup.client /\ ~setup.mem.confirm
  /\ setup.pc \in {"install", "record"} => setup.mem.install # NoKey
  /\ loop.pc \in {"install", "record", "confirm"} => loop.key # NoKey

(* Before a code has been redeemed, and while the installer works.         *)
Untouched ==
  /\ setup.pc \in {"off", "failed", "register", "wait"}
  /\ disk = Blank /\ MK = {} /\ ~service /\ loop = LoopOff
Installing == setup.pc \in {"save", "install", "record", "stop", "start"}

FirstInv ==
  /\ (\A d \in Clients : issued[d] = 0) => Untouched
  /\ \A r \in Slots : Granted(r) =>
       /\ Untouched
       /\ \A q \in Slots : ~Beat(q) /\ (Granted(q) => q = r)
  /\ Installing => /\ ~service /\ loop = LoopOff
                   /\ ~disk.confirm /\ ~setup.mem.confirm
                   /\ \A r \in Slots : ~Beat(r) /\ ~Granted(r)

(* The machine has the client's key.                                       *)
InSync(c) ==
  active[c] = {} \/ MK = active[c] \/ (faults > 0 /\ MK = {})
(* k is the key that the backend takes for installed from the start.       *)
Fits(c, k) ==
  active[c] \cap acked = {} \/ active[c] = {k} \/ (k = NoKey /\ faults > 0)

InstallInv(c) ==
  /\ \A r \in Slots : Granted(r) => Fits(c, req[r].key)
  /\ setup.pc = "save" => MK = {} /\ Fits(c, setup.mem.install)
  /\ setup.pc \in {"install", "record"} =>
       /\ setup.mem.install # NoKey /\ Fits(c, setup.mem.install)
       /\ MK \subseteq {setup.mem.install}
  /\ setup.pc = "record" => MK = {setup.mem.install}
  /\ service \/ setup.pc \in {"stop", "start", "beat", "beating"} =>
       active[c] \cap acked = {} \/ InSync(c)

(* A key is confirmed only after it has been installed, ...                *)
PushInv(c) ==
  /\ \A r \in Slots : Beat(r) /\ req[r].rotate /\ req[r].key # NoKey =>
       active[c] \subseteq {req[r].key}
  /\ \A r \in Slots : Confirming(r) => InSync(c)
  /\ disk.confirm => active[c] \subseteq {disk.ssh} /\ InSync(c)
  /\ loop.mem.confirm => active[c] \subseteq {loop.mem.ssh} /\ InSync(c)
  /\ loop.pc \in {"install", "record", "confirm"} =>
       loop.key # NoKey /\ active[c] \subseteq {loop.key}
  /\ loop.pc \in {"record", "confirm"} => MK = {loop.key}
  /\ loop.pc = "confirm" => loop.mem.ssh = loop.key
  /\ loop.pc = "acked" => loop.mem.confirm

(* ... and once it may have been confirmed, the agent knows it, unless     *)
(* something failed.                                                       *)
Remembered(c) ==
  active[c] = {} \/ (disk.confirm /\ active[c] \subseteq {disk.ssh})
Told(c) == (\E r \in Slots : Confirming(r)) \/ disk.confirm

(* The awaited heartbeat has found no rotation pending.                    *)
NothingPending(q) ==
  ~q.rotate /\ (q.pc \in {"hb_ssh", "hb_reply"} \/ (q.pc = "done" /\ q.code = 200))

SoberInv(c) ==
  /\ loop.pc # "off" => loop.mem = disk /\ loop.cached = disk.token
  /\ loop.pc \notin {"off", "tick"} => disk.token # NoClient
  /\ Told(c) /\ active[c] \cap acked = {} /\ disk.token # NoClient => Remembered(c)
  /\ loop.pc = "wait" =>
       LET q == req[loop.call] IN
       /\ q.rotate /\ (Told(c) \/ active[c] \cap acked # {}) => Remembered(c)
       /\ loop.mem.confirm /\ NothingPending(q) => active[c] \subseteq acked
  /\ loop.pc \in {"install", "record", "confirm"} /\ active[c] # {} =>
       active[c] \cap acked = {} /\ ~Told(c)
  /\ loop.pc = "acked" => active[c] \subseteq acked

HandshakeInv ==
  \A c \in Clients : Undisturbed(c) =>
    /\ FirstInv /\ InstallInv(c) /\ PushInv(c)
    /\ faults = 0 => SoberInv(c)

MotechInv == MotechTypeOK /\ CallInv /\ HandInv /\ HandshakeInv
=============================================================================
