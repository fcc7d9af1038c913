------------------------------ MODULE Presence ------------------------------
(***************************************************************************)
(* What the dashboard shows of a machine: online or offline, derived when  *)
(* it is asked for from the stored status, from the time of the last       *)
(* heartbeat and from NetBird's list of peers, which takes its time to     *)
(* come while the machine, the administrators and the clock go on.         *)
(*                                                                         *)
(* Time passes in ticks, between which statements of the database are      *)
(* instantaneous and calls of NetBird are not.  One machine is enough:     *)
(* rows do not influence each other.                                       *)
(***************************************************************************)
EXTENDS Naturals

CONSTANTS
  Period,      \* ticks between the heartbeats of an agent: 20 s
  Threshold,   \* offlineThreshold in ticks: 60 s
  Timeout,     \* ticks a call of NetBird may take: 15 s
  Lag          \* ticks the two calls of EnableSSH may take: 30 s

ASSUME PresenceAssumption ==
  Period \in Nat \ {0} /\ Threshold \in Nat /\ Timeout \in Nat /\ Lag \in Nat

VARIABLES
  agent,     \* the machine's agent: "none", "installing" from its registration,
             \* "running" from the start of the run loop, "heard" from the
             \* first heartbeat of the run loop that was recorded
  stored,    \* clients.status
  age,       \* ticks since clients.last_seen, Never beyond the threshold
  elapsed,   \* ticks since the agent's ticker last fired
  missed,    \* history: heartbeats due since last_seen was written, until
             \* it is beyond the threshold
  beats,     \* heartbeats being served: ticks since, and the status they read
  ip,        \* netbird_links.peer_id is set
  peer,      \* NetBird: the machine's peer is "gone", "up" or "down"
  list       \* the request being served

presence == <<agent, stored, age, elapsed, missed, beats, ip, peer, list>>

Never == Threshold + 1
Later(n) == IF n < Never THEN n + 1 ELSE n

(* status, age: as ListClients read them, the age growing since; missed,   *)
(* heard: history, what held then; waited: ticks since; live: what         *)
(* PeerLiveStatus says of the machine's IP; shown: the answer.             *)
NoList == [pc |-> "idle", status |-> "pending", age |-> Never, missed |-> 0,
           heard |-> FALSE, waited |-> 0, live |-> "empty", shown |-> "none"]

---------------------------------------------------------------------------
(* The machine.  AgentHeartbeat reads the status, may wait for NetBird to  *)
(* enable SSH, and then writes last_seen and the status "online", unless   *)
(* it read "disabled".  It goes on when the agent has given up waiting.    *)

(* Registration: AgentRegister writes the status "online" and last_seen.   *)
AgentJoins ==
  /\ agent = "none"
  /\ agent' = "installing" /\ stored' = "online" /\ age' = 0
  /\ UNCHANGED <<elapsed, missed, beats, ip, peer, list>>

(* A heartbeat reaches the server, or it is lost, or the agent is busy and *)
(* skips it.                                                               *)
Heartbeat ==
  /\ elapsed' = 0
  /\ missed' = IF age < Never THEN missed + 1 ELSE missed
  /\ \/ /\ beats' = beats \cup {[waited |-> 0, seen |-> stored]}
        /\ ip' \in {ip, peer # "gone"}
     \/ UNCHANGED <<beats, ip>>
  /\ UNCHANGED <<stored, age, peer, list>>

(* The run loop, which the installer starts when it is done with NetBird,  *)
(* sends a heartbeat at once and then by its 20 s ticker.                  *)
Running == agent \in {"running", "heard"}
AgentStarts ==
  /\ agent = "installing"
  /\ agent' = "running"
  /\ Heartbeat

BeatIsDue ==
  /\ Running /\ elapsed = Period
  /\ Heartbeat
  /\ UNCHANGED agent

BeatIsRecorded(b) ==
  /\ IF b.seen = "disabled" THEN UNCHANGED <<agent, stored, age, missed>>
     ELSE agent' = "heard" /\ stored' = "online" /\ age' = 0 /\ missed' = 0
  /\ beats' = beats \ {b}
  /\ UNCHANGED <<elapsed, ip, peer, list>>

(* The UPDATE fails, or the server stops.                                  *)
BeatIsDropped(b) ==
  /\ beats' = beats \ {b}
  /\ UNCHANGED <<agent, stored, age, elapsed, missed, ip, peer, list>>

(* NetBird: the peer comes, connects and disconnects, or is removed with   *)
(* NetBird's own dashboard.                                                *)
PeerChanges ==
  /\ stored = "online"
  /\ peer' \in {"up", "down", "gone"}
  /\ UNCHANGED <<agent, stored, age, elapsed, missed, beats, ip, list>>

(* DisableClient removes the peer it has on record.                        *)
Disable ==
  /\ stored' = "disabled"
  /\ peer' \in {peer, IF ip THEN "gone" ELSE peer}
  /\ ip' = (ip /\ peer' # "gone")
  /\ UNCHANGED <<agent, age, elapsed, missed, beats, list>>

Tick ==
  /\ list.pc \in {"idle", "netbird"}
  /\ Running => elapsed < Period
  /\ list.pc = "netbird" => list.waited < Timeout
  /\ \A b \in beats : b.waited < Lag
  /\ age' = Later(age)
  /\ beats' = {[b EXCEPT !.waited = @ + 1] : b \in beats}
  /\ elapsed' = IF Running THEN elapsed + 1 ELSE elapsed
  /\ list' = IF list.pc = "idle" THEN list
             ELSE [list EXCEPT !.age = Later(@), !.waited = @ + 1]
  /\ UNCHANGED <<agent, stored, missed, ip, peer>>

---------------------------------------------------------------------------
(* Mutant: half the window.                                                *)
EffectiveTooSoon(status, seen) ==
  IF status # "online" THEN status
  ELSE IF seen * 2 > Threshold THEN "offline" ELSE "online"

effectiveStatus(status, seen) ==
  IF status # "online" THEN status
  ELSE IF seen > Threshold THEN "offline" ELSE "online"

(* GetClient: one row, and no question to NetBird.                         *)
GetClient ==
  /\ list.pc = "idle"
  /\ list' = [NoList EXCEPT !.pc = "done", !.status = stored, !.age = age,
                !.missed = missed, !.heard = (agent = "heard"),
                !.shown = effectiveStatus(stored, age)]
  /\ UNCHANGED <<agent, stored, age, elapsed, missed, beats, ip, peer>>

ListClients ==
  /\ list.pc = "idle"
  /\ list' = [NoList EXCEPT !.pc = "netbird", !.status = stored, !.age = age,
                !.missed = missed, !.heard = (agent = "heard")]
  /\ UNCHANGED <<agent, stored, age, elapsed, missed, beats, ip, peer>>

(* The map is empty when the call fails, and says nothing of a peer that   *)
(* is gone.                                                                *)
PeerLiveStatus ==
  /\ list.pc = "netbird"
  /\ \E live \in {"empty", peer} : list' = [list EXCEPT !.live = live, !.pc = "links"]
  /\ UNCHANGED <<agent, stored, age, elapsed, missed, beats, ip, peer>>

(* A peer that is known not to be connected makes an online client         *)
(* offline; without the client's IP, or without an entry, it stays online. *)
Refined(status, known, live) ==
  IF status = "online" /\ known /\ live = "down" THEN "offline" ELSE status

(* Mutant: the age is taken when the rows are read.                        *)
ShowStale ==
  /\ list.pc = "links"
  /\ list' = [list EXCEPT !.pc = "done",
                !.shown = Refined(effectiveStatus(list.status, list.age - list.waited),
                                  ip, list.live)]
  /\ UNCHANGED <<agent, stored, age, elapsed, missed, beats, ip, peer>>

Show ==
  /\ list.pc = "links"
  /\ \E read \in BOOLEAN :
       list' = [list EXCEPT !.pc = "done",
                  !.shown = Refined(effectiveStatus(list.status, list.age),
                                    read /\ ip, list.live)]
  /\ UNCHANGED <<agent, stored, age, elapsed, missed, beats, ip, peer>>

ListReceived ==
  /\ list.pc = "done"
  /\ list' = NoList
  /\ UNCHANGED <<agent, stored, age, elapsed, missed, beats, ip, peer>>

PresenceInit ==
  /\ agent = "none" /\ stored = "pending" /\ age = Never
  /\ elapsed = 0 /\ missed = 0 /\ beats = {} /\ ip = FALSE /\ peer = "gone"
  /\ list = NoList

PresenceNext ==
  \/ AgentJoins \/ AgentStarts \/ BeatIsDue \/ PeerChanges \/ Disable \/ Tick
  \/ \E b \in beats : BeatIsRecorded(b) \/ BeatIsDropped(b)
  \/ GetClient \/ ListClients \/ PeerLiveStatus \/ Show \/ ListReceived

PresenceSpec == PresenceInit /\ [][PresenceNext]_presence

---------------------------------------------------------------------------
Lists == [pc : {"idle", "netbird", "links", "done"},
          status : {"pending", "online", "disabled"}, age : 0..Never,
          missed : Nat, heard : BOOLEAN, waited : 0..Timeout,
          live : {"empty", "gone", "up", "down"},
          shown : {"none", "pending", "online", "offline", "disabled"}]

PresenceTypeOK ==
  /\ agent \in {"none", "installing", "running", "heard"}
  /\ stored \in {"pending", "online", "disabled"}
  /\ age \in 0..Never /\ elapsed \in 0..Period /\ missed \in Nat
  /\ beats \subseteq [waited : 0..Lag, seen : {"online", "disabled"}]
  /\ ip \in BOOLEAN /\ peer \in {"gone", "up", "down"}
  /\ list \in Lists

(* However long NetBird took, a client is shown online only when it was    *)
(* heard of within the threshold before the answer.                        *)
OnlineIsRecent == list.pc = "done" /\ list.shown = "online" => age <= Threshold

(* A machine whose peer is not known to be disconnected, once its run loop *)
(* has been heard of, is shown offline only when heartbeats after that     *)
(* have not been recorded: at least two of them had fallen due when the    *)
(* list was asked for, and a third one unless NetBird was slow to answer.  *)
(* They were lost, skipped by a busy agent, or are themselves still        *)
(* waiting for NetBird.                                                    *)
OfflineIsEarned ==
  list.pc = "done" /\ list.shown = "offline" /\ list.live # "down" /\ list.heard =>
    Period * (list.missed + 1) + list.waited > Threshold
=============================================================================
