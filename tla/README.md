# Motech platform: specification, model checking and proofs

Motech manages remote Windows machines. A backend (Go, PostgreSQL) keeps the
clients, owns their SSH key pairs and drives the NetBird mesh; an agent on each
machine redeems an activation code, joins the mesh, installs the public key and
polls the backend for commands. This directory specifies the protocol between
the two and what happens inside each, checks it with TLC and proves the core of
it with TLAPS.

## The system

| Part | State it keeps | Operations | Talks to |
|---|---|---|---|
| Client administration (`backend/internal/handlers/handlers.go`) | rows of `clients`, `setup_tokens`, `ssh_keys`, `netbird_links` | CreateClient, UpdateClient, RotateKey, PrivateKey, DisableClient, DeleteClient, Connection | database, NetBird |
| Agent API (same file) | the same rows | AgentRegister, AgentHeartbeat | database, NetBird, agents |
| NetBird client (`backend/internal/netbird`) | none; setup keys and peers live in NetBird | CreateSetupKey, DeletePeer, DeleteSetupKey, EnableSSH, PeerLiveStatus | NetBird |
| Activity log (`logActivity`) | `activity_log` | one INSERT per operation | database |
| Presence (`effectiveStatus`, ListClients, GetClient) | none, derives | ListClients, GetClient | database, NetBird, the clock |
| Admin accounts (`handlers.go`, `auth.go`, `seedAdmin`) | `admins`; tokens live in the browsers | Login, Me, UpdateMe, seedAdmin | database |
| Setup page, config, cryptography | none | SetupPage | database |
| Agent installer (`agent/cmd/agent`, `Register` ... `InstallService`) | `agent.json`, `administrators_authorized_keys`, the scheduled task | Register, JoinNetbird, SetupAccess, InstallService, Heartbeat | backend, NetBird, Windows |
| Agent run loop (`agent.go`) | its copy of `agent.json` in memory, the file | Heartbeat, applyCommands | backend |
| Token manager (`token.go`) | cached token and its age | Get, ForceReload | `agent.json` |
| Dashboard, GUI installers, signing, CI | - | - | - |

What is hard here:

- **Concurrency in the backend.** Handlers run at the same time and most commit
  statement by statement; check and act, read and use are separate statements.
  RotateKey, CreateClient and the cascading DELETE hold locks at READ COMMITTED.
- **Errors that are dropped.** Most statements of the agent API ignore their
  error and go on, with zero values in their variables.
- **The rotation handshake.** rotate, install, `rotated_ok`, acknowledge: over
  HTTP calls that get lost, time out after they took effect, and are repeated.
- **Two processes, one file.** Installer and run loop each write their whole
  copy of `agent.json` without a lock; `os.WriteFile` truncates first; reboots
  and `taskkill` come at any point. The key file, shared with other
  administrators, is read, merged and written as a whole too.
- **Side effects beside the transaction.** NetBird calls and the entries of the
  activity log happen outside of the transaction they belong to, and may fail,
  or be cut off, on their own.
- **A status made of three clocks.** "Online" is derived from `last_seen`, which
  a heartbeat writes up to 30 s after it came, from a NetBird answer up to 15 s
  old, and from the time of the question.
- **Accounts.** UpdateMe checks and writes in separate statements; seedAdmin runs
  at every start and must not hand the default password out again.

`PROJECT.json` lists these hazards one by one with their lines and the
properties that guard them.

## The modules

| Module | What it models | Extends |
|---|---|---|
| `BackendState` | rows, NetBird objects, request slots, faults, the type invariant, Init | |
| `ClientAdmin` | the dashboard's handlers for clients | `BackendState` |
| `AgentApi` | the agents' handlers | `BackendState` |
| `Backend` | both together, the server's crash, time, NetBird, and the most general agents; properties | `ClientAdmin`, `AgentApi` |
| `ClientRegistry` | abstract: what the backend promises about the keys of its clients | |
| `BackendInv` | the inductive invariants | `Backend` |
| `BackendRegistry` | the backend as an implementation of `ClientRegistry` | `BackendInv` |
| `Audit` | the activity log next to `Backend` | `Backend` |
| `Accounts` | administrators, their tabs, seedAdmin | |
| `Presence` | heartbeats, clock, NetBird and the status shown | |
| `Dashboard` | the three behind the dashboard's pages | `Audit`, `Accounts`, `Presence` |
| `AuthorizedKeys` | `administrators_authorized_keys` as a set of lines, and the merge | |
| `Device` | files, installer, run loop and token manager of one machine | `BackendState`, `AuthorizedKeys` |
| `Motech` | backend and machine composed, calls that are lost; properties | `Backend`, `Device` |
| `MotechInv` | the inductive invariant of the key handshake | `Motech`, `BackendInv` |
| `BackendSteps`, `BackendTheorems`, `AccessTheorems`, `RequestTheorems` | lemmas and theorems about `Backend`, each on top of the one before | `BackendInv` |
| `RegistryTheorems`, `BackendRefinement` | what the registry promises; the refinement | `ClientRegistry`; `BackendTheorems`, `BackendRegistry` |
| `DashboardTheorems` | theorems about `Accounts`, `Presence`, `Audit` | `Dashboard`, `RequestTheorems` |
| `MotechTheorems` | theorems about backend and machine together | `MotechInv`, `RequestTheorems` |
| `MCBackend`, `MCDashboard`, `MCMotech` | instances for TLC | |

**Backend.** A request is a slot in `req`: the operation, a program counter and
the handler's local variables. Each SQL statement and each NetBird call is one
action, in the order of the code, with the code's early returns. `Respond` ends
a handler and rolls an open transaction back, as the deferred `tx.Rollback`
does. Rows are abstracted: `status` is `clients.status` (or no row), `token` the
setup token, `active` and `acked` the `ssh_keys` rows and their `rotated_at`,
`link` the `netbird_links` row with the four columns that decide something, `nb`
the setup key and the peer in NetBird. A peer is named by the client whose setup
key it joined with, in `nb` and in `link.peer` alike. A key pair is one value:
`generateKeypair` never returns one twice. An agent token is the id of the client
it was issued for. Agents of `Backend` are the most general ones: once registered
they may report any IP, also one that NetBird does not list (yet, or any more)
and the one of another client's peer.

The transactions follow PostgreSQL at READ COMMITTED. RotateKey's DELETE sees
the rows committed when the statement starts (`snap`), waits for rows another
transaction has deleted, skips those that are gone (`doomed` is what it got);
its INSERT needs the client's row and waits for a DELETE of it; the cascade of
that DELETE waits for locked key rows; when the two wait for each other one of
them fails. CreateClient's rows are invisible until the commit, so its
statements up to the NetBird call are one step.

A request keeps the locals its handler still reads: an answer, and the statement
that reads a local for the last time, clear them, so that requests that can no
longer differ are one state.

`Fields` is the set of columns that `models.NetbirdLink` can receive. With
`NetbirdLinkFields`, the struct as it is, `SELECT *` into it fails since
migrations 004 and 005 added two columns: DisableClient and DeleteClient then
never get to NetBird. `BackendAccess` and `Dashboard` take `LinkColumns`, a
struct with a field for every column, so that the statements behind the defect
are reached as well; what they check is true of both structs (the theorems leave
`Fields` open), and no other run repairs anything.

**ClientRegistry.** A client is absent, live or deleted and has a set of keys;
a key pair is made once, is fresh until it becomes a key of one client, and is
used up then; a rotation replaces all keys in one step, unless rotations of that
client have met; a key may be confirmed. No requests, statements, locks or
crashes. `BackendRegistry` maps rows to it: `active` is `keys`, `acked` is
`confirmed`, and a pair in the hands of a request that has not committed is
fresh. `RefinesRegistry` says that every step of the backend is a step of the
registry or a stutter, under that mapping. In particular a revoked key never
comes back.

**Audit.** `owed` is the entry a request has still to write. A handler writes it
after its own statements and before it answers, and that INSERT is one more
step: it may fail, the server may stop before it, other requests come between.
The row refers to the client: it waits for a DELETE of the client's row, fails
when the row is gone, and loses its client (SET NULL) when the row goes later.

**Accounts.** `admins` is the table, a row per id; `tab` a browser tab's
UpdateMe with what it has read; `session` the id its token names. ReadMe,
CheckUnique, UpdateEmail and UpdatePassword are the handler's statements in
their order, with its early returns (a short password is refused only after the
e-mail has been changed). A restart loses the requests, keeps the tokens, and
runs seedAdmin.

**Presence.** One machine; time passes in ticks. Its agent registers and is
busy with the installation, then the run loop starts with a heartbeat and goes on
with one every `Period`; a heartbeat is lost or skipped, or it reaches the
server, where it may wait up to `Lag` for EnableSSH before `last_seen` is
written. The peer may come, disconnect, and be removed in NetBird itself.
ListClients reads the rows, waits up to `Timeout` for NetBird, reads the links
and judges the rows it read by the clock it has then. `missed` counts, for the
property only, the heartbeats that fell due without being recorded.

**Dashboard.** The three share no row, so a behaviour is of one `page`, and
their instances add up. The requests' page is split: two administrators'
requests at a time without heartbeats, or one request at a time with them.

**Device.** `disk` is `agent.json` (five fields that decide something),
`keyfile` the lines of the authorized-keys file, tagged when they are ours;
writing it may be cut off like every save, and two processes may write it at
the same time. `setup` the installer process with its own
copy of the state and its TokenManager, `loop` the run loop with its own. Every
save is a step that a reboot or a kill may cut in two: then the file reads as
blank. The netbird command may be missing when the agent is asked to apply SSH:
then nothing is done and nothing noted. The 30 s TTL of the token cache is two
heartbeats (`age`); a heartbeat that is early or late is the choice `reload`.

**Motech.** The machine's calls are requests of `Backend`. `CallLost` is the
transport error and the 15 s timeout: the agent stops waiting, the request goes
on in the backend. An agent reports the IP of one of the peers that have joined
from the machine (`MachineIPs`), or none. `ServerRestarts` fails the calls of every request. Two history
variables serve properties only: `overlap` (clients whose rotations were once
open together) and `early` (clients rotated during a handshake).

## What TLC checks

| Run | Instance | Properties |
|---|---|---|
| `BackendRotate` | 1 client, 3 keys, 2 requests, 1 fault, fairness; create, update, rotate, delete, connection, private key | `ClientIsComplete`, `SerialRotationsKeepOneKey`, `RefinesRegistry`, `RequestsFinish` |
| `BackendAccess` | 1 client, 2 keys, 2 requests, 1 fault, repaired struct; create, rotate, disable, register, heartbeat | `TypeOK`, `DisableSticks`, `PeerForgottenOnlyIfRemoved` |
| `Dashboard` | 1 client, 2 requests, 1 fault, repaired struct, all operations but rotate and connection; 2 tabs, 2 e-mails, 2 passwords, 1 error; ticks of 5 s | `LogExplainsState`, `AnsweredIsLogged`, `AnsweredAsApplied`, `DefaultPasswordStaysGone`, `OnlineIsRecent`, `OfflineIsEarned` |
| `MotechHandshake` | 1 client, 3 keys, 2 requests, 1 trouble | `MotechTypeOK`, `ConfirmedKeyIsInstalled`, `OldKeysAreRevoked`, `AnswersCarryKey`, `OthersKeysKept` |
| `MotechLive` | 1 client, 2 keys, 1 request, 1 lost call or reboot, fairness; create, rotate, delete, disable, connection | `RotationReachesDevice`, `ConfirmEnds`, `SshGetsApplied` |
| `MotechToken` | 2 clients, 1 request, 1 fault, fairness; create, delete | `StaleTokenRecovers` |

- `ClientIsComplete`: no failure, crash or interleaving of create, rotate and
  delete leaves a client without token, link or key, or a row without client.
- `SerialRotationsKeepOneKey`: one active key, as long as rotations of the
  client were never open together (they may follow one another, be cut off by a
  crash or a fault, and meet a delete).
- `RefinesRegistry`: the keys of a client change all at once, or not at all, and
  a key that is gone does not come back: the statements of two handlers, their
  failures and the crashes never show a third state.
- `RequestsFinish`: requests that wait for each other's locks end.
- `DisableSticks`: once a disable is settled (token spent, no request in flight
  that read the former status) nothing the device sends undoes it.
- `PeerForgottenOnlyIfRemoved`: the IP in a link row is the only handle on the
  peer, and a disable clears it only after NetBird has removed that peer, even
  when the two writes of the disable are separated by failures and heartbeats.
  The exemption (`Swapped`) is a heartbeat that puts another client's peer into
  the row between the two; the run has one client, where that cannot happen, and
  the theorem covers the rest.
- `AnswersCarryKey`: the two reads of the heartbeat, pending and key, never
  yield a rotation without a key.
- `ConfirmedKeyIsInstalled`: the backend stops pushing a key only when the
  machine has it, whatever is lost, repeated or cut off, provided no rotation
  is committed during the handshake of another and the machine was set up once
  (`RegisteredOnce`). On a second setup the installer and the old run loop write
  the key file and `agent.json` side by side, and the later writer may leave the
  older key. It also exempts a machine that has no key at all after a fault: the
  code counts the first key as confirmed.
- `OldKeysAreRevoked`: once such a machine has confirmed the client's keys, none
  of the keys before them opens it.
- `OthersKeysKept`: the lines of other administrators are lost only by a reboot
  or a kill in the middle of a write (`StoppedInWrite`), a failed read, or
  installer and run loop writing at once; never by an ordinary write of either.
- `LogExplainsState`, `AnsweredIsLogged`: unless an INSERT failed or a crash came
  before it, the log explains what the rows of a client tell, and whoever has
  the answer of an operation, a private key among them, is on record.
- `AnsweredAsApplied`: an answer of UpdateMe that was not crossed by another one
  is true of both columns: 200 for all that was asked, 401 and 409 for nothing.
- `DefaultPasswordStaysGone`: a default password nobody has any more does not
  come back by a restart, an error, a change of e-mail, or two tabs.
- `OnlineIsRecent`, `OfflineIsEarned`: the status shown is justified at the
  moment of the answer: a machine shown online was heard of within 60 s, and
  one shown offline (not by NetBird), once its run loop had been heard of, had
  missed two heartbeats when the list was asked for, and a third one by the
  answer unless NetBird was slow.
- `RotationReachesDevice`, `ConfirmEnds`, `SshGetsApplied`: the handshakes end.
  They exempt a machine that has lost `agent.json`, is set up again, or whose
  client is disabled (the agent does nothing more then) or deleted (every
  heartbeat gets 401 and `RotateConfirmPending` stays set). `SshGetsApplied`
  also asks that the netbird command is not missing from some point on: as long
  as it is, the code notes nothing and is asked to apply SSH for ever.
- `StaleTokenRecovers`: the run loop comes to use the token on disk.

Six runs show where the code does not do what its comments and documents say;
`PROJECT.json` quotes them under "findings".

| Run | Shows |
|---|---|
| `FindWithdraw` | neither DisableClient nor DeleteClient finds the peer (missing struct fields): a client disabled and then deleted stays reachable, and the row that named its peer is gone |
| `FindEnable` | a heartbeat reports an IP before NetBird lists it: EnableSSH does nothing, `ssh_enabled` is recorded, and nobody enables SSH on the peer that comes |
| `FindToken` | one setup token redeemed by two concurrent registrations |
| `FindTwoKeys` | two concurrent rotations leave two active keys |
| `FindPremature` | a late `rotated_ok` confirms a newer rotation, whose key is never pushed |
| `FindBlip` | a lost answer to Register makes its own retry fail with 409 |

Three more divergences are in the models but need no search, since one statement
shows them whatever happens around it:

- the entry about a deletion refers to the row that has just gone, so its INSERT
  always fails (`handlers.go:620`; `docs/SECURITY.md:26` says it is logged);
- a client whose peer has been removed in NetBird is shown online as long as its
  heartbeats come (`handlers.go:263`; the comment above it says "never");
- a key file that exists but cannot be read is taken for absent, and the other
  administrators' keys are overwritten (`keys.go:30`; the comment there says
  "keep other admins' keys").

**Bounds.** `MaxFaults` (failing statements, NetBird calls and writes),
`MaxLost`, `MaxRestarts`, `MaxErrors` and `Attempts` bound the counters;
`MaxTroubles` bounds failures, lost calls and reboots of a Motech instance
together (with 1, any of them may happen, at any step); crashes of the server
are not bounded in the backend runs. Keys bound the rotations: two for one
handshake, three for two rotations of a client, one after the other or one during
the other, with a delete before, between or after them. Two slots are enough for every race
between two handlers; three handlers racing on one client are not checked (the
theorems cover any number). One fault is enough for each step to be the one
that fails; two independent failures are not checked. With one slot
(`MotechLive`, `MotechToken`) requests do not overlap, but a lost call's request
still runs after the agent has given up, before the next one. `Presence` counts
in ticks of 5 s: `Period` 4 (20 s), `Threshold` 12 (60 s), `Timeout` 3 (15 s)
and `Lag` 6 (two calls of 15 s); ages beyond the threshold are one value, and a
heartbeat leaves at most `Lag` behind it, so nothing else is bounded; a tick is
fine enough, since the theorems hold for every choice of the four. Two tabs, two
e-mails and two passwords give every order of two UpdateMe, with the second
account's absence or presence decided by the restarts.
`CHECK_DEADLOCK` is off: when the keys are used up and the tokens spent, the
instance rests.

**Fairness.** `Backend`: every accepted request takes its next step (net/http
serves it to its end, the NetBird client has a timeout, PostgreSQL ends lock
cycles). `Motech` adds that answers reach their caller, that the scheduled task
restarts the loop, and that the loop's ticker fires; the commands the agent
runs (netbird, PowerShell) are taken to return. The loop's heartbeat gets
strong fairness, because in a small instance other requests may occupy the slot
over and over, which a real server with unbounded connections does not impose.
Nothing is fair about administrators, the installer's calls or NetBird.

Every property of a passing run has a mutant: an operator next to the
definition it replaces, marked `Mutant:`, that makes the property fail.

## What TLAPS proves

For every number of clients, key pairs, concurrent requests, tabs and accounts,
every fault budget, every shape of the struct and every duration, from the named
assumptions on the constants only (a hypothesis beyond them is part of the
statement):

| Module | Theorem | States |
|---|---|---|
| `BackendTheorems` | `Inductive` | `Spec => []IInv` |
| | `TypeCorrect` | `Spec => []TypeOK` |
| | `ClientsAreComplete` | `Spec => []ClientIsComplete` |
| | `KeysBelongToOneClient` | `Spec => []KeysNotShared` |
| | `SerialRotations` | `Spec => []SerialRotationsKeepOneKey` |
| `AccessTheorems` | `PeersInductive` | `Spec => []PeerInv` |
| | `DisabledStaysDisabled` | `Spec => DisableSticks` |
| | `PeersAreNotForgotten` | `Spec => PeerForgottenOnlyIfRemoved` |
| `RegistryTheorems` | `RevokedForGood` | the registry never brings a revoked key back |
| `BackendRefinement` | `BackendRefinesRegistry` | `Spec => RefinesRegistry` |
| | `RevokedKeysStayRevoked` | `Spec => KeysNeverReturn`, by the two before |
| `RequestTheorems` | `RequestInductive` | `Spec => []RequestInv` |
| | `AgentsGetTheKey` | `Spec => []AnswersCarryKey` |
| | `TokensAreRedeemedOnce` | `Spec /\ []OneRegistration => []OneTimeToken` |
| `DashboardTheorems` | `AnswersAreTrue` | `AccountsSpec => []AnsweredAsApplied` |
| | `FirstPasswordStaysGone` | `AccountsSpec => DefaultPasswordStaysGone` |
| | `OnlineIsFounded` | `PresenceSpec => []OnlineIsRecent` |
| | `OfflineIsFounded` | `PresenceSpec => []OfflineIsEarned` |
| | `LogIsComplete` | `AuditSpec => []LogExplainsState` |
| | `AnswersLeaveTraces` | `AuditSpec => []AnsweredIsLogged` |
| | `DashboardIsItsParts` | `DashboardSpec => AuditSpec /\ AccountsSpec /\ PresenceSpec` |
| `MotechTheorems` | `MotechInductive`, `MotechTypes` | `MotechSpec => []Base`, `[]MotechTypeOK` |
| | `MachineGetsTheKey` | `MotechSpec => []AnswersCarryKey` |
| | `ActivationsAreSpentOnce` | `MotechSpec /\ []OneRegistration => []OneTimeToken` |
| | `OthersKeepTheirKeys` | `MotechSpec => OthersKeysKept` |
| | `HandshakeInductive` | `MotechSpec => [](Base /\ HandshakeInv)` |
| | `ConfirmationIsTrue` | `MotechSpec => []ConfirmedKeyIsInstalled` |
| | `RevocationIsTrue` | `MotechSpec => []OldKeysAreRevoked` |

Every safety property that a run checks and does not refute is among them, for
all values of the constants; what stays with TLC alone is named below.

### The backend's rows

None of the properties is inductive alone. `IInv` adds:

- `KeyInv`: a key pair is with the request that generated it or in the rows of
  one client, and all of them have been generated: so a commit cannot bring a
  key in twice.
- `RowInv`: a request that has inserted its key (`rk_commit`) keeps the client's
  row alive and unlocked, at most one request has it locked (`dl_cascade`), and
  no other row exists while a create is under way: so the commits and the
  cascade find the rows they rest on.
- `SerialInv`: the one open rotation of a client without overlap has all the
  client's keys in its view (`snap`, then `doomed`): so its commit leaves one.

The argument: most steps are taken outside of a transaction (`Quiet`) and
create or delete no row (`Benign`); for those each part of `IInv` is proved
once. The steps of the transactions are then taken one at a time. `BackendSteps`
says what each step does to its request and treats `KeyInv` and `RowInv`,
`BackendTheorems` `SerialInv` and the theorems.

`BackendRefinement` shows that the initial state maps to an initial state and
that each step maps to a step or a stutter; `IInv` supplies what the registry's
guards ask for: the key of a commit is fresh (`KeyInv`), the client of a commit
is there and is created once (`RowInv`), and a rotation that leaves a key beside
its own has met another (`SerialInv`).

`DisableSticks` follows from `IInv` step by step: `AgentMoves` and `AdminMoves`
say where a request that may write "online" comes from, and none of its sources
is open once the disable is settled. `PeerForgottenOnlyIfRemoved` needs `PeerInv`:
a peer joins once, one that is gone stays gone, and a disable that is about to
clear the IP it has read (`di_forget`) has seen NetBird remove that very peer;
until it does, no statement but a heartbeat's changes the IP in the row, and the
heartbeat is what `Swapped` speaks of.

### The backend's answers

What a handler answers depends on where its request has been, so `RequestInv`
follows the operation through the program counter (`RouteInv`), notes that only
clients that exist or existed have agents (`KnownInv`), that what a rotation has
deleted stays in its client's rows until it ends (`LockInv`: otherwise a
concurrent commit could leave a pending rotation without a key to push), and
that a request which has read the key has one (`CarryInv`).
`RequestTheorems` lists the ways a request moves (`Keeps`, `AgentAnswer`,
`Starts`, `Outside`); the proofs of `Audit` and `Motech` are built on these
lists and not on the statements themselves.

`TokensAreRedeemedOnce` is true only under a condition, which the theorem states:
no two registrations of a client are in flight together (`OneRegistration`), at
any number of other requests. The code does not ensure it, and `FindToken` shows
what happens otherwise; the theorem says that this race is the only way to redeem
a token twice, once failures of the database are set aside. `TokenInv` says that
a redeemed token is used and that a registration which has found its token unused
is the first.

### Behind the dashboard

For `AnsweredAsApplied` the invariant says what each program counter of UpdateMe
knows while no other request has crossed it (the row is as it was read, or has
the new e-mail), and what a start of the server keeps: seedAdmin inserts only
into an empty table and before the first request, and the id of a token stays
the id of a row. Presence rests on one inequality: the age of `last_seen` is at
most `Period * missed + elapsed` from the first recorded heartbeat of the run
loop on (before it, the installer takes the time it takes), and what a list
request carries is that, grown by its `waited`.
The activity log rests on `EntryInv`: whoever has been answered
has its entry on record, or owes it, and is about a client whose row existed;
each fact that a statement adds to the rows (`RowsTold`) comes with the entry
the same request then owes. A client's row can disappear between a statement and
its entry, but then nobody asks for the entry. `Dashboard` takes the three
next-state relations unchanged, so that its behaviours are behaviours of each
(`DashboardIsItsParts`).

### Backend and machine

A step of `Motech` is, for the backend, a statement of a request or one of the
events `Outside` of them (`MotechLifts`): so `IInv`, `RequestInv` and `TokenInv`
carry over. `Base` adds types and who waits for which call (`CallInv`,
`HandInv`).

`HandshakeInv` is the invariant of the key handshake, for a client whose code is
the only one the machine has redeemed and whose rotations came one after the
other (`Undisturbed`). It has four parts.

- `FirstInv`: before the first code is redeemed the machine is untouched, and
  while the installer works no run loop and no heartbeat exists. So installer
  and run loop, which each keep their own copy of the state, do not meet.
- `InstallInv`: the key of the registration's answer is the client's only
  confirmed one, until the installer has put it into the file.
- `PushInv`: wherever a key is on its way to the machine (an answer, a run loop
  that installs it) it is the client's only key, and wherever a confirmation is
  on its way to the backend (`rotated_ok` in a heartbeat, `RotateConfirmPending`
  in memory or on disk) the machine has the key.
- `SoberInv`: once a confirmation may have been on its way, the machine still
  remembers that it has the key. This holds as long as nothing has failed; it
  excludes that a heartbeat that finds the rotation still pending makes the
  machine write the file again while the confirmation of the former heartbeat is
  overtaking it, and that a reboot then tears the file.

The last part is why the failure of a write is treated on its own. A machine
that has no key after a failure counts as in sync (`InSync`): the backend takes
the key of CreateClient for installed from the start. So a file torn after the
confirmation would break the invariant if no failure had been counted, and
`SoberInv` shows that this cannot be.

`HandshakeStep` takes the actions one at a time. For the backend's statements,
`Flow` says what may change in a request's answer and `Turns` what may change in
the keys of an undisturbed client: nothing, its creation, an exchange of its key
for one that is not confirmed, a confirmation that a heartbeat has brought, or
its deletion. `ConfirmedKeyIsInstalled` and `OldKeysAreRevoked` follow at once.

### Only model-checked

Everything with fairness (`RequestsFinish`, `RotationReachesDevice`,
`ConfirmEnds`, `SshGetsApplied`, `StaleTokenRecovers`): liveness and ENABLED are
out of the prover's reach. No recursive definition occurs that would need an induction.

## Not modelled

- JWT signatures, bcrypt, AES-GCM; contact fields; `login_user`; the reads Me,
  Activity and SetupPage, which change nothing; the entry that UpdateMe writes.
- `agent.json` read in the middle of a write (it is torn only by a reboot or a
  kill); the three attempts of a locked read are one.
- What `netbird down` does on a disabled device; mock mode of the NetBird client.
- Two machines of one client; the uninstall command; the final readiness report.

## Plan

1. Done: the backend (`BackendState`, `ClientAdmin`, `AgentApi`, `Backend`), its
   abstract specification and refinement (`ClientRegistry`, `BackendRegistry`),
   the machine and the composition (`AuthorizedKeys`, `Device`, `Motech`), and
   what is behind the dashboard (`Audit`, `Accounts`, `Presence`, `Dashboard`);
   the theorems listed above.
2. Left: a weaker property of the handshake for a machine that is set up a second
   time, whose installer and run loop meet; what DisableClient and DeleteClient
   promise once the struct has a field for every column; the deletion of the
   installation (`uninstall`).
