--------------------------- MODULE MotechTheorems ---------------------------
(***************************************************************************)
(* Motech's safety, proved for every value of the constants: types, the    *)
(* keys of other administrators, and the handshake of a key rotation (the  *)
(* backend and the machine agree on the key that is installed).            *)
(***************************************************************************)
EXTENDS MotechInv, RequestTheorems

---------------------------------------------------------------------------
(* The moves of the machine's processes.                                   *)

SetupTo(p, d, m, q) ==
  /\ setup' \in Setups
  /\ setup'.pc = p /\ setup'.client = d /\ setup'.mem = m /\ setup'.call = q
LoopTo(p, m, t, q, k) ==
  /\ loop' \in Loops
  /\ loop'.pc = p /\ loop'.mem = m /\ loop'.cached = t
  /\ loop'.call = q /\ loop'.key = k
OffSetup == SetupTo("off", NoClient, Blank, NoSlot)
OffLoop == LoopTo("off", Blank, NoClient, NoSlot, NoKey)

LEMMA Blanks ==
  /\ Blank \in Files /\ Blank.token = NoClient /\ Blank.install = NoKey
  /\ Blank.ssh = NoKey /\ ~Blank.confirm /\ ~Blank.applied
  /\ NoSetup \in Setups /\ NoSetup.pc = "off" /\ NoSetup.client = NoClient
  /\ NoSetup.mem = Blank /\ NoSetup.call = NoSlot
  /\ LoopOff \in Loops /\ LoopOff.pc = "off" /\ LoopOff.mem = Blank
  /\ LoopOff.cached = NoClient /\ LoopOff.call = NoSlot /\ LoopOff.key = NoKey
<1>1. /\ Blank \in Files /\ Blank.token = NoClient /\ Blank.install = NoKey
      /\ Blank.ssh = NoKey /\ ~Blank.confirm /\ ~Blank.applied
  BY DEF Blank, Files
<1> HIDE DEF Blank
<1>2. /\ NoSetup \in Setups /\ NoSetup.pc = "off" /\ NoSetup.client = NoClient
      /\ NoSetup.mem = Blank /\ NoSetup.call = NoSlot
  BY <1>1, DeviceAssumption DEF NoSetup, Setups, Codes
<1>3. /\ LoopOff \in Loops /\ LoopOff.pc = "off" /\ LoopOff.mem = Blank
      /\ LoopOff.cached = NoClient /\ LoopOff.call = NoSlot /\ LoopOff.key = NoKey
  BY <1>1 DEF LoopOff, Loops
<1> QED BY <1>1, <1>2, <1>3

(* The files a process saves.                                              *)
LEMMA FilesOK ==
  ASSUME NEW m \in Files, NEW t \in Clients \cup {NoClient},
         NEW k \in Keys \cup {NoKey}
  PROVE  LET a == [m EXCEPT !.ssh = k]
             b == [m EXCEPT !.ssh = k, !.install = k]
             d == [m EXCEPT !.confirm = TRUE]
             e == [m EXCEPT !.confirm = FALSE]
             f == [m EXCEPT !.applied = TRUE]
             g == [Blank EXCEPT !.token = t, !.install = k]
             h == [m EXCEPT !.token = t] IN
         /\ {a, b, d, e, f, g, h} \subseteq Files
         /\ \A x \in {a, b, d, e, f} : x.token = m.token
         /\ \A x \in {a, b, f, h} : x.confirm = m.confirm
         /\ \A x \in {d, e, f, h} : x.ssh = m.ssh
         /\ a.install = m.install /\ b.ssh = k
         /\ d.confirm /\ ~e.confirm
         /\ g.token = t /\ g.install = k /\ ~g.confirm
         /\ h.token = t
BY Blanks DEF Files, Blank

(* What the processes make of an answer.                                   *)
LEMMA RegisterEnds ==
  ASSUME setup \in Setups, NEW code \in Codes, NEW key \in Keys \cup {NoKey},
         setup' = AfterRegister(code, key)
  PROVE  \/ /\ code = 200
            /\ SetupTo("save", setup.client,
                       [Blank EXCEPT !.token = setup.client, !.install = key], NoSlot)
         \/ /\ code # 200
            /\ \/ SetupTo("register", setup.client, setup.mem, NoSlot)
               \/ SetupTo("failed", setup.client, Blank, NoSlot)
<1> DEFINE g == [Blank EXCEPT !.token = setup.client, !.install = key]
           u == [setup EXCEPT !.pc = "save", !.call = NoSlot, !.mem = g]
           v == [setup EXCEPT !.pc = "register", !.call = NoSlot, !.tries = @ + 1]
           w == [NoSetup EXCEPT !.pc = "failed", !.client = setup.client, !.code = code]
<1>t. setup.client \in Clients \cup {NoClient}
  BY DEF Setups
<1>1. CASE code = 200
  <2>1. setup' = u
    BY <1>1 DEF AfterRegister
  <2>2. g \in Files
    BY <1>t, Blanks, FilesOK
  <2> HIDE DEF g
  <2>3. /\ u \in Setups /\ u.pc = "save" /\ u.client = setup.client
        /\ u.mem = g /\ u.call = NoSlot
    BY <2>2 DEF Setups
  <2> QED BY <1>1, <2>1, <2>3 DEF SetupTo, g
<1>2. CASE code # 200 /\ setup' = v /\ setup.tries < Attempts
  <2>1. setup.tries + 1 \in 0..Attempts
    BY <1>2, DeviceAssumption DEF Setups
  <2>2. /\ v \in Setups /\ v.pc = "register" /\ v.client = setup.client
        /\ v.mem = setup.mem /\ v.call = NoSlot
    BY <2>1 DEF Setups
  <2> QED BY <1>2, <2>2 DEF SetupTo
<1>3. CASE code # 200 /\ setup' = w
  <2>1. /\ w \in Setups /\ w.pc = "failed" /\ w.client = setup.client
        /\ w.mem = Blank /\ w.call = NoSlot
    BY <1>t, Blanks DEF Setups, NoSetup
  <2> QED BY <1>3, <2>1 DEF SetupTo
<1>4. code # 200 => (setup' = v /\ setup.tries < Attempts) \/ setup' = w
  BY DEF AfterRegister
<1> QED BY <1>1, <1>2, <1>3, <1>4

LEMMA SetupBeatEnds ==
  ASSUME setup \in Setups, disk \in Files, NEW code, setup' = AfterSetupBeat(code)
  PROVE  SetupTo("beat", setup.client, setup.mem, NoSlot) \/ OffSetup
<1> DEFINE u == [setup EXCEPT !.pc = "beat", !.call = NoSlot, !.cached = disk.token]
           v == [setup EXCEPT !.pc = "beat", !.call = NoSlot, !.tries = @ + 1]
<1>1. setup' = u \/ (setup' = v /\ setup.tries < Attempts) \/ setup' = NoSetup
  BY DEF AfterSetupBeat
<1>2. /\ u \in Setups /\ u.pc = "beat" /\ u.client = setup.client
      /\ u.mem = setup.mem /\ u.call = NoSlot
  BY DEF Setups, Files
<1>3. CASE setup' = v /\ setup.tries < Attempts
  <2>1. setup.tries + 1 \in 0..Attempts
    BY <1>3, DeviceAssumption DEF Setups
  <2>2. /\ v \in Setups /\ v.pc = "beat" /\ v.client = setup.client
        /\ v.mem = setup.mem /\ v.call = NoSlot
    BY <2>1 DEF Setups
  <2> QED BY <1>3, <2>2 DEF SetupTo
<1> QED BY <1>1, <1>2, <1>3, Blanks DEF SetupTo, OffSetup

LEMMA LoopEnds ==
  ASSUME loop \in Loops, disk \in Files, NEW code, NEW disabled \in BOOLEAN,
         NEW rotate \in BOOLEAN, NEW key \in Keys \cup {NoKey}, NEW apply \in BOOLEAN,
         loop' = AfterHeartbeat(code, disabled, rotate, key, apply)
  PROVE  \/ LoopTo("tick", loop.mem, loop.cached, NoSlot, loop.key)
         \/ /\ disk.token \notin {NoClient, loop.cached}
            /\ LoopTo("resend", [loop.mem EXCEPT !.token = disk.token],
                      disk.token, NoSlot, loop.key)
         \/ /\ code = 200 /\ rotate /\ key # NoKey
            /\ ~(loop.mem.confirm /\ loop.mem.ssh = key)
            /\ LoopTo("install", loop.mem, loop.cached, NoSlot, key)
         \/ /\ code = 200 /\ ~rotate /\ loop.mem.confirm
            /\ LoopTo("acked", loop.mem, loop.cached, NoSlot, loop.key)
         \/ /\ code = 200
            /\ LoopTo("reup", loop.mem, loop.cached, NoSlot, loop.key)
<1> DEFINE h == [loop.mem EXCEPT !.token = disk.token]
           a == [BeatOver EXCEPT !.age = 1]
           s(n) == [loop EXCEPT !.pc = "resend", !.call = NoSlot, !.retried = TRUE,
                                !.cached = disk.token, !.age = n, !.mem = h]
           b == s(1)
           d == [BeatOver EXCEPT !.pc = "install", !.key = key]
           e == [BeatOver EXCEPT !.pc = "acked", !.apply = apply]
           f == [BeatOver EXCEPT !.pc = "reup"]
<1>o. /\ BeatOver \in Loops /\ BeatOver.pc = "tick" /\ BeatOver.mem = loop.mem
      /\ BeatOver.cached = loop.cached /\ BeatOver.call = NoSlot
      /\ BeatOver.key = loop.key
  BY DEF BeatOver, Loops
<1>h. h \in Files /\ loop.mem \in Files /\ disk.token \in Clients \cup {NoClient}
  <2>1. loop.mem \in Files /\ disk.token \in Clients \cup {NoClient}
    BY DEF Loops, Files
  <2> QED BY <2>1, FilesOK
<1>1. \/ loop' = BeatOver \/ loop' = a
      \/ disk.token \notin {NoClient, loop.cached} /\ loop' = b
      \/ /\ code = 200 /\ rotate /\ key # NoKey
         /\ ~(loop.mem.confirm /\ loop.mem.ssh = key) /\ loop' = d
      \/ code = 200 /\ ~rotate /\ loop.mem.confirm /\ loop' = e
      \/ code = 200 /\ loop' = f
  BY DEF AfterHeartbeat, ForceReload
<1> HIDE DEF BeatOver, h
<1>2. /\ a \in Loops /\ a.pc = "tick" /\ a.mem = loop.mem
      /\ a.cached = loop.cached /\ a.call = NoSlot /\ a.key = loop.key
  BY <1>o DEF Loops
<1>3. /\ b \in Loops /\ b.pc = "resend" /\ b.mem = h
      /\ b.cached = disk.token /\ b.call = NoSlot /\ b.key = loop.key
  <2>1. ASSUME NEW n \in 0..2
        PROVE  /\ s(n) \in Loops /\ s(n).pc = "resend" /\ s(n).mem = h
               /\ s(n).cached = disk.token /\ s(n).call = NoSlot /\ s(n).key = loop.key
    BY <1>h DEF Loops
  <2> HIDE DEF s
  <2> QED BY <2>1
<1>4. /\ d \in Loops /\ d.pc = "install" /\ d.mem = loop.mem
      /\ d.cached = loop.cached /\ d.call = NoSlot /\ d.key = key
  BY <1>o DEF Loops
<1>5. /\ e \in Loops /\ e.pc = "acked" /\ e.mem = loop.mem
      /\ e.cached = loop.cached /\ e.call = NoSlot /\ e.key = loop.key
  BY <1>o DEF Loops
<1>6. /\ f \in Loops /\ f.pc = "reup" /\ f.mem = loop.mem
      /\ f.cached = loop.cached /\ f.call = NoSlot /\ f.key = loop.key
  BY <1>o DEF Loops
<1> HIDE DEF a, b, d, e, f
<1> QED BY <1>o, <1>1, <1>2, <1>3, <1>4, <1>5, <1>6 DEF LoopTo, h

(* The assignments of the installer, ...                                   *)
SetupPCs == {"off", "failed", "register", "wait", "save", "install", "record",
             "stop", "start", "beat", "beating"}
LEMMA SetupPuts ==
  ASSUME setup \in Setups, NEW p \in SetupPCs
  PROVE  /\ setup' = [setup EXCEPT !.pc = p] =>
              SetupTo(p, setup.client, setup.mem, setup.call)
         /\ \A x \in 1..2 : setup' = [setup EXCEPT !.pc = p, !.pass = x] =>
              SetupTo(p, setup.client, setup.mem, setup.call)
         /\ \A n \in 0..Attempts : setup' = [setup EXCEPT !.pc = p, !.tries = n] =>
              SetupTo(p, setup.client, setup.mem, setup.call)
         /\ \A q \in Slots : setup' = [setup EXCEPT !.pc = p, !.call = q] =>
              SetupTo(p, setup.client, setup.mem, q)
         /\ \A q \in Slots, t \in Clients \cup {NoClient} :
              setup' = [setup EXCEPT !.pc = p, !.call = q, !.cached = t] =>
                SetupTo(p, setup.client, setup.mem, q)
<1>1. setup' = [setup EXCEPT !.pc = p] => SetupTo(p, setup.client, setup.mem, setup.call)
  BY DEF Setups, SetupPCs, SetupTo
<1>2. \A x \in 1..2 : setup' = [setup EXCEPT !.pc = p, !.pass = x] =>
        SetupTo(p, setup.client, setup.mem, setup.call)
  BY DEF Setups, SetupPCs, SetupTo
<1>3. \A n \in 0..Attempts : setup' = [setup EXCEPT !.pc = p, !.tries = n] =>
        SetupTo(p, setup.client, setup.mem, setup.call)
  BY DEF Setups, SetupPCs, SetupTo
<1>4. \A q \in Slots : setup' = [setup EXCEPT !.pc = p, !.call = q] =>
        SetupTo(p, setup.client, setup.mem, q)
  BY DEF Setups, SetupPCs, SetupTo
<1>5. \A q \in Slots, t \in Clients \cup {NoClient} :
        setup' = [setup EXCEPT !.pc = p, !.call = q, !.cached = t] =>
          SetupTo(p, setup.client, setup.mem, q)
  BY DEF Setups, SetupPCs, SetupTo
<1> QED BY <1>1, <1>2, <1>3, <1>4, <1>5

LEMMA SetupBegins ==
  ASSUME disk \in Files, NEW c \in Clients,
         setup' = [NoSetup EXCEPT !.pc = "register", !.client = c, !.tries = 1,
                                  !.mem = disk, !.cached = disk.token]
  PROVE  SetupTo("register", c, disk, NoSlot)
<1> DEFINE s(n, t) == [NoSetup EXCEPT !.pc = "register", !.client = c, !.tries = n,
                                      !.mem = disk, !.cached = t]
<1>1. ASSUME NEW n \in 0..Attempts, NEW t \in Clients \cup {NoClient}
      PROVE  /\ s(n, t) \in Setups /\ s(n, t).pc = "register" /\ s(n, t).client = c
             /\ s(n, t).mem = disk /\ s(n, t).call = NoSlot
  BY Blanks DEF Setups
<1>2. 1 \in 0..Attempts /\ disk.token \in Clients \cup {NoClient}
  BY DeviceAssumption DEF Files
<1> HIDE DEF s
<1>3. setup' = s(1, disk.token)
  BY DEF s
<1>4. LET x == s(1, disk.token) IN
      /\ x \in Setups /\ x.pc = "register" /\ x.client = c
      /\ x.mem = disk /\ x.call = NoSlot
  BY <1>1, <1>2
<1> QED BY <1>3, <1>4 DEF SetupTo

(* installServerPublicKey is run twice.                                    *)
LEMMA KeyAttempts ==
  ASSUME setup \in Setups
  PROVE  /\ setup' = AfterKey =>
              \E p \in {"install", "stop"} :
                SetupTo(p, setup.client, setup.mem, setup.call)
         /\ \A m \in Files : setup' = [AfterKey EXCEPT !.mem = m] =>
              \E p \in {"install", "stop"} :
                SetupTo(p, setup.client, m, setup.call)
<1> DEFINE u(x) == [setup EXCEPT !.pc = "install", !.pass = x]
           v == [setup EXCEPT !.pc = "stop"]
<1>1. AfterKey = u(2) \/ AfterKey = v
  BY DEF AfterKey
<1>2. \A x \in 1..2 : /\ u(x) \in Setups /\ u(x).pc = "install"
        /\ u(x).client = setup.client /\ u(x).mem = setup.mem /\ u(x).call = setup.call
  BY DEF Setups
<1>3. /\ v \in Setups /\ v.pc = "stop"
      /\ v.client = setup.client /\ v.mem = setup.mem /\ v.call = setup.call
  BY DEF Setups
<1>4. 2 \in 1..2
  OBVIOUS
<1> HIDE DEF u, v
<1>5. /\ AfterKey \in Setups /\ AfterKey.pc \in {"install", "stop"}
      /\ AfterKey.client = setup.client /\ AfterKey.mem = setup.mem
      /\ AfterKey.call = setup.call
  BY <1>1, <1>2, <1>3, <1>4
<1> HIDE DEF AfterKey
<1>6. ASSUME NEW s \in Setups, NEW m \in Files
      PROVE  /\ [s EXCEPT !.mem = m] \in Setups /\ [s EXCEPT !.mem = m].mem = m
             /\ [s EXCEPT !.mem = m].pc = s.pc /\ [s EXCEPT !.mem = m].call = s.call
             /\ [s EXCEPT !.mem = m].client = s.client
  BY DEF Setups
<1>7. setup' = AfterKey =>
        \E p \in {"install", "stop"} : SetupTo(p, setup.client, setup.mem, setup.call)
  BY <1>5 DEF SetupTo
<1> DEFINE w(m) == [AfterKey EXCEPT !.mem = m]
<1>8. \A m \in Files : /\ w(m) \in Setups /\ w(m).pc \in {"install", "stop"}
        /\ w(m).client = setup.client /\ w(m).mem = m /\ w(m).call = setup.call
  BY <1>5, <1>6
<1> HIDE DEF w
<1>9. \A m \in Files : setup' = w(m) =>
        \E p \in {"install", "stop"} : SetupTo(p, setup.client, m, setup.call)
  BY <1>8 DEF SetupTo
<1> QED BY <1>7, <1>9 DEF w

(* ... and those of the run loop.                                          *)
LEMMA LoopBegins ==
  ASSUME disk \in Files, loop.pc = "off", loop' = Started
  PROVE  LoopTo("tick", disk, disk.token, NoSlot, NoKey)
<1> DEFINE s(t) == [LoopOff EXCEPT !.pc = "tick", !.mem = disk, !.cached = t]
<1>1. ASSUME NEW t \in Clients \cup {NoClient}
      PROVE  /\ s(t) \in Loops /\ s(t).pc = "tick" /\ s(t).mem = disk /\ s(t).cached = t
             /\ s(t).call = NoSlot /\ s(t).key = NoKey
  BY Blanks DEF Loops
<1>2. loop' = s(disk.token) /\ disk.token \in Clients \cup {NoClient}
  BY DEF Started, Files
<1> HIDE DEF s
<1> QED BY <1>1, <1>2 DEF LoopTo

LEMMA LoopTokens ==
  ASSUME loop \in Loops, disk \in Files, NEW reload \in BOOLEAN
  PROVE  LET t == FreshToken(loop.cached, reload) IN
         /\ t \in {loop.cached, disk.token} /\ t \in Clients \cup {NoClient}
         /\ loop' = TickToken(reload) => LoopTo(loop.pc, loop.mem, t, loop.call, loop.key)
         /\ \A r \in Slots :
              loop' = [TickToken(reload) EXCEPT !.pc = "wait", !.call = r] =>
                LoopTo("wait", loop.mem, t, r, loop.key)
         /\ \A r \in Slots : loop' = [loop EXCEPT !.pc = "wait", !.call = r] =>
              LoopTo("wait", loop.mem, loop.cached, r, loop.key)
<1> DEFINE t == FreshToken(loop.cached, reload)
           u(n) == [loop EXCEPT !.cached = t, !.age = n]
           a == IF reload /\ disk.token # NoClient THEN 1
                ELSE IF loop.age = 2 THEN 2 ELSE loop.age + 1
<1>1. t \in {loop.cached, disk.token} /\ t \in Clients \cup {NoClient}
  BY DEF FreshToken, Loops, Files
<1>2. TickToken(reload) = u(a) /\ a \in 0..2
  <2>1. loop.age \in 0..2
    BY DEF Loops
  <2> QED BY <2>1 DEF TickToken
<1> HIDE DEF t, a
<1>3. \A n \in 0..2 : /\ u(n) \in Loops /\ u(n).pc = loop.pc /\ u(n).mem = loop.mem
        /\ u(n).cached = t /\ u(n).call = loop.call /\ u(n).key = loop.key
  BY <1>1 DEF Loops
<1> HIDE DEF u
<1>4. ASSUME NEW l \in Loops, NEW r \in Slots
      PROVE  LET n == [l EXCEPT !.pc = "wait", !.call = r] IN
             /\ n \in Loops /\ n.pc = "wait" /\ n.mem = l.mem /\ n.cached = l.cached
             /\ n.call = r /\ n.key = l.key
  BY DEF Loops
<1>5. /\ TickToken(reload) \in Loops /\ TickToken(reload).pc = loop.pc
      /\ TickToken(reload).mem = loop.mem /\ TickToken(reload).cached = t
      /\ TickToken(reload).call = loop.call /\ TickToken(reload).key = loop.key
  BY <1>2, <1>3
<1> HIDE DEF TickToken
<1>6. loop' = TickToken(reload) => LoopTo(loop.pc, loop.mem, t, loop.call, loop.key)
  BY <1>5 DEF LoopTo
<1> DEFINE w(l, r) == [l EXCEPT !.pc = "wait", !.call = r]
<1>w. \A l \in Loops, r \in Slots :
        /\ w(l, r) \in Loops /\ w(l, r).pc = "wait" /\ w(l, r).mem = l.mem
        /\ w(l, r).cached = l.cached /\ w(l, r).call = r /\ w(l, r).key = l.key
  BY <1>4
<1> HIDE DEF w
<1>7. \A r \in Slots : loop' = w(TickToken(reload), r) =>
        LoopTo("wait", loop.mem, t, r, loop.key)
  BY <1>w, <1>5 DEF LoopTo
<1>8. \A r \in Slots : loop' = w(loop, r) =>
        LoopTo("wait", loop.mem, loop.cached, r, loop.key)
  BY <1>w DEF LoopTo
<1> QED BY <1>1, <1>6, <1>7, <1>8 DEF t, w

LoopPCs == {"off", "tick", "wait", "resend", "install", "record", "confirm",
            "acked", "reup"}
LEMMA LoopPuts ==
  ASSUME loop \in Loops, NEW p \in LoopPCs
  PROVE  /\ loop' = [loop EXCEPT !.pc = p] =>
              LoopTo(p, loop.mem, loop.cached, loop.call, loop.key)
         /\ \A k \in Keys \cup {NoKey} : loop' = [loop EXCEPT !.pc = p, !.key = k] =>
              LoopTo(p, loop.mem, loop.cached, loop.call, k)
         /\ \A m \in Files, k \in Keys \cup {NoKey} :
              loop' = [loop EXCEPT !.pc = p, !.mem = m, !.key = k, !.apply = FALSE] =>
                LoopTo(p, m, loop.cached, loop.call, k)
<1>1. loop' = [loop EXCEPT !.pc = p] => LoopTo(p, loop.mem, loop.cached, loop.call, loop.key)
  BY DEF Loops, LoopPCs, LoopTo
<1>2. \A k \in Keys \cup {NoKey} : loop' = [loop EXCEPT !.pc = p, !.key = k] =>
        LoopTo(p, loop.mem, loop.cached, loop.call, k)
  BY DEF Loops, LoopPCs, LoopTo
<1>3. \A m \in Files, k \in Keys \cup {NoKey} :
        loop' = [loop EXCEPT !.pc = p, !.mem = m, !.key = k, !.apply = FALSE] =>
          LoopTo(p, m, loop.cached, loop.call, k)
  <2> DEFINE u(m, k) == [loop EXCEPT !.pc = p, !.mem = m, !.key = k, !.apply = FALSE]
  <2>1. \A m \in Files, k \in Keys \cup {NoKey} :
          /\ u(m, k) \in Loops /\ u(m, k).pc = p /\ u(m, k).mem = m
          /\ u(m, k).cached = loop.cached /\ u(m, k).call = loop.call
          /\ u(m, k).key = k
    BY DEF Loops, LoopPCs
  <2> HIDE DEF u
  <2>2. \A m \in Files, k \in Keys \cup {NoKey} :
          loop' = u(m, k) => LoopTo(p, m, loop.cached, loop.call, k)
    BY <2>1 DEF LoopTo
  <2> QED BY <2>2 DEF u
<1> QED BY <1>1, <1>2, <1>3

---------------------------------------------------------------------------
(* The key file.                                                           *)
Lines == OthersLines \cup {Line(k, TRUE) : k \in Keys}

LEMMA KeyFiles ==
  ASSUME NEW f \in SUBSET Lines, NEW k \in Keys
  PROVE  /\ Merge(f, k) \subseteq Lines /\ MotechKeys(Merge(f, k)) = {k}
         /\ OthersLines \subseteq f => OthersLines \subseteq Merge(f, k)
<1>1. \A l \in OthersLines : l.motech = FALSE
  BY DEF OthersLines, Line
<1>2. Line(k, TRUE).motech = TRUE /\ Line(k, TRUE).key = k
  BY DEF Line
<1> HIDE DEF OthersLines, Line
<1>3. Merge(f, k) \subseteq Lines
  BY DEF Merge, Lines
<1>4. OthersLines \subseteq f => OthersLines \subseteq Merge(f, k)
  BY <1>1 DEF Merge
<1>5. {m \in Merge(f, k) : m.motech} = {Line(k, TRUE)}
  BY <1>2 DEF Merge
<1>6. MotechKeys(Merge(f, k)) = {k}
  BY <1>2, <1>5 DEF MotechKeys
<1> QED BY <1>3, <1>4, <1>6

LEMMA NoKeys == MotechKeys({}) = {} /\ MotechKeys(OthersLines) = {}
BY DEF MotechKeys, OthersLines, Line

LEMMA WritesKey ==
  ASSUME DeviceTypeOK, NEW k \in Keys, NEW other, WriteKey(k, other)
  PROVE  /\ keyfile' \subseteq Lines /\ MK' = {k}
         /\ UNCHANGED faults \/ Fault
         /\ \/ Fault \/ other = "install"
            \/ OthersLines \subseteq keyfile => OthersLines \subseteq keyfile'
<1>1. keyfile \subseteq Lines
  BY DEF DeviceTypeOK, Lines
<1>2. PICK f \in SUBSET Lines :
        /\ keyfile' = Merge(f, k)
        /\ f = keyfile \/ other = "install" \/ Fault
        /\ UNCHANGED faults \/ Fault
  <2>1. CASE keyfile' = Merge(keyfile, k) /\ UNCHANGED faults
    BY <1>1, <2>1
  <2>2. CASE other = "install" /\ keyfile' = Merge({}, k) /\ UNCHANGED faults
    BY <2>2
  <2>3. CASE Fault /\ keyfile' = Merge({}, k)
    BY <2>3
  <2> QED BY <2>1, <2>2, <2>3 DEF WriteKey, TornKeys
<1> QED BY <1>2, KeyFiles DEF MK

---------------------------------------------------------------------------
(* What each action of the machine does.                                   *)
Ground == MotechTypeOK /\ CallInv /\ HandInv
BackendSame == UNCHANGED <<dbVars, req>>
MaybeFault == UNCHANGED faults \/ Fault

LEMMA Processes ==
  ASSUME Ground
  PROVE  /\ setup \in Setups /\ setup.mem \in Files /\ setup.pc \in SetupPCs
         /\ setup.client \in Clients \cup {NoClient} /\ setup.call \in Slots \cup {NoSlot}
         /\ loop \in Loops /\ loop.mem \in Files /\ loop.pc \in LoopPCs
         /\ loop.cached \in Clients \cup {NoClient} /\ loop.call \in Slots \cup {NoSlot}
         /\ loop.key \in Keys \cup {NoKey} /\ setup.mem.install \in Keys \cup {NoKey}
         /\ disk \in Files /\ disk.token \in Clients \cup {NoClient}
         /\ Blank \in Files /\ keyfile \subseteq Lines /\ service \in BOOLEAN
<1>1. /\ setup \in Setups /\ loop \in Loops /\ disk \in Files
      /\ keyfile \subseteq Lines /\ service \in BOOLEAN
  BY DEF Ground, MotechTypeOK, DeviceTypeOK, Lines
<1>2. /\ setup.mem \in Files /\ setup.client \in Clients \cup {NoClient}
      /\ setup.call \in Slots \cup {NoSlot} /\ setup.pc \in SetupPCs
  BY <1>1 DEF Setups, SetupPCs
<1>3. /\ loop.mem \in Files /\ loop.cached \in Clients \cup {NoClient}
      /\ loop.call \in Slots \cup {NoSlot} /\ loop.pc \in LoopPCs
      /\ loop.key \in Keys \cup {NoKey}
  BY <1>1 DEF Loops, LoopPCs
<1>4. disk.token \in Clients \cup {NoClient} /\ setup.mem.install \in Keys \cup {NoKey}
  BY <1>1, <1>2 DEF Files
<1> QED BY <1>1, <1>2, <1>3, <1>4, Blanks

LEMMA Calling ==
  ASSUME Ground
  PROVE  /\ setup.pc \notin {"wait", "beating"} => setup.call = NoSlot
         /\ loop.pc # "wait" => loop.call = NoSlot
BY DEF Ground, CallInv

(* The installer.                                                          *)
LEMMA SetupStarts ==
  ASSUME Ground, NEW c \in Clients, StartSetup(c)
  PROVE  /\ setup.pc \in {"off", "failed"} /\ SetupTo("register", c, disk, NoSlot)
         /\ BackendSame /\ UNCHANGED <<faults, disk, keyfile, service, loop, lost, restarts>>
BY Processes, SetupBegins DEF StartSetup, BackendSame

LEMMA SetupSaves ==
  ASSUME Ground, SaveRegistration
  PROVE  /\ setup.pc = "save" /\ BackendSame
         /\ UNCHANGED <<keyfile, service, loop, lost, restarts>>
         /\ \/ /\ disk' = setup.mem /\ UNCHANGED faults
               /\ setup.mem.install # NoKey =>
                    SetupTo("install", setup.client, setup.mem, NoSlot)
               /\ setup.mem.install = NoKey =>
                    SetupTo("stop", setup.client, setup.mem, NoSlot)
            \/ /\ UNCHANGED disk /\ Fault
               /\ SetupTo("failed", setup.client, Blank, NoSlot)
<1>1. /\ setup.pc = "save" /\ BackendSame
      /\ UNCHANGED <<keyfile, service, loop, lost, restarts>>
  BY DEF SaveRegistration, BackendSame
<1>2. setup \in Setups /\ setup.call = NoSlot /\ setup.client \in Clients \cup {NoClient}
  BY <1>1, Processes, Calling
<1>3. CASE /\ disk' = setup.mem /\ UNCHANGED faults
           /\ setup' = [setup EXCEPT !.pc = IF setup.mem.install = NoKey
                                              THEN "stop" ELSE "install"]
  <2>1. \A p \in {"stop", "install"} : setup' = [setup EXCEPT !.pc = p] =>
          SetupTo(p, setup.client, setup.mem, NoSlot)
    BY <1>2, SetupPuts DEF SetupPCs
  <2> QED BY <1>1, <1>3, <2>1
<1>4. CASE /\ UNCHANGED disk /\ Fault
           /\ setup' = [NoSetup EXCEPT !.pc = "failed", !.client = setup.client]
  <2> DEFINE u(d) == [NoSetup EXCEPT !.pc = "failed", !.client = d]
  <2>1. \A d \in Clients \cup {NoClient} : /\ u(d) \in Setups /\ u(d).pc = "failed"
          /\ u(d).client = d /\ u(d).mem = Blank /\ u(d).call = NoSlot
    BY Blanks DEF Setups
  <2> HIDE DEF u
  <2>2. LET x == u(setup.client) IN
        /\ x \in Setups /\ x.pc = "failed" /\ x.client = setup.client
        /\ x.mem = Blank /\ x.call = NoSlot
    BY <1>2, <2>1
  <2> QED BY <1>1, <1>4, <2>2 DEF SetupTo, u
<1> QED BY <1>1, <1>3, <1>4 DEF SaveRegistration

LEMMA SetupWritesKey ==
  ASSUME Ground, SetupInstallsKey
  PROVE  /\ setup.pc = "install" /\ BackendSame
         /\ UNCHANGED <<disk, service, loop, lost, restarts>>
         /\ \/ /\ WriteKey(setup.mem.install, loop.pc) /\ setup.mem.install \in Keys
               /\ SetupTo("record", setup.client, setup.mem, NoSlot)
            \/ /\ UNCHANGED keyfile /\ Fault
               /\ \E p \in {"install", "stop"} :
                    SetupTo(p, setup.client, setup.mem, NoSlot)
<1>1. /\ setup.pc = "install" /\ BackendSame
      /\ UNCHANGED <<disk, service, loop, lost, restarts>>
  BY DEF SetupInstallsKey, BackendSame
<1>2. setup \in Setups /\ setup.call = NoSlot /\ setup.mem.install \in Keys
  BY <1>1, Processes, Calling DEF Ground, HandInv
<1>3. setup' = [setup EXCEPT !.pc = "record"] =>
        SetupTo("record", setup.client, setup.mem, NoSlot)
  BY <1>2, SetupPuts DEF SetupPCs
<1>4. setup' = AfterKey =>
        \E p \in {"install", "stop"} : SetupTo(p, setup.client, setup.mem, NoSlot)
  BY <1>2, KeyAttempts
<1> QED BY <1>1, <1>2, <1>3, <1>4 DEF SetupInstallsKey

LEMMA SetupRecords ==
  ASSUME Ground, SetupRecordsKey
  PROVE  LET m == [setup.mem EXCEPT !.ssh = setup.mem.install] IN
         /\ setup.pc = "record" /\ BackendSame
         /\ UNCHANGED <<keyfile, service, loop, lost, restarts>>
         /\ m \in Files /\ m.token = setup.mem.token /\ m.confirm = setup.mem.confirm
         /\ m.install = setup.mem.install /\ SaveFile(m)
         /\ \E p \in {"install", "stop"} : SetupTo(p, setup.client, m, NoSlot)
<1> DEFINE m == [setup.mem EXCEPT !.ssh = setup.mem.install]
<1>1. /\ setup.pc = "record" /\ BackendSame /\ SaveFile(m)
      /\ UNCHANGED <<keyfile, service, loop, lost, restarts>>
      /\ setup' = [AfterKey EXCEPT !.mem = m]
  BY DEF SetupRecordsKey, BackendSame
<1>2. setup \in Setups /\ setup.call = NoSlot /\ setup.mem \in Files
  BY <1>1, Processes, Calling
<1>3. /\ m \in Files /\ m.token = setup.mem.token /\ m.confirm = setup.mem.confirm
      /\ m.install = setup.mem.install
  BY <1>2, Processes DEF Files
<1> HIDE DEF m
<1>4. \E p \in {"install", "stop"} : SetupTo(p, setup.client, m, NoSlot)
  BY <1>1, <1>2, <1>3, KeyAttempts
<1> QED BY <1>1, <1>3, <1>4 DEF m

LEMMA SetupStops ==
  ASSUME Ground, StopOldLoop
  PROVE  /\ setup.pc = "stop" /\ SetupTo("start", setup.client, setup.mem, NoSlot)
         /\ BackendSame /\ service' = FALSE /\ UNCHANGED <<lost, restarts>>
         /\ \/ /\ loop' = LoopOff /\ disk' \in Interrupted(LoopSaving)
               /\ keyfile' \in TornKeys(loop.pc = "install") /\ UNCHANGED faults
            \/ Fault /\ UNCHANGED <<loop, disk, keyfile>>
<1>1. /\ setup.pc = "stop" /\ setup' = [setup EXCEPT !.pc = "start"]
      /\ BackendSame /\ service' = FALSE /\ UNCHANGED <<lost, restarts>>
      /\ \/ /\ loop' = LoopOff /\ disk' \in Interrupted(LoopSaving)
            /\ keyfile' \in TornKeys(loop.pc = "install") /\ UNCHANGED faults
         \/ Fault /\ UNCHANGED <<loop, disk, keyfile>>
  BY DEF StopOldLoop, BackendSame
<1>2. SetupTo("start", setup.client, setup.mem, NoSlot)
  BY <1>1, Processes, Calling, SetupPuts DEF SetupPCs
<1> QED BY <1>1, <1>2

LoopStarted ==
  \/ loop.pc # "off" /\ UNCHANGED loop
  \/ loop.pc = "off" /\ LoopTo("tick", disk, disk.token, NoSlot, NoKey)
LEMMA TaskStarts ==
  ASSUME Ground, loop' = Started
  PROVE  LoopStarted
<1>1. loop.pc # "off" => loop' = loop
  BY DEF Started
<1> QED BY <1>1, Processes, LoopBegins DEF LoopStarted

LEMMA SetupStartsTask ==
  ASSUME Ground, StartService
  PROVE  /\ setup.pc = "start" /\ SetupTo("beat", setup.client, setup.mem, NoSlot)
         /\ BackendSame /\ UNCHANGED <<disk, keyfile, lost, restarts>>
         /\ \/ service' = TRUE /\ LoopStarted /\ UNCHANGED faults
            \/ Fault /\ UNCHANGED <<service, loop>>
<1>1. /\ setup.pc = "start" /\ setup' = [setup EXCEPT !.pc = "beat", !.tries = 1]
      /\ BackendSame /\ UNCHANGED <<disk, keyfile, lost, restarts>>
      /\ \/ service' = TRUE /\ loop' = Started /\ UNCHANGED faults
         \/ Fault /\ UNCHANGED <<service, loop>>
  BY DEF StartService, BackendSame
<1>2. SetupTo("beat", setup.client, setup.mem, NoSlot)
  <2> DEFINE u(n) == [setup EXCEPT !.pc = "beat", !.tries = n]
  <2>1. setup' = u(1) /\ 1 \in 0..Attempts
    BY <1>1, DeviceAssumption
  <2>2. \A n \in 0..Attempts : setup' = u(n) =>
          SetupTo("beat", setup.client, setup.mem, setup.call)
    BY Processes, SetupPuts DEF SetupPCs
  <2> HIDE DEF u
  <2> QED BY <1>1, <2>1, <2>2, Calling
<1> QED BY <1>1, <1>2, TaskStarts

FilesSame == UNCHANGED <<disk, keyfile, service, lost, restarts>>

LEMMA SetupRegisters ==
  ASSUME Ground, NEW r \in Slots, PostRegister(r)
  PROVE  /\ setup.pc = "register" /\ setup.client \in Clients
         /\ StartRegister(r, setup.client) /\ FilesSame /\ UNCHANGED loop
         /\ SetupTo("wait", setup.client, setup.mem, r)
<1>1. /\ setup.pc = "register" /\ StartRegister(r, setup.client)
      /\ FilesSame /\ UNCHANGED loop
      /\ setup' = [setup EXCEPT !.pc = "wait", !.call = r]
  BY DEF PostRegister, FilesSame
<1>2. setup.client \in Clients
  BY <1>1 DEF Ground, HandInv, Registering
<1> QED BY <1>1, <1>2, Processes, SetupPuts DEF SetupPCs

LEMMA SetupHearsRegister ==
  ASSUME Ground, NEW r \in Slots, RegisterAnswered(r)
  PROVE  /\ setup.pc = "wait" /\ setup.call = r /\ Receive(r)
         /\ FilesSame /\ UNCHANGED loop
         /\ \/ /\ req[r].code = 200
               /\ SetupTo("save", setup.client,
                    [Blank EXCEPT !.token = setup.client, !.install = req[r].key], NoSlot)
            \/ SetupTo("register", setup.client, setup.mem, NoSlot)
            \/ SetupTo("failed", setup.client, Blank, NoSlot)
<1>1. /\ setup.pc = "wait" /\ setup.call = r /\ Receive(r)
      /\ FilesSame /\ UNCHANGED loop /\ setup' = AfterRegister(req[r].code, req[r].key)
  BY DEF RegisterAnswered, FilesSame
<1>2. req[r].code \in Codes /\ req[r].key \in Keys \cup {NoKey}
  BY DEF Ground, MotechTypeOK, TypeOK, RequestsOK, Requests
<1> QED BY <1>1, <1>2, Processes, RegisterEnds

(* The IPs a machine reports are of peers.                                 *)
LEMMA ReportsPeers == MachineIPs \subseteq Peers
BY MotechAssumption DEF MachineIPs, Peers

LEMMA SetupBeats ==
  ASSUME Ground, NEW r \in Slots, SetupBeat(r)
  PROVE  /\ setup.pc = "beat" /\ FilesSame /\ UNCHANGED loop
         /\ SetupTo("beating", setup.client, setup.mem, r)
         /\ \E c \in Clients, peer \in Peers :
              StartHeartbeat(r, c, peer, setup.mem.confirm, setup.mem.applied)
<1>1. PICK reload \in BOOLEAN, peer \in MachineIPs :
        /\ StartHeartbeat(r, AuthToken(setup, reload), peer, setup.mem.confirm,
                          setup.mem.applied)
        /\ setup' = [setup EXCEPT !.pc = "beating", !.call = r,
                                  !.cached = FreshToken(setup.cached, reload)]
  BY DEF SetupBeat
<1>2. /\ setup.pc = "beat" /\ FilesSame /\ UNCHANGED loop
  BY DEF SetupBeat, FilesSame
<1>3. setup.mem.token \in Clients
  BY <1>2 DEF Ground, HandInv, Registered
<1>4. setup.cached \in Clients \cup {NoClient}
  BY Processes DEF Setups
<1>5. FreshToken(setup.cached, reload) \in Clients \cup {NoClient}
  BY <1>4, Processes DEF FreshToken
<1>6. AuthToken(setup, reload) \in Clients
  BY <1>3, <1>5 DEF AuthToken
<1>7. SetupTo("beating", setup.client, setup.mem, r)
  BY <1>1, <1>5, Processes, SetupPuts DEF SetupPCs
<1> QED BY <1>1, <1>2, <1>6, <1>7, ReportsPeers

LEMMA SetupHearsBeat ==
  ASSUME Ground, NEW r \in Slots, SetupBeatAnswered(r)
  PROVE  /\ setup.pc = "beating" /\ setup.call = r /\ Receive(r)
         /\ FilesSame /\ UNCHANGED loop
         /\ SetupTo("beat", setup.client, setup.mem, NoSlot) \/ OffSetup
BY Processes, SetupBeatEnds DEF SetupBeatAnswered, FilesSame

(* The run loop.                                                           *)
LEMMA TaskStartsLoop ==
  ASSUME Ground, LoopStarts
  PROVE  /\ service /\ loop.pc = "off"
         /\ LoopTo("tick", disk, disk.token, NoSlot, NoKey)
         /\ BackendSame /\ FilesSame /\ UNCHANGED <<faults, setup>>
<1>1. /\ service /\ loop.pc = "off" /\ loop' = Started
      /\ BackendSame /\ FilesSame /\ UNCHANGED <<faults, setup>>
  BY DEF LoopStarts, BackendSame, FilesSame
<1> QED BY <1>1, TaskStarts DEF LoopStarted

(* It ends its tick without having done anything.                          *)
Idles ==
  /\ loop.pc \in {"tick", "reup"}
  /\ \E t \in {loop.cached, disk.token} :
       LoopTo("tick", loop.mem, t, NoSlot, loop.key)
  /\ BackendSame /\ FilesSame /\ UNCHANGED <<faults, setup>>
LEMMA LoopFindsNoToken ==
  ASSUME Ground, LoopUnregistered
  PROVE  Idles
<1>1. /\ loop.pc = "tick" /\ \E reload \in BOOLEAN : loop' = TickToken(reload)
      /\ BackendSame /\ FilesSame /\ UNCHANGED <<faults, setup>>
  BY DEF LoopUnregistered, BackendSame, FilesSame
<1> QED BY <1>1, Processes, Calling, LoopTokens DEF Idles

LEMMA LoopWritesKey ==
  ASSUME Ground, InstallPushedKey
  PROVE  /\ loop.pc = "install" /\ BackendSame
         /\ UNCHANGED <<disk, service, setup, lost, restarts>>
         /\ \/ /\ WriteKey(loop.key, setup.pc) /\ loop.key \in Keys
               /\ LoopTo("record", loop.mem, loop.cached, NoSlot, loop.key)
            \/ /\ UNCHANGED keyfile /\ Fault
               /\ LoopTo("tick", loop.mem, loop.cached, NoSlot, NoKey)
<1>1. /\ loop.pc = "install" /\ BackendSame
      /\ UNCHANGED <<disk, service, setup, lost, restarts>>
  BY DEF InstallPushedKey, BackendSame
<1>2. loop \in Loops /\ loop.call = NoSlot /\ loop.key \in Keys
  BY <1>1, Processes, Calling DEF Ground, HandInv
<1>3. loop' = [loop EXCEPT !.pc = "record"] =>
        LoopTo("record", loop.mem, loop.cached, NoSlot, loop.key)
  BY <1>2, LoopPuts DEF LoopPCs
<1>4. loop' = [loop EXCEPT !.pc = "tick", !.key = NoKey] =>
        LoopTo("tick", loop.mem, loop.cached, NoSlot, NoKey)
  BY <1>2, LoopPuts DEF LoopPCs
<1> QED BY <1>1, <1>2, <1>3, <1>4 DEF InstallPushedKey

(* A save of the run loop; m is the State it saves.                        *)
Saves(p, m, next, k) ==
  /\ loop.pc = p /\ m \in Files /\ m.token = loop.mem.token /\ SaveFile(m)
  /\ LoopTo(next, m, loop.cached, NoSlot, k)
  /\ BackendSame /\ UNCHANGED <<keyfile, service, setup, lost, restarts>>
LEMMA LoopSave ==
  ASSUME Ground, NEW p \in LoopPCs \ {"wait"}, loop.pc = p, NEW next \in LoopPCs,
         NEW m \in Files, m.token = loop.mem.token, NEW k \in Keys \cup {NoKey},
         LoopSaves(m, next, k)
  PROVE  Saves(p, m, next, k)
BY Processes, Calling, LoopPuts DEF LoopSaves, Saves, BackendSame

LEMMA LoopSaved ==
  ASSUME Ground
  PROVE  LET m == loop.mem
             k == loop.key IN
         /\ RecordPushedKey => \E n \in Files :
              n.ssh = k /\ n.confirm = m.confirm /\ Saves("record", n, "confirm", k)
         /\ ConfirmPending => \E n \in Files :
              n.ssh = m.ssh /\ n.confirm /\ Saves("confirm", n, "tick", NoKey)
         /\ ConfirmAcknowledged => \E n \in Files, p \in {"tick", "reup"} :
              n.ssh = m.ssh /\ ~n.confirm /\ Saves("acked", n, p, NoKey)
         /\ ReupNetbird => Idles \/ \E n \in Files :
              /\ n.ssh = m.ssh /\ n.confirm = m.confirm
              /\ Saves("reup", n, "tick", NoKey)
<1>m. loop.mem \in Files /\ loop.key \in Keys \cup {NoKey} /\ NoKey \in Keys \cup {NoKey}
  BY Processes
<1>p. {"record", "confirm", "acked", "reup"} \subseteq LoopPCs \ {"wait"}
      /\ {"confirm", "tick", "reup"} \subseteq LoopPCs
  BY DEF LoopPCs
<1>1. ASSUME RecordPushedKey
      PROVE  \E n \in Files : n.ssh = loop.key /\ n.confirm = loop.mem.confirm
                               /\ Saves("record", n, "confirm", loop.key)
  <2> DEFINE n == [loop.mem EXCEPT !.ssh = loop.key, !.install = loop.key]
  <2>1. n \in Files /\ n.ssh = loop.key /\ n.confirm = loop.mem.confirm
        /\ n.token = loop.mem.token
    BY <1>m DEF Files
  <2>2. loop.pc = "record" /\ LoopSaves(n, "confirm", loop.key)
    BY <1>1 DEF RecordPushedKey
  <2> HIDE DEF n
  <2> QED BY <1>m, <1>p, <2>1, <2>2, LoopSave
<1>2. ASSUME ConfirmPending
      PROVE  \E n \in Files : n.ssh = loop.mem.ssh /\ n.confirm
                               /\ Saves("confirm", n, "tick", NoKey)
  <2> DEFINE n == [loop.mem EXCEPT !.confirm = TRUE]
  <2>1. n \in Files /\ n.ssh = loop.mem.ssh /\ n.confirm /\ n.token = loop.mem.token
    BY <1>m DEF Files
  <2>2. loop.pc = "confirm" /\ LoopSaves(n, "tick", NoKey)
    BY <1>2 DEF ConfirmPending
  <2> HIDE DEF n
  <2> QED BY <1>m, <1>p, <2>1, <2>2, LoopSave
<1>3. ASSUME ConfirmAcknowledged
      PROVE  \E n \in Files, p \in {"tick", "reup"} :
               n.ssh = loop.mem.ssh /\ ~n.confirm /\ Saves("acked", n, p, NoKey)
  <2> DEFINE n == [loop.mem EXCEPT !.confirm = FALSE]
  <2>1. n \in Files /\ n.ssh = loop.mem.ssh /\ ~n.confirm /\ n.token = loop.mem.token
    BY <1>m DEF Files
  <2>2. loop.pc = "acked" /\ \E p \in {"tick", "reup"} : LoopSaves(n, p, NoKey)
    BY <1>3 DEF ConfirmAcknowledged
  <2> HIDE DEF n
  <2> QED BY <1>m, <1>p, <2>1, <2>2, LoopSave
<1>4. ASSUME ReupNetbird, ~Idles
      PROVE  \E n \in Files : n.ssh = loop.mem.ssh /\ n.confirm = loop.mem.confirm
                               /\ Saves("reup", n, "tick", NoKey)
  <2> DEFINE n == [loop.mem EXCEPT !.applied = TRUE]
  <2>1. n \in Files /\ n.ssh = loop.mem.ssh /\ n.confirm = loop.mem.confirm
        /\ n.token = loop.mem.token
    BY <1>m DEF Files
  <2>2. loop.pc = "reup"
    BY <1>4 DEF ReupNetbird
  <2>3. loop' = [loop EXCEPT !.pc = "tick"] =>
          LoopTo("tick", loop.mem, loop.cached, NoSlot, loop.key)
    BY <1>p, <2>2, Processes, Calling, LoopPuts
  <2>4. LoopSaves(n, "tick", NoKey)
    BY <1>4, <2>2, <2>3 DEF ReupNetbird, Idles, BackendSame, FilesSame
  <2> HIDE DEF n
  <2> QED BY <1>m, <1>p, <2>1, <2>2, <2>4, LoopSave
<1> QED BY <1>1, <1>2, <1>3, <1>4

LEMMA LoopBeats ==
  ASSUME Ground, NEW r \in Slots, LoopBeat(r)
  PROVE  /\ loop.pc \in {"tick", "resend"} /\ FilesSame /\ UNCHANGED setup
         /\ \E t \in {loop.cached, disk.token} :
              LoopTo("wait", loop.mem, t, r, loop.key)
         /\ \E c \in Clients, peer \in Peers :
              StartHeartbeat(r, c, peer, loop.mem.confirm, loop.mem.applied)
<1>1. PICK reload \in BOOLEAN, peer \in MachineIPs :
        LET c == AuthToken(loop, reload) IN
        /\ c # NoClient
        /\ StartHeartbeat(r, c, peer, loop.mem.confirm, loop.mem.applied)
        /\ loop' = [(IF loop.pc = "tick" THEN TickToken(reload) ELSE loop)
                      EXCEPT !.pc = "wait", !.call = r]
  BY DEF LoopBeat
<1>2. loop.pc \in {"tick", "resend"} /\ FilesSame /\ UNCHANGED setup
  BY DEF LoopBeat, FilesSame
<1>3. FreshToken(loop.cached, reload) \in {loop.cached, disk.token} \cap (Clients \cup {NoClient})
  BY Processes DEF FreshToken
<1>4. AuthToken(loop, reload) \in Clients
  <2>1. loop.mem.token \in Clients \cup {NoClient}
    BY Processes DEF Files
  <2> QED BY <2>1, <1>1, <1>3 DEF AuthToken
<1>5. \E t \in {loop.cached, disk.token} : LoopTo("wait", loop.mem, t, r, loop.key)
  <2>1. CASE loop.pc = "tick"
    <3>1. loop' = [TickToken(reload) EXCEPT !.pc = "wait", !.call = r]
      BY <1>1, <2>1
    <3> QED BY <3>1, <1>3, Processes, LoopTokens
  <2>2. CASE loop.pc # "tick"
    <3>1. loop' = [loop EXCEPT !.pc = "wait", !.call = r]
      BY <1>1, <2>2
    <3> QED BY <3>1, <1>3, Processes, LoopTokens
  <2> QED BY <2>1, <2>2
<1> QED BY <1>1, <1>2, <1>4, <1>5, ReportsPeers

(* The ways the run loop goes on after an answer q.                        *)
LoopHears(q) ==
  \/ LoopTo("tick", loop.mem, loop.cached, NoSlot, loop.key)
  \/ \E m \in Files :
       /\ m.ssh = loop.mem.ssh /\ m.confirm = loop.mem.confirm /\ m.token = disk.token
       /\ disk.token \notin {NoClient, loop.cached}
       /\ m = [loop.mem EXCEPT !.token = disk.token]
       /\ LoopTo("resend", m, disk.token, NoSlot, loop.key)
  \/ /\ q.code = 200 /\ q.rotate /\ q.key # NoKey
     /\ ~(loop.mem.confirm /\ loop.mem.ssh = q.key)
     /\ LoopTo("install", loop.mem, loop.cached, NoSlot, q.key)
  \/ /\ q.code = 200 /\ ~q.rotate /\ loop.mem.confirm
     /\ LoopTo("acked", loop.mem, loop.cached, NoSlot, loop.key)
  \/ q.code = 200 /\ LoopTo("reup", loop.mem, loop.cached, NoSlot, loop.key)
LEMMA LoopHeard ==
  ASSUME Ground, NEW code, NEW disabled \in BOOLEAN, NEW rotate \in BOOLEAN,
         NEW key \in Keys \cup {NoKey}, NEW apply \in BOOLEAN,
         loop' = AfterHeartbeat(code, disabled, rotate, key, apply)
  PROVE  LoopHears([code |-> code, rotate |-> rotate, key |-> key])
<1> DEFINE m == [loop.mem EXCEPT !.token = disk.token]
<1>1. /\ m \in Files /\ m.ssh = loop.mem.ssh /\ m.confirm = loop.mem.confirm
      /\ m.token = disk.token
  BY Processes DEF Files
<1>2. \/ LoopTo("tick", loop.mem, loop.cached, NoSlot, loop.key)
      \/ /\ disk.token \notin {NoClient, loop.cached}
         /\ LoopTo("resend", m, disk.token, NoSlot, loop.key)
      \/ /\ code = 200 /\ rotate /\ key # NoKey
         /\ ~(loop.mem.confirm /\ loop.mem.ssh = key)
         /\ LoopTo("install", loop.mem, loop.cached, NoSlot, key)
      \/ /\ code = 200 /\ ~rotate /\ loop.mem.confirm
         /\ LoopTo("acked", loop.mem, loop.cached, NoSlot, loop.key)
      \/ code = 200 /\ LoopTo("reup", loop.mem, loop.cached, NoSlot, loop.key)
  BY Processes, LoopEnds
<1> HIDE DEF m
<1>3. CASE /\ disk.token \notin {NoClient, loop.cached}
           /\ LoopTo("resend", m, disk.token, NoSlot, loop.key)
  BY <1>1, <1>3 DEF LoopHears, m
<1> QED BY <1>2, <1>3 DEF LoopHears

LEMMA LoopListens ==
  ASSUME Ground, NEW r \in Slots, LoopAnswered(r)
  PROVE  /\ loop.pc = "wait" /\ loop.call = r /\ Receive(r)
         /\ FilesSame /\ UNCHANGED setup
         /\ LoopHears([code |-> req[r].code, rotate |-> req[r].rotate, key |-> req[r].key])
<1> DEFINE q == req[r]
<1>1. /\ loop.pc = "wait" /\ loop.call = r /\ Receive(r)
      /\ FilesSame /\ UNCHANGED setup
      /\ loop' = AfterHeartbeat(q.code, q.seen = "disabled", q.rotate, q.key, q.apply)
  BY DEF LoopAnswered, FilesSame
<1>2. q.rotate \in BOOLEAN /\ q.key \in Keys \cup {NoKey} /\ q.apply \in BOOLEAN
  BY DEF Ground, MotechTypeOK, TypeOK, RequestsOK, Requests
<1>3. (q.seen = "disabled") \in BOOLEAN
  OBVIOUS
<1> QED BY <1>1, <1>2, <1>3, LoopHeard

(* Calls that fail; the machine stops.                                     *)
SetupFails ==
  \/ UNCHANGED setup /\ setup.pc \notin {"wait", "beating"}
  \/ /\ setup.pc = "wait"
     /\ \/ SetupTo("register", setup.client, setup.mem, NoSlot)
        \/ SetupTo("failed", setup.client, Blank, NoSlot)
  \/ /\ setup.pc = "beating"
     /\ SetupTo("beat", setup.client, setup.mem, NoSlot) \/ OffSetup
LoopFails ==
  \/ UNCHANGED loop /\ loop.pc # "wait"
  \/ loop.pc = "wait" /\ LoopTo("tick", loop.mem, loop.cached, NoSlot, loop.key)
LEMMA CallsFail ==
  ASSUME Ground
  PROVE  /\ setup' = Failed.setup => SetupFails
         /\ loop' = Failed.loop => LoopFails
<1>1. ASSUME setup' = Failed.setup PROVE SetupFails
  <2>1. CASE setup.pc = "wait"
    <3>1. setup' = AfterRegister(0, NoKey) /\ 0 \in Codes /\ 0 # 200
      BY <1>1, <2>1 DEF Failed, Codes
    <3> QED BY <2>1, <3>1, Processes, RegisterEnds DEF SetupFails
  <2>2. CASE setup.pc = "beating"
    <3>1. setup' = AfterSetupBeat(0)
      BY <1>1, <2>2 DEF Failed
    <3> QED BY <2>2, <3>1, Processes, SetupBeatEnds DEF SetupFails
  <2> QED BY <1>1, <2>1, <2>2 DEF Failed, SetupFails
<1>2. ASSUME loop' = Failed.loop PROVE LoopFails
  <2>1. CASE loop.pc = "wait"
    <3>1. loop' = AfterHeartbeat(0, FALSE, FALSE, NoKey, FALSE)
      BY <1>2, <2>1 DEF Failed
    <3>2. loop' = BeatOver
      BY <3>1 DEF AfterHeartbeat
    <3>3. LoopTo("tick", loop.mem, loop.cached, NoSlot, loop.key)
      <4>1. /\ BeatOver \in Loops /\ BeatOver.pc = "tick" /\ BeatOver.mem = loop.mem
            /\ BeatOver.cached = loop.cached /\ BeatOver.call = NoSlot
            /\ BeatOver.key = loop.key
        BY Processes DEF BeatOver, Loops
      <4> QED BY <3>2, <4>1 DEF LoopTo
    <3> QED BY <2>1, <3>3 DEF LoopFails
  <2> QED BY <1>2, <2>1 DEF Failed, LoopFails
<1> QED BY <1>1, <1>2

LEMMA CallsLost ==
  ASSUME Ground, CallLost
  PROVE  /\ UNCHANGED <<disk, keyfile, service, restarts>> /\ BackendSame
         /\ UNCHANGED faults /\ lost' \in 0..MaxLost
         /\ \/ SetupFails /\ UNCHANGED loop
            \/ LoopFails /\ UNCHANGED setup
<1>1. /\ UNCHANGED <<disk, keyfile, service, restarts>> /\ BackendSame /\ UNCHANGED faults
      /\ \/ setup' = Failed.setup /\ UNCHANGED loop
         \/ loop' = Failed.loop /\ UNCHANGED setup
  BY DEF CallLost, vars, BackendSame
<1>2. lost' \in 0..MaxLost
  BY DeviceAssumption DEF CallLost, Ground, MotechTypeOK, DeviceTypeOK
<1> QED BY <1>1, <1>2, CallsFail

LEMMA CallsDropped ==
  ASSUME Ground, ServerRestarts
  PROVE  /\ UNCHANGED <<disk, keyfile, service, restarts>> /\ UNCHANGED <<dbVars, faults>>
         /\ ServerCrash /\ req' = [r \in Slots |-> Idle] /\ lost' \in 0..MaxLost
         /\ SetupFails /\ LoopFails
<1>1. /\ UNCHANGED <<disk, keyfile, service, restarts>> /\ UNCHANGED <<dbVars, faults>>
      /\ ServerCrash /\ req' = [r \in Slots |-> Idle]
      /\ setup' = Failed.setup /\ loop' = Failed.loop
  BY DEF ServerRestarts, ServerCrash
<1>2. lost' \in 0..MaxLost
  BY DeviceAssumption DEF ServerRestarts, Ground, MotechTypeOK, DeviceTypeOK
<1> QED BY <1>1, <1>2, CallsFail

LEMMA MachineStops ==
  ASSUME Ground, Reboot
  PROVE  /\ disk' \in Interrupted(SetupSaving \/ LoopSaving)
         /\ keyfile' \in TornKeys("install" \in {setup.pc, loop.pc})
         /\ BackendSame /\ UNCHANGED <<faults, service, lost>>
         /\ OffSetup /\ OffLoop /\ restarts' \in 0..MaxRestarts
<1>1. OffSetup /\ OffLoop
  BY Blanks DEF Reboot, SetupTo, LoopTo, OffSetup, OffLoop
<1>2. restarts' \in 0..MaxRestarts
  BY DeviceAssumption DEF Reboot, Ground, MotechTypeOK, DeviceTypeOK
<1> QED BY <1>1, <1>2 DEF Reboot, BackendSame

---------------------------------------------------------------------------
(* The machine's calls are requests of Backend like any other, so that     *)
(* Backend's invariants hold of the two together.                          *)
LEMMA AdminOpens ==
  ASSUME TypeOK, NEW r \in Slots, NEW c \in Clients, AdminStart(r, c)
  PROVE  /\ Start(r, c) /\ At(r, "idle") /\ OthersStay(r)
         /\ req'[r].op \in AdminOps /\ req'[r].pc # "idle" /\ req'[r].pc # "done"
<1>1. Start(r, c)
  BY DEF AdminStart, Start
<1>2. req \in [Slots -> Requests]
  BY DEF TypeOK, RequestsOK
<1>3. ASSUME NEW op \in AdminOps, NEW p \in FirstPCs, Begin(r, op, p, c)
      PROVE  /\ At(r, "idle") /\ OthersStay(r)
             /\ req'[r].op \in AdminOps /\ req'[r].pc # "idle" /\ req'[r].pc # "done"
  <2> DEFINE s == [Idle EXCEPT !.op = op, !.pc = p, !.client = c]
  <2>1. At(r, "idle") /\ OthersStay(r) /\ req'[r] = s
    BY <1>2, <1>3 DEF Begin, Put, OthersStay
  <2>2. s.op = op /\ s.pc = p
    BY DEF Idle
  <2> HIDE DEF s
  <2> QED BY <2>1, <2>2 DEF FirstPCs
<1>4. ASSUME NEW op \in AdminOps, NEW p \in FirstPCs, NEW k,
             Put(r, [Idle EXCEPT !.op = op, !.pc = p, !.client = c, !.key = k]),
             At(r, "idle")
      PROVE  /\ OthersStay(r)
             /\ req'[r].op \in AdminOps /\ req'[r].pc # "idle" /\ req'[r].pc # "done"
  <2> DEFINE s == [Idle EXCEPT !.op = op, !.pc = p, !.client = c, !.key = k]
  <2>1. OthersStay(r) /\ req'[r] = s
    BY <1>2, <1>4 DEF Put, OthersStay
  <2>2. s.op = op /\ s.pc = p
    BY DEF Idle
  <2> HIDE DEF s
  <2> QED BY <2>1, <2>2 DEF FirstPCs
<1>5. {"create", "rotate", "disable", "delete", "connection"} \subseteq AdminOps
      /\ {"cc_setup", "rk_read", "di_scan", "dl_scan", "cn_client"} \subseteq FirstPCs
  BY DEF AdminOps, FirstPCs
<1>6. CASE StartCreateClient(r, c)
  BY <1>1, <1>4, <1>5, <1>6 DEF StartCreateClient
<1>7. CASE StartRotateKey(r, c)
  BY <1>1, <1>4, <1>5, <1>7 DEF StartRotateKey
<1>8. CASE StartDisableClient(r, c) \/ StartDeleteClient(r, c) \/ StartConnection(r, c)
  BY <1>1, <1>3, <1>5, <1>8 DEF StartDisableClient, StartDeleteClient, StartConnection
<1> QED BY <1>6, <1>7, <1>8 DEF AdminStart

LEMMA MotechLifts ==
  ASSUME Ground, MotechNext
  PROVE  Outside \/ \E r \in Slots : Serve(r)
<1>t. TypeOK
  BY DEF Ground, MotechTypeOK
<1>s. ASSUME NEW m, SaveFile(m), BackendSame PROVE Outside
  BY <1>s DEF SaveFile, BackendSame, Outside
<1>w. ASSUME NEW k \in Keys, NEW other, WriteKey(k, other), BackendSame PROVE Outside
  BY <1>w, WritesKey DEF BackendSame, Outside, Ground, MotechTypeOK
<1>f. BackendSame /\ (UNCHANGED faults \/ Fault) => Outside
  BY DEF BackendSame, Outside
<1>1. ASSUME NEW r \in Slots, BackendStep(r) PROVE Outside \/ Serve(r)
  BY <1>t, <1>1, AdminOpens DEF BackendStep, Outside, Opens
<1>2. ASSUME NEW r \in Slots, AgentStep(r) PROVE Outside
  <2>1. CASE PostRegister(r)
    BY <2>1, SetupRegisters DEF Outside, Opens
  <2>2. CASE RegisterAnswered(r) \/ SetupBeatAnswered(r) \/ LoopAnswered(r)
    BY <2>2 DEF RegisterAnswered, SetupBeatAnswered, LoopAnswered, Outside
  <2>3. CASE SetupBeat(r) \/ LoopBeat(r)
    <3>1. \E c \in Clients, peer \in Peers, rotated, applied \in BOOLEAN :
            StartHeartbeat(r, c, peer, rotated, applied)
      <4>1. /\ setup.mem.confirm \in BOOLEAN /\ setup.mem.applied \in BOOLEAN
            /\ loop.mem.confirm \in BOOLEAN /\ loop.mem.applied \in BOOLEAN
        BY Processes DEF Files
      <4>2. CASE SetupBeat(r)
        BY <4>1, <4>2, SetupBeats
      <4>3. CASE LoopBeat(r)
        BY <4>1, <4>3, LoopBeats
      <4> QED BY <2>3, <4>2, <4>3
    <3> QED BY <3>1 DEF Outside, Opens
  <2> QED BY <1>2, <2>1, <2>2, <2>3 DEF AgentStep
<1>3. ASSUME NEW c \in Clients, StartSetup(c) \/ WorldStep(c) PROVE Outside
  <2>1. CASE StartSetup(c)
    BY <1>f, <2>1 DEF StartSetup, BackendSame
  <2>2. CASE WorldStep(c)
    BY <2>2 DEF WorldStep, World, Outside
  <2> QED BY <1>3, <2>1, <2>2
<1>4. CASE SetupStep
  <2>1. SaveRegistration => Outside
    BY <1>f, SetupSaves
  <2>2. SetupInstallsKey => Outside
    BY <1>f, <1>w, SetupWritesKey
  <2>3. SetupRecordsKey => Outside
    BY <1>s, SetupRecords
  <2>4. StopOldLoop => Outside
    BY <1>f, SetupStops
  <2>5. StartService => Outside
    BY <1>f, SetupStartsTask
  <2> QED BY <1>4, <2>1, <2>2, <2>3, <2>4, <2>5 DEF SetupStep
<1>5. CASE LoopStep
  <2>1. Idles \/ LoopUnregistered => Outside
    BY <1>f, LoopFindsNoToken DEF Idles
  <2>2. InstallPushedKey => Outside
    BY <1>f, <1>w, LoopWritesKey
  <2>3. RecordPushedKey \/ ConfirmPending \/ ConfirmAcknowledged \/ ReupNetbird => Outside
    BY <1>s, <2>1, LoopSaved DEF Saves
  <2> QED BY <1>5, <2>1, <2>2, <2>3 DEF LoopStep
<1>6. CASE LoopStarts \/ Reboot \/ CallLost \/ ServerRestarts
  <2>1. LoopStarts => Outside
    BY <1>f, TaskStartsLoop
  <2>2. Reboot => Outside
    BY <1>f, MachineStops
  <2>3. CallLost => Outside
    BY <1>f, CallsLost
  <2>4. ServerRestarts => Outside
    BY CallsDropped DEF Outside
  <2> QED BY <1>6, <2>1, <2>2, <2>3, <2>4
<1> QED BY <1>1, <1>2, <1>3, <1>4, <1>5, <1>6 DEF MotechNext

(* What a statement of a request does to those the machine waits for.      *)
LEMMA ServedCalls ==
  ASSUME IInv, RequestInv, NEW r \in Slots, Serve(r)
  PROVE  /\ Keeps(r)
         /\ \A q \in Slots : Beat(q)' => Beat(q) /\ req'[q].client = req[q].client
         /\ \A q \in Slots : Granted(q)' =>
              \/ Granted(q) /\ req'[q] = req[q]
              \/ /\ q = r /\ \E ok \in BOOLEAN, k \in Keys \cup {NoKey} : Redeems(r, ok, k)
                 /\ issued' = [issued EXCEPT ![req[r].client] = @ + 1]
         /\ \A c \in Clients : issued'[c] \in Nat /\ issued[c] > 0 => issued'[c] > 0
<1>t. TypeOK /\ req[r] \in Requests /\ (~At(r, "idle") => req[r].client \in Clients)
  BY DEF IInv, TypeOK, RequestsOK
<1>1. Keeps(r)
  BY <1>t, AgentAnswers, AdminAnswers DEF Serve, AgentAnswer
<1>2. \A q \in Slots : Beat(q)' => Beat(q) /\ req'[q].client = req[q].client
  BY <1>1 DEF Keeps, OthersStay, Beat, At
<1>3. ASSUME Granted(r)'
      PROVE  /\ \E ok \in BOOLEAN, k \in Keys \cup {NoKey} : Redeems(r, ok, k)
             /\ issued' = [issued EXCEPT ![req[r].client] = @ + 1]
  <2>1. /\ req[r].op = "register" /\ req'[r].pc = "done" /\ req'[r].code = 200
        /\ OpOf(req[r].pc) = "register"
    <3>1. req[r].op = "register" /\ req[r].pc \notin {"idle", "done"}
      BY <1>1, <1>3 DEF Granted, Keeps
    <3>2. req[r].op = OpOf(req[r].pc)
      BY <3>1 DEF RequestInv, RouteInv
    <3> QED BY <1>3, <3>1, <3>2 DEF Granted, At
  <2>2. StepAgent(r) /\ AgentAnswer(r)
    BY <1>t, <2>1, AdminAnswers, AgentAnswers DEF Serve, AdminOps
  <2>3. \E ok \in BOOLEAN, k \in Keys \cup {NoKey} : Redeems(r, ok, k)
    BY <2>1, <2>2, Handlers DEF AgentAnswer, GoesOn, Ends, Confirms, Replies, Looks,
                                Reads, At
  <2>4. At(r, "rg_key")
    BY <2>3 DEF Redeems
  <2>5. IssueAgentToken(r)
    BY <2>2, <2>4 DEF StepAgent, At, CheckToken, MarkTokenUsed, RegisterOnline,
       ReadSetupKey, ReadStatus, RecordPeer, ReadAlreadyEnabled, EnableSSH,
       RecordEnabled, RecordApplied, AcknowledgeRotation, HeartbeatOnline,
       ReadPendingRotation, ReadInstallPub, ReadSshEnabled, ReplyHeartbeat
  <2> QED BY <2>3, <2>5 DEF IssueAgentToken
<1>4. \A q \in Slots \ {r} : Granted(q)' => Granted(q) /\ req'[q] = req[q]
  BY <1>1 DEF Keeps, OthersStay, Granted, At
<1>5. \A c \in Clients : issued'[c] \in Nat /\ issued[c] > 0 => issued'[c] > 0
  <2>1. issued \in [Clients -> Nat] /\ (UNCHANGED issued
          \/ issued' = [issued EXCEPT ![req[r].client] = @ + 1])
    BY <1>t, AgentKeys, AdminKeys DEF Serve, TypeOK
  <2> QED BY <1>t, <1>1, <2>1 DEF Keeps, At
<1> QED BY <1>1, <1>2, <1>3, <1>4, <1>5

---------------------------------------------------------------------------
(* Types, calls, and what the processes have at hand.                      *)

(* A step that starts no call.                                             *)
NoNewCall ==
  /\ UNCHANGED setup \/ (setup'.call = NoSlot /\ setup'.pc \notin {"wait", "beating"})
  /\ UNCHANGED loop \/ (loop'.call = NoSlot /\ loop'.pc # "wait")
LEMMA CallsKept ==
  ASSUME Ground, NoNewCall,
         \A x \in Slots : x \in {setup'.call, loop'.call} /\ ~At(x, "idle") =>
           ~At(x, "idle")' /\ req'[x].op = req[x].op /\ req'[x].client = req[x].client,
         \A r \in Slots : Beat(r)' \/ Granted(r)' => issued'[req'[r].client] > 0
  PROVE  CallInv'
<1> USE DEF Ground, CallInv, NoNewCall, Beat, At
<1>n. NoSlot \notin Slots
  BY DeviceAssumption
<1>1. /\ setup'.pc = "wait" => /\ setup'.call \in Slots /\ ~At(setup.call, "idle")'
                               /\ req'[setup'.call].op = "register"
                               /\ req'[setup'.call].client = setup'.client
      /\ setup'.pc = "beating" => setup'.call \in Slots /\ Beat(setup.call)'
      /\ setup'.pc \notin {"wait", "beating"} => setup'.call = NoSlot
  <2>1. CASE UNCHANGED setup
    BY <2>1
  <2>2. CASE setup'.call = NoSlot /\ setup'.pc \notin {"wait", "beating"}
    BY <2>2
  <2> QED BY <2>1, <2>2
<1>2. /\ loop'.pc = "wait" => loop'.call \in Slots /\ Beat(loop.call)'
      /\ loop'.pc # "wait" => loop'.call = NoSlot
  <2>1. CASE UNCHANGED loop
    BY <2>1
  <2>2. CASE loop'.call = NoSlot /\ loop'.pc # "wait"
    BY <2>2
  <2> QED BY <2>1, <2>2
<1>3. setup'.call = loop'.call => loop'.call = NoSlot
  OBVIOUS
<1>4. CallInv' <=>
        /\ setup'.pc = "wait" => /\ setup'.call \in Slots /\ ~At(setup.call, "idle")'
                                 /\ req'[setup'.call].op = "register"
                                 /\ req'[setup'.call].client = setup'.client
        /\ setup'.pc = "beating" => setup'.call \in Slots /\ Beat(setup.call)'
        /\ setup'.pc \notin {"wait", "beating"} => setup'.call = NoSlot
        /\ loop'.pc = "wait" => loop'.call \in Slots /\ Beat(loop.call)'
        /\ loop'.pc # "wait" => loop'.call = NoSlot
        /\ setup'.call = loop'.call => loop'.call = NoSlot
        /\ \A r \in Slots : Beat(r)' \/ Granted(r)' => issued'[req'[r].client] > 0
  OBVIOUS
<1> QED BY <1>1, <1>2, <1>3, <1>4

(* The types and hands of the processes once they have moved.              *)
LEMMA SetupKept ==
  ASSUME Ground,
         \/ UNCHANGED setup
         \/ OffSetup
         \/ \E d \in Clients, q \in Slots \cup {NoSlot}, p \in {"register", "wait"},
               m \in Files : SetupTo(p, d, m, q)
         \/ \E d \in Clients \cup {NoClient} : SetupTo("failed", d, Blank, NoSlot)
         \/ \E p \in {"save", "install", "record", "stop", "start", "beat", "beating"},
               d \in Clients, m \in Files, q \in Slots \cup {NoSlot} :
              /\ SetupTo(p, d, m, q) /\ m.token = d /\ ~m.confirm
              /\ p \in {"install", "record"} => m.install # NoKey
  PROVE  /\ setup' \in Setups
         /\ (Registering \/ Registered)' => setup'.client \in Clients
         /\ Registered' => setup'.mem.token = setup'.client /\ ~setup'.mem.confirm
         /\ setup'.pc \in {"install", "record"} => setup'.mem.install # NoKey
BY Processes DEF SetupTo, OffSetup, Ground, HandInv, Registering, Registered

LEMMA LoopKept ==
  ASSUME Ground,
         \/ UNCHANGED loop
         \/ \E p \in LoopPCs, m \in Files : \E t, q, k :
              LoopTo(p, m, t, q, k) /\ (p \in {"install", "record", "confirm"} => k # NoKey)
  PROVE  /\ loop' \in Loops
         /\ loop'.pc \in {"install", "record", "confirm"} => loop'.key # NoKey
BY Processes DEF LoopTo, Ground, HandInv

LEMMA HandsKept ==
  ASSUME /\ setup' \in Setups
         /\ (Registering \/ Registered)' => setup'.client \in Clients
         /\ Registered' => setup'.mem.token = setup'.client /\ ~setup'.mem.confirm
         /\ setup'.pc \in {"install", "record"} => setup'.mem.install # NoKey,
         /\ loop' \in Loops
         /\ loop'.pc \in {"install", "record", "confirm"} => loop'.key # NoKey
  PROVE  HandInv' /\ setup' \in Setups /\ loop' \in Loops
BY DEF HandInv, Registering, Registered

(* What the files become.                                                  *)
LEMMA FilesKept ==
  ASSUME Ground
  PROVE  /\ \A m \in Files : SaveFile(m) => disk' \in Files
         /\ \A x : disk' \in Interrupted(x) => disk' \in Files
         /\ \A x : keyfile' \in TornKeys(x) => keyfile' \subseteq Lines
         /\ UNCHANGED disk => disk' \in Files
         /\ UNCHANGED keyfile => keyfile' \subseteq Lines
         /\ UNCHANGED service => service' \in BOOLEAN
         /\ UNCHANGED lost => lost' \in 0..MaxLost
         /\ UNCHANGED restarts => restarts' \in 0..MaxRestarts
BY Processes DEF SaveFile, Interrupted, TornKeys, Ground, MotechTypeOK, DeviceTypeOK

GroundNext == DeviceTypeOK' /\ CallInv' /\ HandInv'
LEMMA GroundParts ==
  ASSUME disk' \in Files, keyfile' \subseteq Lines, service' \in BOOLEAN,
         lost' \in 0..MaxLost, restarts' \in 0..MaxRestarts,
         setup' \in Setups, loop' \in Loops, CallInv', HandInv'
  PROVE  GroundNext
BY DEF GroundNext, DeviceTypeOK, Lines

LEMMA CallsSame ==
  ASSUME Ground, BackendSame, NoNewCall
  PROVE  CallInv'
<1>1. \A r \in Slots : Beat(r)' \/ Granted(r)' => issued'[req'[r].client] > 0
  BY DEF Ground, CallInv, BackendSame, Beat, Granted, At, dbVars, sideVars
<1>2. \A x \in Slots : ~At(x, "idle") =>
        ~At(x, "idle")' /\ req'[x].op = req[x].op /\ req'[x].client = req[x].client
  BY DEF BackendSame, At
<1> QED BY <1>1, <1>2, CallsKept

(* A slot that is freed once its answer has been taken.                    *)
LEMMA CallsReceived ==
  ASSUME Ground, NEW r \in Slots, Receive(r), NoNewCall, r \notin {setup'.call, loop'.call}
  PROVE  CallInv'
<1>1. OthersStay(r) /\ req'[r] = Idle /\ UNCHANGED issued
  BY DEF Ground, MotechTypeOK, TypeOK, RequestsOK, Receive, Put, OthersStay, dbVars, sideVars
<1>2. Idle.op = "none"
  BY DEF Idle
<1>3. ~Beat(r)' /\ ~Granted(r)'
  BY <1>1, <1>2 DEF Beat, Granted
<1>4. \A q \in Slots : Beat(q)' \/ Granted(q)' => issued'[req'[q].client] > 0
  BY <1>1, <1>3 DEF Ground, CallInv, OthersStay, Beat, Granted, At
<1>5. \A x \in Slots : x \in {setup'.call, loop'.call} /\ ~At(x, "idle") =>
        ~At(x, "idle")' /\ req'[x].op = req[x].op /\ req'[x].client = req[x].client
  BY <1>1 DEF OthersStay, At
<1> QED BY <1>4, <1>5, CallsKept

LEMMA SetupStepKept ==
  ASSUME Ground, SetupStep \/ \E c \in Clients : StartSetup(c)
  PROVE  GroundNext
<1> USE Processes, Calling
<1>h. /\ setup.pc \in {"save", "install", "record", "stop", "start", "beat", "beating"} =>
           setup.client \in Clients /\ setup.mem.token = setup.client /\ ~setup.mem.confirm
  BY DEF Ground, HandInv, Registered
<1>n. NoClient \in Clients \cup {NoClient}
  OBVIOUS
<1>1. ASSUME NEW c \in Clients, StartSetup(c) PROVE GroundNext
  <2> USE <1>1, SetupStarts
  <2>1. NoNewCall
    BY DEF NoNewCall, SetupTo
  <2> QED BY <2>1, CallsSame, SetupKept, LoopKept, HandsKept, FilesKept, GroundParts
<1>2. CASE SaveRegistration
  <2> USE <1>2, SetupSaves
  <2>1. NoNewCall
    BY DEF NoNewCall, SetupTo
  <2>2. disk' \in Files
    BY FilesKept
  <2> QED BY <1>h, <2>1, <2>2, CallsSame, SetupKept, LoopKept, HandsKept, FilesKept,
             GroundParts
<1>3. CASE SetupInstallsKey
  <2> USE <1>3, SetupWritesKey
  <2>1. NoNewCall
    BY DEF NoNewCall, SetupTo
  <2>2. keyfile' \subseteq Lines
    BY FilesKept, WritesKey DEF Ground, MotechTypeOK
  <2>3. setup.mem.install # NoKey
    BY DEF Ground, HandInv
  <2> QED BY <1>h, <2>1, <2>2, <2>3, CallsSame, SetupKept, LoopKept, HandsKept, FilesKept,
             GroundParts
<1>4. CASE SetupRecordsKey
  <2> DEFINE m == [setup.mem EXCEPT !.ssh = setup.mem.install]
  <2>1. /\ setup.pc = "record" /\ BackendSame
        /\ UNCHANGED <<keyfile, service, loop, lost, restarts>>
        /\ m \in Files /\ m.token = setup.mem.token /\ m.confirm = setup.mem.confirm
        /\ m.install = setup.mem.install /\ SaveFile(m)
        /\ \E p \in {"install", "stop"} : SetupTo(p, setup.client, m, NoSlot)
    BY <1>4, SetupRecords
  <2> HIDE DEF m
  <2>2. NoNewCall
    BY <2>1 DEF NoNewCall, SetupTo
  <2>3. disk' \in Files
    BY <2>1, FilesKept
  <2>4. m.install # NoKey /\ ~m.confirm /\ m.token = setup.client
    BY <1>h, <2>1 DEF Ground, HandInv
  <2> QED BY <1>h, <2>1, <2>2, <2>3, <2>4, CallsSame, SetupKept, LoopKept, HandsKept,
             FilesKept, GroundParts
<1>5. CASE StopOldLoop
  <2> USE <1>5, SetupStops
  <2>1. NoNewCall
    BY Blanks DEF NoNewCall, SetupTo
  <2>2. disk' \in Files /\ keyfile' \subseteq Lines
    BY FilesKept
  <2>3. /\ loop' \in Loops
        /\ loop'.pc \in {"install", "record", "confirm"} => loop'.key # NoKey
    BY LoopKept, Blanks
  <2> QED BY <1>h, <2>1, <2>2, <2>3, CallsSame, SetupKept, HandsKept, FilesKept,
             GroundParts
<1>6. CASE StartService
  <2> USE <1>6, SetupStartsTask
  <2>1. NoNewCall
    BY DEF NoNewCall, SetupTo, LoopTo, LoopStarted
  <2>2. /\ loop' \in Loops
        /\ loop'.pc \in {"install", "record", "confirm"} => loop'.key # NoKey
    BY LoopKept DEF LoopStarted, LoopPCs
  <2>3. service' \in BOOLEAN
    BY FilesKept
  <2> QED BY <1>h, <2>1, <2>2, <2>3, CallsSame, SetupKept, HandsKept, FilesKept,
             GroundParts
<1> QED BY <1>1, <1>2, <1>3, <1>4, <1>5, <1>6 DEF SetupStep

LEMMA LoopStepKept ==
  ASSUME Ground, LoopStep \/ LoopStarts \/ Reboot \/ CallLost
  PROVE  GroundNext
<1> USE Processes, Calling
<1>1. CASE LoopStarts
  <2> USE <1>1, TaskStartsLoop
  <2>1. NoNewCall
    BY DEF NoNewCall, LoopTo
  <2>2. /\ loop' \in Loops
        /\ loop'.pc \in {"install", "record", "confirm"} => loop'.key # NoKey
    BY LoopKept DEF LoopPCs
  <2> QED BY <2>1, <2>2, CallsSame, SetupKept, HandsKept, FilesKept, GroundParts DEF FilesSame
<1>2. CASE Idles
  <2> USE <1>2 DEF Idles
  <2>1. NoNewCall
    BY DEF NoNewCall, LoopTo
  <2>2. /\ loop' \in Loops
        /\ loop'.pc \in {"install", "record", "confirm"} => loop'.key # NoKey
    BY LoopKept DEF LoopPCs
  <2> QED BY <2>1, <2>2, CallsSame, SetupKept, HandsKept, FilesKept, GroundParts DEF FilesSame
<1>3. CASE InstallPushedKey
  <2> USE <1>3, LoopWritesKey
  <2>1. NoNewCall
    BY DEF NoNewCall, LoopTo
  <2>k. \E p \in {"record", "tick"}, k \in Keys \cup {NoKey} :
          LoopTo(p, loop.mem, loop.cached, NoSlot, k) /\ (p = "record" => k # NoKey)
    BY DEF Ground, HandInv
  <2>2. /\ loop' \in Loops
        /\ loop'.pc \in {"install", "record", "confirm"} => loop'.key # NoKey
    BY <2>k, LoopKept DEF LoopPCs
  <2>3. keyfile' \subseteq Lines
    BY FilesKept, WritesKey DEF Ground, MotechTypeOK
  <2> QED BY <2>1, <2>2, <2>3, CallsSame, SetupKept, HandsKept, FilesKept, GroundParts
<1>4. ASSUME NEW p \in {"record", "confirm", "acked", "reup"}, NEW m \in Files,
             NEW next \in {"confirm", "tick", "reup"}, NEW k \in Keys \cup {NoKey},
             Saves(p, m, next, k), next = "confirm" => k # NoKey
      PROVE  GroundNext
  <2> USE <1>4 DEF Saves
  <2>1. NoNewCall
    BY DEF NoNewCall, LoopTo
  <2>2. /\ loop' \in Loops
        /\ loop'.pc \in {"install", "record", "confirm"} => loop'.key # NoKey
    BY LoopKept DEF LoopPCs
  <2> QED BY <2>1, <2>2, CallsSame, SetupKept, HandsKept, FilesKept, GroundParts
<1>5. RecordPushedKey \/ ConfirmPending \/ ConfirmAcknowledged \/ ReupNetbird
        => GroundNext \/ Idles
  <2>1. RecordPushedKey => loop.key # NoKey
    BY DEF RecordPushedKey, Ground, HandInv
  <2> QED BY <1>4, <2>1, LoopSaved
<1>6. CASE Reboot
  <2> USE <1>6, MachineStops
  <2>1. NoNewCall
    BY DEF NoNewCall, OffSetup, OffLoop, SetupTo, LoopTo
  <2>2. /\ loop' \in Loops
        /\ loop'.pc \in {"install", "record", "confirm"} => loop'.key # NoKey
    BY LoopKept, Blanks DEF LoopPCs, OffLoop
  <2> QED BY <2>1, <2>2, CallsSame, SetupKept, HandsKept, FilesKept, GroundParts
<1>7. CASE CallLost
  <2>1. NoNewCall
    BY <1>7, CallsLost DEF NoNewCall, SetupFails, LoopFails, OffSetup, SetupTo, LoopTo
  <2>2. /\ loop' \in Loops
        /\ loop'.pc \in {"install", "record", "confirm"} => loop'.key # NoKey
    BY <1>7, CallsLost, LoopKept DEF LoopPCs, LoopFails
  <2>3. SetupFails => \/ UNCHANGED setup \/ OffSetup
                      \/ SetupTo("register", setup.client, setup.mem, NoSlot)
                         /\ setup.client \in Clients
                      \/ SetupTo("failed", setup.client, Blank, NoSlot)
                      \/ SetupTo("beat", setup.client, setup.mem, NoSlot)
                         /\ setup.client \in Clients /\ ~setup.mem.confirm
                         /\ setup.mem.token = setup.client
    BY DEF SetupFails, Ground, HandInv, Registered, Registering
  <2>4. UNCHANGED setup \/ SetupFails
    BY <1>7, CallsLost
  <2>5. /\ setup' \in Setups
        /\ (Registering \/ Registered)' => setup'.client \in Clients
        /\ Registered' => setup'.mem.token = setup'.client /\ ~setup'.mem.confirm
        /\ setup'.pc \in {"install", "record"} => setup'.mem.install # NoKey
    BY <2>3, <2>4, SetupKept
  <2> QED BY <1>7, <2>1, <2>2, <2>5, CallsLost, CallsSame, HandsKept, FilesKept, GroundParts
<1> QED BY <1>1, <1>2, <1>3, <1>5, <1>6, <1>7, LoopFindsNoToken DEF LoopStep

(* Steps that leave the machine alone.                                     *)
LEMMA MachineSame ==
  ASSUME Ground, UNCHANGED deviceVars
  PROVE  NoNewCall /\ HandInv' /\ (CallInv' => GroundNext)
<1>1. NoNewCall
  BY DEF NoNewCall, deviceVars
<1>2. HandInv'
  BY DEF Ground, HandInv, Registering, Registered, deviceVars
<1>3. DeviceTypeOK'
  BY DEF Ground, MotechTypeOK, DeviceTypeOK, deviceVars
<1> QED BY <1>1, <1>2, <1>3 DEF GroundNext

(* A request of an administrator opens in a free slot.                     *)
LEMMA CallsOpened ==
  ASSUME Ground, NoNewCall, NEW r \in Slots, At(r, "idle"), OthersStay(r),
         UNCHANGED issued, req'[r].op \in AdminOps, req'[r].pc # "idle"
  PROVE  CallInv'
<1>1. ~Beat(r)' /\ ~Granted(r)'
  BY DEF AdminOps, Beat, Granted
<1>2. \A q \in Slots : Beat(q)' \/ Granted(q)' => issued'[req'[q].client] > 0
  BY <1>1 DEF Ground, CallInv, OthersStay, Beat, Granted, At
<1>3. \A x \in Slots : ~At(x, "idle") =>
        ~At(x, "idle")' /\ req'[x].op = req[x].op /\ req'[x].client = req[x].client
  BY DEF OthersStay, At
<1> QED BY <1>2, <1>3, CallsKept

LEMMA BackendStepKept ==
  ASSUME IInv, IInv', RequestInv, Ground,
         (\E r \in Slots : BackendStep(r)) \/ \E c \in Clients : WorldStep(c)
  PROVE  GroundNext
<1>d. UNCHANGED deviceVars
  BY DEF BackendStep, WorldStep
<1>1. ASSUME NEW r \in Slots, NEW c \in Clients, AdminStart(r, c) PROVE GroundNext
  <2>1. UNCHANGED issued
    BY <1>1 DEF AdminStart, StartCreateClient, StartRotateKey, StartDisableClient,
       StartDeleteClient, StartConnection, dbVars, sideVars
  <2> QED BY <1>1, <1>d, <2>1, MachineSame, AdminOpens, CallsOpened DEF IInv
<1>2. ASSUME NEW r \in Slots, Serve(r) PROVE GroundNext
  <2>1. Keeps(r) /\ \A x \in Slots : ~At(x, "idle") =>
          ~At(x, "idle")' /\ req'[x].op = req[x].op /\ req'[x].client = req[x].client
    BY <1>2, ServedCalls DEF Keeps, OthersStay, At
  <2>2. ASSUME NEW q \in Slots, Beat(q)' \/ Granted(q)'
        PROVE  issued'[req'[q].client] > 0
    <3>1. req'[q].client \in Clients
      BY <2>2 DEF IInv, TypeOK, RequestsOK, Beat, Granted, At
    <3>2. issued'[req'[q].client] \in Nat
      BY <3>1 DEF IInv, TypeOK
    <3>3. CASE (Beat(q) \/ Granted(q)) /\ req'[q].client = req[q].client
      <4>1. issued[req'[q].client] > 0
        BY <1>2, <2>2, <3>3, ServedCalls DEF Ground, CallInv
      <4> QED BY <1>2, <3>1, <3>2, <4>1, ServedCalls
    <3>4. CASE q = r /\ issued' = [issued EXCEPT ![req[r].client] = @ + 1]
      <4>1. req[r].client = req'[q].client
        BY <2>1, <3>4 DEF Keeps
      <4>2. issued \in [Clients -> Nat]
        BY DEF IInv, TypeOK
      <4> QED BY <3>1, <3>4, <4>1, <4>2
    <3> QED BY <1>2, <2>2, <3>3, <3>4, ServedCalls
  <2>3. CallInv'
    BY <1>d, <2>1, <2>2, MachineSame, CallsKept
  <2> QED BY <1>d, <2>3, MachineSame
<1>3. ASSUME NEW r \in Slots, Receive(r), ~Awaited(r) PROVE GroundNext
  <2>1. r \notin {setup'.call, loop'.call}
    BY <1>3, <1>d DEF Awaited, deviceVars
  <2> QED BY <1>d, <1>3, <2>1, MachineSame, CallsReceived
<1>4. ASSUME NEW c \in Clients, World(c) PROVE GroundNext
  <2>1. UNCHANGED <<req, issued>>
    BY <1>4 DEF World, TokenExpires, PeerJoins, sideVars
  <2>2. CallInv'
    BY <2>1, <1>d, MachineSame, CallsKept DEF Ground, CallInv, Beat, Granted, At
  <2> QED BY <1>d, <2>2, MachineSame
<1> QED BY <1>1, <1>2, <1>3, <1>4 DEF BackendStep, WorldStep, World

(* A call that one of the processes starts.                                *)
LEMMA CallStarted ==
  ASSUME Ground, NEW r \in Slots, At(r, "idle"), OthersStay(r), UNCHANGED issued,
         req'[r].pc \notin {"idle", "done"},
         req'[r].op = "heartbeat" => issued[req'[r].client] > 0,
         \/ /\ UNCHANGED loop /\ setup'.call = r /\ setup'.pc = "wait"
            /\ req'[r].op = "register" /\ req'[r].client = setup'.client
         \/ /\ UNCHANGED loop /\ setup'.call = r /\ setup'.pc = "beating"
            /\ req'[r].op = "heartbeat"
         \/ /\ UNCHANGED setup /\ loop'.call = r /\ loop'.pc = "wait"
            /\ req'[r].op = "heartbeat"
  PROVE  CallInv'
<1>n. NoSlot \notin Slots
  BY DeviceAssumption
<1>1. \A q \in Slots : Beat(q)' \/ Granted(q)' => issued'[req'[q].client] > 0
  BY DEF Ground, CallInv, OthersStay, Beat, Granted, At
<1>2. setup.call # r /\ loop.call # r
  BY <1>n DEF Ground, CallInv, Beat, At
<1>3. \A x \in Slots : x # r => req'[x] = req[x]
  BY DEF OthersStay
<1>4. CASE UNCHANGED loop
  BY <1>n, <1>1, <1>2, <1>3, <1>4 DEF Ground, CallInv, Beat, At
<1>5. CASE UNCHANGED setup
  BY <1>n, <1>1, <1>2, <1>3, <1>5 DEF Ground, CallInv, Beat, At
<1> QED BY <1>4, <1>5

LEMMA AgentStepKept ==
  ASSUME IInv, RequestInv, Ground, NEW r \in Slots, AgentStep(r)
  PROVE  GroundNext
<1> USE Processes, Calling
<1>n. NoSlot \notin Slots
  BY DeviceAssumption
<1>b. /\ setup.mem.confirm \in BOOLEAN /\ setup.mem.applied \in BOOLEAN
      /\ loop.mem.confirm \in BOOLEAN /\ loop.mem.applied \in BOOLEAN
  BY DEF Files
<1>h. ASSUME NEW c \in Clients, NEW peer \in Peers, NEW x \in BOOLEAN,
             NEW y \in BOOLEAN, StartHeartbeat(r, c, peer, x, y)
      PROVE  /\ At(r, "idle") /\ OthersStay(r) /\ UNCHANGED issued
             /\ req'[r].pc \notin {"idle", "done"} /\ req'[r].op = "heartbeat"
             /\ issued[req'[r].client] > 0
  <2>1. /\ At(r, "idle") /\ OthersStay(r) /\ issued[c] > 0
        /\ req'[r].op = "heartbeat" /\ req'[r].pc = "hb_read" /\ req'[r].client = c
    BY <1>h, HeartbeatStarts DEF IInv
  <2>2. UNCHANGED issued
    BY <1>h DEF StartHeartbeat, dbVars, sideVars
  <2> QED BY <2>1, <2>2
<1>1. CASE PostRegister(r)
  <2> USE <1>1, SetupRegisters
  <2>1. /\ At(r, "idle") /\ OthersStay(r) /\ UNCHANGED issued
        /\ req'[r].pc = "rg_token" /\ req'[r].op = "register"
        /\ req'[r].client = setup.client
    <3> DEFINE s == [Idle EXCEPT !.op = "register", !.pc = "rg_token",
                                 !.client = setup.client]
    <3>1. At(r, "idle") /\ OthersStay(r) /\ UNCHANGED issued /\ req'[r] = s
      BY DEF StartRegister, Begin, Put, OthersStay, IInv, TypeOK, RequestsOK,
             dbVars, sideVars
    <3>2. s.op = "register" /\ s.pc = "rg_token" /\ s.client = setup.client
      BY DEF Idle
    <3> HIDE DEF s
    <3> QED BY <3>1, <3>2
  <2>2. CallInv'
    BY <2>1, CallStarted DEF SetupTo
  <2> QED BY <2>2, SetupKept, LoopKept, HandsKept, FilesKept, GroundParts DEF FilesSame
<1>2. CASE RegisterAnswered(r)
  <2>1. NoNewCall /\ r \notin {setup'.call, loop'.call}
    BY <1>2, <1>n, SetupHearsRegister DEF NoNewCall, SetupTo, Ground, CallInv
  <2>2. CallInv'
    BY <1>2, <2>1, SetupHearsRegister, CallsReceived
  <2>3. setup.client \in Clients
    BY <1>2, SetupHearsRegister DEF Ground, HandInv, Registering
  <2>4. req[r].key \in Keys \cup {NoKey}
    BY DEF IInv, TypeOK, RequestsOK, Requests
  <2>5. LET g == [Blank EXCEPT !.token = setup.client, !.install = req[r].key] IN
        g \in Files /\ g.token = setup.client /\ ~g.confirm
    BY <2>3, <2>4, Blanks DEF Files
  <2>6. /\ setup' \in Setups
        /\ (Registering \/ Registered)' => setup'.client \in Clients
        /\ Registered' => setup'.mem.token = setup'.client /\ ~setup'.mem.confirm
        /\ setup'.pc \in {"install", "record"} => setup'.mem.install # NoKey
    BY <1>2, <2>3, <2>5, SetupHearsRegister, SetupKept
  <2> QED BY <1>2, <2>2, <2>6, SetupHearsRegister, LoopKept, HandsKept, FilesKept,
             GroundParts DEF FilesSame
<1>3. CASE SetupBeat(r)
  <2> USE <1>3, SetupBeats
  <2>1. CallInv'
    BY <1>b, <1>h, CallStarted DEF SetupTo
  <2>2. /\ setup.client \in Clients /\ setup.mem.token = setup.client
        /\ ~setup.mem.confirm
    BY DEF Ground, HandInv, Registered
  <2> QED BY <2>1, <2>2, SetupKept, LoopKept, HandsKept, FilesKept, GroundParts DEF FilesSame
<1>4. CASE SetupBeatAnswered(r)
  <2> USE <1>4, SetupHearsBeat
  <2>1. NoNewCall /\ r \notin {setup'.call, loop'.call}
    BY <1>n DEF NoNewCall, SetupTo, OffSetup, Ground, CallInv
  <2>2. CallInv'
    BY <2>1, CallsReceived
  <2>3. /\ setup.client \in Clients /\ setup.mem.token = setup.client
        /\ ~setup.mem.confirm
    BY DEF Ground, HandInv, Registered
  <2> QED BY <2>2, <2>3, SetupKept, LoopKept, HandsKept, FilesKept, GroundParts DEF FilesSame
<1>5. CASE LoopBeat(r)
  <2> USE <1>5, LoopBeats
  <2>1. CallInv'
    BY <1>b, <1>h, CallStarted DEF LoopTo
  <2>2. /\ loop' \in Loops
        /\ loop'.pc \in {"install", "record", "confirm"} => loop'.key # NoKey
    BY LoopKept DEF LoopPCs
  <2> QED BY <2>1, <2>2, SetupKept, HandsKept, FilesKept, GroundParts DEF FilesSame
<1>6. CASE LoopAnswered(r)
  <2> USE <1>6, LoopListens
  <2>1. NoNewCall /\ r \notin {setup'.call, loop'.call}
    BY <1>n DEF NoNewCall, LoopTo, LoopHears, Ground, CallInv
  <2>2. CallInv'
    BY <2>1, CallsReceived
  <2>3. /\ loop' \in Loops
        /\ loop'.pc \in {"install", "record", "confirm"} => loop'.key # NoKey
    BY LoopKept DEF LoopPCs, LoopHears
  <2> QED BY <2>2, <2>3, SetupKept, HandsKept, FilesKept, GroundParts DEF FilesSame
<1> QED BY <1>1, <1>2, <1>3, <1>4, <1>5, <1>6 DEF AgentStep

LEMMA RestartKept ==
  ASSUME Ground, ServerRestarts
  PROVE  GroundNext
<1> USE CallsDropped, Processes
<1>1. NoNewCall /\ setup'.call = NoSlot /\ loop'.call = NoSlot
  BY Calling DEF NoNewCall, SetupFails, LoopFails, SetupTo, OffSetup, LoopTo
<1>2. Idle.op = "none" /\ NoSlot \notin Slots
  BY DeviceAssumption DEF Idle
<1>3. \A q \in Slots : ~Beat(q)' /\ ~Granted(q)'
  BY <1>2 DEF Beat, Granted
<1>4. CallInv'
  BY <1>1, <1>2, <1>3, CallsKept
<1>5. SetupFails => \/ UNCHANGED setup \/ OffSetup
                    \/ SetupTo("register", setup.client, setup.mem, NoSlot)
                       /\ setup.client \in Clients
                    \/ SetupTo("failed", setup.client, Blank, NoSlot)
                    \/ SetupTo("beat", setup.client, setup.mem, NoSlot)
                       /\ setup.client \in Clients /\ ~setup.mem.confirm
                       /\ setup.mem.token = setup.client
  BY DEF SetupFails, Ground, HandInv, Registered, Registering
<1>6. /\ setup' \in Setups
      /\ (Registering \/ Registered)' => setup'.client \in Clients
      /\ Registered' => setup'.mem.token = setup'.client /\ ~setup'.mem.confirm
      /\ setup'.pc \in {"install", "record"} => setup'.mem.install # NoKey
  BY <1>5, SetupKept
<1>7. /\ loop' \in Loops
      /\ loop'.pc \in {"install", "record", "confirm"} => loop'.key # NoKey
  BY LoopKept DEF LoopPCs, LoopFails
<1> QED BY <1>4, <1>6, <1>7, HandsKept, FilesKept, GroundParts

(* Backend's invariants and the machine's, together.                       *)
Base == IInv /\ RequestInv /\ Ground
LEMMA BaseStep ==
  ASSUME Base, MotechNext
  PROVE  Base'
<1>1. IInv' /\ RequestInv'
  BY MotechLifts, RequestNext DEF Base
<1>2. GroundNext
  BY <1>1, SetupStepKept, LoopStepKept, BackendStepKept, AgentStepKept, RestartKept
     DEF Base, MotechNext
<1>3. early' \subseteq Clients
  BY DEF MotechNext, Track, Base, Ground, MotechTypeOK
<1>4. Ground'
  BY <1>1, <1>2, <1>3 DEF Ground, GroundNext, MotechTypeOK, IInv
<1> QED BY <1>1, <1>4 DEF Base

LEMMA BaseStutter ==
  ASSUME Base, UNCHANGED motechVars
  PROVE  Base'
<1> USE DEF motechVars, vars, deviceVars, dbVars
<1>1. IInv' /\ RequestInv'
  BY RequestNext DEF Base, Outside
<1>2. UNCHANGED <<req, issued, deviceVars, early>>
  BY DEF sideVars
<1>3. CallInv'
  BY <1>2 DEF Base, Ground, CallInv, Beat, Granted, At
<1>4. GroundNext
  BY <1>2, <1>3, MachineSame DEF Base
<1> QED BY <1>1, <1>2, <1>4 DEF Base, Ground, GroundNext, MotechTypeOK, IInv

LEMMA BaseInit == MotechInit => Base
<1> SUFFICES ASSUME MotechInit PROVE Base
  OBVIOUS
<1>1. IInv /\ RequestInv
  BY InitInv, InitRequest DEF MotechInit
<1>2. /\ disk = Blank /\ keyfile = OthersLines /\ service = FALSE
      /\ setup = NoSetup /\ loop = LoopOff /\ lost = 0 /\ restarts = 0 /\ early = {}
      /\ \A r \in Slots : req[r].pc = "idle"
  BY DEF MotechInit, DeviceInit, Init, Idle
<1>3. DeviceTypeOK
  <2>1. 0 \in 0..MaxLost /\ 0 \in 0..MaxRestarts
    BY DeviceAssumption
  <2> QED BY <1>2, <2>1, Blanks DEF DeviceTypeOK
<1>4. CallInv /\ HandInv
  BY <1>2, Blanks DEF CallInv, HandInv, Beat, Granted, At, Registering, Registered
<1> QED BY <1>1, <1>2, <1>3, <1>4 DEF Base, Ground, MotechTypeOK, IInv

(* Backend and machine keep, together, all that the backend keeps alone,   *)
(* with a machine as its caller instead of callers that may say anything.  *)
THEOREM MotechInductive == MotechSpec => []Base
<1>1. Base /\ [MotechNext]_motechVars => Base'
  BY BaseStep, BaseStutter
<1> QED BY <1>1, BaseInit, PTL DEF MotechSpec

(* Backend and machine keep their types, for every number of clients, keys *)
(* and calls in flight, and whatever fails, restarts or gets lost.         *)
THEOREM MotechTypes == MotechSpec => []MotechTypeOK
<1>1. Base => MotechTypeOK
  BY DEF Base, Ground
<1> QED BY <1>1, MotechInductive, PTL

(* With the machine as Backend's caller, too: an installer or a run loop   *)
(* that is given a key to install is given one.                            *)
THEOREM MachineGetsTheKey == MotechSpec => []AnswersCarryKey
<1>1. Base => AnswersCarryKey
  BY DEF Base, RequestInv, CarryInv, AnswersCarryKey, Carries, At
<1> QED BY <1>1, MotechInductive, PTL

(* With the agent that repeats a registration whose answer was lost, too:  *)
(* a setup token is redeemed once, unless a registration is repeated while *)
(* the one before it is still at work (AgentRegister, Register).           *)
THEOREM ActivationsAreSpentOnce == MotechSpec /\ []OneRegistration => []OneTimeToken
<1>1. Base /\ TokenInv /\ OneRegistration /\ [MotechNext]_motechVars => TokenInv'
  <2> SUFFICES ASSUME Base, TokenInv, OneRegistration, [MotechNext]_motechVars
               PROVE  TokenInv'
    OBVIOUS
  <2>1. CASE MotechNext
    BY <2>1, MotechLifts, ServeTokens, OtherTokens DEF Base, RequestInv
  <2>2. CASE UNCHANGED motechVars
    BY <2>2, OtherTokens DEF motechVars, vars, Outside, Base, RequestInv
  <2> QED BY <2>1, <2>2
<1>2. MotechInit => TokenInv
  BY InitTokens DEF MotechInit
<1>3. TokenInv => OneTimeToken
  BY DEF TokenInv, OneTimeToken
<1> QED BY <1>1, <1>2, <1>3, MotechInductive, PTL DEF MotechSpec

---------------------------------------------------------------------------
(* The lines of the other administrators.                                  *)
LEMMA FaultCounts ==
  ASSUME Ground, Fault
  PROVE  faults' > faults
BY DEF Ground, MotechTypeOK, TypeOK, Fault

LEMMA OtherLinesKept ==
  ASSUME Ground, MotechNext, OthersLines \subseteq keyfile,
         ~(OthersLines \subseteq keyfile')
  PROVE  \/ faults' > faults
         \/ StoppedInWrite
         \/ setup.pc = "install" /\ loop.pc = "install"
<1>c. keyfile' # keyfile
  OBVIOUS
<1>d. DeviceTypeOK
  BY DEF Ground, MotechTypeOK
<1>1. CASE SetupInstallsKey
  BY <1>1, <1>c, <1>d, SetupWritesKey, WritesKey, FaultCounts
<1>2. CASE InstallPushedKey
  BY <1>2, <1>c, <1>d, LoopWritesKey, WritesKey, FaultCounts
<1>3. CASE StopOldLoop
  BY <1>3, <1>c, SetupStops, FaultCounts, Blanks DEF TornKeys, StoppedInWrite
<1>4. CASE Reboot
  <2>1. restarts' > restarts
    BY <1>4, <1>d, DeviceAssumption DEF Reboot, DeviceTypeOK
  <2> QED BY <1>4, <1>c, <2>1, MachineStops DEF TornKeys, StoppedInWrite
<1>5. (\E r \in Slots : BackendStep(r)) => UNCHANGED keyfile
  BY DEF BackendStep, deviceVars
<1>6. (\E r \in Slots : AgentStep(r)) => UNCHANGED keyfile
  BY DEF AgentStep, PostRegister, RegisterAnswered, SetupBeat, SetupBeatAnswered,
         LoopBeat, LoopAnswered
<1>7. (\E c \in Clients : StartSetup(c) \/ WorldStep(c)) => UNCHANGED keyfile
  BY DEF StartSetup, WorldStep, deviceVars
<1>8. SaveRegistration \/ SetupRecordsKey \/ StartService => UNCHANGED keyfile
  BY DEF SaveRegistration, SetupRecordsKey, StartService
<1>9. LoopUnregistered \/ RecordPushedKey \/ ConfirmPending \/ ConfirmAcknowledged
        \/ ReupNetbird => UNCHANGED keyfile
  BY DEF LoopUnregistered, RecordPushedKey, ConfirmPending, ConfirmAcknowledged,
         ReupNetbird, LoopSaves
<1>10. LoopStarts \/ CallLost \/ ServerRestarts => UNCHANGED keyfile
  BY DEF LoopStarts, CallLost, ServerRestarts
<1> QED BY <1>c, <1>1, <1>2, <1>3, <1>4, <1>5, <1>6, <1>7, <1>8, <1>9, <1>10
           DEF MotechNext, SetupStep, LoopStep

(* The keys that other administrators have put in the file survive, with   *)
(* any number of keys and of administrators, unless a read or a write of   *)
(* it fails, or is cut short, or both processes are at it together.        *)
THEOREM OthersKeepTheirKeys == MotechSpec => OthersKeysKept
<1>1. Base /\ [MotechNext]_motechVars =>
        [ OthersLines \subseteq keyfile /\ ~(OthersLines \subseteq keyfile')
            => \/ faults' > faults
               \/ StoppedInWrite
               \/ setup.pc = "install" /\ loop.pc = "install" ]_motechVars
  BY OtherLinesKept DEF Base
<1> QED BY <1>1, MotechInductive, PTL DEF MotechSpec, OthersKeysKept

---------------------------------------------------------------------------
(* The handshake, for one client whose code alone the machine has redeemed. *)
CInv(c) == /\ FirstInv /\ InstallInv(c) /\ PushInv(c)
           /\ faults = 0 => SoberInv(c)

(* No other client's calls are in flight.                                  *)
LEMMA TalksOf ==
  ASSUME Base, NEW c \in Clients, RegisteredOnce(c)
  PROVE  \A r \in Slots : Beat(r) \/ Granted(r) => req[r].client = c
<1> SUFFICES ASSUME NEW r \in Slots, Beat(r) \/ Granted(r), req[r].client # c
             PROVE  FALSE
  OBVIOUS
<1>1. req[r].client \in Clients
  BY DEF Base, IInv, TypeOK, RequestsOK, Beat, Granted, At
<1>2. issued[req[r].client] \in Nat /\ issued[req[r].client] > 0
  BY <1>1 DEF Base, Ground, CallInv, IInv, TypeOK
<1>3. issued[req[r].client] <= 0
  BY <1>1 DEF RegisteredOnce
<1> QED BY <1>2, <1>3

LEMMA OneKey ==
  ASSUME Base, NEW c \in Clients, c \notin overlap
  PROVE  \A j, k \in active[c] : j = k
BY DEF Base, IInv, SerialInv

(* What a step of the machine alone leaves alone.                          *)
Steady(c) ==
  /\ UNCHANGED <<req, issued, acked>> /\ active'[c] = active[c]
  /\ \A r \in Slots : /\ Beat(r)' <=> Beat(r)
                      /\ Granted(r)' <=> Granted(r)
                      /\ Confirming(r)' <=> Confirming(r)
  /\ faults \in Nat /\ faults' \in Nat /\ (faults' = 0 => faults = 0)
LEMMA MachineSteady ==
  ASSUME Base, BackendSame, MaybeFault, NEW c \in Clients
  PROVE  Steady(c)
<1>1. UNCHANGED <<req, issued, acked, active>>
  BY DEF BackendSame, dbVars, keyVars, sideVars
<1>2. \A r \in Slots : /\ Beat(r)' <=> Beat(r)
                       /\ Granted(r)' <=> Granted(r)
                       /\ Confirming(r)' <=> Confirming(r)
  BY <1>1 DEF Beat, Granted, Confirming, At
<1>3. faults \in Nat /\ faults' \in Nat /\ (faults' = 0 => faults = 0)
  BY DEF Base, IInv, TypeOK, MaybeFault, Fault
<1> QED BY <1>1, <1>2, <1>3 DEF Steady

LEMMA StillInSync ==
  ASSUME NEW c \in Clients, Steady(c)
  PROVE  /\ InSync(c) /\ MK' = MK => InSync(c)'
         /\ MK' = {} /\ faults' # 0 => InSync(c)'
         /\ \A k : Fits(c, k) => Fits(c, k)'
BY DEF Steady, InSync, Fits

LEMMA OffFacts ==
  ASSUME loop = LoopOff
  PROVE  /\ loop.pc = "off" /\ loop.mem = Blank /\ ~loop.mem.confirm
         /\ loop.cached = NoClient /\ loop.key = NoKey /\ ~LoopSaving
BY Blanks DEF LoopSaving

LEMMA SetupStepInv ==
  ASSUME Base, NEW c \in Clients, CInv(c),
         SetupStep \/ \E d \in Clients : StartSetup(d)
  PROVE  CInv(c)'
<1> USE DEF Base
<1>k. NoKey \notin active[c]
  BY ConstantsAssumption DEF IInv, TypeOK, RowsOK
<1>f. faults \in Nat
  BY DEF IInv, TypeOK
<1>h. setup.pc \in {"save", "install", "record", "stop", "start"} =>
        /\ Installing /\ ~Untouched /\ ~service /\ loop = LoopOff
        /\ ~disk.confirm /\ ~setup.mem.confirm
        /\ \A r \in Slots : ~Beat(r) /\ ~Granted(r) /\ ~Confirming(r)
  BY DEF CInv, FirstInv, Installing, Untouched, Confirming
<1>o. LoopOff.pc = "off" /\ LoopOff.mem = Blank /\ ~Blank.confirm
  BY Blanks
<1>1. ASSUME NEW d \in Clients, StartSetup(d) PROVE CInv(c)'
  <2> USE <1>1, SetupStarts
  <2>1. Steady(c)
    BY MachineSteady DEF MaybeFault
  <2>2. MK' = MK /\ UNCHANGED faults
    BY DEF MK
  <2>3. FirstInv'
    BY <2>1 DEF CInv, FirstInv, Untouched, Installing, Steady, SetupTo, MK
  <2>4. InstallInv(c)'
    BY <2>1, <2>2, StillInSync DEF CInv, InstallInv, Steady, SetupTo
  <2>5. PushInv(c)'
    BY <2>1, <2>2, StillInSync DEF CInv, PushInv, Steady
  <2>6. faults' = 0 => SoberInv(c)'
    BY <2>1, <2>2, StillInSync DEF CInv, SoberInv, Steady, Told, Remembered, NothingPending
  <2> QED BY <2>3, <2>4, <2>5, <2>6 DEF CInv
<1>2. CASE SaveRegistration
  <2> USE <1>2, SetupSaves
  <2>1. Steady(c)
    BY MachineSteady DEF MaybeFault
  <2>2. MK' = MK
    BY DEF MK
  <2>3. FirstInv'
    BY <1>h, <2>1 DEF CInv, FirstInv, Installing, Steady, SetupTo
  <2>4. InstallInv(c)'
    <3>1. setup.mem.install = NoKey => active[c] \cap acked = {} \/ InSync(c)
      BY <1>k DEF CInv, InstallInv, Fits, InSync
    <3> QED BY <1>h, <2>1, <2>2, <3>1, StillInSync DEF CInv, InstallInv, Steady, SetupTo
  <2>5. PushInv(c)'
    BY <1>h, <1>o, <2>1 DEF CInv, PushInv, Steady
  <2>6. faults' = 0 => SoberInv(c)'
    BY <1>h, <1>o, <2>1 DEF SoberInv, Steady, Told
  <2> QED BY <2>3, <2>4, <2>5, <2>6 DEF CInv
<1>3. CASE SetupInstallsKey
  <2> USE <1>3, SetupWritesKey
  <2>w. DeviceTypeOK
    BY DEF Ground, MotechTypeOK
  <2>1. Steady(c)
    BY <2>w, WritesKey, MachineSteady DEF MaybeFault
  <2>2. \/ /\ MK' = {setup.mem.install}
           /\ SetupTo("record", setup.client, setup.mem, NoSlot)
        \/ /\ MK' = MK /\ faults' # 0
           /\ \E p \in {"install", "stop"} : SetupTo(p, setup.client, setup.mem, NoSlot)
    <3>1. UNCHANGED keyfile => MK' = MK
      BY DEF MK
    <3>2. Fault => faults' # 0
      BY <1>f DEF Fault
    <3> QED BY <2>w, <3>1, <3>2, WritesKey
  <2>3. FirstInv'
    BY <1>h, <2>1, <2>2 DEF CInv, FirstInv, Installing, Steady, SetupTo
  <2>4. InstallInv(c)'
    <3>1. /\ setup.mem.install # NoKey /\ MK \subseteq {setup.mem.install}
          /\ Fits(c, setup.mem.install)
      BY DEF CInv, InstallInv
    <3>2. CASE MK' = {setup.mem.install}
               /\ SetupTo("record", setup.client, setup.mem, NoSlot)
      BY <1>h, <2>1, <3>1, <3>2, StillInSync DEF InstallInv, Steady, SetupTo
    <3>3. CASE /\ MK' = MK /\ faults' # 0
               /\ \E p \in {"install", "stop"} :
                    SetupTo(p, setup.client, setup.mem, NoSlot)
      <4>1. active'[c] \cap acked' = {} \/ InSync(c)'
        BY <1>f, <2>1, <3>1, <3>3 DEF Fits, InSync, Steady
      <4>2. PICK k \in Keys : k = setup.mem.install
        BY <3>1, Processes
      <4>3. Fits(c, k)' /\ setup'.mem.install = k
        BY <2>1, <3>1, <3>3, <4>2, StillInSync DEF SetupTo
      <4> QED BY <1>h, <2>1, <3>1, <3>3, <4>1, <4>2, <4>3 DEF InstallInv, Steady, SetupTo
    <3> QED BY <2>2, <3>2, <3>3
  <2>5. PushInv(c)'
    BY <1>h, <1>o, <2>1 DEF CInv, PushInv, Steady
  <2>6. faults' = 0 => SoberInv(c)'
    BY <1>h, <1>o, <2>1 DEF SoberInv, Steady, Told
  <2> QED BY <2>3, <2>4, <2>5, <2>6 DEF CInv
<1>4. CASE SetupRecordsKey
  <2> DEFINE m == [setup.mem EXCEPT !.ssh = setup.mem.install]
  <2>r. /\ setup.pc = "record" /\ BackendSame
        /\ UNCHANGED <<keyfile, service, loop, lost, restarts>>
        /\ m \in Files /\ m.token = setup.mem.token /\ m.confirm = setup.mem.confirm
        /\ m.install = setup.mem.install /\ SaveFile(m)
        /\ \E p \in {"install", "stop"} : SetupTo(p, setup.client, m, NoSlot)
    BY <1>4, SetupRecords
  <2> HIDE DEF m
  <2>d. disk' \in {m, disk} /\ MaybeFault
    BY <2>r DEF SaveFile, MaybeFault
  <2>1. Steady(c)
    BY <2>r, <2>d, MachineSteady
  <2>2. MK' = MK
    BY <2>r DEF MK
  <2>3. FirstInv'
    BY <1>h, <2>r, <2>d, <2>1 DEF CInv, FirstInv, Installing, Steady, SetupTo
  <2>4. InstallInv(c)'
    <3>1. /\ setup.mem.install # NoKey /\ MK = {setup.mem.install}
          /\ Fits(c, setup.mem.install)
      BY <2>r DEF CInv, InstallInv
    <3>2. active[c] \cap acked = {} \/ InSync(c)
      BY <3>1 DEF Fits, InSync
    <3>3. PICK k \in Keys : k = setup.mem.install
      BY <3>1, Processes
    <3>4. /\ (active[c] \cap acked = {} \/ InSync(c))'
          /\ Fits(c, k)' /\ setup'.mem.install = k
      BY <2>r, <2>1, <2>2, <3>1, <3>2, <3>3, StillInSync DEF Steady, SetupTo
    <3> QED BY <1>h, <2>r, <2>1, <2>2, <3>1, <3>3, <3>4 DEF InstallInv, Steady, SetupTo
  <2>5. PushInv(c)'
    BY <1>h, <1>o, <2>r, <2>d, <2>1 DEF PushInv, Steady
  <2>6. faults' = 0 => SoberInv(c)'
    BY <1>h, <1>o, <2>r, <2>d, <2>1 DEF SoberInv, Steady, Told
  <2> QED BY <2>3, <2>4, <2>5, <2>6 DEF CInv
<1>5. CASE StopOldLoop
  <2> USE <1>5, SetupStops
  <2>d. UNCHANGED <<loop, disk, keyfile>> /\ MaybeFault
    BY <1>h, <1>o, OffFacts DEF Interrupted, TornKeys, MaybeFault
  <2>1. Steady(c)
    BY <2>d, MachineSteady
  <2>2. MK' = MK
    BY <2>d DEF MK
  <2>3. FirstInv'
    BY <1>h, <2>d, <2>1 DEF CInv, FirstInv, Installing, Steady, SetupTo
  <2>4. InstallInv(c)'
    BY <1>h, <2>1, <2>2, StillInSync DEF CInv, InstallInv, Steady, SetupTo
  <2>5. PushInv(c)'
    BY <1>h, <1>o, <2>d, <2>1 DEF PushInv, Steady
  <2>6. faults' = 0 => SoberInv(c)'
    BY <1>h, <1>o, <2>d, <2>1 DEF SoberInv, Steady, Told
  <2> QED BY <2>3, <2>4, <2>5, <2>6 DEF CInv
<1>6. CASE StartService
  <2> USE <1>6, SetupStartsTask
  <2>l. \/ UNCHANGED loop
        \/ LoopTo("tick", disk, disk.token, NoSlot, NoKey)
    BY DEF LoopStarted
  <2>1. Steady(c)
    BY MachineSteady DEF MaybeFault
  <2>2. MK' = MK
    BY DEF MK
  <2>3. FirstInv'
    BY <1>h, <2>1 DEF CInv, FirstInv, Installing, Steady, SetupTo
  <2>4. InstallInv(c)'
    BY <1>h, <2>1, <2>2, StillInSync DEF CInv, InstallInv, Steady, SetupTo
  <2>5. PushInv(c)'
    BY <1>h, <1>o, <2>l, <2>1 DEF PushInv, Steady, LoopTo
  <2>6. faults' = 0 => SoberInv(c)'
    BY <1>h, <1>o, <2>l, <2>1 DEF SoberInv, Steady, Told, LoopTo
  <2> QED BY <2>3, <2>4, <2>5, <2>6 DEF CInv
<1> QED BY <1>1, <1>2, <1>3, <1>4, <1>5, <1>6 DEF SetupStep

LEMMA LoopStepInv ==
  ASSUME Base, NEW c \in Clients, CInv(c), LoopStep \/ LoopStarts
  PROVE  CInv(c)'
<1> USE DEF Base
<1>f. faults \in Nat
  BY DEF IInv, TypeOK
<1>h. loop.pc # "off" => /\ ~Untouched /\ ~Installing /\ loop # LoopOff
                         /\ \A r \in Slots : ~Granted(r)
                         /\ setup.pc \notin {"save", "install", "record"}
  BY Blanks DEF CInv, FirstInv, Installing, Untouched
<1>u. (\A d \in Clients : issued[d] = 0) => loop.pc = "off" /\ ~service
  BY Blanks DEF CInv, FirstInv, Untouched
<1>p. UNCHANGED setup => (Installing' <=> Installing)
  BY DEF Installing
<1>1. CASE LoopStarts
  <2> USE <1>1, TaskStartsLoop
  <2>1. Steady(c)
    BY MachineSteady DEF MaybeFault
  <2>2. MK' = MK
    BY DEF MK, FilesSame
  <2>3. \A r \in Slots : ~Granted(r)
    BY DEF CInv, FirstInv, Untouched
  <2>4. ~Installing
    BY DEF CInv, FirstInv
  <2>5. FirstInv'
    BY <1>u, <1>p, <2>1, <2>3, <2>4 DEF FirstInv, Steady
  <2>6. InstallInv(c)'
    BY <2>1, <2>2, <2>3, StillInSync DEF CInv, InstallInv, Steady, FilesSame
  <2>7. PushInv(c)'
    BY <2>1, <2>2, StillInSync DEF CInv, PushInv, Steady, LoopTo, FilesSame
  <2>8. faults' = 0 => SoberInv(c)'
    BY <2>1 DEF CInv, SoberInv, Steady, Told, Remembered, LoopTo, FilesSame
  <2> QED BY <2>5, <2>6, <2>7, <2>8 DEF CInv
<1>2. CASE Idles
  <2> USE <1>2 DEF Idles
  <2>1. Steady(c)
    BY MachineSteady DEF MaybeFault
  <2>2. MK' = MK
    BY DEF MK, FilesSame
  <2>5. FirstInv'
    BY <1>u, <1>h, <1>p, <2>1 DEF FirstInv, Steady
  <2>6. InstallInv(c)'
    BY <1>h, <2>1, <2>2, StillInSync DEF CInv, InstallInv, Steady, FilesSame
  <2>7. PushInv(c)'
    BY <2>1, <2>2, StillInSync DEF CInv, PushInv, Steady, LoopTo, FilesSame
  <2>8. faults' = 0 => SoberInv(c)'
    BY <2>1 DEF CInv, SoberInv, Steady, Told, Remembered, LoopTo, FilesSame
  <2> QED BY <2>5, <2>6, <2>7, <2>8 DEF CInv
<1>3. CASE InstallPushedKey
  <2> USE <1>3, LoopWritesKey
  <2>w. DeviceTypeOK
    BY DEF Ground, MotechTypeOK
  <2>1. Steady(c)
    BY <2>w, WritesKey, MachineSteady DEF MaybeFault
  <2>k. loop.key # NoKey /\ active[c] \subseteq {loop.key}
    BY DEF CInv, PushInv
  <2>2. \/ /\ MK' = {loop.key}
           /\ LoopTo("record", loop.mem, loop.cached, NoSlot, loop.key)
        \/ /\ MK' = MK /\ faults' # 0
           /\ LoopTo("tick", loop.mem, loop.cached, NoSlot, NoKey)
    <3>1. UNCHANGED keyfile => MK' = MK
      BY DEF MK
    <3>2. Fault => faults' # 0
      BY <1>f DEF Fault
    <3> QED BY <2>w, <3>1, <3>2, WritesKey
  <2>3. CASE MK' = {loop.key}
             /\ LoopTo("record", loop.mem, loop.cached, NoSlot, loop.key)
    <3>1. InSync(c)'
      BY <2>1, <2>3, <2>k DEF InSync, Steady
    <3>2. FirstInv'
      BY <1>u, <1>h, <1>p, <2>1, <2>3 DEF FirstInv, Steady
    <3>3. InstallInv(c)'
      BY <1>h, <2>1, <3>1 DEF InstallInv, Steady
    <3>4. PushInv(c)'
      BY <2>1, <2>3, <2>k, <3>1 DEF CInv, PushInv, Steady, LoopTo
    <3>5. faults' = 0 => SoberInv(c)'
      BY <2>1, <2>3 DEF CInv, SoberInv, Steady, Told, Remembered, LoopTo
    <3> QED BY <3>2, <3>3, <3>4, <3>5 DEF CInv
  <2>4. CASE /\ MK' = MK /\ faults' # 0
             /\ LoopTo("tick", loop.mem, loop.cached, NoSlot, NoKey)
    <3>2. FirstInv'
      BY <1>u, <1>h, <1>p, <2>1, <2>4 DEF FirstInv, Steady
    <3>3. InstallInv(c)'
      BY <1>h, <2>1, <2>4, StillInSync DEF CInv, InstallInv, Steady
    <3>4. PushInv(c)'
      BY <2>1, <2>4, StillInSync DEF CInv, PushInv, Steady, LoopTo
    <3> QED BY <2>4, <3>2, <3>3, <3>4 DEF CInv
  <2> QED BY <2>2, <2>3, <2>4
<1>4. ASSUME NEW p \in {"record", "confirm", "acked", "reup"}, NEW m \in Files,
             NEW next \in {"confirm", "tick", "reup"}, NEW k \in Keys \cup {NoKey},
             Saves(p, m, next, k),
             m.confirm => active[c] \subseteq {m.ssh} /\ InSync(c),
             next = "confirm" => /\ k # NoKey /\ active[c] \subseteq {k} /\ MK = {k}
                                 /\ m.ssh = k,
             faults = 0 => /\ active[c] # {} /\ m.confirm =>
                                loop.mem.confirm \/ active[c] \subseteq {m.ssh}
                           /\ ~m.confirm /\ loop.mem.confirm => active[c] \subseteq acked
                           /\ next = "confirm" /\ active[c] # {} =>
                                /\ active[c] \cap acked = {} /\ ~Told(c)
                                /\ m.confirm = loop.mem.confirm
      PROVE  CInv(c)'
  <2> USE <1>4 DEF Saves
  <2>d. /\ disk' \in {m, disk} /\ MaybeFault
        /\ faults' = 0 => disk' = m
    BY <1>f DEF SaveFile, MaybeFault, Fault
  <2>1. Steady(c)
    BY <2>d, MachineSteady
  <2>2. MK' = MK
    BY DEF MK
  <2>5. FirstInv'
    BY <1>u, <1>h, <1>p, <2>1 DEF FirstInv, Steady
  <2>6. InstallInv(c)'
    BY <1>h, <2>1, <2>2, StillInSync DEF CInv, InstallInv, Steady
  <2>7. PushInv(c)'
    BY <2>d, <2>1, <2>2, StillInSync DEF CInv, PushInv, Steady, LoopTo
  <2>8. faults' = 0 => SoberInv(c)'
    <3> SUFFICES ASSUME faults' = 0 PROVE SoberInv(c)'
      OBVIOUS
    <3>1. /\ disk' = m /\ faults = 0 /\ SoberInv(c)
      BY <2>d, <2>1 DEF CInv, Steady
    <3>2. /\ loop'.mem = m /\ loop'.cached = loop.cached /\ loop'.pc = next
          /\ loop.mem = disk /\ loop.cached = disk.token
      BY <3>1 DEF SoberInv, LoopTo
    <3>3. disk.token # NoClient
      BY <3>1 DEF SoberInv
    <3>4. Told(c)' /\ active[c] \cap acked = {} => Remembered(c)'
      BY <2>1, <3>1, <3>2, <3>3 DEF SoberInv, Told, Remembered, Steady
    <3> QED BY <2>1, <3>1, <3>2, <3>3, <3>4 DEF SoberInv, Steady, Told
  <2> QED BY <2>5, <2>6, <2>7, <2>8 DEF CInv
<1>5. CASE RecordPushedKey
  <2>1. loop.pc = "record"
    BY <1>5 DEF RecordPushedKey
  <2>2. PICK n \in Files : /\ n.ssh = loop.key /\ n.confirm = loop.mem.confirm
                           /\ Saves("record", n, "confirm", loop.key)
    BY <1>5, LoopSaved
  <2>3. /\ loop.key # NoKey /\ active[c] \subseteq {loop.key} /\ MK = {loop.key}
    BY <2>1 DEF CInv, PushInv
  <2>4. faults = 0 /\ active[c] # {} => active[c] \cap acked = {} /\ ~Told(c)
    BY <2>1 DEF CInv, SoberInv
  <2>5. loop.mem.confirm => InSync(c)
    BY DEF CInv, PushInv
  <2> QED BY <2>2, <2>3, <2>4, <2>5, <1>4, Processes
<1>6. CASE ConfirmPending
  <2>1. loop.pc = "confirm"
    BY <1>6 DEF ConfirmPending
  <2>2. PICK n \in Files : /\ n.ssh = loop.mem.ssh /\ n.confirm
                           /\ Saves("confirm", n, "tick", NoKey)
    BY <1>6, LoopSaved
  <2>3. /\ active[c] \subseteq {n.ssh} /\ MK = {n.ssh}
    BY <2>1, <2>2 DEF CInv, PushInv
  <2>4. InSync(c)
    BY <2>3 DEF InSync
  <2> QED BY <2>2, <2>3, <2>4, <1>4
<1>7. CASE ConfirmAcknowledged
  <2>1. loop.pc = "acked"
    BY <1>7 DEF ConfirmAcknowledged
  <2>2. PICK n \in Files, x \in {"tick", "reup"} :
          /\ n.ssh = loop.mem.ssh /\ ~n.confirm /\ Saves("acked", n, x, NoKey)
    BY <1>7, LoopSaved
  <2>3. faults = 0 => active[c] \subseteq acked
    BY <2>1 DEF CInv, SoberInv
  <2> QED BY <2>2, <2>3, <1>4
<1>8. CASE ReupNetbird /\ ~Idles
  <2>2. PICK n \in Files : /\ n.ssh = loop.mem.ssh /\ n.confirm = loop.mem.confirm
                           /\ Saves("reup", n, "tick", NoKey)
    BY <1>8, LoopSaved
  <2>3. loop.mem.confirm => active[c] \subseteq {loop.mem.ssh} /\ InSync(c)
    BY DEF CInv, PushInv
  <2> QED BY <2>2, <2>3, <1>4
<1> QED BY <1>1, <1>2, <1>3, <1>5, <1>6, <1>7, <1>8, LoopFindsNoToken DEF LoopStep

(* Requests end, answers are taken, and calls fail on their way, ...       *)
Fewer(c) ==
  /\ UNCHANGED <<issued, acked, faults>> /\ active'[c] = active[c]
  /\ \A r \in Slots : /\ Beat(r)' => Beat(r) /\ req'[r] = req[r]
                      /\ Granted(r)' => Granted(r) /\ req'[r] = req[r]
SetupMoves ==
  \/ UNCHANGED setup
  \/ setup.pc \in {"register", "wait"} /\ setup'.pc \in {"register", "wait", "failed"}
  \/ setup.pc = "beating" /\ setup'.pc \in {"beat", "off"}
LEMMA FewerInv ==
  ASSUME Base, NEW c \in Clients, CInv(c), Fewer(c), SetupMoves,
         UNCHANGED <<disk, keyfile, service>>, UNCHANGED loop \/ LoopFails,
         loop'.pc = "wait" => req'[loop.call] = req[loop.call]
  PROVE  CInv(c)'
<1> USE DEF SetupMoves
<1>1. /\ MK' = MK /\ UNCHANGED <<disk, service, acked>> /\ (faults' = 0 => faults = 0)
      /\ active'[c] = active[c]
  BY DEF MK, Fewer
<1>2. InSync(c)' <=> InSync(c)
  BY <1>1 DEF InSync, Fewer
<1>3. \A k : Fits(c, k)' <=> Fits(c, k)
  BY <1>1 DEF Fits, Fewer
<1>4. \A r \in Slots : /\ Beat(r)' => Beat(r) /\ req'[r] = req[r]
                       /\ Granted(r)' => Granted(r) /\ req'[r] = req[r]
                       /\ Confirming(r)' => Confirming(r)
  BY DEF Fewer, Confirming
<1>5. Told(c)' => Told(c)
  BY <1>1, <1>4 DEF Told
<1>6. Remembered(c)' <=> Remembered(c)
  BY <1>1 DEF Remembered
<1>7. loop.pc # "off" => ~Untouched /\ ~Installing
  BY Blanks DEF CInv, FirstInv, Untouched
<1>8. \/ UNCHANGED loop
      \/ /\ loop.pc = "wait" /\ loop'.pc = "tick" /\ loop'.mem = loop.mem
         /\ loop'.cached = loop.cached /\ loop'.key = loop.key
  BY DEF LoopFails, LoopTo
<1>9. Installing' <=> Installing
  BY DEF Installing
<1>10. Untouched => Untouched'
  BY <1>1, <1>7, <1>8 DEF Untouched
<1>11. FirstInv'
  <2>1. Installing => UNCHANGED <<loop, setup>>
    BY <1>7, <1>8 DEF Installing
  <2>2. (\A d \in Clients : issued'[d] = 0) => Untouched'
    BY <1>10 DEF CInv, FirstInv, Fewer
  <2>3. \A r \in Slots : Granted(r)' =>
          Untouched' /\ \A q \in Slots : ~Beat(q)' /\ (Granted(q)' => q = r)
    BY <1>4, <1>10 DEF CInv, FirstInv
  <2>4. Installing' => /\ ~service' /\ loop' = LoopOff
                       /\ ~disk'.confirm /\ ~setup'.mem.confirm
                       /\ \A r \in Slots : ~Beat(r)' /\ ~Granted(r)'
    BY <1>1, <1>4, <1>9, <2>1 DEF CInv, FirstInv
  <2> QED BY <2>2, <2>3, <2>4 DEF FirstInv
<1>12. InstallInv(c)'
  <2>1. \A r \in Slots : Granted(r)' => Fits(c, req[r].key)' /\ req'[r] = req[r]
    <3> SUFFICES ASSUME NEW r \in Slots, Granted(r)'
                 PROVE  Fits(c, req[r].key)' /\ req'[r] = req[r]
      OBVIOUS
    <3>1. req'[r] = req[r] /\ Fits(c, req[r].key)
      BY <1>4 DEF CInv, InstallInv
    <3> QED BY <3>1, <1>1 DEF Fits, Fewer
  <2>2. setup'.pc \in {"save", "install", "record", "stop", "start"} => UNCHANGED setup
    OBVIOUS
  <2>3. Fits(c, setup.mem.install)' /\ UNCHANGED setup
          <=> Fits(c, setup.mem.install) /\ UNCHANGED setup
    BY <1>1 DEF Fits, Fewer
  <2>4. setup'.pc \in {"stop", "start", "beat", "beating"} =>
          setup.pc \in {"stop", "start", "beat", "beating"}
    OBVIOUS
  <2> QED BY <1>1, <1>2, <2>1, <2>2, <2>3, <2>4 DEF CInv, InstallInv
<1>13. PushInv(c)'
  BY <1>1, <1>2, <1>4, <1>8 DEF CInv, PushInv
<1>14. faults' = 0 => SoberInv(c)'
  BY <1>1, <1>5, <1>6, <1>8 DEF CInv, SoberInv
<1> QED BY <1>11, <1>12, <1>13, <1>14 DEF CInv

(* ... and the machine stops, maybe in the middle of a write.              *)
LEMMA RebootInv ==
  ASSUME Base, NEW c \in Clients, CInv(c), Reboot
  PROVE  CInv(c)'
<1> USE MachineStops DEF Base
<1>1. Steady(c)
  BY MachineSteady DEF MaybeFault
<1>f. faults' = faults /\ faults \in Nat
  BY DEF IInv, TypeOK
<1>o. /\ setup'.pc = "off" /\ loop'.pc = "off" /\ ~loop'.mem.confirm
      /\ loop' = LoopOff
  BY Blanks DEF OffSetup, OffLoop, SetupTo, LoopTo, Reboot
<1>d. disk' = disk \/ disk' = Blank
  BY DEF Interrupted
<1>b. ~Blank.confirm /\ Blank.token = NoClient
  BY Blanks
<1>s. disk' = Blank /\ disk # Blank => setup.pc \in {"save", "record"} \/ loop.pc # "off"
  BY DEF Interrupted, SetupSaving, LoopSaving
<1>k. MK' = MK \/ (MK' = {} /\ "install" \in {setup.pc, loop.pc})
  BY NoKeys DEF MK, TornKeys
<1>i. Installing => /\ ~service /\ ~disk.confirm
                    /\ \A r \in Slots : ~Beat(r) /\ ~Granted(r) /\ ~Confirming(r)
  BY DEF CInv, FirstInv, Confirming
<1>2. FirstInv'
  <2>1. ~Installing'
    BY <1>o DEF Installing
  <2>2. Untouched => Untouched'
    BY <1>o, <1>d, <1>k DEF Untouched
  <2> QED BY <1>1, <2>1, <2>2 DEF CInv, FirstInv, Steady
<1>3. ASSUME MK' # MK
      PROVE  /\ service \/ disk.confirm \/ (\E r \in Slots : Confirming(r)) =>
                  /\ (active[c] \cap acked = {} \/ InSync(c))'
                  /\ disk.confirm \/ (\E r \in Slots : Confirming(r)) => InSync(c)'
  <2>1. CASE setup.pc = "install"
    BY <2>1, <1>i DEF Installing
  <2>2. CASE loop.pc = "install" /\ faults = 0
    <3>1. active[c] # {} => active[c] \cap acked = {} /\ ~Told(c)
      BY <2>2 DEF CInv, SoberInv
    <3>2. active[c] # {} => /\ (active[c] \cap acked = {})'
                            /\ ~disk.confirm /\ \A r \in Slots : ~Confirming(r)
      BY <1>1, <3>1 DEF Steady, Told
    <3>3. active[c] = {} => InSync(c)'
      BY <1>1 DEF Steady, InSync
    <3> QED BY <3>2, <3>3
  <2>3. CASE faults # 0
    BY <1>1, <1>3, <1>f, <1>k, <2>3, StillInSync
  <2> QED BY <1>3, <1>k, <2>1, <2>2, <2>3
<1>4. InstallInv(c)'
  <2>1. \A r \in Slots : Granted(r) => Fits(c, req[r].key)
    BY DEF CInv, InstallInv
  <2>2. service => (active[c] \cap acked = {} \/ InSync(c))'
    <3>1. service => active[c] \cap acked = {} \/ InSync(c)
      BY DEF CInv, InstallInv
    <3> QED BY <1>1, <1>3, <3>1, StillInSync DEF Steady
  <2> QED BY <1>1, <1>o, <2>1, <2>2, StillInSync DEF InstallInv, Steady
<1>5. PushInv(c)'
  <2>1. disk.confirm \/ (\E r \in Slots : Confirming(r)) => InSync(c)'
    <3>1. disk.confirm \/ (\E r \in Slots : Confirming(r)) => InSync(c)
      BY DEF CInv, PushInv
    <3> QED BY <1>1, <1>3, <3>1, StillInSync
  <2> QED BY <1>1, <1>o, <1>d, <1>b, <2>1 DEF CInv, PushInv, Steady
<1>6. faults' = 0 => SoberInv(c)'
  BY <1>1, <1>o, <1>d, <1>b DEF CInv, SoberInv, Steady, Told, Remembered
<1> QED BY <1>2, <1>4, <1>5, <1>6 DEF CInv

(* The answer of Register: the installer has a registration to save.       *)
LEMMA Received ==
  ASSUME Base, NEW c \in Clients, NEW r \in Slots, Receive(r)
  PROVE  Fewer(c) /\ OthersStay(r) /\ At(r, "done") /\ ~Beat(r)' /\ ~Granted(r)'
<1>1. /\ OthersStay(r) /\ req'[r] = Idle /\ At(r, "done")
      /\ UNCHANGED <<issued, acked, active, faults>>
  BY DEF Base, IInv, TypeOK, RequestsOK, Receive, Put, OthersStay, dbVars, keyVars, sideVars
<1>2. ~Beat(r)' /\ ~Granted(r)'
  BY <1>1 DEF Beat, Granted, Idle
<1> QED BY <1>1, <1>2 DEF Fewer, OthersStay, Beat, Granted, At

LEMMA RegisterInv ==
  ASSUME Base, NEW c \in Clients, CInv(c), NEW r \in Slots, RegisterAnswered(r)
  PROVE  CInv(c)'
<1> USE DEF Base
<1>1. /\ setup.pc = "wait" /\ setup.call = r /\ Receive(r)
      /\ FilesSame /\ UNCHANGED loop
  BY SetupHearsRegister
<1>2. Fewer(c) /\ OthersStay(r) /\ At(r, "done") /\ ~Beat(r)' /\ ~Granted(r)'
  BY <1>1, Received
<1>3. CASE SetupTo("register", setup.client, setup.mem, NoSlot)
           \/ SetupTo("failed", setup.client, Blank, NoSlot)
  <2>1. SetupMoves
    BY <1>1, <1>3 DEF SetupMoves, SetupTo
  <2>2. loop.pc = "wait" => req'[loop.call] = req[loop.call]
    BY <1>1, <1>2, Blanks, DeviceAssumption DEF Ground, CallInv, OthersStay
  <2> QED BY <1>1, <1>2, <2>1, <2>2, FewerInv DEF FilesSame
<1>4. ASSUME NEW m \in Files, m.install = req[r].key, ~m.confirm, req[r].code = 200,
             SetupTo("save", setup.client, m, NoSlot)
      PROVE  CInv(c)'
  <2>1. Granted(r)
    BY <1>1, <1>2, <1>4 DEF Granted, Ground, CallInv
  <2>2. /\ disk = Blank /\ MK = {} /\ ~service /\ loop = LoopOff
        /\ \A q \in Slots : ~Beat(q) /\ (Granted(q) => q = r)
    BY <2>1 DEF CInv, FirstInv, Untouched
  <2>3. Fits(c, req[r].key)
    BY <2>1 DEF CInv, InstallInv
  <2>4. /\ disk' = Blank /\ MK' = {} /\ ~service' /\ loop' = LoopOff /\ ~Blank.confirm
        /\ loop'.pc = "off" /\ ~loop'.mem.confirm
    BY <1>1, <2>2, Blanks DEF MK, FilesSame
  <2>5. \A q \in Slots : ~Beat(q)' /\ ~Granted(q)'
    BY <1>2, <2>2 DEF Fewer
  <2>6. setup'.pc = "save" /\ setup'.mem = m
    BY <1>4 DEF SetupTo
  <2>7. \E d \in Clients : issued'[d] # 0
    <3>1. req[r].client \in Clients /\ issued[req[r].client] # 0
      BY <2>1 DEF Ground, CallInv, IInv, TypeOK, RequestsOK, Granted, At
    <3> QED BY <3>1, <1>2 DEF Fewer
  <2>8. FirstInv'
    BY <1>4, <2>4, <2>5, <2>6, <2>7 DEF FirstInv
  <2>9. InstallInv(c)'
    <3>1. PICK k \in Keys \cup {NoKey} : k = req[r].key
      BY DEF IInv, TypeOK, RequestsOK, Requests
    <3>2. Fits(c, k)' /\ setup'.mem.install = k
      BY <1>2, <1>4, <2>3, <2>6, <3>1 DEF Fits, Fewer
    <3> QED BY <2>4, <2>5, <2>6, <3>2 DEF InstallInv
  <2>10. PushInv(c)'
    BY <2>4, <2>5 DEF PushInv, Confirming
  <2>11. SoberInv(c)'
    BY <2>4, <2>5 DEF SoberInv, Told, Confirming
  <2> QED BY <2>8, <2>9, <2>10, <2>11 DEF CInv
<1>5. [Blank EXCEPT !.token = setup.client, !.install = req[r].key] \in Files
      /\ [Blank EXCEPT !.token = setup.client, !.install = req[r].key].install = req[r].key
      /\ ~[Blank EXCEPT !.token = setup.client, !.install = req[r].key].confirm
  <2>1. setup.client \in Clients \cup {NoClient} /\ req[r].key \in Keys \cup {NoKey}
    BY Processes DEF IInv, TypeOK, RequestsOK, Requests
  <2> QED BY <2>1, Blanks DEF Files
<1> QED BY <1>3, <1>4, <1>5, SetupHearsRegister

(* The answer of a heartbeat of the run loop.                              *)
LEMMA LoopAnswerInv ==
  ASSUME Base, NEW c \in Clients, CInv(c), NEW r \in Slots, LoopAnswered(r)
  PROVE  CInv(c)'
<1> USE DEF Base
<1>1. /\ loop.pc = "wait" /\ loop.call = r /\ Receive(r)
      /\ FilesSame /\ UNCHANGED setup
      /\ LoopHears([code |-> req[r].code, rotate |-> req[r].rotate, key |-> req[r].key])
  BY LoopListens
<1>2. Fewer(c) /\ At(r, "done") /\ ~Beat(r)' /\ Beat(r)
  BY <1>1, Received DEF Ground, CallInv
<1>3. /\ MK' = MK /\ UNCHANGED <<disk, service, acked, faults>> /\ faults \in Nat
      /\ active'[c] = active[c]
  BY <1>1, <1>2 DEF MK, Fewer, FilesSame, IInv, TypeOK
<1>4. /\ InSync(c)' <=> InSync(c)
      /\ Remembered(c)' <=> Remembered(c)
  BY <1>3 DEF InSync, Remembered
<1>5. \A q \in Slots : /\ Beat(q)' => Beat(q) /\ req'[q] = req[q]
                       /\ Granted(q)' => Granted(q) /\ req'[q] = req[q]
                       /\ Confirming(q)' => Confirming(q)
  BY <1>2 DEF Fewer, Confirming
<1>6. Told(c)' => Told(c)
  BY <1>3, <1>5 DEF Told
<1>7. ~Untouched /\ ~Installing /\ \A q \in Slots : ~Granted(q)
  BY <1>1, Blanks DEF CInv, FirstInv, Untouched
<1>8. FirstInv'
  BY <1>1, <1>2, <1>5, <1>7 DEF CInv, FirstInv, Installing, Fewer
<1>9. InstallInv(c)'
  BY <1>1, <1>3, <1>4, <1>5, <1>7 DEF CInv, InstallInv, Installing
<1>10. CASE LoopTo("tick", loop.mem, loop.cached, NoSlot, loop.key)
  BY <1>1, <1>2, <1>10, FewerInv DEF LoopFails, SetupMoves, FilesSame, LoopTo
<1>11. ASSUME disk.token \notin {NoClient, loop.cached}, NEW m \in Files,
              m.ssh = loop.mem.ssh, m.confirm = loop.mem.confirm,
              LoopTo("resend", m, disk.token, NoSlot, loop.key)
       PROVE  CInv(c)'
  <2>1. faults # 0
    BY <1>1, <1>11 DEF CInv, SoberInv
  <2>2. PushInv(c)'
    BY <1>3, <1>4, <1>5, <1>11 DEF CInv, PushInv, LoopTo
  <2> QED BY <1>3, <1>8, <1>9, <2>1, <2>2 DEF CInv
<1>12. CASE /\ req[r].rotate /\ req[r].key # NoKey
            /\ ~(loop.mem.confirm /\ loop.mem.ssh = req[r].key)
            /\ LoopTo("install", loop.mem, loop.cached, NoSlot, req[r].key)
  <2>1. active[c] \subseteq {req[r].key}
    BY <1>2, <1>12 DEF CInv, PushInv
  <2>2. PushInv(c)'
    BY <1>3, <1>4, <1>5, <1>12, <2>1 DEF CInv, PushInv, LoopTo
  <2>3. faults = 0 /\ active[c] # {} => active[c] \cap acked = {} /\ ~Told(c)
    <3>1. SUFFICES ASSUME faults = 0, active[c] # {},
                          Told(c) \/ active[c] \cap acked # {}
                   PROVE  FALSE
      OBVIOUS
    <3>2. disk.confirm /\ active[c] \subseteq {disk.ssh} /\ loop.mem = disk
      BY <1>1, <1>12, <3>1 DEF CInv, SoberInv, Remembered
    <3> QED BY <1>12, <2>1, <3>1, <3>2
  <2>4. faults' = 0 => SoberInv(c)'
    BY <1>1, <1>3, <1>4, <1>6, <1>12, <2>3 DEF CInv, SoberInv, LoopTo
  <2> QED BY <1>8, <1>9, <2>2, <2>4 DEF CInv
<1>13. CASE /\ req[r].code = 200 /\ ~req[r].rotate /\ loop.mem.confirm
            /\ LoopTo("acked", loop.mem, loop.cached, NoSlot, loop.key)
  <2>1. PushInv(c)'
    BY <1>3, <1>4, <1>5, <1>13 DEF CInv, PushInv, LoopTo
  <2>2. faults = 0 => active[c] \subseteq acked
    BY <1>1, <1>2, <1>13 DEF CInv, SoberInv, NothingPending, At
  <2>3. faults' = 0 => SoberInv(c)'
    BY <1>1, <1>3, <1>4, <1>6, <1>13, <2>2 DEF CInv, SoberInv, LoopTo
  <2> QED BY <1>8, <1>9, <2>1, <2>3 DEF CInv
<1>14. CASE LoopTo("reup", loop.mem, loop.cached, NoSlot, loop.key)
  <2>1. PushInv(c)'
    BY <1>3, <1>4, <1>5, <1>14 DEF CInv, PushInv, LoopTo
  <2>2. faults' = 0 => SoberInv(c)'
    BY <1>1, <1>3, <1>4, <1>6, <1>14 DEF CInv, SoberInv, LoopTo
  <2> QED BY <1>8, <1>9, <2>1, <2>2 DEF CInv
<1> QED BY <1>1, <1>10, <1>11, <1>12, <1>13, <1>14 DEF LoopHears

(* A heartbeat opens: it reports what the process knows.                   *)
LEMMA BeatInv ==
  ASSUME Base, NEW c \in Clients, CInv(c), NEW r \in Slots, SetupBeat(r) \/ LoopBeat(r)
  PROVE  CInv(c)'
<1> USE DEF Base
<1>b. /\ setup.mem.confirm \in BOOLEAN /\ setup.mem.applied \in BOOLEAN
      /\ loop.mem.confirm \in BOOLEAN /\ loop.mem.applied \in BOOLEAN
  BY Processes DEF Files
<1>1. ASSUME NEW d \in Clients, NEW peer \in Peers, NEW x \in BOOLEAN,
             NEW y \in BOOLEAN, StartHeartbeat(r, d, peer, x, y)
      PROVE  /\ UNCHANGED <<issued, acked, active, faults>>
             /\ req'[r].pc = "hb_read" /\ req'[r].op = "heartbeat"
             /\ ~req'[r].rotate /\ req'[r].key = NoKey /\ req'[r].rotated = x
             /\ ~Granted(r)' /\ (Confirming(r)' <=> x)
             /\ \A q \in Slots : q # r => req'[q] = req[q]
             /\ At(r, "idle")
  <2>1. /\ req'[r].pc = "hb_read" /\ req'[r].op = "heartbeat" /\ OthersStay(r)
        /\ ~req'[r].rotate /\ req'[r].key = NoKey /\ req'[r].rotated = x
        /\ At(r, "idle")
    BY <1>1, HeartbeatStarts DEF IInv
  <2>2. UNCHANGED <<issued, acked, active, faults>>
    BY <1>1 DEF StartHeartbeat, dbVars, keyVars, sideVars
  <2> QED BY <2>1, <2>2 DEF Granted, Confirming, Beat, At, OthersStay
<1>2. ASSUME UNCHANGED <<issued, acked, active, faults, service, disk>>, MK' = MK,
             ~Granted(r)', At(r, "idle"), \A q \in Slots : q # r => req'[q] = req[q],
             ~Untouched, ~Installing, ~Installing'
      PROVE  /\ FirstInv' /\ (InSync(c)' <=> InSync(c))
             /\ (Remembered(c)' <=> Remembered(c))
             /\ \A q \in Slots : ~Granted(q)'
             /\ \A q \in Slots \ {r} : /\ Beat(q)' => Beat(q) /\ req'[q] = req[q]
                                       /\ Confirming(q)' => Confirming(q)
  <2>1. \A q \in Slots : ~Granted(q)
    BY <1>2 DEF CInv, FirstInv
  <2>2. \A q \in Slots \ {r} : /\ Beat(q)' => Beat(q) /\ req'[q] = req[q]
                               /\ Confirming(q)' => Confirming(q)
                               /\ Granted(q)' => Granted(q)
    BY <1>2 DEF Beat, Granted, Confirming, At
  <2>3. \A q \in Slots : ~Granted(q)'
    BY <1>2, <2>1, <2>2
  <2>4. FirstInv'
    BY <1>2, <2>3 DEF CInv, FirstInv
  <2> QED BY <1>2, <2>2, <2>3, <2>4 DEF InSync, Remembered
<1>3. CASE SetupBeat(r)
  <2>1. /\ setup.pc = "beat" /\ FilesSame /\ UNCHANGED loop
        /\ setup'.pc = "beating" /\ setup'.mem = setup.mem
    BY <1>3, SetupBeats DEF SetupTo
  <2>2. ~setup.mem.confirm /\ ~Untouched /\ ~Installing /\ ~Installing'
    BY <2>1 DEF Ground, HandInv, Registered, Untouched, Installing
  <2>3. /\ UNCHANGED <<issued, acked, active, faults>>
        /\ req'[r].pc = "hb_read" /\ ~req'[r].rotate
        /\ ~Granted(r)' /\ ~Confirming(r)' /\ At(r, "idle")
        /\ \A q \in Slots : q # r => req'[q] = req[q]
    <3>1. PICK d \in Clients, peer \in Peers :
            StartHeartbeat(r, d, peer, setup.mem.confirm, setup.mem.applied)
      BY <1>3, SetupBeats
    <3> QED BY <1>1, <1>b, <2>2, <3>1
  <2>4. MK' = MK /\ UNCHANGED <<disk, service>>
    BY <2>1 DEF MK, FilesSame
  <2>5. /\ FirstInv' /\ (InSync(c)' <=> InSync(c))
        /\ (Remembered(c)' <=> Remembered(c))
        /\ \A q \in Slots : ~Granted(q)'
        /\ \A q \in Slots \ {r} : /\ Beat(q)' => Beat(q) /\ req'[q] = req[q]
                                  /\ Confirming(q)' => Confirming(q)
    BY <1>2, <2>2, <2>3, <2>4
  <2>6. InstallInv(c)'
    <3>1. active[c] \cap acked = {} \/ InSync(c)
      BY <2>1 DEF CInv, InstallInv
    <3>2. (active[c] \cap acked = {} \/ InSync(c))'
      BY <2>3, <2>5, <3>1
    <3> QED BY <2>1, <2>5, <3>2 DEF InstallInv
  <2>7. PushInv(c)'
    BY <2>1, <2>3, <2>4, <2>5 DEF CInv, PushInv
  <2>8. Told(c)' => Told(c)
    BY <2>3, <2>4, <2>5 DEF Told
  <2>9. loop.pc = "wait" => req'[loop.call] = req[loop.call]
    BY <2>3 DEF Ground, CallInv, Beat
  <2>10. faults' = 0 => SoberInv(c)'
    BY <2>1, <2>3, <2>4, <2>5, <2>8, <2>9 DEF CInv, SoberInv
  <2> QED BY <2>5, <2>6, <2>7, <2>10 DEF CInv
<1>4. CASE LoopBeat(r)
  <2>1. /\ loop.pc \in {"tick", "resend"} /\ FilesSame /\ UNCHANGED setup
        /\ loop'.pc = "wait" /\ loop'.mem = loop.mem /\ loop'.call = r
        /\ loop'.cached \in {loop.cached, disk.token}
    BY <1>4, LoopBeats DEF LoopTo
  <2>2. ~Untouched /\ ~Installing /\ ~Installing'
    BY <2>1, Blanks DEF CInv, FirstInv, Untouched, Installing
  <2>3. /\ UNCHANGED <<issued, acked, active, faults>>
        /\ req'[r].pc = "hb_read" /\ ~req'[r].rotate /\ req'[r].key = NoKey
        /\ ~Granted(r)' /\ (Confirming(r)' <=> loop.mem.confirm) /\ At(r, "idle")
        /\ \A q \in Slots : q # r => req'[q] = req[q]
    <3>1. PICK d \in Clients, peer \in Peers :
            StartHeartbeat(r, d, peer, loop.mem.confirm, loop.mem.applied)
      BY <1>4, LoopBeats
    <3> QED BY <1>1, <1>b, <3>1
  <2>4. MK' = MK /\ UNCHANGED <<disk, service>>
    BY <2>1 DEF MK, FilesSame
  <2>5. /\ FirstInv' /\ (InSync(c)' <=> InSync(c))
        /\ (Remembered(c)' <=> Remembered(c))
        /\ \A q \in Slots : ~Granted(q)'
        /\ \A q \in Slots \ {r} : /\ Beat(q)' => Beat(q) /\ req'[q] = req[q]
                                  /\ Confirming(q)' => Confirming(q)
    BY <1>2, <2>2, <2>3, <2>4
  <2>6. InstallInv(c)'
    BY <2>1, <2>2, <2>3, <2>4, <2>5 DEF CInv, InstallInv, Installing
  <2>7. PushInv(c)'
    BY <2>1, <2>3, <2>4, <2>5 DEF CInv, PushInv
  <2>8. ASSUME faults' = 0 PROVE SoberInv(c)'
    <3>1. SoberInv(c) /\ loop.mem = disk /\ loop.cached = disk.token
      BY <2>1, <2>3, <2>8 DEF CInv, SoberInv
    <3>2. disk.token # NoClient
      <4>1. PICK reload \in BOOLEAN : AuthToken(loop, reload) # NoClient
        BY <1>4 DEF LoopBeat
      <4> QED BY <3>1, <4>1 DEF AuthToken, FreshToken
    <3>3. Told(c)' => Told(c)
      BY <2>3, <2>4, <2>5, <3>1 DEF Told
    <3>4. ~NothingPending(req[loop.call])'
      BY <2>1, <2>3 DEF NothingPending
    <3> QED BY <2>1, <2>3, <2>4, <2>5, <3>1, <3>2, <3>3, <3>4 DEF SoberInv
  <2> QED BY <2>5, <2>6, <2>7, <2>8 DEF CInv
<1> QED BY <1>3, <1>4

(* Whatever else happens to the calls.                                     *)
LEMMA CallsInv ==
  ASSUME Base, NEW c \in Clients, CInv(c),
         \/ CallLost \/ ServerRestarts
         \/ \E d \in Clients : WorldStep(d)
         \/ \E r \in Slots :
              \/ PostRegister(r) \/ SetupBeatAnswered(r)
              \/ /\ (\E d \in Clients : AdminStart(r, d)) \/ (Receive(r) /\ ~Awaited(r))
                 /\ UNCHANGED deviceVars
  PROVE  CInv(c)'
<1> USE DEF Base, SetupMoves, FilesSame
<1>w. loop.pc = "wait" => loop.call \in Slots /\ Beat(loop.call)
  BY DEF Ground, CallInv
<1>1. CASE CallLost
  <2>1. Fewer(c)
    BY <1>1, CallsLost DEF BackendSame, Fewer, Beat, Granted, At, dbVars, keyVars, sideVars
  <2>2. UNCHANGED req
    BY <1>1, CallsLost DEF BackendSame
  <2> QED BY <1>1, <2>1, <2>2, CallsLost, FewerInv DEF SetupFails, SetupTo, OffSetup
<1>2. CASE ServerRestarts
  <2>1. \A q \in Slots : ~Beat(q)' /\ ~Granted(q)'
    BY <1>2, CallsDropped DEF Beat, Granted, Idle
  <2>2. Fewer(c) /\ loop'.pc # "wait"
    BY <1>2, <2>1, CallsDropped DEF Fewer, LoopFails, LoopTo, dbVars, keyVars, sideVars
  <2> QED BY <1>2, <2>2, CallsDropped, FewerInv DEF SetupFails, SetupTo, OffSetup
<1>3. ASSUME NEW d \in Clients, WorldStep(d) PROVE CInv(c)'
  <2>1. Fewer(c) /\ UNCHANGED <<req, deviceVars>>
    BY <1>3 DEF WorldStep, TokenExpires, PeerJoins, Fewer, Beat, Granted, At,
                keyVars, sideVars
  <2> QED BY <2>1, FewerInv DEF deviceVars
<1>4. ASSUME NEW r \in Slots, PostRegister(r) PROVE CInv(c)'
  <2> DEFINE s == [Idle EXCEPT !.op = "register", !.pc = "rg_token",
                               !.client = setup.client]
  <2>1. /\ At(r, "idle") /\ OthersStay(r) /\ req'[r] = s
        /\ UNCHANGED <<issued, acked, active, faults>>
    BY <1>4, SetupRegisters DEF StartRegister, Begin, Put, OthersStay, IInv, TypeOK,
       RequestsOK, dbVars, keyVars, sideVars
  <2>2. s.op = "register" /\ s.pc = "rg_token"
    BY DEF Idle
  <2> HIDE DEF s
  <2>3. ~Beat(r)' /\ ~Granted(r)'
    BY <2>1, <2>2 DEF Beat, Granted, At
  <2>4. Fewer(c)
    BY <2>1, <2>3 DEF Fewer, OthersStay, Beat, Granted, At
  <2>5. UNCHANGED loop /\ (loop.pc = "wait" => req'[loop.call] = req[loop.call])
    BY <1>4, <1>w, <2>1, SetupRegisters DEF OthersStay, Beat
  <2> QED BY <1>4, <2>4, <2>5, SetupRegisters, FewerInv DEF SetupTo
<1>5. ASSUME NEW r \in Slots, SetupBeatAnswered(r) PROVE CInv(c)'
  <2>1. Fewer(c) /\ OthersStay(r)
    BY <1>5, SetupHearsBeat, Received
  <2>2. UNCHANGED loop /\ (loop.pc = "wait" => req'[loop.call] = req[loop.call])
    BY <1>5, <1>w, <2>1, SetupHearsBeat, DeviceAssumption DEF OthersStay, Ground, CallInv
  <2> QED BY <1>5, <2>1, <2>2, SetupHearsBeat, FewerInv DEF SetupTo, OffSetup
<1>6. ASSUME NEW r \in Slots, NEW d \in Clients, AdminStart(r, d), UNCHANGED deviceVars
      PROVE  CInv(c)'
  <2>1. /\ At(r, "idle") /\ OthersStay(r) /\ req'[r].op \in AdminOps
    BY <1>6, AdminOpens DEF IInv
  <2>2. UNCHANGED <<issued, acked, active, faults>>
    BY <1>6 DEF AdminStart, StartCreateClient, StartRotateKey, StartDisableClient,
       StartDeleteClient, StartConnection, dbVars, keyVars, sideVars
  <2>3. Fewer(c)
    BY <2>1, <2>2 DEF Fewer, OthersStay, Beat, Granted, At, AdminOps
  <2>4. loop.pc = "wait" => req'[loop.call] = req[loop.call]
    BY <1>w, <2>1 DEF OthersStay, Beat
  <2> QED BY <1>6, <2>3, <2>4, FewerInv DEF deviceVars
<1>7. ASSUME NEW r \in Slots, Receive(r), ~Awaited(r), UNCHANGED deviceVars
      PROVE  CInv(c)'
  <2>1. Fewer(c) /\ OthersStay(r)
    BY <1>7, Received
  <2>2. loop.pc = "wait" => req'[loop.call] = req[loop.call]
    BY <1>7, <1>w, <2>1 DEF OthersStay, Awaited
  <2> QED BY <1>7, <2>1, <2>2, FewerInv DEF deviceVars
<1> QED BY <1>1, <1>2, <1>3, <1>4, <1>5, <1>6, <1>7

---------------------------------------------------------------------------
(* The statements of the requests.                                         *)

(* What they do to the answers that the machine will hear, ...             *)
Flow(c) ==
  \A q \in Slots :
    /\ Beat(q)' => Beat(q)
    /\ Confirming(q)' => Confirming(q)
    /\ Granted(q)' => Granted(q) /\ req'[q] = req[q]
    /\ Beat(q)' /\ req'[q].rotate =>
         \/ req[q].rotate /\ req'[q].key \in {req[q].key, NoKey} \cup active[c]
         \/ PendingKeys(c) # {} /\ req'[q].key = NoKey
    /\ Beat(q)' /\ NothingPending(req[q])' =>
         NothingPending(req[q]) \/ PendingKeys(c) = {} \/ faults' # 0
LEMMA AnswersFlow ==
  ASSUME Base, NEW c \in Clients, RegisteredOnce(c), NEW r \in Slots, Serve(r),
         UNCHANGED issued
  PROVE  Flow(c)
<1> USE DEF Base
<1>t. TypeOK /\ req[r] \in Requests
  BY DEF IInv, TypeOK, RequestsOK
<1>1. Keeps(r) /\ \A q \in Slots : Beat(q)' => Beat(q) /\ req'[q].client = req[q].client
  BY ServedCalls
<1>2. \A q \in Slots : Granted(q)' => Granted(q) /\ req'[q] = req[q]
  <2>1. ~(issued' = [issued EXCEPT ![req[r].client] = @ + 1])
    <3>1. req[r].client \in Clients
      BY <1>t, <1>1 DEF Keeps, At, TypeOK, RequestsOK
    <3>2. issued \in [Clients -> Nat]
      BY <1>t DEF TypeOK
    <3> QED BY <3>1, <3>2
  <2> QED BY <2>1, ServedCalls
<1>3. ASSUME NEW q \in Slots, q # r
      PROVE  /\ Confirming(q)' => Confirming(q)
             /\ Beat(q)' /\ req'[q].rotate => req[q].rotate /\ req'[q].key = req[q].key
             /\ Beat(q)' /\ NothingPending(req[q])' => NothingPending(req[q])
  <2>1. req'[q] = req[q]
    BY <1>1, <1>3 DEF Keeps, OthersStay
  <2> QED BY <2>1 DEF Confirming, Beat, At, NothingPending
<1>4. ASSUME Beat(r)'
      PROVE  /\ req'[r].rotated => req[r].rotated
             /\ req'[r].rotate =>
                  \/ req[r].rotate /\ req'[r].key \in {req[r].key, NoKey} \cup active[c]
                  \/ PendingKeys(c) # {} /\ req'[r].key = NoKey
             /\ NothingPending(req[r])' =>
                  NothingPending(req[r]) \/ PendingKeys(c) = {} \/ faults' # 0
  <2>1. Beat(r) /\ req[r].client = c /\ req[r].pc \notin {"idle", "done"}
    BY <1>1, <1>4, TalksOf DEF Keeps
  <2>2. OpOf(req[r].pc) = "heartbeat"
    BY <2>1 DEF Beat, RequestInv, RouteInv
  <2>3. AgentAnswer(r)
    BY <1>t, <2>2, AdminAnswers, AgentAnswers DEF Serve, AdminOps
  <2>f. faults \in Nat /\ (Fault => faults' # 0)
    BY <1>t DEF TypeOK, Fault
  <2>k. NoKey \notin active[c]
    BY ConstantsAssumption, <1>t DEF TypeOK, RowsOK
  <2>4. CASE GoesOn(r)
    BY <2>4 DEF GoesOn, SameAnswer, NothingPending, ReplyPCs
  <2>5. CASE Ends(r, Codes \ {200})
    BY <2>5 DEF Ends, NothingPending
  <2>6. CASE Confirms(r)
    BY <2>6 DEF Confirms, NothingPending
  <2>7. CASE Replies(r)
    BY <2>7 DEF Replies, NothingPending, At
  <2>8. ASSUME NEW ok \in BOOLEAN, Looks(r, ok)
        PROVE  /\ req'[r].rotated => req[r].rotated
               /\ req'[r].rotate => PendingKeys(c) # {} /\ req'[r].key = NoKey
               /\ NothingPending(req[r])' => PendingKeys(c) = {} \/ faults' # 0
    <3>1. req[r].key = NoKey
      BY <2>8 DEF Looks, At, RequestInv, RouteInv, UnreadPCs
    <3> QED BY <2>1, <2>8, <2>f, <3>1 DEF Looks, NothingPending, Got
  <2>9. ASSUME NEW ok \in BOOLEAN, NEW k \in Keys \cup {NoKey}, Reads(r, ok, k)
        PROVE  /\ req'[r].rotated => req[r].rotated
               /\ req'[r].rotate => req[r].rotate /\ req'[r].key \in {NoKey} \cup active[c]
               /\ ~NothingPending(req[r])'
    <3>1. req[r].rotate
      BY <2>9 DEF Reads, At, RequestInv, RouteInv
    <3> QED BY <2>1, <2>9, <3>1 DEF Reads, NothingPending, ReadKey, SomeKey
  <2>10. ~(\E ok \in BOOLEAN, k \in Keys \cup {NoKey} : Redeems(r, ok, k))
    BY <2>2, Handlers DEF Redeems, At
  <2> QED BY <2>3, <2>4, <2>5, <2>6, <2>7, <2>8, <2>9, <2>10 DEF AgentAnswer
<1>5. Confirming(r)' => Confirming(r)
  BY <1>1, <1>4 DEF Confirming
<1> QED BY <1>1, <1>2, <1>3, <1>4, <1>5 DEF Flow

(* ... and what they do to the client's keys.                              *)
Turns(c) ==
  \/ active'[c] = active[c] /\ active[c] \cap acked' = active[c] \cap acked
  \/ active'[c] = {}
  \/ active'[c] \cap acked' = {} /\ ~Handshaking(c)
  \/ /\ active'[c] = active[c] /\ active[c] \subseteq acked'
     /\ \E r \in Slots : Confirming(r)
LEMMA KeysTurn ==
  ASSUME Base, NEW c \in Clients, issued[c] > 0, c \notin early', c \notin overlap,
         NEW r \in Slots, Serve(r), Track
  PROVE  Turns(c)
<1> USE DEF Base
<1>t. TypeOK /\ req[r] \in Requests /\ active \in [Clients -> SUBSET Keys]
  BY DEF IInv, TypeOK, RequestsOK, RowsOK
<1>d. Keeps(r) /\ req[r].client \in Clients
  BY <1>t, ServedCalls DEF Keeps, At, TypeOK, RequestsOK
<1> DEFINE d == req[r].client
<1>1. CASE UNCHANGED <<active, acked>>
  BY <1>1 DEF Turns
<1>2. CASE UNCHANGED active /\ ConfirmsKeys(r)
  <2>1. CASE d = c
    <3>1. req[r].op = "heartbeat"
      BY <1>2, <1>d, Handlers DEF ConfirmsKeys, At, RequestInv, RouteInv, Keeps
    <3>2. Confirming(r)
      BY <1>2, <1>d, <3>1 DEF ConfirmsKeys, Confirming, Beat, Keeps, At
    <3> QED BY <1>2, <2>1, <3>2 DEF Turns, ConfirmsKeys
  <2>2. CASE d # c
    <3>1. active[c] \cap active[d] = {}
      BY <1>d, <2>2 DEF IInv, KeyInv
    <3> QED BY <1>2, <3>1 DEF Turns, ConfirmsKeys
  <2> QED BY <2>1, <2>2
<1>3. CASE AddsClient(r)
  <2>1. req[r].pc \in CreatePCs
    BY <1>3 DEF AddsClient, At, CreatePCs
  <2>2. d # c
    BY <2>1 DEF IInv, RowInv, RequestInv, KnownInv
  <2>3. req[r].key \notin active[c]
    BY <2>1 DEF IInv, KeyInv, KeyPCs
  <2> QED BY <1>3, <1>t, <2>2, <2>3 DEF Turns, AddsClient
<1>4. CASE Exchanges(r)
  <2> DEFINE k == req[r].key
  <2>1. req[r].pc = "rk_commit"
    BY <1>4 DEF Exchanges, At
  <2>2. \A e \in Clients : k \notin active[e]
    BY <2>1 DEF IInv, KeyInv, KeyPCs, RotatePCs
  <2>3. req[r].doomed \subseteq active[d]
    BY <2>1 DEF RequestInv, LockInv, HoldPCs
  <2>4. CASE d = c
    <3>1. active[c] \subseteq req[r].doomed
      BY <2>1, <2>4 DEF IInv, SerialInv, Rotating, At
    <3>2. active'[c] = {k}
      BY <1>4, <1>t, <2>4, <3>1 DEF Exchanges
    <3>3. k \notin acked'
      BY <1>4, <2>2 DEF Exchanges, RequestInv, LockInv
    <3>4. ~Handshaking(c)
      BY <2>2, <3>2 DEF Track
    <3> QED BY <3>2, <3>3, <3>4 DEF Turns
  <2>5. CASE d # c
    <3>1. active[c] \cap req[r].doomed = {}
      BY <1>d, <2>3, <2>5 DEF IInv, KeyInv
    <3>2. active'[c] = active[c] /\ acked' = acked \ req[r].doomed
      BY <1>4, <1>t, <2>5 DEF Exchanges
    <3> QED BY <3>1, <3>2 DEF Turns
  <2> QED BY <2>4, <2>5
<1>5. CASE RemovesClient(r)
  <2>1. CASE d = c
    BY <1>5, <1>t, <2>1 DEF Turns, RemovesClient
  <2>2. CASE d # c
    <3>1. active[c] \cap active[d] = {}
      BY <1>d, <2>2 DEF IInv, KeyInv
    <3>2. active'[c] = active[c] /\ acked' = acked \ active[d]
      BY <1>5, <1>t, <2>2 DEF RemovesClient
    <3> QED BY <3>1, <3>2 DEF Turns
  <2> QED BY <2>1, <2>2
<1> QED BY <1>t, <1>1, <1>2, <1>3, <1>4, <1>5, AgentKeys, AdminKeys DEF Serve

LEMMA ServeKeepsInv ==
  ASSUME Base, NEW c \in Clients, CInv(c), RegisteredOnce(c), c \notin overlap,
         issued[c] > 0, NEW r \in Slots, Serve(r), Base',
         Flow(c), Turns(c), UNCHANGED <<issued, deviceVars>>
  PROVE  CInv(c)'
<1> USE DEF Base
<1>1. /\ MK' = MK /\ UNCHANGED <<disk, service, setup, loop>>
      /\ faults \in Nat /\ faults' \in Nat /\ (faults' = 0 => faults = 0)
  <2>1. faults \in Nat /\ faults' \in Nat
    BY DEF IInv, TypeOK
  <2>2. faults' = 0 => faults = 0
    BY <2>1, ServeFaults DEF IInv, Fault
  <2> QED BY <2>1, <2>2 DEF MK, deviceVars
<1>2. \A q \in Slots : /\ Beat(q)' => Beat(q) /\ req[q].client = c
                       /\ Confirming(q)' => Confirming(q)
                       /\ Confirming(q) => Beat(q) /\ req[q].rotated /\ req[q].op = "heartbeat"
                       /\ Granted(q)' => Granted(q) /\ req'[q] = req[q]
  BY TalksOf DEF Flow, Confirming, Beat
<1>3. Told(c)' => Told(c)
  BY <1>1, <1>2 DEF Told
<1>4. /\ Untouched' <=> Untouched
      /\ Installing' <=> Installing
  BY <1>1 DEF Untouched, Installing
<1>5. FirstInv'
  BY <1>1, <1>2, <1>4 DEF CInv, FirstInv
<1>o. \A j, k \in active[c] : j = k
  BY OneKey
<1>6. CASE active'[c] = active[c] /\ active[c] \cap acked' = active[c] \cap acked
  <2>1. InSync(c) => InSync(c)'
    BY <1>1, <1>6 DEF InSync
  <2>2. Remembered(c)' <=> Remembered(c)
    BY <1>1, <1>6 DEF Remembered
  <2>3. InstallInv(c)'
    <3>1. \A k : Fits(c, k) => (active'[c] \cap acked' = {} \/ active'[c] = {k}
                                  \/ (k = NoKey /\ faults' > 0))
      BY <1>1, <1>6 DEF Fits
    <3>2. \A q \in Slots : Granted(q)' => Fits(c, req[q].key)'
      BY <1>2, <3>1 DEF CInv, InstallInv, Fits
    <3>3. Fits(c, setup.mem.install) => Fits(c, setup.mem.install)'
      BY <1>1, <3>1 DEF Fits
    <3> QED BY <1>1, <1>6, <2>1, <3>2, <3>3 DEF CInv, InstallInv
  <2>4. PushInv(c)'
    <3>1. \A q \in Slots : Beat(q)' /\ req'[q].rotate /\ req'[q].key # NoKey =>
            active'[c] \subseteq {req'[q].key}
      BY <1>2, <1>6, <1>o DEF CInv, PushInv, Flow
    <3> QED BY <1>1, <1>2, <1>6, <2>1, <3>1 DEF CInv, PushInv
  <2>5. ASSUME faults' = 0 PROVE SoberInv(c)'
    <3>1. SoberInv(c) /\ faults = 0
      BY <1>1, <2>5 DEF CInv
    <3>2. ASSUME loop.pc = "wait"
          PROVE  LET q == req'[loop.call] IN
                 /\ q.rotate /\ (Told(c)' \/ active'[c] \cap acked' # {}) => Remembered(c)'
                 /\ loop.mem.confirm /\ NothingPending(req[loop.call])' =>
                      active'[c] \subseteq acked'
      <4>1. loop.call \in Slots /\ Beat(loop.call)'
        BY <1>1, <3>2 DEF Ground, CallInv
      <4>2. /\ req[loop.call].rotate /\ (Told(c) \/ active[c] \cap acked # {}) =>
                 Remembered(c)
            /\ loop.mem.confirm /\ NothingPending(req[loop.call]) => active[c] \subseteq acked
            /\ Told(c) /\ active[c] \cap acked = {} => Remembered(c)
        BY <3>1, <3>2 DEF SoberInv
      <4>3. PendingKeys(c) # {} => active[c] \cap acked = {}
        BY <1>o DEF PendingKeys
      <4>4. PendingKeys(c) = {} => active[c] \subseteq acked
        BY DEF PendingKeys
      <4>5. req'[loop.call].rotate => req[loop.call].rotate \/ PendingKeys(c) # {}
        BY <1>1, <4>1 DEF Flow
      <4>6. NothingPending(req[loop.call])' =>
              NothingPending(req[loop.call]) \/ PendingKeys(c) = {}
        BY <1>1, <2>5, <4>1 DEF Flow
      <4>7. active[c] \subseteq acked => active'[c] \subseteq acked'
        BY <1>6
      <4> QED BY <1>3, <1>6, <2>2, <4>2, <4>3, <4>4, <4>5, <4>6, <4>7
    <3> QED BY <1>1, <1>3, <1>6, <2>2, <3>1, <3>2 DEF SoberInv
  <2> QED BY <1>5, <2>3, <2>4, <2>5 DEF CInv
<1>7. CASE active'[c] = {}
  <2>1. InSync(c)' /\ Remembered(c)'
    BY <1>7 DEF InSync, Remembered
  <2>2. InstallInv(c)'
    BY <1>1, <1>2, <1>7 DEF CInv, InstallInv, Fits
  <2>3. PushInv(c)'
    BY <1>1, <1>2, <1>7, <2>1 DEF CInv, PushInv
  <2>4. faults' = 0 => SoberInv(c)'
    BY <1>1, <1>7, <2>1 DEF CInv, SoberInv
  <2> QED BY <1>5, <2>2, <2>3, <2>4 DEF CInv
<1>8. CASE active'[c] \cap acked' = {} /\ ~Handshaking(c)
  <2>1. /\ ~loop.mem.confirm /\ ~disk.confirm
        /\ loop.pc \notin {"install", "record", "confirm"}
        /\ \A q \in Slots : req[q].op = "heartbeat" /\ req[q].client = c =>
             ~req[q].rotated /\ ~req[q].rotate
    BY <1>8 DEF Handshaking
  <2>2. /\ ~Told(c) /\ \A q \in Slots : ~Confirming(q) /\ (Beat(q)' => ~req[q].rotate)
    BY <1>2, <2>1, TalksOf DEF Told, Beat
  <2>3. \A q \in Slots : Beat(q)' /\ req'[q].rotate => req'[q].key = NoKey
    BY <2>2 DEF Flow
  <2>4. InstallInv(c)'
    BY <1>1, <1>2, <1>8 DEF CInv, InstallInv, Fits
  <2>5. PushInv(c)'
    BY <1>1, <1>2, <2>1, <2>2, <2>3 DEF CInv, PushInv
  <2>6. faults' = 0 => SoberInv(c)'
    BY <1>1, <1>3, <1>8, <2>1, <2>2, <2>5 DEF CInv, SoberInv, PushInv
  <2> QED BY <1>5, <2>4, <2>5, <2>6 DEF CInv
<1>9. CASE /\ active'[c] = active[c] /\ active[c] \subseteq acked'
           /\ \E q \in Slots : Confirming(q)
  <2>1. InSync(c) /\ Told(c)
    BY <1>9 DEF CInv, PushInv, Told
  <2>2. InSync(c)' /\ (Remembered(c)' <=> Remembered(c))
    BY <1>1, <1>9, <2>1 DEF InSync, Remembered
  <2>3. ~Installing /\ \A q \in Slots : ~Granted(q)
    BY <1>2, <1>9 DEF CInv, FirstInv
  <2>4. InstallInv(c)'
    BY <1>1, <1>2, <2>2, <2>3 DEF InstallInv, Installing
  <2>5. PushInv(c)'
    <3>1. \A q \in Slots : Beat(q)' /\ req'[q].rotate /\ req'[q].key # NoKey =>
            active'[c] \subseteq {req'[q].key}
      BY <1>2, <1>9, <1>o DEF CInv, PushInv, Flow
    <3> QED BY <1>1, <1>2, <1>9, <2>2, <3>1 DEF CInv, PushInv
  <2>6. ASSUME faults' = 0 PROVE SoberInv(c)'
    <3>1. SoberInv(c) /\ faults = 0
      BY <1>1, <2>6 DEF CInv
    <3>2. disk.token # NoClient /\ active[c] \cap acked = {} => Remembered(c)
      BY <2>1, <3>1 DEF SoberInv
    <3>3. ASSUME loop.pc = "wait", req'[loop.call].rotate PROVE Remembered(c)'
      <4>1. loop.call \in Slots /\ Beat(loop.call)' /\ disk.token # NoClient
        BY <1>1, <3>1, <3>3 DEF Ground, CallInv, SoberInv
      <4>2. req[loop.call].rotate \/ PendingKeys(c) # {}
        BY <1>1, <3>3, <4>1 DEF Flow
      <4>3. PendingKeys(c) # {} => active[c] \cap acked = {}
        BY <1>o DEF PendingKeys
      <4>4. req[loop.call].rotate => Remembered(c)
        BY <2>1, <3>1, <3>3 DEF SoberInv
      <4> QED BY <2>2, <3>2, <4>1, <4>2, <4>3, <4>4
    <3>4. active'[c] # {} => active'[c] \cap acked' # {}
      BY <1>9
    <3>5. active'[c] = {} => Remembered(c)'
      BY DEF Remembered
    <3>6. loop.pc \in {"install", "record", "confirm"} => active[c] = {}
      BY <2>1, <3>1 DEF SoberInv
    <3> QED BY <1>1, <1>9, <3>1, <3>3, <3>4, <3>5, <3>6 DEF SoberInv
  <2> QED BY <1>5, <2>4, <2>5, <2>6 DEF CInv
<1> QED BY <1>6, <1>7, <1>8, <1>9 DEF Turns

(* The first activation code is redeemed.                                  *)
LEMMA FirstGrant ==
  ASSUME Base, Base', NEW c \in Clients, CInv(c), \A d \in Clients : issued[d] = 0,
         RegisteredOnce(c)', c \notin overlap', NEW r \in Slots, Serve(r),
         UNCHANGED deviceVars
  PROVE  CInv(c)'
<1> USE DEF Base
<1>1. /\ MK' = MK /\ UNCHANGED <<disk, service, setup, loop>>
      /\ Untouched /\ (Untouched' <=> Untouched)
  BY DEF CInv, FirstInv, Untouched, MK, deviceVars
<1>2. /\ disk' = Blank /\ ~Blank.confirm /\ ~service' /\ loop' = LoopOff
      /\ loop'.pc = "off" /\ ~loop'.mem.confirm /\ MK' = {}
      /\ setup'.pc \in {"off", "failed", "register", "wait"}
  BY <1>1, Blanks DEF Untouched
<1>3. \A q \in Slots : ~Beat(q) /\ ~Granted(q)
  <2> SUFFICES ASSUME NEW q \in Slots, Beat(q) \/ Granted(q) PROVE FALSE
    OBVIOUS
  <2>1. req[q].client \in Clients
    BY DEF IInv, TypeOK, RequestsOK, Beat, Granted, At
  <2>2. issued[req[q].client] > 0
    BY DEF Ground, CallInv
  <2> QED BY <2>1, <2>2
<1>4. \A q \in Slots : ~Beat(q)' /\ ~Confirming(q)' /\ (Granted(q)' => q = r)
  BY <1>3, ServedCalls DEF Confirming
<1>5. FirstInv'
  BY <1>1, <1>2, <1>4 DEF FirstInv, Installing
<1>6. ASSUME Granted(r)'
      PROVE  \/ active'[c] \cap acked' = {} \/ active'[c] = {req'[r].key}
             \/ (req'[r].key = NoKey /\ faults' > 0)
  <2> DEFINE d == req[r].client
  <2>1. PICK ok \in BOOLEAN, k \in Keys \cup {NoKey} :
          Redeems(r, ok, k) /\ issued' = [issued EXCEPT ![d] = @ + 1]
    BY <1>3, <1>6, ServedCalls
  <2>2. d \in Clients /\ issued \in [Clients -> Nat] /\ TypeOK
    BY <2>1 DEF Redeems, At, IInv, TypeOK, RequestsOK
  <2>3. d = c
    BY <2>1, <2>2 DEF RegisteredOnce
  <2>4. StepAgent(r)
    BY <2>1, <2>2, AdminAnswers, Handlers DEF Serve, Redeems, At, AdminOps
  <2>5. UNCHANGED <<active, acked>>
    BY <2>1, <2>4, AgentKeys DEF ConfirmsKeys, Redeems, At
  <2>6. req'[r].key = k /\ k \in ReadKey(c, ok) /\ Got(ok)
    BY <2>1, <2>3 DEF Redeems
  <2>7. \A j \in active'[c] : \A l \in active'[c] : j = l
    BY <2>5 DEF IInv, SerialInv
  <2>8. CASE ok
    BY <2>5, <2>6, <2>7, <2>8 DEF ReadKey, SomeKey
  <2>9. CASE ~ok
    BY <2>2, <2>6, <2>9 DEF ReadKey, Got, Fault, TypeOK
  <2> QED BY <2>8, <2>9
<1>7. InstallInv(c)'
  <2>1. \A q \in Slots : Granted(q)' => Fits(c, req[q].key)'
    BY <1>4, <1>6 DEF Fits
  <2> QED BY <1>2, <2>1 DEF InstallInv
<1>8. PushInv(c)'
  BY <1>2, <1>4 DEF PushInv
<1>9. SoberInv(c)'
  BY <1>2, <1>4 DEF SoberInv, Told
<1> QED BY <1>5, <1>7, <1>8, <1>9 DEF CInv

(* What has disturbed a client stays in the histories.                     *)
LEMMA Grows ==
  ASSUME Base, MotechNext
  PROVE  /\ overlap \subseteq overlap' /\ early \subseteq early'
         /\ UNCHANGED issued \/ \E r \in Slots :
              /\ Serve(r) /\ req[r].client \in Clients
              /\ issued' = [issued EXCEPT ![req[r].client] = @ + 1]
<1> USE DEF Base, dbVars, keyVars, sideVars
<1>1. early \subseteq early'
  BY DEF MotechNext, Track
<1>2. ASSUME NEW r \in Slots, Serve(r)
      PROVE  /\ overlap \subseteq overlap' /\ req[r].client \in Clients
             /\ UNCHANGED issued \/ issued' = [issued EXCEPT ![req[r].client] = @ + 1]
  <2>1. TypeOK /\ req[r].client \in Clients
    BY <1>2, ServedCalls DEF Keeps, At, IInv, TypeOK, RequestsOK
  <2> QED BY <1>2, <2>1, AgentKeys, AdminKeys DEF Serve
<1>3. CASE Outside
  <2>1. ASSUME NEW r \in Slots, NEW c \in Clients, Opens(r, c)
        PROVE  UNCHANGED <<overlap, issued>>
    BY <2>1 DEF Opens, Start, StartCreateClient, StartRotateKey, StartDisableClient,
       StartDeleteClient, StartConnection, StartUpdateClient, StartPrivateKey,
       StartRegister, StartHeartbeats, StartHeartbeat
  <2> QED BY <1>1, <1>3, <2>1 DEF Outside, Receive, World, TokenExpires, PeerJoins,
             ServerCrash
<1> QED BY <1>1, <1>2, <1>3, MotechLifts

LEMMA StaysUndisturbed ==
  ASSUME Base, MotechNext, NEW c \in Clients, Undisturbed(c)'
  PROVE  /\ Undisturbed(c) /\ c \notin early' \cup overlap'
         /\ \/ UNCHANGED issued
            \/ \A d \in Clients : issued[d] = 0
<1>1. issued \in [Clients -> Nat]
  BY DEF Base, IInv, TypeOK
<1>2. c \notin early' \cup overlap' /\ c \notin early \cup overlap
  BY Grows DEF Undisturbed
<1>3. \A d \in Clients : issued'[d] <= IF d = c THEN 1 ELSE 0
  BY DEF Undisturbed, RegisteredOnce
<1>4. CASE UNCHANGED issued
  BY <1>2, <1>4 DEF Undisturbed, RegisteredOnce
<1>5. ASSUME NEW e \in Clients, issued' = [issued EXCEPT ![e] = @ + 1]
      PROVE  (\A d \in Clients : issued[d] = 0) /\ RegisteredOnce(c)
  <2>1. e = c /\ issued[c] = 0
    BY <1>1, <1>3, <1>5
  <2>2. \A d \in Clients : issued[d] = 0
    BY <1>1, <1>3, <1>5, <2>1
  <2> QED BY <2>2 DEF RegisteredOnce
<1> QED BY <1>2, <1>4, <1>5, Grows DEF Undisturbed

LEMMA HandshakeStep ==
  ASSUME Base, HandshakeInv, MotechNext
  PROVE  HandshakeInv'
<1> SUFFICES ASSUME NEW c \in Clients, Undisturbed(c)' PROVE CInv(c)'
  BY DEF HandshakeInv, CInv
<1>1. Undisturbed(c) /\ c \notin early' \cup overlap'
  BY StaysUndisturbed
<1>2. CInv(c) /\ Base' /\ RegisteredOnce(c) /\ RegisteredOnce(c)'
  BY <1>1, BaseStep DEF HandshakeInv, CInv, Undisturbed
<1>3. ASSUME NEW r \in Slots, Serve(r), UNCHANGED deviceVars PROVE CInv(c)'
  <2>1. CASE \A d \in Clients : issued[d] = 0
    BY <1>1, <1>2, <1>3, <2>1, FirstGrant
  <2>2. CASE \E d \in Clients : issued[d] # 0
    <3>1. UNCHANGED issued
      BY <2>2, StaysUndisturbed
    <3>2. issued \in [Clients -> Nat]
      BY DEF Base, IInv, TypeOK
    <3>3. issued[c] > 0
      BY <1>2, <2>2, <3>2 DEF RegisteredOnce
    <3>4. c \notin overlap /\ Track
      BY <1>1 DEF Undisturbed, MotechNext
    <3>5. Flow(c) /\ Turns(c)
      BY <1>1, <1>2, <1>3, <3>1, <3>3, <3>4, AnswersFlow, KeysTurn
    <3> QED BY <1>2, <1>3, <3>1, <3>3, <3>4, <3>5, ServeKeepsInv
  <2> QED BY <2>1, <2>2
<1>4. ASSUME NEW r \in Slots, BackendStep(r) PROVE CInv(c)'
  BY <1>2, <1>3, <1>4, CallsInv DEF BackendStep
<1>5. ASSUME NEW r \in Slots, AgentStep(r) PROVE CInv(c)'
  BY <1>2, <1>5, RegisterInv, LoopAnswerInv, BeatInv, CallsInv DEF AgentStep
<1>6. CASE SetupStep \/ \E d \in Clients : StartSetup(d)
  BY <1>2, <1>6, SetupStepInv
<1>7. CASE LoopStep \/ LoopStarts
  BY <1>2, <1>7, LoopStepInv
<1>8. CASE Reboot
  BY <1>2, <1>8, RebootInv
<1>9. CASE CallLost \/ ServerRestarts \/ \E d \in Clients : WorldStep(d)
  BY <1>2, <1>9, CallsInv
<1> QED BY <1>4, <1>5, <1>6, <1>7, <1>8, <1>9 DEF MotechNext

LEMMA HandshakeStutter ==
  ASSUME HandshakeInv, UNCHANGED motechVars
  PROVE  HandshakeInv'
BY DEF HandshakeInv, motechVars, vars, dbVars, keyVars, sideVars, deviceVars, Undisturbed,
       RegisteredOnce, FirstInv, InstallInv, PushInv, SoberInv, Untouched, Installing,
       MK, InSync, Fits, Beat, Granted, Confirming, At, Remembered, Told, NothingPending

LEMMA HandshakeInit == MotechInit => HandshakeInv
<1> SUFFICES ASSUME MotechInit, NEW c \in Clients PROVE CInv(c)
  BY DEF HandshakeInv, CInv
<1>1. /\ disk = Blank /\ keyfile = OthersLines /\ service = FALSE
      /\ setup = NoSetup /\ loop = LoopOff
      /\ \A r \in Slots : req[r].pc = "idle"
  BY DEF MotechInit, DeviceInit, Init, Idle
<1>2. /\ \A r \in Slots : ~Beat(r) /\ ~Granted(r) /\ ~Confirming(r)
      /\ MK = {} /\ setup.pc = "off" /\ loop.pc = "off" /\ ~loop.mem.confirm
      /\ ~disk.confirm
  BY <1>1, Blanks, NoKeys DEF Beat, Granted, Confirming, At, MK
<1>3. FirstInv
  BY <1>1, <1>2 DEF FirstInv, Untouched, Installing
<1>4. InstallInv(c) /\ PushInv(c) /\ SoberInv(c)
  BY <1>1, <1>2 DEF InstallInv, PushInv, SoberInv, Told
<1> QED BY <1>3, <1>4 DEF CInv

(* The handshake's invariant: who knows of the client's key, and who has   *)
(* it, at every step of rotation, heartbeat, installation and confirmation. *)
THEOREM HandshakeInductive == MotechSpec => [](Base /\ HandshakeInv)
<1>1. (Base /\ HandshakeInv) /\ [MotechNext]_motechVars => (Base /\ HandshakeInv)'
  BY BaseStep, BaseStutter, HandshakeStep, HandshakeStutter
<1>2. MotechInit => Base /\ HandshakeInv
  BY BaseInit, HandshakeInit
<1> QED BY <1>1, <1>2, PTL DEF MotechSpec

(* Whatever the order of rotations, heartbeats, lost answers, failed       *)
(* writes, reboots and server restarts: the backend takes a key for        *)
(* installed (rotated_at IS NULL, AgentHeartbeat with rotated_ok) only     *)
(* when the machine has it in its key file.                                *)
THEOREM ConfirmationIsTrue == MotechSpec => []ConfirmedKeyIsInstalled
<1>1. Base /\ HandshakeInv => ConfirmedKeyIsInstalled
  <2> SUFFICES ASSUME Base, HandshakeInv, NEW c \in Clients, Undisturbed(c),
                      Installed(c), ~(faults > 0 /\ MotechKeys(keyfile) = {})
               PROVE  active[c] \cap acked \subseteq MotechKeys(keyfile)
    BY DEF ConfirmedKeyIsInstalled
  <2>1. active[c] \cap acked = {} \/ InSync(c)
    BY DEF HandshakeInv, InstallInv, Installed
  <2> QED BY <2>1 DEF InSync, MK
<1> QED BY <1>1, HandshakeInductive, PTL

(* The keys that were rotated away open no door once the machine has       *)
(* confirmed the client's key.                                             *)
THEOREM RevocationIsTrue == MotechSpec => []OldKeysAreRevoked
<1>1. Base /\ HandshakeInv => OldKeysAreRevoked
  <2> SUFFICES ASSUME Base, HandshakeInv, NEW c \in Clients, Undisturbed(c),
                      Installed(c), Live(c), active[c] \subseteq acked
               PROVE  MotechKeys(keyfile) \subseteq active[c]
    BY DEF OldKeysAreRevoked
  <2>1. active[c] \cap acked = {} \/ InSync(c)
    BY DEF HandshakeInv, InstallInv, Installed
  <2>2. active[c] # {}
    BY DEF Base, IInv, RowInv, ClientIsComplete
  <2> QED BY <2>1, <2>2 DEF InSync, MK
<1> QED BY <1>1, HandshakeInductive, PTL
=============================================================================
