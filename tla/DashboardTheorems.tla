------------------------- MODULE DashboardTheorems -------------------------
(***************************************************************************)
(* What is behind the pages of the dashboard, proved for every value of    *)
(* the constants: UpdateMe answers the truth and the default password      *)
(* stays gone; what ListClients shows of a machine is founded; the         *)
(* activity log explains what the rows tell.                               *)
(***************************************************************************)
EXTENDS Dashboard, RequestTheorems, SequenceTheorems

---------------------------------------------------------------------------
(* The accounts.                                                           *)

(* What a request in flight knows of its row: nothing is written yet, then *)
(* the e-mail is, then the answer says what was.                           *)
RequestOK(q, rows) ==
  /\ q.pc \in {"me_unique", "me_email"} => q.form.email \in Emails
  /\ q.alone =>
       /\ q.pc \in {"me_unique", "me_email"} => rows[q.id] = q.seen
       /\ q.pc = "me_password" =>
            rows[q.id] = [email |-> Applied(q.seen, q.form).email, pw |-> q.seen.pw]
       /\ q.pc = "done" =>
            /\ q.code = 200 => rows[q.id] = Applied(q.seen, q.form)
            /\ q.code \in {401, 409} => rows[q.id] = q.seen

(* seedAdmin runs before the first request and inserts into an empty table. *)
AccountsInv ==
  /\ AccountsTypeOK
  /\ boot = "insert" => admins = <<>>
  /\ boot # "serving" => \A t \in Tabs : tab[t].pc = "idle"
  /\ \A t \in Tabs : session[t] \in Ids \cup {0}
  /\ \A t \in Tabs : tab[t].pc # "idle" => tab[t].id \in Ids
  /\ \A t \in Tabs : RequestOK(tab[t], admins)

LEMMA NoRequestOK ==
  /\ NoRequest \in Bodies /\ NoRequest.pc = "idle" /\ NoRequest.id = 0
  /\ \A rows : RequestOK(NoRequest, rows)
<1>1. /\ NoForm \in Forms /\ SeedRow \in Accts
      /\ "idle" \in MePCs /\ 0 \in MeCodes
  BY AccountsAssumption DEF NoForm, Forms, SeedRow, Accts, MePCs, MeCodes
<1> QED BY <1>1 DEF NoRequest, Bodies, RequestOK

LEMMA InitOK == AccountsInit => AccountsInv
<1> SUFFICES ASSUME AccountsInit PROVE AccountsInv
  OBVIOUS
<1>1. AccountsTypeOK
  BY NoRequestOK, EmptySeq DEF AccountsInit, AccountsTypeOK
<1> QED BY <1>1, NoRequestOK DEF AccountsInit, AccountsInv

(* A request that another one crosses keeps all but alone.                 *)
LEMMA CrossedOne ==
  ASSUME NEW p \in Bodies, NEW s, s = [p EXCEPT !.alone = FALSE]
  PROVE  /\ s \in Bodies /\ s.alone = FALSE
         /\ s.pc = p.pc /\ s.id = p.id /\ s.form = p.form
BY DEF Bodies

(* A step of one tab that writes no row.                                   *)
LEMMA OneTab ==
  ASSUME AccountsInv, NEW t \in Tabs, NEW q \in Bodies,
         tab' = [tab EXCEPT ![t] = q], UNCHANGED <<admins, boot>>,
         boot = "serving",
         session' \in [Tabs -> Nat], \A u \in Tabs : session'[u] \in Ids \cup {0},
         errors' \in Nat, q.pc # "idle" => q.id \in Ids, RequestOK(q, admins)
  PROVE  AccountsInv'
<1>1. tab' \in [Tabs -> Bodies] /\ \A u \in Tabs : tab'[u] = IF u = t THEN q ELSE tab[u]
  BY DEF AccountsInv, AccountsTypeOK
<1>2. AccountsTypeOK'
  BY <1>1 DEF AccountsInv, AccountsTypeOK
<1>3. \A u \in Tabs : RequestOK(tab'[u], admins')
  BY <1>1 DEF AccountsInv
<1>4. Ids' = Ids
  BY DEF Ids
<1> QED BY <1>1, <1>2, <1>3, <1>4 DEF AccountsInv

(* One that writes the row of its tab.                                     *)
LEMMA RowWrite ==
  ASSUME AccountsInv, NEW t \in Tabs, tab[t].pc # "idle",
         NEW row \in Accts, NEW q \in Bodies, q.id = tab[t].id, q.pc # "idle",
         admins' = [admins EXCEPT ![tab[t].id] = row],
         tab' = [Crossed(t) EXCEPT ![t] = q], UNCHANGED boot,
         session' \in [Tabs -> Nat], \A u \in Tabs : session'[u] \in Ids \cup {0},
         errors' \in Nat, admins'[q.id] = row => RequestOK(q, admins')
  PROVE  AccountsInv'
<1> DEFINE i == tab[t].id
<1>1. i \in Ids /\ admins \in Seq(Accts) /\ Ids = 1..Len(admins)
  BY LenProperties DEF AccountsInv, AccountsTypeOK, Ids
<1>2. /\ admins' \in Seq(Accts) /\ Len(admins') = Len(admins)
      /\ \A j \in Ids : admins'[j] = IF j = i THEN row ELSE admins[j]
  BY <1>1, ExceptSeq
<1>3. Ids' = Ids
  BY <1>1, <1>2, LenProperties DEF Ids
<1>4. \A u \in Tabs :
        /\ u # t /\ tab[u].id = i => tab'[u] = [tab[u] EXCEPT !.alone = FALSE]
        /\ u # t /\ tab[u].id # i => tab'[u] = tab[u]
        /\ u = t => tab'[u] = q
  BY DEF AccountsInv, AccountsTypeOK, Crossed
<1>5. ASSUME NEW u \in Tabs, u # t, tab[u].id = i
      PROVE  /\ tab'[u] \in Bodies /\ tab'[u].alone = FALSE
             /\ tab'[u].pc = tab[u].pc /\ tab'[u].id = tab[u].id
             /\ tab'[u].form = tab[u].form
  <2>1. tab[u] \in Bodies /\ tab'[u] = [tab[u] EXCEPT !.alone = FALSE]
    BY <1>4, <1>5 DEF AccountsInv, AccountsTypeOK
  <2> QED BY <2>1, CrossedOne
<1>6. tab' \in [Tabs -> Bodies]
  BY <1>4, <1>5 DEF AccountsInv, AccountsTypeOK, Crossed
<1>7. ASSUME NEW u \in Tabs
      PROVE  tab'[u].pc # "idle" => tab'[u].id \in Ids
  <2>1. tab[u].pc # "idle" => tab[u].id \in Ids
    BY DEF AccountsInv
  <2> QED BY <1>1, <1>4, <1>5, <2>1
<1>8. ASSUME NEW u \in Tabs
      PROVE  RequestOK(tab'[u], admins')
  <2>1. CASE u = t
    BY <1>1, <1>2, <1>4, <2>1
  <2>2. CASE u # t /\ tab[u].id = i
    <3>1. RequestOK(tab[u], admins)
      BY DEF AccountsInv
    <3>2. /\ tab'[u].alone = FALSE /\ tab'[u].pc = tab[u].pc
          /\ tab'[u].form = tab[u].form
      BY <1>5, <2>2
    <3> QED BY <3>1, <3>2 DEF RequestOK
  <2>3. CASE u # t /\ tab[u].id # i
    <3>1. RequestOK(tab[u], admins) /\ tab'[u] = tab[u]
      BY <1>4, <2>3 DEF AccountsInv
    <3>2. CASE tab[u].pc = "idle"
      BY <3>1, <3>2 DEF RequestOK
    <3>3. CASE tab[u].pc # "idle"
      <4>1. admins'[tab[u].id] = admins[tab[u].id]
        BY <1>2, <2>3, <3>3 DEF AccountsInv
      <4> QED BY <3>1, <4>1 DEF RequestOK
    <3> QED BY <3>2, <3>3
  <2> QED BY <2>1, <2>2, <2>3
<1>9. AccountsTypeOK' /\ boot = "serving"
  BY <1>2, <1>6 DEF AccountsInv, AccountsTypeOK
<1> QED BY <1>3, <1>7, <1>8, <1>9 DEF AccountsInv

---------------------------------------------------------------------------
LEMMA SeedOK == AccountsInv /\ (SeedCount \/ SeedInsert \/ Restart) => AccountsInv'
<1> SUFFICES ASSUME AccountsInv, SeedCount \/ SeedInsert \/ Restart
             PROVE  AccountsInv'
  OBVIOUS
<1>1. CASE SeedCount
  BY <1>1, AccountsAssumption
     DEF SeedCount, Error, NoError, AccountsInv, AccountsTypeOK, Ids
<1>2. CASE SeedInsert
  <2>1. admins = <<>> /\ Ids = {} /\ \A t \in Tabs : tab[t].pc = "idle"
    BY <1>2 DEF SeedInsert, AccountsInv, Ids
  <2>2. admins' \in Seq(Accts)
    <3>1. SeedRow \in Accts /\ admins \in Seq(Accts)
      BY AccountsAssumption DEF SeedRow, Accts, AccountsInv, AccountsTypeOK
    <3>2. Append(admins, SeedRow) \in Seq(Accts)
      BY <3>1, AppendProperties
    <3> QED BY <1>2, <3>1, <3>2 DEF SeedInsert
  <2>3. AccountsTypeOK'
    BY <1>2, <2>2 DEF SeedInsert, Error, NoError, AccountsInv, AccountsTypeOK
  <2>4. \A t \in Tabs : session'[t] = 0 /\ RequestOK(tab'[t], admins')
    BY <1>2, <2>1 DEF SeedInsert, AccountsInv, RequestOK
  <2> QED BY <1>2, <2>1, <2>3, <2>4 DEF SeedInsert, AccountsInv
<1>3. CASE Restart
  <2>1. AccountsTypeOK'
    BY <1>3, NoRequestOK DEF Restart, AccountsInv, AccountsTypeOK
  <2> QED BY <1>3, <2>1, NoRequestOK DEF Restart, AccountsInv, Ids
<1> QED BY <1>1, <1>2, <1>3

LEMMA SessionOK ==
  ASSUME AccountsInv, NEW t \in Tabs,
         \/ TokenEnds(t)
         \/ \E email \in Emails, pw \in Passwords : Login(t, email, pw)
  PROVE  AccountsInv'
<1>1. /\ UNCHANGED <<admins, boot, tab, errors>>
      /\ \E i \in Ids \cup {0} : session' = [session EXCEPT ![t] = i]
  BY DEF TokenEnds, Login
<1>2. Ids \subseteq Nat
  BY LenProperties DEF AccountsInv, AccountsTypeOK, Ids
<1>3. Ids' = Ids /\ session' \in [Tabs -> Nat]
      /\ \A u \in Tabs : session'[u] \in Ids \cup {0}
  BY <1>1, <1>2 DEF AccountsInv, AccountsTypeOK, Ids
<1>4. AccountsTypeOK'
  BY <1>1, <1>3 DEF AccountsInv, AccountsTypeOK
<1> QED BY <1>1, <1>3, <1>4 DEF AccountsInv

LEMMA StartOK ==
  ASSUME AccountsInv, NEW t \in Tabs, NEW form \in Forms, StartUpdateMe(t, form)
  PROVE  AccountsInv'
<1> DEFINE q == [NoRequest EXCEPT !.pc = "me_read", !.id = session[t], !.form = form]
<1>1. /\ q \in Bodies /\ q.pc = "me_read" /\ q.id = session[t]
  <2>1. session[t] \in Nat /\ "me_read" \in MePCs
    BY DEF AccountsInv, AccountsTypeOK, MePCs
  <2> QED BY <2>1, NoRequestOK DEF Bodies
<1>2. session[t] \in Ids /\ session \in [Tabs -> Nat] /\ errors \in Nat
  BY DEF StartUpdateMe, AccountsInv, AccountsTypeOK
<1>3. RequestOK(q, admins)
  BY <1>1 DEF RequestOK
<1>4. tab' = [tab EXCEPT ![t] = q] /\ boot = "serving"
      /\ UNCHANGED <<admins, boot, session, errors>>
  BY DEF StartUpdateMe
<1> HIDE DEF q
<1> QED BY <1>1, <1>2, <1>3, <1>4, OneTab DEF AccountsInv

---------------------------------------------------------------------------
(* The steps of UpdateMe.                                                  *)

(* A request that goes on, and one that answers, keeps its id, form and    *)
(* the row it read.                                                        *)
Moved(q, p) == [q EXCEPT !.pc = p]
Replied(q, code) == [q EXCEPT !.pc = "done", !.code = code]
SameBody(s, q) ==
  /\ s \in Bodies /\ s.id = q.id /\ s.form = q.form
  /\ s.seen = q.seen /\ s.alone = q.alone

LEMMA MovedOne ==
  ASSUME NEW q \in Bodies, NEW p \in MePCs
  PROVE  SameBody(Moved(q, p), q) /\ Moved(q, p).pc = p
BY DEF Bodies, SameBody, Moved

LEMMA AnsweredOne ==
  ASSUME NEW q \in Bodies, NEW code \in MeCodes
  PROVE  /\ SameBody(Replied(q, code), q)
         /\ Replied(q, code).pc = "done" /\ Replied(q, code).code = code
<1>1. "done" \in MePCs
  BY DEF MePCs
<1> QED BY <1>1 DEF Bodies, SameBody, Replied

LEMMA Answer ==
  ASSUME NEW t \in Tabs, NEW code, Answers(t, code)
  PROVE  tab' = [tab EXCEPT ![t] = Replied(tab[t], code)]
BY DEF Answers, Replied

LEMMA Serving ==
  ASSUME AccountsInv, NEW t \in Tabs, tab[t].pc # "idle"
  PROVE  /\ boot = "serving" /\ tab[t] \in Bodies /\ tab[t].id \in Ids
         /\ RequestOK(tab[t], admins) /\ admins[tab[t].id] \in Accts
         /\ session \in [Tabs -> Nat] /\ errors \in Nat /\ tab[t].id \in Nat
         /\ \A u \in Tabs : session[u] \in Ids \cup {0}
<1>1. admins \in Seq(Accts) /\ tab[t].id \in Ids
  BY DEF AccountsInv, AccountsTypeOK
<1>2. admins[tab[t].id] \in Accts /\ tab[t].id \in Nat
  BY <1>1, LenProperties DEF Ids
<1> QED BY <1>1, <1>2 DEF AccountsInv, AccountsTypeOK

LEMMA ErrorOK ==
  ASSUME errors \in Nat, Error \/ NoError
  PROVE  errors' \in Nat
BY DEF Error, NoError

LEMMA ReadOK ==
  ASSUME AccountsInv, NEW t \in Tabs, ReadMe(t)
  PROVE  AccountsInv'
<1> DEFINE q == tab[t]
<1>1. q.pc # "idle" /\ UNCHANGED <<admins, boot, session>> /\ errors' \in Nat
  BY Serving, ErrorOK DEF ReadMe
<1>2. /\ boot = "serving" /\ q \in Bodies /\ q.id \in Ids /\ admins[q.id] \in Accts
      /\ session \in [Tabs -> Nat] /\ \A u \in Tabs : session[u] \in Ids \cup {0}
  BY <1>1, Serving
<1>3. CASE Answers(t, 404)
  <2> DEFINE b == Replied(q, 404)
  <2>1. 404 \in MeCodes /\ tab' = [tab EXCEPT ![t] = b]
    BY <1>3, Answer DEF MeCodes
  <2>2. b \in Bodies /\ b.pc = "done" /\ b.id = q.id /\ b.code = 404
    BY <1>2, <2>1, AnsweredOne DEF SameBody
  <2> HIDE DEF b
  <2>3. RequestOK(b, admins)
    BY <2>2 DEF RequestOK
  <2> QED BY <1>1, <1>2, <2>1, <2>2, <2>3, OneTab
<1>4. CASE ~Answers(t, 404)
  <2> DEFINE s == admins[q.id]
             next == AfterRead(q.form, s)
             code == IF s.pw # q.form.current THEN 401
                     ELSE IF next = "malformed" THEN 400 ELSE 0
             p == IF code # 0 THEN "done" ELSE next
             b == [q EXCEPT !.seen = s, !.alone = TRUE, !.code = code, !.pc = p]
  <2>1. tab' = [tab EXCEPT ![t] = b]
    BY <1>4 DEF ReadMe
  <2>2. q.form \in Forms /\ next \in {"me_password", "malformed", "me_unique"}
    BY <1>2 DEF AfterRead, Bodies
  <2>3. code \in MeCodes /\ code \in {0, 400, 401} /\ p \in MePCs /\ p # "idle"
    BY <2>2 DEF MeCodes, MePCs
  <2>4. /\ p \in {"done", "me_password", "me_unique"}
        /\ p = "me_unique" => q.form.email \in Emails
        /\ p = "me_password" => q.form.email \in {Missing, s.email}
    BY <2>2, AccountsAssumption DEF AfterRead, Forms
  <2> HIDE DEF next, code, p
  <2>5. /\ b \in Bodies /\ b.pc = p /\ b.id = q.id /\ b.form = q.form
        /\ b.seen = s /\ b.code = code
    BY <1>2, <2>3 DEF Bodies
  <2>6. p = "me_password" => s = [email |-> Applied(s, q.form).email, pw |-> s.pw]
    BY <1>2, <2>4 DEF Applied, Accts
  <2> HIDE DEF b
  <2>7. RequestOK(b, admins)
    BY <2>3, <2>4, <2>5, <2>6 DEF RequestOK
  <2> QED BY <1>1, <1>2, <2>1, <2>3, <2>5, <2>7, OneTab
<1> QED BY <1>3, <1>4

LEMMA UniqueOK ==
  ASSUME AccountsInv, NEW t \in Tabs, CheckUnique(t)
  PROVE  AccountsInv'
<1> DEFINE q == tab[t]
<1>1. q.pc = "me_unique" /\ UNCHANGED <<admins, boot, session>> /\ errors' \in Nat
  BY Serving, ErrorOK DEF CheckUnique
<1>2. /\ boot = "serving" /\ q \in Bodies /\ q.id \in Ids /\ RequestOK(q, admins)
      /\ session \in [Tabs -> Nat] /\ \A u \in Tabs : session[u] \in Ids \cup {0}
  BY <1>1, Serving
<1>3. CASE Answers(t, 409)
  <2> DEFINE b == Replied(q, 409)
  <2>1. 409 \in MeCodes /\ tab' = [tab EXCEPT ![t] = b]
    BY <1>3, Answer DEF MeCodes
  <2>2. SameBody(b, q) /\ b.pc = "done" /\ b.code = 409
    BY <1>2, <2>1, AnsweredOne
  <2> HIDE DEF b
  <2>3. RequestOK(b, admins)
    BY <1>1, <1>2, <2>2 DEF RequestOK, SameBody
  <2> QED BY <1>1, <1>2, <2>1, <2>2, <2>3, OneTab DEF SameBody
<1>4. CASE Moves(t, "me_email")
  <2> DEFINE b == Moved(q, "me_email")
  <2>1. "me_email" \in MePCs /\ tab' = [tab EXCEPT ![t] = b]
    BY <1>4 DEF MePCs, Moves, Moved
  <2>2. SameBody(b, q) /\ b.pc = "me_email"
    BY <1>2, <2>1, MovedOne
  <2> HIDE DEF b
  <2>3. RequestOK(b, admins)
    BY <1>1, <1>2, <2>2 DEF RequestOK, SameBody
  <2> QED BY <1>1, <1>2, <2>1, <2>2, <2>3, OneTab DEF SameBody
<1> QED BY <1>3, <1>4 DEF CheckUnique

(* An UPDATE of the e-mail, and one of the password, of the row read.      *)
Half(s, form) == [email |-> Applied(s, form).email, pw |-> s.pw]

LEMMA EmailWritten ==
  ASSUME NEW s \in Accts, NEW form \in Forms, form.email \in Emails
  PROVE  /\ [s EXCEPT !.email = form.email] \in Accts
         /\ [s EXCEPT !.email = form.email] = Half(s, form)
BY AccountsAssumption DEF Accts, Forms, Applied, Half

LEMMA PasswordWritten ==
  ASSUME NEW s \in Accts, NEW form \in Forms, form.pw \in Passwords, NEW row \in Accts
  PROVE  /\ [row EXCEPT !.pw = form.pw] \in Accts
         /\ row = Half(s, form) => [row EXCEPT !.pw = form.pw] = Applied(s, form)
BY AccountsAssumption DEF Accts, Forms, Applied, Half

LEMMA PasswordKept ==
  ASSUME NEW s \in Accts, NEW form \in Forms, form.pw = Missing
  PROVE  Half(s, form) = Applied(s, form)
BY AccountsAssumption DEF Accts, Forms, Applied, Half

LEMMA EmailOK ==
  ASSUME AccountsInv, NEW t \in Tabs, UpdateEmail(t)
  PROVE  AccountsInv'
<1> DEFINE q == tab[t]
<1>1. q.pc = "me_email" /\ UNCHANGED <<boot, session>> /\ errors' \in Nat
  BY Serving, ErrorOK DEF UpdateEmail, NoError
<1>2. /\ boot = "serving" /\ q \in Bodies /\ q.id \in Ids /\ RequestOK(q, admins)
      /\ session \in [Tabs -> Nat] /\ \A u \in Tabs : session[u] \in Ids \cup {0}
      /\ admins[q.id] \in Accts /\ q.form \in Forms /\ q.seen \in Accts
  BY <1>1, Serving DEF Bodies
<1>3. CASE Answers(t, 500) /\ UNCHANGED admins
  <2> DEFINE b == Replied(q, 500)
  <2>1. 500 \in MeCodes /\ tab' = [tab EXCEPT ![t] = b]
    BY <1>2, <1>3, Answer DEF MeCodes
  <2>2. SameBody(b, q) /\ b.pc = "done" /\ b.code = 500
    BY <1>2, <2>1, AnsweredOne
  <2> HIDE DEF b
  <2>3. RequestOK(b, admins)
    BY <2>2 DEF RequestOK
  <2> QED BY <1>1, <1>2, <1>3, <2>1, <2>2, <2>3, OneTab DEF SameBody
<1>4. CASE /\ admins' = [admins EXCEPT ![q.id].email = q.form.email]
           /\ tab' = [Crossed(t) EXCEPT ![t].pc = "me_password"]
  <2> DEFINE b == Moved(q, "me_password")
             row == [admins[q.id] EXCEPT !.email = q.form.email]
  <2>1. "me_password" \in MePCs /\ Crossed(t)[t] = q
    BY DEF MePCs, Crossed
  <2>2. tab' = [Crossed(t) EXCEPT ![t] = b] /\ admins' = [admins EXCEPT ![q.id] = row]
    BY <1>4, <2>1 DEF Moved
  <2>3. SameBody(b, q) /\ b.pc = "me_password"
    BY <1>2, <2>1, MovedOne
  <2>4. q.form.email \in Emails
    BY <1>1, <1>2 DEF RequestOK
  <2>5. /\ row \in Accts
        /\ row = Half(admins[q.id], q.form)
    BY <1>2, <2>4, EmailWritten
  <2>6. q.alone => admins[q.id] = q.seen
    BY <1>1, <1>2 DEF RequestOK
  <2> HIDE DEF b, row
  <2>7. admins'[q.id] = row => RequestOK(b, admins')
    BY <2>3, <2>5, <2>6 DEF RequestOK, SameBody, Half
  <2> QED BY <1>1, <1>2, <2>2, <2>3, <2>5, <2>7, RowWrite DEF SameBody
<1> QED BY <1>3, <1>4 DEF UpdateEmail

LEMMA PasswordOK ==
  ASSUME AccountsInv, NEW t \in Tabs, UpdatePassword(t)
  PROVE  AccountsInv'
<1> DEFINE q == tab[t]
<1>1. q.pc = "me_password" /\ UNCHANGED boot
  BY DEF UpdatePassword
<1>2. /\ boot = "serving" /\ q \in Bodies /\ q.id \in Ids /\ RequestOK(q, admins)
      /\ session \in [Tabs -> Nat] /\ \A u \in Tabs : session[u] \in Ids \cup {0}
      /\ admins[q.id] \in Accts /\ q.form \in Forms /\ q.seen \in Accts /\ q.id \in Nat
  BY <1>1, Serving DEF Bodies
<1>3. errors' \in Nat
  BY <1>1, Serving, ErrorOK DEF UpdatePassword, NoError
<1>4. session' \in [Tabs -> Nat] /\ \A u \in Tabs : session'[u] \in Ids \cup {0}
  <2>1. session' = session \/ session' = [session EXCEPT ![t] = q.id]
    BY DEF UpdatePassword
  <2> QED BY <1>2, <2>1
<1>5. q.alone => admins[q.id] = Half(q.seen, q.form)
  BY <1>1, <1>2 DEF RequestOK, Half
<1>6. ASSUME NEW code \in {200, 400, 500}, Answers(t, code), UNCHANGED admins,
             code = 200 => q.form.pw = Missing
      PROVE  AccountsInv'
  <2> DEFINE b == Replied(q, code)
  <2>1. code \in MeCodes /\ tab' = [tab EXCEPT ![t] = b]
    BY <1>2, <1>6, Answer DEF MeCodes
  <2>2. SameBody(b, q) /\ b.pc = "done" /\ b.code = code
    BY <1>2, <2>1, AnsweredOne
  <2> HIDE DEF b
  <2>3. code = 200 /\ q.alone => admins[q.id] = Applied(q.seen, q.form)
    <3>1. q.form.pw = Missing => Half(q.seen, q.form) = Applied(q.seen, q.form)
      BY <1>2, PasswordKept
    <3> QED BY <1>5, <1>6, <3>1
  <2>4. RequestOK(b, admins)
    BY <2>2, <2>3 DEF RequestOK, SameBody
  <2> QED BY <1>1, <1>2, <1>3, <1>4, <1>6, <2>1, <2>2, <2>4, OneTab DEF SameBody
<1>7. ASSUME q.form.pw \in Passwords,
             admins' = [admins EXCEPT ![q.id].pw = q.form.pw],
             tab' = [Crossed(t) EXCEPT ![t].pc = "done", ![t].code = 200]
      PROVE  AccountsInv'
  <2> DEFINE b == Replied(q, 200)
             row == [admins[q.id] EXCEPT !.pw = q.form.pw]
  <2>1. 200 \in MeCodes /\ Crossed(t)[t] = q
    BY DEF MeCodes, Crossed
  <2>2. tab' = [Crossed(t) EXCEPT ![t] = b] /\ admins' = [admins EXCEPT ![q.id] = row]
    BY <1>7, <2>1 DEF Replied
  <2>3. SameBody(b, q) /\ b.pc = "done" /\ b.code = 200
    BY <1>2, <2>1, AnsweredOne
  <2>4. row \in Accts /\ (q.alone => row = Applied(q.seen, q.form))
    <3>1. /\ row \in Accts
          /\ admins[q.id] = Half(q.seen, q.form) => row = Applied(q.seen, q.form)
      BY <1>2, <1>7, PasswordWritten
    <3> QED BY <1>5, <3>1
  <2> HIDE DEF b, row
  <2>5. admins'[q.id] = row => RequestOK(b, admins')
    BY <2>3, <2>4 DEF RequestOK, SameBody
  <2>6. tab[t].pc # "idle" /\ b \in Bodies /\ b.id = tab[t].id /\ b.pc # "idle"
    BY <1>1, <2>3 DEF SameBody
  <2> QED BY <1>1, <1>2, <1>3, <1>4, <2>2, <2>4, <2>5, <2>6, RowWrite
<1> QED BY <1>6, <1>7 DEF UpdatePassword

LEMMA ReceiveOK ==
  ASSUME AccountsInv, NEW t \in Tabs, ReceiveMe(t)
  PROVE  AccountsInv'
<1>1. tab[t].pc # "idle" /\ tab' = [tab EXCEPT ![t] = NoRequest]
      /\ UNCHANGED <<admins, boot, session, errors>>
  BY DEF ReceiveMe
<1> QED BY <1>1, Serving, NoRequestOK, OneTab

---------------------------------------------------------------------------
LEMMA NextOK == AccountsInv /\ [AccountsNext]_accounts => AccountsInv'
<1> SUFFICES ASSUME AccountsInv, [AccountsNext]_accounts
             PROVE  AccountsInv'
  OBVIOUS
<1>1. CASE UNCHANGED accounts
  BY <1>1 DEF accounts, AccountsInv, AccountsTypeOK, Ids
<1>2. CASE AccountsNext
  BY <1>2, SeedOK, SessionOK, StartOK, ReadOK, UniqueOK, EmailOK, PasswordOK, ReceiveOK
     DEF AccountsNext, ServeMe
<1> QED BY <1>1, <1>2

(* The invariant of the accounts.                                          *)
THEOREM AccountsInvariant == AccountsSpec => []AccountsInv
BY InitOK, NextOK, PTL DEF AccountsSpec

(* What UpdateMe answers is what it did, as AnsweredAsApplied says.        *)
THEOREM AnswersAreTrue == AccountsSpec => []AnsweredAsApplied
<1>1. AccountsInv => AnsweredAsApplied
  BY DEF AccountsInv, RequestOK, AnsweredAsApplied
<1> QED BY <1>1, AccountsInvariant, PTL

(* A step does not bring the retired first password back.                  *)
LEMMA StaysRetired ==
  ASSUME AccountsInv, [AccountsNext]_accounts, Retired(SeedPassword),
         \A t \in Tabs : ~Asks(t, SeedPassword)
  PROVE  Retired(SeedPassword)'
<1>1. CASE UNCHANGED admins
  BY <1>1 DEF Retired, Ids
<1>2. ASSUME NEW t \in Tabs, UpdateEmail(t), ~UNCHANGED admins
      PROVE  Retired(SeedPassword)'
  <2>1. /\ tab[t].id \in Ids /\ admins[tab[t].id] \in Accts
        /\ admins' = [admins EXCEPT ![tab[t].id].email = tab[t].form.email]
    BY <1>2, Serving DEF UpdateEmail
  <2>2. \A i \in Ids : admins[i] \in Accts
    BY LenProperties DEF AccountsInv, AccountsTypeOK, Ids
  <2>3. Ids' = Ids /\ \A i \in Ids : admins'[i].pw = admins[i].pw
    BY <2>1, <2>2 DEF Ids, Accts
  <2> QED BY <2>1, <2>3 DEF Retired, Ids
<1>3. ASSUME NEW t \in Tabs, UpdatePassword(t), ~UNCHANGED admins
      PROVE  Retired(SeedPassword)'
  <2>1. /\ tab[t].id \in Ids /\ tab[t].form.pw # SeedPassword
        /\ admins' = [admins EXCEPT ![tab[t].id].pw = tab[t].form.pw]
    BY <1>3, Serving DEF UpdatePassword, Asks
  <2>2. \A i \in Ids : admins[i] \in Accts
    BY LenProperties DEF AccountsInv, AccountsTypeOK, Ids
  <2>3. Ids' = Ids /\ \A i \in Ids : admins'[i].pw # SeedPassword
    BY <2>1, <2>2 DEF Ids, Accts, Retired
  <2> QED BY <2>1, <2>3 DEF Retired, Ids
<1>4. UNCHANGED admins \/ \E t \in Tabs : UpdateEmail(t) \/ UpdatePassword(t)
  BY DEF AccountsNext, accounts, ServeMe, SeedCount, SeedInsert, Restart, Login,
         TokenEnds, StartUpdateMe, ReadMe, CheckUnique, ReceiveMe, AccountsInv, Retired
<1> QED BY <1>1, <1>2, <1>3, <1>4

(* The first password stays gone, as DefaultPasswordStaysGone says: it is  *)
(* seedAdmin that has to find the table empty, and no e-mail that keeps a  *)
(* second account away.                                                    *)
THEOREM FirstPasswordStaysGone == AccountsSpec => DefaultPasswordStaysGone
<1>1. /\ AccountsInv /\ [AccountsNext]_accounts
      => [Retired(SeedPassword) /\ (\A t \in Tabs : ~Asks(t, SeedPassword))
            => Retired(SeedPassword)']_accounts
  BY StaysRetired
<1> QED BY <1>1, AccountsInvariant, PTL DEF AccountsSpec, DefaultPasswordStaysGone

---------------------------------------------------------------------------
(* Presence.                                                               *)

(* Once a run loop has been heard of, the age of last_seen is made up of   *)
(* the heartbeats missed since it was written; beyond the threshold        *)
(* neither is counted any more.                                            *)
AgeIsMissed ==
  agent = "heard" =>
    IF age < Never THEN age <= Period * missed + elapsed
    ELSE Never <= Period * (missed + 1)

(* A request sees the row as old as it is, or older, and old only by the   *)
(* heartbeats missed before it and by its own waiting.                     *)
ListIsHonest ==
  list.pc # "idle" =>
    /\ age <= list.age
    /\ list.heard => list.age <= Period * (list.missed + 1) + list.waited

ShownIsDerived ==
  list.pc = "done" =>
    /\ list.shown = "online" => list.age <= Threshold
    /\ list.shown = "offline" /\ list.live # "down" =>
         list.status = "online" /\ list.age > Threshold

(* A machine with an agent has been registered.                            *)
AgentIsKnown == agent # "none" => stored # "pending"

PresenceInv ==
  /\ PresenceTypeOK /\ AgentIsKnown
  /\ AgeIsMissed /\ ListIsHonest /\ ShownIsDerived

LEMMA Arithmetic ==
  /\ Never \in Nat /\ Never = Threshold + 1
  /\ \A m \in Nat : Period * m \in Nat /\ Period * (m + 1) = Period * m + Period
  /\ \A n \in 0..Never : Later(n) \in 0..Never /\ n <= Later(n) /\ Later(n) <= n + 1
  /\ \A m, n \in 0..Never : m <= n => Later(m) <= Later(n)
<1>1. Threshold \in Nat /\ Period \in Nat
  BY PresenceAssumption
<1>2. \A m \in Nat : Period * m \in Nat /\ Period * (m + 1) = Period * m + Period
  BY <1>1
<1> QED BY <1>1, <1>2 DEF Never, Later

LEMMA PresenceInitOK == PresenceInit => PresenceInv
<1> SUFFICES ASSUME PresenceInit PROVE PresenceInv
  OBVIOUS
<1>1. NoList \in Lists /\ NoList.pc = "idle"
  BY Arithmetic, PresenceAssumption DEF NoList, Lists
<1>2. ip \in BOOLEAN
  BY DEF PresenceInit
<1>3. Never \in 0..Never /\ 0 \in 0..Period
  BY Arithmetic, PresenceAssumption
<1>4. PresenceTypeOK
  BY <1>1, <1>2, <1>3 DEF PresenceInit, PresenceTypeOK
<1> QED BY <1>1, <1>4
        DEF PresenceInit, PresenceInv, AgentIsKnown, AgeIsMissed, ListIsHonest,
            ShownIsDerived

---------------------------------------------------------------------------
(* The steps of the machine, during which no list moves.                   *)
LEMMA MachineOK ==
  ASSUME PresenceInv,
         \/ AgentJoins \/ AgentStarts \/ BeatIsDue \/ PeerChanges \/ Disable
         \/ \E b \in beats : BeatIsRecorded(b) \/ BeatIsDropped(b)
  PROVE  PresenceInv'
<1> USE Arithmetic, PresenceAssumption DEF PresenceInv
<1>1. UNCHANGED list /\ age' \in {age, 0}
  BY DEF AgentJoins, AgentStarts, BeatIsDue, Heartbeat, PeerChanges, Disable,
         BeatIsRecorded, BeatIsDropped
<1>2. PresenceTypeOK' /\ AgentIsKnown'
  <2>1. CASE AgentJoins
    BY <2>1 DEF AgentJoins, PresenceTypeOK, AgentIsKnown
  <2>2. CASE AgentStarts \/ BeatIsDue
    <3>0. Heartbeat /\ agent # "none" /\ agent' \in {"running", "heard"}
      BY <2>2 DEF AgentStarts, BeatIsDue, Running
    <3>1. ip' \in BOOLEAN
      BY <3>0, Zenon DEF Heartbeat, PresenceTypeOK
    <3>2. 0 \in 0..Lag /\ 0 \in 0..Period /\ missed' \in Nat
      BY <3>0 DEF Heartbeat, PresenceTypeOK
    <3>3. [waited |-> 0, seen |-> stored] \in [waited : 0..Lag, seen : {"online", "disabled"}]
      BY <3>0, <3>2 DEF PresenceTypeOK, AgentIsKnown
    <3>4. beats' \subseteq [waited : 0..Lag, seen : {"online", "disabled"}]
      BY <3>0, <3>3 DEF Heartbeat, PresenceTypeOK
    <3> QED BY <3>0, <3>1, <3>2, <3>4 DEF Heartbeat, PresenceTypeOK, AgentIsKnown
  <2>3. CASE PeerChanges \/ Disable
    BY <2>3 DEF PeerChanges, Disable, PresenceTypeOK, AgentIsKnown
  <2>4. CASE \E b \in beats : BeatIsRecorded(b) \/ BeatIsDropped(b)
    BY <2>4 DEF BeatIsRecorded, BeatIsDropped, PresenceTypeOK, AgentIsKnown
  <2> QED BY <2>1, <2>2, <2>3, <2>4
<1>3. AgeIsMissed'
  <2>1. CASE AgentJoins \/ AgentStarts
    BY <2>1 DEF AgentJoins, AgentStarts, AgeIsMissed
  <2>2. CASE BeatIsDue
    BY <2>2 DEF BeatIsDue, Heartbeat, PresenceTypeOK, AgeIsMissed
  <2>3. CASE PeerChanges \/ Disable
    BY <2>3 DEF PeerChanges, Disable, PresenceTypeOK, AgeIsMissed
  <2>4. CASE \E b \in beats : BeatIsRecorded(b) \/ BeatIsDropped(b)
    BY <2>4 DEF BeatIsRecorded, BeatIsDropped, PresenceTypeOK, AgeIsMissed
  <2> QED BY <2>1, <2>2, <2>3, <2>4
<1>4. ListIsHonest' /\ ShownIsDerived'
  BY <1>1 DEF ListIsHonest, ShownIsDerived, PresenceTypeOK, Lists
<1> QED BY <1>2, <1>3, <1>4

LEMMA TickOK == PresenceInv /\ Tick => PresenceInv'
<1> SUFFICES ASSUME PresenceInv, Tick PROVE PresenceInv'
  OBVIOUS
<1> USE Arithmetic, PresenceAssumption DEF PresenceInv
<1>1. age' = Later(age) /\ age \in 0..Never /\ age' \in 0..Never
  BY DEF Tick, PresenceTypeOK
<1>2. list' \in Lists /\ (list.pc # "idle" =>
        /\ list'.age = Later(list.age) /\ list'.waited = list.waited + 1
        /\ list'.heard = list.heard /\ list'.missed = list.missed
        /\ list'.pc = "netbird")
      /\ (list.pc = "idle" => list' = list)
  <2>1. CASE list.pc = "idle"
    BY <2>1 DEF Tick, PresenceTypeOK
  <2>2. CASE list.pc = "netbird"
    <3>1. list \in Lists /\ list.waited + 1 \in 0..Timeout /\ Later(list.age) \in 0..Never
      BY <2>2 DEF Tick, PresenceTypeOK, Lists
    <3>2. list' = [list EXCEPT !.age = Later(list.age), !.waited = list.waited + 1]
      BY <2>2 DEF Tick
    <3> QED BY <2>2, <3>1, <3>2 DEF Lists
  <2> QED BY <2>1, <2>2 DEF Tick
<1>3. beats' \subseteq [waited : 0..Lag, seen : {"online", "disabled"}]
  <2> SUFFICES ASSUME NEW b \in beats
               PROVE  [b EXCEPT !.waited = b.waited + 1]
                        \in [waited : 0..Lag, seen : {"online", "disabled"}]
    BY DEF Tick
  <2>1. b \in [waited : 0..Lag, seen : {"online", "disabled"}] /\ b.waited < Lag
    BY DEF Tick, PresenceTypeOK
  <2>2. b.waited + 1 \in 0..Lag
    BY <2>1
  <2> QED BY <2>1, <2>2
<1>4. PresenceTypeOK' /\ AgentIsKnown'
  <2>1. elapsed' \in 0..Period
    BY DEF Tick, PresenceTypeOK
  <2> QED BY <1>1, <1>2, <1>3, <2>1 DEF Tick, PresenceTypeOK, AgentIsKnown
<1>5. AgeIsMissed'
  BY <1>1 DEF Tick, Running, PresenceTypeOK, AgeIsMissed, Later
<1>6. ListIsHonest' /\ ShownIsDerived'
  BY <1>1, <1>2 DEF ListIsHonest, ShownIsDerived, PresenceTypeOK, Lists
<1> QED BY <1>4, <1>5, <1>6

(* The steps of a request, during which the machine does not move.         *)
LEMMA ListOK ==
  ASSUME PresenceInv,
         GetClient \/ ListClients \/ PeerLiveStatus \/ Show \/ ListReceived
  PROVE  PresenceInv'
<1> USE Arithmetic, PresenceAssumption DEF PresenceInv
<1>1. UNCHANGED <<agent, stored, age, elapsed, missed, beats, ip, peer>>
  BY DEF GetClient, ListClients, PeerLiveStatus, Show, ListReceived
<1>2. NoList \in Lists /\ NoList.pc = "idle" /\ NoList.waited = 0
  BY DEF NoList, Lists
<1>3. (agent = "heard") => age <= Period * (missed + 1)
  BY DEF AgeIsMissed, PresenceTypeOK
<1>4. \A st \in {"pending", "online", "disabled"}, n \in 0..Never :
        LET s == effectiveStatus(st, n) IN
        /\ s \in {"pending", "online", "offline", "disabled"}
        /\ s = "online" => n <= Threshold
        /\ s = "offline" => st = "online" /\ n > Threshold
  BY DEF effectiveStatus
<1>5. list' \in Lists /\ ListIsHonest' /\ ShownIsDerived'
  <2>1. CASE GetClient
    <3> DEFINE s == effectiveStatus(stored, age)
               h == agent = "heard"
               l == [NoList EXCEPT !.pc = "done", !.status = stored, !.age = age,
                       !.missed = missed, !.heard = h, !.shown = s]
    <3>0. h \in BOOLEAN /\ (h => age <= Period * (missed + 1))
      BY <1>3
    <3>1. s \in {"none", "pending", "online", "offline", "disabled"}
      BY <1>4 DEF PresenceTypeOK
    <3>2. s = "online" => age <= Threshold
      BY <1>4 DEF PresenceTypeOK
    <3>3. s = "offline" => stored = "online" /\ age > Threshold
      BY <1>4 DEF PresenceTypeOK
    <3>4. list' = l
      BY <2>1 DEF GetClient
    <3> HIDE DEF s, h
    <3>5. /\ l \in Lists /\ l.pc = "done" /\ l.status = stored /\ l.age = age
          /\ l.missed = missed /\ l.waited = 0 /\ l.shown = s
          /\ l.heard = h
      BY <1>2, <3>0, <3>1 DEF PresenceTypeOK, Lists
    <3> HIDE DEF l
    <3> QED BY <1>1, <3>0, <3>2, <3>3, <3>4, <3>5
            DEF PresenceTypeOK, ListIsHonest, ShownIsDerived
  <2>2. CASE ListClients
    <3> DEFINE h == agent = "heard"
               l == [NoList EXCEPT !.pc = "netbird", !.status = stored, !.age = age,
                       !.missed = missed, !.heard = h]
    <3>0. h \in BOOLEAN /\ (h => age <= Period * (missed + 1))
      BY <1>3
    <3>1. list' = l
      BY <2>2 DEF ListClients
    <3> HIDE DEF h
    <3>2. /\ l \in Lists /\ l.pc = "netbird" /\ l.status = stored /\ l.age = age
          /\ l.missed = missed /\ l.waited = 0 /\ l.heard = h
      BY <1>2, <3>0 DEF PresenceTypeOK, Lists
    <3> HIDE DEF l
    <3> QED BY <1>1, <3>0, <3>1, <3>2 DEF PresenceTypeOK, ListIsHonest, ShownIsDerived
  <2>3. CASE PeerLiveStatus
    <3>1. PICK live \in {"empty", peer} :
            list' = [list EXCEPT !.live = live, !.pc = "links"]
      BY <2>3 DEF PeerLiveStatus
    <3>2. list \in Lists /\ live \in {"empty", "gone", "up", "down"} /\ list.pc = "netbird"
      BY <2>3 DEF PeerLiveStatus, PresenceTypeOK
    <3>3. /\ list' \in Lists /\ list'.pc = "links" /\ list'.status = list.status
          /\ list'.age = list.age /\ list'.missed = list.missed
          /\ list'.waited = list.waited /\ list'.heard = list.heard
      BY <3>1, <3>2 DEF Lists
    <3> QED BY <1>1, <3>2, <3>3 DEF ListIsHonest, ShownIsDerived
  <2>4. CASE Show
    <3>1. PICK read \in BOOLEAN :
            list' = [list EXCEPT !.pc = "done",
                       !.shown = Refined(effectiveStatus(list.status, list.age),
                                         read /\ ip, list.live)]
      BY <2>4 DEF Show
    <3> DEFINE e == effectiveStatus(list.status, list.age)
               s == Refined(e, read /\ ip, list.live)
    <3>2. list \in Lists /\ list.pc = "links"
      BY <2>4 DEF Show, PresenceTypeOK
    <3>3. /\ e \in {"pending", "online", "offline", "disabled"}
          /\ e = "online" => list.age <= Threshold
          /\ e = "offline" => list.status = "online" /\ list.age > Threshold
      BY <1>4, <3>2 DEF Lists
    <3>4. s = e \/ (s = "offline" /\ list.live = "down")
      BY DEF Refined
    <3> HIDE DEF e, s
    <3>5. s \in {"none", "pending", "online", "offline", "disabled"}
      BY <3>3, <3>4
    <3>6. list' = [list EXCEPT !.pc = "done", !.shown = s]
      BY <3>1 DEF s, e
    <3>7. /\ list' \in Lists /\ list'.pc = "done" /\ list'.status = list.status
          /\ list'.age = list.age /\ list'.missed = list.missed
          /\ list'.waited = list.waited /\ list'.live = list.live /\ list'.shown = s
          /\ list'.heard = list.heard
      BY <3>2, <3>5, <3>6 DEF Lists
    <3> QED BY <1>1, <3>2, <3>3, <3>4, <3>7 DEF ListIsHonest, ShownIsDerived
  <2>5. CASE ListReceived
    BY <1>2, <2>5 DEF ListReceived, ListIsHonest, ShownIsDerived
  <2> QED BY <2>1, <2>2, <2>3, <2>4, <2>5
<1>6. PresenceTypeOK' /\ AgentIsKnown' /\ AgeIsMissed'
  BY <1>1, <1>5 DEF PresenceTypeOK, AgentIsKnown, AgeIsMissed
<1> QED BY <1>5, <1>6

---------------------------------------------------------------------------
(* The invariant of the presence.                                          *)
THEOREM PresenceInvariant == PresenceSpec => []PresenceInv
<1>1. PresenceInv /\ [PresenceNext]_presence => PresenceInv'
  <2> SUFFICES ASSUME PresenceInv, [PresenceNext]_presence PROVE PresenceInv'
    OBVIOUS
  <2>1. CASE UNCHANGED presence
    BY <2>1 DEF presence, PresenceInv, PresenceTypeOK, AgentIsKnown, AgeIsMissed,
                ListIsHonest, ShownIsDerived
  <2>2. CASE PresenceNext
    BY <2>2, MachineOK, TickOK, ListOK DEF PresenceNext
  <2> QED BY <2>1, <2>2
<1> QED BY <1>1, PresenceInitOK, PTL DEF PresenceSpec

(* No client is shown online that was not heard of within the threshold,   *)
(* as OnlineIsRecent says.                                                 *)
THEOREM OnlineIsFounded == PresenceSpec => []OnlineIsRecent
<1>1. PresenceInv => OnlineIsRecent
  BY Arithmetic, PresenceAssumption
     DEF PresenceInv, PresenceTypeOK, Lists, ListIsHonest, ShownIsDerived, OnlineIsRecent
<1> QED BY <1>1, PresenceInvariant, PTL

(* Nor one offline that has not missed its heartbeats, or whose peer is    *)
(* not down, as OfflineIsEarned says.                                      *)
THEOREM OfflineIsFounded == PresenceSpec => []OfflineIsEarned
<1>1. PresenceInv => OfflineIsEarned
  BY Arithmetic, PresenceAssumption
     DEF PresenceInv, PresenceTypeOK, Lists, ListIsHonest, ShownIsDerived, OfflineIsEarned
<1> QED BY <1>1, PresenceInvariant, PTL

---------------------------------------------------------------------------
(* The activity log.                                                       *)

(* The actions that are logged.                                            *)
Noted == {"netbird.peer_deleted", "netbird.ssh_enabled", "agent.rotated_applied"}
Actions == {ActionOf[op] : op \in DOMAIN ActionOf} \cup Noted \cup {"none"}

(* Who has been answered for an operation has its entry on record, or is   *)
(* about to write it; an entry owed is owed by a request in flight.        *)
EntryInv ==
  /\ owed \in [Slots -> Actions]
  /\ \A r \in Slots : owed[r] # "none" => ~At(r, "idle")
  /\ \A r \in Slots : Succeeded(req[r]) =>
       LET q == req[r] IN
       /\ status[q.client] # "absent"
       /\ ~gap /\ Live(q.client) =>
            Entry(ActionOf[q.op], q.client) \in log \/ owed[r] = ActionOf[q.op]
AuditInv == IInv /\ RequestInv /\ EntryInv /\ LogExplainsState

(* The operations that are logged, by their handlers' names.               *)
LEMMA Logged ==
  /\ DOMAIN ActionOf = AdminOps \cup {"register"}
  /\ \A op \in DOMAIN ActionOf : ActionOf[op] # "none"
  /\ ActionOf["create"] = "client.create" /\ ActionOf["register"] = "agent.register"
  /\ ActionOf["disable"] = "client.disable"
BY DEF ActionOf, AdminOps

LEMMA DueIsAction == \A p, q : Due(p, q) \in Actions
<1> TAKE p, q
<1>1. CASE Succeeded(q)
  BY <1>1 DEF Due, Succeeded, Actions, Noted
<1>2. CASE ~Succeeded(q)
  BY <1>2 DEF Due, Actions, Noted
<1> QED BY <1>1, <1>2

(* What a handler's statement tells of its client that was not so before,  *)
(* it has done for the request's client, ...                               *)
LEMMA RowsTold ==
  ASSUME IInv, RequestInv, NEW r \in Slots, Serve(r), NEW c \in Clients, Live(c)'
  PROVE  LET q == req[r]
             n == req'[r]
             Done(code) == c = q.client /\ n.pc = "done" /\ n.code = code IN
         /\ \/ Live(c)
            \/ /\ At(r, "cc_commit") /\ Done(201)
               /\ status'[c] # "disabled" /\ ~link'[c].enabled
         /\ issued'[c] = issued[c] \/ (At(r, "rg_key") /\ Done(200))
         /\ \/ link'[c].enabled => link[c].enabled
            \/ At(r, "hb_record") /\ c = q.client /\ n.pc # "done"
         /\ \/ status'[c] = "disabled" => status[c] = "disabled"
            \/ At(r, "di_status") /\ Done(200)
<1> USE DEF dbVars, clientVars, keyVars, sideVars
<1> DEFINE q == req[r]
           n == req'[r]
           d == q.client
           Done(code) == c = d /\ n.pc = "done" /\ n.code = code
           goal == /\ \/ Live(c)
                      \/ /\ At(r, "cc_commit") /\ Done(201)
                         /\ status'[c] # "disabled" /\ ~link'[c].enabled
                   /\ issued'[c] = issued[c] \/ (At(r, "rg_key") /\ Done(200))
                   /\ \/ link'[c].enabled => link[c].enabled
                      \/ At(r, "hb_record") /\ c = d /\ n.pc # "done"
                   /\ \/ status'[c] = "disabled" => status[c] = "disabled"
                      \/ At(r, "di_status") /\ Done(200)
<1>t. TypeOK
  BY DEF IInv
<1>r. /\ status \in [Clients -> Rows \cup {"absent", "deleted"}]
      /\ link \in [Clients -> Links] /\ issued \in [Clients -> Nat]
      /\ (~At(r, "idle") => d \in Clients)
  BY <1>t DEF TypeOK, RowsOK, RequestsOK
<1>e. ASSUME NEW code \in Codes, Respond(r, code)
      PROVE  n.pc = "done" /\ n.code = code
  BY <1>e, <1>t, RespondEnds DEF Ends
<1>g. ASSUME NEW p \in PCs, Goto(r, p), ~At(r, "idle")
      PROVE  n.pc = p
  BY <1>g, <1>t, GotoKeeps
<1>c. {200, 201, 500} \subseteq Codes
  BY DEF Codes
<1>p. {"di_status", "hb_enabled", "hb_applied", "hb_ack"} \subseteq PCs
  BY DEF PCs
<1>0. CASE UNCHANGED <<status, link, issued>>
  BY <1>0 DEF Live
<1>1. CASE CommitClient(r)
  <2>1. At(r, "cc_commit") /\ d \in Clients /\ issued' = issued
    BY <1>1, <1>r DEF CommitClient, At
  <2>2. CASE UNCHANGED <<status, link>>
    BY <2>1, <2>2, <1>0
  <2>3. CASE /\ status' = [status EXCEPT ![d] = "pending"]
             /\ link' = [link EXCEPT ![d] = NewLink]
             /\ Respond(r, 201)
    <3>1. n.pc = "done" /\ n.code = 201
      BY <2>3, <1>e, <1>c
    <3>2. NewLink.enabled = FALSE
      BY DEF NewLink, NoLink
    <3> QED BY <2>1, <2>3, <3>1, <3>2, <1>r DEF Live
  <2> QED BY <2>2, <2>3, <1>1 DEF CommitClient
<1>2. CASE ForgetPeer(r)
  <2>1. d \in Clients /\ UNCHANGED <<status, issued>>
    BY <1>2, <1>r DEF ForgetPeer, At
  <2>2. link' = link \/ link' = [link EXCEPT ![d] = NewLink] \/ link' = [link EXCEPT ![d] = @]
    BY <1>2 DEF ForgetPeer
  <2>3. NewLink.enabled = FALSE
    BY DEF NewLink, NoLink
  <2> QED BY <2>1, <2>2, <2>3, <1>r DEF Live
<1>3. CASE SetDisabled(r)
  <2>1. d \in Clients /\ At(r, "di_status") /\ UNCHANGED <<link, issued>>
    BY <1>3, <1>r DEF SetDisabled, At
  <2>2. CASE UNCHANGED status
    BY <2>1, <2>2, <1>0
  <2>3. CASE /\ status' = [status EXCEPT ![d] = IF Live(d) THEN "disabled" ELSE @]
             /\ Respond(r, 200)
    BY <2>1, <2>3, <1>e, <1>c, <1>r DEF Live, Rows
  <2> QED BY <2>2, <2>3, <1>3 DEF SetDisabled
<1>4. CASE Cascade(r)
  <2>1. d \in Clients /\ UNCHANGED issued
    BY <1>4, <1>r DEF Cascade, At
  <2>2. UNCHANGED <<status, link>> \/ (/\ status' = [status EXCEPT ![d] = "deleted"]
                                      /\ link' = [link EXCEPT ![d] = NoLink])
    BY <1>4 DEF Cascade
  <2>3. NoLink.enabled = FALSE
    BY DEF NoLink
  <2> QED BY <2>1, <2>2, <2>3, <1>r DEF Live, Rows
<1>5. CASE RegisterOnline(r) \/ HeartbeatOnline(r)
  <2>1. d \in Clients /\ UNCHANGED <<link, issued>>
    BY <1>5, <1>r DEF RegisterOnline, HeartbeatOnline, At
  <2>2. UNCHANGED status \/ status' = [status EXCEPT ![d] = IF Live(d) THEN "online" ELSE @]
    BY <1>5 DEF RegisterOnline, HeartbeatOnline
  <2> QED BY <2>1, <2>2, <1>r DEF Live, Rows
<1>6. CASE IssueAgentToken(r)
  <2>1. At(r, "rg_key") /\ d \in Clients /\ UNCHANGED <<status, link>>
    BY <1>6, <1>r DEF IssueAgentToken, At
  <2>2. issued' = [issued EXCEPT ![d] = @ + 1]
    BY <1>6 DEF IssueAgentToken
  <2>3. n.pc = "done" /\ n.code = 200
    BY <1>6, <1>t DEF IssueAgentToken, Put, TypeOK, RequestsOK, Requests
  <2> QED BY <2>1, <2>2, <2>3, <1>r DEF Live
<1>7. CASE RecordPeer(r) \/ RecordApplied(r)
  <2>1. d \in Clients /\ UNCHANGED <<status, issued>>
    BY <1>7, <1>r DEF RecordPeer, RecordApplied, At
  <2>2. \E x : \/ UNCHANGED link
              \/ link' = [link EXCEPT ![d].peer = x]
              \/ link' = [link EXCEPT ![d].applied = x]
    BY <1>7 DEF RecordPeer, RecordApplied
  <2>3. link'[c].enabled = link[c].enabled
    BY <2>1, <2>2, <1>r DEF Links
  <2> QED BY <2>1, <2>3 DEF Live
<1>8. CASE RecordEnabled(r)
  <2>1. d \in Clients /\ UNCHANGED <<status, issued>> /\ At(r, "hb_record")
    BY <1>8, <1>r DEF RecordEnabled, At
  <2>2. n.pc = "hb_applied"
    BY <1>8, <2>1, <1>g, <1>p DEF RecordEnabled, At
  <2>3. c # d => link'[c] = link[c]
    BY <1>8, <1>r DEF RecordEnabled
  <2> QED BY <2>1, <2>2, <2>3 DEF Live
<1>9. CASE \/ CreateSetupKey(r) \/ ReadName(r) \/ BeginDelete(r) \/ DeleteOldKeys(r)
           \/ InsertKey(r) \/ CommitRotation(r) \/ DisableScanLink(r) \/ DisableDeletePeer(r)
           \/ DeleteScanLink(r) \/ DeleteDeletePeer(r) \/ DeleteSetupKey(r)
           \/ LockClient(r) \/ ReadConnection(r) \/ UpdateRow(r) \/ ReadPrivateKey(r)
  BY <1>0, <1>9 DEF CreateSetupKey, ReadName, BeginDelete, DeleteOldKeys, InsertKey,
     CommitRotation, DisableScanLink, DisableDeletePeer, DeleteScanLink, DeleteDeletePeer,
     DeleteSetupKey, LockClient, ReadConnection, UpdateRow, ReadPrivateKey
<1>10. CASE \/ CheckToken(r) \/ MarkTokenUsed(r) \/ ReadSetupKey(r) \/ ReadStatus(r)
            \/ ReadAlreadyEnabled(r) \/ EnableSSH(r) \/ AcknowledgeRotation(r)
            \/ ReadPendingRotation(r) \/ ReadInstallPub(r) \/ ReadSshEnabled(r)
            \/ ReplyHeartbeat(r)
  BY <1>0, <1>10 DEF CheckToken, MarkTokenUsed, ReadSetupKey, ReadStatus,
     ReadAlreadyEnabled, EnableSSH, AcknowledgeRotation, ReadPendingRotation,
     ReadInstallPub, ReadSshEnabled, ReplyHeartbeat
<1> QED BY <1>1, <1>2, <1>3, <1>4, <1>5, <1>6, <1>7, <1>8, <1>9, <1>10
        DEF Serve, StepAdmin, StepAgent

(* An answer of success is what makes the handler log, and is about a      *)
(* client that exists or existed.                                          *)
LEMMA SuccessIsDue ==
  ASSUME IInv, RequestInv, NEW r \in Slots, Serve(r), Succeeded(req'[r])
  PROVE  LET n == req'[r] IN
         /\ Due(req[r], n) = ActionOf[n.op]
         /\ n.client \in Clients /\ status'[n.client] # "absent"
<1> DEFINE q == req[r]
           n == req'[r]
           rest == {"rk_read", "rk_begin", "rk_delete", "rk_insert", "rk_commit",
                    "di_scan", "di_peer", "di_status", "dl_scan", "dl_peer",
                    "dl_setup", "dl_lock", "dl_cascade", "cn_client", "cn_link",
                    "cn_pub", "cn_priv", "up_row", "pk_key"}
<1>t. TypeOK /\ (~At(r, "idle") => q.client \in Clients)
  BY DEF IInv, TypeOK, RequestsOK
<1>k. Keeps(r) /\ q.op = OpOf(q.pc) /\ n.op = q.op /\ n.client = q.client
  BY <1>t, AgentAnswers, AdminAnswers DEF Serve, AgentAnswer, Keeps, RequestInv, RouteInv
<1>c. q.client \in Clients /\ n.pc # "idle"
  BY <1>t, <1>k DEF Keeps, At
<1>1. n.op \in DOMAIN ActionOf /\ n.op # "heartbeat" /\ n.pc = "done" /\ n.code \in {200, 201}
  BY Logged DEF Succeeded, AdminOps
<1>2. q.pc \notin {"di_forget", "hb_record", "hb_ack"} => Due(q, n) = ActionOf[n.op]
  BY DEF Due
<1>3. RouteInv'
  BY ServeRoute DEF RequestInv
<1>4. n.op # "create" => status'[n.client] # "absent"
  BY <1>3, <1>c, <1>k DEF RouteInv, At
<1>5. CASE StepAgent(r)
  BY <1>5, <1>1, <1>2, <1>4, <1>c, <1>k, <1>t, AgentAnswers, Handlers DEF AgentAnswer
<1>6. CASE CommitClient(r)
  <2>1. q.pc = "cc_commit"
    BY <1>6 DEF CommitClient, At
  <2>2. CASE Respond(r, 500)
    BY <2>2, <1>1, <1>t, RespondEnds DEF Ends, Codes
  <2>3. CASE status' = [status EXCEPT ![q.client] = "pending"]
    BY <2>1, <2>3, <1>2, <1>c, <1>k, <1>t DEF TypeOK, RowsOK
  <2> QED BY <2>2, <2>3, <1>6 DEF CommitClient
<1>7. CASE CreateSetupKey(r) \/ ForgetPeer(r)
  <2>1. CASE Respond(r, 502)
    BY <2>1, <1>1, <1>t, RespondEnds DEF Ends, Codes
  <2>2. ASSUME NEW p \in PCs \ {"done"}, Goto(r, p) PROVE FALSE
    BY <2>2, <1>1, <1>k, <1>t, GotoKeeps DEF Keeps, At
  <2> QED BY <2>1, <2>2, <1>7 DEF CreateSetupKey, ForgetPeer, PCs
<1>8. CASE \/ ReadName(r) \/ BeginDelete(r) \/ DeleteOldKeys(r) \/ InsertKey(r)
           \/ CommitRotation(r) \/ DisableScanLink(r) \/ DisableDeletePeer(r)
           \/ SetDisabled(r) \/ DeleteScanLink(r) \/ DeleteDeletePeer(r)
           \/ DeleteSetupKey(r) \/ LockClient(r) \/ Cascade(r)
           \/ ReadConnection(r) \/ UpdateRow(r) \/ ReadPrivateKey(r)
  <2>1. q.pc \in rest
    BY <1>8 DEF At, ReadName, BeginDelete, DeleteOldKeys, InsertKey, CommitRotation,
       DisableScanLink, DisableDeletePeer, SetDisabled, DeleteScanLink,
       DeleteDeletePeer, DeleteSetupKey, LockClient, Cascade, ReadConnection,
       UpdateRow, ReadPrivateKey
  <2>2. OpOf(q.pc) # "create"
    BY <2>1, Handlers
  <2> QED BY <2>1, <2>2, <1>2, <1>4, <1>c, <1>k
<1> QED BY <1>5, <1>6, <1>7, <1>8 DEF Serve, StepAdmin

(* A statement that writes into the log does so for a request that goes on. *)
LEMMA DueBeforeEnd ==
  ASSUME IInv, RequestInv, NEW r \in Slots, Serve(r), At(r, "hb_record"), req'[r].pc # "done"
  PROVE  Due(req[r], req'[r]) = "netbird.ssh_enabled"
BY DEF Due, At, Succeeded

(* Every step is one of the backend's, or an entry written or lost.        *)
LEMMA AuditIsBackend ==
  ASSUME [AuditNext]_auditVars
  PROVE  Outside \/ \E r \in Slots : Serve(r)
<1>1. CASE \E r \in Slots : LogActivity(r)
  BY <1>1 DEF LogActivity, Outside
<1>2. CASE UNCHANGED auditVars
  BY <1>2 DEF auditVars, vars, Outside
<1>3. CASE \E r \in Slots : AuditStart(r) \/ AuditServe(r) \/ AuditReceive(r)
  BY <1>3 DEF AuditStart, AuditServe, AuditReceive, Outside, Opens
<1>4. CASE AuditWorld \/ AuditCrash
  BY <1>4 DEF AuditWorld, AuditCrash, Outside
<1> QED BY <1>1, <1>2, <1>3, <1>4 DEF AuditNext

(* An entry stays, with its client, as long as the client does.            *)
LEMMA EntryStays ==
  ASSUME NEW c \in Clients, Live(c)', NEW a, Entry(a, c) \in log,
         log' = {SetNull(e) : e \in log}
  PROVE  Entry(a, c) \in log'
<1>1. Entry(a, c).client = c /\ status'[c] # "deleted"
  BY DEF Entry, Live, Rows
<1>2. SetNull(Entry(a, c)) = Entry(a, c)
  BY <1>1 DEF SetNull
<1> QED BY <1>2

(* A handler's statement.                                                  *)
LEMMA ServeLogs ==
  ASSUME AuditInv, NEW r \in Slots, AuditServe(r)
  PROVE  EntryInv' /\ LogExplainsState'
<1> DEFINE q == req[r]
           n == req'[r]
<1>t. /\ IInv /\ RequestInv /\ TypeOK /\ Serve(r) /\ gap' = gap
      /\ owed[r] = "none" /\ owed' = [owed EXCEPT ![r] = Due(q, n)]
      /\ owed \in [Slots -> Actions]
  BY DEF AuditInv, IInv, AuditServe, EntryInv
<1>k. Keeps(r) /\ OthersStay(r) /\ q.op = OpOf(q.pc)
  BY <1>t, AgentAnswers, AdminAnswers DEF Serve, AgentAnswer, Keeps, RequestInv, RouteInv
<1>o. /\ owed'[r] = Due(q, n) /\ owed' \in [Slots -> Actions]
      /\ \A s \in Slots \ {r} : owed'[s] = owed[s] /\ req'[s] = req[s]
  BY <1>t, <1>k, DueIsAction DEF OthersStay
<1>c. \A c \in Clients, a \in Actions \ {"none"} :
        Live(c)' /\ OnRecord(c, a) => OnRecord(c, a)'
  BY <1>t, <1>o, EntryStays DEF OnRecord, Owes, AuditServe
<1>s. \A c \in Clients : status[c] # "absent" => status'[c] # "absent"
  BY <1>t, RowsStay
<1>l. \A c \in Clients : Live(c)' /\ status[c] # "absent" => Live(c)
  <2> SUFFICES ASSUME NEW c \in Clients, Live(c)', status[c] # "absent", ~Live(c)
               PROVE  FALSE
    OBVIOUS
  <2>1. At(r, "cc_commit") /\ c = q.client
    BY <1>t, RowsTold
  <2> QED BY <2>1, <1>t DEF IInv, RowInv, CreatePCs, At
<1>1. EntryInv'
  <2>1. ASSUME NEW s \in Slots PROVE owed'[s] # "none" => ~At(s, "idle")'
    BY <1>o, <1>k DEF AuditInv, EntryInv, At, Keeps
  <2>2. ASSUME NEW s \in Slots, Succeeded(req'[s])
        PROVE  LET p == req'[s] IN
               /\ status'[p.client] # "absent"
               /\ ~gap' /\ status'[p.client] \in Rows =>
                    Entry(ActionOf[p.op], p.client) \in log' \/ owed'[s] = ActionOf[p.op]
    <3>1. CASE s = r
      BY <3>1, <2>2, <1>t, <1>o, SuccessIsDue
    <3>2. CASE s # r
      <4>1. req'[s] = req[s] /\ owed'[s] = owed[s] /\ Succeeded(req[s])
        BY <3>2, <2>2, <1>o
      <4>2. req[s].client \in Clients
        BY <4>1, <1>t DEF Succeeded, TypeOK, RequestsOK, At
      <4>3. /\ status[req[s].client] # "absent"
            /\ ~gap /\ Live(req[s].client) =>
                 \/ Entry(ActionOf[req[s].op], req[s].client) \in log
                 \/ owed[s] = ActionOf[req[s].op]
        BY <4>1 DEF AuditInv, EntryInv
      <4> QED BY <4>1, <4>2, <4>3, <1>t, <1>s, <1>l, EntryStays DEF AuditServe, Live
    <3> QED BY <3>1, <3>2
  <2> QED BY <2>1, <2>2, <1>o DEF EntryInv, Live
<1>2. LogExplainsState'
  <2> SUFFICES ASSUME ~gap', NEW c \in Clients, Live(c)'
               PROVE  /\ OnRecord(c, "client.create")'
                      /\ issued'[c] > 0 => OnRecord(c, "agent.register")'
                      /\ link'[c].enabled => OnRecord(c, "netbird.ssh_enabled")'
                      /\ status'[c] = "disabled" => OnRecord(c, "client.disable")'
    BY DEF LogExplainsState
  <2>n. {"client.create", "agent.register", "client.disable", "netbird.ssh_enabled"}
          \subseteq Actions \ {"none"}
    BY Logged DEF Actions, Noted, AdminOps
  <2>e. ASSUME q.client = c, NEW op \in DOMAIN ActionOf, q.op = op, n.pc = "done",
               n.code \in {200, 201}
        PROVE  OnRecord(c, ActionOf[op])'
    <3>1. Succeeded(n) /\ n.op = op /\ n.client = c
      BY <2>e, <1>k DEF Succeeded, Keeps
    <3>2. owed'[r] = ActionOf[op]
      BY <3>1, <1>t, <1>o, SuccessIsDue
    <3> QED BY <3>1, <3>2 DEF OnRecord, Owes
  <2>o. {"create", "register", "disable"} \subseteq DOMAIN ActionOf
    BY Logged DEF AdminOps
  <2>1. CASE ~Live(c)
    <3>1. /\ At(r, "cc_commit") /\ c = q.client /\ n.pc = "done" /\ n.code = 201
          /\ status'[c] # "disabled" /\ ~link'[c].enabled
          /\ issued'[c] = issued[c] \/ At(r, "rg_key")
      BY <2>1, <1>t, RowsTold
    <3>2. q.op = "create" /\ status[c] = "absent" /\ ~At(r, "rg_key")
      BY <3>1, <1>k, <1>t, Handlers DEF IInv, RowInv, CreatePCs, At
    <3>3. issued'[c] = 0
      BY <3>1, <3>2, <1>t DEF RequestInv, KnownInv, TypeOK
    <3> QED BY <3>1, <3>2, <3>3, <2>e, <2>o, Logged
  <2>2. CASE Live(c)
    <3>h. /\ OnRecord(c, "client.create")
          /\ issued[c] > 0 => OnRecord(c, "agent.register")
          /\ link[c].enabled => OnRecord(c, "netbird.ssh_enabled")
          /\ status[c] = "disabled" => OnRecord(c, "client.disable")
      BY <2>2, <1>t DEF AuditInv, LogExplainsState
    <3>1. /\ \/ issued'[c] = issued[c]
             \/ At(r, "rg_key") /\ c = q.client /\ n.pc = "done" /\ n.code = 200
          /\ \/ link'[c].enabled => link[c].enabled
             \/ At(r, "hb_record") /\ c = q.client /\ n.pc # "done"
          /\ \/ status'[c] = "disabled" => status[c] = "disabled"
             \/ At(r, "di_status") /\ c = q.client /\ n.pc = "done" /\ n.code = 200
      BY <1>t, RowsTold
    <3>2. issued'[c] > 0 => OnRecord(c, "agent.register")'
      <4>1. CASE issued'[c] = issued[c]
        BY <4>1, <3>h, <2>n, <1>c
      <4>2. CASE At(r, "rg_key") /\ c = q.client /\ n.pc = "done" /\ n.code = 200
        BY <4>2, <1>k, <2>e, <2>o, Logged, Handlers DEF At
      <4> QED BY <4>1, <4>2, <3>1
    <3>3. link'[c].enabled => OnRecord(c, "netbird.ssh_enabled")'
      <4>1. CASE link'[c].enabled => link[c].enabled
        BY <4>1, <3>h, <2>n, <1>c
      <4>2. CASE At(r, "hb_record") /\ c = q.client /\ n.pc # "done"
        <5>1. owed'[r] = "netbird.ssh_enabled" /\ n.client = c
          BY <4>2, <1>t, <1>o, <1>k, DueBeforeEnd DEF Keeps
        <5> QED BY <5>1 DEF OnRecord, Owes
      <4> QED BY <4>1, <4>2, <3>1
    <3>4. status'[c] = "disabled" => OnRecord(c, "client.disable")'
      <4>1. CASE status'[c] = "disabled" => status[c] = "disabled"
        BY <4>1, <3>h, <2>n, <1>c
      <4>2. CASE At(r, "di_status") /\ c = q.client /\ n.pc = "done" /\ n.code = 200
        BY <4>2, <1>k, <2>e, <2>o, Logged, Handlers DEF At
      <4> QED BY <4>1, <4>2, <3>1
    <3> QED BY <3>2, <3>3, <3>4, <3>h, <2>n, <1>c
  <2> QED BY <2>1, <2>2
<1> QED BY <1>1, <1>2

(* The statement that writes the entry; while a DELETE has the client's    *)
(* row it waits, and when the row is gone nobody asks for the entry.       *)
LEMMA InsertLogs ==
  ASSUME AuditInv, NEW r \in Slots, LogActivity(r)
  PROVE  EntryInv' /\ LogExplainsState'
<1> USE DEF dbVars, clientVars, sideVars
<1> DEFINE d == req[r].client
<1>1. /\ UNCHANGED <<status, link, issued, req>> /\ log \subseteq log'
      /\ owed' = [owed EXCEPT ![r] = "none"] /\ owed[r] # "none"
      /\ ~gap' => ~gap /\ (Live(d) => Entry(owed[r], d) \in log')
  BY DEF LogActivity
<1>2. /\ owed' \in [Slots -> Actions] /\ owed'[r] = "none"
      /\ \A s \in Slots \ {r} : owed'[s] = owed[s]
  BY <1>1 DEF AuditInv, EntryInv, Actions
<1>3. ASSUME ~gap', NEW c \in Clients, Live(c), NEW a \in Actions \ {"none"}, OnRecord(c, a)
      PROVE  OnRecord(c, a)'
  BY <1>1, <1>2, <1>3 DEF OnRecord, Owes
<1>4. {"client.create", "agent.register", "client.disable", "netbird.ssh_enabled"}
        \subseteq Actions \ {"none"}
  BY Logged DEF Actions, Noted, AdminOps
<1>5. LogExplainsState'
  BY <1>1, <1>3, <1>4 DEF AuditInv, LogExplainsState, Live
<1>6. EntryInv'
  <2>1. ASSUME NEW s \in Slots, Succeeded(req[s])
        PROVE  LET q == req[s] IN
               /\ status[q.client] # "absent"
               /\ ~gap' /\ Live(q.client) =>
                    Entry(ActionOf[q.op], q.client) \in log' \/ owed'[s] = ActionOf[q.op]
    BY <2>1, <1>1, <1>2 DEF AuditInv, EntryInv
  <2> QED BY <2>1, <1>1, <1>2 DEF AuditInv, EntryInv, At, Live
<1> QED BY <1>5, <1>6

(* All that happens besides: requests that come and go, crashes, the world. *)
LEMMA OtherLogs ==
  ASSUME AuditInv,
         \/ \E r \in Slots : AuditStart(r) \/ AuditReceive(r)
         \/ AuditWorld \/ AuditCrash \/ UNCHANGED auditVars
  PROVE  EntryInv' /\ LogExplainsState'
<1> USE DEF dbVars, clientVars, sideVars
<1>t. TypeOK /\ KnownInv
  BY DEF AuditInv, IInv, RequestInv
<1>0. ASSUME NEW r \in Slots, OthersStay(r), owed[r] = "none", ~Succeeded(req'[r]),
             UNCHANGED <<status, link, issued, log, owed, gap>>
      PROVE  EntryInv' /\ LogExplainsState'
  <2>1. \A s \in Slots : s = r \/ req'[s] = req[s]
    BY <1>0 DEF OthersStay
  <2>2. \A c, a : a # "none" /\ OnRecord(c, a) => OnRecord(c, a)'
    BY <2>1, <1>0 DEF OnRecord, Owes
  <2>3. LogExplainsState'
    BY <2>2, <1>0 DEF AuditInv, LogExplainsState, Live
  <2>4. EntryInv'
    BY <2>1, <1>0 DEF AuditInv, EntryInv, At, Live
  <2> QED BY <2>3, <2>4
<1>1. CASE \E r \in Slots : AuditStart(r)
  <2>1. PICK r \in Slots, c \in Clients :
          Start(r, c) /\ UNCHANGED <<log, owed, gap>>
    BY <1>1 DEF AuditStart
  <2>2. Starts(r, c)
    BY <2>1, <1>t, StartAnswers DEF Opens
  <2>3. ~Succeeded(req'[r]) /\ owed[r] = "none"
    BY <2>2 DEF Starts, FirstPCs, Succeeded, AuditInv, EntryInv
  <2> QED BY <2>1, <2>2, <2>3, <1>0 DEF Starts
<1>2. CASE \E r \in Slots : AuditReceive(r)
  <2>1. PICK r \in Slots : AuditReceive(r)
    BY <1>2
  <2>2. /\ OthersStay(r) /\ req'[r] = Idle /\ owed[r] = "none"
        /\ UNCHANGED <<status, link, issued, log, owed, gap>>
    BY <2>1, <1>t DEF AuditReceive, Receive, Put, TypeOK, RequestsOK, OthersStay
  <2> QED BY <2>2, <1>0, IdleOK DEF Succeeded
<1>3. CASE AuditWorld \/ UNCHANGED auditVars
  <2>1. UNCHANGED <<status, link, issued, req, log, owed, gap>>
    BY <1>3 DEF AuditWorld, World, TokenExpires, PeerJoins, auditVars, vars
  <2> QED BY <2>1 DEF AuditInv, EntryInv, LogExplainsState, OnRecord, Owes, Live, At
<1>4. CASE AuditCrash
  <2>1. /\ UNCHANGED <<status, link, issued, log>> /\ \A r \in Slots : req'[r].pc = "idle"
        /\ owed' = [r \in Slots |-> "none"]
        /\ ~gap' => ~gap /\ \A r \in Slots : owed[r] = "none"
    BY <1>4, IdleOK DEF AuditCrash, ServerCrash
  <2>2. EntryInv'
    BY <2>1 DEF EntryInv, Succeeded, Actions
  <2>3. \A c, a : ~gap' /\ a # "none" /\ OnRecord(c, a) => OnRecord(c, a)'
    BY <2>1 DEF OnRecord, Owes
  <2>4. LogExplainsState'
    BY <2>1, <2>3 DEF AuditInv, LogExplainsState, Live
  <2> QED BY <2>2, <2>4
<1> QED BY <1>1, <1>2, <1>3, <1>4

LEMMA InitAudit == AuditInit => AuditInv
<1> SUFFICES ASSUME AuditInit PROVE AuditInv
  OBVIOUS
<1>1. Init /\ \A r \in Slots : owed[r] = "none" /\ req[r].pc = "idle"
  BY IdleOK DEF AuditInit, Init
<1>2. EntryInv
  BY <1>1 DEF AuditInit, EntryInv, Succeeded, Actions
<1>3. LogExplainsState
  BY <1>1 DEF Init, LogExplainsState, Live, Rows
<1> QED BY <1>1, <1>2, <1>3, InitInv, InitRequest DEF AuditInv

(* The invariant of the activity log.                                      *)
THEOREM AuditInductive == AuditSpec => []AuditInv
<1>1. AuditInv /\ [AuditNext]_auditVars => AuditInv'
  <2> SUFFICES ASSUME AuditInv, [AuditNext]_auditVars PROVE AuditInv'
    OBVIOUS
  <2>1. IInv' /\ RequestInv'
    BY AuditIsBackend, RequestNext DEF AuditInv
  <2>2. EntryInv' /\ LogExplainsState'
    BY ServeLogs, InsertLogs, OtherLogs DEF AuditNext
  <2> QED BY <2>1, <2>2 DEF AuditInv
<1> QED BY <1>1, InitAudit, PTL DEF AuditSpec

(* Whatever a client's row says of its past is in the activity log, or on  *)
(* its way into it, unless an INSERT failed or the server stopped before   *)
(* one: for any number of clients and of requests in flight.               *)
THEOREM LogIsComplete == AuditSpec => []LogExplainsState
<1>1. AuditInv => LogExplainsState
  BY DEF AuditInv
<1> QED BY <1>1, AuditInductive, PTL

(* Nobody has the answer of an operation, a private key or a connection's  *)
(* keys among them, without leaving its trace in the log.                  *)
THEOREM AnswersLeaveTraces == AuditSpec => []AnsweredIsLogged
<1>1. AuditInv => AnsweredIsLogged
  BY Logged DEF AuditInv, EntryInv, AnsweredIsLogged, Succeeded
<1> QED BY <1>1, AuditInductive, PTL

---------------------------------------------------------------------------
(* The pages next to each other share no row: what holds of each part      *)
(* holds of the dashboard's server.                                        *)
THEOREM DashboardIsItsParts == DashboardSpec => AuditSpec /\ AccountsSpec /\ PresenceSpec
<1>1. DashboardInit => AuditInit /\ AccountsInit /\ PresenceInit
  BY DEF DashboardInit
<1>2. [DashboardNext]_dashboard =>
        [AuditNext]_auditVars /\ [AccountsNext]_accounts /\ [PresenceNext]_presence
  BY DEF DashboardNext, RequestsNext, dashboard
<1> QED BY <1>1, <1>2, PTL DEF DashboardSpec, AuditSpec, AccountsSpec, PresenceSpec
=============================================================================
