------------------------------ MODULE Accounts ------------------------------
(***************************************************************************)
(* The administrators' accounts: the rows of the table admins, the tabs    *)
(* that log in and change their own e-mail and password, and the first     *)
(* account, which every start of the server makes when there is none.      *)
(* Passwords stand for their bcrypt hashes, a token for the id it names: a *)
(* JWT needs no row to be valid, and outlives the server that signed it.   *)
(***************************************************************************)
EXTENDS Naturals, Sequences

CONSTANTS
  Tabs,           \* browser tabs of the dashboard, one request each at a time
  Emails,         \* e-mail addresses
  Passwords,      \* passwords of 8 characters and more
  SeedEmail, SeedPassword,   \* the configured first account
  Missing,        \* an empty field of a form
  Malformed,      \* an e-mail without "@", a password of less than 8
  MaxErrors       \* bound on failing statements

ASSUME AccountsAssumption ==
  /\ SeedEmail \in Emails /\ SeedPassword \in Passwords
  /\ {Missing, Malformed} \cap (Emails \cup Passwords) = {}
  /\ MaxErrors \in Nat

VARIABLES
  admins,   \* the rows of admins: e-mail and password, at their ids
  boot,     \* main: "count" and "insert" in seedAdmin, then "serving"
  session,  \* the admin id of the tab's token, 0 without a valid one
  tab,      \* the tab's UpdateMe request
  errors    \* failed statements so far

accounts == <<admins, boot, session, tab, errors>>

Accts == [email : Emails, pw : Passwords]
Ids == DOMAIN admins
Taken(email, ids) == \E i \in ids : admins[i].email = email

Forms == [current : Passwords,
          email : Emails \cup {Missing, Malformed},
          pw : Passwords \cup {Missing, Malformed}]
NoForm == [current |-> SeedPassword, email |-> Missing, pw |-> Missing]
SeedRow == [email |-> SeedEmail, pw |-> SeedPassword]

(* seen: the row as UpdateMe read it; alone: no other tab has changed it   *)
(* since (history).                                                        *)
NoRequest == [pc |-> "idle", id |-> 0, form |-> NoForm, seen |-> SeedRow,
              alone |-> TRUE, code |-> 0]
MePCs == {"idle", "me_read", "me_unique", "me_email", "me_password", "done"}
MeCodes == {0, 200, 400, 401, 404, 409, 500}
Bodies == [pc : MePCs, id : Nat, form : Forms, seen : Accts,
           alone : BOOLEAN, code : MeCodes]

Moves(t, p) == tab' = [tab EXCEPT ![t].pc = p]
Answers(t, code) == tab' = [tab EXCEPT ![t].pc = "done", ![t].code = code]
Error == errors < MaxErrors /\ errors' = errors + 1
NoError == UNCHANGED errors

---------------------------------------------------------------------------
(* seedAdmin, before the server listens.  When it fails, the server starts *)
(* without an account.                                                     *)

(* Mutant: the UNIQUE e-mail alone keeps the account from being made twice. *)
SeedAlways ==
  /\ boot = "count"
  /\ boot' = "insert"
  /\ UNCHANGED <<admins, session, tab, errors>>

SeedCount ==
  /\ boot = "count"
  /\ \/ boot' = (IF admins = <<>> THEN "insert" ELSE "serving") /\ NoError
     \/ boot' = "serving" /\ Error
  /\ UNCHANGED <<admins, session, tab>>

SeedInsert ==
  /\ boot = "insert"
  /\ \/ admins' = (IF Taken(SeedEmail, Ids) THEN admins ELSE Append(admins, SeedRow)) /\ NoError
     \/ Error /\ UNCHANGED admins
  /\ boot' = "serving"
  /\ UNCHANGED <<session, tab>>

Restart ==
  /\ boot' = "count"
  /\ tab' = [t \in Tabs |-> NoRequest]
  /\ UNCHANGED <<admins, session, errors>>

---------------------------------------------------------------------------
(* Login, and the end of a token's 12 hours.                               *)

Login(t, email, pw) ==
  /\ boot = "serving" /\ tab[t].pc = "idle"
  /\ \E i \in Ids : /\ admins[i] = [email |-> email, pw |-> pw]
                    /\ session' = [session EXCEPT ![t] = i]
  /\ UNCHANGED <<admins, boot, tab, errors>>

TokenEnds(t) ==
  /\ session[t] # 0
  /\ session' = [session EXCEPT ![t] = 0]
  /\ UNCHANGED <<admins, boot, tab, errors>>

---------------------------------------------------------------------------
(* UpdateMe, behind the middleware that wants an admin's token.            *)

StartUpdateMe(t, form) ==
  /\ boot = "serving" /\ tab[t].pc = "idle" /\ session[t] # 0
  /\ tab' = [tab EXCEPT ![t] = [NoRequest EXCEPT
               !.pc = "me_read", !.id = session[t], !.form = form]]
  /\ UNCHANGED <<admins, boot, session, errors>>

(* What the form asks for when the row read is s.                          *)
AfterRead(form, s) ==
  CASE form.email \in {Missing, s.email} -> "me_password"
    [] form.email = Malformed -> "malformed"
    [] OTHER -> "me_unique"

ReadMe(t) ==
  LET q == tab[t] IN
  /\ q.pc = "me_read"
  /\ \/ /\ q.id \in Ids
        /\ LET s == admins[q.id]
               next == AfterRead(q.form, s)
               code == IF s.pw # q.form.current THEN 401
                       ELSE IF next = "malformed" THEN 400 ELSE 0
           IN tab' = [tab EXCEPT ![t].seen = s, ![t].alone = TRUE, ![t].code = code,
                        ![t].pc = IF code # 0 THEN "done" ELSE next]
        /\ NoError
     \/ q.id \notin Ids /\ Answers(t, 404) /\ NoError
     \/ Answers(t, 404) /\ Error
  /\ UNCHANGED <<admins, boot, session>>

(* The count of the other rows with that e-mail; a failure counts as none. *)
CheckUnique(t) ==
  LET q == tab[t]
      used == Taken(q.form.email, Ids \ {q.id})
  IN
  /\ q.pc = "me_unique"
  /\ \/ NoError /\ IF used THEN Answers(t, 409) ELSE Moves(t, "me_email")
     \/ Error /\ Moves(t, "me_email")
  /\ UNCHANGED <<admins, boot, session>>

(* An UPDATE of the row crosses every other request that has read it.      *)
Crossed(t) ==
  [u \in Tabs |-> IF u # t /\ tab[u].id = tab[t].id
                    THEN [tab[u] EXCEPT !.alone = FALSE] ELSE tab[u]]

UpdateEmail(t) ==
  LET q == tab[t]
      used == Taken(q.form.email, Ids \ {q.id})
  IN
  /\ q.pc = "me_email"
  /\ \/ /\ ~used
        /\ admins' = [admins EXCEPT ![q.id].email = q.form.email]
        /\ tab' = [Crossed(t) EXCEPT ![t].pc = "me_password"]
        /\ NoError
     \/ used /\ Answers(t, 500) /\ UNCHANGED <<admins, errors>>
     \/ Error /\ Answers(t, 500) /\ UNCHANGED admins
  /\ UNCHANGED <<boot, session>>

(* Mutant: the password is changed only when the e-mail is not.            *)
UpdateEitherOne(t) ==
  LET q == tab[t] IN
  /\ q.pc = "me_password"
  /\ \/ q.form.pw = Malformed /\ Answers(t, 400) /\ UNCHANGED admins
     \/ /\ q.form.pw # Malformed
        /\ admins' = IF q.form.pw = Missing \/ q.form.email # Missing THEN admins
                     ELSE [admins EXCEPT ![q.id].pw = q.form.pw]
        /\ Answers(t, 200)
  /\ UNCHANGED <<boot, session, errors>>

(* The short password is refused after the e-mail has been changed.  An    *)
(* answer of 200 carries a new token.                                      *)
UpdatePassword(t) ==
  LET q == tab[t] IN
  /\ q.pc = "me_password"
  /\ \/ /\ q.form.pw = Malformed
        /\ Answers(t, 400)
        /\ UNCHANGED <<admins, session, errors>>
     \/ /\ q.form.pw = Missing
        /\ Answers(t, 200)
        /\ session' = [session EXCEPT ![t] = q.id]
        /\ UNCHANGED <<admins, errors>>
     \/ /\ q.form.pw \in Passwords
        /\ admins' = [admins EXCEPT ![q.id].pw = q.form.pw]
        /\ tab' = [Crossed(t) EXCEPT ![t].pc = "done", ![t].code = 200]
        /\ session' = [session EXCEPT ![t] = q.id]
        /\ NoError
     \/ /\ q.form.pw \in Passwords
        /\ Error /\ Answers(t, 500)
        /\ UNCHANGED <<admins, session>>
  /\ UNCHANGED boot

ReceiveMe(t) ==
  /\ tab[t].pc = "done"
  /\ tab' = [tab EXCEPT ![t] = NoRequest]
  /\ UNCHANGED <<admins, boot, session, errors>>

---------------------------------------------------------------------------
AccountsInit ==
  /\ admins = <<>> /\ boot = "count" /\ errors = 0
  /\ session = [t \in Tabs |-> 0]
  /\ tab = [t \in Tabs |-> NoRequest]

ServeMe(t) ==
  \/ ReadMe(t) \/ CheckUnique(t) \/ UpdateEmail(t) \/ UpdatePassword(t)
  \/ ReceiveMe(t)

AccountsNext ==
  \/ SeedCount \/ SeedInsert \/ Restart
  \/ \E t \in Tabs :
       \/ \E email \in Emails, pw \in Passwords : Login(t, email, pw)
       \/ \E form \in Forms : StartUpdateMe(t, form)
       \/ TokenEnds(t)
       \/ ServeMe(t)

AccountsSpec == AccountsInit /\ [][AccountsNext]_accounts

---------------------------------------------------------------------------
AccountsTypeOK ==
  /\ admins \in Seq(Accts)
  /\ boot \in {"count", "insert", "serving"}
  /\ session \in [Tabs -> Nat]
  /\ tab \in [Tabs -> Bodies]
  /\ errors \in Nat

(* Once nobody has the configured first password any more, it opens no     *)
(* account again, whatever e-mail addresses were changed and however often *)
(* the server restarts, unless an administrator asks for it by name.       *)
Asks(t, pw) == tab[t].pc = "me_password" /\ tab[t].form.pw = pw
Retired(pw) == admins # <<>> /\ \A i \in Ids : admins[i].pw # pw
DefaultPasswordStaysGone ==
  [][ Retired(SeedPassword) /\ (\A t \in Tabs : ~Asks(t, SeedPassword))
        => Retired(SeedPassword)' ]_accounts

(* UpdateMe writes the row in two statements.  When no other request has   *)
(* changed it meanwhile, an answer of 200 means that both have been        *)
(* applied, and an answer of 401 or 409 that none has.                     *)
Applied(s, form) ==
  [email |-> IF form.email = Missing THEN s.email ELSE form.email,
   pw |-> IF form.pw = Missing THEN s.pw ELSE form.pw]
AnsweredAsApplied ==
  \A t \in Tabs :
    LET q == tab[t] IN
    q.pc = "done" /\ q.alone =>
      /\ q.code = 200 => admins[q.id] = Applied(q.seen, q.form)
      /\ q.code \in {401, 409} => admins[q.id] = q.seen
=============================================================================
