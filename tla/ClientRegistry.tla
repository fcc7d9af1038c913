--------------------------- MODULE ClientRegistry ---------------------------
(***************************************************************************)
(* What the backend promises about the keys of its clients, without saying *)
(* how: no statements, transactions, locks, requests or crashes.           *)
(*                                                                         *)
(* A client exists from its creation to its deletion and has keys all that *)
(* time.  A key pair is made for one purpose: it becomes a key of one      *)
(* client, once, or it is abandoned.  A rotation replaces every key of the *)
(* client in one step, unless rotations of that client have met.           *)
(***************************************************************************)
CONSTANTS Clients, Keys

VARIABLES
  life,        \* "absent", "live" or "deleted"
  keys,        \* the keys that open the client's machine
  confirmed,   \* keys known to be installed there
  used,        \* key pairs made so far
  fresh,       \* ... which may still become a key of a client
  met          \* clients whose rotations have met

registry == <<life, keys, confirmed, used, fresh, met>>

Init ==
  /\ life = [c \in Clients |-> "absent"]
  /\ keys = [c \in Clients |-> {}]
  /\ confirmed = {} /\ used = {} /\ fresh = {} /\ met = {}

Make(k) ==
  /\ k \notin used
  /\ used' = used \cup {k}
  /\ fresh' = fresh \cup {k}
  /\ UNCHANGED <<life, keys, confirmed, met>>

Abandon ==
  /\ fresh' \in SUBSET fresh
  /\ UNCHANGED <<life, keys, confirmed, used, met>>

Create(c, k) ==
  /\ life[c] = "absent" /\ k \in fresh
  /\ life' = [life EXCEPT ![c] = "live"]
  /\ keys' = [keys EXCEPT ![c] = {k}]
  /\ confirmed' = confirmed \cup {k}
  /\ fresh' = fresh \ {k}
  /\ UNCHANGED <<used, met>>

Meet(c) ==
  /\ met' = met \cup {c}
  /\ UNCHANGED <<life, keys, confirmed, used, fresh>>

Rotate(c, k, kept) ==
  /\ life[c] = "live" /\ k \in fresh
  /\ kept # {} => c \in met
  /\ keys' = [keys EXCEPT ![c] = kept \cup {k}]
  /\ confirmed' \subseteq confirmed /\ confirmed \cap kept \subseteq confirmed'
  /\ fresh' = fresh \ {k}
  /\ UNCHANGED <<life, used, met>>

Confirm(c) ==
  /\ confirmed' = confirmed \cup keys[c]
  /\ UNCHANGED <<life, keys, used, fresh, met>>

Delete(c) ==
  /\ life[c] = "live"
  /\ life' = [life EXCEPT ![c] = "deleted"]
  /\ keys' = [keys EXCEPT ![c] = {}]
  /\ confirmed' = confirmed \ keys[c]
  /\ UNCHANGED <<used, fresh, met>>

Next ==
  \/ \E k \in Keys : Make(k)
  \/ Abandon
  \/ \E c \in Clients :
       \/ Meet(c) \/ Confirm(c) \/ Delete(c)
       \/ \E k \in Keys : Create(c, k)
       \/ \E k \in Keys, kept \in SUBSET keys[c] : Rotate(c, k, kept)

Spec == Init /\ [][Next]_registry

---------------------------------------------------------------------------
(* A key that was rotated away, or went with its client, never opens a     *)
(* machine again: not that of its client, and not that of another.         *)
Revoked(k) == k \in used \ fresh /\ \A c \in Clients : k \notin keys[c]
RevokedStaysRevoked == [][\A k \in Keys : Revoked(k) => Revoked(k)']_registry
=============================================================================
