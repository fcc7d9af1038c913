-------------------------- MODULE RegistryTheorems --------------------------
(***************************************************************************)
(* What follows from ClientRegistry alone.                                 *)
(***************************************************************************)
EXTENDS ClientRegistry, TLAPS

(* Every key of a client has been made, and none of them is fresh.         *)
RegistryInv ==
  /\ keys \in [Clients -> SUBSET Keys]
  /\ fresh \subseteq used
  /\ \A c \in Clients : keys[c] \subseteq used /\ keys[c] \cap fresh = {}

LEMMA RegistryInit == Init => RegistryInv
BY DEF Init, RegistryInv

(* A step on one client takes its keys from those it has and one that is   *)
(* fresh and not so afterwards.                                            *)
LEMMA RegistryStep ==
  ASSUME RegistryInv, NEW c \in Clients, NEW k \in Keys \cap fresh,
         NEW ks \in SUBSET (keys[c] \cup {k}),
         keys' = [keys EXCEPT ![c] = ks],
         fresh' = fresh \ {k}, UNCHANGED used
  PROVE  RegistryInv' /\ \A j \in Keys : Revoked(j) => Revoked(j)'
<1>1. ks \in SUBSET Keys /\ ks \subseteq used /\ k \in used
  BY DEF RegistryInv
<1>2. \A d \in Clients : keys'[d] = IF d = c THEN ks ELSE keys[d]
  BY DEF RegistryInv
<1>3. RegistryInv'
  BY <1>1, <1>2 DEF RegistryInv
<1>4. ASSUME NEW j \in Keys, Revoked(j) PROVE Revoked(j)'
  <2>1. j # k /\ j \notin ks
    BY <1>4 DEF Revoked
  <2> QED BY <1>2, <1>4, <2>1 DEF Revoked
<1> QED BY <1>3, <1>4

LEMMA RegistryNext ==
  ASSUME RegistryInv, [Next]_registry
  PROVE  RegistryInv' /\ \A j \in Keys : Revoked(j) => Revoked(j)'
<1>1. CASE \E k \in Keys : Make(k)
  <2> PICK k \in Keys : Make(k)
    BY <1>1
  <2>1. RegistryInv'
    BY DEF Make, RegistryInv
  <2> QED BY <2>1 DEF Make, Revoked
<1>2. CASE Abandon
  BY <1>2 DEF Abandon, RegistryInv, Revoked
<1>3. ASSUME NEW c \in Clients, Meet(c) \/ Confirm(c)
      PROVE  RegistryInv' /\ \A j \in Keys : Revoked(j) => Revoked(j)'
  BY <1>3 DEF Meet, Confirm, RegistryInv, Revoked
<1>4. ASSUME NEW c \in Clients, Delete(c)
      PROVE  RegistryInv' /\ \A j \in Keys : Revoked(j) => Revoked(j)'
  <2>1. \A d \in Clients : keys'[d] = IF d = c THEN {} ELSE keys[d]
    BY <1>4 DEF Delete, RegistryInv
  <2>2. RegistryInv'
    BY <1>4, <2>1 DEF Delete, RegistryInv
  <2> QED BY <1>4, <2>1, <2>2 DEF Delete, Revoked
<1>5. ASSUME NEW c \in Clients, NEW k \in Keys, Create(c, k)
      PROVE  RegistryInv' /\ \A j \in Keys : Revoked(j) => Revoked(j)'
  <2>1. k \in Keys \cap fresh /\ {k} \in SUBSET (keys[c] \cup {k})
    BY <1>5 DEF Create
  <2> QED BY <1>5, <2>1, RegistryStep DEF Create
<1>6. ASSUME NEW c \in Clients, NEW k \in Keys, NEW kept \in SUBSET keys[c],
             Rotate(c, k, kept)
      PROVE  RegistryInv' /\ \A j \in Keys : Revoked(j) => Revoked(j)'
  <2>1. k \in Keys \cap fresh /\ kept \cup {k} \in SUBSET (keys[c] \cup {k})
    BY <1>6 DEF Rotate
  <2> QED BY <1>6, <2>1, RegistryStep DEF Rotate
<1>7. CASE UNCHANGED registry
  BY <1>7 DEF registry, RegistryInv, Revoked
<1> QED BY <1>1, <1>2, <1>3, <1>4, <1>5, <1>6, <1>7 DEF Next

(* Whoever implements the registry never brings a revoked key back.        *)
THEOREM RevokedForGood == Spec => RevokedStaysRevoked
<1>1. RegistryInv /\ [Next]_registry => RegistryInv'
  BY RegistryNext
<1>2. RegistryInv /\ [Next]_registry
        => [\A k \in Keys : Revoked(k) => Revoked(k)']_registry
  BY RegistryNext
<1> QED BY RegistryInit, <1>1, <1>2, PTL DEF Spec, RevokedStaysRevoked
=============================================================================
