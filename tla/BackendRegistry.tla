-------------------------- MODULE BackendRegistry --------------------------
(***************************************************************************)
(* The backend as an implementation of ClientRegistry.  Rows are the       *)
(* state; a request that has generated a key pair and not yet committed it *)
(* holds it as fresh.                                                      *)
(***************************************************************************)
EXTENDS BackendInv

Life == [c \in Clients |-> IF Live(c) THEN "live" ELSE status[c]]
PairsInFlight == {req[r].key : r \in {s \in Slots : req[s].pc \in KeyPCs}}

Registry == INSTANCE ClientRegistry WITH
  life <- Life, keys <- active, confirmed <- acked,
  used <- generated, fresh <- PairsInFlight, met <- overlap

(* The statements of CreateClient, RotateKey, DeleteClient and             *)
(* AgentHeartbeat, interleaved with each other, failing and cut off by     *)
(* crashes of the server, change the keys of a client only as the registry *)
(* allows: all at once, and never back to a revoked key.                   *)
RefinesRegistry == Registry!Spec

(* In particular, a key that was rotated away, or went with its client, is *)
(* never again in an ssh_keys row.                                         *)
KeysNeverReturn == Registry!RevokedStaysRevoked
=============================================================================
