---------------------------- MODULE AddressLedger ----------------------------
(***************************************************************************)
(* What the parties that handle DANM addresses together promise, with no   *)
(* word about how: addresses are reserved for recorded endpoints, and the  *)
(* record of an endpoint is dropped only once every address it carries has *)
(* been handed back, so that no reservation is ever orphaned.  This is the *)
(* contract stated above DeleteDanmEp (pkg/danmep/interface.go).           *)
(***************************************************************************)
CONSTANTS
  Endpoint,      \* every endpoint that may ever be recorded
  IP,            \* the addresses that can be reserved
  AddressesOf,   \* the addresses an endpoint carries, [Endpoint -> SUBSET IP]
  NoEp           \* the owner of a free address

VARIABLES
  eps,           \* the endpoints on record
  owner          \* for whom each address is reserved

vars == <<eps, owner>>

Init ==
  /\ eps = {}
  /\ owner = [ip \in IP |-> NoEp]

(* An endpoint is recorded together with the reservation of its addresses. *)
Attach(e) ==
  /\ e \notin eps
  /\ \A ip \in AddressesOf[e] : owner[ip] = NoEp
  /\ eps' = eps \union {e}
  /\ owner' = [ip \in IP |-> IF ip \in AddressesOf[e] THEN e ELSE owner[ip]]

(* One address is handed back.                                             *)
Release(ip) ==
  /\ owner' = [owner EXCEPT ![ip] = NoEp]
  /\ UNCHANGED eps

(* The record of an endpoint that holds no address any more is dropped.    *)
Forget(e) ==
  /\ \A ip \in AddressesOf[e] : owner[ip] # e
  /\ eps' = eps \ {e}
  /\ UNCHANGED owner

(* An endpoint is torn down in one go: addresses and record together.      *)
Detach(e) ==
  /\ e \in eps
  /\ eps' = eps \ {e}
  /\ owner' = [ip \in IP |-> IF ip \in AddressesOf[e] THEN NoEp ELSE owner[ip]]

Next ==
  \/ \E e \in Endpoint : Attach(e) \/ Forget(e) \/ Detach(e)
  \/ \E ip \in IP : Release(ip)

Spec == Init /\ [][Next]_vars

(* No address stays reserved for an endpoint nobody has on record.         *)
NoOrphan == \A ip \in IP : owner[ip] = NoEp \/ owner[ip] \in eps
=============================================================================
