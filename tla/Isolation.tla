------------------------------ MODULE Isolation ------------------------------
(***************************************************************************)
(* What isolating a Pod means to its traffic, with no word of chains and   *)
(* rules.  Each path into, out of and through the Pod is open to every     *)
(* packet until, in one step, it is closed to all but those that the       *)
(* policies list.  A closed path is never open again and lets nothing      *)
(* through that was not listed at some time; what is always listed is      *)
(* never cut off, unless the tools of the provisioner fail.                *)
(***************************************************************************)
CONSTANTS
  Paths,       \* what can be closed separately
  Packets,     \* kinds of packets
  Always       \* the packets a path is to let through whatever the policies

VARIABLES
  white,       \* the packets listed for each path now
  listed,      \* the packets listed for each path at any time
  accepted,    \* the packets that get through
  healthy      \* no tool has failed

vars == <<white, listed, accepted, healthy>>

Init ==
  /\ white \in [Paths -> SUBSET Packets]
  /\ \A path \in Paths : Always[path] \subseteq white[path]
  /\ listed = white
  /\ accepted = [path \in Paths |-> Packets]
  /\ healthy = TRUE

(* The policies list other packets.                                        *)
Select ==
  /\ white' \in [Paths -> SUBSET Packets]
  /\ \A path \in Paths : Always[path] \subseteq white'[path]
  /\ listed' = [path \in Paths |-> listed[path] \union white'[path]]
  /\ UNCHANGED <<accepted, healthy>>

(* A path that was open is closed.                                         *)
Close(path) ==
  /\ accepted[path] = Packets
  /\ \E kept \in SUBSET listed[path] :
       /\ healthy => kept = white[path]
       /\ accepted' = [accepted EXCEPT ![path] = kept]
  /\ UNCHANGED <<white, listed, healthy>>

(* A path that is closed is adjusted to the policies.                      *)
Adjust(path) ==
  /\ accepted[path] # Packets
  /\ \E kept \in SUBSET listed[path] :
       /\ healthy => Always[path] \subseteq kept
       /\ accepted' = [accepted EXCEPT ![path] = kept]
  /\ UNCHANGED <<white, listed, healthy>>

Break ==
  /\ healthy' = FALSE
  /\ UNCHANGED <<white, listed, accepted>>

Next ==
  \/ Select
  \/ \E path \in Paths : Close(path) \/ Adjust(path)
  \/ Break

Spec == Init /\ [][Next]_vars
=============================================================================
