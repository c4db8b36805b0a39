---------------------------- MODULE MCProvisioner ----------------------------
(* Instances of Provisioner for TLC.                                       *)
EXTENDS Provisioner, TLC

CONSTANTS
  p, q, stranger    \* peers; stranger is on no list

Lists(v4in, v4out, v6in) ==
  {[v4 |-> [ingress |-> a, egress |-> b], v6 |-> [ingress |-> c, egress |-> <<>>]] :
      a \in v4in, b \in v4out, c \in v6in}

(* Empty lists, a peer named twice, lists of one and of two.               *)
SomeLists == Lists({<<>>, <<p, p>>, <<q>>, <<q, p>>}, {<<>>, <<p>>}, {<<>>, <<q>>})

NonEmpty(rs) == {path \in Families \X Dirs : rs[path[1]][path[2]] # <<>>}

(* The policies may change, but not as to which chains hold rules.         *)
SameChains == [rs \in RuleSets |-> {other \in RuleSets : NonEmpty(other) = NonEmpty(rs)}]

(* The policies may change in any way.                                     *)
AnyChange == [rs \in RuleSets |-> RuleSets]
=============================================================================
