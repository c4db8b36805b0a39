------------------------------ MODULE MCPolicer ------------------------------
(* Instances of Policer for TLC.                                           *)
EXTENDS Policer

OwnBuckets == [l \in Labels |-> l]

By(labels) == [labels |-> labels, exprs |-> {}, usable |-> TRUE]
Peers(labels, nets) == [pods |-> By(labels), nets |-> nets]
Rule(peers, ports) == <<[peers |-> peers, ports |-> ports]>>

Ep(uid, owner, labels, net, families) ==
  [uid |-> uid, pod |-> owner, labels |-> labels, net |-> net, families |-> families]

(* A web Pod lets in databases on one network and calls out to databases   *)
(* on any; every Pod may call one port of anybody on the network.          *)
WebAndDb ==
  [uid |-> 1, pods |-> By({"web"}),
   ingress |-> Rule({Peers({"db"}, {"storage"})}, {}),
   egress |-> Rule({Peers({"db"}, {})}, {})]
AllToStorage ==
  [uid |-> 2, pods |-> By({}), ingress |-> <<>>,
   egress |-> Rule({Peers({}, {"storage"})},
                   {[protocol |-> "TCP", given |-> "name", port |-> 80]})]

PlainPolicies == {WebAndDb, AllToStorage}

DbOnStorage == Ep(10, 0, {"db"}, "storage", {"v4"})
DbOnMgmt == Ep(11, 0, {"db"}, "mgmt", {"v4", "v6"})
OtherOnStorage == Ep(12, 0, {}, "storage", {"v6"})

(* The interface of a Pod with a UID; one without labels is a peer itself. *)
Wired(u) == {Ep(20 + u, u, {"web"}, "mgmt", {"v4"}), Ep(30 + u, u, {}, "storage", {"v4"})}

Databases == {DbOnStorage, DbOnMgmt, OtherOnStorage}
OnlyPods == UNION {Wired(u) : u \in Uids}

(* A cluster where no database has been deployed yet.                      *)
NoDatabase == {OtherOnStorage}
=============================================================================
