----------------------------- MODULE MCShowAlloc -----------------------------
(* Instances of ShowAlloc for TLC.                                         *)
EXTENDS ShowAlloc

Anywhere == 0 .. 3 * Low - 1

Pool(ip, size, start, end) == [ip |-> ip, size |-> size, start |-> start, end |-> end]
Net(kind, ns, v4, v6) ==
  [kind |-> kind, ns |-> ns, name |-> "net", pools |-> [v4 |-> v4, v6 |-> v6]]

(* The CIDRs of the first two overlap in IPv4; those of the first and the  *)
(* last have last bytes in common in IPv6.                                 *)
DNet == Net("DanmNet", "a", Pool(10, 8, 10, 13), Pool(Low + 5, 4, Low + 4, Low + 7))
CNet == Net("ClusterNetwork", None, Pool(8, 8, 9, 14), None)
TNet == Net("TenantNetwork", "a", None, Pool(2 * Low, 8, 2 * Low + 2, 2 * Low + 5))

SomeNetworks == {DNet, CNet, TNet}

Ep(pod, ns, n, v4, v6) == [pod |-> pod, ns |-> ns, net |-> n, addr |-> [v4 |-> v4, v6 |-> v6]]

SomeEndpoints == {
  Ep("web", "a", DNet, 10, Low + 5),
  Ep("db", "a", DNet, 13, Low + 5),
  Ep("log", "a", CNet, 13, None),
  Ep("far", "b", CNet, 14, None),
  Ep("own", "a", TNet, None, 2 * Low + 5)}

Names(kinds) == [kind \in Kinds |-> IF kind \in kinds THEN "net" ELSE None]

SomeRequests ==
  [name : {Names({"DanmNet"}), Names({"DanmNet", "TenantNetwork"}),
           Names({"ClusterNetwork", "TenantNetwork"}), Names({"TenantNetwork"})},
   ns : {"a", "b"}, family : Families,
   sub : {Anywhere, 12 .. 15, 2 * Low + 4 .. 2 * Low + 5}, all : BOOLEAN]
=============================================================================
