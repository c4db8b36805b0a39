------------------------------- MODULE Cluster -------------------------------
(***************************************************************************)
(* The cluster the Cleaner works on and races with: the API server's Pods  *)
(* and DanmEps, DANM's address allocations, the kubelets and DANM's CNI    *)
(* plugin.  None of it is code of this repository; it is modelled from     *)
(* what pkg/cleaner and pkg/danmep read of it and do to it.                *)
(***************************************************************************)
EXTENDS Integers, FiniteSets, ReleaseService

CONSTANTS
  Names,        \* keys (namespace/name) of Pods
  Ifaces,       \* interfaces a Pod can have
  V4, V6,       \* addresses of each family
  NetTypes,     \* network types: "danm" (DANM IPAM), "calico", others
  Stacks,       \* the families one interface may have, a set of subsets of {4, 6}
  NoEp,         \* no endpoint: the owner of a free address
  Faults,       \* what may happen besides the normal life of Pods
  MaxUid        \* bound: Pods ever created

(* name_reuse: a Pod is created again under a name used before             *)
(*             (StatefulSets, uncontrolled Pods).                          *)
(* slow_sync:  the first Pod list takes longer than Initialize waits.      *)
(* slow_watch: CNI ADD of a Pod ends before the cache has seen the Pod.    *)
(* node_flap:  the phase of a healthy Pod turns Unknown and back.          *)
(* late_del:   CNI DEL of a Pod runs after its object left the API server. *)
FaultKinds == {"name_reuse", "slow_sync", "slow_watch", "node_flap", "late_del"}

IP == V4 \union V6
Uids == 1 .. MaxUid
Phases == {"none", "pending", "running", "ended", "unknown"}
Pod == [phase : Phases, uid : 0 .. MaxUid]
NoPod == [phase |-> "none", uid |-> 0]

(* What a DanmEp carries: Spec.Pod (with its namespace), Spec.PodUID,      *)
(* Spec.Iface and Spec.NetworkType.  One is recorded per Pod UID and       *)
(* interface, so its fields name it as its own random name does.           *)
Endpoint == [pod : Names, uid : Uids, iface : Ifaces, type : NetTypes,
             v4 : V4 \union {NoIP}, v6 : V6 \union {NoIP}]

IPs(ep) == {ep.v4, ep.v6} \ {NoIP}

ASSUME AddressAssumption == V4 \intersect V6 = {} /\ NoIP \notin IP
ASSUME EpAssumption == NoEp \notin Endpoint
ASSUME StacksAssumption == Stacks \subseteq SUBSET {4, 6}
ASSUME FaultsAssumption == Faults \subseteq FaultKinds
ASSUME UidAssumption == MaxUid \in Nat

VARIABLES
  pods,         \* the Pod of each name in the API server, UID kept after deletion
  uids,         \* Pods created so far
  eps,          \* the DanmEps in the API server
  owner,        \* allocation bit of each address, with the endpoint it was set for
  wired         \* endpoints in use by a live container (no code reads it)

cluster == <<pods, uids, eps, owner, wired>>

InApi(n) == pods[n].phase # "none"

(* What a list or watch of the API server says of the Pod of a name.       *)
View(n) == IF InApi(n) THEN pods[n] ELSE NoPod

(* The Pod a DanmEp was recorded for is still in the API server.           *)
PodExists(ep) == InApi(ep.pod) /\ pods[ep.pod].uid = ep.uid

ClusterInit ==
  /\ pods = [n \in Names |-> NoPod]
  /\ uids = 0
  /\ eps = {}
  /\ owner = [ip \in IP |-> NoEp]
  /\ wired = {}

PodCreate(n) ==
  /\ ~InApi(n)
  /\ pods[n].uid # 0 => "name_reuse" \in Faults
  /\ uids < MaxUid
  /\ uids' = uids + 1
  /\ pods' = [pods EXCEPT ![n] = [phase |-> "pending", uid |-> uids + 1]]
  /\ UNCHANGED <<eps, owner, wired>>

(* CNI ADD of one interface: DANM reserves an address of each family of    *)
(* the interface and records the DanmEp.                                   *)
CniAdd(n, i) ==
  /\ pods[n].phase = "pending"
  /\ \A e \in wired : ~(e.uid = pods[n].uid /\ e.iface = i)
  /\ \E e \in Endpoint :
       /\ e.pod = n /\ e.uid = pods[n].uid /\ e.iface = i
       /\ e.type \in NetTypes
       /\ \E stack \in Stacks : /\ (e.v4 # NoIP) <=> (4 \in stack)
                                /\ (e.v6 # NoIP) <=> (6 \in stack)
       /\ \A ip \in IPs(e) : /\ owner[ip] = NoEp
                             /\ ip \in Cidr <=> e.type = "danm"
       /\ eps' = eps \union {e}
       /\ owner' = [ip \in IP |-> IF ip \in IPs(e) THEN e ELSE owner[ip]]
       /\ wired' = wired \union {e}
  /\ UNCHANGED <<pods, uids>>

PodRun(n) ==
  /\ pods[n].phase = "pending"
  /\ pods' = [pods EXCEPT ![n].phase = "running"]
  /\ UNCHANGED <<uids, eps, owner, wired>>

(* The containers of a Pod end for good (Succeeded, Failed, being          *)
(* terminated): its endpoints are in use no more.                          *)
PodEnd(n) ==
  /\ pods[n].phase \in {"pending", "running"}
  /\ pods' = [pods EXCEPT ![n].phase = "ended"]
  /\ wired' = {e \in wired : e.uid # pods[n].uid}
  /\ UNCHANGED <<uids, eps, owner>>

(* The Pod object goes away, whatever state its node was in.               *)
PodDelete(n) ==
  /\ InApi(n)
  /\ pods' = [pods EXCEPT ![n].phase = "none"]
  /\ wired' = {e \in wired : e.uid # pods[n].uid}
  /\ UNCHANGED <<uids, eps, owner>>

(* A node loses its connection; the Pods on it keep running.               *)
NodeLost(n) ==
  /\ "node_flap" \in Faults
  /\ pods[n].phase = "running"
  /\ pods' = [pods EXCEPT ![n].phase = "unknown"]
  /\ UNCHANGED <<uids, eps, owner, wired>>

NodeBack(n) ==
  /\ pods[n].phase = "unknown"
  /\ pods' = [pods EXCEPT ![n].phase = "running"]
  /\ UNCHANGED <<uids, eps, owner, wired>>

(* CNI DEL, run by the kubelet once the containers of the Pod stopped and  *)
(* before it lets the Pod object go: DANM frees the addresses and deletes  *)
(* the DanmEp.                                                             *)
CniDel(e) ==
  /\ e \in eps /\ e \notin wired
  /\ "late_del" \notin Faults => PodExists(e)
  /\ eps' = eps \ {e}
  /\ owner' = [ip \in IP |-> IF ip \in IPs(e) THEN NoEp ELSE owner[ip]]
  /\ UNCHANGED <<pods, uids, wired>>

(* Everything but CniAdd, which a composition constrains.                  *)
PodStep(n) ==
  \/ PodCreate(n) \/ PodRun(n) \/ PodEnd(n) \/ PodDelete(n)
  \/ NodeLost(n) \/ NodeBack(n)

ClusterTypeOK ==
  /\ pods \in [Names -> Pod]
  /\ uids \in 0 .. MaxUid
  /\ eps \subseteq Endpoint
  /\ owner \in [IP -> Endpoint \union {NoEp}]
  /\ wired \subseteq Endpoint
=============================================================================
