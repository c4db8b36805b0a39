--------------------------- MODULE PolicySelection ---------------------------
(***************************************************************************)
(* DANM Policer's selection (pkg/polset, pkg/depset, pkg/netruleset): which *)
(* policies select a Pod, which DanmEps their peers select, and which      *)
(* rules follow.  Policies and DanmEps are those of the namespace of the   *)
(* Pod.  All accept rules of a chain are alike to packets, and all lists   *)
(* are deduplicated by UID, so lists are sets here.                        *)
(***************************************************************************)
EXTENDS Integers, Sequences

CONSTANTS
  Labels,       \* label pairs, key and value
  BucketOf,     \* [Labels -> names]: key and value put together
  Networks      \* networks, name and API type; a missing type is "DanmNet"

Families == {"v4", "v6"}
Dirs == {"ingress", "egress"}

(* A LabelSelector: matchLabels, the matchExpressions LabelSelectorAsMap   *)
(* makes pairs of, and whether there are no others, which make it fail.    *)
Selector == [labels : SUBSET Labels, exprs : SUBSET Labels, usable : BOOLEAN]
Pairs(selector) == selector.labels \union selector.exprs

(* A port, given by name (or by digits in quotes) or by number.            *)
Port == [protocol : {"TCP", "UDP"}, given : {"name", "number"}, port : Nat]
AnyPort == [protocol |-> "any", port |-> 0]

Peer == [pods : Selector, nets : SUBSET Networks]
PolicyRule == [peers : SUBSET Peer, ports : SUBSET Port]

(* A policy; its rules of each direction are a list.                       *)
Policy == [uid : Nat, pods : Selector, ingress : Seq(PolicyRule), egress : Seq(PolicyRule)]

(* What a DanmEp has of interest; its addresses are named by its UID.      *)
DanmEp == [uid : Nat, pod : Nat, labels : SUBSET Labels, net : Networks,
           families : SUBSET Families]

ASSUME BucketsAssumption == Labels \subseteq DOMAIN BucketOf

-----------------------------------------------------------------------------
(* pkg/polset.                                                             *)

Buckets(labels) == {BucketOf[l] : l \in labels}

(* sortPoliciesIntoBuckets: a policy goes into the bucket of each pair of  *)
(* its selector, or the default bucket if it has none.                     *)
DefaultBucket(pols) == {pol \in pols : pol.pods.usable /\ Pairs(pol.pods) = {}}
PolicyBucket(pols, bucket) ==
  {pol \in pols : pol.pods.usable /\ bucket \in Buckets(Pairs(pol.pods))}

FilterApplicablePolicies(pols, labels) ==
  DefaultBucket(pols) \union UNION {PolicyBucket(pols, bucket) : bucket \in Buckets(labels)}

-----------------------------------------------------------------------------
(* pkg/depset and pkg/netruleset.                                          *)

(* sortDeps.                                                               *)
DanmEpsByLabel(deps, bucket) == {dep \in deps : bucket \in Buckets(dep.labels)}
DanmEpsByNetwork(deps, net) == {dep \in deps : dep.net = net}
PodEps(deps, pod) == {dep \in deps : dep.pod = pod}

FilterDepsByPodSelector(deps, selector) ==
  IF selector.labels = {} \/ ~selector.usable
    THEN {}
    ELSE UNION {DanmEpsByLabel(deps, bucket) : bucket \in Buckets(Pairs(selector))}

FilterDepsByNetworkSelector(deps, nets) ==
  UNION {DanmEpsByNetwork(deps, net) : net \in nets}

(* Mutant: a plain union.                                                  *)
UniteDepSets(first, second) == first \union second

IntersectDepSets(first, second) ==
  IF first = {} THEN second
  ELSE IF second = {} THEN first
  ELSE first \intersect second

(* Of a port, the rule gets the string and the protocol: a number is lost. *)
RulePort(port) ==
  [protocol |-> port.protocol, port |-> IF port.given = "name" THEN port.port ELSE 0]

(* The side of a packet that address and port of a rule are compared with: *)
(* the peer's, whichever way the packet goes.                              *)
PeerSide == [ingress |-> "source", egress |-> "destination"]

NewNetRules(dep, ports, dir) ==
  {[side |-> PeerSide[dir], dep |-> dep.uid, ports |-> match] :
     match \in IF ports = {} THEN {AnyPort} ELSE {RulePort(port) : port \in ports}}

ParsePolicyRules(deps, rule, family, dir) ==
  UNION {
    LET selected == IntersectDepSets(FilterDepsByPodSelector(deps, peer.pods),
                                     FilterDepsByNetworkSelector(deps, peer.nets))
    IN  UNION {NewNetRules(dep, rule.ports, dir) :
                 dep \in {d \in selected : family \in d.families}}
    : peer \in rule.peers}

(* Only the first rule of each direction is read.                          *)
FirstRules(list, deps, family, dir) ==
  IF list = <<>> THEN {} ELSE ParsePolicyRules(deps, list[1], family, dir)

NewNetRuleSet(pols, deps) ==
  [f \in Families |->
    [ingress |-> UNION {FirstRules(pol.ingress, deps, f, "ingress") : pol \in pols},
     egress  |-> UNION {FirstRules(pol.egress, deps, f, "egress") : pol \in pols}]]

-----------------------------------------------------------------------------
(* What the user guide says of the selectors: several of them, and several *)
(* labels of one, restrict; policies, rules and peers add up.              *)

Selects(selector, labels) == Pairs(selector) \subseteq labels

SelectedBy(pols, labels) == {pol \in pols : Selects(pol.pods, labels)}

PeerSelects(peer, dep) ==
  /\ Pairs(peer.pods) # {} \/ peer.nets # {}
  /\ Selects(peer.pods, dep.labels)
  /\ peer.nets # {} => dep.net \in peer.nets

Listed(list, deps, family) ==
  {dep \in deps : family \in dep.families
                  /\ \E i \in DOMAIN list : \E peer \in list[i].peers : PeerSelects(peer, dep)}

(* The DanmEps that the policies whitelist.                                *)
Whitelist(pols, deps) ==
  [f \in Families |->
    [ingress |-> UNION {Listed(pol.ingress, deps, f) : pol \in pols},
     egress  |-> UNION {Listed(pol.egress, deps, f) : pol \in pols}]]
=============================================================================
