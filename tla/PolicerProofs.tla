---------------------------- MODULE PolicerProofs ----------------------------
(***************************************************************************)
(* Proofs about PolicySelection, which policies reach a Pod for any        *)
(* policies and labels, and about Policer: its types, the rules it hands   *)
(* over, that it forgets no Pod, and that its work runs out.               *)
(***************************************************************************)
EXTENDS Policer, SequenceTheorems, TLAPS

-----------------------------------------------------------------------------
(* The policies of a Pod.                                                  *)

(* However labels share buckets, FilterApplicablePolicies passes over no   *)
(* policy that selects the Pod, unless its selector cannot be parsed.      *)
THEOREM NoPolicyPassedOver ==
  ASSUME NEW pols, NEW labels, NEW pol \in SelectedBy(pols, labels), pol.pods.usable
  PROVE  pol \in FilterApplicablePolicies(pols, labels)
<1>1. pol \in pols /\ Pairs(pol.pods) \subseteq labels
  BY DEF SelectedBy, Selects
<1>2. CASE Pairs(pol.pods) = {}
  BY <1>1, <1>2 DEF FilterApplicablePolicies, DefaultBucket
<1>3. CASE Pairs(pol.pods) # {}
  <2>1. PICK l \in Pairs(pol.pods) : l \in labels
    BY <1>1, <1>3
  <2>2. /\ BucketOf[l] \in Buckets(Pairs(pol.pods))
        /\ BucketOf[l] \in Buckets(labels)
    BY <2>1 DEF Buckets
  <2>3. pol \in PolicyBucket(pols, BucketOf[l])
    BY <1>1, <2>2 DEF PolicyBucket
  <2> QED BY <2>2, <2>3 DEF FilterApplicablePolicies
<1> QED BY <1>2, <1>3

(* Labels meet a selector as a whole if they have all of its pairs or none *)
(* of them; one of several does for Policer, where the guide wants all.    *)
AllOrNone(selector, labels) ==
  Pairs(selector) \subseteq labels \/ Pairs(selector) \intersect labels = {}

(* A selector of one pair is always met as a whole.                        *)
LEMMA OnePairAllOrNone ==
  ASSUME NEW selector, NEW labels, \A l, m \in Pairs(selector) : l = m
  PROVE  AllOrNone(selector, labels)
BY DEF AllOrNone

(* If pairs have buckets of their own and a Pod meets each selector as a   *)
(* whole, the policies applied are those that select the Pod.              *)
THEOREM SelectorsMetWhole ==
  ASSUME NEW pols, NEW labels \in SUBSET Labels,
         \A pol \in pols : pol.pods.usable /\ Pairs(pol.pods) \subseteq Labels,
         \A pol \in pols : AllOrNone(pol.pods, labels),
         \A l, m \in Labels : BucketOf[l] = BucketOf[m] => l = m
  PROVE  FilterApplicablePolicies(pols, labels) = SelectedBy(pols, labels)
<1>1. ASSUME NEW pol \in FilterApplicablePolicies(pols, labels)
      PROVE  pol \in SelectedBy(pols, labels)
  <2>1. CASE pol \in DefaultBucket(pols)
    BY <2>1 DEF DefaultBucket, SelectedBy, Selects
  <2>2. ASSUME NEW bucket \in Buckets(labels), pol \in PolicyBucket(pols, bucket)
        PROVE  pol \in SelectedBy(pols, labels)
    <3>1. pol \in pols /\ bucket \in Buckets(Pairs(pol.pods))
      BY <2>2 DEF PolicyBucket
    <3>2. PICK l \in Pairs(pol.pods) : bucket = BucketOf[l]
      BY <3>1 DEF Buckets
    <3>3. PICK m \in labels : bucket = BucketOf[m]
      BY <2>2 DEF Buckets
    <3>4. l = m
      BY <3>1, <3>2, <3>3
    <3>5. Pairs(pol.pods) \subseteq labels
      BY <3>1, <3>2, <3>3, <3>4 DEF AllOrNone
    <3> QED BY <3>1, <3>5 DEF SelectedBy, Selects
  <2> QED BY <2>1, <2>2 DEF FilterApplicablePolicies
<1>2. SelectedBy(pols, labels) \subseteq FilterApplicablePolicies(pols, labels)
  BY NoPolicyPassedOver DEF SelectedBy
<1> QED BY <1>1, <1>2

-----------------------------------------------------------------------------
(* Types.                                                                  *)

LEMMA PodHere == ASSUME NEW p \in Pod, p # NoPod PROVE p.uid \in Uids
BY DEF Pod

LEMMA InitTypeOK == Init => TypeOK
<1> SUFFICES ASSUME Init PROVE TypeOK
  OBVIOUS
<1>1. NoPod \in Pod /\ MaxRetryCount \in Nat \ {0} /\ MaxUid \in Nat
      /\ MaxErrors \in Nat /\ MaxRestarts \in Nat
  BY PolicerBounds DEF Pod
<1>2. <<>> \in Seq(Pod \X Pod)
  OBVIOUS
<1> QED BY <1>1, <1>2 DEF Init, TypeOK

(* The cluster changes its own variables only.                             *)
LEMMA ClusterTypeOK == ASSUME TypeOK, Cluster PROVE TypeOK'
<1>1. /\ UNCHANGED <<phase, seen, events, step, pod, policySet, tries, unlisted, errors, restarts>>
  BY DEF Cluster, handler, bounds
<1>2. /\ pods' \in [Names -> Pod] /\ uids' \in 0 .. MaxUid
      /\ policies' \subseteq AllPolicies /\ deps' \subseteq Standing \union Passing
  <2> USE DEF TypeOK
  <2>1. ASSUME NEW n \in Names, CreatePod(n)
        PROVE  pods' \in [Names -> Pod] /\ uids' \in 0 .. MaxUid /\ UNCHANGED <<policies, deps>>
    <3>1. PICK labels \in LabelSets :
            pods' = [pods EXCEPT ![n] = [uid |-> uids + 1, labels |-> labels, node |-> "unassigned"]]
      BY <2>1 DEF CreatePod
    <3>2. uids + 1 \in Uids
      BY <2>1, PolicerBounds DEF CreatePod, Uids
    <3>3. [uid |-> uids + 1, labels |-> labels, node |-> "unassigned"] \in Pod
      BY <3>2 DEF Pod
    <3> QED BY <2>1, <3>1, <3>2, <3>3 DEF CreatePod, Uids
  <2>2. ASSUME NEW n \in Names, Schedule(n)
        PROVE  pods' \in [Names -> Pod] /\ UNCHANGED <<uids, policies, deps>>
    <3>1. PICK node \in {"here", "elsewhere"} : pods' = [pods EXCEPT ![n].node = node]
      BY <2>2 DEF Schedule
    <3>2. pods[n] \in [uid : Uids, labels : LabelSets, node : {"unassigned", "here", "elsewhere"}]
      BY <2>2 DEF Schedule, Pod, NoPod
    <3>3. [pods[n] EXCEPT !.node = node] \in Pod
      BY <3>2 DEF Pod
    <3> QED BY <2>2, <3>1, <3>3 DEF Schedule
  <2>3. ASSUME NEW n \in Names, DeletePod(n)
        PROVE  pods' \in [Names -> Pod] /\ UNCHANGED <<uids, policies, deps>>
    BY <2>3 DEF DeletePod, Pod
  <2>4. ASSUME NEW dep \in Passing, Record(dep) \/ Drop(dep)
        PROVE  deps' \subseteq Standing \union Passing /\ UNCHANGED <<pods, uids, policies>>
    BY <2>4 DEF Record, Drop
  <2>5. ASSUME NEW pol \in AllPolicies, ChangePolicies(pol)
        PROVE  policies' \subseteq AllPolicies /\ UNCHANGED <<pods, uids, deps>>
    BY <2>5 DEF ChangePolicies
  <2> QED BY <2>1, <2>2, <2>3, <2>4, <2>5 DEF Cluster
<1> QED BY <1>1, <1>2 DEF TypeOK

LEMMA RetryTypeOK ==
  ASSUME TypeOK, Retry \/ Finish
  PROVE  /\ step' \in {step, "idle"} /\ tries' \in 0 .. MaxRetryCount - 1
         /\ policySet' \subseteq AllPolicies
         /\ \/ step' = step /\ pod' = pod
            \/ step' = "idle" /\ pod' = NoPod
BY PolicerBounds DEF Retry, Finish, TypeOK

LEMMA NextTypeOK == ASSUME TypeOK, [Next]_vars PROVE TypeOK'
<1> USE DEF TypeOK
<1>1. CASE Cluster
  BY <1>1, ClusterTypeOK
<1>2. ASSUME NEW n \in Names, Notice(n) PROVE TypeOK'
  <2>1. seen' = [seen EXCEPT ![n] = pods[n]] /\ phase # "discovering"
    BY <1>2 DEF Notice
  <2>2. events' \in Seq(Pod \X Pod)
    BY <1>2 DEF Notice
  <2> QED BY <1>2, <2>1, <2>2 DEF Notice, world, handler, bounds
<1>3. CASE AddPod
  <2> DEFINE new == Head(events)[2]
  <2>1. /\ step = "idle" /\ events # <<>> /\ events' = Tail(events)
        /\ UNCHANGED <<pods, uids, policies, deps, phase, seen, policySet, tries, unlisted, errors, restarts>>
    BY <1>3 DEF AddPod, world, bounds
  <2>2. events' \in Seq(Pod \X Pod) /\ new \in Pod
    BY <2>1
  <2>3. \/ step' = "policies" /\ pod' = new /\ new.node = "here"
        \/ UNCHANGED <<step, pod>>
    BY <1>3 DEF AddPod
  <2>4. new.node = "here" => new # NoPod
    BY DEF NoPod
  <2>5. pod' \in Pod /\ step' \in {"idle", "policies", "deps"}
        /\ (step' = "idle" <=> pod' = NoPod)
        /\ (phase = "discovering" => step' = "idle" /\ events' = <<>>)
    <3> HIDE DEF new
    <3> QED BY <2>1, <2>2, <2>3, <2>4
  <2> QED BY <2>1, <2>2, <2>5
<1>4. CASE ListPolicies
  <2>1. /\ step = "policies"
        /\ UNCHANGED <<pods, uids, policies, deps, phase, seen, events, restarts>>
    BY <1>4 DEF ListPolicies, world
  <2>2. pod.uid \in Uids
    BY <2>1, PodHere
  <2>3. errors' \in 0 .. MaxErrors /\ unlisted' \subseteq Uids
    BY <1>4, <2>2, PolicerBounds DEF ListPolicies
  <2>4. \/ Finish
        \/ step' = "deps" /\ policySet' = policies /\ UNCHANGED <<pod, tries>>
    BY <1>4 DEF ListPolicies
  <2>5. CASE Finish
    <3>1. step' = "idle" /\ pod' = NoPod /\ policySet' = {} /\ tries' = 0
      BY <2>5 DEF Finish
    <3>2. NoPod \in Pod /\ 0 \in 0 .. MaxRetryCount - 1
      BY PolicerBounds DEF Pod
    <3> QED BY <2>1, <2>3, <3>1, <3>2
  <2>6. CASE step' = "deps" /\ policySet' = policies /\ UNCHANGED <<pod, tries>>
    BY <2>1, <2>3, <2>6
  <2> QED BY <2>4, <2>5, <2>6
<1>5. CASE ListDanmEps
  <2>1. /\ step = "deps"
        /\ UNCHANGED <<pods, uids, policies, deps, phase, seen, events, unlisted, restarts>>
    BY <1>5 DEF ListDanmEps, world
  <2>2. errors' \in 0 .. MaxErrors /\ (Retry \/ Finish)
    BY <1>5, PolicerBounds DEF ListDanmEps
  <2>3. NoPod \in Pod
    BY DEF Pod
  <2>4. /\ step' \in {"deps", "idle"} /\ tries' \in 0 .. MaxRetryCount - 1
        /\ policySet' \subseteq AllPolicies /\ pod' \in Pod
        /\ (step' = "idle" <=> pod' = NoPod)
    BY <2>1, <2>2, <2>3, RetryTypeOK
  <2> QED BY <2>1, <2>2, <2>4
<1>6. CASE Discovered \/ NotDiscovered
  <2>1. tries' \in 0 .. MaxRetryCount - 1
    BY <1>6, PolicerBounds DEF Discovered, NotDiscovered
  <2> QED BY <1>6, <2>1 DEF Discovered, NotDiscovered, world, bounds
<1>7. CASE BreakWatch
  BY <1>7, PolicerBounds DEF BreakWatch, world, handler
<1>8. CASE Exit \/ Die
  <2>1. restarts' \in 0 .. MaxRestarts /\ StartOver
    BY <1>8, PolicerBounds DEF Exit, Die
  <2>2. /\ phase' = "discovering" /\ seen' = [n \in Names |-> NoPod] /\ events' = <<>>
        /\ step' = "idle" /\ pod' = NoPod /\ policySet' = {} /\ tries' = 0
        /\ UNCHANGED <<pods, uids, policies, deps, unlisted, errors>>
    BY <2>1 DEF StartOver, Finish, world
  <2>3. NoPod \in Pod /\ 0 \in 0 .. MaxRetryCount - 1
    BY PolicerBounds DEF Pod
  <2>4. <<>> \in Seq(Pod \X Pod)
    OBVIOUS
  <2> QED BY <2>1, <2>2, <2>3, <2>4
<1>9. CASE UNCHANGED vars
  BY <1>9 DEF vars, world, handler, bounds
<1> QED BY <1>1, <1>2, <1>3, <1>4, <1>5, <1>6, <1>7, <1>8, <1>9 DEF Next

(* The variables of Policer have their types: whatever comes in whichever  *)
(* order, a handler that is not idle has a Pod in hand, with attempts left *)
(* to it, and nothing waits while the API is being looked for.             *)
THEOREM TypeCorrect == Spec => []TypeOK
BY InitTypeOK, NextTypeOK, PTL DEF Spec

-----------------------------------------------------------------------------
(* Exact selection: policies whose meaning Policer and the user guide      *)
(* agree on, in a cluster that has what they speak of.                     *)

BucketsApart == \A l, m \in Labels : BucketOf[l] = BucketOf[m] => l = m

(* What Policer reads of a policy: selectors that can be parsed, of which  *)
(* one of peers with matchExpressions alone is taken for absent, and the   *)
(* first rule of each direction.                                           *)
ReadablePeer(peer) == peer.pods.usable /\ (Pairs(peer.pods) # {} => peer.pods.labels # {})

ReadableList(list) ==
  /\ list \in Seq(PolicyRule) /\ Len(list) <= 1
  /\ \A i \in DOMAIN list : \A peer \in list[i].peers : ReadablePeer(peer)

ReadablePolicy(pol) ==
  pol.pods.usable /\ ReadableList(pol.ingress) /\ ReadableList(pol.egress)

(* Of two selectors of a peer, one that matches no DanmEp is taken for     *)
(* absent.                                                                 *)
Deployed(peer) ==
  Pairs(peer.pods) # {} /\ peer.nets # {} =>
    /\ \E dep \in Standing : Selects(peer.pods, dep.labels)
    /\ \E dep \in Standing : dep.net \in peer.nets

PlainPeer(peer) ==
  /\ ReadablePeer(peer) /\ Deployed(peer)
  /\ \A dep \in Standing \union Passing : AllOrNone(peer.pods, dep.labels)

PlainList(list) ==
  ReadableList(list) /\ \A i \in DOMAIN list : \A peer \in list[i].peers : PlainPeer(peer)

PlainPolicy(pol) ==
  /\ pol.pods.usable /\ \A labels \in LabelSets : AllOrNone(pol.pods, labels)
  /\ PlainList(pol.ingress) /\ PlainList(pol.egress)

PlainCluster ==
  /\ AllPolicies \subseteq Policy /\ \A pol \in AllPolicies : PlainPolicy(pol)
  /\ Standing \union Passing \subseteq DanmEp
  /\ \A d, e \in Standing \union Passing : d.uid = e.uid => d = e
  /\ LabelSets \subseteq SUBSET Labels
  /\ BucketsApart

-----------------------------------------------------------------------------
(* The peers of a rule.                                                    *)

(* A Pod selector that all Pods meet as a whole finds the DanmEps of those *)
(* that have its pairs.                                                    *)
LEMMA PodSelectorExact ==
  ASSUME BucketsApart, NEW eps, \A dep \in eps : dep.labels \subseteq Labels,
         NEW selector \in Selector, selector.usable, selector.labels # {},
         \A dep \in eps : AllOrNone(selector, dep.labels)
  PROVE  FilterDepsByPodSelector(eps, selector) = {dep \in eps : Selects(selector, dep.labels)}
<1>1. Pairs(selector) \subseteq Labels
  BY DEF Pairs, Selector
<1>2. FilterDepsByPodSelector(eps, selector) =
        UNION {DanmEpsByLabel(eps, bucket) : bucket \in Buckets(Pairs(selector))}
  BY DEF FilterDepsByPodSelector
<1>3. PICK first \in Pairs(selector) : TRUE
  BY DEF Pairs
<1>4. ASSUME NEW dep \in eps
      PROVE  (\E l \in Pairs(selector) : BucketOf[l] \in Buckets(dep.labels))
               <=> Selects(selector, dep.labels)
  <2>1. ASSUME NEW l \in Pairs(selector), BucketOf[l] \in Buckets(dep.labels)
        PROVE  Pairs(selector) \subseteq dep.labels
    <3>1. l \in dep.labels
      BY <1>1, <2>1 DEF Buckets, BucketsApart
    <3> QED BY <3>1 DEF AllOrNone
  <2>2. first \in dep.labels => BucketOf[first] \in Buckets(dep.labels)
    BY DEF Buckets
  <2> QED BY <1>3, <2>1, <2>2 DEF Selects
<1>5. \A dep \in eps : (\E bucket \in Buckets(Pairs(selector)) : bucket \in Buckets(dep.labels))
                         <=> Selects(selector, dep.labels)
  BY <1>4 DEF Buckets
<1> QED BY <1>2, <1>5 DEF DanmEpsByLabel

LEMMA NetworkSelectorExact ==
  ASSUME NEW eps, NEW nets
  PROVE  FilterDepsByNetworkSelector(eps, nets) = {dep \in eps : dep.net \in nets}
BY DEF FilterDepsByNetworkSelector, DanmEpsByNetwork

(* What a peer finds are the DanmEps it selects.                           *)
LEMMA PeerExact ==
  ASSUME BucketsApart, NEW eps, \A dep \in eps : dep.labels \subseteq Labels,
         Standing \subseteq eps, eps \subseteq Standing \union Passing,
         NEW peer \in Peer, PlainPeer(peer)
  PROVE  IntersectDepSets(FilterDepsByPodSelector(eps, peer.pods),
                          FilterDepsByNetworkSelector(eps, peer.nets))
           = {dep \in eps : PeerSelects(peer, dep)}
<1> DEFINE byPods == FilterDepsByPodSelector(eps, peer.pods)
           byNets == FilterDepsByNetworkSelector(eps, peer.nets)
<1>1. peer.pods \in Selector
  BY DEF Peer
<1>2. byNets = {dep \in eps : dep.net \in peer.nets}
  BY NetworkSelectorExact
<1>3. CASE Pairs(peer.pods) = {}
  <2>1. byPods = {}
    BY <1>3 DEF FilterDepsByPodSelector, Pairs
  <2>2. {dep \in eps : PeerSelects(peer, dep)} = byNets
    BY <1>2, <1>3 DEF PeerSelects, Selects
  <2> QED BY <2>1, <2>2 DEF IntersectDepSets
<1>4. CASE Pairs(peer.pods) # {}
  <2>1. byPods = {dep \in eps : Selects(peer.pods, dep.labels)}
    BY <1>1, <1>4, PodSelectorExact DEF PlainPeer, ReadablePeer
  <2>2. CASE peer.nets = {}
    <3>1. byNets = {} /\ {dep \in eps : PeerSelects(peer, dep)} = byPods
      BY <1>2, <1>4, <2>1, <2>2 DEF PeerSelects
    <3> QED BY <3>1 DEF IntersectDepSets
  <2>3. CASE peer.nets # {}
    <3>1. byPods # {} /\ byNets # {}
      BY <1>2, <1>4, <2>1, <2>3 DEF PlainPeer, Deployed
    <3>2. byPods \intersect byNets = {dep \in eps : PeerSelects(peer, dep)}
      BY <1>2, <1>4, <2>1, <2>3 DEF PeerSelects
    <3> QED BY <3>1, <3>2 DEF IntersectDepSets
  <2> QED BY <2>2, <2>3
<1> QED BY <1>3, <1>4

-----------------------------------------------------------------------------
(* The rules.                                                              *)

(* Each DanmEp found gets a rule, with its ports or without.               *)
LEMMA RuleForEach ==
  ASSUME NEW dep, NEW ports, NEW dir
  PROVE  /\ NewNetRules(dep, ports, dir) # {}
         /\ \A rule \in NewNetRules(dep, ports, dir) :
              rule.dep = dep.uid /\ rule.side = PeerSide[dir]
<1> DEFINE matches == IF ports = {} THEN {AnyPort} ELSE {RulePort(port) : port \in ports}
<1>1. PICK match \in matches : TRUE
  OBVIOUS
<1>2. NewNetRules(dep, ports, dir) =
        {[side |-> PeerSide[dir], dep |-> dep.uid, ports |-> m] : m \in matches}
  BY DEF NewNetRules
<1> HIDE DEF matches
<1>3. [side |-> PeerSide[dir], dep |-> dep.uid, ports |-> match] \in NewNetRules(dep, ports, dir)
  BY <1>1, <1>2
<1> QED BY <1>2, <1>3

(* Whoever a peer selects it finds, whatever buckets and however many      *)
(* pairs there are.                                                        *)
LEMMA PeerFound ==
  ASSUME NEW eps, NEW dep \in eps, NEW peer, ReadablePeer(peer), PeerSelects(peer, dep)
  PROVE  dep \in IntersectDepSets(FilterDepsByPodSelector(eps, peer.pods),
                                 FilterDepsByNetworkSelector(eps, peer.nets))
<1> DEFINE byPods == FilterDepsByPodSelector(eps, peer.pods)
           byNets == FilterDepsByNetworkSelector(eps, peer.nets)
<1>1. byNets = {d \in eps : d.net \in peer.nets}
  BY NetworkSelectorExact
<1>2. CASE Pairs(peer.pods) = {}
  <2>1. byPods = {}
    BY <1>2 DEF FilterDepsByPodSelector, Pairs
  <2>2. dep \in byNets
    BY <1>1, <1>2 DEF PeerSelects
  <2> QED BY <2>1, <2>2 DEF IntersectDepSets
<1>3. CASE Pairs(peer.pods) # {}
  <2>1. PICK l \in Pairs(peer.pods) : l \in dep.labels
    BY <1>3 DEF PeerSelects, Selects
  <2>2. BucketOf[l] \in Buckets(Pairs(peer.pods)) /\ BucketOf[l] \in Buckets(dep.labels)
    BY <2>1 DEF Buckets
  <2>3. dep \in byPods
    BY <1>3, <2>2 DEF ReadablePeer, FilterDepsByPodSelector, DanmEpsByLabel
  <2>4. byNets = {} \/ dep \in byNets
    BY <1>1 DEF PeerSelects
  <2> QED BY <2>3, <2>4 DEF IntersectDepSets
<1> QED BY <1>2, <1>3

LEMMA FirstOfList ==
  ASSUME NEW list, ReadableList(list), list # <<>>
  PROVE  DOMAIN list = {1} /\ list[1] \in PolicyRule
<1> DEFINE n == Len(list)
<1>1. list \in Seq(PolicyRule) /\ n <= 1
  BY DEF ReadableList
<1>2. n \in Nat \ {0}
  BY <1>1, EmptySeq, Zenon
<1>3. n = 1
  <2> HIDE DEF n
  <2> QED BY <1>1, <1>2
<1> QED BY <1>1, <1>3

(* Whom a list lists it makes a rule for.                                  *)
LEMMA ListedFound ==
  ASSUME NEW eps, NEW list, ReadableList(list), NEW family, NEW dir,
         NEW dep \in Listed(list, eps, family)
  PROVE  \E rule \in FirstRules(list, eps, family, dir) : rule.dep = dep.uid
<1> DEFINE first == list[1]
           found(peer) == IntersectDepSets(FilterDepsByPodSelector(eps, peer.pods),
                                           FilterDepsByNetworkSelector(eps, peer.nets))
<1>1. list # <<>>
  BY DEF Listed
<1>2. DOMAIN list = {1}
  BY <1>1, FirstOfList
<1>3. dep \in eps /\ family \in dep.families
      /\ \E peer \in first.peers : ReadablePeer(peer) /\ PeerSelects(peer, dep)
  BY <1>2 DEF Listed, ReadableList
<1>4. FirstRules(list, eps, family, dir) =
        UNION {UNION {NewNetRules(d, first.ports, dir) :
                        d \in {e \in found(peer) : family \in e.families}} :
                 peer \in first.peers}
  BY <1>1 DEF FirstRules, ParsePolicyRules
<1>5. PICK peer \in first.peers : dep \in found(peer)
  BY <1>3, PeerFound
<1> HIDE DEF first, found
<1>6. PICK rule \in NewNetRules(dep, first.ports, dir) : rule.dep = dep.uid
  BY RuleForEach
<1>7. rule \in FirstRules(list, eps, family, dir)
  BY <1>3, <1>4, <1>5, <1>6
<1> QED BY <1>6, <1>7

(* A list makes a rule for a DanmEp; it lists one of its name.             *)
MakesRule(list, eps, family, dir, uid) ==
  \E rule \in FirstRules(list, eps, family, dir) : rule.dep = uid
Lists(list, eps, family, uid) == \E dep \in Listed(list, eps, family) : dep.uid = uid

(* The rules made of a list are for the DanmEps it lists.                  *)
LEMMA FirstRulesExact ==
  ASSUME BucketsApart, NEW eps, eps \subseteq DanmEp,
         Standing \subseteq eps, eps \subseteq Standing \union Passing,
         NEW list, PlainList(list), NEW family, NEW dir,
         NEW uid
  PROVE  MakesRule(list, eps, family, dir, uid) <=> Lists(list, eps, family, uid)
<1> SUFFICES (\E rule \in FirstRules(list, eps, family, dir) : rule.dep = uid) <=>
             (\E dep \in Listed(list, eps, family) : dep.uid = uid)
  BY DEF MakesRule, Lists
<1>1. CASE list = <<>>
  <2>1. FirstRules(list, eps, family, dir) = {}
    BY <1>1 DEF FirstRules
  <2>2. Listed(list, eps, family) = {}
    BY <1>1 DEF Listed
  <2> QED BY <2>1, <2>2
<1>2. CASE list # <<>>
  <2> DEFINE first == list[1]
             found(peer) == IntersectDepSets(FilterDepsByPodSelector(eps, peer.pods),
                                             FilterDepsByNetworkSelector(eps, peer.nets))
  <2>1. DOMAIN list = {1} /\ first \in PolicyRule
    BY <1>2, FirstOfList DEF PlainList
  <2>2. ASSUME NEW peer \in first.peers
        PROVE  found(peer) = {dep \in eps : PeerSelects(peer, dep)}
    <3>1. peer \in Peer /\ PlainPeer(peer)
      BY <2>1 DEF PlainList, PolicyRule
    <3>2. \A dep \in eps : dep.labels \subseteq Labels
      BY DEF DanmEp
    <3> QED BY <3>1, <3>2, PeerExact
  <2>3. Listed(list, eps, family) =
          {dep \in eps : family \in dep.families /\ \E peer \in first.peers : PeerSelects(peer, dep)}
    BY <2>1 DEF Listed
  <2>4. FirstRules(list, eps, family, dir) =
          UNION {UNION {NewNetRules(dep, first.ports, dir) :
                          dep \in {d \in found(peer) : family \in d.families}} :
                   peer \in first.peers}
    BY <1>2 DEF FirstRules, ParsePolicyRules
  <2> HIDE DEF first, found
  <2>5. ASSUME NEW rule \in FirstRules(list, eps, family, dir), rule.dep = uid
        PROVE  \E dep \in Listed(list, eps, family) : dep.uid = uid
    <3>1. PICK peer \in first.peers :
            \E dep \in found(peer) :
              family \in dep.families /\ rule \in NewNetRules(dep, first.ports, dir)
      BY <2>4
    <3>2. PICK dep \in found(peer) :
            family \in dep.families /\ rule \in NewNetRules(dep, first.ports, dir)
      BY <3>1
    <3> QED BY <2>2, <2>3, <2>5, <3>2, RuleForEach
  <2>6. ASSUME NEW dep \in Listed(list, eps, family), dep.uid = uid
        PROVE  \E rule \in FirstRules(list, eps, family, dir) : rule.dep = uid
    BY <2>6, ListedFound DEF PlainList
  <2> QED BY <2>5, <2>6
<1> QED BY <1>1, <1>2
(* Each rule looks at the side of the packet that is the peer's, so that   *)
(* the DanmEps let in are those with a rule.                               *)
LEMMA PeerSides ==
  ASSUME NEW list, NEW eps, NEW family, NEW dir, NEW rule \in FirstRules(list, eps, family, dir)
  PROVE  rule.side = PeerSide[dir]
<1> DEFINE first == list[1]
           found(peer) == {d \in IntersectDepSets(FilterDepsByPodSelector(eps, peer.pods),
                                                  FilterDepsByNetworkSelector(eps, peer.nets)) :
                             family \in d.families}
<1>1. rule \in UNION {UNION {NewNetRules(d, first.ports, dir) : d \in found(peer)} :
                        peer \in first.peers}
  BY DEF FirstRules, ParsePolicyRules
<1> HIDE DEF first, found
<1>2. PICK peer \in first.peers :
        rule \in UNION {NewNetRules(d, first.ports, dir) : d \in found(peer)}
  BY <1>1
<1>3. PICK d \in found(peer) : rule \in NewNetRules(d, first.ports, dir)
  BY <1>2
<1> QED BY <1>3, RuleForEach

LEMMA LetInByRules ==
  ASSUME NEW pols, NEW eps
  PROVE  LetIn(NewNetRuleSet(pols, eps)) =
           [f \in Families |-> [dir \in Dirs |->
             {dep \in Standing \union Passing :
                \E rule \in NewNetRuleSet(pols, eps)[f][dir] : rule.dep = dep.uid}]]
<1> DEFINE rules == NewNetRuleSet(pols, eps)
<1>1. ASSUME NEW f \in Families, NEW dir \in Dirs
      PROVE  \A rule \in rules[f][dir] : rule.side = PeerSide[dir]
  <2>1. /\ rules[f].ingress = UNION {FirstRules(pol.ingress, eps, f, "ingress") : pol \in pols}
        /\ rules[f].egress = UNION {FirstRules(pol.egress, eps, f, "egress") : pol \in pols}
    BY DEF NewNetRuleSet
  <2> HIDE DEF rules
  <2>2. \A rule \in rules[f].ingress : rule.side = PeerSide["ingress"]
    BY <2>1, PeerSides
  <2>3. \A rule \in rules[f].egress : rule.side = PeerSide["egress"]
    BY <2>1, PeerSides
  <2> QED BY <2>2, <2>3 DEF Dirs
<1> HIDE DEF rules
<1> QED BY <1>1 DEF LetIn, rules

(* What NewNetRuleSet lets in is the whitelist of its policies.            *)
LEMMA RuleSetExact ==
  ASSUME PlainCluster, NEW eps, eps \subseteq Standing \union Passing, Standing \subseteq eps,
         NEW pols, pols \subseteq AllPolicies
  PROVE  LetIn(NewNetRuleSet(pols, eps)) = Whitelist(pols, eps)
<1> DEFINE All == Standing \union Passing
           rules == NewNetRuleSet(pols, eps)
           white == Whitelist(pols, eps)
           In(f, dir) == {dep \in All : \E rule \in rules[f][dir] : rule.dep = dep.uid}
<1>1. /\ All \subseteq DanmEp /\ BucketsApart /\ \A d, e \in All : d.uid = e.uid => d = e
      /\ \A pol \in pols : PlainList(pol.ingress) /\ PlainList(pol.egress)
  BY DEF PlainCluster, PlainPolicy
<1>2. ASSUME NEW f \in Families, NEW list, PlainList(list), NEW dir, NEW dep \in All
      PROVE  (\E rule \in FirstRules(list, eps, f, dir) : rule.dep = dep.uid) <=>
             dep \in Listed(list, eps, f)
  <2>1. Listed(list, eps, f) \subseteq All
    BY DEF Listed
  <2>2. (\E rule \in FirstRules(list, eps, f, dir) : rule.dep = dep.uid) <=>
        (\E d \in Listed(list, eps, f) : d.uid = dep.uid)
    <3>1. /\ eps \subseteq DanmEp /\ Standing \subseteq eps /\ BucketsApart /\ PlainList(list)
          /\ eps \subseteq Standing \union Passing
      BY <1>1, <1>2
    <3> DEFINE uid == dep.uid
    <3> HIDE DEF All, uid
    <3>2. MakesRule(list, eps, f, dir, uid) <=> Lists(list, eps, f, uid)
      BY <3>1, FirstRulesExact
    <3> QED BY <3>2 DEF uid, MakesRule, Lists
  <2> QED BY <1>1, <2>1, <2>2
<1>3. ASSUME NEW f \in Families
      PROVE  In(f, "ingress") = white[f].ingress /\ In(f, "egress") = white[f].egress
  <2>1. /\ rules[f].ingress = UNION {FirstRules(pol.ingress, eps, f, "ingress") : pol \in pols}
        /\ rules[f].egress = UNION {FirstRules(pol.egress, eps, f, "egress") : pol \in pols}
    BY DEF NewNetRuleSet
  <2>2. /\ white[f].ingress = UNION {Listed(pol.ingress, eps, f) : pol \in pols}
        /\ white[f].egress = UNION {Listed(pol.egress, eps, f) : pol \in pols}
    BY DEF Whitelist
  <2>3. \A pol \in pols : /\ Listed(pol.ingress, eps, f) \subseteq All
                           /\ Listed(pol.egress, eps, f) \subseteq All
    BY DEF Listed
  <2> HIDE DEF rules, white, All
  <2>4. ASSUME NEW dep \in All
        PROVE  /\ (\E rule \in rules[f].ingress : rule.dep = dep.uid) <=> dep \in white[f].ingress
               /\ (\E rule \in rules[f].egress : rule.dep = dep.uid) <=> dep \in white[f].egress
    <3>1. (\E rule \in rules[f].ingress : rule.dep = dep.uid) <=>
          (\E pol \in pols : \E rule \in FirstRules(pol.ingress, eps, f, "ingress") : rule.dep = dep.uid)
      BY <2>1
    <3>2. (\E rule \in rules[f].egress : rule.dep = dep.uid) <=>
          (\E pol \in pols : \E rule \in FirstRules(pol.egress, eps, f, "egress") : rule.dep = dep.uid)
      BY <2>1
    <3> QED BY <1>1, <1>2, <2>2, <3>1, <3>2
  <2>5. white[f].ingress \subseteq All /\ white[f].egress \subseteq All
    BY <2>2, <2>3
  <2> QED BY <2>4, <2>5
<1>4. LetIn(rules) = [f \in Families |-> [dir \in Dirs |-> In(f, dir)]]
  BY LetInByRules
<1>5. white = [f \in Families |-> [ingress |-> white[f].ingress, egress |-> white[f].egress]]
  BY DEF Whitelist
<1> SUFFICES LetIn(rules) = white
  OBVIOUS
<1> HIDE DEF In, white, rules
<1>6. ASSUME NEW f \in Families
      PROVE  [dir \in Dirs |-> In(f, dir)] =
             [ingress |-> white[f].ingress, egress |-> white[f].egress]
  BY <1>3 DEF Dirs
<1> QED BY <1>4, <1>5, <1>6
-----------------------------------------------------------------------------
(* The handler.                                                            *)

(* AddPod waits for DanmEps only on behalf of a Pod that some policy       *)
(* applies to.                                                             *)
SelectedInHand == step = "deps" => FilterApplicablePolicies(policySet, pod.labels) # {}

SelectionInv ==
  /\ TypeOK
  /\ DOMAIN shield = Uids
  /\ Standing \subseteq deps
  /\ SelectedInHand

LEMMA SelectionStep == ASSUME SelectionInv, [Next]_vars PROVE SelectionInv'
<1>1. TypeOK'
  BY NextTypeOK DEF SelectionInv
<1>2. (DOMAIN shield = Uids)' /\ (Standing \subseteq deps)'
  BY DEF SelectionInv, Next, Cluster, CreatePod, Schedule, DeletePod, Record, Drop,
         ChangePolicies, Notice, AddPod, ListPolicies, ListDanmEps, Discovered,
         NotDiscovered, BreakWatch, Exit, Die, StartOver, world, vars
<1>3. SelectedInHand'
  <2> USE DEF SelectionInv, SelectedInHand
  <2>1. CASE UNCHANGED <<step, pod, policySet>>
    BY <2>1
  <2>2. CASE step' # "deps"
    BY <2>2
  <2>3. ~(step = "idle" /\ AddPod) \/ step' # "deps"
    BY DEF AddPod
  <2>4. CASE ListPolicies
    BY <2>4 DEF ListPolicies, Finish
  <2>5. CASE ListDanmEps
    BY <2>2, <2>5 DEF ListDanmEps, Retry, Finish
  <2>6. CASE Exit \/ Die
    BY <2>6 DEF Exit, Die, StartOver, Finish
  <2>7. CASE AddPod
    BY <2>3, <2>7 DEF AddPod
  <2>8. CASE ~(ListPolicies \/ ListDanmEps \/ Exit \/ Die \/ AddPod)
    BY <2>1, <2>8 DEF Next, Cluster, Notice, Discovered, NotDiscovered, BreakWatch,
                      handler, vars
  <2> QED BY <2>4, <2>5, <2>6, <2>7, <2>8
<1> QED BY <1>1, <1>2, <1>3 DEF SelectionInv

(* Rules are handed over by ListDanmEps only, for the Pod in hand.         *)
LEMMA HandedOver ==
  ASSUME SelectionInv, [Next]_vars, NEW u \in Uids, shield'[u] # shield[u]
  PROVE  /\ step = "deps" /\ u = pod.uid
         /\ shield'[u] = NewNetRuleSet(FilterApplicablePolicies(policySet, pod.labels), deps)
<1>1. CASE ListDanmEps
  <2>1. shield' = [shield EXCEPT ![pod.uid] =
                     NewNetRuleSet(FilterApplicablePolicies(policySet, pod.labels), deps)]
    BY <1>1 DEF ListDanmEps
  <2>2. u = pod.uid
    BY <2>1
  <2> QED BY <1>1, <2>1, <2>2 DEF ListDanmEps, SelectionInv
<1>2. CASE ~ListDanmEps
  BY <1>2 DEF Next, Cluster, Notice, AddPod, ListPolicies, Discovered, NotDiscovered,
              BreakWatch, Exit, Die, StartOver, vars
<1> QED BY <1>1, <1>2
LEMMA PodLabels ==
  ASSUME PlainCluster, NEW p \in Pod
  PROVE  p.labels \in SUBSET Labels
BY DEF PlainCluster, Pod, NoPod

(* What a step hands over is for a Pod that policies select, and lets in   *)
(* those they whitelist.                                                   *)
LEMMA ExactStep ==
  ASSUME PlainCluster, SelectionInv, [Next]_vars, NEW u \in Uids, shield'[u] # shield[u]
  PROVE  LET selecting == SelectedBy(policySet, pod.labels)
         IN  /\ u = pod.uid /\ selecting # {}
             /\ LetIn(shield'[u]) = Whitelist(selecting, deps)
<1> DEFINE selecting == SelectedBy(policySet, pod.labels)
<1>1. /\ step = "deps" /\ u = pod.uid
      /\ shield'[u] = NewNetRuleSet(FilterApplicablePolicies(policySet, pod.labels), deps)
  BY HandedOver
<1>2. /\ policySet \subseteq AllPolicies /\ pod \in Pod
      /\ deps \subseteq Standing \union Passing /\ Standing \subseteq deps
  BY DEF SelectionInv, TypeOK
<1>3. pod.labels \in SUBSET Labels
  BY <1>2, PodLabels
<1>4. \A pol \in policySet : /\ pol.pods.usable /\ Pairs(pol.pods) \subseteq Labels
                             /\ AllOrNone(pol.pods, pod.labels)
  <2> SUFFICES ASSUME NEW pol \in policySet
               PROVE  /\ pol.pods.usable /\ Pairs(pol.pods) \subseteq Labels
                      /\ AllOrNone(pol.pods, pod.labels)
    OBVIOUS
  <2>1. pol \in Policy /\ PlainPolicy(pol)
    BY <1>2 DEF PlainCluster
  <2>2. pol.pods \in Selector
    BY <2>1 DEF Policy
  <2>3. pod.labels \in LabelSets \union {{}}
    BY <1>2 DEF Pod, NoPod
  <2>4. AllOrNone(pol.pods, pod.labels)
    BY <2>1, <2>3 DEF PlainPolicy, AllOrNone
  <2> QED BY <2>1, <2>2, <2>4 DEF PlainPolicy, Pairs, Selector
<1>5. FilterApplicablePolicies(policySet, pod.labels) = selecting
  BY <1>3, <1>4, SelectorsMetWhole DEF PlainCluster, BucketsApart
<1>6. selecting # {}
  BY <1>1, <1>5 DEF SelectionInv, SelectedInHand
<1>7. selecting \subseteq AllPolicies
  BY <1>2 DEF SelectedBy
<1>8. LetIn(NewNetRuleSet(selecting, deps)) = Whitelist(selecting, deps)
  BY <1>2, <1>7, RuleSetExact
<1> QED BY <1>1, <1>5, <1>6, <1>8

(* Exact selection: where policies are written so that Policer and the     *)
(* user guide read them alike, and peers of both kinds of selectors find   *)
(* somebody, the rules AddPod hands over are for a Pod that policies       *)
(* select and let in those the policies whitelist, no fewer and no more    *)
(* ("Interworking between the different selectors").                       *)
THEOREM SelectionExact ==
  ASSUME PlainCluster
  PROVE  Spec => ExactSelection
<1>1. Init => SelectionInv
  BY InitTypeOK DEF Init, SelectionInv, SelectedInHand
<1>2. SelectionInv /\ [Next]_vars => SelectionInv'
  BY SelectionStep
<1>3. SelectionInv /\ [Next]_vars =>
        [\A u \in Uids :
           shield'[u] # shield[u] =>
             LET selecting == SelectedBy(policySet, pod.labels)
             IN  /\ u = pod.uid /\ selecting # {}
                 /\ LetIn(shield'[u]) = Whitelist(selecting, deps)]_vars
  BY ExactStep
<1> QED BY <1>1, <1>2, <1>3, PTL DEF Spec, ExactSelection
-----------------------------------------------------------------------------
(* Half of it holds for many more policies.                                *)

(* The rules let in whomever the policies that select the Pod whitelist.   *)
NobodyCutOff ==
  [][\A u \in Uids :
       shield'[u] # shield[u] =>
         \A f \in Families, dir \in Dirs :
           Whitelist(SelectedBy(policySet, pod.labels), deps)[f][dir]
             \subseteq LetIn(shield'[u])[f][dir]]_vars

LEMMA RuleSetComplete ==
  ASSUME NEW pols, \A pol \in pols : ReadablePolicy(pol),
         NEW eps, eps \subseteq Standing \union Passing,
         NEW applied, pols \subseteq applied,
         NEW f \in Families, NEW dir \in Dirs
  PROVE  Whitelist(pols, eps)[f][dir] \subseteq LetIn(NewNetRuleSet(applied, eps))[f][dir]
<1> DEFINE rules == NewNetRuleSet(applied, eps)
<1> SUFFICES Whitelist(pols, eps)[f][dir] \subseteq LetIn(rules)[f][dir]
  OBVIOUS
<1>1. \A pol \in pols : ReadableList(pol.ingress) /\ ReadableList(pol.egress)
  BY DEF ReadablePolicy
<1>2. LetIn(rules)[f][dir] =
        {dep \in Standing \union Passing : \E rule \in rules[f][dir] : rule.dep = dep.uid}
  BY LetInByRules
<1>3. ASSUME NEW list, ReadableList(list), NEW way
      PROVE  \A dep \in Listed(list, eps, f) :
               /\ dep \in eps
               /\ \E rule \in FirstRules(list, eps, f, way) : rule.dep = dep.uid
  BY <1>3, ListedFound DEF Listed
<1>4. CASE dir = "ingress"
  <2>1. Whitelist(pols, eps)[f][dir] = UNION {Listed(pol.ingress, eps, f) : pol \in pols}
    BY <1>4 DEF Whitelist
  <2>2. rules[f][dir] = UNION {FirstRules(pol.ingress, eps, f, "ingress") : pol \in applied}
    BY <1>4 DEF NewNetRuleSet
  <2> HIDE DEF rules
  <2>3. ASSUME NEW pol \in pols, NEW dep \in Listed(pol.ingress, eps, f)
        PROVE  dep \in Standing \union Passing /\ \E rule \in rules[f][dir] : rule.dep = dep.uid
    <3>1. dep \in eps /\ \E rule \in FirstRules(pol.ingress, eps, f, "ingress") : rule.dep = dep.uid
      BY <1>1, <1>3
    <3> QED BY <2>2, <3>1
  <2> QED BY <1>2, <2>1, <2>3
<1>5. CASE dir = "egress"
  <2>1. Whitelist(pols, eps)[f][dir] = UNION {Listed(pol.egress, eps, f) : pol \in pols}
    BY <1>5 DEF Whitelist
  <2>2. rules[f][dir] = UNION {FirstRules(pol.egress, eps, f, "egress") : pol \in applied}
    BY <1>5 DEF NewNetRuleSet
  <2> HIDE DEF rules
  <2>3. ASSUME NEW pol \in pols, NEW dep \in Listed(pol.egress, eps, f)
        PROVE  dep \in Standing \union Passing /\ \E rule \in rules[f][dir] : rule.dep = dep.uid
    <3>1. dep \in eps /\ \E rule \in FirstRules(pol.egress, eps, f, "egress") : rule.dep = dep.uid
      BY <1>1, <1>3
    <3> QED BY <2>2, <3>1
  <2> QED BY <1>2, <2>1, <2>3
<1> QED BY <1>4, <1>5 DEF Dirs

(* Nobody the policies of a Pod whitelist is cut off by its rules: however *)
(* many pairs selectors have, whichever of them share a bucket, whether or *)
(* not a selector matches anybody, Policer takes too many policies or      *)
(* peers, never too few.  All it needs is to be able to read the policies: *)
(* their selectors, and no rule after the first.                           *)
THEOREM WhitelistedLetIn ==
  ASSUME \A pol \in AllPolicies : ReadablePolicy(pol)
  PROVE  Spec => NobodyCutOff
<1>1. Init => SelectionInv
  BY InitTypeOK DEF Init, SelectionInv, SelectedInHand
<1>2. SelectionInv /\ [Next]_vars => SelectionInv'
  BY SelectionStep
<1>3. SelectionInv /\ [Next]_vars =>
        [\A u \in Uids :
           shield'[u] # shield[u] =>
             \A f \in Families, dir \in Dirs :
               Whitelist(SelectedBy(policySet, pod.labels), deps)[f][dir]
                 \subseteq LetIn(shield'[u])[f][dir]]_vars
  <2> SUFFICES ASSUME SelectionInv, [Next]_vars, NEW u \in Uids, shield'[u] # shield[u],
                      NEW f \in Families, NEW dir \in Dirs
               PROVE  Whitelist(SelectedBy(policySet, pod.labels), deps)[f][dir]
                        \subseteq LetIn(shield'[u])[f][dir]
    OBVIOUS
  <2> DEFINE selecting == SelectedBy(policySet, pod.labels)
             applied == FilterApplicablePolicies(policySet, pod.labels)
  <2>1. shield'[u] = NewNetRuleSet(applied, deps)
    BY HandedOver
  <2>2. \A pol \in selecting : pol \in AllPolicies /\ ReadablePolicy(pol)
    BY DEF SelectedBy, SelectionInv, TypeOK
  <2>3. selecting \subseteq applied
    BY <2>2, NoPolicyPassedOver DEF ReadablePolicy
  <2>4. deps \subseteq Standing \union Passing
    BY DEF SelectionInv, TypeOK
  <2> HIDE DEF selecting, applied
  <2>5. Whitelist(selecting, deps)[f][dir] \subseteq LetIn(NewNetRuleSet(applied, deps))[f][dir]
    BY <2>2, <2>3, <2>4, RuleSetComplete
  <2> QED BY <2>1, <2>5 DEF selecting
<1> QED BY <1>1, <1>2, <1>3, PTL DEF Spec, NobodyCutOff
-----------------------------------------------------------------------------
(* Nobody is forgotten.                                                    *)

(* Between two Pods there is nothing to count attempts of.                 *)
FreshTries == step = "idle" /\ phase # "discovering" => tries = 0

AwaitedInv == SelectionInv /\ FreshTries

LEMMA AwaitedInvStep == ASSUME AwaitedInv, [Next]_vars PROVE AwaitedInv'
<1>1. SelectionInv'
  BY SelectionStep DEF AwaitedInv
<1>2. FreshTries'
  <2> USE DEF AwaitedInv, FreshTries
  <2>1. CASE UNCHANGED <<step, phase, tries>>
    BY <2>1
  <2>2. CASE AddPod
    BY <2>2 DEF AddPod, AwaitedInv, SelectionInv, TypeOK
  <2>3. CASE ListPolicies
    BY <2>3 DEF ListPolicies, Finish
  <2>4. CASE ListDanmEps
    BY <2>4 DEF ListDanmEps, Retry, Finish
  <2>5. CASE Discovered
    BY <2>5 DEF Discovered
  <2>6. CASE NotDiscovered
    BY <2>6 DEF NotDiscovered
  <2>7. CASE BreakWatch
    BY <2>7 DEF BreakWatch, handler
  <2>8. CASE Exit \/ Die
    BY <2>8 DEF Exit, Die, StartOver
  <2> QED BY <2>1, <2>2, <2>3, <2>4, <2>5, <2>6, <2>7, <2>8
          DEF Next, Cluster, Notice, handler, vars
<1> QED BY <1>1, <1>2 DEF AwaitedInv

(* An event that Awaited counts on, and a Pod in hand that it counts on.   *)
InEvents(n) ==
  \E i \in DOMAIN events : events[i][2] = pods[n] /\ events[i][1].node # "here"
InHand(n) == pod = pods[n] /\ (tries <= errors \/ errors = MaxErrors)

(* An event that is added leaves it in line; so does one that is taken,    *)
(* unless it is the one.                                                   *)
LEMMA AddedBehind ==
  ASSUME NEW n \in Names, events \in Seq(Pod \X Pod), pods'[n] = pods[n], InEvents(n),
         NEW e \in Pod \X Pod, events' = Append(events, e)
  PROVE  InEvents(n)'
<1>1. PICK i \in DOMAIN events : events[i][2] = pods[n] /\ events[i][1].node # "here"
  BY DEF InEvents
<1>2. Len(events) \in Nat /\ DOMAIN events = 1 .. Len(events) /\ i \in 1 .. Len(events)
  BY <1>1, LenProperties
<1>3. i \in DOMAIN events' /\ events'[i] = events[i]
  BY <1>2, AppendProperties, LenProperties
<1> QED BY <1>1, <1>3 DEF InEvents

LEMMA TakenBefore ==
  ASSUME NEW n \in Names, events \in Seq(Pod \X Pod), pods'[n] = pods[n], InEvents(n),
         events # <<>>, events' = Tail(events)
  PROVE  InEvents(n)' \/ (Head(events)[2] = pods[n] /\ Head(events)[1].node # "here")
<1>1. PICK i \in DOMAIN events : events[i][2] = pods[n] /\ events[i][1].node # "here"
  BY DEF InEvents
<1>2. Len(events) \in Nat /\ DOMAIN events = 1 .. Len(events) /\ i \in 1 .. Len(events)
  BY <1>1, LenProperties
<1>3. CASE i = 1
  <2>1. Head(events) = events[1]
    OBVIOUS
  <2> QED BY <1>1, <1>3, <2>1
<1>4. CASE i # 1
  <2>1. /\ events' \in Seq(Pod \X Pod) /\ Len(events') = Len(events) - 1
        /\ \A k \in 1 .. Len(events') : events'[k] = events[k + 1]
    BY HeadTailProperties
  <2>2. i - 1 \in 1 .. Len(events') /\ (i - 1) + 1 = i
    BY <1>2, <1>4, <2>1
  <2>3. i - 1 \in DOMAIN events' /\ events'[i - 1] = events[i]
    BY <2>1, <2>2, LenProperties
  <2> QED BY <1>1, <2>3 DEF InEvents
<1> QED BY <1>3, <1>4

(* A step of the cluster may take the Pod away, nothing else.              *)
LEMMA InPlace ==
  ASSUME TypeOK, [Next]_vars, NEW n \in Names, NEW u \in Uids,
         pods[n].uid = u, pods[n].node = "here"
  PROVE  pods'[n] = pods[n] \/ pods'[n].uid # u
<1>1. pods[n] # NoPod /\ pods[n].node # "unassigned" /\ NoPod.uid # u
  BY DEF NoPod, Uids
<1>2. CASE UNCHANGED pods
  BY <1>2
<1>3. ASSUME NEW m \in Names, CreatePod(m) \/ Schedule(m) \/ DeletePod(m)
      PROVE  pods'[n] = pods[n] \/ pods'[n].uid # u
  BY <1>1, <1>3 DEF CreatePod, Schedule, DeletePod, TypeOK
<1> QED BY <1>2, <1>3 DEF Next, Cluster, Record, Drop, ChangePolicies, Notice, AddPod,
           ListPolicies, ListDanmEps, Discovered, NotDiscovered, BreakWatch, Exit, Die,
           StartOver, world, vars

(* A Pod that is awaited stays so, or gets its rules or an excuse, in any  *)
(* step of Policer and of the cluster.                                     *)
LEMMA AwaitedStep ==
  ASSUME \A pol \in AllPolicies : pol.pods.usable,
         AwaitedInv, [Next]_vars, NEW n \in Names, NEW u \in Uids,
         pods[n].uid = u, pods[n].node = "here", Awaited(n), Selected(u, pods[n].labels)
  PROVE  \/ Awaited(n)' \/ shield'[u] # Open \/ Excused(u)'
         \/ pods'[n].uid # u \/ ~Selected(u, pods[n].labels)'
<1>1. CASE pods'[n].uid # u
  BY <1>1
<1> SUFFICES ASSUME pods'[n] = pods[n]
             PROVE  Awaited(n)' \/ shield'[u] # Open \/ Excused(u)'
  BY <1>1, InPlace DEF AwaitedInv, SelectionInv
<1> DEFINE Kept == Awaited(n)' \/ shield'[u] # Open \/ Excused(u)'
<1> SUFFICES Kept
  OBVIOUS
<1>2. /\ events \in Seq(Pod \X Pod) /\ tries \in 0 .. MaxRetryCount - 1
      /\ errors \in 0 .. MaxErrors /\ MaxRetryCount \in Nat /\ MaxErrors \in Nat
      /\ step = "idle" <=> pod = NoPod
      /\ phase = "discovering" => step = "idle" /\ events = <<>>
      /\ pods[n] \in Pod /\ seen \in [Names -> Pod] /\ DOMAIN shield = Uids
      /\ policies \subseteq AllPolicies /\ deps \subseteq Standing \union Passing
      /\ policySet \subseteq AllPolicies
  BY PolicerBounds DEF AwaitedInv, SelectionInv, TypeOK
<1>3. pods[n] # NoPod /\ NoPod.node = "none"
  BY DEF NoPod
<1>4. seen[n].node # "here" \/ InHand(n) \/ InEvents(n)
  BY DEF Awaited, InHand, InEvents
<1>5. seen'[n].node # "here" \/ InHand(n)' \/ InEvents(n)' => Kept
  BY DEF Awaited, InHand, InEvents
<1>6. Excused(u)' => Kept
  OBVIOUS
<1> HIDE DEF Kept
<1>7. CASE UNCHANGED <<seen, events, pod, tries, errors>>
  BY <1>4, <1>5, <1>7 DEF InHand, InEvents
<1>8. ASSUME NEW m \in Names, Notice(m)
      PROVE  Kept
  <2>1. /\ UNCHANGED <<pod, tries, errors>>
        /\ seen' = [seen EXCEPT ![m] = pods[m]]
        /\ events' = IF pods[m] = NoPod THEN events ELSE Append(events, <<seen[m], pods[m]>>)
    BY <1>8 DEF Notice, handler, bounds
  <2>2. CASE InHand(n)
    BY <1>5, <2>1, <2>2 DEF InHand
  <2>3. CASE InEvents(n)
    <3>1. pods[m] \in Pod /\ seen[m] \in Pod
      BY DEF AwaitedInv, SelectionInv, TypeOK
    <3>2. InEvents(n)'
      <4>1. CASE events' = events
        BY <2>3, <4>1 DEF InEvents
      <4>2. CASE events' = Append(events, <<seen[m], pods[m]>>)
        BY <1>2, <2>3, <3>1, <4>2, AddedBehind
      <4> QED BY <2>1, <4>1, <4>2
    <3> QED BY <1>5, <3>2
  <2>4. CASE seen[n].node # "here" /\ m # n
    BY <1>2, <1>5, <2>1, <2>4
  <2>5. CASE seen[n].node # "here" /\ m = n
    <3> DEFINE e == <<seen[n], pods[n]>>
    <3>1. e \in Pod \X Pod /\ events' = Append(events, e)
      BY <1>2, <1>3, <2>1, <2>5
    <3>2. e[2] = pods[n] /\ e[1].node # "here"
      BY <2>5
    <3> HIDE DEF e
    <3>3. events' \in Seq(Pod \X Pod) /\ Len(events') = Len(events) + 1 /\ events'[Len(events) + 1] = e
      BY <1>2, <3>1, AppendProperties
    <3>4. Len(events) \in Nat /\ Len(events) + 1 \in DOMAIN events'
      BY <1>2, <3>3, LenProperties
    <3>5. InEvents(n)'
      BY <3>2, <3>3, <3>4 DEF InEvents
    <3> QED BY <1>5, <3>5
  <2> QED BY <1>4, <2>2, <2>3, <2>4, <2>5
<1>9. CASE AddPod
  <2>1. /\ step = "idle" /\ events # <<>> /\ events' = Tail(events)
        /\ UNCHANGED <<seen, tries, errors>>
    BY <1>9 DEF AddPod, bounds
  <2>2. ~InHand(n) /\ tries = 0
    BY <1>2, <1>3, <2>1 DEF InHand, AwaitedInv, FreshTries
  <2>3. ASSUME Head(events)[2] = pods[n], Head(events)[1].node # "here"
        PROVE  InHand(n)'
    <3>1. pod' = pods[n]
      BY <1>9, <2>3 DEF AddPod, NodeChanged
    <3> QED BY <1>2, <2>1, <2>2, <3>1 DEF InHand
  <2>4. CASE InEvents(n)
    BY <1>2, <1>5, <2>1, <2>3, <2>4, TakenBefore
  <2>5. CASE seen[n].node # "here"
    BY <1>5, <2>1, <2>5
  <2> QED BY <1>4, <2>2, <2>4, <2>5
<1>10. CASE ListPolicies
  <2>1. UNCHANGED <<seen, events>> /\ step = "policies"
    BY <1>10 DEF ListPolicies
  <2>2. CASE ~InHand(n)
    BY <1>4, <1>5, <2>1, <2>2 DEF InEvents
  <2>3. CASE InHand(n)
    <3>1. pod = pods[n]
      BY <2>3 DEF InHand
    <3>2. PICK pol \in SelectedBy(policies, pod.labels) : TRUE
      BY <3>1 DEF Selected
    <3>3. pol \in policies
      BY DEF SelectedBy
    <3>4. FilterApplicablePolicies(policies, pod.labels) # {}
      BY <1>2, <3>3, NoPolicyPassedOver
    <3>5. \/ UNCHANGED <<errors, pod, tries>>
          \/ unlisted' = unlisted \union {pod.uid}
      BY <1>10, <3>4 DEF ListPolicies
    <3>6. CASE UNCHANGED <<errors, pod, tries>>
      BY <1>5, <2>3, <3>6 DEF InHand
    <3>7. CASE unlisted' = unlisted \union {pod.uid}
      BY <1>6, <3>1, <3>7 DEF Excused
    <3> QED BY <3>5, <3>6, <3>7
  <2> QED BY <2>2, <2>3
<1>11. CASE ListDanmEps
  <2>1. UNCHANGED <<seen, events>> /\ step = "deps"
    BY <1>11 DEF ListDanmEps
  <2>2. CASE ~InHand(n)
    BY <1>4, <1>5, <2>1, <2>2 DEF InEvents
  <2>3. CASE InHand(n)
    <3>1. pod = pods[n] /\ pod.uid = u /\ (tries <= errors \/ errors = MaxErrors)
      BY <2>3 DEF InHand
    <3>2. PodEps(deps, pod.uid) # {}
      BY <3>1 DEF Selected
    <3> DEFINE rules == NewNetRuleSet(FilterApplicablePolicies(policySet, pod.labels), deps)
    <3>3. \/ shield' = [shield EXCEPT ![pod.uid] = rules]
          \/ errors < MaxErrors /\ errors' = errors + 1 /\ Retry
      BY <1>11, <3>2 DEF ListDanmEps
    <3>4. CASE shield' = [shield EXCEPT ![pod.uid] = rules]
      <4>1. FilterApplicablePolicies(policySet, pod.labels) \in SUBSET AllPolicies
        BY <1>2 DEF FilterApplicablePolicies, DefaultBucket, PolicyBucket
      <4>2. rules # Open
        BY <1>2, <4>1, OpenAssumption
      <4> HIDE DEF rules
      <4>3. shield'[u] = rules
        BY <1>2, <3>1, <3>4
      <4> QED BY <4>2, <4>3 DEF Kept
    <3>5. CASE errors < MaxErrors /\ errors' = errors + 1 /\ Retry
      <4>1. tries <= errors
        BY <1>2, <3>1, <3>5
      <4>2. CASE tries + 1 < MaxRetryCount
        <5>1. tries' = tries + 1 /\ pod' = pod
          BY <3>5, <4>2 DEF Retry
        <5>2. tries' <= errors'
          BY <1>2, <3>5, <4>1, <5>1
        <5> QED BY <1>5, <3>1, <5>1, <5>2 DEF InHand
      <4>3. CASE ~(tries + 1 < MaxRetryCount)
        <5>1. errors' >= MaxRetryCount
          BY <1>2, <3>5, <4>1, <4>3
        <5> QED BY <1>6, <5>1 DEF Excused
      <4> QED BY <4>2, <4>3
    <3> QED BY <3>3, <3>4, <3>5
  <2> QED BY <2>2, <2>3
<1>12. CASE Discovered \/ NotDiscovered
  <2>1. UNCHANGED <<seen, events>> /\ phase = "discovering"
    BY <1>12 DEF Discovered, NotDiscovered
  <2>2. ~InHand(n)
    BY <1>2, <1>3, <2>1 DEF InHand
  <2> QED BY <1>4, <1>5, <2>1, <2>2 DEF InEvents
<1>13. CASE Exit \/ Die
  <2>1. seen' = [m \in Names |-> NoPod]
    BY <1>13 DEF Exit, Die, StartOver
  <2> QED BY <1>3, <1>5, <2>1
<1> QED BY <1>7, <1>8, <1>9, <1>10, <1>11, <1>12, <1>13
        DEF Next, Cluster, BreakWatch, handler, bounds, vars

(* Nobody is forgotten: as long as the selectors of all policies can be    *)
(* parsed, a Pod of this node that policies select and that is wired is in *)
(* each state still to be noticed, in an event or in hand with an attempt  *)
(* left, until AddPod hands over its rules or it is excused (updatePod,    *)
(* AddPod and its retries, over restarts and calls that fail).  What is    *)
(* left to fairness in IsolatedInTheEnd is that work in hand gets done.    *)
THEOREM NobodyForgotten ==
  ASSUME \A pol \in AllPolicies : pol.pods.usable
  PROVE  Spec => NeverForgotten
<1>1. Init => AwaitedInv
  BY InitTypeOK DEF Init, AwaitedInv, SelectionInv, SelectedInHand, FreshTries
<1>2. AwaitedInv /\ [Next]_vars => AwaitedInv'
  BY AwaitedInvStep
<1>3. AwaitedInv /\ [Next]_vars =>
        [\A n \in Names, u \in Uids :
           (/\ pods[n].uid = u /\ pods[n].node = "here" /\ Awaited(n)
            /\ Selected(u, pods[n].labels))
             => \/ Awaited(n)' \/ shield'[u] # Open \/ Excused(u)'
                \/ pods'[n].uid # u \/ ~Selected(u, pods[n].labels)']_vars
  BY AwaitedStep
<1> QED BY <1>1, <1>2, <1>3, PTL DEF Spec, NeverForgotten

-----------------------------------------------------------------------------
(* Nobody waits for ever: the work at hand runs out.                       *)

LEMMA LessLeft ==
  ASSUME NEW before, NEW after, NEW total \in Nat, NEW a \in Int, NEW b \in Int, b < a,
         before = total + a, after = total + b
  PROVE  after < before /\ ~(after > before)
OBVIOUS

LEMMA WorkStep ==
  ASSUME TypeOK, [Next]_vars
  PROVE  /\ WorkLeft' > WorkLeft => \E n \in Names : Notice(n)
         /\ AddPod \/ ListPolicies \/ ListDanmEps => WorkLeft' < WorkLeft
<1> DEFINE each == MaxRetryCount + 2
           waiting == Len(events) * each
<1>1. /\ events \in Seq(Pod \X Pod) /\ Len(events) \in Nat /\ each \in Nat
      /\ tries \in 0 .. MaxRetryCount - 1 /\ MaxRetryCount \in Nat
      /\ step \in {"idle", "policies", "deps"}
      /\ phase = "discovering" => step = "idle" /\ events = <<>>
  BY PolicerBounds, LenProperties DEF TypeOK
<1>2. WorkInHand \in 0 .. each - 1
  BY <1>1 DEF WorkInHand
<1>3. waiting \in Nat /\ WorkLeft = waiting + WorkInHand
  BY <1>1 DEF WorkLeft
<1>4. ASSUME UNCHANGED events PROVE WorkLeft' = waiting + WorkInHand'
  BY <1>4 DEF WorkLeft
<1>5. ASSUME AddPod PROVE WorkLeft' < WorkLeft /\ ~(WorkLeft' > WorkLeft)
  <2>1. step = "idle" /\ events # <<>> /\ events' = Tail(events)
    BY <1>5 DEF AddPod
  <2>2. step' \in {"idle", "policies"}
    BY <1>5, <2>1 DEF AddPod
  <2>3. WorkInHand = 0 /\ WorkInHand' \in {0, MaxRetryCount + 1}
    BY <1>1, <2>1, <2>2 DEF WorkInHand
  <2>4. Len(events') = Len(events) - 1
    BY <1>1, <2>1, HeadTailProperties
  <2>5. (Len(events) - 1) * each = waiting - each
    BY <1>1
  <2>6. WorkLeft' = waiting - each + WorkInHand'
    BY <2>4, <2>5 DEF WorkLeft
  <2>7. WorkInHand' - each \in Int /\ WorkInHand' - each < WorkInHand /\ WorkInHand \in Int
    <3>1. MaxRetryCount \in Nat /\ each = MaxRetryCount + 2
      BY <1>1
    <3>2. CASE WorkInHand' = 0
      BY <2>3, <3>1, <3>2
    <3>3. CASE WorkInHand' = MaxRetryCount + 1
      BY <2>3, <3>1, <3>3
    <3> QED BY <2>3, <3>2, <3>3
  <2>8. WorkLeft' = waiting + (WorkInHand' - each)
    BY <1>1, <1>3, <2>3, <2>6
  <2> HIDE DEF each, waiting
  <2> QED BY <1>3, <2>7, <2>8, LessLeft
<1> HIDE DEF waiting
<1>6. ASSUME ListPolicies PROVE WorkLeft' < WorkLeft /\ ~(WorkLeft' > WorkLeft)
  <2>1. step = "policies" /\ UNCHANGED events /\ WorkInHand = MaxRetryCount + 1
    BY <1>6 DEF ListPolicies, WorkInHand
  <2>2. step' = "idle" \/ (step' = "deps" /\ tries' = tries)
    BY <1>6 DEF ListPolicies, Finish
  <2>3. WorkInHand' \in 0 .. MaxRetryCount
    BY <1>1, <2>2 DEF WorkInHand
  <2>4. WorkInHand' \in Int /\ WorkInHand \in Int /\ WorkInHand' < WorkInHand
    BY <1>1, <2>1, <2>3
  <2> QED BY <1>3, <1>4, <2>1, <2>4, LessLeft
<1>7. ASSUME ListDanmEps PROVE WorkLeft' < WorkLeft /\ ~(WorkLeft' > WorkLeft)
  <2>1. step = "deps" /\ UNCHANGED events /\ WorkInHand = MaxRetryCount - tries
    BY <1>7 DEF ListDanmEps, WorkInHand
  <2>2. step' = "idle" \/ (step' = "deps" /\ tries' = tries + 1 /\ tries + 1 < MaxRetryCount)
    BY <1>7, <2>1 DEF ListDanmEps, Finish, Retry
  <2>3. WorkInHand' \in 0 .. MaxRetryCount - tries - 1
    BY <1>1, <2>2 DEF WorkInHand
  <2>4. WorkInHand' \in Int /\ WorkInHand \in Int /\ WorkInHand' < WorkInHand
    BY <1>1, <2>1, <2>3
  <2> QED BY <1>3, <1>4, <2>1, <2>4, LessLeft
<1>8. ASSUME UNCHANGED vars \/ Cluster \/ BreakWatch PROVE ~(WorkLeft' > WorkLeft)
  <2>1. UNCHANGED events /\ WorkInHand' = WorkInHand
    BY <1>8 DEF vars, handler, Cluster, BreakWatch, WorkInHand
  <2>2. WorkLeft' = WorkLeft
    BY <1>3, <1>4, <2>1
  <2> QED BY <1>1, <1>2, <1>3, <2>2
<1>9. ASSUME Discovered \/ NotDiscovered \/ Exit \/ Die PROVE ~(WorkLeft' > WorkLeft)
  <2>1. step' = "idle" /\ (events' = events \/ events' = <<>>)
    BY <1>1, <1>9 DEF Discovered, NotDiscovered, Exit, Die, StartOver, Finish
  <2>2. WorkInHand' = 0
    BY <2>1 DEF WorkInHand
  <2>3. CASE events' = events
    <3>1. WorkLeft' = waiting
      BY <1>3, <1>4, <2>2, <2>3
    <3> QED BY <1>1, <1>2, <1>3, <3>1
  <2>4. CASE events' = <<>>
    <3>1. Len(events') = 0
      BY <2>4
    <3>2. WorkLeft' = 0
      BY <1>1, <2>2, <3>1 DEF WorkLeft
    <3> QED BY <1>1, <1>2, <1>3, <3>2
  <2> QED BY <2>1, <2>3, <2>4
<1> QED BY <1>5, <1>6, <1>7, <1>8, <1>9 DEF Next

(* The work at hand runs out: whatever Pod AddPod has in hand, wired or    *)
(* never wired, and whatever fails, each of its steps leaves less to do,   *)
(* and nothing but the watch adds to it.  What is left to fairness in      *)
(* NobodyWaits is that AddPod takes its steps.                             *)
THEOREM WorkEnds == Spec => WorkRunsOut
<1>1. TypeOK /\ [Next]_vars =>
        [/\ WorkLeft' > WorkLeft => \E n \in Names : Notice(n)
         /\ AddPod \/ ListPolicies \/ ListDanmEps => WorkLeft' < WorkLeft]_vars
  BY WorkStep
<1> QED BY <1>1, TypeCorrect, PTL DEF Spec, WorkRunsOut
=============================================================================
