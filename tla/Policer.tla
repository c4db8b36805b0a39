------------------------------- MODULE Policer -------------------------------
(***************************************************************************)
(* DANM Policer on one node (cmd/policer, pkg/polctrl).  It starts when it *)
(* finds its API installed; then the Pod informer calls AddPod and         *)
(* UpdatePod one event at a time; AddPod lists the policies, then the      *)
(* DanmEps until those of the Pod are there, and hands the rules that      *)
(* follow to a provisioning goroutine (module Provisioner).  It ends when  *)
(* a watch breaks, and is started again.  Everything else on this page is  *)
(* the cluster: Pods are created, scheduled, wired by the CNI plugin and   *)
(* deleted, policies come and go.                                          *)
(***************************************************************************)
EXTENDS PolicySelection

CONSTANTS
  Names,          \* names of Pods
  LabelSets,      \* the labels a Pod may have
  AllPolicies,    \* policies that may exist
  Standing,       \* DanmEps of other Pods that exist all along
  Passing,        \* DanmEps that come and go, those of the Pods among them
  MaxRetryCount,  \* attempts at finding the API, and at the DanmEps of a Pod
  Open,           \* what a Pod without rules has in place of a rule set
  MaxUid,         \* bound: Pods ever created
  MaxErrors,      \* bound: API calls that fail
  MaxRestarts     \* bound: deaths of Policer, and watches that break

Uids == 1 .. MaxUid
NoPod == [uid |-> 0, labels |-> {}, node |-> "none"]
Pod == {NoPod} \union
       [uid : Uids, labels : LabelSets, node : {"unassigned", "here", "elsewhere"}]

ASSUME PolicerBounds ==
  MaxRetryCount \in Nat \ {0} /\ MaxUid \in Nat /\ MaxErrors \in Nat /\ MaxRestarts \in Nat
ASSUME EpsAssumption == Standing \intersect Passing = {}
ASSUME OpenAssumption ==
  \A pols \in SUBSET AllPolicies, eps \in SUBSET (Standing \union Passing) :
    NewNetRuleSet(pols, eps) # Open

VARIABLES
  pods,           \* the Pod of each name in the API server
  uids,           \* Pods created so far
  policies,       \* the policies in the API server
  deps,           \* the DanmEps in the API server
  phase,          \* of the process: "discovering", "running" or "leaving"
  seen,           \* the Pod informer's store
  events,         \* notifications of Pods, <<old, new>>, not handled yet
  step,           \* where AddPod is
  pod,            \* its Pod, as the event had it
  policySet,      \* the policies it listed
  tries,          \* its attempts at the DanmEps, or those at finding the API
  shield,         \* the rules handed to the provisioner, for each UID
  unlisted,       \* Pods whose policies could not be listed (no code reads it)
  errors, restarts

world == <<pods, uids, policies, deps>>
handler == <<step, pod, policySet, tries>>
bounds == <<errors, restarts>>
vars == <<world, phase, seen, events, handler, shield, unlisted, bounds>>

Init ==
  /\ pods = [n \in Names |-> NoPod]
  /\ uids = 0
  /\ policies \in SUBSET AllPolicies
  /\ deps = Standing
  /\ phase = "discovering"
  /\ seen = [n \in Names |-> NoPod]
  /\ events = <<>>
  /\ step = "idle" /\ pod = NoPod /\ policySet = {} /\ tries = 0
  /\ shield = [u \in Uids |-> Open]
  /\ unlisted = {}
  /\ errors = 0 /\ restarts = 0

-----------------------------------------------------------------------------
(* The cluster.                                                            *)

CreatePod(n) ==
  /\ pods[n] = NoPod
  /\ uids < MaxUid
  /\ uids' = uids + 1
  /\ \E labels \in LabelSets :
       pods' = [pods EXCEPT ![n] = [uid |-> uids + 1, labels |-> labels, node |-> "unassigned"]]
  /\ UNCHANGED <<policies, deps>>

Schedule(n) ==
  /\ pods[n].node = "unassigned"
  /\ \E node \in {"here", "elsewhere"} : pods' = [pods EXCEPT ![n].node = node]
  /\ UNCHANGED <<uids, policies, deps>>

DeletePod(n) ==
  /\ pods[n] # NoPod
  /\ pods' = [pods EXCEPT ![n] = NoPod]
  /\ UNCHANGED <<uids, policies, deps>>

(* CNI ADD of a scheduled Pod, or of some other one (UID 0).               *)
Record(dep) ==
  /\ dep \notin deps
  /\ dep.pod = 0 \/ \E n \in Names : /\ pods[n].uid = dep.pod /\ pods[n].node # "unassigned"
                                     /\ pods[n].labels = dep.labels
  /\ deps' = deps \union {dep}
  /\ UNCHANGED <<pods, uids, policies>>

(* CNI DEL.                                                                *)
Drop(dep) ==
  /\ dep \in deps \ Standing
  /\ dep.pod = 0 \/ \A n \in Names : pods[n].uid # dep.pod
  /\ deps' = deps \ {dep}
  /\ UNCHANGED <<pods, uids, policies>>

ChangePolicies(pol) ==
  /\ policies' = IF pol \in policies THEN policies \ {pol} ELSE policies \union {pol}
  /\ UNCHANGED <<pods, uids, deps>>

Cluster ==
  /\ \/ \E n \in Names : CreatePod(n) \/ Schedule(n) \/ DeletePod(n)
     \/ \E dep \in Passing : Record(dep) \/ Drop(dep)
     \/ \E pol \in AllPolicies : ChangePolicies(pol)
  /\ UNCHANGED <<phase, seen, events, handler, shield, unlisted, bounds>>

-----------------------------------------------------------------------------
(* The process.                                                            *)

Finish ==
  /\ step' = "idle" /\ pod' = NoPod /\ policySet' = {} /\ tries' = 0

(* NewNetPolControl lists policies to find out whether the API is there.   *)
Discovered ==
  /\ phase = "discovering"
  /\ phase' = "running" /\ tries' = 0
  /\ UNCHANGED <<world, seen, events, step, pod, policySet, shield, unlisted, bounds>>

(* After the last failed attempt main exits, and is started again.         *)
NotDiscovered ==
  /\ phase = "discovering"
  /\ tries' = (tries + 1) % MaxRetryCount
  /\ UNCHANGED <<world, phase, seen, events, step, pod, policySet, shield, unlisted, bounds>>

(* WatchErrorHandler: a watch breaks for good.  The one value it sends on  *)
(* the stop channel stops one of the goroutines that wait there, any one;  *)
(* the others go on for the five seconds it sleeps.                        *)
BreakWatch ==
  /\ phase = "running"
  /\ restarts < MaxRestarts
  /\ restarts' = restarts + 1
  /\ phase' = "leaving"
  /\ UNCHANGED <<world, seen, events, handler, shield, unlisted, errors>>

(* The successor starts from nothing.                                      *)
StartOver ==
  /\ phase' = "discovering"
  /\ seen' = [n \in Names |-> NoPod]
  /\ events' = <<>>
  /\ Finish
  /\ UNCHANGED <<world, shield, unlisted, errors>>

Exit ==
  /\ phase = "leaving"
  /\ StartOver
  /\ UNCHANGED restarts

(* Policer dies.                                                           *)
Die ==
  /\ restarts < MaxRestarts
  /\ restarts' = restarts + 1
  /\ StartOver

-----------------------------------------------------------------------------
(* The Pod informer and its handlers.                                      *)

(* The store catches up with a Pod, which may have been deleted and made   *)
(* again under its name since.  Nothing is registered for deletions, nor,  *)
(* in effect, for policies: their handlers are empty.                      *)
Notice(n) ==
  /\ phase # "discovering"
  /\ seen[n] # pods[n]
  /\ seen' = [seen EXCEPT ![n] = pods[n]]
  /\ events' = IF pods[n] = NoPod THEN events ELSE Append(events, <<seen[n], pods[n]>>)
  /\ UNCHANGED <<world, phase, handler, shield, unlisted, bounds>>

(* Mutant: updates of a Pod are not handled.                               *)
NewPodsOnly(old, new) == old = NoPod

(* UpdatePod passes an update on to AddPod if the node changed; a new Pod  *)
(* comes from no node.                                                     *)
NodeChanged(old, new) == old.node # new.node

(* AddPod begins: a Pod of another node is none of its business.           *)
AddPod ==
  /\ step = "idle" /\ events # <<>>
  /\ events' = Tail(events)
  /\ LET old == Head(events)[1]
         new == Head(events)[2]
     IN  IF NodeChanged(old, new) /\ new.node = "here"
           THEN step' = "policies" /\ pod' = new
           ELSE UNCHANGED <<step, pod>>
  /\ UNCHANGED <<world, phase, seen, policySet, tries, shield, unlisted, bounds>>

(* NewPolicySet: when the list fails the set is empty, and a Pod that no   *)
(* policy selects is left alone.                                           *)
ListPolicies ==
  /\ step = "policies"
  /\ \/ /\ UNCHANGED <<errors, unlisted>>
        /\ IF FilterApplicablePolicies(policies, pod.labels) = {}
             THEN Finish
             ELSE step' = "deps" /\ policySet' = policies /\ UNCHANGED <<pod, tries>>
     \/ /\ errors < MaxErrors
        /\ errors' = errors + 1
        /\ unlisted' = unlisted \union {pod.uid}
        /\ Finish
  /\ UNCHANGED <<world, phase, seen, events, shield, restarts>>

(* Mutant: there is always another attempt.                                *)
RetryForever ==
  UNCHANGED <<step, pod, policySet, tries>>

(* Mutant: one attempt too few.                                            *)
RetryOnceLess ==
  IF tries + 2 < MaxRetryCount
    THEN tries' = tries + 1 /\ UNCHANGED <<step, pod, policySet>>
    ELSE Finish

(* Mutant: one attempt too many.                                           *)
RetryOnceMore ==
  IF tries < MaxRetryCount
    THEN tries' = tries + 1 /\ UNCHANGED <<step, pod, policySet>>
    ELSE Finish

(* After a while AddPod tries again, or gives up for good.                 *)
Retry ==
  IF tries + 1 < MaxRetryCount
    THEN tries' = tries + 1 /\ UNCHANGED <<step, pod, policySet>>
    ELSE Finish

(* NewDanmEpSet: the DanmEps of the Pod tell its network namespace, and    *)
(* all of them make up the peers.  When the list fails the set is empty.   *)
ListDanmEps ==
  /\ step = "deps"
  /\ \/ /\ UNCHANGED errors
        /\ IF PodEps(deps, pod.uid) = {}
             THEN Retry /\ UNCHANGED shield
             ELSE /\ shield' = [shield EXCEPT ![pod.uid] =
                       NewNetRuleSet(FilterApplicablePolicies(policySet, pod.labels), deps)]
                  /\ Finish
     \/ /\ errors < MaxErrors
        /\ errors' = errors + 1
        /\ Retry
        /\ UNCHANGED shield
  /\ UNCHANGED <<world, phase, seen, events, unlisted, restarts>>

Next ==
  \/ Cluster
  \/ \E n \in Names : Notice(n)
  \/ AddPod
  \/ ListPolicies
  \/ ListDanmEps
  \/ Discovered \/ NotDiscovered \/ BreakWatch \/ Exit \/ Die

Spec == Init /\ [][Next]_vars

(* The API answers in the end, a process that leaves is gone after five    *)
(* seconds, and while no watch is broken the watch delivers and the        *)
(* handlers run; afterwards any of them may have been stopped.             *)
FairSpec ==
  /\ Spec
  /\ WF_vars(Discovered) /\ WF_vars(Exit)
  /\ \A n \in Names : WF_vars(phase = "running" /\ Notice(n))
  /\ WF_vars(phase = "running" /\ (AddPod \/ ListPolicies \/ ListDanmEps))

-----------------------------------------------------------------------------
(* Properties.                                                             *)

(* The variables have their types.                                         *)
TypeOK ==
  /\ pods \in [Names -> Pod] /\ seen \in [Names -> Pod]
  /\ uids \in 0 .. MaxUid
  /\ policies \subseteq AllPolicies /\ policySet \subseteq AllPolicies
  /\ deps \subseteq Standing \union Passing
  /\ phase \in {"discovering", "running", "leaving"}
  /\ phase = "discovering" => step = "idle" /\ events = <<>>
  /\ events \in Seq(Pod \X Pod)
  /\ step \in {"idle", "policies", "deps"}
  /\ pod \in Pod /\ (step = "idle" <=> pod = NoPod)
  /\ tries \in 0 .. MaxRetryCount - 1
  /\ errors \in 0 .. MaxErrors /\ restarts \in 0 .. MaxRestarts
  /\ unlisted \subseteq Uids

(* The DanmEps that a rule set lets through: what comes in from them, and  *)
(* what goes out to them.                                                  *)
LetIn(rules) ==
  [f \in Families |-> [dir \in Dirs |->
    {dep \in Standing \union Passing :
       \E rule \in rules[f][dir] : rule.dep = dep.uid /\ rule.side = PeerSide[dir]}]]

(* What is provisioned is what the user guide says of the selectors        *)
(* ("Interworking between the different selectors"): the Pod is one that   *)
(* policies select, and the DanmEps let in are those that the policies     *)
(* whitelist, of the policies and the DanmEps AddPod has listed.           *)
ExactSelection ==
  [][\A u \in Uids :
       shield'[u] # shield[u] =>
         LET selecting == SelectedBy(policySet, pod.labels)
         IN  /\ u = pod.uid /\ selecting # {}
             /\ LetIn(shield'[u]) = Whitelist(selecting, deps)]_vars

(* A Pod of this node that a policy selects and that is wired in time is   *)
(* isolated in the end, over restarts, broken watches and calls that fail, *)
(* unless its policies are withdrawn.  In time is before AddPod has made   *)
(* more attempts than calls failed, or while it has an attempt left and    *)
(* calls fail no more.  What excuses a Pod: a failed list of policies, as  *)
(* many failures as there are attempts, and a predecessor of its name on   *)
(* its node that it replaced unnoticed, for Policer has no second look at  *)
(* a Pod.                                                                  *)
Selected(u, labels) == SelectedBy(policies, labels) # {} /\ PodEps(deps, u) # {}

Awaited(n) ==
  \/ seen[n].node # "here"
  \/ pod = pods[n] /\ (tries <= errors \/ errors = MaxErrors)
  \/ \E i \in DOMAIN events :
       events[i][2] = pods[n] /\ events[i][1].node # "here"

Excused(u) == u \in unlisted \/ errors >= MaxRetryCount

IsolatedInTheEnd ==
  \A n \in Names, u \in Uids :
    (/\ pods[n].uid = u /\ pods[n].node = "here" /\ Awaited(n)
     /\ Selected(u, pods[n].labels))
      ~> (\/ shield[u] # Open \/ Excused(u)
          \/ pods[n].uid # u \/ ~Selected(u, pods[n].labels))

(* What IsolatedInTheEnd leaves to no scheduler: in no single step is such *)
(* a Pod forgotten.  It is still to be noticed, or in an event, or in hand *)
(* with an attempt left, until it has its rules or one of the excuses.     *)
NeverForgotten ==
  [][\A n \in Names, u \in Uids :
       (/\ pods[n].uid = u /\ pods[n].node = "here" /\ Awaited(n)
        /\ Selected(u, pods[n].labels))
         => \/ Awaited(n)' \/ shield'[u] # Open \/ Excused(u)'
            \/ pods'[n].uid # u \/ ~Selected(u, pods[n].labels)']_vars

(* Whatever Pod it has in hand, one that is never wired among them, AddPod *)
(* comes to an end, and so does every event that waits behind it.          *)
NobodyWaits == (step # "idle" \/ events # <<>>) ~> (step = "idle" /\ events = <<>>)

(* What NobodyWaits leaves to no scheduler: an event takes no more steps   *)
(* than the attempts at the DanmEps and two, each step of AddPod is one of *)
(* them, and only the watch brings new ones.                               *)
WorkInHand ==
  CASE step = "idle" -> 0
    [] step = "policies" -> MaxRetryCount + 1
    [] step = "deps" -> MaxRetryCount - tries

WorkLeft == Len(events) * (MaxRetryCount + 2) + WorkInHand

WorkRunsOut ==
  [][/\ WorkLeft' > WorkLeft => \E n \in Names : Notice(n)
     /\ AddPod \/ ListPolicies \/ ListDanmEps => WorkLeft' < WorkLeft]_vars
=============================================================================
