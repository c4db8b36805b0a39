---------------------------- MODULE CleanerProofs ----------------------------
(***************************************************************************)
(* Theorems about Cleaner, for any number of Pods, threads, interfaces and *)
(* addresses, and any bounds.                                              *)
(***************************************************************************)
EXTENDS Cleaner, TLAPS

USE DEF Actors, Uids, IP

-----------------------------------------------------------------------------
(* Facts about the operators the actions are built from.                   *)

(* What an endpoint carries: its fields have their types.                  *)
LEMMA EndpointFields ==
  ASSUME NEW e \in Endpoint
  PROVE  /\ e.pod \in Names /\ e.uid \in 1 .. MaxUid
         /\ e.v4 \in V4 \union {NoIP} /\ e.v6 \in V6 \union {NoIP}
         /\ IPs(e) \subseteq IP
BY DEF Endpoint, IPs

(* A release service exists only for an address that is really there.      *)
LEMMA ServiceNeedsAddress ==
  ASSUME NEW ep, NEW ip, SelectReleaseService(ep, ip) # "none"
  PROVE  ip # NoIP
BY CidrAssumption DEF SelectReleaseService, DanmOwns, CalicoOwns

-----------------------------------------------------------------------------
(* Type correctness.                                                       *)

LEMMA InitTypeOK == Init => TypeOK
<1> SUFFICES ASSUME Init PROVE TypeOK
  OBVIOUS
<1>1. NoPod \in Pod /\ 0 \in 0 .. MaxUid /\ 0 \in 0 .. MaxErrors /\ 0 \in 0 .. MaxCrashes
  BY UidAssumption, BoundsAssumption DEF NoPod, Pod, Phases
<1>2. ClusterTypeOK
  BY <1>1 DEF Init, ClusterInit, ClusterTypeOK
<1>3. pc \in [Actors -> PCs]
  BY DEF Init, PCs
<1>4. /\ seen \in [Names -> Pod]
      /\ key \in [Workers -> Names \union {NoKey}]
      /\ todo \in [Actors -> SUBSET Endpoint]
      /\ cur \in [Actors -> Endpoint \union {NoEp}]
  BY <1>1 DEF Init
<1>5. InHand
  BY DEF Init, InHand, Deleting
<1> QED BY <1>1, <1>2, <1>3, <1>4, <1>5 DEF Init, TypeOK

(* Every step keeps a DanmEp in the hands of a thread exactly while it is  *)
(* inside deleteInterface.                                                 *)
LEMMA InHandStep ==
  ASSUME TypeOK, [Next]_vars
  PROVE  InHand'
<1> DEFINE Hand(a) == Deleting(a) <=> cur[a] # NoEp
<1>1. /\ pc \in [Actors -> PCs] /\ cur \in [Actors -> Endpoint \union {NoEp}]
      /\ todo \in [Actors -> SUBSET Endpoint]
      /\ \A a \in Actors : Hand(a)
  BY DEF TypeOK, InHand
<1>2. CASE UNCHANGED threads
  BY <1>1, <1>2 DEF threads, InHand, Deleting
<1>3. CASE Crash
  BY <1>3 DEF Crash, InHand, Deleting
<1>4. ASSUME NEW a \in Actors, NextInterface(a) PROVE InHand'
  BY <1>1, <1>4 DEF NextInterface, InHand, Deleting
<1>5. ASSUME NEW a \in Actors, NEW e \in todo[a],
             cur' = [cur EXCEPT ![a] = e], pc' = [pc EXCEPT ![a] = "wait"]
      PROVE  InHand'
  <2>1. e # NoEp
    BY <1>1, EpAssumption
  <2> QED BY <1>1, <1>5, <2>1 DEF InHand, Deleting
<1>6. ASSUME NEW a \in Actors, NEW next, ~Deleting(a), next \in {"idle", "list", "loop"},
             pc' = [pc EXCEPT ![a] = next], UNCHANGED cur
      PROVE  InHand'
  BY <1>1, <1>6 DEF InHand, Deleting
<1>7. ASSUME NEW a \in Actors, NEW next, Deleting(a), next \in {"v4", "v6", "delete"},
             pc' = [pc EXCEPT ![a] = next], UNCHANGED cur
      PROVE  InHand'
  BY <1>1, <1>7 DEF InHand, Deleting
<1>8. ASSUME NEW a \in Actors, DeleteInterface(a) PROVE InHand'
  <2>1. CASE Check(a)
    BY <1>4, <1>7, <2>1 DEF Check, Deleting
  <2>2. CASE ReleaseV4(a)
    BY <1>4, <1>7, <2>2 DEF ReleaseV4, ReleaseIP, Deleting
  <2>3. CASE ReleaseV6(a)
    BY <1>4, <1>7, <2>3 DEF ReleaseV6, ReleaseIP, Deleting
  <2>4. CASE DeleteEp(a)
    BY <1>4, <2>4 DEF DeleteEp
  <2> QED BY <1>8, <2>1, <2>2, <2>3, <2>4 DEF DeleteInterface
<1>9. ASSUME NEW w \in Workers, Worker(w) PROVE InHand'
  <2>1. ASSUME NEW n \in Names, Dequeue(w, n) PROVE InHand'
    BY <1>6, <2>1 DEF Dequeue, Deleting
  <2>2. CASE List(w)
    BY <1>6, <2>2 DEF List, Done, Deleting
  <2>3. CASE Pick(w)
    BY <1>5, <2>3 DEF Pick
  <2>4. CASE Finish(w)
    BY <1>6, <2>4 DEF Finish, Done, Deleting
  <2> QED BY <1>8, <1>9, <2>1, <2>2, <2>3, <2>4 DEF Worker
<1>10. CASE Periodic
  <2>1. CASE Tick
    <3>1. CASE pc' = [pc EXCEPT ![Ticker] = "loop"]
      BY <1>6, <2>1, <3>1 DEF Tick, Deleting
    <3>2. CASE UNCHANGED <<pc, cur>>
      BY <1>1, <3>2 DEF InHand, Deleting
    <3> QED BY <2>1, <3>1, <3>2 DEF Tick
  <2>2. CASE Judge
    <3>1. CASE UNCHANGED <<pc, cur>>
      BY <1>1, <3>1 DEF InHand, Deleting
    <3>2. CASE ~UNCHANGED <<pc, cur>>
      BY <1>5, <2>2, <3>2 DEF Judge
    <3> QED BY <3>1, <3>2
  <2>3. CASE EndTick
    BY <1>6, <2>3 DEF EndTick, Deleting
  <2> QED BY <1>8, <1>10, <2>1, <2>2, <2>3 DEF Periodic
<1>11. ASSUME Informer \/ ClusterStep PROVE UNCHANGED threads
  BY <1>11 DEF Informer, InitialList, Initialize, Observe, ClusterStep
<1> QED BY <1>2, <1>3, <1>9, <1>10, <1>11 DEF Next, vars

(* Steps of the cluster.                                                   *)
LEMMA ClusterTypeStep ==
  ASSUME TypeOK, InHand', ClusterStep
  PROVE  TypeOK'
<1> USE DEF TypeOK, ClusterTypeOK, informer, queue, threads, bounds
<1>1. ASSUME NEW n \in Names, PodStep(n) PROVE ClusterTypeOK'
  <2> USE <1>1, UidAssumption DEF Pod, Phases
  <2>1. CASE PodCreate(n)
    BY <2>1 DEF PodCreate
  <2>2. CASE PodRun(n)
    BY <2>2 DEF PodRun
  <2>3. CASE PodEnd(n)
    BY <2>3 DEF PodEnd
  <2>4. CASE PodDelete(n)
    BY <2>4 DEF PodDelete
  <2>5. CASE NodeLost(n)
    BY <2>5 DEF NodeLost
  <2>6. CASE NodeBack(n)
    BY <2>6 DEF NodeBack
  <2> QED BY <2>1, <2>2, <2>3, <2>4, <2>5, <2>6 DEF PodStep
<1>2. ASSUME NEW n \in Names, NEW i \in Ifaces, CniAdd(n, i) PROVE ClusterTypeOK'
  BY <1>2 DEF CniAdd
<1>3. ASSUME NEW e \in eps, CniDel(e) PROVE ClusterTypeOK'
  BY <1>3 DEF CniDel
<1>4. ClusterTypeOK'
  BY <1>1, <1>2, <1>3 DEF ClusterStep
<1>5. UNCHANGED <<informer, queue, threads, bounds>>
  BY DEF ClusterStep
<1> QED BY <1>4, <1>5

(* Steps of the informer and of a new leader.                              *)
LEMMA InformerTypeStep ==
  ASSUME TypeOK, InHand', Informer \/ Crash
  PROVE  TypeOK'
<1> USE DEF TypeOK, cluster, queue, threads, bounds
<1>1. NoPod \in Pod /\ \A n \in Names : View(n) \in Pod
  BY UidAssumption DEF NoPod, Pod, Phases, View, ClusterTypeOK
<1>2. ASSUME UNCHANGED cluster PROVE ClusterTypeOK'
  BY <1>2 DEF ClusterTypeOK
<1>3. CASE InitialList
  BY <1>1, <1>2, <1>3 DEF InitialList
<1>4. CASE Initialize
  BY <1>2, <1>4 DEF Initialize
<1>5. ASSUME NEW n \in Names, Observe(n) PROVE TypeOK'
  <2>1. UNCHANGED queue \/ EnqueuePod(n)
    BY <1>5 DEF Observe, UpdatePod, DelPod
  <2> QED BY <1>1, <1>2, <1>5, <2>1 DEF Observe, EnqueuePod
<1>6. CASE Crash
  <2>1. pc' \in [Actors -> PCs]
    BY <1>6 DEF Crash, PCs
  <2>2. crashes' \in 0 .. MaxCrashes
    BY <1>6, BoundsAssumption DEF Crash
  <2>3. seen' \in [Names -> Pod]
    BY <1>1, <1>6 DEF Crash
  <2>4. /\ key' \in [Workers -> Names \union {NoKey}]
        /\ todo' \in [Actors -> SUBSET Endpoint]
        /\ cur' \in [Actors -> Endpoint \union {NoEp}]
    BY <1>6 DEF Crash
  <2> QED BY <1>2, <1>6, <2>1, <2>2, <2>3, <2>4 DEF Crash
<1> QED BY <1>3, <1>4, <1>5, <1>6 DEF Informer

(* Steps of deleteInterface, whichever thread runs it.                     *)
LEMMA DeleteInterfaceTypeStep ==
  ASSUME TypeOK, InHand', NEW a \in Actors, DeleteInterface(a)
  PROVE  TypeOK'
<1> USE DEF TypeOK, ClusterTypeOK, cluster, informer, queue
<1>1. errors' \in 0 .. MaxErrors
  BY BoundsAssumption
     DEF DeleteInterface, Check, ReleaseV4, ReleaseV6, ReleaseIP, DeleteEp, ApiError, NoFault
<1>2. ASSUME NextInterface(a)
      PROVE  /\ pc' \in [Actors -> PCs]
             /\ cur' \in [Actors -> Endpoint \union {NoEp}]
  BY <1>2 DEF NextInterface, PCs
<1>3. CASE Check(a)
  <2>1. /\ pc' \in [Actors -> PCs]
        /\ cur' \in [Actors -> Endpoint \union {NoEp}]
    BY <1>2, <1>3 DEF Check, PCs
  <2> QED BY <1>1, <1>3, <2>1 DEF Check
<1>4. ASSUME NEW ip, NEW next \in {"v6", "delete"}, ReleaseIP(a, ip, next)
      PROVE  TypeOK'
  <2>1. /\ pc' \in [Actors -> PCs]
        /\ cur' \in [Actors -> Endpoint \union {NoEp}]
    BY <1>2, <1>4 DEF ReleaseIP, PCs
  <2>2. owner' \in [IP -> Endpoint \union {NoEp}]
    BY <1>4 DEF ReleaseIP
  <2> QED BY <1>1, <1>4, <2>1, <2>2 DEF ReleaseIP
<1>5. CASE ReleaseV4(a)
  BY <1>4, <1>5 DEF ReleaseV4
<1>6. CASE ReleaseV6(a)
  BY <1>4, <1>6 DEF ReleaseV6
<1>7. CASE DeleteEp(a)
  <2>1. eps' \subseteq Endpoint
    BY <1>7 DEF DeleteEp
  <2> QED BY <1>1, <1>2, <1>7, <2>1 DEF DeleteEp
<1> QED BY <1>3, <1>5, <1>6, <1>7 DEF DeleteInterface

(* Steps of an event handler thread outside deleteInterface.               *)
LEMMA WorkerTypeStep ==
  ASSUME TypeOK, InHand', NEW w \in Workers,
         \/ \E n \in Names : Dequeue(w, n)
         \/ List(w) \/ Pick(w) \/ Finish(w)
  PROVE  TypeOK'
<1> USE DEF TypeOK, ClusterTypeOK, cluster, informer, bounds
<1>1. ASSUME Done(w)
      PROVE  /\ processing' \subseteq Names /\ dirty' \subseteq Names
             /\ key' \in [Workers -> Names \union {NoKey}]
             /\ pc' \in [Actors -> PCs]
  BY <1>1 DEF Done, PCs
<1>2. ASSUME NEW n \in Names, Dequeue(w, n) PROVE TypeOK'
  <2>1. /\ pc' \in [Actors -> PCs]
        /\ key' \in [Workers -> Names \union {NoKey}]
    BY <1>2 DEF Dequeue, PCs
  <2> QED BY <1>2, <2>1 DEF Dequeue
<1>3. CASE List(w)
  <2>1. errors' \in 0 .. MaxErrors
    BY <1>3, BoundsAssumption DEF List, ApiError, NoFault
  <2>2. todo' \in [Actors -> SUBSET Endpoint]
    BY <1>3 DEF List
  <2>3. /\ processing' \subseteq Names /\ dirty' \subseteq Names
        /\ key' \in [Workers -> Names \union {NoKey}]
        /\ pc' \in [Actors -> PCs]
    BY <1>1, <1>3 DEF List, PCs, queue
  <2> QED BY <1>3, <2>1, <2>2, <2>3 DEF List
<1>4. CASE Pick(w)
  <2>1. PICK e \in todo[w] : /\ todo' = [todo EXCEPT ![w] = @ \ {e}]
                             /\ cur' = [cur EXCEPT ![w] = e]
    BY <1>4 DEF Pick
  <2>2. /\ todo' \in [Actors -> SUBSET Endpoint]
        /\ cur' \in [Actors -> Endpoint \union {NoEp}]
    BY <2>1
  <2>3. pc' \in [Actors -> PCs]
    BY <1>4 DEF Pick, PCs
  <2> QED BY <1>4, <2>2, <2>3 DEF Pick, queue
<1>5. CASE Finish(w)
  BY <1>1, <1>5 DEF Finish
<1> QED BY <1>2, <1>3, <1>4, <1>5

(* Steps of the periodic thread outside deleteInterface.                   *)
LEMMA PeriodicTypeStep ==
  ASSUME TypeOK, InHand', Tick \/ Judge \/ EndTick
  PROVE  TypeOK'
<1> USE DEF TypeOK, ClusterTypeOK, cluster, informer, queue, bounds
<1>1. CASE Tick
  <2>1. errors' \in 0 .. MaxErrors
    BY <1>1, BoundsAssumption DEF Tick, ApiError, NoFault
  <2>2. /\ pc' \in [Actors -> PCs]
        /\ todo' \in [Actors -> SUBSET Endpoint]
    BY <1>1 DEF Tick, PCs
  <2> QED BY <1>1, <2>1, <2>2 DEF Tick
<1>2. CASE Judge
  <2>1. PICK e \in todo[Ticker] :
          /\ todo' = [todo EXCEPT ![Ticker] = @ \ {e}]
          /\ podCache' = podCache \union {<<CacheKey(e), Verdict(e)>>}
          /\ IF Verdict(e)
               THEN UNCHANGED <<pc, cur>>
               ELSE /\ cur' = [cur EXCEPT ![Ticker] = e]
                    /\ pc' = [pc EXCEPT ![Ticker] = "wait"]
    BY <1>2 DEF Judge
  <2>2. e \in Endpoint
    BY <2>1
  <2>3. CacheKey(e) \in Uids
    BY <2>2, EndpointFields DEF CacheKey
  <2>4. Verdict(e) \in BOOLEAN
    <3> DEFINE Cached == \E exists \in BOOLEAN : <<CacheKey(e), exists>> \in podCache
    <3> HIDE DEF TypeOK, ClusterTypeOK
    <3>1. CASE Cached
      <4>1. Verdict(e) = (<<CacheKey(e), TRUE>> \in podCache)
        BY <3>1 DEF Verdict
      <4> QED BY <4>1
    <3>2. CASE ~Cached
      <4>1. Verdict(e) = ListerHasPod(e)
        BY <3>2 DEF Verdict
      <4> QED BY <4>1 DEF ListerHasPod
    <3> QED BY <3>1, <3>2
  <2>5. todo' \in [Actors -> SUBSET Endpoint]
    BY <2>1
  <2>6. podCache' \subseteq Uids \X BOOLEAN
    BY <2>1, <2>3, <2>4
  <2>7. /\ pc' \in [Actors -> PCs]
        /\ cur' \in [Actors -> Endpoint \union {NoEp}]
    BY <2>1, <2>2 DEF PCs
  <2> QED BY <1>2, <2>5, <2>6, <2>7 DEF Judge
<1>3. CASE EndTick
  <2>1. pc' \in [Actors -> PCs]
    BY <1>3 DEF EndTick, PCs
  <2> QED BY <1>3, <2>1 DEF EndTick
<1> QED BY <1>1, <1>2, <1>3

LEMMA TypeStep == TypeOK /\ [Next]_vars => TypeOK'
<1> SUFFICES ASSUME TypeOK, [Next]_vars PROVE TypeOK'
  OBVIOUS
<1>1. CASE Next
  BY <1>1, InHandStep, ClusterTypeStep, InformerTypeStep, DeleteInterfaceTypeStep,
     WorkerTypeStep, PeriodicTypeStep
     DEF Next, Worker, Periodic
<1>2. CASE UNCHANGED vars
  BY <1>2, InHandStep DEF vars, cluster, informer, queue, threads, bounds, TypeOK, ClusterTypeOK
<1> QED BY <1>1, <1>2

(* The variables always have their types: the queue holds nothing but keys *)
(* of Pods, whatever the handlers are given (enqueuePod), and a thread is  *)
(* inside deleteInterface exactly while it has a DanmEp in hand.           *)
THEOREM TypeCorrect == Spec => []TypeOK
BY InitTypeOK, TypeStep, PTL DEF Spec

-----------------------------------------------------------------------------
(* The inductive invariants.                                               *)

(* What TypeOK says of a thread inside deleteInterface, as it is needed.   *)
HasCur == \A a \in Actors : Deleting(a) => cur[a] \in Endpoint

(* A worker's key is being processed for as long as it is at work.         *)
KeyProcessing == \A w \in Workers : pc[w] # "idle" => key[w] \in processing

(* UIDs are handed out in order, and each to one Pod.                      *)
UidsFresh ==
  /\ \A n \in Names : pods[n].uid <= uids
  /\ \A m, n \in Names : pods[m].uid = pods[n].uid /\ pods[n].uid # 0 => m = n

(* The endpoints someone has heard of: on record, listed, or in hand.      *)
Known(e) ==
  \/ e \in eps
  \/ \E a \in Actors : e \in todo[a] \/ cur[a] = e

(* The Pod of an endpoint is there, its containers have not ended.         *)
Live(e) ==
  /\ pods[e.pod].uid = e.uid
  /\ pods[e.pod].phase \in {"pending", "running", "unknown"}

(* An endpoint someone has heard of belongs to a Pod created before, and   *)
(* is in use if that Pod is live: CNI ADD cannot record it once more.      *)
KnownFresh ==
  \A e \in Endpoint : Known(e) => e.uid <= uids /\ (Live(e) => e \in wired)

(* An address is reserved only for a recorded endpoint that carries it.    *)
OwnerRecorded ==
  \A ip \in IP : owner[ip] # NoEp => owner[ip] \in eps /\ ip \in IPs(owner[ip])

(* A thread about to free the second address, or to delete the DanmEp, has *)
(* freed the ones before for good.                                         *)
ReleasedFirst ==
  \A a \in Actors, ip \in IP :
    owner[ip] = cur[a] =>
      /\ pc[a] \in {"v6", "delete"} => ip # cur[a].v4
      /\ pc[a] = "delete" => ip # cur[a].v6

IInv ==
  /\ TypeOK
  /\ HasCur
  /\ UidsFresh
  /\ KnownFresh
  /\ OwnerRecorded
  /\ ReleasedFirst

(* Steps that change nothing but the threads keep the invariant, if no     *)
(* thread hears of a new endpoint or gets past a release by them.          *)
LEMMA ThreadsOnly ==
  ASSUME IInv, TypeOK', HasCur', UNCHANGED cluster,
         \A e \in Endpoint : Known(e)' => Known(e),
         \A a \in Actors : \/ pc'[a] = pc[a] /\ cur'[a] = cur[a]
                           \/ pc'[a] \notin {"v6", "delete"}
  PROVE  IInv'
<1> USE DEF cluster
<1>1. UidsFresh' /\ OwnerRecorded'
  BY DEF IInv, UidsFresh, OwnerRecorded
<1>2. KnownFresh'
  BY DEF IInv, KnownFresh, Live
<1>3. ReleasedFirst'
  BY DEF IInv, ReleasedFirst
<1> QED BY <1>1, <1>2, <1>3 DEF IInv

LEMMA InitIInv == Init => IInv
<1> SUFFICES ASSUME Init PROVE IInv
  OBVIOUS
<1>1. TypeOK
  BY InitTypeOK
<1>2. UidsFresh
  BY DEF Init, ClusterInit, UidsFresh, NoPod
<1>3. HasCur /\ ReleasedFirst
  BY DEF Init, HasCur, Deleting, ReleasedFirst
<1>4. OwnerRecorded
  BY DEF Init, ClusterInit, OwnerRecorded
<1>5. \A e \in Endpoint : ~Known(e)
  BY EpAssumption DEF Init, ClusterInit, Known
<1>6. KnownFresh
  BY <1>5 DEF KnownFresh
<1> QED BY <1>1, <1>2, <1>3, <1>4, <1>6 DEF IInv

(* CNI ADD records an endpoint nobody has heard of, so that none of the    *)
(* addresses a thread freed before can seem to be reserved again for the   *)
(* endpoint it is about to delete.                                         *)
LEMMA CniAddFresh ==
  ASSUME IInv, NEW n \in Names, NEW i \in Ifaces, NEW e \in Endpoint,
         pods[n].phase = "pending",
         \A f \in wired : ~(f.uid = pods[n].uid /\ f.iface = i),
         e.pod = n, e.uid = pods[n].uid, e.iface = i
  PROVE  ~Known(e)
BY DEF IInv, KnownFresh, Live

LEMMA CniAddStep ==
  ASSUME IInv, TypeOK', NEW n \in Names, NEW i \in Ifaces, CniAdd(n, i),
         UNCHANGED threads
  PROVE  IInv'
<1> USE DEF threads
<1>1. PICK e \in Endpoint :
        /\ e.pod = n /\ e.uid = pods[n].uid /\ e.iface = i
        /\ \A ip \in IPs(e) : owner[ip] = NoEp
        /\ eps' = eps \union {e}
        /\ owner' = [ip \in IP |-> IF ip \in IPs(e) THEN e ELSE owner[ip]]
        /\ wired' = wired \union {e}
  BY DEF CniAdd
<1>2. UNCHANGED <<pods, uids>>
  BY DEF CniAdd
<1>3. ~Known(e)
  BY <1>1, CniAddFresh DEF CniAdd
<1>4. HasCur' /\ UidsFresh'
  BY <1>2 DEF IInv, HasCur, Deleting, UidsFresh
<1>5. ASSUME NEW f \in Endpoint, Known(f)'
      PROVE  f.uid <= uids' /\ (Live(f)' => f \in wired')
  <2>1. CASE f = e
    BY <1>1, <1>2, <2>1 DEF IInv, UidsFresh
  <2>2. CASE f # e
    <3>1. Known(f)
      BY <1>1, <1>5, <2>2 DEF Known
    <3> QED BY <1>1, <1>2, <3>1 DEF IInv, KnownFresh, Live
  <2> QED BY <2>1, <2>2
<1>6. KnownFresh'
  BY <1>5 DEF KnownFresh
<1>7. OwnerRecorded'
  BY <1>1 DEF IInv, OwnerRecorded
<1>8. ReleasedFirst'
  <2>1. \A a \in Actors : cur[a] # e
    BY <1>3 DEF Known
  <2> QED BY <1>1, <2>1 DEF IInv, ReleasedFirst
<1> QED BY <1>4, <1>6, <1>7, <1>8 DEF IInv

LEMMA CniDelStep ==
  ASSUME IInv, TypeOK', NEW e \in eps, CniDel(e), UNCHANGED threads
  PROVE  IInv'
<1> USE DEF threads, CniDel
<1>1. HasCur' /\ UidsFresh'
  BY DEF IInv, HasCur, Deleting, UidsFresh
<1>2. KnownFresh'
  BY DEF IInv, KnownFresh, Known, Live
<1>3. OwnerRecorded'
  BY DEF IInv, OwnerRecorded
<1>4. ReleasedFirst'
  <2> SUFFICES ASSUME NEW a \in Actors, NEW ip \in IP, owner'[ip] = cur[a]
               PROVE  /\ pc[a] \in {"v6", "delete"} => ip # cur[a].v4
                      /\ pc[a] = "delete" => ip # cur[a].v6
    BY DEF ReleasedFirst
  <2>1. CASE owner'[ip] = owner[ip]
    BY <2>1 DEF IInv, ReleasedFirst
  <2>2. CASE owner'[ip] = NoEp
    BY <2>2, EpAssumption DEF IInv, HasCur, Deleting
  <2> QED BY <2>1, <2>2
<1> QED BY <1>1, <1>2, <1>3, <1>4 DEF IInv

LEMMA PodStepStep ==
  ASSUME IInv, TypeOK', NEW n \in Names, PodStep(n), UNCHANGED threads
  PROVE  IInv'
<1> USE DEF threads, InApi
<1>1. UNCHANGED <<eps, owner>>
  BY DEF PodStep, PodCreate, PodRun, PodEnd, PodDelete, NodeLost, NodeBack
<1>2. HasCur' /\ OwnerRecorded' /\ ReleasedFirst'
  BY <1>1 DEF IInv, HasCur, Deleting, OwnerRecorded, ReleasedFirst
<1>3. \A e \in Endpoint : Known(e)' => Known(e)
  BY <1>1 DEF Known
<1>4. /\ pods \in [Names -> Pod] /\ uids \in Nat
      /\ UidsFresh /\ KnownFresh
  BY UidAssumption DEF IInv, TypeOK, ClusterTypeOK
<1>5. CASE PodCreate(n)
  <2>1. /\ uids' = uids + 1 /\ UNCHANGED wired
        /\ pods' = [pods EXCEPT ![n] = [phase |-> "pending", uid |-> uids + 1]]
    BY <1>5 DEF PodCreate
  <2>2. \A m \in Names : pods[m].uid \in Nat /\ pods[m].uid <= uids
    BY <1>4, UidAssumption DEF Pod, UidsFresh
  <2>3. UidsFresh'
    BY <1>4, <2>1, <2>2 DEF UidsFresh
  <2>4. ASSUME NEW e \in Endpoint, Known(e)'
        PROVE  e.uid <= uids' /\ (Live(e)' => e \in wired')
    <3>1. e.uid <= uids /\ (Live(e) => e \in wired)
      BY <1>3, <1>4, <2>4 DEF KnownFresh
    <3>2. e.uid \in Nat /\ e.pod \in Names
      BY EndpointFields, UidAssumption
    <3>3. Live(e)' => Live(e)
      BY <1>4, <2>1, <3>1, <3>2 DEF Live
    <3> QED BY <1>4, <2>1, <3>1, <3>2, <3>3
  <2> QED BY <1>2, <2>3, <2>4 DEF IInv, KnownFresh
<1>6. ASSUME UNCHANGED uids, NEW ph \in Phases,
             pods' = [pods EXCEPT ![n].phase = ph]
      PROVE  /\ UidsFresh'
             /\ \A m \in Names : pods'[m].uid = pods[m].uid
             /\ \A m \in Names : m # n => pods'[m] = pods[m]
             /\ pods'[n].phase = ph
  <2>1. /\ \A m \in Names : pods'[m].uid = pods[m].uid
        /\ \A m \in Names : m # n => pods'[m] = pods[m]
        /\ pods'[n].phase = ph
    BY <1>4, <1>6 DEF Pod
  <2> QED BY <1>4, <1>6, <2>1 DEF UidsFresh
<1>7. CASE PodRun(n) \/ NodeLost(n) \/ NodeBack(n)
  <2>1. PICK ph \in {"running", "unknown"} :
          /\ pods' = [pods EXCEPT ![n].phase = ph]
          /\ pods[n].phase \in {"pending", "running", "unknown"}
          /\ UNCHANGED <<uids, wired>>
    BY <1>7 DEF PodRun, NodeLost, NodeBack
  <2>2. ph \in Phases
    BY <2>1 DEF Phases
  <2>3. \A e \in Endpoint : Live(e)' => Live(e)
    BY <1>6, <2>1, <2>2, EndpointFields DEF Live
  <2>4. KnownFresh'
    BY <1>3, <1>4, <2>1, <2>3 DEF KnownFresh
  <2> QED BY <1>2, <1>6, <2>1, <2>2, <2>4 DEF IInv
<1>8. CASE PodEnd(n) \/ PodDelete(n)
  <2>1. PICK ph \in {"ended", "none"} :
          /\ pods' = [pods EXCEPT ![n].phase = ph]
          /\ wired' = {e \in wired : e.uid # pods[n].uid}
          /\ pods[n].phase # "none"
          /\ UNCHANGED uids
    BY <1>8 DEF PodEnd, PodDelete
  <2>2. ph \in Phases
    BY <2>1 DEF Phases
  <2>3. ASSUME NEW e \in Endpoint, Known(e)', Live(e)'
        PROVE  e \in wired'
    <3>1. e.pod \in Names /\ e.uid \in 1 .. MaxUid
      BY EndpointFields
    <3>2. e.pod # n
      BY <1>6, <2>1, <2>2, <2>3, <3>1 DEF Live
    <3>3. Live(e)
      BY <1>6, <2>1, <2>2, <2>3, <3>1, <3>2 DEF Live
    <3>4. e \in wired
      BY <1>3, <1>4, <2>3, <3>3 DEF KnownFresh
    <3>5. e.uid # pods[n].uid
      BY <1>4, <3>1, <3>2, <3>3 DEF UidsFresh, Live
    <3> QED BY <2>1, <3>4, <3>5
  <2>4. KnownFresh'
    BY <1>3, <1>4, <2>1, <2>3 DEF KnownFresh
  <2> QED BY <1>2, <1>6, <2>1, <2>2, <2>4 DEF IInv
<1> QED BY <1>5, <1>7, <1>8 DEF PodStep

LEMMA ClusterInvStep ==
  ASSUME IInv, TypeOK', ClusterStep
  PROVE  IInv'
BY PodStepStep, CniAddStep, CniDelStep DEF ClusterStep

LEMMA LeaderInvStep ==
  ASSUME IInv, TypeOK', Informer \/ Crash
  PROVE  IInv'
<1>1. UNCHANGED cluster
  BY DEF Informer, InitialList, Initialize, Observe, Crash
<1>2. CASE Informer
  <2>1. UNCHANGED threads
    BY <1>2 DEF Informer, InitialList, Initialize, Observe
  <2> QED BY <1>1, <2>1, ThreadsOnly DEF threads, cluster, Known, IInv, HasCur, Deleting
<1>3. CASE Crash
  <2>1. \A a \in Actors : pc'[a] = "idle" /\ todo'[a] = {} /\ cur'[a] = NoEp
    BY <1>3 DEF Crash
  <2>2. \A e \in Endpoint : Known(e)' => Known(e)
    BY <1>1, <2>1, EpAssumption DEF Known, cluster
  <2> QED BY <1>1, <2>1, <2>2, ThreadsOnly DEF HasCur, Deleting
<1> QED BY <1>2, <1>3

(* What deleteInterface leaves alone: the other threads, the Pods, the     *)
(* lists; and how far the thread gets in one step.                         *)
LEMMA DeleteInterfaceFrame ==
  ASSUME TypeOK, NEW a \in Actors, DeleteInterface(a)
  PROVE  /\ Deleting(a)
         /\ UNCHANGED <<pods, uids, wired, informer, queue, todo, podCache, crashes>>
         /\ \/ /\ pc' = [pc EXCEPT ![a] = "loop"]
               /\ cur' = [cur EXCEPT ![a] = NoEp]
            \/ /\ \E step \in {"v4", "v6", "delete"} : pc' = [pc EXCEPT ![a] = step]
               /\ UNCHANGED cur
<1> USE DEF Deleting, NextInterface, cluster, informer, queue
<1>1. CASE Check(a)
  BY <1>1 DEF Check
<1>2. CASE ReleaseV4(a)
  BY <1>2 DEF ReleaseV4, ReleaseIP
<1>3. CASE ReleaseV6(a)
  BY <1>3 DEF ReleaseV6, ReleaseIP
<1>4. CASE DeleteEp(a)
  BY <1>4 DEF DeleteEp
<1> QED BY <1>1, <1>2, <1>3, <1>4 DEF DeleteInterface

LEMMA ThreadInvStep ==
  ASSUME IInv, TypeOK',
         \/ \E w \in Workers : \/ \E n \in Names : Dequeue(w, n)
                               \/ List(w) \/ Pick(w) \/ Finish(w)
         \/ Tick \/ Judge \/ EndTick
  PROVE  IInv'
<1> USE DEF cluster
<1>1. TypeOK /\ HasCur
  BY DEF IInv
<1>2. UNCHANGED cluster
  BY DEF Dequeue, List, Pick, Finish, Tick, Judge, EndTick
<1>3. ASSUME NEW a \in Actors,
             UNCHANGED cur,
             \E s \in {"idle", "list", "loop"} : pc' = [pc EXCEPT ![a] = s],
             \/ UNCHANGED todo
             \/ \E S \in SUBSET eps : todo' = [todo EXCEPT ![a] = S]
      PROVE  IInv'
  <2>1. \A e \in Endpoint : Known(e)' => Known(e)
    BY <1>1, <1>2, <1>3 DEF Known, TypeOK
  <2>2. HasCur'
    BY <1>1, <1>3 DEF HasCur, Deleting, TypeOK
  <2> QED BY <1>1, <1>2, <1>3, <2>1, <2>2, ThreadsOnly DEF TypeOK
<1>4. ASSUME NEW a \in Actors, NEW e \in todo[a],
             todo' = [todo EXCEPT ![a] = @ \ {e}],
             \/ UNCHANGED <<pc, cur>>
             \/ /\ cur' = [cur EXCEPT ![a] = e]
                /\ pc' = [pc EXCEPT ![a] = "wait"]
      PROVE  IInv'
  <2>1. \A f \in Endpoint : Known(f)' => Known(f)
    BY <1>1, <1>2, <1>4 DEF Known, TypeOK
  <2>2. HasCur'
    BY <1>1, <1>4 DEF HasCur, Deleting, TypeOK
  <2> QED BY <1>1, <1>2, <1>4, <2>1, <2>2, ThreadsOnly DEF TypeOK
<1>5. ASSUME NEW w \in Workers, NEW n \in Names, Dequeue(w, n) PROVE IInv'
  BY <1>3, <1>5 DEF Dequeue
<1>6. ASSUME NEW w \in Workers, List(w) PROVE IInv'
  <2>1. \E S \in SUBSET eps : todo' = [todo EXCEPT ![w] = S] \/ UNCHANGED todo
    <3>1. {e \in eps : e.pod = key[w]} \in SUBSET eps
      OBVIOUS
    <3> QED BY <1>6, <3>1 DEF List
  <2>2. UNCHANGED cur /\ \E s \in {"idle", "loop"} : pc' = [pc EXCEPT ![w] = s]
    BY <1>6 DEF List, Done
  <2> QED BY <1>3, <2>1, <2>2
<1>7. ASSUME NEW w \in Workers, Pick(w) PROVE IInv'
  BY <1>4, <1>7 DEF Pick
<1>8. ASSUME NEW w \in Workers, Finish(w) PROVE IInv'
  BY <1>3, <1>8 DEF Finish, Done
<1>9. CASE Tick
  <2>1. \/ UNCHANGED todo /\ pc' = [pc EXCEPT ![Ticker] = "idle"]
        \/ /\ todo' = [todo EXCEPT ![Ticker] = eps]
           /\ pc' = [pc EXCEPT ![Ticker] = "loop"]
    BY <1>1, <1>9 DEF Tick, TypeOK
  <2>2. eps \in SUBSET eps /\ UNCHANGED cur
    BY <1>9 DEF Tick
  <2> QED BY <1>3, <2>1, <2>2
<1>10. CASE Judge
  BY <1>4, <1>10 DEF Judge
<1>11. CASE EndTick
  BY <1>3, <1>11 DEF EndTick
<1> QED BY <1>5, <1>6, <1>7, <1>8, <1>9, <1>10, <1>11

(* The addresses of the DanmEp in hand are free one after the other before *)
(* its record goes.                                                        *)
LEMMA DeleteInterfaceInvStep ==
  ASSUME IInv, TypeOK', NEW a \in Actors, DeleteInterface(a)
  PROVE  IInv'
<1> USE DEF cluster
<1>1. TypeOK /\ HasCur
  BY DEF IInv
<1>2. cur[a] \in Endpoint /\ cur[a] # NoEp
  BY <1>1, DeleteInterfaceFrame, EpAssumption DEF HasCur
<1>3. UNCHANGED <<pods, uids, wired, todo>>
  BY <1>1, DeleteInterfaceFrame
<1>4. HasCur' /\ UidsFresh'
  BY <1>1, <1>3, DeleteInterfaceFrame DEF IInv, HasCur, Deleting, UidsFresh, TypeOK
<1>5. eps' \subseteq eps
  BY DEF DeleteInterface, Check, ReleaseV4, ReleaseV6, ReleaseIP, DeleteEp
<1>6. KnownFresh'
  <2>1. \A e \in Endpoint : Known(e)' => Known(e)
    BY <1>1, <1>3, <1>5, EpAssumption, DeleteInterfaceFrame DEF Known, TypeOK
  <2> QED BY <1>3, <2>1 DEF IInv, KnownFresh, Live
<1>7. CASE Check(a)
  <2>1. UNCHANGED cluster
    BY <1>7 DEF Check
  <2>2. \A b \in Actors : \/ pc'[b] = pc[b] /\ cur'[b] = cur[b]
                          \/ pc'[b] \notin {"v6", "delete"}
    BY <1>1, <1>7 DEF Check, NextInterface, TypeOK
  <2> QED BY <1>4, <1>6, <2>1, <2>2 DEF IInv, OwnerRecorded, ReleasedFirst
<1>8. ASSUME NEW ip, NEW next \in {"v6", "delete"}, ReleaseIP(a, ip, next),
             \/ pc[a] = "v4" /\ next = "v6" /\ ip = cur[a].v4
             \/ pc[a] = "v6" /\ next = "delete" /\ ip = cur[a].v6
      PROVE  IInv'
  <2>1. UNCHANGED eps
    BY <1>8 DEF ReleaseIP
  <2>2. \A x \in IP : owner'[x] = owner[x] \/ owner'[x] = NoEp
    BY <1>1, <1>8 DEF ReleaseIP, TypeOK, ClusterTypeOK
  <2>3. OwnerRecorded'
    BY <2>1, <2>2 DEF IInv, OwnerRecorded
  <2>4. pc'[a] = "loop" \/ (pc'[a] = next /\ cur'[a] = cur[a] /\ owner' = [owner EXCEPT ![ip] = NoEp])
    BY <1>1, <1>8 DEF ReleaseIP, NextInterface, TypeOK
  <2>5. \A b \in Actors : b # a => pc'[b] = pc[b] /\ cur'[b] = cur[b]
    BY <1>1, DeleteInterfaceFrame DEF TypeOK
  <2>6. ReleasedFirst'
    <3> SUFFICES ASSUME NEW b \in Actors, NEW x \in IP, owner'[x] = cur'[b],
                        pc'[b] \in {"v6", "delete"}
                 PROVE  /\ x # cur'[b].v4
                        /\ pc'[b] = "delete" => x # cur'[b].v6
      BY DEF ReleasedFirst
    <3>1. cur'[b] # NoEp
      BY <1>4, EpAssumption DEF HasCur, Deleting
    <3>2. owner[x] = cur'[b]
      BY <2>2, <3>1
    <3>3. CASE b # a
      BY <2>5, <3>2, <3>3 DEF IInv, ReleasedFirst
    <3>4. CASE b = a
      <4>1. /\ pc'[a] = next /\ cur'[a] = cur[a] /\ owner' = [owner EXCEPT ![ip] = NoEp]
        BY <2>4, <3>4
      <4>2. x # ip
        BY <1>1, <3>1, <4>1 DEF TypeOK, ClusterTypeOK
      <4> QED BY <1>8, <3>2, <3>4, <4>1, <4>2 DEF IInv, ReleasedFirst
    <3> QED BY <3>3, <3>4
  <2> QED BY <1>4, <1>6, <2>3, <2>6 DEF IInv
<1>9. CASE ReleaseV4(a)
  BY <1>8, <1>9 DEF ReleaseV4
<1>10. CASE ReleaseV6(a)
  BY <1>8, <1>10 DEF ReleaseV6
<1>11. CASE DeleteEp(a)
  <2>1. \A ip \in IP : owner[ip] # cur[a]
    BY <1>2, <1>11 DEF IInv, OwnerRecorded, ReleasedFirst, DeleteEp, IPs
  <2>2. UNCHANGED owner /\ eps' \in {eps, eps \ {cur[a]}}
    BY <1>11 DEF DeleteEp
  <2>3. OwnerRecorded'
    BY <2>1, <2>2 DEF IInv, OwnerRecorded
  <2>4. ReleasedFirst'
    BY <1>1, <1>11, <2>2 DEF IInv, ReleasedFirst, DeleteEp, NextInterface, TypeOK
  <2> QED BY <1>4, <1>6, <2>3, <2>4 DEF IInv
<1> QED BY <1>7, <1>9, <1>10, <1>11 DEF DeleteInterface

LEMMA IInvStep == IInv /\ [Next]_vars => IInv'
<1> SUFFICES ASSUME IInv, [Next]_vars PROVE IInv'
  OBVIOUS
<1>1. TypeOK'
  BY TypeStep DEF IInv
<1>2. CASE Next
  BY <1>1, <1>2, ClusterInvStep, LeaderInvStep, ThreadInvStep, DeleteInterfaceInvStep
     DEF Next, Worker, Periodic, Actors
<1>3. CASE UNCHANGED vars
  <2>1. UNCHANGED cluster /\ UNCHANGED threads
    BY <1>3 DEF vars
  <2> QED
    BY <1>1, <2>1, ThreadsOnly DEF threads, cluster, Known, IInv, HasCur, Deleting
<1> QED BY <1>2, <1>3

THEOREM Invariance == Spec => []IInv
BY InitIInv, IInvStep, PTL DEF Spec

-----------------------------------------------------------------------------
(* What follows from it.                                                   *)

(* No address is lost: whatever call failed, and wherever the leader died  *)
(* between the steps of DeleteDanmEp, a reserved address still belongs to  *)
(* a DanmEp on record.                                                     *)
THEOREM NoLeak == Spec => []NoLeakedAddress
<1>1. IInv => NoLeakedAddress
  BY DEF IInv, OwnerRecorded, NoLeakedAddress
<1> QED BY <1>1, Invariance, PTL

(* Every step of the Cleaner and of the CNI plugin is a step the ledger    *)
(* allows, or touches neither the DanmEps nor the allocations.             *)
LEMMA LedgerStep == IInv /\ [Next]_vars => [Ledger!Next]_(Ledger!vars)
<1> SUFFICES ASSUME IInv, [Next]_vars PROVE [Ledger!Next]_(Ledger!vars)
  OBVIOUS
<1> DEFINE Stutter == UNCHANGED <<eps, owner>>
<1>1. ASSUME Stutter PROVE [Ledger!Next]_(Ledger!vars)
  BY <1>1 DEF Ledger!vars
<1>2. TypeOK
  BY DEF IInv
<1>3. ASSUME NEW n \in Names, NEW i \in Ifaces, CniAdd(n, i)
      PROVE  Ledger!Next
  <2>1. PICK e \in Endpoint :
          /\ e.pod = n /\ e.uid = pods[n].uid /\ e.iface = i
          /\ \A ip \in IPs(e) : owner[ip] = NoEp
          /\ eps' = eps \union {e}
          /\ owner' = [ip \in IP |-> IF ip \in IPs(e) THEN e ELSE owner[ip]]
    BY <1>3 DEF CniAdd
  <2>2. e \notin eps
    BY <1>3, <2>1, CniAddFresh DEF CniAdd, Known
  <2>3. Ledger!Attach(e)
    BY <2>1, <2>2 DEF Ledger!Attach
  <2> QED BY <2>3 DEF Ledger!Next
<1>4. ASSUME NEW e \in eps, CniDel(e) PROVE Ledger!Next
  <2>1. e \in Endpoint
    BY <1>2 DEF TypeOK, ClusterTypeOK
  <2>2. Ledger!Detach(e)
    BY <1>4, <2>1 DEF CniDel, Ledger!Detach
  <2> QED BY <2>1, <2>2 DEF Ledger!Next
<1>5. CASE ClusterStep
  <2>1. ASSUME NEW n \in Names, PodStep(n) PROVE Stutter
    BY <2>1 DEF PodStep, PodCreate, PodRun, PodEnd, PodDelete, NodeLost, NodeBack
  <2> QED BY <1>1, <1>3, <1>4, <1>5, <2>1 DEF ClusterStep
<1>6. CASE Informer \/ Crash
  BY <1>1, <1>6 DEF Informer, InitialList, Initialize, Observe, Crash, cluster
<1>7. ASSUME NEW a \in Actors, DeleteInterface(a)
      PROVE  Stutter \/ Ledger!Next
  <2>1. cur[a] \in Endpoint
    BY <1>2, <1>7, DeleteInterfaceFrame DEF IInv, HasCur
  <2>2. CASE Check(a)
    BY <2>2 DEF Check, cluster
  <2>3. ASSUME NEW ip \in V4 \union V6 \union {NoIP}, NEW next, ReleaseIP(a, ip, next)
        PROVE  Stutter \/ Ledger!Next
    <3>1. Stutter \/ (UNCHANGED eps /\ ip \in IP /\ owner' = [owner EXCEPT ![ip] = NoEp])
      BY <2>3, ServiceNeedsAddress DEF ReleaseIP
    <3> QED BY <3>1 DEF Ledger!Next, Ledger!Release
  <2>4. CASE ReleaseV4(a)
    BY <2>1, <2>3, <2>4, EndpointFields DEF ReleaseV4
  <2>5. CASE ReleaseV6(a)
    BY <2>1, <2>3, <2>5, EndpointFields DEF ReleaseV6
  <2>6. CASE DeleteEp(a)
    <3>1. \A ip \in IPs(cur[a]) : owner[ip] # cur[a]
      BY <2>1, <2>6, EndpointFields DEF IInv, ReleasedFirst, DeleteEp, IPs
    <3>2. Stutter \/ Ledger!Forget(cur[a])
      BY <2>1, <2>6, <3>1 DEF DeleteEp, Ledger!Forget
    <3> QED BY <2>1, <3>2 DEF Ledger!Next
  <2> QED BY <1>7, <2>2, <2>4, <2>5, <2>6 DEF DeleteInterface
<1>8. ASSUME NEW w \in Workers, Worker(w) PROVE Stutter \/ Ledger!Next
  BY <1>7, <1>8 DEF Worker, Dequeue, List, Pick, Finish, cluster
<1>9. CASE Periodic
  BY <1>1, <1>7, <1>9 DEF Periodic, Tick, Judge, EndTick, cluster
<1>10. CASE UNCHANGED vars
  BY <1>1, <1>10 DEF vars, cluster
<1> QED BY <1>1, <1>5, <1>6, <1>8, <1>9, <1>10 DEF Next

(* The Cleaner and the CNI plugin together implement the contract stated   *)
(* above DeleteDanmEp: a record goes only after its addresses.             *)
THEOREM ImplementsLedger == Spec => LedgerSpec
<1>1. Init => Ledger!Init
  BY DEF Init, ClusterInit, Ledger!Init
<1>2. QED
  BY <1>1, LedgerStep, Invariance, PTL DEF Spec, LedgerSpec, Ledger!Spec

-----------------------------------------------------------------------------
(* The work queue.                                                         *)

LEMMA QueueStep ==
  TypeOK /\ KeyProcessing /\ OneWorkerPerPod /\ [Next]_vars
    => KeyProcessing' /\ OneWorkerPerPod'
<1> SUFFICES ASSUME TypeOK, KeyProcessing, OneWorkerPerPod, [Next]_vars
             PROVE  KeyProcessing' /\ OneWorkerPerPod'
  OBVIOUS
<1> USE ActorsAssumption
<1> DEFINE Inert == /\ UNCHANGED <<processing, key>>
                    /\ \A w \in Workers : pc'[w] # "idle" => pc[w] # "idle"
<1>1. ASSUME Inert PROVE KeyProcessing' /\ OneWorkerPerPod'
  BY <1>1 DEF KeyProcessing, OneWorkerPerPod
<1>2. CASE ClusterStep \/ UNCHANGED vars
  BY <1>1, <1>2 DEF ClusterStep, vars, queue, threads
<1>3. CASE Informer
  <2>1. UNCHANGED <<processing, key, pc>>
    BY <1>3 DEF Informer, InitialList, Initialize, Observe, UpdatePod, DelPod,
                EnqueuePod, queue, threads
  <2> QED BY <1>1, <2>1
<1>4. CASE Crash
  <2>1. \A w \in Workers : pc'[w] = "idle"
    BY <1>4 DEF Crash
  <2> QED BY <2>1 DEF KeyProcessing, OneWorkerPerPod
<1>5. ASSUME NEW a \in Actors, DeleteInterface(a) PROVE Inert
  BY <1>5, DeleteInterfaceFrame DEF Deleting, queue, TypeOK
<1>6. ASSUME NEW w \in Workers, Pick(w) PROVE Inert
  BY <1>6 DEF Pick, queue, TypeOK
<1>7. CASE Tick \/ Judge \/ EndTick
  BY <1>1, <1>7 DEF Tick, Judge, EndTick, queue, TypeOK
(* Get hands out a key no other thread has; Done gives back the own one.   *)
<1>8. ASSUME NEW w \in Workers, NEW n \in Names, Dequeue(w, n)
      PROVE  KeyProcessing' /\ OneWorkerPerPod'
  <2>1. /\ n \notin processing /\ processing' = processing \union {n}
        /\ key' = [key EXCEPT ![w] = n] /\ pc' = [pc EXCEPT ![w] = "list"]
    BY <1>8 DEF Dequeue
  <2> QED BY <2>1 DEF KeyProcessing, OneWorkerPerPod, TypeOK
<1>9. ASSUME NEW w \in Workers, pc[w] # "idle", Done(w)
      PROVE  KeyProcessing' /\ OneWorkerPerPod'
  BY <1>9 DEF Done, KeyProcessing, OneWorkerPerPod, TypeOK
<1>10. ASSUME NEW w \in Workers, List(w) PROVE KeyProcessing' /\ OneWorkerPerPod'
  <2>1. CASE Done(w)
    BY <1>9, <1>10, <2>1 DEF List
  <2>2. CASE ~Done(w)
    <3>1. Inert
      BY <1>10, <2>2 DEF List, queue, TypeOK
    <3> QED BY <1>1, <3>1
  <2> QED BY <2>1, <2>2
<1>11. ASSUME NEW w \in Workers, Finish(w) PROVE KeyProcessing' /\ OneWorkerPerPod'
  BY <1>9, <1>11 DEF Finish
<1>12. ASSUME NEW w \in Workers, Worker(w) PROVE KeyProcessing' /\ OneWorkerPerPod'
  BY <1>1, <1>5, <1>6, <1>8, <1>10, <1>11, <1>12 DEF Worker
<1>13. CASE Periodic
  BY <1>1, <1>5, <1>7, <1>13 DEF Periodic
<1> QED BY <1>2, <1>3, <1>4, <1>12, <1>13 DEF Next

(* No two event handler threads ever work on the same Pod.                 *)
THEOREM WorkersApart == Spec => []OneWorkerPerPod
<1>1. Init => KeyProcessing /\ OneWorkerPerPod
  BY DEF Init, KeyProcessing, OneWorkerPerPod
<1> QED BY <1>1, QueueStep, TypeCorrect, PTL DEF Spec
=============================================================================
