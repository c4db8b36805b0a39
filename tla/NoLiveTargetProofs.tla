------------------------- MODULE NoLiveTargetProofs -------------------------
(***************************************************************************)
(* When the Cleaner is right about what is dangling: the conditions under  *)
(* which deleteInterface never runs on the DanmEp of a live container.     *)
(* And, under no conditions, that what is to be cleaned is not forgotten.  *)
(***************************************************************************)
EXTENDS CleanerProofs

USE DEF Actors, Uids, IP

(* The cache is synchronized before it is used, and CNI ADD does not       *)
(* outrun the watch.                                                       *)
CacheTrusted == "slow_sync" \notin Faults /\ "slow_watch" \notin Faults

(* Event handler threads, which look at names only and trust a phase, need *)
(* names that are used once and phases that do not flap.                   *)
NamesTrusted == Workers # {} => "name_reuse" \notin Faults /\ "node_flap" \notin Faults

-----------------------------------------------------------------------------
(* The inductive invariant.                                                *)

LivePhases == {"pending", "running", "unknown"}

WiredLive == \A e \in wired : Live(e)

(* A UID an endpoint carries is that of no other Pod.                      *)
UidOwner ==
  \A e \in Endpoint, n \in Names : Known(e) /\ pods[n].uid = e.uid => n = e.pod

(* What the cache holds was in the API server once; a synchronized cache   *)
(* has the Pod of every endpoint in use.                                   *)
SeenPods ==
  /\ \A n \in Names : seen[n].phase = "none" => seen[n].uid = 0
  /\ synced => \A e \in wired : seen[e.pod].uid = e.uid

TickerSynced == (initialized => synced) /\ (pc[Ticker] # "idle" => synced)

(* The Pod with this UID has been there and will never be live again.      *)
DeadUid(u) ==
  /\ u <= uids
  /\ \A n \in Names : pods[n].uid = u => pods[n].phase \notin LivePhases

TickerDead ==
  /\ Deleting(Ticker) => DeadUid(cur[Ticker].uid)
  /\ \A u \in 1 .. MaxUid : <<u, FALSE>> \in podCache => DeadUid(u)

TickerInv == WiredLive /\ UidOwner /\ SeenPods /\ TickerSynced /\ TickerDead

(* The Pod of this name has been there and its containers have ended.      *)
Over(n) == pods[n].uid # 0 /\ pods[n].phase \in {"none", "ended"}

(* The cache is behind the API server, never ahead.                        *)
SeenBehind ==
  \A n \in Names :
    /\ pods[n].phase # "unknown"
    /\ pods[n].phase # "none" => pods[n].uid # 0
    /\ seen[n] # NoPod => pods[n].uid # 0
    /\ seen[n].phase = "running" => pods[n].phase # "pending"

(* Whatever a worker is to do, it does to a Pod that is over.              *)
WorkersOver ==
  /\ \A n \in dirty : Over(n)
  /\ \A w \in Workers :
       /\ pc[w] # "idle" => key[w] \in Names /\ Over(key[w])
       /\ pc[w] \in {"idle", "list"} => todo[w] = {}
       /\ \A e \in todo[w] : e.pod = key[w]
       /\ Deleting(w) => cur[w].pod = key[w]

WorkerInv == Workers # {} => SeenBehind /\ WorkersOver

LiveInv == TickerInv /\ WorkerInv

LEMMA InitLiveInv == Init => LiveInv
<1> SUFFICES ASSUME Init PROVE LiveInv
  OBVIOUS
<1> USE DEF Init, ClusterInit
<1>1. WiredLive /\ SeenPods /\ TickerSynced
  BY DEF WiredLive, SeenPods, TickerSynced, NoPod
<1>2. \A e \in Endpoint : ~Known(e)
  BY EpAssumption DEF Known
<1>3. UidOwner
  BY <1>2 DEF UidOwner
<1>4. TickerDead
  BY DEF TickerDead, Deleting
<1>5. SeenBehind
  BY DEF SeenBehind, NoPod
<1>6. WorkersOver
  BY DEF WorkersOver, Deleting
<1> QED BY <1>1, <1>3, <1>4, <1>5, <1>6 DEF LiveInv, TickerInv, WorkerInv

-----------------------------------------------------------------------------
(* Steps of the cluster.                                                   *)

(* What PodStep does to a Pod: a new one starts pending under a fresh UID, *)
(* and one that is over stays over.                                        *)
LEMMA PodStepEffect ==
  ASSUME TypeOK, NEW n \in Names, PodStep(n)
  PROVE  /\ UNCHANGED <<eps, owner>>
         /\ \A m \in Names : m # n => pods'[m] = pods[m]
         /\ \/ /\ pods[n].phase = "none" /\ pods'[n] = [phase |-> "pending", uid |-> uids + 1]
               /\ pods[n].uid # 0 => "name_reuse" \in Faults
               /\ uids' = uids + 1 /\ UNCHANGED wired
            \/ /\ pods'[n].uid = pods[n].uid /\ UNCHANGED <<uids, wired>>
               /\ pods[n].phase \in LivePhases
               /\ pods'[n].phase \in {"running", "unknown"}
               /\ pods'[n].phase = "unknown" => "node_flap" \in Faults
            \/ /\ pods'[n].uid = pods[n].uid /\ UNCHANGED uids
               /\ pods[n].phase # "none"
               /\ pods'[n].phase \in {"none", "ended"}
               /\ wired' = {e \in wired : e.uid # pods[n].uid}
<1> USE DEF TypeOK, ClusterTypeOK, Pod, InApi, LivePhases
<1>1. CASE PodCreate(n)
  BY <1>1 DEF PodCreate
<1>2. CASE PodRun(n)
  BY <1>2 DEF PodRun
<1>3. CASE PodEnd(n)
  BY <1>3 DEF PodEnd
<1>4. CASE PodDelete(n)
  BY <1>4 DEF PodDelete
<1>5. CASE NodeLost(n)
  BY <1>5 DEF NodeLost
<1>6. CASE NodeBack(n)
  BY <1>6 DEF NodeBack
<1> QED BY <1>1, <1>2, <1>3, <1>4, <1>5, <1>6 DEF PodStep

(* Dead UIDs stay dead.                                                    *)
LEMMA DeadUidStable ==
  ASSUME TypeOK, NEW u \in 1 .. MaxUid, DeadUid(u), [Next]_vars
  PROVE  DeadUid(u)'
<1>1. CASE UNCHANGED <<pods, uids>>
  BY <1>1 DEF DeadUid
<1>2. ASSUME NEW n \in Names, PodStep(n) PROVE DeadUid(u)'
  <2>1. uids \in Nat /\ u \in Nat /\ u <= uids
    BY UidAssumption DEF TypeOK, ClusterTypeOK, DeadUid
  <2> QED BY <1>2, <2>1, PodStepEffect DEF DeadUid, LivePhases
<1>3. CASE ClusterStep
  <2>1. ASSUME NEW n \in Names, NEW i \in Ifaces, CniAdd(n, i)
        PROVE  UNCHANGED <<pods, uids>>
    BY <2>1 DEF CniAdd
  <2>2. ASSUME NEW e \in eps, CniDel(e) PROVE UNCHANGED <<pods, uids>>
    BY <2>2 DEF CniDel
  <2> QED BY <1>1, <1>2, <1>3, <2>1, <2>2 DEF ClusterStep
<1>4. ASSUME NEW a \in Actors, DeleteInterface(a) PROVE UNCHANGED <<pods, uids>>
  BY <1>4, DeleteInterfaceFrame
<1>5. CASE Informer \/ Crash \/ Tick \/ Judge \/ EndTick \/ UNCHANGED vars
  BY <1>1, <1>5 DEF Informer, InitialList, Initialize, Observe, Crash, Tick, Judge,
                    EndTick, cluster, vars
<1>6. ASSUME NEW w \in Workers, Worker(w) PROVE UNCHANGED <<pods, uids>>
  BY <1>4, <1>6 DEF Worker, Dequeue, List, Pick, Finish, cluster
<1> QED BY <1>1, <1>3, <1>4, <1>5, <1>6 DEF Next, Periodic

LEMMA PodStepLive ==
  ASSUME IInv, WiredLive, UidOwner, SeenPods, NEW n \in Names, PodStep(n),
         UNCHANGED <<informer, threads>>
  PROVE  WiredLive' /\ UidOwner' /\ SeenPods'
<1> USE DEF informer, threads
<1>1. TypeOK /\ uids \in Nat /\ \A e \in Endpoint : e.uid \in Nat /\ e.pod \in Names
  BY UidAssumption, EndpointFields DEF IInv, TypeOK, ClusterTypeOK
<1>2. \A m \in Names : pods[m].uid <= uids /\ pods[m].uid \in Nat
  BY UidAssumption DEF IInv, TypeOK, ClusterTypeOK, Pod, UidsFresh
<1>3. \A e \in Endpoint : Known(e)' => Known(e)
  BY <1>1, PodStepEffect DEF Known
<1>4. wired' \subseteq wired /\ wired \subseteq Endpoint
  BY <1>1, PodStepEffect DEF TypeOK, ClusterTypeOK
<1>5. UidOwner'
  <2> SUFFICES ASSUME NEW e \in Endpoint, NEW m \in Names, Known(e)', pods'[m].uid = e.uid
               PROVE  m = e.pod
    BY DEF UidOwner
  <2>1. Known(e) /\ e.uid <= uids
    BY <1>3 DEF IInv, KnownFresh
  <2>2. pods[m].uid = e.uid
    BY <1>1, <1>2, <2>1, PodStepEffect
  <2> QED BY <2>1, <2>2 DEF UidOwner
<1>6. ASSUME NEW e \in wired' PROVE Live(e)'
  <2>1. Live(e) /\ e \in Endpoint
    BY <1>4, <1>6 DEF WiredLive
  <2> QED BY <1>1, <1>6, <2>1, PodStepEffect DEF Live, LivePhases
<1>7. WiredLive' /\ SeenPods'
  BY <1>4, <1>6 DEF WiredLive, SeenPods
<1> QED BY <1>5, <1>7

LEMMA CniStepLive ==
  ASSUME IInv, CacheTrusted, WiredLive, UidOwner, SeenPods, UNCHANGED <<informer, threads>>,
         \/ \E n \in Names, i \in Ifaces : CacheKnows(n) /\ CniAdd(n, i)
         \/ \E e \in eps : CniDel(e)
  PROVE  WiredLive' /\ UidOwner' /\ SeenPods'
<1> USE DEF informer, threads
<1>1. ASSUME NEW n \in Names, NEW i \in Ifaces, CacheKnows(n), CniAdd(n, i)
      PROVE  WiredLive' /\ UidOwner' /\ SeenPods'
  <2>1. PICK e \in Endpoint :
          /\ e.pod = n /\ e.uid = pods[n].uid /\ pods[n].phase = "pending"
          /\ eps' = eps \union {e}
          /\ wired' = wired \union {e}
          /\ UNCHANGED <<pods, uids>>
    BY <1>1 DEF CniAdd
  <2>2. e.uid \in Nat /\ e.uid # 0
    BY EndpointFields, UidAssumption
  <2>3. \A f \in Endpoint : Known(f)' => Known(f) \/ f = e
    BY <2>1 DEF Known
  <2>4. UidOwner'
    BY <2>1, <2>2, <2>3 DEF UidOwner, IInv, UidsFresh
  <2>5. WiredLive'
    BY <2>1 DEF WiredLive, Live
  <2>6. synced => seen[e.pod].uid = e.uid
    BY <1>1, <2>1 DEF CacheKnows, CacheTrusted
  <2> QED BY <2>1, <2>4, <2>5, <2>6 DEF SeenPods
<1>2. ASSUME NEW e \in eps, CniDel(e) PROVE WiredLive' /\ UidOwner' /\ SeenPods'
  BY <1>2 DEF CniDel, WiredLive, Live, UidOwner, Known, SeenPods
<1> QED BY <1>1, <1>2

-----------------------------------------------------------------------------
(* The periodic thread.                                                    *)

(* An endpoint the periodic thread finds no Pod for is that of a Pod that  *)
(* will never be live again: were it live, the endpoint would be in use    *)
(* and the cache would have its Pod.                                       *)
LEMMA UnlistedIsDead ==
  ASSUME IInv, UidOwner, SeenPods, synced, NEW e \in Endpoint, Known(e),
         ~ListerHasPod(e)
  PROVE  DeadUid(e.uid)
<1>1. e.uid <= uids /\ (Live(e) => e \in wired)
  BY DEF IInv, KnownFresh
<1>2. e.pod \in Names /\ e.uid # 0
  BY EndpointFields, UidAssumption
<1>3. ~Live(e)
  BY <1>1, <1>2 DEF SeenPods, ListerHasPod
<1> QED BY <1>1, <1>3 DEF DeadUid, UidOwner, Live, LivePhases

LEMMA JudgeDead ==
  ASSUME IInv, TickerInv, Judge
  PROVE  TickerDead'
<1>1. PICK e \in todo[Ticker] :
        /\ podCache' = podCache \union {<<CacheKey(e), Verdict(e)>>}
        /\ IF Verdict(e)
             THEN UNCHANGED <<pc, cur>>
             ELSE /\ cur' = [cur EXCEPT ![Ticker] = e]
                  /\ pc' = [pc EXCEPT ![Ticker] = "wait"]
  BY DEF Judge
<1>2. e \in Endpoint /\ Known(e) /\ UNCHANGED <<pods, uids>> /\ synced
      /\ pc[Ticker] = "loop"
  BY <1>1 DEF IInv, TypeOK, Known, Judge, cluster, TickerInv, TickerSynced
<1>3. ASSUME ~Verdict(e) PROVE DeadUid(e.uid)
  <2>1. CASE <<e.uid, FALSE>> \in podCache
    BY <1>2, <2>1, EndpointFields DEF TickerInv, TickerDead
  <2>2. CASE <<e.uid, FALSE>> \notin podCache
    <3>1. ~ListerHasPod(e)
      BY <1>3, <2>2 DEF Verdict, CacheKey
    <3> QED BY <1>2, <3>1, UnlistedIsDead DEF TickerInv
  <2> QED BY <2>1, <2>2
<1>4. DeadUid(e.uid) => DeadUid(e.uid)'
  BY <1>2 DEF DeadUid
<1>5. (Deleting(Ticker) => DeadUid(cur[Ticker].uid))'
  BY <1>1, <1>2, <1>3, <1>4 DEF Deleting, IInv, TypeOK
<1>6. ASSUME NEW u \in 1 .. MaxUid, <<u, FALSE>> \in podCache' PROVE DeadUid(u)'
  <2>1. CASE <<u, FALSE>> \in podCache
    BY <1>2, <2>1 DEF TickerInv, TickerDead, DeadUid
  <2>2. CASE <<u, FALSE>> \notin podCache
    <3>1. <<u, FALSE>> = <<e.uid, Verdict(e)>>
      BY <1>1, <1>6, <2>2 DEF CacheKey
    <3>2. u = e.uid /\ ~Verdict(e)
      BY <3>1
    <3> QED BY <1>3, <1>4, <3>2
  <2> QED BY <2>1, <2>2
<1> QED BY <1>5, <1>6 DEF TickerDead

(* Any other step leaves the periodic thread with what it had in hand, or  *)
(* with nothing.                                                           *)
LEMMA TickerDeadStable ==
  ASSUME IInv, TickerDead, [Next]_vars,
         Deleting(Ticker)' => Deleting(Ticker) /\ cur'[Ticker] = cur[Ticker],
         podCache' \subseteq podCache
  PROVE  TickerDead'
<1>1. ASSUME Deleting(Ticker)' PROVE DeadUid(cur[Ticker].uid)'
  <2>1. cur[Ticker].uid \in 1 .. MaxUid
    BY <1>1, EndpointFields DEF IInv, HasCur
  <2> QED BY <1>1, <2>1, DeadUidStable DEF IInv, TickerDead
<1>2. ASSUME NEW u \in 1 .. MaxUid, <<u, FALSE>> \in podCache' PROVE DeadUid(u)'
  BY <1>2, DeadUidStable DEF IInv, TickerDead
<1> QED BY <1>1, <1>2 DEF TickerDead

LEMMA InformerLive ==
  ASSUME IInv, CacheTrusted, TickerInv, Informer
  PROVE  TickerInv'
<1> USE DEF TickerInv
<1>1. UNCHANGED <<pods, uids, eps, owner, wired, pc, todo, cur, podCache>>
  BY DEF Informer, InitialList, Initialize, Observe, cluster, threads
<1>2. WiredLive' /\ UidOwner'
  BY <1>1 DEF WiredLive, Live, UidOwner, Known
<1>3. TickerDead'
  BY <1>1 DEF TickerDead, Deleting, DeadUid
<1>4. \A e \in wired : e.pod \in Names /\ View(e.pod).uid = e.uid
  BY EndpointFields DEF IInv, TypeOK, ClusterTypeOK, WiredLive, Live, View, InApi
<1>5. \A n \in Names : View(n).phase = "none" => View(n).uid = 0
  BY DEF View, InApi, NoPod
<1>6. CASE InitialList
  BY <1>1, <1>2, <1>3, <1>4, <1>5, <1>6 DEF InitialList, SeenPods, TickerSynced
<1>7. CASE Initialize
  BY <1>1, <1>2, <1>3, <1>7 DEF Initialize, SeenPods, TickerSynced, CacheTrusted
<1>8. ASSUME NEW n \in Names, Observe(n) PROVE SeenPods' /\ TickerSynced'
  <2>1. /\ synced /\ UNCHANGED <<synced, initialized>>
        /\ seen' = [seen EXCEPT ![n] = View(n)]
    BY <1>8 DEF Observe
  <2> QED BY <1>1, <1>4, <1>5, <2>1 DEF SeenPods, TickerSynced, IInv, TypeOK
<1> QED BY <1>2, <1>3, <1>6, <1>7, <1>8 DEF Informer

LEMMA ClusterLive ==
  ASSUME IInv, CacheTrusted, TickerInv, ClusterStep
  PROVE  TickerInv'
<1>1. UNCHANGED <<informer, threads>>
  BY DEF ClusterStep
<1>2. WiredLive' /\ UidOwner' /\ SeenPods'
  BY <1>1, PodStepLive, CniStepLive DEF ClusterStep, TickerInv
<1>3. TickerSynced'
  BY <1>1 DEF informer, threads, TickerInv, TickerSynced
<1>4. Next
  BY DEF Next
<1>5. TickerDead'
  BY <1>1, <1>4, TickerDeadStable DEF threads, TickerInv, Deleting
<1> QED BY <1>2, <1>3, <1>5 DEF TickerInv

(* What the steps of the threads and of a new leader keep.                 *)
LEMMA MemoryLive ==
  ASSUME IInv, IInv', TickerInv, UNCHANGED <<pods, uids, wired>>,
         \A e \in Endpoint : Known(e)' => Known(e),
         \/ UNCHANGED informer
         \/ seen' = [n \in Names |-> NoPod] /\ ~synced' /\ ~initialized',
         TickerDead', TickerSynced'
  PROVE  TickerInv'
<1>1. WiredLive' /\ UidOwner'
  BY DEF TickerInv, WiredLive, Live, UidOwner
<1>2. SeenPods'
  BY DEF TickerInv, SeenPods, informer, NoPod
<1> QED BY <1>1, <1>2 DEF TickerInv

(* No thread hears of an endpoint by itself, but from the API server.      *)
LEMMA ThreadsHearNothingNew ==
  ASSUME TypeOK,
         \/ \E w \in Workers : Worker(w)
         \/ Periodic
         \/ Crash
  PROVE  \A e \in Endpoint : Known(e)' => Known(e)
<1>1. ASSUME NEW a \in Actors, DeleteInterface(a)
      PROVE  \A e \in Endpoint : Known(e)' => Known(e)
  <2>1. eps' \subseteq eps
    BY <1>1 DEF DeleteInterface, Check, ReleaseV4, ReleaseV6, ReleaseIP, DeleteEp, cluster
  <2> QED BY <1>1, <2>1, EpAssumption, DeleteInterfaceFrame DEF Known, TypeOK
<1>2. ASSUME NEW w \in Workers, Worker(w)
      PROVE  \A e \in Endpoint : Known(e)' => Known(e)
  <2>1. CASE \E n \in Names : Dequeue(w, n)
    BY <2>1 DEF Dequeue, Known, cluster
  <2>2. CASE List(w)
    BY <2>2 DEF List, Known, cluster, TypeOK
  <2>3. CASE Pick(w)
    BY <2>3 DEF Pick, Known, cluster, TypeOK
  <2>4. CASE Finish(w)
    BY <2>4 DEF Finish, Known, cluster
  <2> QED BY <1>1, <1>2, <2>1, <2>2, <2>3, <2>4 DEF Worker
<1>3. CASE Periodic
  <2>1. CASE Tick
    BY <2>1 DEF Tick, Known, cluster, TypeOK
  <2>2. CASE Judge
    BY <2>2 DEF Judge, Known, cluster, TypeOK
  <2>3. CASE EndTick
    BY <2>3 DEF EndTick, Known, cluster
  <2> QED BY <1>1, <1>3, <2>1, <2>2, <2>3 DEF Periodic
<1>4. CASE Crash
  BY <1>4, EpAssumption DEF Crash, Known, cluster
<1> QED BY <1>2, <1>3, <1>4

LEMMA TickerStep ==
  ASSUME IInv, IInv', CacheTrusted, TickerInv, [Next]_vars
  PROVE  TickerInv'
<1> USE ActorsAssumption
<1>1. TypeOK
  BY DEF IInv
<1>2. ASSUME NEW a \in Actors, DeleteInterface(a)
      PROVE  TickerDead' /\ TickerSynced' /\ UNCHANGED <<pods, uids, wired, informer>>
  <2>1. Deleting(Ticker)' => Deleting(Ticker) /\ cur'[Ticker] = cur[Ticker]
    BY <1>1, <1>2, DeleteInterfaceFrame DEF Deleting, TypeOK
  <2>2. TickerDead'
    BY <1>1, <1>2, <2>1, DeleteInterfaceFrame, TickerDeadStable DEF TickerInv
  <2>3. TickerSynced'
    BY <1>1, <1>2, DeleteInterfaceFrame
       DEF TickerInv, TickerSynced, informer, Deleting, TypeOK
  <2> QED BY <1>1, <1>2, <2>2, <2>3, DeleteInterfaceFrame
<1>3. ASSUME NEW w \in Workers, Worker(w) PROVE TickerInv'
  <2>1. CASE DeleteInterface(w)
    BY <1>2, <1>3, <2>1, ThreadsHearNothingNew, MemoryLive, <1>1
  <2>2. CASE (\E n \in Names : Dequeue(w, n)) \/ List(w) \/ Pick(w) \/ Finish(w)
    <3>1. /\ UNCHANGED <<pods, uids, wired, informer, podCache>>
          /\ pc'[Ticker] = pc[Ticker] /\ cur'[Ticker] = cur[Ticker]
      BY <1>1, <2>2 DEF Dequeue, List, Pick, Finish, Done, cluster, TypeOK
    <3>2. TickerDead'
      BY <3>1, TickerDeadStable DEF TickerInv, Deleting
    <3>3. TickerSynced'
      BY <3>1 DEF TickerInv, TickerSynced, informer
    <3> QED BY <1>1, <1>3, <3>1, <3>2, <3>3, ThreadsHearNothingNew, MemoryLive
  <2> QED BY <1>3, <2>1, <2>2 DEF Worker
<1>4. CASE Periodic
  <2>1. CASE DeleteInterface(Ticker)
    BY <1>2, <1>4, <2>1, ThreadsHearNothingNew, MemoryLive, <1>1
  <2>2. CASE Tick \/ EndTick
    <3>1. /\ UNCHANGED <<pods, uids, wired, informer>> /\ podCache' = {}
          /\ ~Deleting(Ticker)'
      BY <1>1, <2>2 DEF Tick, EndTick, Deleting, cluster, TypeOK
    <3>2. TickerDead'
      BY <3>1, TickerDeadStable DEF TickerInv
    <3>3. TickerSynced'
      BY <1>1, <2>2 DEF TickerInv, TickerSynced, informer, Tick, EndTick, TypeOK
    <3> QED BY <1>1, <1>4, <3>1, <3>2, <3>3, ThreadsHearNothingNew, MemoryLive
  <2>3. CASE Judge
    <3>1. UNCHANGED <<pods, uids, wired, informer>>
      BY <2>3 DEF Judge, cluster
    <3>2. TickerSynced'
      BY <1>1, <2>3 DEF TickerInv, TickerSynced, informer, Judge, TypeOK
    <3> QED BY <1>1, <1>4, <2>3, <3>1, <3>2, JudgeDead, ThreadsHearNothingNew, MemoryLive
  <2> QED BY <1>4, <2>1, <2>2, <2>3 DEF Periodic
<1>5. CASE Crash
  <2>1. /\ UNCHANGED <<pods, uids, wired>> /\ podCache' = {}
        /\ ~Deleting(Ticker)'
        /\ seen' = [n \in Names |-> NoPod] /\ ~synced' /\ ~initialized'
        /\ pc'[Ticker] = "idle"
    BY <1>5 DEF Crash, Deleting, cluster
  <2>2. TickerDead' /\ TickerSynced'
    BY <2>1, TickerDeadStable DEF TickerInv, TickerSynced
  <2> QED BY <1>1, <1>5, <2>1, <2>2, ThreadsHearNothingNew, MemoryLive
<1>6. CASE UNCHANGED vars
  BY <1>6 DEF vars, cluster, informer, threads, TickerInv, WiredLive, Live, UidOwner,
              Known, SeenPods, TickerSynced, TickerDead, Deleting, DeadUid
<1> QED BY <1>3, <1>4, <1>5, <1>6, InformerLive, ClusterLive DEF Next

(* The periodic thread alone may be trusted as soon as its cache may be:   *)
(* names used again and phases that flap do not mislead it.                *)
TickerNoLiveTarget == Deleting(Ticker) => cur[Ticker] \notin wired

LEMMA TickerSafe ==
  ASSUME IInv, TickerInv
  PROVE  TickerNoLiveTarget
<1>1. ASSUME Deleting(Ticker), cur[Ticker] \in wired PROVE FALSE
  <2>1. cur[Ticker] \in Endpoint /\ Live(cur[Ticker]) /\ DeadUid(cur[Ticker].uid)
    BY <1>1 DEF IInv, HasCur, TickerInv, WiredLive, TickerDead
  <2> QED BY <2>1, EndpointFields DEF Live, DeadUid, LivePhases
<1> QED BY <1>1 DEF TickerNoLiveTarget

-----------------------------------------------------------------------------
(* The event handler threads.                                              *)

NamesOnce == "name_reuse" \notin Faults /\ "node_flap" \notin Faults

(* A Pod that is over stays over, and the cache stays behind, whatever the *)
(* cluster does.                                                           *)
LEMMA ClusterOver ==
  ASSUME TypeOK, NamesOnce, SeenBehind, WorkersOver, ClusterStep
  PROVE  SeenBehind' /\ WorkersOver'
<1>1. UNCHANGED <<informer, queue, threads>>
  BY DEF ClusterStep
<1>2. ASSUME NEW n \in Names, PodStep(n) PROVE SeenBehind' /\ WorkersOver'
  <2>1. uids \in Nat
    BY UidAssumption DEF TypeOK, ClusterTypeOK
  <2>2. \A m \in Names : Over(m) => Over(m)'
    BY <1>2, PodStepEffect DEF Over, NamesOnce, LivePhases
  <2>3. SeenBehind'
    BY <1>1, <1>2, <2>1, PodStepEffect DEF SeenBehind, NamesOnce, NoPod, LivePhases, informer
  <2>4. WorkersOver'
    BY <1>1, <2>2 DEF WorkersOver, Deleting, queue, threads, TypeOK
  <2> QED BY <2>3, <2>4
<1>3. CASE UNCHANGED pods
  BY <1>1, <1>3 DEF SeenBehind, WorkersOver, Over, Deleting, informer, queue, threads
<1>4. ASSUME NEW n \in Names, NEW i \in Ifaces, CniAdd(n, i) PROVE UNCHANGED pods
  BY <1>4 DEF CniAdd
<1>5. ASSUME NEW e \in eps, CniDel(e) PROVE UNCHANGED pods
  BY <1>5 DEF CniDel
<1> QED BY <1>2, <1>3, <1>4, <1>5 DEF ClusterStep

(* Only the key of a Pod that is over is ever queued.                      *)
LEMMA InformerOver ==
  ASSUME TypeOK, SeenBehind, WorkersOver, Informer
  PROVE  SeenBehind' /\ WorkersOver'
<1>1. UNCHANGED <<pods, threads>>
  BY DEF Informer, InitialList, Initialize, Observe, cluster
<1>2. \A n \in Names : /\ View(n) # NoPod => pods[n].uid # 0
                       /\ View(n).phase = "running" => pods[n].phase # "pending"
  BY DEF View, InApi, SeenBehind, NoPod
<1>3. CASE InitialList \/ Initialize
  BY <1>1, <1>2, <1>3 DEF InitialList, Initialize, SeenBehind, WorkersOver, Over, Deleting,
                         queue, threads
<1>4. ASSUME NEW n \in Names, Observe(n) PROVE SeenBehind' /\ WorkersOver'
  <2>1. seen' = [seen EXCEPT ![n] = View(n)]
    BY <1>4 DEF Observe
  <2>2. SeenBehind'
    BY <1>1, <1>2, <2>1 DEF SeenBehind, TypeOK
  <2>3. UNCHANGED queue \/ (Over(n) /\ EnqueuePod(n))
    BY <1>4 DEF Observe, UpdatePod, DelPod, IsPodRunning, View, InApi, SeenBehind, Over,
                TypeOK, ClusterTypeOK, Pod, Phases
  <2>4. WorkersOver'
    BY <1>1, <2>3 DEF WorkersOver, Over, Deleting, EnqueuePod, queue, threads
  <2> QED BY <2>2, <2>4
<1> QED BY <1>3, <1>4 DEF Informer

LEMMA ThreadsOver ==
  ASSUME TypeOK, SeenBehind, WorkersOver,
         (\E w \in Workers : Worker(w)) \/ Periodic \/ Crash
  PROVE  SeenBehind' /\ WorkersOver'
<1> USE ActorsAssumption DEF WorkersOver, Over, Deleting
<1>1. UNCHANGED pods /\ (UNCHANGED seen \/ seen' = [n \in Names |-> NoPod])
  BY DeleteInterfaceFrame
     DEF Worker, Periodic, Dequeue, List, Pick, Finish, Tick, Judge, EndTick, Crash,
         cluster, informer
<1>2. SeenBehind'
  BY <1>1 DEF SeenBehind, NoPod
<1>3. ASSUME NEW a \in Actors, DeleteInterface(a) PROVE WorkersOver'
  BY <1>3, DeleteInterfaceFrame DEF queue, TypeOK
<1>4. ASSUME NEW w \in Workers, NEW n \in Names, Dequeue(w, n) PROVE WorkersOver'
  BY <1>4 DEF Dequeue, cluster, TypeOK
<1>5. ASSUME NEW w \in Workers, List(w) PROVE WorkersOver'
  <2>1. CASE Done(w)
    BY <1>5, <2>1 DEF List, Done, cluster, TypeOK
  <2>2. CASE ~Done(w)
    BY <1>5, <2>2 DEF List, cluster, queue, TypeOK
  <2> QED BY <2>1, <2>2
<1>6. ASSUME NEW w \in Workers, Pick(w) PROVE WorkersOver'
  BY <1>6 DEF Pick, cluster, queue, TypeOK
<1>7. ASSUME NEW w \in Workers, Finish(w) PROVE WorkersOver'
  BY <1>7 DEF Finish, Done, cluster, TypeOK
<1>8. CASE Tick \/ Judge \/ EndTick
  <2>1. UNCHANGED <<pods, dirty, key>>
    BY <1>8 DEF Tick, Judge, EndTick, cluster, queue
  <2>2. \A w \in Workers : pc'[w] = pc[w] /\ todo'[w] = todo[w] /\ cur'[w] = cur[w]
    BY <1>8 DEF Tick, Judge, EndTick, TypeOK
  <2> QED BY <1>2, <2>1, <2>2
<1>9. CASE Crash
  <2>1. dirty' = {} /\ \A w \in Workers : pc'[w] = "idle" /\ todo'[w] = {}
    BY <1>9 DEF Crash
  <2> QED BY <1>2, <2>1
<1> QED BY <1>2, <1>3, <1>4, <1>5, <1>6, <1>7, <1>8, <1>9 DEF Worker, Periodic

LEMMA WorkerStep ==
  ASSUME TypeOK, NamesTrusted, WorkerInv, [Next]_vars
  PROVE  WorkerInv'
<1> SUFFICES ASSUME Workers # {} PROVE SeenBehind' /\ WorkersOver'
  BY DEF WorkerInv
<1>1. NamesOnce /\ SeenBehind /\ WorkersOver
  BY DEF NamesTrusted, NamesOnce, WorkerInv
<1>2. CASE UNCHANGED vars
  BY <1>1, <1>2 DEF SeenBehind, WorkersOver, Over, Deleting, vars, cluster, informer,
                    queue, threads
<1> QED BY <1>1, <1>2, ClusterOver, InformerOver, ThreadsOver DEF Next

LEMMA WorkersSafe ==
  ASSUME IInv, TickerInv, WorkerInv, NEW w \in Workers, Deleting(w)
  PROVE  cur[w] \notin wired
<1>1. cur[w].pod = key[w] /\ Over(key[w])
  BY DEF WorkerInv, WorkersOver, Deleting
<1> QED BY <1>1 DEF TickerInv, WiredLive, Live, Over

-----------------------------------------------------------------------------
(* With a cache it can trust, the periodic thread never turns              *)
(* deleteInterface on the DanmEp of a live container, however often names  *)
(* are used again and phases flap (the UID comparison of cleanDanglingEps  *)
(* and podCache at work).                                                  *)
THEOREM TickerSparesLive ==
  ASSUME CacheTrusted
  PROVE  Spec => []TickerNoLiveTarget
<1>1. Init => IInv /\ TickerInv
  BY InitIInv, InitLiveInv DEF LiveInv
<1>2. IInv /\ TickerInv /\ [Next]_vars => (IInv /\ TickerInv)'
  BY IInvStep, TickerStep
<1>3. IInv /\ TickerInv => TickerNoLiveTarget
  BY TickerSafe
<1> QED BY <1>1, <1>2, <1>3, PTL DEF Spec

(* No live target: as long as the cache is synchronized before it is used, *)
(* CNI ADD does not outrun the watch and, if there are event handler       *)
(* threads, Pod names are used once and phases do not flap, the Cleaner    *)
(* turns deleteInterface on the DanmEps of dead containers only.           *)
THEOREM LiveEndpointsSpared ==
  ASSUME CacheTrusted, NamesTrusted
  PROVE  Spec => []NoLiveTarget
<1>1. Init => IInv /\ LiveInv
  BY InitIInv, InitLiveInv
<1>2. IInv /\ LiveInv /\ [Next]_vars => (IInv /\ LiveInv)'
  <2> SUFFICES ASSUME IInv, LiveInv, [Next]_vars PROVE IInv' /\ LiveInv'
    OBVIOUS
  <2>1. IInv'
    BY IInvStep
  <2> QED BY <2>1, TickerStep, WorkerStep DEF LiveInv, IInv
<1>3. IInv /\ LiveInv => NoLiveTarget
  BY TickerSafe, WorkersSafe DEF LiveInv, NoLiveTarget, TickerNoLiveTarget
<1> QED BY <1>1, <1>2, <1>3, PTL DEF Spec
-----------------------------------------------------------------------------
(* Nothing that is to be cleaned is lost sight of.  This asks nothing of   *)
(* the cache, of names or of phases: it is about the bookkeeping alone.    *)

(* The endpoints of one UID are of one Pod, so the verdict podCache keeps  *)
(* for a UID is the one the lister would give for each of them.            *)
OnePodPerUid ==
  \A d, e \in Endpoint : Known(d) /\ Known(e) /\ d.uid = e.uid => d.pod = e.pod

SightInv == UidOwner /\ OnePodPerUid

LEMMA InitSightInv == Init => SightInv
<1> SUFFICES ASSUME Init PROVE SightInv
  OBVIOUS
<1>1. \A e \in Endpoint : ~Known(e)
  BY EpAssumption DEF Init, ClusterInit, Known
<1> QED BY <1>1 DEF SightInv, UidOwner, OnePodPerUid

LEMMA ClusterSightInv ==
  ASSUME IInv, SightInv, ClusterStep
  PROVE  SightInv'
<1>1. UNCHANGED threads
  BY DEF ClusterStep
<1>2. uids \in Nat /\ \A n \in Names : pods[n].uid <= uids /\ pods[n].uid \in Nat
  BY UidAssumption DEF IInv, TypeOK, ClusterTypeOK, Pod, UidsFresh
<1>3. ASSUME NEW n \in Names, PodStep(n) PROVE SightInv'
  <2>1. UNCHANGED eps /\ \A m \in Names : pods'[m].uid \in {pods[m].uid, uids + 1}
    BY <1>3, PodStepEffect DEF IInv
  <2>2. \A e \in Endpoint : Known(e)' => Known(e)
    BY <1>1, <2>1 DEF Known, threads
  <2>3. UidOwner'
    <3> SUFFICES ASSUME NEW e \in Endpoint, NEW m \in Names, Known(e)', pods'[m].uid = e.uid
                 PROVE  m = e.pod
      BY DEF UidOwner
    <3>1. Known(e) /\ e.uid <= uids
      BY <2>2 DEF IInv, KnownFresh
    <3>2. e.uid \in Nat
      BY EndpointFields, UidAssumption
    <3>3. pods[m].uid = e.uid
      BY <1>2, <2>1, <3>1, <3>2
    <3> QED BY <3>1, <3>3 DEF SightInv, UidOwner
  <2> QED BY <2>2, <2>3 DEF SightInv, OnePodPerUid
<1>4. ASSUME NEW n \in Names, NEW i \in Ifaces, CniAdd(n, i) PROVE SightInv'
  <2>1. PICK e \in Endpoint : /\ e.pod = n /\ e.uid = pods[n].uid
                              /\ eps' = eps \union {e}
                              /\ UNCHANGED pods
    BY <1>4 DEF CniAdd
  <2>2. e.uid \in 1 .. MaxUid
    BY EndpointFields
  <2>3. \A d \in Endpoint : Known(d)' => Known(d) \/ d = e
    BY <1>1, <2>1 DEF Known, threads
  <2>4. \A d \in Endpoint : Known(d) /\ d.uid = e.uid => d.pod = n
    BY <2>1 DEF SightInv, UidOwner
  <2>5. \A m \in Names : pods[m].uid = e.uid => m = n
    BY <2>1, <2>2, UidAssumption DEF IInv, UidsFresh
  <2>6. UidOwner'
    BY <2>1, <2>3, <2>5 DEF SightInv, UidOwner
  <2>7. OnePodPerUid'
    BY <2>1, <2>3, <2>4 DEF SightInv, OnePodPerUid
  <2> QED BY <2>6, <2>7 DEF SightInv
<1>5. ASSUME NEW e \in eps, CniDel(e) PROVE SightInv'
  <2>1. UNCHANGED pods /\ \A d \in Endpoint : Known(d)' => Known(d)
    BY <1>1, <1>5 DEF CniDel, Known, threads
  <2> QED BY <2>1 DEF SightInv, UidOwner, OnePodPerUid
<1> QED BY <1>3, <1>4, <1>5 DEF ClusterStep

LEMMA SightInvStep ==
  ASSUME IInv, SightInv, [Next]_vars
  PROVE  SightInv'
<1>1. ASSUME UNCHANGED pods, \A e \in Endpoint : Known(e)' => Known(e) PROVE SightInv'
  BY <1>1 DEF SightInv, UidOwner, OnePodPerUid
<1>2. CASE Informer \/ UNCHANGED vars
  <2>1. UNCHANGED <<pods, eps, todo, cur>>
    BY <1>2 DEF Informer, InitialList, Initialize, Observe, vars, cluster, threads
  <2> QED BY <1>1, <2>1 DEF Known
<1>3. CASE (\E w \in Workers : Worker(w)) \/ Periodic \/ Crash
  <2>1. UNCHANGED pods
    BY <1>3, DeleteInterfaceFrame
       DEF IInv, Worker, Periodic, Dequeue, List, Pick, Finish, Tick, Judge, EndTick,
           Crash, cluster
  <2> QED BY <1>1, <1>3, <2>1, ThreadsHearNothingNew DEF IInv
<1> QED BY <1>2, <1>3, ClusterSightInv DEF Next

(* What NeverLostSight asks of one step for one DanmEp.                    *)
InSight(e) ==
  \/ ToBeCleaned(e)' \/ e \notin eps'
  \/ errors' # errors \/ crashes' # crashes
  \/ EventComes(e) /\ ~InApi(e.pod)'

(* The Pod of a recorded endpoint, once gone, does not come back: a new    *)
(* Pod has a new UID.                                                      *)
LEMMA GoneForGood ==
  ASSUME IInv, NEW e \in eps, ~PodExists(e), NEW n \in Names, PodStep(n)
  PROVE  ~PodExists(e)'
<1>1. e \in Endpoint /\ Known(e)
  BY DEF IInv, TypeOK, ClusterTypeOK, Known
<1>2. e.pod \in Names /\ e.uid \in Nat /\ e.uid <= uids /\ uids \in Nat
  BY <1>1, EndpointFields, UidAssumption DEF IInv, TypeOK, ClusterTypeOK, KnownFresh
<1>3. CASE n # e.pod
  BY <1>2, <1>3, PodStepEffect DEF IInv, PodExists, InApi
<1>4. CASE n = e.pod
  <2>1. \/ pods'[n].uid = uids + 1
        \/ pods'[n].uid = pods[n].uid /\ pods[n].phase # "none"
    BY PodStepEffect DEF IInv, LivePhases
  <2> QED BY <1>2, <1>4, <2>1 DEF PodExists, InApi
<1> QED BY <1>3, <1>4

LEMMA ClusterSight ==
  ASSUME IInv, NEW e \in eps, ToBeCleaned(e), ClusterStep
  PROVE  InSight(e)
<1>1. UNCHANGED <<informer, queue, threads>> /\ e.pod \in Names
  BY EndpointFields DEF ClusterStep, IInv, TypeOK, ClusterTypeOK
<1>2. ~PodExists(e) => ~PodExists(e)'
  BY GoneForGood DEF ClusterStep, CniAdd, CniDel, PodExists, InApi
<1>3. EventComes(e) => EventComes(e)' \/ ~InApi(e.pod)'
  <2>1. ASSUME NEW n \in Names, PodStep(n), pods[e.pod].phase = "ended"
        PROVE  pods'[e.pod].phase \in {"ended", "none"}
    BY <1>1, <2>1, PodStepEffect DEF IInv, LivePhases
  <2>2. pods[e.pod].phase = "ended" => pods'[e.pod].phase \in {"ended", "none"}
    BY <2>1 DEF ClusterStep, CniAdd, CniDel
  <2> QED BY <1>1, <2>2 DEF EventComes, informer, InApi
<1>4. \/ EventComes(e)
      \/ KeyWaits(e)'
      \/ \E w \in Workers : InList(w, e)'
      \/ \E a \in Actors : Deleting(a)' /\ cur'[a] = e
      \/ /\ InList(Ticker, e)' /\ ~PodExists(e)' /\ ~ListerHasPod(e)'
         /\ <<CacheKey(e), TRUE>> \notin podCache'
  BY <1>1, <1>2 DEF ToBeCleaned, KeyWaits, InList, Deleting, ListerHasPod, CacheKey,
                    informer, queue, threads
<1> QED BY <1>3, <1>4 DEF InSight, ToBeCleaned

(* The cache catching up with the end of a Pod is what queues its key, and *)
(* never makes it have a Pod the API server does not.                      *)
LEMMA InformerSight ==
  ASSUME IInv, NEW e \in eps, ToBeCleaned(e), Informer
  PROVE  InSight(e)
<1>1. UNCHANGED <<pods, threads>> /\ dirty \subseteq dirty' /\ UNCHANGED key
  BY DEF Informer, InitialList, Initialize, Observe, UpdatePod, DelPod, EnqueuePod,
         cluster, queue
<1>2. e.pod \in Names /\ seen \in [Names -> Pod]
  BY EndpointFields DEF IInv, TypeOK, ClusterTypeOK
<1>3. EventComes(e) => EventComes(e)' \/ e.pod \in dirty'
  <2>1. CASE InitialList
    BY <2>1 DEF InitialList, EventComes
  <2>2. CASE Initialize
    BY <2>2 DEF Initialize, EventComes, cluster
  <2>3. ASSUME NEW n \in Names, Observe(n), EventComes(e)
        PROVE  EventComes(e)' \/ e.pod \in dirty'
    <3>1. CASE n # e.pod
      BY <1>1, <1>2, <2>3, <3>1 DEF Observe, EventComes
    <3>2. CASE n = e.pod
      <4>1. InApi(n) /\ View(n) = pods[n] /\ seen[n] # NoPod
        BY <2>3, <3>2 DEF EventComes, InApi, View, IsPodRunning, NoPod
      <4>2. UpdatePod(n, seen[n], View(n))
        BY <2>3, <4>1 DEF Observe
      <4> QED BY <2>3, <3>2, <4>1, <4>2 DEF UpdatePod, EnqueuePod, EventComes, IsPodRunning
    <3> QED BY <3>1, <3>2
  <2> QED BY <2>1, <2>2, <2>3 DEF Informer
<1>4. ~PodExists(e) /\ ~ListerHasPod(e) => ~PodExists(e)' /\ ~ListerHasPod(e)'
  <2>1. ~PodExists(e) => View(e.pod).phase = "none" \/ View(e.pod).uid # e.uid
    BY DEF PodExists, View, InApi, NoPod
  <2>2. seen'[e.pod] \in {seen[e.pod], View(e.pod)}
    BY <1>2 DEF Informer, InitialList, Initialize, Observe
  <2> QED BY <1>1, <2>1, <2>2 DEF PodExists, InApi, ListerHasPod
<1>5. \/ EventComes(e)
      \/ KeyWaits(e)'
      \/ \E w \in Workers : InList(w, e)'
      \/ \E a \in Actors : Deleting(a)' /\ cur'[a] = e
      \/ /\ InList(Ticker, e)' /\ ~PodExists(e)' /\ ~ListerHasPod(e)'
         /\ <<CacheKey(e), TRUE>> \notin podCache'
  BY <1>1, <1>4 DEF ToBeCleaned, KeyWaits, InList, Deleting, CacheKey, threads
<1> QED BY <1>3, <1>5 DEF InSight, ToBeCleaned, KeyWaits

(* What the step of one thread leaves the others with.                     *)
LEMMA OthersKeepSight ==
  ASSUME TypeOK, NEW a \in Actors, NEW e \in eps, ToBeCleaned(e),
         UNCHANGED <<pods, informer>>,
         \A b \in Actors \ {a} :
           pc'[b] = pc[b] /\ todo'[b] = todo[b] /\ cur'[b] = cur[b],
         \A w \in Workers \ {a} : key'[w] = key[w],
         e.pod \in dirty => KeyWaits(e)',
         a # Ticker => UNCHANGED podCache
  PROVE  \/ ToBeCleaned(e)'
         \/ pc[a] = "list" /\ a \in Workers /\ key[a] = e.pod
         \/ InList(a, e) /\ (a = Ticker => /\ ~PodExists(e)' /\ ~ListerHasPod(e)'
                                           /\ <<CacheKey(e), TRUE>> \notin podCache)
         \/ Deleting(a) /\ cur[a] = e
<1>1. EventComes(e) => EventComes(e)'
  BY DEF EventComes, informer
<1>2. KeyWaits(e) => KeyWaits(e)' \/ (pc[a] = "list" /\ a \in Workers /\ key[a] = e.pod)
  BY DEF KeyWaits
<1>3. \A b \in Actors \ {a} : InList(b, e) => InList(b, e)'
  BY DEF InList, Deleting
<1>4. \A b \in Actors \ {a} : Deleting(b) /\ cur[b] = e => Deleting(b)' /\ cur'[b] = e
  BY DEF Deleting
<1>5. (PodExists(e) <=> PodExists(e)') /\ (ListerHasPod(e) <=> ListerHasPod(e)')
  BY DEF PodExists, InApi, ListerHasPod, informer
<1>6. CASE a = Ticker
  BY <1>1, <1>2, <1>3, <1>4, <1>5, <1>6, ActorsAssumption DEF ToBeCleaned
<1>7. CASE a # Ticker
  BY <1>1, <1>2, <1>3, <1>4, <1>5, <1>7 DEF ToBeCleaned, CacheKey
<1> QED BY <1>6, <1>7

(* deleteInterface lets go of a DanmEp that has its release services only  *)
(* when a call failed, or it is off the record.                            *)
LEMMA DeleteInterfaceSight ==
  ASSUME IInv, NEW e \in eps, ToBeCleaned(e), HasServices(e),
         NEW a \in Actors, DeleteInterface(a)
  PROVE  InSight(e)
<1>1. TypeOK /\ pc \in [Actors -> PCs] /\ todo \in [Actors -> SUBSET Endpoint]
      /\ cur \in [Actors -> Endpoint \union {NoEp}] /\ errors \in Nat
  BY DEF IInv, TypeOK, BoundsAssumption
<1>2. /\ Deleting(a)
      /\ UNCHANGED <<pods, informer, queue, todo, podCache>>
      /\ \A b \in Actors \ {a} : pc'[b] = pc[b] /\ cur'[b] = cur[b]
      /\ pc'[a] = "loop" \/ Deleting(a)'
  BY <1>1, DeleteInterfaceFrame DEF Deleting
<1>3. InList(a, e) => InList(a, e)'
  BY <1>2 DEF InList
<1>4. e.pod \in dirty => KeyWaits(e)'
  BY <1>2 DEF KeyWaits, queue
<1>5. \/ ToBeCleaned(e)'
      \/ pc[a] = "list" /\ a \in Workers /\ key[a] = e.pod
      \/ InList(a, e) /\ (a = Ticker => /\ ~PodExists(e)' /\ ~ListerHasPod(e)'
                                        /\ <<CacheKey(e), TRUE>> \notin podCache)
      \/ Deleting(a) /\ cur[a] = e
  BY <1>1, <1>2, <1>4, OthersKeepSight DEF queue
<1>6. pc[a] # "list"
  BY <1>2 DEF Deleting
<1>7. ASSUME InList(a, e), a = Ticker => /\ ~PodExists(e)' /\ ~ListerHasPod(e)'
                                         /\ <<CacheKey(e), TRUE>> \notin podCache
      PROVE  ToBeCleaned(e)'
  BY <1>2, <1>3, <1>7 DEF ToBeCleaned, CacheKey
<1>8. ASSUME cur[a] = e PROVE InSight(e)
  <2>1. e.v4 \in {e.v4, e.v6} /\ e.v6 \in {e.v4, e.v6}
    OBVIOUS
  <2>2. SelectReleaseService(e, e.v4) # "none" /\ SelectReleaseService(e, e.v6) # "none"
    BY <2>1 DEF HasServices
  <2>3. \/ Deleting(a)' /\ cur'[a] = e
        \/ e \notin eps' \/ errors' # errors
    <3>1. ApiError => errors' # errors
      BY <1>1 DEF ApiError
    <3>2. CASE Check(a)
      BY <1>1, <1>8, <3>1, <3>2 DEF Check, StillThere, Deleting
    <3>3. CASE ReleaseV4(a)
      BY <1>1, <1>8, <2>2, <3>1, <3>3 DEF ReleaseV4, ReleaseIP, Deleting
    <3>4. CASE ReleaseV6(a)
      BY <1>1, <1>8, <2>2, <3>1, <3>4 DEF ReleaseV6, ReleaseIP, Deleting
    <3>5. CASE DeleteEp(a)
      BY <1>8, <3>1, <3>5 DEF DeleteEp
    <3> QED BY <3>2, <3>3, <3>4, <3>5 DEF DeleteInterface
  <2> QED BY <2>3 DEF InSight, ToBeCleaned
<1> QED BY <1>5, <1>6, <1>7, <1>8 DEF InSight

(* A worker drops an item when the list of its DanmEps failed, and is      *)
(* otherwise Done only when it has handled all of them.                    *)
LEMMA WorkerSight ==
  ASSUME IInv, NEW e \in eps, ToBeCleaned(e), HasServices(e),
         NEW w \in Workers, Worker(w)
  PROVE  InSight(e)
<1> USE DEF cluster, informer, queue
<1>1. TypeOK /\ pc \in [Actors -> PCs] /\ todo \in [Actors -> SUBSET Endpoint]
      /\ cur \in [Actors -> Endpoint \union {NoEp}] /\ key \in [Workers -> Names \union {NoKey}]
      /\ errors \in Nat /\ w \in Actors /\ w # Ticker
  BY ActorsAssumption DEF IInv, TypeOK, BoundsAssumption
<1>2. ASSUME UNCHANGED <<pods, informer, podCache>>,
             \A b \in Actors \ {w} :
               pc'[b] = pc[b] /\ todo'[b] = todo[b] /\ cur'[b] = cur[b],
             \A v \in Workers \ {w} : key'[v] = key[v],
             e.pod \in dirty => KeyWaits(e)',
             pc[w] = "list" /\ key[w] = e.pod => InSight(e),
             InList(w, e) => InSight(e),
             ~Deleting(w)
      PROVE  InSight(e)
  BY <1>1, <1>2, OthersKeepSight DEF InSight
<1>3. ASSUME NEW n \in Names, Dequeue(w, n) PROVE InSight(e)
  <2>1. pc[w] = "idle" /\ pc'[w] = "list" /\ key'[w] = n /\ dirty' = dirty \ {n}
    BY <1>1, <1>3 DEF Dequeue
  <2>2. e.pod \in dirty => KeyWaits(e)'
    BY <2>1 DEF KeyWaits
  <2> QED BY <1>1, <1>2, <1>3, <2>1, <2>2 DEF Dequeue, InList, Deleting
<1>4. CASE List(w)
  <2>1. pc[w] = "list" /\ UNCHANGED dirty
    BY <1>4 DEF List, Done
  <2>2. key[w] = e.pod => InList(w, e)' \/ errors' # errors
    BY <1>1, <1>4 DEF List, ApiError, InList
  <2>3. key[w] = e.pod => InSight(e)
    BY <1>1, <2>2 DEF InSight, ToBeCleaned
  <2>4. e.pod \in dirty => KeyWaits(e)'
    BY <2>1 DEF KeyWaits
  <2> QED BY <1>1, <1>2, <1>4, <2>1, <2>3, <2>4 DEF List, Done, InList, Deleting
<1>5. CASE Pick(w)
  <2>1. PICK d \in todo[w] : /\ todo' = [todo EXCEPT ![w] = @ \ {d}]
                             /\ cur' = [cur EXCEPT ![w] = d]
    BY <1>5 DEF Pick
  <2>2. pc[w] = "loop" /\ pc'[w] = "wait" /\ UNCHANGED dirty
    BY <1>1, <1>5 DEF Pick
  <2>3. InList(w, e) => InList(w, e)' \/ (Deleting(w)' /\ cur'[w] = e)
    BY <1>1, <2>1, <2>2 DEF InList, Deleting
  <2>4. InList(w, e) => InSight(e)
    BY <1>1, <2>3 DEF InSight, ToBeCleaned
  <2>5. e.pod \in dirty => KeyWaits(e)'
    BY <2>2 DEF KeyWaits
  <2> QED BY <1>1, <1>2, <1>5, <2>1, <2>2, <2>4, <2>5 DEF Pick, Deleting
<1>6. CASE Finish(w)
  <2>1. pc[w] = "loop" /\ todo[w] = {} /\ UNCHANGED dirty
    BY <1>6 DEF Finish, Done
  <2>2. e.pod \in dirty => KeyWaits(e)'
    BY <2>1 DEF KeyWaits
  <2> QED BY <1>1, <1>2, <1>6, <2>1, <2>2 DEF Finish, Done, InList, Deleting
<1> QED BY <1>1, <1>3, <1>4, <1>5, <1>6, DeleteInterfaceSight DEF Worker

(* The periodic thread passes over no DanmEp of a Pod that neither the API *)
(* server nor the cache has: no other one with its UID can have put the    *)
(* opposite verdict into podCache.                                         *)
LEMMA JudgeSight ==
  ASSUME IInv, OnePodPerUid, NEW e \in eps, InList(Ticker, e), ~ListerHasPod(e),
         <<CacheKey(e), TRUE>> \notin podCache, Judge
  PROVE  \/ InList(Ticker, e)' /\ <<CacheKey(e), TRUE>> \notin podCache'
         \/ Deleting(Ticker)' /\ cur'[Ticker] = e
<1>1. PICK d \in todo[Ticker] :
        /\ todo' = [todo EXCEPT ![Ticker] = @ \ {d}]
        /\ podCache' = podCache \union {<<CacheKey(d), Verdict(d)>>}
        /\ IF Verdict(d)
             THEN UNCHANGED <<pc, cur>>
             ELSE /\ cur' = [cur EXCEPT ![Ticker] = d]
                  /\ pc' = [pc EXCEPT ![Ticker] = "wait"]
  BY DEF Judge
<1>2. /\ pc \in [Actors -> PCs] /\ todo \in [Actors -> SUBSET Endpoint]
      /\ cur \in [Actors -> Endpoint \union {NoEp}]
      /\ pc[Ticker] = "loop" /\ e \in todo[Ticker]
      /\ d \in Endpoint /\ e \in Endpoint /\ Known(d) /\ Known(e)
  BY DEF IInv, TypeOK, ClusterTypeOK, Judge, InList, Deleting, Known
<1>3. CacheKey(d) = CacheKey(e) => ~Verdict(d)
  <2>1. CacheKey(d) = CacheKey(e) => ~ListerHasPod(d)
    BY <1>2 DEF OnePodPerUid, CacheKey, ListerHasPod
  <2> QED BY <2>1 DEF Verdict
<1>4. <<CacheKey(e), TRUE>> \notin podCache'
  BY <1>1, <1>3
<1>5. CASE d = e
  BY <1>1, <1>2, <1>3, <1>5 DEF Deleting
<1>6. CASE d # e
  BY <1>1, <1>2, <1>4, <1>6 DEF InList, Deleting
<1> QED BY <1>5, <1>6

LEMMA PeriodicSight ==
  ASSUME IInv, SightInv, NEW e \in eps, ToBeCleaned(e), HasServices(e), Periodic
  PROVE  InSight(e)
<1> USE DEF cluster, informer, queue
<1>1. /\ TypeOK /\ pc \in [Actors -> PCs] /\ todo \in [Actors -> SUBSET Endpoint]
      /\ cur \in [Actors -> Endpoint \union {NoEp}]
      /\ Ticker \notin Workers
  BY ActorsAssumption DEF IInv, TypeOK
<1>2. CASE Tick \/ Judge \/ EndTick
  <2>1. /\ UNCHANGED <<pods, informer, queue>>
        /\ \A b \in Actors \ {Ticker} :
             pc'[b] = pc[b] /\ todo'[b] = todo[b] /\ cur'[b] = cur[b]
        /\ pc[Ticker] \in {"idle", "loop"}
    BY <1>1, <1>2 DEF Tick, Judge, EndTick
  <2>2. e.pod \in dirty => KeyWaits(e)'
    BY <2>1 DEF KeyWaits
  <2>3. \/ ToBeCleaned(e)'
        \/ /\ InList(Ticker, e) /\ ~PodExists(e)' /\ ~ListerHasPod(e)'
           /\ <<CacheKey(e), TRUE>> \notin podCache
    BY <1>1, <2>1, <2>2, OthersKeepSight DEF Deleting
  <2>4. ASSUME InList(Ticker, e), ~PodExists(e)', ~ListerHasPod(e)',
               <<CacheKey(e), TRUE>> \notin podCache
        PROVE  ToBeCleaned(e)'
    <3>1. pc[Ticker] = "loop" /\ todo[Ticker] # {}
      BY <2>1, <2>4 DEF InList, Deleting
    <3>2. Judge
      BY <1>2, <3>1 DEF Tick, EndTick
    <3>3. ~ListerHasPod(e)
      BY <2>1, <2>4 DEF ListerHasPod
    <3> QED BY <2>4, <3>2, <3>3, JudgeSight DEF SightInv, ToBeCleaned, CacheKey
  <2> QED BY <2>3, <2>4 DEF InSight
<1> QED BY <1>2, DeleteInterfaceSight DEF Periodic

(* In no single step is a DanmEp that is to be cleaned lost sight of: what *)
(* handleKey, deleteInterface, podCache and the work queue keep of it is   *)
(* enough to finish, whatever the cluster, the faults and the constants.   *)
(* It is what the two liveness properties leave to the schedulers alone.   *)
THEOREM SightKept == Spec => NeverLostSight
<1>1. Init => IInv /\ SightInv
  BY InitIInv, InitSightInv
<1>2. IInv /\ SightInv /\ [Next]_vars => (IInv /\ SightInv)'
  BY IInvStep, SightInvStep
<1>3. IInv /\ SightInv /\ [Next]_vars
        => [\A e \in eps : ToBeCleaned(e) /\ HasServices(e) =>
              \/ ToBeCleaned(e)' \/ e \notin eps'
              \/ errors' # errors \/ crashes' # crashes
              \/ EventComes(e) /\ ~InApi(e.pod)']_vars
  <2> SUFFICES ASSUME IInv, SightInv, Next, NEW e \in eps,
                      ToBeCleaned(e), HasServices(e)
               PROVE  InSight(e)
    BY DEF InSight
  <2>1. Crash => crashes' # crashes
    BY DEF Crash, IInv, TypeOK, BoundsAssumption
  <2> QED BY <2>1, ClusterSight, InformerSight, WorkerSight, PeriodicSight
          DEF Next, InSight
<1> QED BY <1>1, <1>2, <1>3, PTL DEF Spec, NeverLostSight
=============================================================================
