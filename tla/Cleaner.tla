------------------------------- MODULE Cleaner -------------------------------
(***************************************************************************)
(* DANM Cleaner (pkg/cleaner/cleaner.go), the leader that frees the        *)
(* addresses of dangling DanmEps, racing with the cluster.                 *)
(*                                                                         *)
(* Two kinds of goroutines clean.  The event handler threads (Workers)     *)
(* take the key of a Pod that stopped running from the work queue and      *)
(* delete every interface recorded under that Pod name.  The periodic      *)
(* thread (Ticker) lists all DanmEps and deletes those whose Pod is not in *)
(* the informer cache under the recorded UID.  Both go through             *)
(* deleteInterface, modelled step by step: wait, re-read the DanmEp, free  *)
(* the IPv4 address, free the IPv6 address, delete the DanmEp.             *)
(***************************************************************************)
EXTENDS Cluster

CONSTANTS
  Workers,      \* the event handler threads
  Ticker,       \* the periodic thread
  NoKey,        \* no work item
  MaxErrors,    \* bound: API calls that fail
  MaxCrashes    \* bound: deaths of the leader

Actors == Workers \union {Ticker}

(* idle: no work.  list: a key was taken, the DanmEps are to be listed.    *)
(* loop: between two DanmEps.  wait, v4, v6, delete: inside                *)
(* deleteInterface, about to do that step.                                 *)
PCs == {"idle", "list", "loop", "wait", "v4", "v6", "delete"}

ASSUME ActorsAssumption == Ticker \notin Workers
ASSUME KeyAssumption == NoKey \notin Names
ASSUME BoundsAssumption == MaxErrors \in Nat /\ MaxCrashes \in Nat

VARIABLES
  seen,         \* the informer cache
  synced,       \* Cleaner.PodSynced
  initialized,  \* Cleaner.Initialized
  dirty,        \* work queue: keys to be processed, once each
  processing,   \* work queue: keys taken and not yet Done
  key,          \* the key each worker has taken
  pc,           \* where each thread is
  todo,         \* the DanmEps each thread has listed and not yet handled
  cur,          \* the DanmEp each thread is handling
  podCache,     \* podCache of cleanDanglingEps, a set of <<key, exists>>
  errors,       \* API calls that failed so far
  crashes       \* deaths of the leader so far

informer == <<seen, synced, initialized>>
queue == <<dirty, processing, key>>
threads == <<pc, todo, cur, podCache>>
bounds == <<errors, crashes>>
vars == <<cluster, informer, queue, threads, bounds>>

ApiError ==
  /\ errors < MaxErrors
  /\ errors' = errors + 1

NoFault == UNCHANGED errors

Init ==
  /\ ClusterInit
  /\ seen = [n \in Names |-> NoPod]
  /\ synced = FALSE /\ initialized = FALSE
  /\ dirty = {} /\ processing = {}
  /\ key = [w \in Workers |-> NoKey]
  /\ pc = [a \in Actors |-> "idle"]
  /\ todo = [a \in Actors |-> {}]
  /\ cur = [a \in Actors |-> NoEp]
  /\ podCache = {}
  /\ errors = 0 /\ crashes = 0

-----------------------------------------------------------------------------
(* The surroundings: the cluster moves on, the leader may die.             *)

(* The leader dies, or loses its lease and exits (cmd/cleaner): the next   *)
(* leader starts from nothing.                                             *)
Crash ==
  /\ crashes < MaxCrashes
  /\ crashes' = crashes + 1
  /\ seen' = [n \in Names |-> NoPod]
  /\ synced' = FALSE /\ initialized' = FALSE
  /\ dirty' = {} /\ processing' = {}
  /\ key' = [w \in Workers |-> NoKey]
  /\ pc' = [a \in Actors |-> "idle"]
  /\ todo' = [a \in Actors |-> {}]
  /\ cur' = [a \in Actors |-> NoEp]
  /\ podCache' = {}
  /\ UNCHANGED <<cluster, errors>>

(* A kubelet starts CNI ADD seconds after the Pod was scheduled, with a    *)
(* working watch long since informed.                                      *)
CacheKnows(n) ==
  synced /\ "slow_watch" \notin Faults => seen[n].uid = pods[n].uid

ClusterStep ==
  /\ \/ \E n \in Names : PodStep(n)
     \/ \E n \in Names, i \in Ifaces : CacheKnows(n) /\ CniAdd(n, i)
     \/ \E e \in eps : CniDel(e)
  /\ UNCHANGED <<informer, queue, threads, bounds>>

-----------------------------------------------------------------------------
(* The informer and its event handlers.                                    *)

(* The first list of Pods arrives; no handler is registered for additions. *)
InitialList ==
  /\ ~synced
  /\ synced' = TRUE
  /\ seen' = [n \in Names |-> View(n)]
  /\ UNCHANGED <<cluster, initialized, queue, threads, bounds>>

(* Initialize gives up waiting for the cache after 10 s and reports        *)
(* success all the same.                                                   *)
Initialize ==
  /\ ~initialized
  /\ synced \/ "slow_sync" \in Faults
  /\ initialized' = TRUE
  /\ UNCHANGED <<cluster, seen, synced, queue, threads, bounds>>

IsPodRunning(pod) == pod.phase = "running"

(* Mutant: the Pod itself is queued instead of its key.                    *)
EnqueueObject(n) ==
  /\ dirty' = dirty \union {View(n)}
  /\ UNCHANGED <<processing, key>>

(* Mutant: a key that is being processed is not added.                     *)
EnqueueIdle(n) ==
  /\ dirty' = IF n \in processing THEN dirty ELSE dirty \union {n}
  /\ UNCHANGED <<processing, key>>

(* Workqueue.Add: a key that is already waiting is not added again, and    *)
(* one that is being processed waits until it is Done.                     *)
EnqueuePod(n) ==
  /\ dirty' = dirty \union {n}
  /\ UNCHANGED <<processing, key>>

(* Mutants: every update is queued; old and new are swapped.               *)
UpdateAlways(n, old, new) == EnqueuePod(n)

UpdateSwapped(n, old, new) ==
  IF ~IsPodRunning(old) /\ IsPodRunning(new)
    THEN EnqueuePod(n)
    ELSE UNCHANGED queue

UpdatePod(n, old, new) ==
  IF ~IsPodRunning(new) /\ IsPodRunning(old)
    THEN EnqueuePod(n)
    ELSE UNCHANGED queue

(* delPod: a tombstone (the deletion was missed and found by a relist)     *)
(* passes the type checks, but enqueuePod cannot make a key of it.         *)
DelPod(n, tombstone) == IF tombstone THEN UNCHANGED queue ELSE EnqueuePod(n)

(* The cache catches up with one name.  A relist may skip states, and may  *)
(* turn the deletion and new creation of a Pod into one update.            *)
Observe(n) ==
  /\ synced
  /\ seen[n] # View(n)
  /\ seen' = [seen EXCEPT ![n] = View(n)]
  /\ \/ /\ seen[n] = NoPod
        /\ UNCHANGED queue
     \/ /\ seen[n] # NoPod /\ InApi(n)
        /\ UpdatePod(n, seen[n], View(n))
     \/ /\ seen[n] # NoPod /\ ~InApi(n)
        /\ \E tombstone \in BOOLEAN : DelPod(n, tombstone)
  /\ UNCHANGED <<cluster, synced, initialized, threads, bounds>>

Informer ==
  \/ InitialList
  \/ Initialize
  \/ \E n \in Names : Observe(n)

-----------------------------------------------------------------------------
(* The threads.                                                            *)

(* deleteInterface returns: on to the next DanmEp of the list.             *)
NextInterface(a) ==
  /\ pc' = [pc EXCEPT ![a] = "loop"]
  /\ cur' = [cur EXCEPT ![a] = NoEp]

(* Mutant: Done is called at once instead of being deferred.               *)
DequeueDone(w, n) ==
  /\ initialized /\ synced
  /\ pc[w] = "idle"
  /\ n \in dirty \ processing
  /\ dirty' = dirty \ {n}
  /\ key' = [key EXCEPT ![w] = n]
  /\ pc' = [pc EXCEPT ![w] = "list"]
  /\ UNCHANGED <<cluster, informer, processing, todo, cur, podCache, bounds>>

(* Workqueue.Get: any key that waits and is not being processed.  Run      *)
(* starts the event handler threads after Initialize, once synced.         *)
Dequeue(w, n) ==
  /\ initialized /\ synced
  /\ pc[w] = "idle"
  /\ n \in dirty \ processing
  /\ dirty' = dirty \ {n}
  /\ processing' = processing \union {n}
  /\ key' = [key EXCEPT ![w] = n]
  /\ pc' = [pc EXCEPT ![w] = "list"]
  /\ UNCHANGED <<cluster, informer, todo, cur, podCache, bounds>>

(* Workqueue.Done, deferred by processItemInQueue.                         *)
Done(w) ==
  /\ processing' = processing \ {key[w]}
  /\ key' = [key EXCEPT ![w] = NoKey]
  /\ pc' = [pc EXCEPT ![w] = "idle"]
  /\ UNCHANGED dirty

(* handleKey lists the DanmEps recorded under the name of the Pod.  When   *)
(* the API server cannot answer, the item is Done and never queued again.  *)
List(w) ==
  /\ pc[w] = "list"
  /\ \/ /\ NoFault
        /\ todo' = [todo EXCEPT ![w] = {e \in eps : e.pod = key[w]}]
        /\ pc' = [pc EXCEPT ![w] = "loop"]
        /\ UNCHANGED queue
     \/ /\ ApiError
        /\ Done(w)
        /\ UNCHANGED todo
  /\ UNCHANGED <<cluster, informer, cur, podCache, crashes>>

(* handleKey hands every DanmEp it listed to deleteInterface.              *)
Pick(w) ==
  /\ pc[w] = "loop"
  /\ \E e \in todo[w] :
       /\ todo' = [todo EXCEPT ![w] = @ \ {e}]
       /\ cur' = [cur EXCEPT ![w] = e]
  /\ pc' = [pc EXCEPT ![w] = "wait"]
  /\ UNCHANGED <<cluster, informer, queue, podCache, bounds>>

Finish(w) ==
  /\ pc[w] = "loop" /\ todo[w] = {}
  /\ Done(w)
  /\ UNCHANGED <<cluster, informer, todo, cur, podCache, bounds>>

(* Mutant: a failed list returns from the thread instead of continuing.    *)
TickReturns ==
  /\ initialized
  /\ pc[Ticker] = "idle"
  /\ \/ /\ NoFault
        /\ todo' = [todo EXCEPT ![Ticker] = eps]
        /\ pc' = [pc EXCEPT ![Ticker] = "loop"]
     \/ /\ ApiError
        /\ pc' = [pc EXCEPT ![Ticker] = "list"]
        /\ UNCHANGED todo
  /\ podCache' = {}
  /\ UNCHANGED <<cluster, informer, queue, cur, crashes>>

(* cleanupOnTick: all DanmEps are listed, and podCache starts empty.  When *)
(* the list fails the thread waits for the next tick.                      *)
Tick ==
  /\ initialized
  /\ pc[Ticker] = "idle"
  /\ \/ /\ NoFault
        /\ todo' = [todo EXCEPT ![Ticker] = eps]
        /\ pc' = [pc EXCEPT ![Ticker] = "loop"]
     \/ /\ ApiError
        /\ UNCHANGED <<todo, pc>>
  /\ podCache' = {}
  /\ UNCHANGED <<cluster, informer, queue, cur, crashes>>

(* Mutant: podCache is keyed by the name of the Pod.                       *)
CacheKeyByName(ep) == ep.pod

(* The key of podCache.                                                    *)
CacheKey(ep) == ep.uid

(* Mutant: the UID is not compared.                                        *)
ListerHasName(ep) == seen[ep.pod].phase # "none"

(* A Pod exists if the lister has one of that name with the recorded UID.  *)
ListerHasPod(ep) == seen[ep.pod].phase # "none" /\ seen[ep.pod].uid = ep.uid

Verdict(ep) ==
  IF \E exists \in BOOLEAN : <<CacheKey(ep), exists>> \in podCache
    THEN <<CacheKey(ep), TRUE>> \in podCache
    ELSE ListerHasPod(ep)

(* cleanDanglingEps judges one DanmEp by podCache or, the first time, by   *)
(* the lister, and hands it to deleteInterface if its Pod does not exist.  *)
Judge ==
  /\ pc[Ticker] = "loop"
  /\ \E e \in todo[Ticker] :
       /\ todo' = [todo EXCEPT ![Ticker] = @ \ {e}]
       /\ podCache' = podCache \union {<<CacheKey(e), Verdict(e)>>}
       /\ IF Verdict(e)
            THEN UNCHANGED <<pc, cur>>
            ELSE /\ cur' = [cur EXCEPT ![Ticker] = e]
                 /\ pc' = [pc EXCEPT ![Ticker] = "wait"]
  /\ UNCHANGED <<cluster, informer, queue, bounds>>

EndTick ==
  /\ pc[Ticker] = "loop" /\ todo[Ticker] = {}
  /\ pc' = [pc EXCEPT ![Ticker] = "idle"]
  /\ podCache' = {}
  /\ UNCHANGED <<cluster, informer, queue, todo, cur, bounds>>

(* Mutant: the answer of the API server is not looked at.                  *)
AssumedThere(ep) == TRUE

StillThere(ep) == ep \in eps

(* deleteInterface, after its sleep: give up if the DanmEp is gone, cannot *)
(* be read, or its network cannot be read.  The copy listed before the     *)
(* sleep is used from here on.                                             *)
Check(a) ==
  /\ pc[a] = "wait"
  /\ \/ /\ NoFault
        /\ IF StillThere(cur[a])
             THEN pc' = [pc EXCEPT ![a] = "v4"] /\ UNCHANGED cur
             ELSE NextInterface(a)
     \/ /\ ApiError
        /\ NextInterface(a)
  /\ UNCHANGED <<cluster, informer, queue, todo, podCache, crashes>>

(* Mutant: the error of a release is logged and forgotten.                 *)
ReleaseRegardless(a, ip, next) ==
  /\ \/ NoFault /\ owner' = [owner EXCEPT ![ip] = NoEp]
     \/ ApiError /\ UNCHANGED owner
  /\ pc' = [pc EXCEPT ![a] = next]
  /\ UNCHANGED cur
  /\ UNCHANGED <<pods, uids, eps, wired, informer, queue, todo, podCache, crashes>>

(* DeleteDanmEp frees an address through the service that owns it, whoever *)
(* it is reserved for by now.  No service, or one that fails, ends the     *)
(* cleanup of this DanmEp.  A call that fails may have had its effect: its *)
(* answer was lost.                                                        *)
ReleaseIP(a, ip, next) ==
  /\ \/ /\ NoFault
        /\ SelectReleaseService(cur[a], ip) # "none"
        /\ owner' = [owner EXCEPT ![ip] = NoEp]
        /\ pc' = [pc EXCEPT ![a] = next]
        /\ UNCHANGED cur
     \/ /\ NoFault
        /\ SelectReleaseService(cur[a], ip) = "none"
        /\ NextInterface(a)
        /\ UNCHANGED owner
     \/ /\ ApiError
        /\ SelectReleaseService(cur[a], ip) # "none"
        /\ owner' \in {owner, [owner EXCEPT ![ip] = NoEp]}
        /\ NextInterface(a)
  /\ UNCHANGED <<pods, uids, eps, wired, informer, queue, todo, podCache, crashes>>

(* Mutant: the IPv6 address is forgotten.                                  *)
ReleaseV4Only(a) == pc[a] = "v4" /\ ReleaseIP(a, cur[a].v4, "delete")

ReleaseV4(a) == pc[a] = "v4" /\ ReleaseIP(a, cur[a].v4, "v6")

ReleaseV6(a) == pc[a] = "v6" /\ ReleaseIP(a, cur[a].v6, "delete")

(* Last, the DanmEp itself; deleting one that is gone is an error like any *)
(* other, logged by deleteInterface.                                       *)
DeleteEp(a) ==
  /\ pc[a] = "delete"
  /\ \/ NoFault /\ eps' = eps \ {cur[a]}
     \/ ApiError /\ eps' \in {eps, eps \ {cur[a]}}
  /\ NextInterface(a)
  /\ UNCHANGED <<pods, uids, owner, wired, informer, queue, todo, podCache, crashes>>

DeleteInterface(a) == Check(a) \/ ReleaseV4(a) \/ ReleaseV6(a) \/ DeleteEp(a)

Worker(w) ==
  \/ \E n \in Names : Dequeue(w, n)
  \/ List(w)
  \/ Pick(w)
  \/ Finish(w)
  \/ DeleteInterface(w)

Periodic ==
  \/ Tick
  \/ Judge
  \/ EndTick
  \/ DeleteInterface(Ticker)

Next ==
  \/ ClusterStep
  \/ Crash
  \/ Informer
  \/ \E w \in Workers : Worker(w)
  \/ Periodic

Spec == Init /\ [][Next]_vars

(* Threads run, the watch delivers, and Workqueue.Get is first in, first   *)
(* out, so no waiting key is passed over for ever.  Nothing is promised    *)
(* about the cluster, and failures are bounded rather than excluded.       *)
Fairness ==
  /\ WF_vars(InitialList) /\ WF_vars(Initialize)
  /\ \A n \in Names : WF_vars(Observe(n))
  /\ WF_vars(Periodic)
  /\ \A w \in Workers : WF_vars(Worker(w))
  /\ \A n \in Names : SF_vars(\E w \in Workers : Dequeue(w, n))

FairSpec == Spec /\ Fairness

-----------------------------------------------------------------------------
(* Properties.                                                             *)

Deleting(a) == pc[a] \in {"wait", "v4", "v6", "delete"}

(* A thread has a DanmEp in hand exactly while it is in deleteInterface.   *)
InHand == \A a \in Actors : Deleting(a) <=> cur[a] # NoEp

(* The variables have their types; the queue holds keys of Pods, each at   *)
(* most once, and a thread handles a DanmEp exactly when it is inside      *)
(* deleteInterface: whatever makes it give up, it goes back to its list,   *)
(* and never into deleteInterface without a DanmEp.                        *)
TypeOK ==
  /\ ClusterTypeOK
  /\ seen \in [Names -> Pod]
  /\ synced \in BOOLEAN
  /\ initialized \in BOOLEAN
  /\ dirty \subseteq Names
  /\ processing \subseteq Names
  /\ key \in [Workers -> Names \union {NoKey}]
  /\ pc \in [Actors -> PCs]
  /\ todo \in [Actors -> SUBSET Endpoint]
  /\ cur \in [Actors -> Endpoint \union {NoEp}]
  /\ InHand
  /\ podCache \subseteq Uids \X BOOLEAN
  /\ errors \in 0 .. MaxErrors
  /\ crashes \in 0 .. MaxCrashes

(* The Cleaner never turns deleteInterface on a DanmEp that a live         *)
(* container uses: from the decision to clean it until its record is gone, *)
(* the endpoint is that of a Pod that ended or left.                       *)
NoLiveTarget == \A a \in Actors : Deleting(a) => cur[a] \notin wired

(* No address is lost: one that is reserved is reserved for a DanmEp on    *)
(* record, so a later tick can still find and free it, whatever failed or  *)
(* crashed between the releases and the deletion in DeleteDanmEp.          *)
NoLeakedAddress == \A ip \in IP : owner[ip] # NoEp => owner[ip] \in eps

(* The work queue keeps two event handler threads off the same Pod, from   *)
(* the Get of its key to the deferred Done, although the key may be added  *)
(* again meanwhile (processItemInQueue).                                   *)
OneWorkerPerPod ==
  \A v, w \in Workers :
    v # w /\ pc[v] # "idle" /\ pc[w] # "idle" => key[v] # key[w]

(* A live container keeps its addresses: none of them is freed, or given   *)
(* to someone else, while it runs.                                         *)
LiveAddressReserved ==
  \A e \in wired : \A ip \in IPs(e) : owner[ip] = e

(* The Cleaner and the CNI plugin implement the ledger contract stated     *)
(* above DeleteDanmEp: a DanmEp is deleted only after its IPs are freed.   *)
Ledger == INSTANCE AddressLedger WITH
  AddressesOf <- [e \in Endpoint |-> IPs(e)]

LedgerSpec == Ledger!Spec

(* A DanmEp whose Pod is gone, or was created anew under another UID, does *)
(* not stay: the periodic thread removes it, across failed calls and a new *)
(* leader (cleanupOnTick).                                                 *)
DanglingEpCleaned ==
  \A u \in Uids :
    (\E e \in eps : e.uid = u /\ ~PodExists(e)) ~> ~(\E e \in eps : e.uid = u)

(* When a Pod the Cleaner saw running ends, its DanmEps go without waiting *)
(* for the Pod object to be deleted (updatePod), unless a call fails or    *)
(* the leader dies: neither the item nor the event is ever seen again.     *)
EndedPodCleaned ==
  \A n \in Names, u \in Uids :
    (/\ synced /\ IsPodRunning(seen[n]) /\ seen[n].uid = u
     /\ pods[n].phase = "ended" /\ pods[n].uid = u)
      ~> ({e \in eps : e.uid = u} = {} \/ errors > 0 \/ crashes > 0)

(* Who is going to clean a DanmEp: the event that will bring the key of    *)
(* its Pod, the key, a worker that took the key or listed the DanmEp, or   *)
(* the periodic thread, if neither the API server nor the cache has its    *)
(* Pod and no verdict says otherwise.                                      *)
EventComes(e) ==
  synced /\ IsPodRunning(seen[e.pod]) /\ pods[e.pod].phase = "ended"

KeyWaits(e) ==
  e.pod \in dirty \/ \E w \in Workers : pc[w] = "list" /\ key[w] = e.pod

InList(a, e) == (pc[a] = "loop" \/ Deleting(a)) /\ e \in todo[a]

ToBeCleaned(e) ==
  \/ EventComes(e) \/ KeyWaits(e)
  \/ \E w \in Workers : InList(w, e)
  \/ \E a \in Actors : Deleting(a) /\ cur[a] = e
  \/ /\ InList(Ticker, e) /\ ~PodExists(e) /\ ~ListerHasPod(e)
     /\ <<CacheKey(e), TRUE>> \notin podCache

HasServices(e) == \A ip \in {e.v4, e.v6} : SelectReleaseService(e, ip) # "none"

(* What the two properties above leave to no scheduler: in no single step  *)
(* is a DanmEp that is to be cleaned lost sight of.  It is until it is off *)
(* the record, a call fails, the leader dies, or its Pod leaves the API    *)
(* server with the event still to come (then it is the next tick's).       *)
NeverLostSight ==
  [][\A e \in eps :
       ToBeCleaned(e) /\ HasServices(e) =>
         \/ ToBeCleaned(e)' \/ e \notin eps'
         \/ errors' # errors \/ crashes' # crashes
         \/ EventComes(e) /\ ~InApi(e.pod)']_vars
=============================================================================
