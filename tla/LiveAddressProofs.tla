-------------------------- MODULE LiveAddressProofs --------------------------
(***************************************************************************)
(* When a live container keeps its addresses: what must hold for the       *)
(* release of an address by the periodic thread to hit nobody else.        *)
(***************************************************************************)
EXTENDS NoLiveTargetProofs

USE DEF Actors, Uids, IP

(* The periodic thread cleans alone, with a cache it can trust; CNI DEL    *)
(* runs before the Pod object goes; and an interface with an IPv4 address  *)
(* has an IPv6 address, or DeleteDanmEp would stop half way each time.     *)
CleansAlone ==
  /\ CacheTrusted
  /\ Workers = {}
  /\ "late_del" \notin Faults
  /\ \A stack \in Stacks : 4 \in stack => 6 \in stack

(* No call has failed and no leader has died so far: each leaves a DanmEp  *)
(* behind whose first address is free, for the next tick to free it again. *)
Undisturbed == errors = 0 /\ crashes = 0

-----------------------------------------------------------------------------
(* The inductive invariant.                                                *)

(* The Pod with this UID has been there and left the API server.           *)
GoneUid(u) ==
  /\ u <= uids
  /\ \A n \in Names : pods[n].uid = u => pods[n].phase = "none"

(* A synchronized cache has the Pod of every endpoint someone has heard of *)
(* for as long as the API server has it.                                   *)
SeenExisting ==
  synced => \A e \in Endpoint : Known(e) /\ PodExists(e) => seen[e.pod].uid = e.uid

TickerGone ==
  /\ Deleting(Ticker) => GoneUid(cur[Ticker].uid)
  /\ \A u \in 1 .. MaxUid : <<u, FALSE>> \in podCache => GoneUid(u)

(* DeleteDanmEp finds a service for the second address, if for the first.  *)
Releasable(e) ==
  SelectReleaseService(e, e.v4) # "none" => SelectReleaseService(e, e.v6) # "none"

KnownReleasable == \A e \in Endpoint : Known(e) => Releasable(e)

WiredRecorded == wired \subseteq eps

(* Past its check, the DanmEp the thread handles stays on record, as CNI   *)
(* DEL has come too late for it.                                           *)
StaysOnRecord ==
  /\ pc[Ticker] \in {"v4", "v6", "delete"} => cur[Ticker] \in eps
  /\ pc[Ticker] = "v6" => SelectReleaseService(cur[Ticker], cur[Ticker].v4) # "none"

Freed(e, ip) ==
  /\ e = cur[Ticker]
  /\ \/ pc[Ticker] = "v6" /\ ip = e.v4
     \/ pc[Ticker] = "delete"

(* An address on record is reserved for the DanmEp that carries it, but    *)
(* for those the thread has just freed.                                    *)
EpsReserved ==
  \A e \in eps : \A ip \in IPs(e) : owner[ip] = e \/ Freed(e, ip)

RecordInv ==
  /\ SeenExisting
  /\ TickerGone
  /\ KnownReleasable
  /\ WiredRecorded
  /\ StaysOnRecord
  /\ (Undisturbed => EpsReserved)

CleaningInv == IInv /\ TickerInv /\ RecordInv

LEMMA InitRecordInv == Init => RecordInv
<1> SUFFICES ASSUME Init PROVE RecordInv
  OBVIOUS
<1>1. \A e \in Endpoint : ~Known(e)
  BY EpAssumption DEF Init, ClusterInit, Known
<1> QED BY <1>1 DEF Init, ClusterInit, RecordInv, SeenExisting, TickerGone, Deleting,
                    KnownReleasable, WiredRecorded, StaysOnRecord, EpsReserved

-----------------------------------------------------------------------------
(* Facts about addresses.                                                  *)

(* The two addresses of an endpoint are of different families.             *)
LEMMA TwoAddresses ==
  ASSUME NEW e \in Endpoint, NEW ip \in IPs(e)
  PROVE  /\ ip \in IP /\ ip # NoIP /\ (ip = e.v4 \/ ip = e.v6)
         /\ e.v4 # NoIP => e.v4 # e.v6
BY EndpointFields, AddressAssumption DEF IPs

(* What CNI ADD records can be released in full, if it can be in part: the *)
(* addresses of an endpoint are all DANM's or none is.                     *)
LEMMA AddedReleasable ==
  ASSUME CleansAlone, NEW e \in Endpoint,
         \E stack \in Stacks : /\ (e.v4 # NoIP) <=> (4 \in stack)
                               /\ (e.v6 # NoIP) <=> (6 \in stack),
         \A ip \in IPs(e) : ip \in Cidr <=> e.type = "danm"
  PROVE  Releasable(e)
<1> SUFFICES ASSUME SelectReleaseService(e, e.v4) # "none"
             PROVE  SelectReleaseService(e, e.v6) # "none"
  BY DEF Releasable
<1>1. e.v4 # NoIP
  BY ServiceNeedsAddress
<1>2. e.v6 # NoIP
  BY <1>1 DEF CleansAlone
<1>3. e.v4 \in IPs(e) /\ e.v6 \in IPs(e)
  BY <1>1, <1>2 DEF IPs
<1> QED BY <1>2, <1>3 DEF SelectReleaseService, DanmOwns, CalicoOwns

-----------------------------------------------------------------------------
(* Steps of the cluster.                                                   *)

(* A Pod that has left does not come back under its UID.                   *)
LEMMA PodStepGone ==
  ASSUME TypeOK, NEW n \in Names, PodStep(n), NEW u \in 1 .. MaxUid, GoneUid(u)
  PROVE  GoneUid(u)'
<1>1. uids \in Nat /\ u \in Nat /\ u <= uids
  BY UidAssumption DEF TypeOK, ClusterTypeOK, GoneUid
<1> QED BY <1>1, PodStepEffect DEF GoneUid, LivePhases

(* What the periodic thread holds back it holds on to, if only the cluster *)
(* moves.                                                                  *)
LEMMA TickerGoneStable ==
  ASSUME IInv, TickerGone,
         \A u \in 1 .. MaxUid : GoneUid(u) => GoneUid(u)',
         Deleting(Ticker)' => Deleting(Ticker) /\ cur'[Ticker] = cur[Ticker],
         podCache' \subseteq podCache
  PROVE  TickerGone'
<1>1. ASSUME Deleting(Ticker)' PROVE GoneUid(cur[Ticker].uid)'
  <2>1. cur[Ticker].uid \in 1 .. MaxUid
    BY <1>1, EndpointFields DEF IInv, HasCur
  <2> QED BY <1>1, <2>1 DEF TickerGone
<1> QED BY <1>1 DEF TickerGone

LEMMA PodStepRecord ==
  ASSUME IInv, RecordInv, NEW n \in Names, PodStep(n), UNCHANGED <<informer, threads, bounds>>
  PROVE  RecordInv'
<1> USE DEF informer, threads, bounds
<1>1. TypeOK /\ uids \in Nat /\ \A e \in Endpoint : e.uid \in Nat /\ e.pod \in Names
  BY UidAssumption, EndpointFields DEF IInv, TypeOK, ClusterTypeOK
<1>2. UNCHANGED <<eps, owner>> /\ wired' \subseteq wired
  BY <1>1, PodStepEffect
<1>3. \A e \in Endpoint : Known(e)' <=> Known(e)
  BY <1>2 DEF Known
<1>4. ASSUME NEW e \in Endpoint, Known(e), PodExists(e)' PROVE PodExists(e)
  <2>1. e.uid <= uids
    BY <1>4 DEF IInv, KnownFresh
  <2> QED BY <1>1, <1>4, <2>1, PodStepEffect DEF PodExists, InApi, LivePhases
<1>5. SeenExisting'
  BY <1>3, <1>4 DEF RecordInv, SeenExisting
<1>6. TickerGone'
  BY <1>1, PodStepGone, TickerGoneStable DEF RecordInv, Deleting
<1>7. KnownReleasable' /\ WiredRecorded' /\ StaysOnRecord'
  BY <1>2, <1>3 DEF RecordInv, KnownReleasable, Releasable, WiredRecorded, StaysOnRecord
<1>8. (Undisturbed => EpsReserved)'
  BY <1>2 DEF RecordInv, Undisturbed, EpsReserved, Freed
<1> QED BY <1>5, <1>6, <1>7, <1>8 DEF RecordInv

LEMMA CniAddRecord ==
  ASSUME IInv, CleansAlone, RecordInv, NEW n \in Names, NEW i \in Ifaces, CacheKnows(n),
         CniAdd(n, i), UNCHANGED <<informer, threads, bounds>>
  PROVE  RecordInv'
<1> USE DEF informer, threads, bounds
<1>1. PICK e \in Endpoint :
        /\ e.pod = n /\ e.uid = pods[n].uid
        /\ \E stack \in Stacks : /\ (e.v4 # NoIP) <=> (4 \in stack)
                                 /\ (e.v6 # NoIP) <=> (6 \in stack)
        /\ \A ip \in IPs(e) : /\ owner[ip] = NoEp
                              /\ ip \in Cidr <=> e.type = "danm"
        /\ eps' = eps \union {e}
        /\ owner' = [ip \in IP |-> IF ip \in IPs(e) THEN e ELSE owner[ip]]
        /\ wired' = wired \union {e}
        /\ UNCHANGED <<pods, uids>>
  BY DEF CniAdd
<1>2. \A f \in Endpoint : Known(f)' => Known(f) \/ f = e
  BY <1>1 DEF Known
<1>3. synced => seen[e.pod].uid = e.uid
  BY <1>1 DEF CacheKnows, CleansAlone, CacheTrusted
<1>4. SeenExisting'
  BY <1>1, <1>2, <1>3 DEF RecordInv, SeenExisting, PodExists, InApi
<1>5. TickerGone'
  BY <1>1 DEF RecordInv, TickerGone, Deleting, GoneUid
<1>6. Releasable(e)
  BY <1>1, AddedReleasable
<1>7. KnownReleasable' /\ WiredRecorded' /\ StaysOnRecord'
  BY <1>1, <1>2, <1>6 DEF RecordInv, KnownReleasable, Releasable, WiredRecorded, StaysOnRecord
<1>8. ASSUME Undisturbed', NEW f \in eps', NEW ip \in IPs(f)
      PROVE  owner'[ip] = f \/ Freed(f, ip)'
  <2>1. f \in Endpoint /\ ip \in IP
    BY <1>1, <1>8, EndpointFields DEF IInv, TypeOK, ClusterTypeOK
  <2>2. CASE f = e
    BY <1>1, <1>8, <2>1, <2>2
  <2>3. CASE f # e
    <3>1. owner[ip] = f \/ Freed(f, ip)
      BY <1>1, <1>8, <2>3 DEF RecordInv, Undisturbed, EpsReserved
    <3>2. Freed(f, ip) => Freed(f, ip)'
      BY DEF Freed
    <3>3. owner[ip] = f => owner'[ip] = f
      BY <1>1, <2>1, EpAssumption
    <3> QED BY <3>1, <3>2, <3>3
  <2> QED BY <2>2, <2>3
<1>9. (Undisturbed => EpsReserved)'
  BY <1>8 DEF EpsReserved
<1> QED BY <1>4, <1>5, <1>7, <1>9 DEF RecordInv

(* CNI DEL finds the Pod still there, so it does not run on the DanmEp the *)
(* periodic thread handles.                                                *)
LEMMA CniDelRecord ==
  ASSUME IInv, CleansAlone, RecordInv, NEW e \in eps, CniDel(e),
         UNCHANGED <<informer, threads, bounds>>
  PROVE  RecordInv'
<1> USE DEF informer, threads, bounds
<1>1. /\ e \notin wired /\ PodExists(e)
      /\ eps' = eps \ {e}
      /\ owner' = [ip \in IP |-> IF ip \in IPs(e) THEN NoEp ELSE owner[ip]]
      /\ UNCHANGED <<pods, uids, wired>>
  BY DEF CniDel, CleansAlone
<1>2. e \in Endpoint /\ e.pod \in Names
  BY EndpointFields DEF IInv, TypeOK, ClusterTypeOK
<1>3. \A f \in Endpoint : Known(f)' => Known(f)
  BY <1>1 DEF Known
<1>4. Deleting(Ticker) => cur[Ticker] # e
  BY <1>1, <1>2 DEF RecordInv, TickerGone, GoneUid, PodExists, InApi
<1>5. SeenExisting' /\ TickerGone'
  BY <1>1, <1>3 DEF RecordInv, SeenExisting, PodExists, InApi, TickerGone, Deleting, GoneUid
<1>6. KnownReleasable' /\ WiredRecorded'
  BY <1>1, <1>3 DEF RecordInv, KnownReleasable, Releasable, WiredRecorded
<1>7. StaysOnRecord'
  BY <1>1, <1>4 DEF RecordInv, StaysOnRecord, Deleting
<1>8. ASSUME Undisturbed', NEW f \in eps', NEW ip \in IPs(f)
      PROVE  owner'[ip] = f \/ Freed(f, ip)'
  <2>1. f \in Endpoint /\ ip \in IP /\ f # e /\ f \in eps
    BY <1>1, <1>8, EndpointFields DEF IInv, TypeOK, ClusterTypeOK
  <2>2. owner[ip] = f \/ Freed(f, ip)
    BY <1>8, <2>1 DEF RecordInv, Undisturbed, EpsReserved
  <2>3. Freed(f, ip) => Freed(f, ip)'
    BY DEF Freed
  <2>4. ASSUME owner[ip] = f PROVE owner'[ip] = f
    <3>1. CASE ip \notin IPs(e)
      BY <1>1, <2>1, <2>4, <3>1
    <3>2. CASE ip \in IPs(e)
      <4>1. Freed(e, ip)
        BY <1>8, <2>1, <2>4, <3>2 DEF RecordInv, Undisturbed, EpsReserved
      <4> QED BY <1>4, <4>1 DEF Freed, Deleting
    <3> QED BY <3>1, <3>2
  <2> QED BY <2>2, <2>3, <2>4
<1>9. (Undisturbed => EpsReserved)'
  BY <1>8 DEF EpsReserved
<1> QED BY <1>5, <1>6, <1>7, <1>9 DEF RecordInv

-----------------------------------------------------------------------------
(* Steps of the informer, of a new leader and of the periodic thread.      *)

LEMMA InformerRecord ==
  ASSUME IInv, RecordInv, Informer
  PROVE  RecordInv'
<1>1. UNCHANGED <<cluster, pc, todo, cur, podCache, errors, crashes>>
  BY DEF Informer, InitialList, Initialize, Observe, threads, bounds
<1>2. /\ TickerGone' /\ KnownReleasable' /\ WiredRecorded' /\ StaysOnRecord'
      /\ (Undisturbed => EpsReserved)'
  BY <1>1 DEF cluster, RecordInv, TickerGone, Deleting, GoneUid, KnownReleasable, Releasable,
              Known, WiredRecorded, StaysOnRecord, Undisturbed, EpsReserved, Freed
<1>3. \A e \in Endpoint : Known(e)' = Known(e) /\ PodExists(e)' = PodExists(e)
  BY <1>1 DEF cluster, Known, PodExists, InApi
<1>4. \A e \in Endpoint : /\ e.pod \in Names
                          /\ PodExists(e) => View(e.pod).uid = e.uid
  BY EndpointFields DEF View, PodExists
<1>5. CASE InitialList
  BY <1>2, <1>3, <1>4, <1>5 DEF InitialList, SeenExisting, RecordInv
<1>6. CASE Initialize
  BY <1>2, <1>3, <1>6 DEF Initialize, RecordInv, SeenExisting
<1>7. ASSUME NEW n \in Names, Observe(n) PROVE SeenExisting'
  <2>1. UNCHANGED synced /\ seen' = [seen EXCEPT ![n] = View(n)]
    BY <1>7 DEF Observe
  <2> QED BY <1>3, <1>4, <2>1 DEF RecordInv, SeenExisting, IInv, TypeOK
<1> QED BY <1>2, <1>5, <1>6, <1>7 DEF Informer, RecordInv

LEMMA CrashRecord ==
  ASSUME IInv, RecordInv, Crash
  PROVE  RecordInv'
<1>1. UNCHANGED cluster /\ pc'[Ticker] = "idle" /\ podCache' = {} /\ ~synced'
  BY DEF Crash
<1>2. \A e \in Endpoint : Known(e)' => Known(e)
  BY ThreadsHearNothingNew DEF IInv
<1>3. SeenExisting' /\ TickerGone' /\ StaysOnRecord'
  BY <1>1 DEF SeenExisting, TickerGone, Deleting, StaysOnRecord
<1>4. KnownReleasable' /\ WiredRecorded'
  BY <1>1, <1>2 DEF cluster, RecordInv, KnownReleasable, Releasable, WiredRecorded
<1>5. ~Undisturbed'
  BY DEF Crash, Undisturbed, IInv, TypeOK
<1> QED BY <1>3, <1>4, <1>5 DEF RecordInv

(* The periodic thread takes the Pod of an endpoint for gone only if it is *)
(* gone, not merely ended: the cache has every Pod the API server has.     *)
LEMMA UnlistedIsGone ==
  ASSUME IInv, UidOwner, SeenPods, SeenExisting, synced, NEW e \in Endpoint, Known(e),
         ~ListerHasPod(e)
  PROVE  GoneUid(e.uid)
<1>1. e.uid <= uids
  BY DEF IInv, KnownFresh
<1>2. e.pod \in Names /\ e.uid # 0
  BY EndpointFields, UidAssumption
<1>3. ~PodExists(e)
  BY <1>2 DEF SeenExisting, SeenPods, ListerHasPod
<1> QED BY <1>1, <1>3 DEF GoneUid, UidOwner, PodExists, InApi

LEMMA JudgeGone ==
  ASSUME IInv, TickerInv, RecordInv, Judge
  PROVE  TickerGone'
<1>1. PICK e \in todo[Ticker] :
        /\ podCache' = podCache \union {<<CacheKey(e), Verdict(e)>>}
        /\ IF Verdict(e)
             THEN UNCHANGED <<pc, cur>>
             ELSE /\ cur' = [cur EXCEPT ![Ticker] = e]
                  /\ pc' = [pc EXCEPT ![Ticker] = "wait"]
  BY DEF Judge
<1>2. e \in Endpoint /\ Known(e) /\ UNCHANGED <<pods, uids>> /\ synced
      /\ pc[Ticker] = "loop"
  BY <1>1 DEF IInv, TypeOK, Known, Judge, cluster, TickerInv, TickerSynced
<1>3. ASSUME ~Verdict(e) PROVE GoneUid(e.uid)
  <2>1. CASE <<e.uid, FALSE>> \in podCache
    BY <1>2, <2>1, EndpointFields DEF RecordInv, TickerGone
  <2>2. CASE <<e.uid, FALSE>> \notin podCache
    <3>1. ~ListerHasPod(e)
      BY <1>3, <2>2 DEF Verdict, CacheKey
    <3> QED BY <1>2, <3>1, UnlistedIsGone DEF TickerInv, RecordInv
  <2> QED BY <2>1, <2>2
<1>4. \A u : GoneUid(u) <=> GoneUid(u)'
  BY <1>2 DEF GoneUid
<1>5. (Deleting(Ticker) => GoneUid(cur[Ticker].uid))'
  BY <1>1, <1>2, <1>3, <1>4 DEF Deleting, IInv, TypeOK
<1>6. ASSUME NEW u \in 1 .. MaxUid, <<u, FALSE>> \in podCache' PROVE GoneUid(u)'
  <2>1. CASE <<u, FALSE>> \in podCache
    BY <1>4, <2>1 DEF RecordInv, TickerGone
  <2>2. CASE <<u, FALSE>> \notin podCache
    <3>1. <<u, FALSE>> = <<e.uid, Verdict(e)>>
      BY <1>1, <1>6, <2>2 DEF CacheKey
    <3>2. u = e.uid /\ ~Verdict(e)
      BY <3>1
    <3> QED BY <1>3, <1>4, <3>2
  <2> QED BY <2>1, <2>2
<1> QED BY <1>5, <1>6 DEF TickerGone

(* Steps between two DanmEps free nothing and leave nothing half freed.    *)
LEMMA ListingRecord ==
  ASSUME IInv, TickerInv, RecordInv, Tick \/ Judge \/ EndTick
  PROVE  RecordInv'
<1>1. /\ UNCHANGED <<cluster, seen, synced, crashes>>
      /\ errors' = 0 => errors = 0
  BY DEF Tick, Judge, EndTick, ApiError, NoFault, informer, bounds, IInv, TypeOK
<1>2. pc[Ticker] \in {"idle", "loop"} /\ pc'[Ticker] \in {"idle", "loop", "wait"}
  BY DEF Tick, Judge, EndTick, IInv, TypeOK
<1>3. \A e \in Endpoint : Known(e)' => Known(e)
  BY ThreadsHearNothingNew DEF IInv, Periodic
<1>4. TickerGone'
  <2>1. CASE Tick \/ EndTick
    <3>1. podCache' = {} /\ ~Deleting(Ticker)'
      BY <2>1 DEF Tick, EndTick, Deleting, IInv, TypeOK
    <3> QED BY <3>1 DEF TickerGone
  <2>2. CASE Judge
    BY <2>2, JudgeGone
  <2> QED BY <2>1, <2>2
<1>5. SeenExisting' /\ KnownReleasable' /\ WiredRecorded' /\ StaysOnRecord'
  BY <1>1, <1>2, <1>3 DEF cluster, RecordInv, SeenExisting, PodExists, InApi,
                          KnownReleasable, Releasable, WiredRecorded, StaysOnRecord
<1>6. (Undisturbed => EpsReserved)'
  BY <1>1, <1>2 DEF cluster, RecordInv, Undisturbed, EpsReserved, Freed
<1> QED BY <1>4, <1>5, <1>6 DEF RecordInv

(* Every step of deleteInterface, without failures, keeps what is said of  *)
(* addresses: those on record stay reserved but for the ones it frees.     *)
LEMMA DeleteInterfaceReserved ==
  ASSUME IInv, RecordInv, DeleteInterface(Ticker), Undisturbed'
  PROVE  EpsReserved' /\ StaysOnRecord'
<1> DEFINE e == cur[Ticker]
<1>1. /\ errors = 0 /\ crashes = 0 /\ errors' = errors
      /\ EpsReserved /\ StaysOnRecord /\ KnownReleasable
  BY DeleteInterfaceFrame
     DEF Undisturbed, DeleteInterface, Check, ReleaseV4, ReleaseV6, ReleaseIP, DeleteEp,
         NoFault, ApiError, IInv, TypeOK, RecordInv
<1>2. e \in Endpoint /\ Releasable(e)
  BY <1>1, DeleteInterfaceFrame DEF IInv, HasCur, Known, KnownReleasable
<1>3. \A f \in eps : f \in Endpoint
  BY DEF IInv, TypeOK, ClusterTypeOK
<1>4. pc \in [Actors -> PCs] /\ cur \in [Actors -> Endpoint \union {NoEp}]
      /\ owner \in [IP -> Endpoint \union {NoEp}] /\ Ticker \in Actors
      /\ errors' # errors + 1
  BY <1>1 DEF IInv, TypeOK, ClusterTypeOK
<1>5. CASE Check(Ticker)
  BY <1>1, <1>4, <1>5 DEF Check, StillThere, NextInterface, EpsReserved, StaysOnRecord, Freed,
                          ApiError, cluster
<1>6. CASE ReleaseV4(Ticker)
  <2>1. pc[Ticker] = "v4" /\ UNCHANGED eps /\ e \in eps
    BY <1>1, <1>6 DEF ReleaseV4, ReleaseIP, StaysOnRecord
  <2>2. CASE SelectReleaseService(e, e.v4) = "none"
    <3>1. NextInterface(Ticker) /\ UNCHANGED owner
      BY <1>4, <1>6, <2>2 DEF ReleaseV4, ReleaseIP, ApiError
    <3> QED BY <1>1, <1>4, <2>1, <3>1 DEF NextInterface, EpsReserved, StaysOnRecord, Freed
  <2>3. CASE SelectReleaseService(e, e.v4) # "none"
    <3>1. /\ owner' = [owner EXCEPT ![e.v4] = NoEp]
          /\ pc' = [pc EXCEPT ![Ticker] = "v6"] /\ UNCHANGED cur
      BY <1>4, <1>6, <2>3 DEF ReleaseV4, ReleaseIP, ApiError
    <3>2. StaysOnRecord'
      BY <1>4, <2>1, <2>3, <3>1 DEF StaysOnRecord
    <3>3. ASSUME NEW f \in eps, NEW ip \in IPs(f) PROVE owner'[ip] = f \/ Freed(f, ip)'
      <4>1. owner[ip] = f /\ ip \in IP
        BY <1>1, <1>3, <2>1, <3>3, TwoAddresses DEF EpsReserved, Freed
      <4>2. CASE ip # e.v4
        BY <1>4, <3>1, <4>1, <4>2
      <4>3. CASE ip = e.v4
        <5>1. e.v4 \in IPs(e)
          BY <3>3, <1>3, <4>3, TwoAddresses DEF IPs
        <5>2. f = e
          BY <1>1, <2>1, <4>1, <4>3, <5>1 DEF EpsReserved, Freed
        <5> QED BY <1>4, <3>1, <4>3, <5>2 DEF Freed
      <4> QED BY <4>2, <4>3
    <3> QED BY <2>1, <3>2, <3>3 DEF EpsReserved
  <2> QED BY <2>2, <2>3
<1>7. CASE ReleaseV6(Ticker)
  <2>1. pc[Ticker] = "v6" /\ UNCHANGED eps /\ e \in eps
    BY <1>1, <1>7 DEF ReleaseV6, ReleaseIP, StaysOnRecord
  <2>2. SelectReleaseService(e, e.v6) # "none"
    BY <1>1, <1>2, <2>1 DEF StaysOnRecord, Releasable
  <2>3. /\ owner' = [owner EXCEPT ![e.v6] = NoEp]
        /\ pc' = [pc EXCEPT ![Ticker] = "delete"] /\ UNCHANGED cur
    BY <1>4, <1>7, <2>2 DEF ReleaseV6, ReleaseIP, ApiError
  <2>4. StaysOnRecord'
    BY <1>4, <2>1, <2>3 DEF StaysOnRecord
  <2>5. ASSUME NEW f \in eps, NEW ip \in IPs(f) PROVE owner'[ip] = f \/ Freed(f, ip)'
    <3>1. CASE f = e
      BY <1>4, <2>3, <3>1 DEF Freed
    <3>2. CASE f # e
      <4>1. owner[ip] = f /\ ip \in IP
        BY <1>1, <1>3, <2>5, <3>2, TwoAddresses DEF EpsReserved, Freed
      <4>2. CASE ip # e.v6
        BY <1>4, <2>3, <4>1, <4>2
      <4>3. CASE ip = e.v6
        <5>1. e.v6 \in IPs(e) /\ e.v6 # e.v4
          BY <1>2, <1>3, <2>5, <4>3, TwoAddresses, AddressAssumption, EndpointFields DEF IPs
        <5> QED BY <1>1, <2>1, <3>2, <4>1, <4>3, <5>1 DEF EpsReserved, Freed
      <4> QED BY <4>2, <4>3
    <3> QED BY <3>1, <3>2
  <2> QED BY <2>1, <2>4, <2>5 DEF EpsReserved
<1>8. CASE DeleteEp(Ticker)
  <2>1. /\ pc[Ticker] = "delete" /\ UNCHANGED owner
        /\ eps' = eps \ {e} /\ NextInterface(Ticker)
    BY <1>4, <1>8 DEF DeleteEp, ApiError
  <2> QED BY <1>1, <1>4, <2>1 DEF NextInterface, EpsReserved, StaysOnRecord, Freed
<1> QED BY <1>5, <1>6, <1>7, <1>8 DEF DeleteInterface
(* Whatever fails, the DanmEp past its check stays on record.              *)
LEMMA DeleteInterfaceInHand ==
  ASSUME IInv, RecordInv, DeleteInterface(Ticker)
  PROVE  StaysOnRecord'
<1>1. /\ pc \in [Actors -> PCs] /\ cur \in [Actors -> Endpoint \union {NoEp}]
      /\ Ticker \in Actors /\ StaysOnRecord
  BY DEF IInv, TypeOK, RecordInv
<1>2. CASE pc' = [pc EXCEPT ![Ticker] = "loop"]
  BY <1>1, <1>2 DEF StaysOnRecord
<1>3. CASE ~(pc' = [pc EXCEPT ![Ticker] = "loop"])
  <2>1. CASE Check(Ticker)
    BY <1>1, <1>3, <2>1 DEF Check, StillThere, NextInterface, StaysOnRecord, cluster
  <2>2. CASE ReleaseV4(Ticker)
    BY <1>1, <1>3, <2>2 DEF ReleaseV4, ReleaseIP, NextInterface, StaysOnRecord
  <2>3. CASE ReleaseV6(Ticker)
    BY <1>1, <1>3, <2>3 DEF ReleaseV6, ReleaseIP, NextInterface, StaysOnRecord
  <2>4. CASE DeleteEp(Ticker)
    BY <1>3, <2>4 DEF DeleteEp, NextInterface
  <2> QED BY <2>1, <2>2, <2>3, <2>4 DEF DeleteInterface
<1> QED BY <1>2, <1>3

LEMMA DeleteInterfaceRecord ==
  ASSUME IInv, TickerInv, RecordInv, DeleteInterface(Ticker)
  PROVE  RecordInv'
<1>1. TypeOK /\ UNCHANGED <<pods, uids, wired, seen, synced, podCache>>
  BY DeleteInterfaceFrame DEF IInv, informer
<1>2. Deleting(Ticker)' => Deleting(Ticker) /\ cur'[Ticker] = cur[Ticker]
  BY <1>1, DeleteInterfaceFrame DEF Deleting, TypeOK
<1>3. \A f \in Endpoint : Known(f)' => Known(f)
  BY <1>1, ThreadsHearNothingNew DEF Periodic
<1>4. SeenExisting' /\ KnownReleasable'
  BY <1>1, <1>3 DEF RecordInv, SeenExisting, PodExists, InApi, KnownReleasable, Releasable
<1>5. TickerGone'
  BY <1>1, <1>2 DEF RecordInv, TickerGone, GoneUid
<1>6. WiredRecorded'
  <2>1. cur[Ticker] \notin wired
    BY <1>1, TickerSafe, DeleteInterfaceFrame DEF TickerNoLiveTarget
  <2>2. eps' \in {eps, eps \ {cur[Ticker]}}
    BY DEF DeleteInterface, Check, ReleaseV4, ReleaseV6, ReleaseIP, DeleteEp, cluster
  <2> QED BY <1>1, <2>1, <2>2 DEF RecordInv, WiredRecorded
<1>7. StaysOnRecord' /\ (Undisturbed => EpsReserved)'
  BY DeleteInterfaceInHand, DeleteInterfaceReserved
<1> QED BY <1>4, <1>5, <1>6, <1>7 DEF RecordInv

LEMMA RecordStep ==
  ASSUME CleansAlone, IInv, TickerInv, RecordInv, [Next]_vars
  PROVE  RecordInv'
<1>1. CASE ClusterStep
  <2>1. UNCHANGED <<informer, threads, bounds>>
    BY <1>1 DEF ClusterStep
  <2> QED BY <1>1, <2>1, PodStepRecord, CniAddRecord, CniDelRecord DEF ClusterStep
<1>2. CASE Periodic
  BY <1>2, ListingRecord, DeleteInterfaceRecord DEF Periodic
<1>3. CASE UNCHANGED vars
  BY <1>3 DEF vars, cluster, informer, threads, bounds, RecordInv, SeenExisting, Known,
              PodExists, InApi, TickerGone, Deleting, GoneUid, KnownReleasable,
              Releasable, WiredRecorded, StaysOnRecord, Undisturbed, EpsReserved, Freed
<1>4. ~ \E w \in Workers : Worker(w)
  BY DEF CleansAlone
<1> QED BY <1>1, <1>2, <1>3, <1>4, InformerRecord, CrashRecord DEF Next

(* The thread frees addresses of dead containers only, so those of a live  *)
(* one are where CNI ADD left them.                                        *)
LEMMA ReservedWhileLive ==
  ASSUME IInv, TickerInv, RecordInv, Undisturbed
  PROVE  LiveAddressReserved
<1> SUFFICES ASSUME NEW e \in wired, NEW ip \in IPs(e) PROVE owner[ip] = e
  BY DEF LiveAddressReserved
<1>1. owner[ip] = e \/ Freed(e, ip)
  BY DEF RecordInv, WiredRecorded, EpsReserved
<1>2. ~Freed(e, ip)
  BY TickerSafe DEF Freed, TickerNoLiveTarget, Deleting
<1> QED BY <1>1, <1>2

-----------------------------------------------------------------------------
(* As long as nothing has failed, a live container has the addresses it    *)
(* was given, however often names are used again, phases flap and the      *)
(* addresses of the dead are handed out anew: between the judgement of     *)
(* cleanDanglingEps and the releases of DeleteDanmEp nobody else frees     *)
(* them (deleteInterface frees addresses, not reservations).               *)
THEOREM ReservedUntilDisturbed ==
  ASSUME CleansAlone
  PROVE  Spec => [](Undisturbed => LiveAddressReserved)
<1>1. Init => IInv /\ TickerInv /\ RecordInv
  BY InitIInv, InitLiveInv, InitRecordInv DEF LiveInv
<1>2. IInv /\ TickerInv /\ RecordInv /\ [Next]_vars => (IInv /\ TickerInv /\ RecordInv)'
  BY IInvStep, TickerStep, RecordStep DEF CleansAlone
<1>3. IInv /\ TickerInv /\ RecordInv => (Undisturbed => LiveAddressReserved)
  BY ReservedWhileLive
<1> QED BY <1>1, <1>2, <1>3, PTL DEF Spec

(* Where no call fails and no leader dies, live containers keep their      *)
(* addresses: those that deleteInterface frees are of Pods that left.      *)
THEOREM LiveKeepAddresses ==
  ASSUME CleansAlone, MaxErrors = 0, MaxCrashes = 0
  PROVE  Spec => []LiveAddressReserved
<1>1. TypeOK => Undisturbed
  BY DEF TypeOK, Undisturbed
<1>2. (Undisturbed => LiveAddressReserved) /\ TypeOK => LiveAddressReserved
  BY <1>1
<1> QED BY <1>2, ReservedUntilDisturbed, TypeCorrect, PTL
=============================================================================
