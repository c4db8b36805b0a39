--------------------------- MODULE ShowAllocProofs ---------------------------
(***************************************************************************)
(* Proofs about ShowAlloc: its listing is the map it read, for every size  *)
(* of a CIDR, and names the Pods of the DanmEps that stayed.               *)
(***************************************************************************)
EXTENDS ShowAlloc, TLAPS

-----------------------------------------------------------------------------
(* Arithmetic.                                                             *)

LEMMA Division ==
  ASSUME NEW a \in Int, NEW b \in Nat \ {0}
  PROVE  /\ a \div b \in Int
         /\ a % b \in 0 .. b - 1
         /\ a = b * (a \div b) + (a % b)
  OBVIOUS

LEMMA Quotient ==
  ASSUME NEW b \in Nat \ {0}, NEW q \in Int, NEW r \in 0 .. b - 1
  PROVE  /\ (b * q + r) \div b = q
         /\ (b * q + r) % b = r
  OBVIOUS

(* A block of numbers whose size divides low does not wrap around at low.  *)
LEMMA Block ==
  ASSUME NEW low \in Nat \ {0}, NEW size \in 2 .. low, low % size = 0, NEW ip \in Nat
  PROVE  /\ ip - (ip % size) = size * (ip \div size)
         /\ ip - (ip % size) \in Nat
         /\ ((ip - (ip % size)) % low) + size <= low
<1>1. PICK q \in Nat : q = ip \div size /\ ip - (ip % size) = size * q
  <2>1. /\ ip \div size \in Int
        /\ ip = size * (ip \div size) + (ip % size) /\ ip % size \in 0 .. size - 1
    BY Division
  <2>2. ip \div size >= 0
    OBVIOUS
  <2>3. ip - (ip % size) = size * (ip \div size)
    BY <2>1
  <2> QED BY <2>1, <2>2, <2>3
<1>2. PICK k \in Nat \ {0} : low = size * k
  <2>1. low \div size \in Int /\ low = size * (low \div size)
    BY Division
  <2>2. low \div size > 0
    OBVIOUS
  <2>3. low \div size \in Nat \ {0}
    BY <2>1, <2>2
  <2> QED BY <2>1, <2>3
<1>3. PICK m \in Int, r \in 0 .. k - 1 : q = k * m + r
  <2>1. q \div k \in Int /\ q % k \in 0 .. k - 1 /\ q = k * (q \div k) + (q % k)
    BY Division
  <2> QED BY <2>1
<1>4. size * q = low * m + size * r
  <2>1. size * (k * m + r) = (size * k) * m + size * r
    OBVIOUS
  <2> QED BY <1>2, <1>3, <2>1
<1>5. size * r \in Nat /\ size * r + size <= low
  <2>1. r + 1 <= k
    OBVIOUS
  <2>2. size * (r + 1) <= size * k /\ size * (r + 1) = size * r + size
    BY <2>1
  <2>3. size * r \in Nat
    OBVIOUS
  <2> QED BY <1>2, <2>2, <2>3
<1>6. (size * q) % low = size * r
  <2>1. size * r \in 0 .. low - 1
    BY <1>5
  <2> QED BY <1>4, <2>1, Quotient
<1>7. size * q \in Nat
  OBVIOUS
<1> QED BY <1>1, <1>5, <1>6, <1>7

-----------------------------------------------------------------------------
(* Bits and addresses.                                                     *)

LEMMA CidrBlock ==
  ASSUME NEW pool, PoolIsValid(pool)
  PROVE  /\ pool.size \in Nat /\ 2 <= pool.size
         /\ FirstIP(pool) \in Nat
         /\ Inside(pool) = FirstIP(pool) .. FirstIP(pool) + pool.size - 1
         /\ (FirstIP(pool) % Low) + pool.size <= Low
         /\ FirstIP(pool) = pool.size * (pool.ip \div pool.size)
<1>1. /\ Low \in Nat \ {0} /\ pool.size \in 2 .. Low
      /\ Low % pool.size = 0 /\ pool.ip \in Nat
  BY LowAssumption DEF PoolIsValid
<1>2. /\ FirstIP(pool) = pool.size * (pool.ip \div pool.size)
      /\ FirstIP(pool) \in Nat
      /\ (FirstIP(pool) % Low) + pool.size <= Low
  BY <1>1, Block DEF FirstIP
<1>3. pool.size * (pool.ip \div pool.size) = (pool.ip \div pool.size) * pool.size
  <2>1. pool.ip \in Int /\ pool.size \in Nat \ {0}
    BY <1>1
  <2>2. pool.ip \div pool.size \in Int
    BY <2>1, Division
  <2> QED BY <2>1, <2>2
<1> QED BY <1>1, <1>2, <1>3 DEF Inside

(* What addIP and diffIP make of an offset and of an address in the CIDR.  *)
LEMMA Offsets ==
  ASSUME NEW pool, PoolIsValid(pool), NEW i \in 0 .. pool.size - 1
  PROVE  /\ addIP(FirstIP(pool), i) = FirstIP(pool) + i
         /\ diffIP(FirstIP(pool), FirstIP(pool) + i) = i
         /\ (FirstIP(pool) + i) % pool.size = i
<1> DEFINE first == FirstIP(pool)
<1>1. /\ Low \in Nat \ {0} /\ pool.size \in Nat /\ 2 <= pool.size /\ first \in Nat
      /\ (first % Low) + pool.size <= Low
  BY LowAssumption, CidrBlock
<1>2. PICK q \in Int, r \in 0 .. Low - 1 : first = Low * q + r /\ first % Low = r
  <2>1. first \in Int
    BY <1>1
  <2>2. /\ first \div Low \in Int /\ first % Low \in 0 .. Low - 1
        /\ first = Low * (first \div Low) + (first % Low)
    BY <1>1, <2>1, Division
  <2> QED BY <2>2
<1>3. r + i \in 0 .. Low - 1 /\ i \in 0 .. Low - 1
  BY <1>1, <1>2
<1>4. first + i = Low * q + (r + i)
  BY <1>1, <1>2, <1>3
<1>5. (first + i) % Low = r + i
  BY <1>1, <1>2, <1>3, <1>4, Quotient
<1>6. (r + i) % Low = r + i /\ i % Low = i
  BY <1>1, <1>3
<1>7. addIP(first, i) = first + i
  BY <1>1, <1>2, <1>3, <1>6 DEF addIP
<1>8. diffIP(first, first + i) = i
  BY <1>1, <1>2, <1>3, <1>5, <1>6 DEF diffIP
<1>9. (first + i) % pool.size = i
  <2>1. pool.ip \in Int /\ pool.size \in Nat \ {0}
    BY <1>1 DEF PoolIsValid
  <2>2. pool.ip \div pool.size \in Int
    BY <2>1, Division
  <2>3. first = pool.size * (pool.ip \div pool.size)
    BY CidrBlock
  <2> HIDE DEF first
  <2> QED BY <2>1, <2>2, <2>3, Quotient
<1> QED BY <1>7, <1>8, <1>9

LEMMA AddressOffset ==
  ASSUME NEW pool, PoolIsValid(pool), NEW ip \in Inside(pool)
  PROVE  /\ ip \in Nat
         /\ ip - FirstIP(pool) \in 0 .. pool.size - 1
         /\ addIP(FirstIP(pool), ip - FirstIP(pool)) = ip
         /\ diffIP(FirstIP(pool), ip) = ip - FirstIP(pool)
         /\ ip % pool.size = ip - FirstIP(pool)
<1>1. /\ FirstIP(pool) \in Nat /\ pool.size \in Nat
      /\ Inside(pool) = FirstIP(pool) .. FirstIP(pool) + pool.size - 1
  BY CidrBlock
<1>2. PICK i \in 0 .. pool.size - 1 : ip = FirstIP(pool) + i
  <2>1. ip - FirstIP(pool) \in 0 .. pool.size - 1
          /\ ip = FirstIP(pool) + (ip - FirstIP(pool))
    BY <1>1
  <2> QED BY <2>1
<1>3. ip - FirstIP(pool) = i /\ ip \in Nat
  BY <1>1, <1>2
<1> QED BY <1>2, <1>3, Offsets

-----------------------------------------------------------------------------
(* The listing.                                                            *)

pool == net.pools[request.family]

(* The bits are those of the addresses that were reserved.                 *)
BitsOfReserved ==
  /\ reserved \subseteq Usable(pool)
  /\ ba = {ip - FirstIP(pool) : ip \in reserved}

LEMMA StatusIsExpected ==
  ASSUME PoolIsValid(pool), BitsOfReserved, NEW ip \in Inside(pool)
  PROVE  Status(ip - FirstIP(pool), pool) = Expected(ip, pool)
<1> DEFINE first == FirstIP(pool)
           i == ip - first
<1>1. /\ first \in Nat /\ ip \in Nat /\ pool.size \in Nat /\ ip % pool.size = i
  BY AddressOffset, CidrBlock
<1>2. /\ pool.start \in Nat /\ pool.end \in Nat
      /\ diffIP(first, pool.start) = pool.start - first
      /\ diffIP(first, pool.end) = pool.end - first
  BY AddressOffset DEF PoolIsValid
<1>3. i \in ba <=> ip \in reserved
  <2>1. reserved \subseteq Nat
    BY AddressOffset DEF BitsOfReserved, Usable
  <2>2. ba = {a - first : a \in reserved}
    BY DEF BitsOfReserved
  <2>3. ASSUME NEW a \in reserved, ip - first = a - first PROVE ip = a
    BY <1>1, <2>1, <2>3
  <2> QED BY <2>2, <2>3
<1>4. /\ i < diffIP(first, pool.start) <=> ip < pool.start
      /\ i > diffIP(first, pool.end) <=> ip > pool.end
  BY <1>1, <1>2
<1> QED BY <1>1, <1>3, <1>4 DEF Status, Expected

LEMMA LinesAreTheMap ==
  ASSUME PoolIsValid(pool), BitsOfReserved, NEW podOf
  PROVE  /\ \A l \in Lines(podOf) : l.ip \in Inside(pool) /\ l.status = Expected(l.ip, pool)
         /\ \A l, m \in Lines(podOf) : l.ip = m.ip => l = m
         /\ \A ip \in Inside(pool) :
              (\E l \in Lines(podOf) : l.ip = ip)
                <=> ip \in request.sub /\ (request.all \/ Expected(ip, pool) \notin Suppressed)
         /\ \A l \in Lines(podOf) :
              l.status = "allocated" /\ l.ip \in DOMAIN podOf => l.pod = podOf[l.ip]
<1> DEFINE first == FirstIP(pool)
           IP(i) == addIP(first, i)
           Bit == 0 .. pool.size - 1
           Printed(i) == IP(i) \in request.sub /\ (request.all \/ Status(i, pool) \notin Suppressed)
           Pod(i) ==
             IF Status(i, pool) = "allocated" /\ IP(i) \in DOMAIN podOf THEN podOf[IP(i)] ELSE None
           Line(i) == [ip |-> IP(i), status |-> Status(i, pool), pod |-> Pod(i)]
<1>1. Lines(podOf) = {Line(i) : i \in {i \in Bit : Printed(i)}}
  BY DEF Lines, pool
<1>2. ASSUME NEW i \in Bit
      PROVE  IP(i) = first + i /\ IP(i) \in Inside(pool) /\ IP(i) - first = i
             /\ Status(i, pool) = Expected(IP(i), pool)
  <2>1. first \in Nat /\ pool.size \in Nat /\ Inside(pool) = first .. first + pool.size - 1
    BY CidrBlock
  <2>2. IP(i) = first + i
    BY Offsets
  <2>3. IP(i) \in Inside(pool) /\ IP(i) - first = i
    BY <2>1, <2>2
  <2>4. Status(IP(i) - first, pool) = Expected(IP(i), pool)
    BY <2>3, StatusIsExpected
  <2> QED BY <2>2, <2>3, <2>4
<1>3. ASSUME NEW ip \in Inside(pool)
      PROVE  \E i \in Bit : IP(i) = ip
  <2>1. ip - first \in Bit /\ IP(ip - first) = ip
    BY AddressOffset
  <2> QED BY <2>1
<1> HIDE DEF IP, Bit, Pod, first
<1>4. \A l \in Lines(podOf) : l.ip \in Inside(pool) /\ l.status = Expected(l.ip, pool)
  BY <1>1, <1>2
<1>5. \A l, m \in Lines(podOf) : l.ip = m.ip => l = m
  <2> SUFFICES ASSUME NEW i \in Bit, NEW j \in Bit, Line(i).ip = Line(j).ip
               PROVE  Line(i) = Line(j)
    BY <1>1
  <2>1. i = j
    BY <1>2
  <2> QED BY <2>1
<1>6. \A ip \in Inside(pool) :
        (\E l \in Lines(podOf) : l.ip = ip)
          <=> ip \in request.sub /\ (request.all \/ Expected(ip, pool) \notin Suppressed)
  <2> TAKE ip \in Inside(pool)
  <2>1. PICK i \in Bit : IP(i) = ip
    BY <1>3
  <2>2. Printed(i) <=> ip \in request.sub /\ (request.all \/ Expected(ip, pool) \notin Suppressed)
    BY <1>2, <2>1
  <2>3. ASSUME Printed(i) PROVE \E l \in Lines(podOf) : l.ip = ip
    <3>1. Line(i) \in Lines(podOf) /\ Line(i).ip = ip
      BY <1>1, <2>1, <2>3
    <3> QED BY <3>1
  <2>4. ASSUME NEW l \in Lines(podOf), l.ip = ip PROVE Printed(i)
    <3>1. PICK j \in Bit : Printed(j) /\ l = Line(j)
      BY <1>1
    <3>2. j = i
      BY <1>2, <2>1, <2>4, <3>1
    <3> QED BY <3>1, <3>2
  <2> QED BY <2>2, <2>3, <2>4
<1>7. \A l \in Lines(podOf) :
        l.status = "allocated" /\ l.ip \in DOMAIN podOf => l.pod = podOf[l.ip]
  BY <1>1 DEF Pod
<1> QED BY <1>4, <1>5, <1>6, <1>7

-----------------------------------------------------------------------------
(* The invariant.                                                          *)

(* Only addresses that are there can be held.                              *)
HeldReal == \A e \in Endpoints, f \in Families : <<e, f>> \in held => e.addr[f] # None

(* While the DanmEps are awaited the bits are those of the addresses that  *)
(* were reserved, and whoever has stayed since holds one of those.         *)
Snapshot ==
  step = "listing" =>
    /\ BitsOfReserved
    /\ \A e \in steady : /\ e.net = net /\ <<e, request.family>> \in held
                         /\ e.addr[request.family] \in reserved

IInv == TypeOK /\ HeldReal /\ Snapshot /\ ExactMap

LEMMA InitIInv == Init => IInv
BY DEF Init, IInv, TypeOK, HeldReal, Snapshot, ExactMap

LEMMA PoolValid ==
  ASSUME TypeOK, step \in {"listing", "done"}
  PROVE  PoolIsValid(pool) /\ request.family \in Families
BY NetworksAssumption, RequestsAssumption DEF TypeOK, pool

(* CNI ADD and DEL and the Cleaner leave what showalloc has read alone.    *)
LEMMA ClusterIInv == ASSUME IInv, Cluster PROVE IInv'
<1>1. PICK e \in Endpoints :
        \/ Reserve(e) \/ Record(e) \/ Forget(e)
        \/ \E f \in Families : Release(e, f)
  BY DEF Cluster
<1>2. /\ step \in {"start", "listing"}
      /\ UNCHANGED <<step, request, net, ba, header, listing, reserved>>
  BY DEF Cluster, command
<1>3. /\ held' \subseteq Endpoints \X Families /\ deps' \subseteq Endpoints
      /\ steady' \subseteq steady /\ steady' \subseteq Endpoints
      /\ HeldReal'
      /\ \A o \in steady', f \in Families : <<o, f>> \in held => <<o, f>> \in held'
  <2> USE DEF IInv, TypeOK, HeldReal
  <2>1. CASE Reserve(e)
    BY <2>1 DEF Reserve
  <2>2. CASE Record(e)
    BY <2>2 DEF Record
  <2>3. CASE Forget(e)
    BY <2>3 DEF Forget
  <2>4. ASSUME NEW f \in Families, Release(e, f)
        PROVE  /\ held' = held \ {<<e, f>>} /\ steady' = steady \ {e} /\ deps' = deps
    BY <2>4 DEF Release
  <2> QED BY <1>1, <2>1, <2>2, <2>3, <2>4
<1>4. TypeOK'
  BY <1>2, <1>3 DEF IInv, TypeOK
<1>5. Snapshot'
  <2> SUFFICES ASSUME step = "listing" PROVE Snapshot'
    BY <1>2 DEF Snapshot
  <2>1. request.family \in Families
    BY PoolValid DEF IInv
  <2> QED BY <1>2, <1>3, <2>1 DEF IInv, Snapshot, BitsOfReserved, pool
<1>6. ExactMap'
  BY <1>2 DEF ExactMap
<1> QED BY <1>3, <1>4, <1>5, <1>6 DEF IInv

(* The network has no details of the family: the header is all there is.   *)
LEMMA NoDetailsIInv ==
  ASSUME IInv, GetNetwork, step' # "listing"
  PROVE  IInv'
<1>1. PICK r \in Requests, n \in Networks :
        request' = r /\ net' = n /\ header' = Header(n, r.family)
  BY DEF GetNetwork
<1>2. /\ step = "start" /\ step' = "fatal"
      /\ UNCHANGED <<held, deps, ba, listing, reserved, steady>>
  BY DEF GetNetwork, cluster
<1>3. TypeOK'
  BY <1>1, <1>2 DEF IInv, TypeOK
<1> QED BY <1>2, <1>3 DEF IInv, HeldReal, Snapshot, ExactMap

LEMMA DetailsIInv ==
  ASSUME IInv, GetNetwork, step' = "listing"
  PROVE  IInv'
<1>1. PICK r \in Requests, n \in Networks :
        /\ n.pools[r.family] # None
        /\ request' = r /\ net' = n
        /\ header' = Header(n, r.family)
        /\ ba' = Bits(n, r.family)
        /\ steady' = {e \in Endpoints : e.net = n /\ <<e, r.family>> \in held}
        /\ reserved' = {e.addr[r.family] :
                          e \in {e \in Endpoints : e.net = n /\ <<e, r.family>> \in held}}
  BY DEF GetNetwork, Details
<1>2. /\ step = "start" /\ step' = "listing"
      /\ UNCHANGED <<held, deps, listing>>
  BY DEF GetNetwork, cluster
<1> DEFINE p == n.pools[r.family]
           Holders == {e \in Endpoints : e.net = n /\ <<e, r.family>> \in held}
<1>3. PoolIsValid(p) /\ r.family \in Families /\ pool' = p
  BY <1>1, NetworksAssumption, RequestsAssumption DEF pool
<1>4. \A e \in Holders : e.addr[r.family] \in Usable(p)
  BY <1>1, <1>3, EndpointsAssumption DEF IInv, HeldReal
<1>5. \A ip \in Usable(p) :
        /\ ip \in Nat
        /\ diffIP(FirstIP(p), ip) = ip - FirstIP(p)
        /\ ip - FirstIP(p) \in 0 .. p.size - 1
  BY <1>3, AddressOffset DEF Usable
<1>6. reserved' \subseteq Usable(p) /\ reserved' = {e.addr[r.family] : e \in Holders}
  BY <1>1, <1>4
<1>7. ba' = {ip - FirstIP(p) : ip \in reserved'}
  <2>1. ba' = {diffIP(FirstIP(p), e.addr[r.family]) : e \in Holders}
    BY <1>1 DEF Bits
  <2>2. \A e \in Holders : diffIP(FirstIP(p), e.addr[r.family]) = e.addr[r.family] - FirstIP(p)
    BY <1>4, <1>5
  <2> HIDE DEF Holders, p
  <2> QED BY <1>6, <2>1, <2>2
<1>8. ba' \subseteq 0 .. p.size - 1 /\ reserved' \subseteq Nat
  BY <1>5, <1>6, <1>7
<1>9. TypeOK'
  BY <1>1, <1>2, <1>8 DEF IInv, TypeOK
<1>10. Snapshot'
  BY <1>1, <1>2, <1>3, <1>6, <1>7 DEF Snapshot, BitsOfReserved
<1>11. HeldReal' /\ ExactMap'
  BY <1>2 DEF IInv, HeldReal, ExactMap
<1> QED BY <1>9, <1>10, <1>11 DEF IInv

LEMMA GetNetworkIInv == ASSUME IInv, GetNetwork PROVE IInv'
BY DetailsIInv, NoDetailsIInv

(* What List prints, of the addresses that were reserved.                  *)
LEMMA ListPrints ==
  ASSUME IInv, List
  PROVE  /\ step = "listing" /\ step' = "done" /\ PoolIsValid(pool) /\ BitsOfReserved
         /\ UNCHANGED <<held, deps, request, net, ba, header, reserved, steady>>
         /\ \E podOf :
              /\ listing' = Lines(podOf)
              /\ DOMAIN podOf =
                   {ip \in Inside(pool) :
                      \E e \in deps : e.ns = request.ns /\ e.addr[request.family] = ip}
              /\ \A ip \in DOMAIN podOf :
                   podOf[ip] \in {e.pod : e \in {e \in deps : /\ e.ns = request.ns
                                                           /\ e.addr[request.family] = ip}}
<1>1. step = "listing" /\ step' = "done"
  BY DEF List
<1>2. PoolIsValid(pool) /\ BitsOfReserved
  BY <1>1, PoolValid DEF IInv, Snapshot
<1>3. UNCHANGED <<held, deps, request, net, ba, header, reserved, steady>>
  BY DEF List, cluster
<1> DEFINE f == request.family
           epList == {e \in deps : e.ns = request.ns}
           carried == {ip \in Inside(pool) : findEpByIP(epList, ip, f) # {}}
<1>4. PICK podOf \in [carried -> {e.pod : e \in epList}] :
        /\ \A ip \in carried : podOf[ip] \in {e.pod : e \in findEpByIP(epList, ip, f)}
        /\ listing' = Lines(podOf)
  BY DEF List, pool
<1>5. \A ip : findEpByIP(epList, ip, f) = {e \in deps : e.ns = request.ns /\ e.addr[f] = ip}
  BY DEF findEpByIP
<1>6. DOMAIN podOf = {ip \in Inside(pool) : \E e \in deps : e.ns = request.ns /\ e.addr[f] = ip}
  BY <1>4, <1>5
<1>7. \A ip \in DOMAIN podOf :
        podOf[ip] \in {e.pod : e \in {e \in deps : e.ns = request.ns /\ e.addr[f] = ip}}
  <2> TAKE ip \in DOMAIN podOf
  <2>1. podOf[ip] \in {e.pod : e \in findEpByIP(epList, ip, f)}
    BY <1>4
  <2> QED BY <1>5, <2>1
<1> HIDE DEF epList, carried
<1> QED BY <1>1, <1>2, <1>3, <1>4, <1>6, <1>7

LEMMA ListIInv == ASSUME IInv, List PROVE IInv'
<1>1. /\ step' = "done" /\ PoolIsValid(pool) /\ BitsOfReserved /\ pool' = pool
      /\ UNCHANGED <<held, deps, request, net, ba, header, reserved, steady>>
  BY ListPrints DEF pool
<1>2. PICK podOf : listing' = Lines(podOf)
  BY ListPrints
<1>3. /\ \A l \in listing' : l.ip \in Inside(pool) /\ l.status = Expected(l.ip, pool)
      /\ \A l, m \in listing' : l.ip = m.ip => l = m
      /\ \A ip \in Inside(pool) :
           (\E l \in listing' : l.ip = ip)
             <=> ip \in request.sub /\ (request.all \/ Expected(ip, pool) \notin Suppressed)
  BY <1>1, <1>2, LinesAreTheMap
<1>4. \A ip : Expected(ip, pool) \in Statuses /\ Expected(ip, pool)' = Expected(ip, pool)
  BY <1>1 DEF Expected, Statuses
<1>5. TypeOK'
  BY <1>1, <1>3, <1>4, ListPrints DEF IInv, TypeOK, pool
<1>6. ExactMap'
  <2>1. {<<line.ip, line.status>> : line \in listing'} =
          {<<ip, Expected(ip, pool)>> :
             ip \in {ip \in Inside(pool) \intersect request.sub :
                       request.all \/ Expected(ip, pool) \notin Suppressed}}
    BY <1>3
  <2>2. request' = request /\ net' = net /\ reserved' = reserved
    BY <1>1
  <2> HIDE DEF pool
  <2>3. /\ \A l, m \in listing' : l.ip = m.ip => l = m
        /\ {<<line.ip, line.status>> : line \in listing'} =
             {<<ip, Expected(ip, pool)>> :
                ip \in {ip \in Inside(pool) \intersect request'.sub :
                          request'.all \/ Expected(ip, pool) \notin Suppressed}}
    BY <1>3, <2>1, <2>2
  <2> QED BY <2>2, <2>3 DEF ExactMap, pool, Expected
<1>7. HeldReal' /\ Snapshot'
  BY <1>1 DEF IInv, HeldReal, Snapshot
<1> QED BY <1>5, <1>6, <1>7 DEF IInv

LEMMA NextIInv == ASSUME IInv, [Next]_vars PROVE IInv'
<1>1. CASE Cluster
  BY <1>1, ClusterIInv
<1>2. CASE GetNetwork
  BY <1>2, GetNetworkIInv
<1>3. CASE List
  BY <1>3, ListIInv
<1>4. CASE Fatal
  BY <1>4 DEF Fatal, IInv, TypeOK, HeldReal, Snapshot, ExactMap, cluster
<1>5. CASE UNCHANGED vars
  <2>1. UNCHANGED <<held, deps, step, request, net, ba, header, listing, reserved, steady>>
    BY <1>5 DEF vars, cluster, command
  <2>2. TypeOK' /\ HeldReal'
    BY <2>1 DEF IInv, TypeOK, HeldReal
  <2>3. Snapshot'
    BY <2>1 DEF IInv, Snapshot, BitsOfReserved, pool
  <2>4. ExactMap'
    BY <2>1 DEF IInv, ExactMap, Expected
  <2> QED BY <2>2, <2>3, <2>4 DEF IInv
<1> QED BY <1>1, <1>2, <1>3, <1>4, <1>5 DEF Next

(* The invariant holds of every state of showalloc and its cluster.        *)
THEOREM Invariance == Spec => []IInv
BY InitIInv, NextIInv, PTL DEF Spec

(* Types hold.  Wherever a command ends, the header it has printed is that *)
(* of the network it was asked for, and it prints the map of no network    *)
(* but one with details of the family, for addresses of that network only. *)
THEOREM TypeCorrect == Spec => []TypeOK
<1>1. IInv => TypeOK
  BY DEF IInv
<1> QED BY <1>1, Invariance, PTL

(* For every size of a CIDR, wherever it starts and however its address is *)
(* written, the listing is the map of the network as it was read.          *)
THEOREM MapExact == Spec => []ExactMap
<1>1. IInv => ExactMap
  BY DEF IInv
<1> QED BY <1>1, Invariance, PTL

-----------------------------------------------------------------------------
(* Who is on the listing.                                                  *)

(* Whatever comes and goes between the two reads, a DanmEp that stays is   *)
(* on the listing, with a Pod that has its address on record.              *)
THEOREM Named == Spec => HolderNamed
<1> DEFINE f == request.family
           OnListing(e) ==
             \E line \in listing' :
               /\ line.ip = e.addr[f] /\ line.status = "allocated"
               /\ line.pod \in {o.pod : o \in {o \in deps : /\ o.ns = request.ns
                                                          /\ o.addr[f] = e.addr[f]}}
<1>1. ASSUME IInv, List, NEW e \in steady \intersect deps,
             e.ns = request.ns, e.addr[f] \in request.sub
      PROVE  OnListing(e)
  <2> DEFINE ip == e.addr[f]
  <2>1. /\ PoolIsValid(pool) /\ BitsOfReserved /\ step = "listing"
    BY <1>1, ListPrints
  <2>2. ip \in reserved /\ ip \in Usable(pool)
    BY <1>1, <2>1 DEF IInv, Snapshot, BitsOfReserved
  <2>3. /\ ip \in Inside(pool) /\ pool.start <= ip /\ ip <= pool.end
        /\ ip % pool.size # 0 /\ ip % pool.size # pool.size - 1
    BY <2>2 DEF Usable
  <2>4. ip \in Nat /\ pool.start \in Nat /\ pool.end \in Nat
    BY <2>1, <2>3, AddressOffset DEF PoolIsValid
  <2>5. Expected(ip, pool) = "allocated" /\ Expected(ip, pool) \notin Suppressed
    BY <2>2, <2>3, <2>4 DEF Expected, Suppressed
  <2>6. PICK podOf :
          /\ listing' = Lines(podOf)
          /\ DOMAIN podOf =
               {a \in Inside(pool) : \E o \in deps : o.ns = request.ns /\ o.addr[f] = a}
          /\ \A a \in DOMAIN podOf :
               podOf[a] \in {o.pod : o \in {o \in deps : o.ns = request.ns /\ o.addr[f] = a}}
    BY <1>1, ListPrints
  <2>7. PICK line \in Lines(podOf) : line.ip = ip
    BY <1>1, <2>1, <2>3, <2>5, LinesAreTheMap
  <2>8. line.status = "allocated"
    BY <2>1, <2>5, <2>7, LinesAreTheMap
  <2>9. ip \in DOMAIN podOf
    BY <1>1, <2>3, <2>6
  <2>10. line.pod = podOf[ip]
    BY <2>1, <2>7, <2>8, <2>9, LinesAreTheMap
  <2>11. podOf[ip] \in {o.pod : o \in {o \in deps : o.ns = request.ns /\ o.addr[f] = ip}}
    BY <2>6, <2>9
  <2> HIDE DEF ip
  <2>12. line \in listing' /\ line.ip = ip
    BY <2>6, <2>7
  <2> QED BY <2>8, <2>10, <2>11, <2>12 DEF ip
<1>2. IInv /\ [Next]_vars => [List => EachIsListed]_vars
  BY <1>1 DEF EachIsListed
<1> QED BY <1>2, Invariance, PTL DEF Spec, HolderNamed
=============================================================================
