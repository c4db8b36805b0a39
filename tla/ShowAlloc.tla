------------------------------ MODULE ShowAlloc ------------------------------
(***************************************************************************)
(* showalloc (cmd/showalloc): a command that prints the allocation map of  *)
(* one DANM network.  It reads the network object, then lists the DanmEps  *)
(* of a namespace, and prints a line for each bit of the map, with the Pod *)
(* that the DanmEps name.  What it prints of the network as a whole comes  *)
(* first, before anything is judged.  Between its two reads, and between   *)
(* the steps of CNI ADD, CNI DEL and the Cleaner, the cluster goes on.     *)
(*                                                                         *)
(* An address is a number: its last four bytes, of which there are Low     *)
(* values, and what is before them.  The first Low numbers are IPv4        *)
(* addresses in their 16-byte form.                                        *)
(***************************************************************************)
EXTENDS Integers

CONSTANTS
  Low,          \* values of the last four bytes of an address, 2^32
  Networks,     \* the DanmNets, ClusterNetworks and TenantNetworks there are
  Endpoints,    \* DanmEps that come and go
  Requests,     \* command lines
  None          \* a value that is not given

Families == {"v4", "v6"}
Kinds == {"DanmNet", "ClusterNetwork", "TenantNetwork"}

(* Options of a network for one family: CIDR as written, and the pool.     *)
Inside(cidr) ==
  LET prefix == cidr.ip \div cidr.size
  IN  prefix * cidr.size .. prefix * cidr.size + cidr.size - 1

PoolIsValid(pool) ==
  /\ pool.ip \in Nat /\ pool.size \in 2 .. Low /\ Low % pool.size = 0
  /\ pool.start \in Inside(pool) /\ pool.end \in Inside(pool)
  /\ pool.start <= pool.end

Usable(pool) ==
  {ip \in Inside(pool) : /\ pool.start <= ip /\ ip <= pool.end
                         /\ ip % pool.size \notin {0, pool.size - 1}}

ASSUME LowAssumption == Low \in Nat \ {0}

(* DANM's webhook validates networks, and its IPAM hands out addresses of  *)
(* the pool; a DanmEp of a DanmNet or a TenantNetwork is in its namespace. *)
ASSUME NetworksAssumption ==
  \A n \in Networks :
    /\ n.kind \in Kinds
    /\ \A f \in Families : n.pools[f] = None \/ PoolIsValid(n.pools[f])

ASSUME EndpointsAssumption ==
  \A e \in Endpoints :
    /\ e.net \in Networks
    /\ e.net.kind # "ClusterNetwork" => e.ns = e.net.ns
    /\ \A f \in Families :
         e.addr[f] # None => e.net.pools[f] # None /\ e.addr[f] \in Usable(e.net.pools[f])

(* The name asked for of each kind, the namespace, the family, the         *)
(* addresses of the sub-CIDR (all of them if none was given), and the      *)
(* flag that shows what is free and what is out of the pool as well.       *)
ASSUME RequestsAssumption ==
  \A r \in Requests : r.family \in Families /\ r.sub \subseteq Nat /\ r.all \in BOOLEAN

VARIABLES
  held,         \* allocations: DanmEps, recorded or not, with the family
  deps,         \* the DanmEps on record
  step,         \* where showalloc is
  request,      \* its command line
  net,          \* the network it read
  ba,           \* the bits it read
  header,       \* what it printed of the network
  listing,      \* the lines it printed of the map
  reserved,     \* addresses allocated when the network was read (history)
  steady        \* DanmEps that have kept their address ever since (history)

cluster == <<held, deps>>
command == <<step, request, net, ba, header, listing>>
vars == <<cluster, command, reserved, steady>>

-----------------------------------------------------------------------------
(* Addresses.                                                              *)

(* Arithmetic on the last four bytes.                                      *)
addIP(ip, num) == (ip - (ip % Low)) + (((ip % Low) + num) % Low)
diffIP(ip1, ip2) == ((ip2 % Low) - (ip1 % Low)) % Low

(* Mutant: the address of the CIDR is taken as it is written.              *)
AsWritten(pool) == pool.ip

(* The first address of the CIDR.                                          *)
FirstIP(pool) == pool.ip - (pool.ip % pool.size)

(* The bits of a network's map, one for each address of the CIDR.          *)
Bits(n, f) ==
  {diffIP(FirstIP(n.pools[f]), e.addr[f]) : e \in {e \in Endpoints : e.net = n /\ <<e, f>> \in held}}

-----------------------------------------------------------------------------
(* The cluster: CNI ADD reserves addresses, then records the DanmEp; CNI   *)
(* DEL and the Cleaner free them one by one and drop the record last.      *)

Reserve(e) ==
  /\ e \notin deps
  /\ \A o \in Endpoints, f \in Families :
       <<o, f>> \in held => o # e /\ ~(o.net = e.net /\ o.addr[f] = e.addr[f])
  /\ held' = held \union {<<e, f>> : f \in {f \in Families : e.addr[f] # None}}
  /\ UNCHANGED <<deps, steady>>

Record(e) ==
  /\ e \notin deps
  /\ \E f \in Families : <<e, f>> \in held
  /\ deps' = deps \union {e}
  /\ UNCHANGED <<held, steady>>

Release(e, f) ==
  /\ e \in deps /\ <<e, f>> \in held
  /\ held' = held \ {<<e, f>>}
  /\ steady' = steady \ {e}
  /\ UNCHANGED deps

Forget(e) ==
  /\ e \in deps
  /\ \A f \in Families : <<e, f>> \notin held
  /\ deps' = deps \ {e}
  /\ UNCHANGED <<held, steady>>

(* What happens after the command has ended is not looked at.              *)
Cluster ==
  /\ step \in {"start", "listing"}
  /\ \E e \in Endpoints :
       \/ Reserve(e) \/ Record(e) \/ Forget(e)
       \/ \E f \in Families : Release(e, f)
  /\ UNCHANGED <<command, reserved>>

-----------------------------------------------------------------------------
(* The command.                                                            *)

(* A DanmNet is asked for before a ClusterNetwork, and that before a       *)
(* TenantNetwork; ClusterNetworks are in no namespace.                     *)
Before == [DanmNet |-> {}, ClusterNetwork |-> {"DanmNet"},
           TenantNetwork |-> {"DanmNet", "ClusterNetwork"}]

Requested(r, n) ==
  /\ r.name[n.kind] = n.name
  /\ \A kind \in Before[n.kind] : r.name[kind] = None
  /\ n.kind # "ClusterNetwork" => r.ns = n.ns

(* Mutant: details that are missing are not noticed.                       *)
AnyDetails(n, f) == TRUE

Details(n, f) == n.pools[f] # None

(* Kind, family, CIDR and pool, as the network has them.                   *)
Header(n, f) == [kind |-> n.kind, family |-> f, pool |-> n.pools[f]]

(* The header is out by the time the details are found to be missing.      *)
GetNetwork ==
  /\ step = "start"
  /\ \E r \in Requests, n \in Networks :
       /\ Requested(r, n)
       /\ request' = r /\ net' = n
       /\ header' = Header(n, r.family)
       /\ \/ /\ Details(n, r.family)
             /\ step' = "listing"
             /\ ba' = Bits(n, r.family)
             /\ steady' = {e \in Endpoints : e.net = n /\ <<e, r.family>> \in held}
             /\ reserved' = {e.addr[r.family] :
                               e \in {e \in Endpoints : e.net = n /\ <<e, r.family>> \in held}}
          \/ /\ ~Details(n, r.family)
             /\ step' = "fatal"
             /\ UNCHANGED <<ba, reserved, steady>>
  /\ UNCHANGED <<cluster, listing>>

(* Mutant: only the last four bytes are compared.                          *)
findEpByLastBytes(epList, ip, f) ==
  {ep \in epList : ep.addr[f] # None /\ ep.addr[f] % Low = ip % Low}

(* The DanmEps that carry an address; the first on the list is taken.      *)
findEpByIP(epList, ip, f) == {ep \in epList : ep.addr[f] = ip}

Suppressed == {"out of pool", "free"}

(* The status of a bit.                                                    *)
Status(i, pool) ==
  LET ip0 == FirstIP(pool)
  IN  IF i = 0 THEN "base"
      ELSE IF i = pool.size - 1 THEN "broadcast"
      ELSE IF i < diffIP(ip0, pool.start) \/ i > diffIP(ip0, pool.end) THEN "out of pool"
      ELSE IF i \in ba THEN "allocated"
      ELSE "free"

(* The lines of the loop, given the Pod of each address a DanmEp carries.  *)
Lines(podOf) ==
  LET pool == net.pools[request.family]
      IP(i) == addIP(FirstIP(pool), i)
      Printed(i) ==
        IP(i) \in request.sub /\ (request.all \/ Status(i, pool) \notin Suppressed)
      Pod(i) ==
        IF Status(i, pool) = "allocated" /\ IP(i) \in DOMAIN podOf THEN podOf[IP(i)] ELSE None
  IN  {[ip |-> IP(i), status |-> Status(i, pool), pod |-> Pod(i)] :
         i \in {i \in 0 .. pool.size - 1 : Printed(i)}}

(* The DanmEps of the namespace, whatever their network, in any order, so  *)
(* that any of those that share an address may come first.  From there on  *)
(* no call fails and no check is left: the loop prints all its lines.      *)
List ==
  /\ step = "listing"
  /\ LET f == request.family
         epList == {e \in deps : e.ns = request.ns}
         carried == {ip \in Inside(net.pools[f]) : findEpByIP(epList, ip, f) # {}}
     IN  \E podOf \in [carried -> {e.pod : e \in epList}] :
           /\ \A ip \in carried : podOf[ip] \in {e.pod : e \in findEpByIP(epList, ip, f)}
           /\ listing' = Lines(podOf)
  /\ step' = "done"
  /\ UNCHANGED <<cluster, request, net, ba, header, reserved, steady>>

(* A call fails, or there is no network of that name.                      *)
Fatal ==
  /\ step \in {"start", "listing"}
  /\ step' = "fatal"
  /\ UNCHANGED <<cluster, request, net, ba, header, listing, reserved, steady>>

Init ==
  /\ held = {} /\ deps = {}
  /\ step = "start"
  /\ request = None /\ net = None /\ ba = {} /\ header = None /\ listing = {}
  /\ reserved = {} /\ steady = {}

Next ==
  \/ Cluster
  \/ GetNetwork
  \/ List
  \/ Fatal

Spec == Init /\ [][Next]_vars

-----------------------------------------------------------------------------
(* Properties.                                                             *)

Statuses == {"base", "broadcast", "out of pool", "allocated", "free"}

(* The variables have their types.  The header is that of the network that *)
(* was read for the request, and is printed as soon as there is one, also  *)
(* by a command that then ends fatally.  The list of DanmEps is awaited,   *)
(* and the map printed, only with the details of the family at hand, and   *)
(* the lines of the map are of addresses of the network.                   *)
TypeOK ==
  /\ held \subseteq Endpoints \X Families /\ deps \subseteq Endpoints
  /\ step \in {"start", "listing", "done", "fatal"}
  /\ \/ step \in {"start", "fatal"} /\ net = None /\ header = None
     \/ /\ step # "start" /\ request \in Requests /\ net \in Networks
        /\ header = Header(net, request.family)
  /\ step \in {"listing", "done"} =>
       /\ request \in Requests /\ net \in Networks
       /\ net.pools[request.family] # None
       /\ ba \subseteq 0 .. net.pools[request.family].size - 1
  /\ step # "done" => listing = {}
  /\ step = "done" =>
       \A line \in listing : /\ line.ip \in Inside(net.pools[request.family])
                              /\ line.status \in Statuses
  /\ reserved \subseteq Nat /\ steady \subseteq Endpoints

(* What an address is, said of addresses instead of bits.                  *)
Expected(ip, pool) ==
  IF ip % pool.size = 0 THEN "base"
  ELSE IF ip % pool.size = pool.size - 1 THEN "broadcast"
  ELSE IF ip < pool.start \/ ip > pool.end THEN "out of pool"
  ELSE IF ip \in reserved THEN "allocated"
  ELSE "free"

(* The listing is the map of the network as it was read (README.md,        *)
(* "Showalloc"): every address of the CIDR that was asked for, once, with  *)
(* what it is; the code gets there by sums and differences of last bytes,  *)
(* which the reference does without.                                       *)
ExactMap ==
  step = "done" =>
    LET pool == net.pools[request.family]
    IN  /\ \A l, m \in listing : l.ip = m.ip => l = m
        /\ {<<line.ip, line.status>> : line \in listing} =
             {<<ip, Expected(ip, pool)>> :
                ip \in {ip \in Inside(pool) \intersect request.sub :
                          request.all \/ Expected(ip, pool) \notin Suppressed}}

(* Each DanmEp of the namespace that has kept its address and is on record *)
(* is on the listing.                                                      *)
EachIsListed ==
  LET f == request.family
  IN  \A e \in steady \intersect deps :
        e.ns = request.ns /\ e.addr[f] \in request.sub =>
          \E line \in listing' :
            /\ line.ip = e.addr[f] /\ line.status = "allocated"
            /\ line.pod \in {o.pod : o \in {o \in deps : /\ o.ns = request.ns
                                                       /\ o.addr[f] = e.addr[f]}}

(* A DanmEp of the namespace that kept its address from the first read     *)
(* until the second, and is on record by then, is on the listing, whatever *)
(* else came and went: its address is allocated, to a Pod that has it on   *)
(* record, which is its own Pod unless another DanmEp of the namespace     *)
(* carries the same address.                                               *)
HolderNamed == [][List => EachIsListed]_vars
=============================================================================
