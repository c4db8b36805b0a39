# A TLA+ model of danm-utils

danm-utils is a set of optional controllers around the DANM CNI platform: the
**Cleaner**, which frees the IP allocations of Pods that are gone, the
**Policer**, which turns DanmNetworkPolicies into iptables rules inside the
network namespaces of Pods, and **showalloc**, a command that prints allocation
maps. This directory holds TLA+ modules that model them, TLC configurations
that check the modules on small instances, and TLAPS proofs of what the checks
show, for every value of the constants.

## Inventory

| component | source | state it keeps | operations | model |
|---|---|---|---|---|
| Cleaner | `pkg/cleaner` | Pod cache of the informer, `Initialized`, work queue, per thread: DanmEps listed and not handled, the one being deleted, `podCache` | `Initialize`, `updatePod`, `delPod`, `processNextWorkItem`, `handleKey`, `cleanupOnTick`, `cleanDanglingEps`, `deleteInterface` | `Cleaner` |
| release services | `pkg/danmep` | none; changes allocation bits and DanmEps | `SelectReleaseIpServiceImplementation`, `IsIPAllocatedByMe`, `ReleaseIP`, `DeleteDanmEp` | `ReleaseService`, `Cleaner` |
| Cleaner main | `cmd/cleaner` | lease of the leader | leader election, start, exit when the lease is lost | `Crash` of `Cleaner` (partly) |
| Policer controller | `pkg/polctrl` | Pod and policy caches, stop channel | `NewNetPolControl`, `AddPod`, `UpdatePod`, `WatchErrorHandler` | `Policer` |
| policy, DanmEp and rule sets | `pkg/polset`, `pkg/depset`, `pkg/netruleset` | none, pure | which policies select a Pod, which DanmEps a peer selects, which rules follow | `PolicySelection` |
| iptables provisioner | `pkg/provisioner/iptables` | filter tables of a Pod's network namespace | `AddRulesToNewPod`: chains, jumps, dynamic and default rules | `Provisioner` |
| showalloc | `cmd/showalloc` | the network, its bits and the DanmEps it read | two reads, address arithmetic, classification of bits | `ShowAlloc` |
| Policer main | `cmd/policer` | stop channel | start, exit | `Init`, `StartOver` of `Policer` (partly) |
| API client | `crd` | generated code; the policy types | | types only |
| packaging | `scm`, `integration`, `hack`, `*.sh` | none | | not modelled |

### How the components interact

The Cleaner shares nothing with the Policer but the API server. Inside the
Cleaner, one informer goroutine delivers Pod events to `updatePod` and
`delPod`, which add keys to the work queue; ten event handler goroutines take
keys from it; one periodic goroutine wakes every ten seconds. Both kinds end in
`deleteInterface`, which sleeps a second, re-reads the DanmEp, and calls
`DeleteDanmEp` with the copy it had before it slept. Outside, kubelets run
DANM's CNI plugin, which reserves the same addresses and records and deletes
the same DanmEps, with no lock between the two: the allocation map is a bit
array of the network object in which nobody's name stands.

Each node has a Policer. Its Pod informer calls `AddPod` and `UpdatePod` one
event at a time; `AddPod` lists policies, then DanmEps, up to five times half a
second apart, and starts a goroutine that enters the network namespace of the
Pod and runs one `iptables` command after the other. Nothing is remembered
between Pods: the filter tables are the only state, and a Policer that starts
again writes into the tables its predecessor left. A watch that breaks ends it:
the handler of the broken watch sends one value on the channel that several
goroutines wait on, sleeps five seconds and exits; which of the goroutines stops
at once, and which go on till then, is up to the scheduler.

showalloc is a command somebody runs by hand. It reads a network object, then
the DanmEps of one namespace, and joins the two; CNI plugins and the Cleaner
change both meanwhile.

### What is hard in it

* *A judgement about the past is carried out in the future.* Between the moment
  a DanmEp is found to be dangling and the moment its addresses are freed lie a
  second of sleep and three calls. The Pod may be back by then, or the address
  may be someone else's.
* *Two views of the cluster.* DanmEps are listed from the API server, Pods are
  looked up in a cache that lags behind it, or is empty.
* *Cleanup in parts.* Two releases and one deletion, each of which can fail, or
  be the last thing the leader does.
* *Two cleaners of one thing.* The event handler threads, the periodic thread
  and CNI DEL may all be cleaning the same DanmEp.
* *Things nobody repeats.* A failed work item is not queued again, an event
  that found no leader is not delivered again; only the periodic thread makes up
  for it, and only if nothing stops it.
* *A table written in thirty commands.* Order decides between open, closed and
  cut off; every command can fail, be the last, or be repeated months later into
  a table that is full already.
* *A selection that is a join.* Policies, Pods and DanmEps are matched through
  buckets of labels and networks; an empty bucket and an absent selector look
  alike.
* *One handler for everybody.* All Pods of a node wait while `AddPod` awaits the
  DanmEps of one; it has to end, and nobody has a second look at the Pod.
* *Two reads that make one listing.* showalloc counts in offsets of last bytes,
  and looks an address up among DanmEps that have come and gone since.

`PROJECT.json` lists each of these at its line, with the property that is about
it.

### What makes each component correct

* Cleaner: it never cleans a live container's endpoint and never takes its
  address; it loses no address; it removes every dangling DanmEp in the end.
* Release services: an address goes back to the service that handed it out, and
  the DanmEp goes after its addresses.
* Policer: a Pod that a policy selects ends up with exactly the whitelist its
  policies spell out, before the REJECT; no Pod is closed by a provisioning that
  gives up; no Pod is waited for for ever.
* showalloc: every bit of the map is shown under the address and status it has,
  and whoever holds an address all the while is on the listing.

## Modules

| module | what it is |
|---|---|
| `ReleaseService` | which service owns an address (`pkg/danmep`); no variables |
| `AddressLedger` | abstract specification: endpoints on record, addresses reserved for them, and no more; `Attach`, `Release`, `Forget`, `Detach` |
| `Cluster` | external: Pods, DanmEps, allocations, kubelets and the CNI plugin, modelled from how `pkg/cleaner` and `pkg/danmep` read and change them |
| `Cleaner` | the Cleaner, composed with `Cluster` and `ReleaseService`; the properties; each property's mutants |
| `MCCleaner` | values of constants and the symmetry set for TLC |
| `CleanerProofs` | type correctness, no leaked address, refinement of the ledger, separation of threads |
| `NoLiveTargetProofs` | when the Cleaner spares the living; that it loses sight of nothing it is to clean |
| `LiveAddressProofs` | when the living keep their addresses |
| `Isolation` | abstract specification: each path into, out of and through a Pod is open until, in one step, it is closed to all but the listed |
| `Provisioner` | `AddRulesToNewPod` on the filter tables of one namespace, with netfilter's reading of them; implements `Isolation` |
| `PolicySelection` | `polset`, `depset`, `netruleset` as operators, and the selector semantics of the user guide beside them; no variables |
| `Policer` | `polctrl`'s controller on one node and its cluster, composed with `PolicySelection`; what it hands to a provisioning goroutine is where `Provisioner` begins |
| `ShowAlloc` | the command with its two reads, and the CNI plugin and the Cleaner as far as they change what it reads |
| `PolicerProofs` | type correctness; which policies reach a Pod; when, and how far, the rules handed over are the whitelist; that no Pod is forgotten and that work runs out |
| `ShowAllocProofs` | type correctness, the exact map, the holders on the listing |
| `ProvisionerProofs` | type correctness, every rule in its place, nobody unlisted on a closed path |
| `CallOrderProofs` | which calls are issued, in which order, with which effect; nothing closed in vain |
| `IsolationProofs` | isolation after a provisioning without failures; that who is cut off meanwhile returns; refinement of `Isolation` |
| `MCProvisioner`, `MCPolicer`, `MCShowAlloc` | rule sets, policies, DanmEps, networks and command lines for TLC |

### State and actions of `Cleaner`

| variables | code |
|---|---|
| `pods`, `uids`, `eps` | Pods and DanmEps in the API server, Pods created so far |
| `owner` | the allocation bit of each address; a set bit also says for which endpoint it was set, which the real bit array does not: no guard of the Cleaner reads it |
| `wired` | endpoints in use by a live container: ground truth for the properties, read by no code |
| `seen`, `synced`, `initialized` | the informer's store, `PodSynced`, `Cleaner.Initialized` |
| `dirty`, `processing`, `key` | the work queue, and the key each event handler thread has taken |
| `pc`, `todo`, `cur`, `podCache` | where a thread is, what it listed, which DanmEp it handles, the verdicts of this tick |
| `errors`, `crashes` | counters behind the bounds `MaxErrors`, `MaxCrashes` |

One action stands for one step between two points where others can interfere:
an API call, a `calicoctl` run, a sleep, a queue operation. `Tick`, `Judge` and
`EndTick` are `cleanupOnTick` and `cleanDanglingEps`; `Dequeue`, `List`, `Pick`
and `Finish` are `processNextWorkItem` and `handleKey`; `Check`, `ReleaseV4`,
`ReleaseV6` and `DeleteEp` are `deleteInterface` and `DeleteDanmEp`. A call that
fails either had no effect or had its effect and lost its answer. `Observe` is a
watch event together with the handler it runs; a relist may skip states, merge
a deletion and a creation into an update, or deliver a tombstone. `Crash` is the
death of the leader: everything in memory is gone, everything in the API server
stays. Addresses, names and network types are opaque; of an address only its
family and whether DANM's CIDRs contain it matter.

`Faults` names what else may happen, so that each run can say what a property
needs: `name_reuse` (StatefulSets), `slow_sync` (the first list outlasts
`Initialize`), `slow_watch` (CNI ADD ends before the cache has the Pod),
`node_flap` (phase Unknown and back), `late_del` (CNI DEL after the Pod object
left). No run has `slow_watch`: with it `NoLiveTarget` fails the way `slow_sync`
shows, and how far the watch may lag is not for this code to decide.

### State and actions of `Provisioner` and `Policer`

| variables | code |
|---|---|
| `rules` | the `NetRuleSet` that is being provisioned, or was last |
| `plan`, `outcome` | the iptables calls `AddRulesToNewPod` has still to issue, and how it ended |
| `chains`, `table` | filter tables of IPv4 and IPv6: Policer's chains that exist, the rules of each chain |
| `listed` | what was whitelisted at any time; history for `Isolation`, read by no code |
| `pods`, `uids`, `policies`, `deps` | the API server |
| `phase` | of the process: looking for its API (`NewNetPolControl`), running, or asleep before its exit (`WatchErrorHandler`) |
| `seen`, `events` | the Pod informer's store and the notifications it has still to deliver |
| `step`, `pod`, `policySet`, `tries` | local variables of `AddPod` |
| `shield` | the rule set handed to the goroutine, by the UID of the Pod |
| `unlisted` | Pods whose policies could not be listed; history, read by no code |

The calls that `AddRulesToNewPod` issues depend on its rule set only, so
`Start` computes them and `Execute` issues one: `EnsureChain`, `FlushChain` or
`EnsureRule`. `Fail` is a call that fails without effect: `provisionRulesIntoChain`
logs it and goes on, `ensureChain` goes on to its flush and its jump and then
ends the provisioning. `Start` again is a new Policer that finds the Pod in its
first list; the goroutine of the old one died with it. Whether a packet gets
through is not stored but read off the tables (`Accepted`).

`Notice` is the informer's store catching up with one Pod; `AddPod` takes a
notification and returns early or goes on; `ListPolicies` and `ListDanmEps` are
its two API calls, with what follows each up to the next. `Discovered` and
`NotDiscovered` are attempts at finding the API, before any informer runs; after
the last, `main` exits and the process is started again. `BreakWatch` is
`WatchErrorHandler` up to its sleep, `Exit` what follows; in between any goroutine
may go on or be stopped, so that its actions are enabled but not fair. `Die` is a
death without notice. `StartOver`, a part of both, forgets everything in memory.

### State and actions of `ShowAlloc`

| variables | code |
|---|---|
| `held`, `deps` | allocations, and the DanmEps on record |
| `step`, `request` | where the command is; its flags |
| `net`, `ba` | the network and the bits it read |
| `header`, `listing` | what it printed of the network, and of its map |
| `reserved`, `steady` | which addresses were allocated at the first read, and which DanmEps have kept theirs since; history, read by no code |

`GetNetwork` is the read of the network, the header, which is printed before
anything is judged, and the check of the details, which may end the command with
no more than that; `List` is the read of the DanmEps and the loop, after which
nothing can fail; `Fatal` is a read that fails, or finds no network.
`Reserve`, `Record`, `Release` and `Forget` are the steps of CNI ADD, CNI DEL and
the Cleaner in the order `pkg/danmep` has them; a bit is set at another moment
than its DanmEp is recorded. Addresses are numbers, `Low` the number of values of
their last four bytes: `addIP` and `diffIP` work modulo `Low`, and what is before
the last bytes they leave alone or do not see.

### Simplifications

* A rule matches a peer (an address, or an address and a port), or a kind of
  packet of the default rules; it does not matter how `iptables` spells it.
* In `Policer` lists are sets: duplicates change no verdict (and `EnsureRule`
  skips them, which `Provisioner` models). Labels of a Pod do not change, for
  `UpdatePod` would not look at them.
* The listing of `ShowAlloc` is a set of lines; their order is that of the loop.
  DANM is taken to keep one bit per address of the CIDR, to validate pools
  against it and to hand out addresses of the pool
  (`NetworksAssumption`, `EndpointsAssumption`): `showalloc.go` relies on it where
  it ignores errors as those of "a validated property". DanmEps that share an
  address may be listed in any order.
* The provisioning goroutine is one step of `Policer` (`shield`); its own steps
  are those of `Provisioner`.
* Provisionings are bounded, and at rest the models may stop: `CHECK_DEADLOCK
  FALSE` in their configurations.
* The work queue is a set: order matters only to liveness, where first-in
  first-out is strong fairness of each key.
* Resyncs deliver equal resource versions, which `updatePod` returns on: they
  are stutters. So is `Forget`, as no item is rate limited.
* `Check` joins the read of the DanmEp and of its network: both failures have
  the same effect, a return.
* A DanmEp is identified by its fields: UID, interface and addresses. A CNI ADD
  that runs again for the same UID after DEL is left out.
* CNI DEL runs after the containers stopped, and, unless `late_del`, before the
  Pod object leaves. It is one step: its own crashes are DANM's affair.
* Two leaders that overlap are not modelled: the process exits on losing its
  lease and its API client is cancelled.

## Properties and runs

| run | instance | properties |
|---|---|---|
| `cleaner_safety` | 2 Pods, 2 event handler threads and the periodic one, one address of each family, single and dual stack, late DEL, 1 failing call, 1 crash; symmetric in Pods and threads | `TypeOK`, `NoLiveTarget`, `NoLeakedAddress`, `OneWorkerPerPod`, `LedgerSpec` |
| `cleaner_periodic` | periodic thread alone, 1 name used by up to 3 Pods, 2 interfaces, DANM and Calico addresses, flapping node | `NoLiveTarget`, `LiveAddressReserved`, `DanglingEpCleaned` |
| `cleaner_events` | 1 name used by up to 2 Pods, 1 event handler thread and the periodic one, slow first list, 1 failing call, 1 crash | `NeverLostSight`, `EndedPodCleaned`, `DanglingEpCleaned` |
| `provision` | sixteen rule sets: empty, one rule, two, one twice; 2 provisionings, 1 failing call; the second by a rule set that fills the same chains | `TypeOK`, `DefaultIsolation`, `CutOffToReturn`, `ClosedToUnlisted`, `NothingClosedInVain`, `IsolationSpec` |
| `policer` | 1 name used by up to 2 Pods, with a label or without, 2 policies that come and go, 3 DanmEps of peers, 2 of each Pod, 1 failing call, 1 death or broken watch, 2 attempts | `TypeOK`, `ExactSelection`, `NeverForgotten`, `WorkRunsOut`, `IsolatedInTheEnd`, `NobodyWaits` |
| `showalloc` | a DanmNet, a ClusterNetwork and a TenantNetwork of one name, with CIDRs of 4 and 8 addresses, aligned and not, that overlap in IPv4 and have last bytes in common in IPv6; 5 DanmEps in 2 namespaces; every family, 3 sub-CIDRs, 4 choices of names; `Low` 16 | `TypeOK`, `ExactMap`, `HolderNamed` |

* `NoLiveTarget`: from the decision to clean an endpoint until its record is
  gone, no live container uses it.
* `LiveAddressReserved`: the addresses of a live container stay reserved for it.
* `NoLeakedAddress`: a reserved address is reserved for a DanmEp on record.
* `LedgerSpec`: releases and deletions, in any order of threads, failures and
  crashes, are steps of the abstract ledger: the record goes only after its
  addresses.
* `OneWorkerPerPod`: from Get to Done a key belongs to one thread.
* `DanglingEpCleaned`: a DanmEp whose Pod is gone or replaced goes away.
* `EndedPodCleaned`: the DanmEps of a Pod seen running go when it ends, unless a
  call failed or the leader died, for that loses the item.
* `NeverLostSight`: what these two leave to no scheduler. In no single step is a
  DanmEp that is to be cleaned (`ToBeCleaned`: by an event that is to come, by a
  key, by a list, in a thread's hand, or by a verdict the periodic thread has yet
  to reach) dropped by handlers, queue, threads or `podCache`. It ends when the
  record is gone, a call fails, the leader dies, or the Pod leaves the API server
  before its end was noticed, in which case the deletion may come as a tombstone
  and the DanmEp is left to the next tick. A DanmEp with an address no service
  owns is not promised anything (`HasServices`; see `single_stack`).
* `DefaultIsolation`: a provisioning that ran to its end without a failure, the
  first or a repeated one, leaves exactly the whitelist and the default rules'
  packets accepted, on every path.
* `IsolationSpec`: at every call in between, with failures and deaths, a path is
  open to all, or lets in nobody who was never listed; it is closed at one
  stroke, when everybody on the list is let in already, and never opened again.
* `CutOffToReturn`: a second provisioning flushes the chains of a Pod that is
  closed already, and rejects peers until their rules are back. As long as no call
  has failed, whoever is listed and cannot pass has his rule among the calls to
  come, and no flush after it. `IsolationSpec` says nothing of that time.
* `ClosedToUnlisted`: wherever a provisioning is cut short, a path is open to all
  or lets in nobody who was never listed on it.
* `ExactSelection`: what `AddPod` hands over lets in the DanmEps that the
  policies and DanmEps it listed whitelist by the user guide's semantics, as the
  source of what comes in and the destination of what goes out, and it does so
  only for a Pod that a policy selects.
* `NothingClosedInVain`: a step after which a provisioning may give up, because a
  chain cannot be made, closes no path: all chains are made before the first
  REJECT.
* `IsolatedInTheEnd`: a Pod of this node that is selected and wired, before
  `AddPod` has made more attempts than calls have failed, or while it has one left
  and calls fail no more (`Awaited`), gets its rules, over
  restarts and broken watches, unless its policies are withdrawn. Three things
  excuse Policer: the list of policies failed for that Pod, as many calls failed
  as there are attempts, or the Pod replaced one of its name on its node without
  a notification in between. Each is a Pod that stays open for good.
* `NeverForgotten`: what this leaves to no scheduler. In no single step does such
  a Pod stop being awaited, but for its rules or one of these excuses.
* `NobodyWaits`: the handler comes to an end with each Pod, wired or not, and
  with all events that wait.
* `WorkRunsOut`: what this leaves to no scheduler. Each step of `AddPod` leaves
  less to do (`WorkLeft`: an event costs at most the attempts and two steps), and
  nothing but a notification adds to it.
* `ExactMap`: the listing is the map as it was read, each address of the CIDR and
  the sub-CIDR once, with its status, said of addresses instead of offsets.
* `HolderNamed`: a DanmEp of the namespace that keeps its address from the first
  read to the second is listed as allocated, to a Pod that has the address on
  record. That it is the Pod of this network cannot be said: see below.

The bounds: two Pods are a victim and a bystander who can get its address; one
address per family makes reuse immediate; two event handler threads and the
periodic one are all pairs of actors there are; a third Pod under one name lets
a name be reused while the previous reuse is being cleaned; one failure and one
crash can hit every step, as each run chooses where. In `cleaner_safety` names
are used once and phases do not flap, since `name_reuse` shows what happens
otherwise; `LiveAddressReserved` is checked without failures, crashes and event
handler threads, since `double_free` shows the race and a failed or interrupted
`DeleteDanmEp` leaves a DanmEp whose IPv4 address the next tick frees again.

In `provision` one failure falls on every call of every rule set, and two
provisionings are what there is to a repetition: the tables after the second
are those after any later one with the same rules. Policies in `policer` have
one label per selector and selectors that match, as the guide and the code
differ on others. One name is enough for `policer`, as a Pod is handled without
regard to the others but for the wait in the queue, which two Pods of a name
bring about as well.

In `showalloc` the five DanmEps hold every combination a search by address can
meet: one of the network asked for, one of another network with the same address,
one with the same last bytes, one of another namespace, one that is gone. A `Low`
of 16 makes offsets wrap around at the values the CIDRs have; `ShowAllocProofs`
does without the bound.

Six runs end in a violation of what a comment, the README or the user guide says
of the program:

| run | what it shows |
|---|---|
| `name_reuse` | `handleKey` goes by name. A Pod replaced under its name before the event of its predecessor is handled loses its interfaces; the periodic thread compares UIDs and does not do this |
| `slow_sync` | `Initialize` reports success without a synchronized cache, and the periodic thread takes every Pod for gone |
| `single_stack` | `DeleteDanmEp` wants a service for both families; an interface with one is never cleaned (`NoIP` is in no CIDR: `CidrAssumption`) |
| `double_free` | the Cleaner passes its re-read, CNI DEL and another Pod's CNI ADD follow, and the Cleaner frees the other Pod's address |
| `policy_change` | a Policer that restarts after its policies changed leaves the rules of an abandoned chain in force, and jumps to a new chain behind the REJECT |
| `empty_match` | a Pod selector that matches nothing yet, next to a network selector, whitelists the whole network: `intersectDepSets` takes the empty set for an absent selector |

### Fairness

`FairSpec` assumes weak fairness of the informer's first list, of `Initialize`
(a loop that ends after 10 s), of the delivery of each Pod's events, of the
periodic thread and of each event handler thread: goroutines run, and a
watch that breaks is re-established by client-go. Each key in the queue is
taken with strong fairness: `Workqueue.Get` is first in, first out, so a waiting
key cannot be overtaken for ever, although it is withheld again and again while
it is being processed. Nothing is assumed of the cluster: Pods need not end, CNI
DEL need not come. Failures and crashes are bounded by the constants: an API
server that never answers again cleans nothing.

`FairSpec` of `Policer` assumes weak fairness of `Discovered` (the API is installed
and answers in the end), of `Exit` (a sleep of five seconds), and, while no watch
is broken, of the watch for each name, of the handler and of its two calls: the
informer delivers and goroutines run. After a watch broke nothing is assumed of
them. Nothing is assumed of CNI ADD, hence the premise of `IsolatedInTheEnd`.

`ShowAlloc` has no fairness: nobody is owed the listing of a command that is
interrupted.

### Observations

Two things met while modelling that no run reports. `findEpByIP` does not look at
the network of a DanmEp, so that where networks of a namespace overlap, showalloc
may name a Pod of another network; no document promises otherwise.
`cmd/policer/policer.go`
parses its flags before it defines `kubeconf`, so that the flag is always an
unknown one.

## Proofs

All theorems hold for every value of the constants under the assumptions named
in the modules (`ActorsAssumption`, `KeyAssumption`, `BoundsAssumption`,
`AddressAssumption`, `EpAssumption`, `StacksAssumption`, `FaultsAssumption`,
`UidAssumption`, `CidrAssumption`; `RuleSetsAssumption`, `SuccessorsAssumption`,
`PeersAssumption`; `BucketsAssumption`, `PolicerBounds`, `EpsAssumption`,
`OpenAssumption` (the mark of a Pod without rules is no rule set);
`LowAssumption`, `NetworksAssumption`, `EndpointsAssumption`,
`RequestsAssumption`) and the conditions a theorem states: any number of Pods,
interfaces, addresses, threads, failures and crashes; any rule sets and any
change of policies; any CIDRs, DanmEps and command lines.

`CleanerProofs`:

* `TypeCorrect`: `Spec => []TypeOK`. What is not a type in it is `InHand`: a thread
  has a DanmEp in hand exactly while it is in `deleteInterface`, through every
  return of it and over `Crash`; the lemma `InHandStep` follows it through the
  actions.
* `Invariance`: the inductive invariant `IInv`. `NoLeakedAddress` alone is not
  inductive: a step of `DeleteEp` keeps it only if the addresses of that DanmEp
  are not reserved for it any more. `ReleasedFirst` says so of a thread past a
  release; it survives others' steps because an endpoint that was once recorded
  cannot be recorded again (`UidsFresh`, `KnownFresh`: UIDs are new, and one per
  name and interface), so its address cannot come back to it; `OwnerRecorded`
  says that what is reserved for an endpoint is an address it carries, and
  `HasCur` that a thread in `deleteInterface` has an endpoint in hand.
* `NoLeak`: `Spec => []NoLeakedAddress`, from `Invariance`.
* `ImplementsLedger`: `Spec => LedgerSpec`, a refinement: every step is
  `Attach`, `Release`, `Forget`, `Detach` or a stutter of the ledger.
* `WorkersApart`: `Spec => []OneWorkerPerPod`, with `KeyProcessing` (the key of a
  busy thread is being processed).

`NoLiveTargetProofs`:

* `TickerSparesLive`: if the cache is synchronized before use and CNI ADD does
  not overtake the watch (`CacheTrusted`), the periodic thread never targets a
  live endpoint, whatever names are reused or nodes flap. The invariant says that
  what it judged gone is a *dead UID* (`TickerDead`): its Pod has been there and
  none with that UID will be alive again, which is stable; that a synchronized
  cache knows the Pod of every endpoint in use (`SeenPods`); and that a UID
  belongs to one name (`UidOwner`).
* `LiveEndpointsSpared`: `Spec => []NoLiveTarget` for all threads if, besides,
  names are not reused and nodes do not flap, or there are no event handler
  threads (`NamesTrusted`). `WorkerInv` adds that the cache is never ahead of the
  API server and that keys in the queue are those of Pods that are over. The
  conditions are needed: `name_reuse` and `slow_sync` refute the theorem without
  them.
* `SightKept`: `Spec => NeverLostSight`, with no condition: names reused, phases
  that flap and caches that lag do not matter to the bookkeeping. Each lemma
  follows what is to be cleaned through one part of the code: `InformerSight` from
  the event to the key, `WorkerSight` from the key to the list to the hand,
  `JudgeSight` through a tick, `DeleteInterfaceSight` to the deletion;
  `OthersKeepSight` says that a thread does not disturb the others. The invariant
  is `SightInv`: a verdict is kept by UID, so the DanmEps of a UID must be of one
  Pod (`OnePodPerUid`, which needs `UidOwner`). `GoneForGood`: a Pod that left
  does not come back under its UID.

`LiveAddressProofs`, for the periodic thread alone (`CleansAlone`):

* `ReservedUntilDisturbed`: until a call fails or a leader dies, a live
  container has its addresses, whatever names are reused, phases flap and
  addresses of the dead are handed out anew. `LiveAddressReserved` is far from
  inductive, as what `DeleteDanmEp` frees is an address, not somebody's
  reservation: the invariant has to say that an address is still its DanmEp's
  when it is freed. `EpsReserved` says so of every address on record, but for
  those the thread has just freed; it needs that the DanmEp in hand stays on
  record (`StaysOnRecord`), hence that CNI DEL does not come any more: what was
  judged to be gone is not merely dead but out of the API server (`TickerGone`),
  since a synchronized cache has every Pod of a known endpoint for as long as
  the API server has it (`SeenExisting`); and that a first release is followed
  by a second (`KnownReleasable`).
* `LiveKeepAddresses`: `Spec => []LiveAddressReserved` if nothing can fail
  (`MaxErrors` and `MaxCrashes` are 0).

  The conditions are those of the run `cleaner_periodic`. They are needed:
  `double_free` is what a second thread or a late CNI DEL brings about; after a
  release whose successor failed, and after each release of the one address of a
  single-stack interface, the DanmEp stays on record with an address that the
  next tick frees again, whoever has it by then.

`ProvisionerProofs`:

* `TypeCorrect`: `Spec => []TypeOK`. The types (`Typed`) are inductive only with
  `WellFormed`: each `EnsureChain` to come is followed by its flush and its jump,
  so that two calls are left when it fails. The lemmas `RulesPlan`, `EnsurePlan`
  and `DynamicPlan` show it of the parts of `AddRulesToNewPod`, `PlanConcat` puts
  them together. That every rule is in its place (`InPlace`: no RETURN in a
  built-in chain, no REJECT in one of Policer's, no jump to the chain of another
  direction) is read off `Fitting`, below.
* `NobodyUnlisted`: `Spec => []ClosedToUnlisted`, also across changes of policy
  that `policy_change` shows to break `DefaultIsolation`. What packets get
  through is a reading of whole tables, so the invariant `Fitting` speaks of
  single rules: each ACCEPT in a chain, or still to be put there, is for a packet
  on the list of every path through the chain, and the only jump to a chain of
  Policer's is from its own path. `FitGrows` keeps it when lists grow,
  `FittingCloses` reads the property off it.

`CallOrderProofs`:

* `NothingClosed`: `Spec => NothingClosedInVain`. `Provisioning` says which calls
  `AddRulesToNewPod` issues (`Issued`) and that they are `Sorted`: first chains
  with their jumps, then lists, then default rules, and what ends the work on a
  chain comes last. It is put together from one lemma for each part of the code
  (`EnsurePiece`, `DynamicPiece`, `DefaultPiece`). `Orderly`, that the calls left
  are such calls in that order, is invariant whatever fails; `CallEffect` says
  what a call does to the tables. A path is closed by putting a REJECT
  (`ShutByReject`), and then no call is left that could end the provisioning
  (`RejectsComeLast`).

`IsolationProofs`, for policies that change only within the same chains
(`KeepsChains`):

* `Isolated`: `Spec => []DefaultIsolation`. The invariant is `Progress`, which
  holds as long as no call has failed: what a path is to let through is in the
  tables or among the calls left, and what a flush will remove does not count
  (`Prepared`, `Defaulted`); a chain holds rules of the present list only, or is
  to be flushed (`Fresh`); its RETURN is its last rule (`Terminated`); a REJECT
  has the default rules and the jump ahead of it (`Guarded`), also one that an
  earlier provisioning left: this is what fails without `KeepsChains`, as
  `policy_change` shows.
* `CutOffReturn`: `Spec => []CutOffToReturn`, from `Progress` too: what is not in
  the tables, or in a chain that is still to be flushed, is among the calls left
  behind that flush (`ListedPasses`).
* `ProvisionerImplementsIsolation`: `Spec => IsolationSpec`. `OnePathChanges` says
  that a call changes what passes on at most one path, `TrafficStep` that it does
  so by a step of `Isolation` or not at all.

`NothingClosed` and the refinement assume a *stranger*, a peer that no policy
lists (`IsStranger`): a REJECT shuts out somebody, so that a path with one is not
open. The run `provision` satisfies both hypotheses, and its instance was used to
check `Orderly` and `Progress` before they were proved.

`PolicerProofs`:

* `NoPolicyPassedOver`: for any policies, labels and buckets, a policy that
  selects a Pod is among those `FilterApplicablePolicies` returns, unless its
  selector cannot be parsed. The converse is not true of the code (a Pod is
  selected by any label of a selector); `SelectorsMetWhole` proves it where pairs
  have buckets of their own and a Pod has all the pairs of a selector or none
  (`AllOrNone`). With one pair per selector, as in the run `policer`, that is
  always so (`OnePairAllOrNone`).
* `SelectionExact`: `Spec => ExactSelection` in a `PlainCluster`: besides the
  conditions of `SelectorsMetWhole`, now for peers too, at most one rule in each
  direction, no selector of peers with `matchExpressions` alone, UIDs that are
  unique, and, where a peer has both kinds of selectors, somebody whom each of
  them finds. But for the UIDs, each condition stands for a place where code and
  guide differ; the last is the one `empty_match` breaks. `PeerExact` compares a
  peer's selectors with their meaning, `FirstRulesExact` and `RuleSetExact` the
  rules made of them, `PeerSides` that each looks at the peer's side of a
  packet; `SelectedInHand` is the invariant that the handler waits for DanmEps
  only on behalf of a Pod that a policy applies to.
* `WhitelistedLetIn`: `Spec => NobodyCutOff`. Half of `ExactSelection` needs next to
  nothing: as long as policies can be read at all (`ReadablePolicy`), the rules let
  in everybody whom the policies that select the Pod whitelist, however many
  pairs selectors have, whichever share a bucket and whether they match or not.
  Where Policer reads selectors differently it takes too many policies or peers,
  never too few.
* `NobodyForgotten`: `Spec => NeverForgotten`, if the selectors of all policies
  can be parsed. The invariant is `AwaitedInv`: attempts are counted from zero for
  each Pod (`FreshTries`), as otherwise a Pod might be given up for the attempts
  of its predecessor. `AddedBehind` and `TakenBefore` follow an event through the
  queue; that a policy which selects the Pod is not filtered out is
  `NoPolicyPassedOver`.
* `WorkEnds`: `Spec => WorkRunsOut`, from the types: there is an attempt left as
  long as `AddPod` awaits DanmEps.
* `TypeCorrect`: `Spec => []TypeOK`, which is inductive as it stands.

`ShowAllocProofs`:

* `MapExact`: `Spec => []ExactMap`. `Block` shows that a CIDR whose size divides
  `Low` does not wrap around within, `Offsets` and `AddressOffset` that `addIP` and
  `diffIP` from its first address are plain sums and differences there, on all
  numbers. The invariant is `Snapshot`: while the DanmEps are awaited the bits
  are the offsets of the addresses that were reserved, which lie in the pool;
  `HeldReal` (only addresses that a DanmEp has are held) makes it so.
* `Named`: `Spec => HolderNamed`; `Snapshot` says besides that whoever is steady
  still holds an address of that map.
* `TypeCorrect`: `Spec => []TypeOK`. Besides types: the header is that of the network
  asked for, on every way the command can end, and the map is printed of a network
  with details of the family only, for addresses of its CIDR (`LinesAreTheMap`).

Only model-checked: the liveness properties `DanglingEpCleaned`, `EndedPodCleaned`,
`IsolatedInTheEnd` and `NobodyWaits`, as fairness and ENABLED are beyond the prover.
What they say besides fairness is proved: `SightKept` is the safety half of the
first two, `NobodyForgotten` and `WorkEnds` those of the others. What is left to
TLC is that actions which stay enabled are taken, that a tick comes, and that
`deleteInterface` and the lists of the threads are finite.
Every invariant and every action property that a passing run checks is a theorem,
some under the conditions named above; where those are conditions on constants,
the run's own constants meet them.

## What could follow

All components listed as modelled have their safety properties proved. Not done:

* `LiveKeepAddresses` past failures, for the addresses of DanmEps whose cleanup
  was not cut short: it needs a history of which releases were repeated.
* `Isolated` for changes of policy in which chains come or go. `policy_change`
  shows that the code does not isolate then; the theorem would be about the paths
  whose chains did not change.
* Two leaders at a time, with the calls of the first still under way.

## Not modelled

* The API client (`crd`): deepcopy functions, clientset, informers and listers are
  generated by the Kubernetes code generators; of the policy types
  `PolicySelection` has what the rest of the code reads.
* Leaders of the Cleaner that overlap. The process exits when it loses its lease
  and its API calls are cancelled with its context; a `calicoctl` it started
  lives on for its one call. Leader election itself is client-go.
* Flags, client configuration and version output of the three commands.
* Threads of the Go runtime and the namespaces they are in while the provisioner
  works: an error on the way back is ignored by the code.
* The inside of DANM's IPAM, of `calicoctl`, of `iptables` and of the watch
  protocol: external, modelled by what the code reads and changes of them.
* Numbers of ports beyond what becomes of them (`RulePort`), a crash on an absent
  port or protocol, and log output.
* Packaging: build scripts, container files, manifests.
