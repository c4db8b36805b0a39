----------------------------- MODULE Provisioner -----------------------------
(***************************************************************************)
(* DANM Policer's iptables provisioner (pkg/provisioner/iptables): the     *)
(* goroutine that writes the rules of one selected Pod into the filter     *)
(* tables of its network namespace.                                        *)
(*                                                                         *)
(* AddRulesToNewPod issues a sequence of iptables calls that depends on    *)
(* its rule set only; plan holds the calls still to be issued.  Calls can  *)
(* fail, and Policer can die between two of them; the Policer that follows *)
(* finds the Pod in its first list and provisions it again, into the same  *)
(* namespace, by the policies of that time.                                *)
(***************************************************************************)
EXTENDS Integers, Sequences, Functions

CONSTANTS
  Peers,        \* what a dynamic rule can match: an address, or address and port
  RuleSets,     \* the NetRuleSets there may be
  Successors,   \* the NetRuleSets by which a Pod may be provisioned again
  MaxRuns,      \* bound: provisionings of the Pod
  MaxErrors     \* bound: iptables calls that fail

Families == {"v4", "v6"}
Dirs == {"ingress", "egress"}

(* NetRuleSet: the dynamic rules of each of the four chains.               *)
NetRuleSet == [Families -> [Dirs -> Seq(Peers)]]

(* Packets that open a connection with a peer, to a DNS server or on the   *)
(* loopback interface, and packets of a connection that is established.    *)
Defaults == {"lo", "established", "tcp53", "udp53"}
Packets == Peers \union Defaults

ASSUME RuleSetsAssumption == RuleSets \subseteq NetRuleSet
ASSUME SuccessorsAssumption == Successors \in [RuleSets -> SUBSET RuleSets]
ASSUME PeersAssumption == Peers \intersect (Defaults \union {"any"}) = {}
ASSUME BoundsAssumption == MaxRuns \in Nat /\ MaxErrors \in Nat

VARIABLES
  rules,        \* the NetRuleSet provisioned now or last
  plan,         \* iptables calls still to be issued
  chains,       \* Policer's own chains that exist, of each family
  table,        \* the rules in each chain of each family
  outcome,      \* of the provisioning
  listed,       \* packets whitelisted so far on each path (no code reads it)
  runs,         \* provisionings started so far
  errors        \* calls that failed so far

vars == <<rules, plan, chains, table, outcome, listed, runs, errors>>

-----------------------------------------------------------------------------
(* Rules.                                                                  *)

Accept(match) == [match |-> match, target |-> "ACCEPT"]
Reject == [match |-> "any", target |-> "REJECT"]
Return == [match |-> "any", target |-> "RETURN"]
Jump(dir) == [match |-> "any", target |-> dir]

Rule == [match : Packets \union {"any"},
         target : {"ACCEPT", "REJECT", "RETURN"} \union Dirs]

BuiltIn == {"INPUT", "OUTPUT", "FORWARD"}
Outcomes == {"none", "running", "aborting", "done", "aborted"}
Chain == BuiltIn \union Dirs

DefaultRules == [
  INPUT   |-> <<Accept("lo"), Accept("established"), Reject>>,
  OUTPUT  |-> <<Accept("lo"), Accept("established"), Accept("tcp53"), Accept("udp53"), Reject>>,
  FORWARD |-> <<Reject>>]

(* The built-in chain a path goes through, and the jump to ours is in.     *)
BuiltInOf(dir) ==
  [ingress |-> "INPUT", egress |-> "OUTPUT", forward |-> "FORWARD"][dir]

(* What can be closed: the way in, the way out, and the way through.       *)
Paths == Families \X (Dirs \union {"forward"})

(* The packets a Pod is to let through whatever its policies.              *)
Always == [path \in Paths |->
  {rule.match : rule \in Range(DefaultRules[BuiltInOf(path[2])])} \ {"any"}]

White(rs) == [path \in Paths |->
  Always[path] \union IF path[2] \in Dirs THEN Range(rs[path[1]][path[2]]) ELSE {}]


-----------------------------------------------------------------------------
(* The calls of AddRulesToNewPod.                                          *)

Call == [op : {"enter"}]
          \union [op : {"ensure", "flush"}, family : Families, chain : Dirs]
          \union [op : {"append"}, family : Families, chain : Chain, rule : Rule]

(* Mutant: every chain is ended by a RETURN.                               *)
ReturnEverywhere(f, c, rs) ==
  LET all == IF rs = <<>> THEN rs ELSE Append(rs, Return)
  IN  [i \in DOMAIN all |-> [op |-> "append", family |-> f, chain |-> c, rule |-> all[i]]]

(* The rules of a chain, ended by a RETURN if the chain is our own.        *)
ProvisionRulesIntoChain(f, c, rs) ==
  LET all == IF c \in BuiltIn \/ rs = <<>> THEN rs ELSE Append(rs, Return)
  IN  [i \in DOMAIN all |-> [op |-> "append", family |-> f, chain |-> c, rule |-> all[i]]]

(* Mutant: a chain that exists is not flushed.                             *)
EnsureNoFlush(rs, f, dir) ==
  IF rs[f][dir] = <<>>
    THEN <<>>
    ELSE << [op |-> "ensure", family |-> f, chain |-> dir] >>
         \o ProvisionRulesIntoChain(f, BuiltInOf(dir), <<Jump(dir)>>)

(* A chain is created and flushed, and jumped to, if it is to hold rules.  *)
EnsureChain(rs, f, dir) ==
  IF rs[f][dir] = <<>>
    THEN <<>>
    ELSE << [op |-> "ensure", family |-> f, chain |-> dir],
            [op |-> "flush", family |-> f, chain |-> dir] >>
         \o ProvisionRulesIntoChain(f, BuiltInOf(dir), <<Jump(dir)>>)

EnsureChains(rs) ==
  EnsureChain(rs, "v4", "ingress") \o EnsureChain(rs, "v6", "ingress")
    \o EnsureChain(rs, "v4", "egress") \o EnsureChain(rs, "v6", "egress")

(* Mutant: the rules of IPv4 go into the chains of both families.          *)
CopiedFromV4(rs, f, dir) ==
  ProvisionRulesIntoChain(f, dir, [i \in DOMAIN rs["v4"][dir] |-> Accept(rs["v4"][dir][i])])

DynamicRules(rs, f, dir) ==
  ProvisionRulesIntoChain(f, dir, [i \in DOMAIN rs[f][dir] |-> Accept(rs[f][dir][i])])

ProvisionDynamicRules(rs) ==
  DynamicRules(rs, "v4", "ingress") \o DynamicRules(rs, "v6", "ingress")
    \o DynamicRules(rs, "v4", "egress") \o DynamicRules(rs, "v6", "egress")

DefaultsOf(f) ==
  ProvisionRulesIntoChain(f, "INPUT", DefaultRules.INPUT)
    \o ProvisionRulesIntoChain(f, "OUTPUT", DefaultRules.OUTPUT)
    \o ProvisionRulesIntoChain(f, "FORWARD", DefaultRules.FORWARD)

ProvisionDefaultRules == DefaultsOf("v4") \o DefaultsOf("v6")

(* Mutant: the Pod is closed before it is told whom to let in.             *)
DefaultsFirst(rs) ==
  <<[op |-> "enter"]>>
    \o EnsureChains(rs) \o ProvisionDefaultRules \o ProvisionDynamicRules(rs)

(* Mutant: the chains are made last.                                       *)
ChainsLast(rs) ==
  <<[op |-> "enter"]>>
    \o ProvisionDefaultRules \o EnsureChains(rs) \o ProvisionDynamicRules(rs)

(* Mutant: the chains are flushed when the rules are in them.              *)
RulesFirst(rs) ==
  <<[op |-> "enter"]>>
    \o ProvisionDynamicRules(rs) \o EnsureChains(rs) \o ProvisionDefaultRules

(* The goroutine enters the network namespace of the Pod and writes.       *)
AddRulesToNewPod(rs) ==
  <<[op |-> "enter"]>>
    \o EnsureChains(rs) \o ProvisionDynamicRules(rs) \o ProvisionDefaultRules

-----------------------------------------------------------------------------
(* Actions.                                                                *)

Init ==
  /\ rules \in RuleSets
  /\ plan = <<>>
  /\ chains = [f \in Families |-> {}]
  /\ table = [f \in Families |-> [c \in Chain |-> <<>>]]
  /\ outcome = "none"
  /\ listed = White(rules)
  /\ runs = 0 /\ errors = 0

(* A provisioning starts: the first one, or another one by a new Policer,  *)
(* with which the one that may still be running is gone.                   *)
Start(rs) ==
  /\ runs < MaxRuns
  /\ runs' = runs + 1
  /\ rs \in IF runs = 0 THEN {rules} ELSE Successors[rules]
  /\ rules' = rs
  /\ listed' = [path \in Paths |-> listed[path] \union White(rs)[path]]
  /\ plan' = AddRulesToNewPod(rs)
  /\ outcome' = "running"
  /\ UNCHANGED <<chains, table, errors>>

(* A rule is appended unless the chain has it already; it can neither be   *)
(* put into, nor jump to, a chain that does not exist.                     *)
CanHold(f, c, rule) ==
  /\ c \in BuiltIn \union chains[f]
  /\ rule.target \in Dirs => rule.target \in chains[f]

EnsureRule(f, c, rule) ==
  IF CanHold(f, c, rule) /\ rule \notin Range(table[f][c])
    THEN table' = [table EXCEPT ![f][c] = Append(@, rule)]
    ELSE UNCHANGED table

Advance ==
  /\ plan' = Tail(plan)
  /\ outcome' = IF Tail(plan) # <<>> THEN outcome
                ELSE IF outcome = "aborting" THEN "aborted" ELSE "done"

Execute ==
  /\ plan # <<>>
  /\ LET call == Head(plan)
     IN  \/ /\ call.op = "enter"
            /\ UNCHANGED <<chains, table>>
         \/ /\ call.op = "ensure"
            /\ chains' = [chains EXCEPT ![call.family] = @ \union {call.chain}]
            /\ UNCHANGED table
         \/ /\ call.op = "flush"
            /\ table' = [table EXCEPT ![call.family][call.chain] = <<>>]
            /\ UNCHANGED chains
         \/ /\ call.op = "append"
            /\ EnsureRule(call.family, call.chain, call.rule)
            /\ UNCHANGED chains
  /\ Advance
  /\ UNCHANGED <<rules, listed, runs, errors>>

(* An error is logged and passed over, except on entering the namespace    *)
(* and that of EnsureChain, which ends the provisioning, though not before *)
(* the flush and the jump that belong to the chain.                        *)
Fail ==
  /\ plan # <<>>
  /\ errors < MaxErrors
  /\ errors' = errors + 1
  /\ \/ /\ Head(plan).op = "enter"
        /\ plan' = <<>>
        /\ outcome' = "aborted"
     \/ /\ Head(plan).op = "ensure"
        /\ plan' = SubSeq(plan, 2, 3)
        /\ outcome' = "aborting"
     \/ /\ Head(plan).op \in {"flush", "append"}
        /\ Advance
  /\ UNCHANGED <<rules, chains, table, listed, runs>>

Next ==
  \/ \E rs \in RuleSets : Start(rs)
  \/ Execute
  \/ Fail

Spec == Init /\ [][Next]_vars

-----------------------------------------------------------------------------
(* What the tables do to packets.                                          *)

Matches(rule, packet) == rule.match \in {packet, "any"}

ChainAccepts(f, dir, packet) ==
  \E i \in DOMAIN table[f][dir] :
    /\ Matches(table[f][dir][i], packet) /\ table[f][dir][i].target = "ACCEPT"
    /\ \A j \in 1 .. i - 1 : table[f][dir][j] # Return

LetsThrough(f, c, packet) ==
  \A i \in DOMAIN table[f][c] :
    table[f][c][i] = Reject =>
      \E j \in 1 .. i - 1 :
        LET rule == table[f][c][j]
        IN  /\ Matches(rule, packet)
            /\ \/ rule.target = "ACCEPT"
               \/ rule.target \in Dirs /\ ChainAccepts(f, rule.target, packet)

(* The policy of the built-in chains is ACCEPT.                            *)
Accepted == [path \in Paths |->
  {packet \in Packets : LetsThrough(path[1], BuiltInOf(path[2]), packet)}]

-----------------------------------------------------------------------------
(* Properties.                                                             *)

Typed ==
  /\ rules \in RuleSets
  /\ plan \in Seq(Call)
  /\ plan # <<>> <=> outcome \in {"running", "aborting"}
  /\ chains \in [Families -> SUBSET Dirs]
  /\ table \in [Families -> [Chain -> Seq(Rule)]]
  /\ outcome \in Outcomes
  /\ listed \in [Paths -> SUBSET Packets]
  /\ runs \in 0 .. MaxRuns
  /\ errors \in 0 .. MaxErrors

InPlace(f, c, rule) ==
  /\ rule = Return => c \in Dirs
  /\ rule = Reject => c \in BuiltIn
  /\ rule.target \in Dirs => c = BuiltInOf(rule.target)

(* The variables have their types, and rules stand where they belong: in   *)
(* the built-in chains the REJECT, and the jump of their own direction; in *)
(* Policer's own ones the RETURN, which in a built-in chain would be a way *)
(* around the REJECT (provisionRulesIntoChain).                            *)
TypeOK ==
  /\ Typed
  /\ \A f \in Families, c \in Chain : \A rule \in Range(table[f][c]) : InPlace(f, c, rule)

(* A provisioning that reached its end leaves exactly what the policies    *)
(* whitelist (user guide, "Default rules"), though an earlier one of the   *)
(* same namespace was cut short or wrote other rules.                      *)
DefaultIsolation == outcome = "done" /\ errors = 0 => Accepted = White(rules)

(* A second provisioning flushes chains of a Pod that is closed already,   *)
(* and rejects the peers they listed (iptables.go:134).  Unless a call     *)
(* fails, whoever is listed and cannot pass while a provisioning runs is   *)
(* let in by a call that is still to come, with no flush after it; when    *)
(* that call is issued, nothing else is in his way.                        *)
LetIn(path, packet) ==
  \E i \in DOMAIN plan :
    /\ plan[i] = [op |-> "append", family |-> path[1], chain |-> path[2], rule |-> Accept(packet)]
    /\ \A j \in DOMAIN plan :
         j > i => plan[j] # [op |-> "flush", family |-> path[1], chain |-> path[2]]

CutOffToReturn ==
  outcome = "running" /\ errors = 0 =>
    \A path \in Paths : \A packet \in White(rules)[path] \ Accepted[path] : LetIn(path, packet)

(* Wherever a provisioning is cut short, whatever failed and whoever wrote *)
(* into the tables before, a path is open to everybody or lets nobody      *)
(* through that was never whitelisted on it (user guide, "Default rules"). *)
ClosedToUnlisted ==
  \A path \in Paths : Accepted[path] = Packets \/ Accepted[path] \subseteq listed[path]

(* As long as a provisioning may still give up, because one of its chains  *)
(* cannot be made, it has closed nothing: a Pod that is left without its   *)
(* rules is left open, not cut off (iptables.go:105, the error of          *)
(* ensureChains ends AddRulesToNewPod).                                    *)
MayGiveUp == \E i \in DOMAIN plan : plan[i].op \in {"enter", "ensure"}

NothingClosedInVain ==
  [][MayGiveUp => \A path \in Paths : Accepted[path] = Packets => Accepted'[path] = Packets]_vars

(* Call by call, with failures and restarts, the tables do to packets what *)
(* module Isolation promises: AddRulesToNewPod closes a path at one stroke *)
(* and only when everybody on the list is let in already.                  *)
Traffic == INSTANCE Isolation WITH
  white <- White(rules), accepted <- Accepted, healthy <- (errors = 0)

IsolationSpec == Traffic!Spec
=============================================================================
