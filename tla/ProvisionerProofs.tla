-------------------------- MODULE ProvisionerProofs --------------------------
(***************************************************************************)
(* Theorems about Provisioner, for any rule sets, any number of            *)
(* provisionings and any number of calls that fail.                        *)
(***************************************************************************)
EXTENDS Provisioner, SequenceTheorems, TLAPS

-----------------------------------------------------------------------------
(* The calls of a provisioning.                                            *)

(* An EnsureChain is followed by the flush of the chain and by the jump to *)
(* it, so that there is something to be issued when it fails.              *)
WellFormed(s) ==
  \A i \in DOMAIN s :
    s[i].op = "ensure" =>
      i + 2 \in DOMAIN s /\ s[i + 1].op # "ensure" /\ s[i + 2].op # "ensure"

Plans == {s \in Seq(Call) : WellFormed(s)}

(* What is in the union Call, by the kind of call.                         *)
LEMMA CallFields ==
  ASSUME NEW call \in Call
  PROVE  /\ call.op \in {"enter", "ensure", "flush", "append"}
         /\ call.op \in {"ensure", "flush"} => call.family \in Families /\ call.chain \in Dirs
         /\ call.op = "append" =>
              call.family \in Families /\ call.chain \in Chain /\ call.rule \in Rule
BY DEF Call

LEMMA RuleTypes ==
  /\ \A match \in Packets : Accept(match) \in Rule
  /\ Reject \in Rule /\ Return \in Rule
  /\ \A dir \in Dirs : Jump(dir) \in Rule
BY DEF Accept, Reject, Return, Jump, Rule

LEMMA PlanConcat ==
  ASSUME NEW s \in Plans, NEW t \in Plans
  PROVE  s \o t \in Plans
<1> DEFINE u == s \o t
<1>1. /\ s \in Seq(Call) /\ t \in Seq(Call) /\ u \in Seq(Call)
      /\ Len(u) = Len(s) + Len(t)
      /\ \A i \in 1 .. Len(s) + Len(t) : u[i] = IF i <= Len(s) THEN s[i] ELSE t[i - Len(s)]
  BY ConcatProperties DEF Plans
<1>2. Len(s) \in Nat /\ Len(t) \in Nat /\ DOMAIN s = 1 .. Len(s) /\ DOMAIN t = 1 .. Len(t)
      /\ DOMAIN u = 1 .. Len(u)
  BY <1>1, LenProperties
<1>3. ASSUME NEW i \in DOMAIN u, u[i].op = "ensure"
      PROVE  i + 2 \in DOMAIN u /\ u[i + 1].op # "ensure" /\ u[i + 2].op # "ensure"
  <2> HIDE DEF u
  <2>1. CASE i <= Len(s)
    <3>1. i \in DOMAIN s /\ s[i].op = "ensure"
      BY <1>1, <1>2, <1>3, <2>1
    <3>2. i + 2 \in DOMAIN s /\ s[i + 1].op # "ensure" /\ s[i + 2].op # "ensure"
      BY <3>1 DEF Plans, WellFormed
    <3> QED BY <1>1, <1>2, <1>3, <3>2
  <2>2. CASE ~(i <= Len(s))
    <3> DEFINE j == i - Len(s)
    <3>1. j \in DOMAIN t /\ t[j].op = "ensure"
      BY <1>1, <1>2, <1>3, <2>2
    <3>2. j + 2 \in DOMAIN t /\ t[j + 1].op # "ensure" /\ t[j + 2].op # "ensure"
      <4> HIDE DEF j
      <4> QED BY <3>1 DEF Plans, WellFormed
    <3>3. /\ i + 1 \in DOMAIN u /\ i + 2 \in DOMAIN u
          /\ u[i + 1] = t[j + 1] /\ u[i + 2] = t[j + 2]
      BY <1>1, <1>2, <1>3, <2>2, <3>2
    <3> QED BY <3>2, <3>3
  <2> QED BY <2>1, <2>2
<1> HIDE DEF u
<1>4. u \in Plans
  BY <1>1, <1>3 DEF Plans, WellFormed
<1> QED BY <1>4 DEF u

(* Issuing a call leaves a plan.                                           *)
LEMMA PlanTail ==
  ASSUME NEW s \in Plans, s # <<>>
  PROVE  Tail(s) \in Plans
<1> DEFINE u == Tail(s)
<1>1. /\ s \in Seq(Call) /\ u \in Seq(Call) /\ Len(u) = Len(s) - 1
      /\ \A i \in 1 .. Len(u) : u[i] = s[i + 1]
  BY HeadTailProperties DEF Plans
<1>2. Len(s) \in Nat /\ DOMAIN s = 1 .. Len(s) /\ DOMAIN u = 1 .. Len(u)
  BY <1>1, LenProperties
<1> HIDE DEF u
<1>3. ASSUME NEW i \in DOMAIN u, u[i].op = "ensure"
      PROVE  i + 2 \in DOMAIN u /\ u[i + 1].op # "ensure" /\ u[i + 2].op # "ensure"
  <2>1. i + 1 \in DOMAIN s /\ s[i + 1].op = "ensure"
    BY <1>1, <1>2, <1>3
  <2>2. (i + 1) + 2 \in DOMAIN s /\ s[(i + 1) + 1].op # "ensure" /\ s[(i + 1) + 2].op # "ensure"
    BY <2>1 DEF Plans, WellFormed
  <2>3. i + 2 \in DOMAIN u /\ i + 1 \in DOMAIN u
    BY <1>1, <1>2, <1>3, <2>2
  <2>4. u[i + 1] = s[(i + 1) + 1] /\ u[i + 2] = s[(i + 1) + 2]
    BY <1>1, <1>2, <1>3, <2>3
  <2> QED BY <2>2, <2>3, <2>4
<1>4. u \in Plans
  BY <1>1, <1>3 DEF Plans, WellFormed
<1> QED BY <1>4 DEF u

(* After an EnsureChain that failed, two calls are left.                   *)
LEMMA PlanCutShort ==
  ASSUME NEW s \in Plans, s # <<>>, Head(s).op = "ensure"
  PROVE  SubSeq(s, 2, 3) \in Plans /\ SubSeq(s, 2, 3) # <<>>
<1> DEFINE u == SubSeq(s, 2, 3)
<1>1. s \in Seq(Call) /\ Len(s) \in Nat /\ DOMAIN s = 1 .. Len(s) /\ Len(s) # 0
  BY LenProperties, EmptySeq DEF Plans
<1>2. s[1].op = "ensure" /\ 1 \in DOMAIN s
  BY <1>1
<1>3. 1 + 2 \in DOMAIN s /\ s[1 + 1].op # "ensure" /\ s[1 + 2].op # "ensure"
  BY <1>2 DEF Plans, WellFormed
<1>4. \A i \in 2 .. 3 : s[i] \in Call
  BY <1>1, <1>3, ElementOfSeq
<1>5. u \in Seq(Call) /\ Len(u) = 2 /\ u[1] = s[2] /\ u[2] = s[3]
  <2>1. /\ u \in Seq(Call) /\ Len(u) = IF 2 <= 3 THEN 3 - 2 + 1 ELSE 0
        /\ \A i \in 1 .. 3 - 2 + 1 : u[i] = s[2 + i - 1]
    BY <1>4, SubSeqProperties
  <2> QED BY <2>1
<1> HIDE DEF u
<1>6. DOMAIN u = 1 .. 2
  BY <1>5, LenProperties
<1>7. WellFormed(u)
  BY <1>3, <1>5, <1>6 DEF WellFormed
<1>8. u # <<>>
  BY <1>5, EmptySeq
<1> QED BY <1>5, <1>7, <1>8 DEF Plans, u

(* What is provisioned into a chain is a plan.                             *)
LEMMA RulesPlan ==
  ASSUME NEW f \in Families, NEW c \in Chain, NEW rs \in Seq(Rule)
  PROVE  ProvisionRulesIntoChain(f, c, rs) \in Plans
<1> DEFINE all == IF c \in BuiltIn \/ rs = <<>> THEN rs ELSE Append(rs, Return)
           u == [i \in DOMAIN all |-> [op |-> "append", family |-> f, chain |-> c, rule |-> all[i]]]
<1>1. all \in Seq(Rule)
  BY RuleTypes, AppendProperties
<1>2. Len(all) \in Nat /\ DOMAIN all = 1 .. Len(all) /\ \A i \in DOMAIN all : all[i] \in Rule
  BY <1>1, LenProperties, ElementOfSeq
<1> HIDE DEF all
<1>3. \A i \in 1 .. Len(all) :
        [op |-> "append", family |-> f, chain |-> c, rule |-> all[i]] \in Call
  BY <1>2 DEF Call
<1>4. u \in Seq(Call)
  <2>1. u \in [1 .. Len(all) -> Call]
    BY <1>2, <1>3
  <2> HIDE DEF u
  <2> QED BY <1>2, <2>1, SeqDef
<1>5. \A i \in DOMAIN u : u[i].op = "append"
  BY <1>2
<1> HIDE DEF u
<1>6. u \in Plans
  BY <1>4, <1>5 DEF Plans, WellFormed
<1> QED BY <1>6 DEF ProvisionRulesIntoChain, u, all

LEMMA TripleConcat ==
  ASSUME NEW a, NEW b, NEW c
  PROVE  <<a, b>> \o <<c>> = <<a, b, c>>
<1> DEFINE S == {a, b, c}
           s == <<a, b>>
           t == <<c>>
           u == <<a, b, c>>
<1>1. s \in Seq(S) /\ t \in Seq(S) /\ u \in Seq(S)
  OBVIOUS
<1>2. /\ Len(s) = 2 /\ s[1] = a /\ s[2] = b /\ Len(t) = 1 /\ t[1] = c
      /\ Len(u) = 3 /\ u[1] = a /\ u[2] = b /\ u[3] = c
  OBVIOUS
<1> HIDE DEF S, s, t, u
<1>3. /\ s \o t \in Seq(S) /\ Len(s \o t) = Len(s) + Len(t)
      /\ \A i \in 1 .. Len(s) + Len(t) : (s \o t)[i] = IF i <= Len(s) THEN s[i] ELSE t[i - Len(s)]
  BY <1>1, ConcatProperties
<1>4. Len(s \o t) = Len(u) /\ \A i \in 1 .. Len(s \o t) : (s \o t)[i] = u[i]
  BY <1>2, <1>3
<1>5. s \o t = u
  BY <1>1, <1>3, <1>4, SeqEqual
<1> QED BY <1>5 DEF s, t, u

(* The three calls of EnsureChain.                                         *)
LEMMA EnsureCalls ==
  ASSUME NEW rs, NEW f, NEW dir \in Dirs, rs[f][dir] # <<>>
  PROVE  EnsureChain(rs, f, dir) =
           << [op |-> "ensure", family |-> f, chain |-> dir],
              [op |-> "flush", family |-> f, chain |-> dir],
              [op |-> "append", family |-> f, chain |-> BuiltInOf(dir), rule |-> Jump(dir)] >>
<1> DEFINE jump == [op |-> "append", family |-> f, chain |-> BuiltInOf(dir), rule |-> Jump(dir)]
           head == << [op |-> "ensure", family |-> f, chain |-> dir],
                      [op |-> "flush", family |-> f, chain |-> dir] >>
           one == <<Jump(dir)>>
<1>1. BuiltInOf(dir) \in BuiltIn
  BY DEF BuiltInOf, BuiltIn, Dirs
<1>2. ProvisionRulesIntoChain(f, BuiltInOf(dir), one) = <<jump>>
  <2>1. DOMAIN one = 1 .. 1 /\ one[1] = Jump(dir)
    OBVIOUS
  <2>2. ProvisionRulesIntoChain(f, BuiltInOf(dir), one)
          = [i \in DOMAIN one |->
               [op |-> "append", family |-> f, chain |-> BuiltInOf(dir), rule |-> one[i]]]
    BY <1>1 DEF ProvisionRulesIntoChain
  <2> HIDE DEF one
  <2>3. [i \in DOMAIN one |->
           [op |-> "append", family |-> f, chain |-> BuiltInOf(dir), rule |-> one[i]]]
          = [i \in 1 .. 1 |-> jump]
    BY <2>1
  <2>4. [i \in 1 .. 1 |-> jump] = <<jump>>
    <3> HIDE DEF jump
    <3> QED OBVIOUS
  <2> QED BY <2>2, <2>3, <2>4
<1>3. head \o <<jump>> = << [op |-> "ensure", family |-> f, chain |-> dir],
                            [op |-> "flush", family |-> f, chain |-> dir], jump >>
  <2> HIDE DEF jump
  <2> QED BY TripleConcat
<1> QED BY <1>2, <1>3 DEF EnsureChain

LEMMA EnsurePlan ==
  ASSUME NEW rs \in RuleSets, NEW f \in Families, NEW dir \in Dirs
  PROVE  EnsureChain(rs, f, dir) \in Plans
<1>1. CASE rs[f][dir] = <<>>
  BY <1>1, EmptySeq DEF EnsureChain, Plans, WellFormed
<1>2. CASE rs[f][dir] # <<>>
  <2> DEFINE jump == [op |-> "append", family |-> f, chain |-> BuiltInOf(dir), rule |-> Jump(dir)]
             u == << [op |-> "ensure", family |-> f, chain |-> dir],
                     [op |-> "flush", family |-> f, chain |-> dir], jump >>
  <2>1. BuiltInOf(dir) \in Chain
    BY DEF BuiltInOf, BuiltIn, Chain, Dirs
  <2>2. jump \in Call
    BY <2>1, RuleTypes DEF Call
  <2>3. /\ [op |-> "ensure", family |-> f, chain |-> dir] \in Call
        /\ [op |-> "flush", family |-> f, chain |-> dir] \in Call
    BY DEF Call
  <2>4. EnsureChain(rs, f, dir) = u
    BY <1>2, EnsureCalls
  <2>5. u \in Seq(Call) /\ DOMAIN u = 1 .. 3
    <3> HIDE DEF jump
    <3> QED BY <2>2, <2>3
  <2>6. u[2].op = "flush" /\ u[3].op = "append"
    OBVIOUS
  <2> HIDE DEF u
  <2>7. u \in Plans
    BY <2>5, <2>6 DEF Plans, WellFormed
  <2> QED BY <2>4, <2>7
<1> QED BY <1>1, <1>2

LEMMA DynamicPlan ==
  ASSUME NEW rs \in RuleSets, NEW f \in Families, NEW dir \in Dirs
  PROVE  DynamicRules(rs, f, dir) \in Plans
<1> DEFINE list == rs[f][dir]
           accepts == [i \in DOMAIN list |-> Accept(list[i])]
<1>1. list \in Seq(Peers)
  BY RuleSetsAssumption DEF NetRuleSet
<1>2. Len(list) \in Nat /\ DOMAIN list = 1 .. Len(list) /\ \A i \in DOMAIN list : list[i] \in Peers
  BY <1>1, LenProperties, ElementOfSeq
<1> HIDE DEF list
<1>3. accepts \in [1 .. Len(list) -> Rule]
  BY <1>2, RuleTypes DEF Packets
<1> HIDE DEF accepts
<1>4. accepts \in Seq(Rule)
  BY <1>2, <1>3, SeqDef
<1>5. dir \in Chain
  BY DEF Chain
<1> QED BY <1>4, <1>5, RulesPlan DEF DynamicRules, list, accepts

LEMMA DefaultRulesTypes == DefaultRules \in [BuiltIn -> Seq(Rule)]
<1>1. /\ Accept("lo") \in Rule /\ Accept("established") \in Rule
      /\ Accept("tcp53") \in Rule /\ Accept("udp53") \in Rule /\ Reject \in Rule
  BY RuleTypes DEF Packets, Defaults
<1>2. /\ DefaultRules.INPUT \in Seq(Rule) /\ DefaultRules.OUTPUT \in Seq(Rule)
      /\ DefaultRules.FORWARD \in Seq(Rule)
  BY <1>1 DEF DefaultRules
<1>3. /\ DOMAIN DefaultRules = BuiltIn
      /\ DefaultRules = [c \in BuiltIn |-> DefaultRules[c]]
  BY DEF DefaultRules, BuiltIn
<1> QED BY <1>2, <1>3 DEF BuiltIn

(* What AddRulesToNewPod issues is a plan, and not an empty one.           *)
LEMMA ProvisioningPlan ==
  ASSUME NEW rs \in RuleSets
  PROVE  AddRulesToNewPod(rs) \in Plans /\ AddRulesToNewPod(rs) # <<>>
<1>1. EnsureChains(rs) \in Plans
  BY EnsurePlan, PlanConcat DEF EnsureChains, Families, Dirs
<1>2. ProvisionDynamicRules(rs) \in Plans
  BY DynamicPlan, PlanConcat DEF ProvisionDynamicRules, Families, Dirs
<1>3. ASSUME NEW f \in Families PROVE DefaultsOf(f) \in Plans
  <2>1. \A c \in BuiltIn : c \in Chain /\ DefaultRules[c] \in Seq(Rule)
    BY DefaultRulesTypes DEF Chain
  <2>2. /\ ProvisionRulesIntoChain(f, "INPUT", DefaultRules.INPUT) \in Plans
        /\ ProvisionRulesIntoChain(f, "OUTPUT", DefaultRules.OUTPUT) \in Plans
        /\ ProvisionRulesIntoChain(f, "FORWARD", DefaultRules.FORWARD) \in Plans
    BY <2>1, RulesPlan DEF BuiltIn
  <2> QED BY <2>2, PlanConcat DEF DefaultsOf
<1>4. ProvisionDefaultRules \in Plans
  BY <1>3, PlanConcat DEF ProvisionDefaultRules, Families
<1>5. <<[op |-> "enter"]>> \in Plans /\ <<[op |-> "enter"]>> # <<>>
  <2> DEFINE e == <<[op |-> "enter"]>>
  <2>1. [op |-> "enter"] \in Call
    BY DEF Call
  <2>2. e \in Seq(Call) /\ Len(e) = 1 /\ DOMAIN e = 1 .. 1 /\ e[1].op = "enter"
    BY <2>1
  <2> HIDE DEF e
  <2>3. e \in Plans /\ e # <<>>
    BY <2>2, EmptySeq DEF Plans, WellFormed
  <2> QED BY <2>3 DEF e
<1> HIDE DEF Plans
<1>6. \A s, t \in Plans : s \o t \in Plans /\ (s # <<>> => s \o t # <<>>)
  BY PlanConcat, ConcatEqualIffEmpty DEF Plans
<1> QED BY <1>1, <1>2, <1>4, <1>5, <1>6 DEF AddRulesToNewPod

-----------------------------------------------------------------------------
(* Type correctness.                                                       *)

(* What is whitelisted are packets.                                        *)
LEMMA WhiteTypes ==
  ASSUME NEW rs \in RuleSets
  PROVE  White(rs) \in [Paths -> SUBSET Packets]
<1>1. ASSUME NEW path \in Paths PROVE Always[path] \subseteq Packets
  <2>1. BuiltInOf(path[2]) \in BuiltIn
    BY DEF Paths, Dirs, BuiltInOf, BuiltIn
  <2>2. DefaultRules[BuiltInOf(path[2])] \in Seq(Rule)
    BY <2>1, DefaultRulesTypes
  <2>3. \A rule \in Range(DefaultRules[BuiltInOf(path[2])]) : rule.match \in Packets \union {"any"}
    <3> DEFINE s == DefaultRules[BuiltInOf(path[2])]
    <3>1. \A i \in DOMAIN s : s[i] \in Rule
      BY <2>2, ElementOfSeq, LenProperties
    <3> HIDE DEF s
    <3> QED BY <3>1 DEF Range, Rule, s
  <2> QED BY <2>3 DEF Always
<1>2. ASSUME NEW path \in Paths, path[2] \in Dirs
      PROVE  Range(rs[path[1]][path[2]]) \subseteq Packets
  <2>1. rs[path[1]][path[2]] \in Seq(Peers)
    BY <1>2, RuleSetsAssumption DEF NetRuleSet, Paths
  <2> QED BY <2>1, ElementOfSeq, LenProperties DEF Range, Packets
<1> QED BY <1>1, <1>2 DEF White

LEMMA InitTyped == Init => Typed
<1> SUFFICES ASSUME Init PROVE Typed
  OBVIOUS
<1>1. /\ plan \in Seq(Call) /\ plan = <<>>
      /\ table \in [Families -> [Chain -> Seq(Rule)]]
  BY EmptySeq DEF Init
<1>2. listed \in [Paths -> SUBSET Packets] /\ rules \in RuleSets
  BY WhiteTypes DEF Init
<1>3. 0 \in 0 .. MaxRuns /\ 0 \in 0 .. MaxErrors
  BY BoundsAssumption
<1> QED BY <1>1, <1>2, <1>3 DEF Init, Typed, Outcomes

(* A rule that is ensured has its type.                                    *)
LEMMA EnsureRuleType ==
  ASSUME table \in [Families -> [Chain -> Seq(Rule)]],
         NEW f \in Families, NEW c \in Chain, NEW rule \in Rule, EnsureRule(f, c, rule)
  PROVE  table' \in [Families -> [Chain -> Seq(Rule)]]
<1>1. Append(table[f][c], rule) \in Seq(Rule)
  BY AppendProperties
<1>2. CASE CanHold(f, c, rule) /\ rule \notin Range(table[f][c])
  <2>1. table' = [table EXCEPT ![f][c] = Append(@, rule)]
    BY <1>2 DEF EnsureRule
  <2> QED BY <1>1, <2>1
<1>3. CASE ~(CanHold(f, c, rule) /\ rule \notin Range(table[f][c]))
  BY <1>3 DEF EnsureRule
<1> QED BY <1>2, <1>3

(* The inductive invariant of the types: the calls left are a plan.        *)
TInv == Typed /\ WellFormed(plan)

LEMMA PlanLeft ==
  ASSUME TInv
  PROVE  plan \in Plans
BY DEF TInv, Typed, Plans

LEMMA AdvanceType ==
  ASSUME TInv, plan # <<>>, Advance
  PROVE  /\ plan' \in Plans /\ outcome' \in Outcomes
         /\ plan' # <<>> <=> outcome' \in {"running", "aborting"}
<1>1. Tail(plan) \in Plans
  BY PlanLeft, PlanTail
<1>2. outcome \in {"running", "aborting"}
  BY DEF TInv, Typed
<1> QED BY <1>1, <1>2 DEF Advance, Outcomes

LEMMA StartType ==
  ASSUME TInv, NEW rs \in RuleSets, Start(rs)
  PROVE  TInv'
<1>1. plan' \in Plans /\ plan' # <<>> /\ outcome' = "running"
  BY ProvisioningPlan DEF Start
<1>2. listed' \in [Paths -> SUBSET Packets]
  BY WhiteTypes DEF Start, TInv, Typed
<1>3. runs' \in 0 .. MaxRuns
  BY BoundsAssumption DEF Start, TInv, Typed
<1>4. rules' \in RuleSets
  BY DEF Start
<1> QED BY <1>1, <1>2, <1>3, <1>4 DEF Start, TInv, Typed, Plans, Outcomes

LEMMA ExecuteType ==
  ASSUME TInv, Execute
  PROVE  TInv'
<1>1. plan # <<>> /\ Advance /\ UNCHANGED <<rules, listed, runs, errors>>
  BY DEF Execute
<1>2. /\ plan' \in Plans /\ outcome' \in Outcomes
      /\ plan' # <<>> <=> outcome' \in {"running", "aborting"}
  BY <1>1, AdvanceType
<1> DEFINE call == Head(plan)
<1>3. call \in Call
  BY <1>1, HeadTailProperties DEF TInv, Typed
<1>4. /\ chains' \in [Families -> SUBSET Dirs]
      /\ table' \in [Families -> [Chain -> Seq(Rule)]]
  <2>1. CASE call.op = "enter" /\ UNCHANGED <<chains, table>>
    BY <2>1 DEF TInv, Typed
  <2>2. CASE /\ call.op = "ensure" /\ UNCHANGED table
             /\ chains' = [chains EXCEPT ![call.family] = @ \union {call.chain}]
    BY <1>3, <2>2, CallFields DEF TInv, Typed
  <2>3. CASE /\ call.op = "flush" /\ UNCHANGED chains
             /\ table' = [table EXCEPT ![call.family][call.chain] = <<>>]
    <3> HIDE DEF call
    <3>1. call.family \in Families /\ call.chain \in Chain /\ <<>> \in Seq(Rule)
      BY <1>3, <2>3, CallFields, EmptySeq DEF Chain
    <3> QED BY <2>3, <3>1 DEF TInv, Typed
  <2>4. CASE /\ call.op = "append" /\ UNCHANGED chains
             /\ EnsureRule(call.family, call.chain, call.rule)
    <3> HIDE DEF call
    <3>1. call.family \in Families /\ call.chain \in Chain /\ call.rule \in Rule
      BY <1>3, <2>4, CallFields
    <3> QED BY <2>4, <3>1, EnsureRuleType DEF TInv, Typed
  <2> QED BY <2>1, <2>2, <2>3, <2>4 DEF Execute
<1> QED BY <1>1, <1>2, <1>4 DEF TInv, Typed, Plans

LEMMA FailType ==
  ASSUME TInv, Fail
  PROVE  TInv'
<1>1. plan # <<>> /\ errors' = errors + 1 /\ errors < MaxErrors
      /\ UNCHANGED <<rules, chains, table, listed, runs>>
  BY DEF Fail
<1>2. errors' \in 0 .. MaxErrors
  BY <1>1, BoundsAssumption DEF TInv, Typed
<1>3. /\ plan' \in Plans /\ outcome' \in Outcomes
      /\ plan' # <<>> <=> outcome' \in {"running", "aborting"}
  <2>1. CASE Head(plan).op = "enter" /\ plan' = <<>> /\ outcome' = "aborted"
    BY <2>1, EmptySeq DEF Plans, WellFormed, Outcomes
  <2>2. CASE Head(plan).op = "ensure" /\ plan' = SubSeq(plan, 2, 3) /\ outcome' = "aborting"
    BY <1>1, <2>2, PlanLeft, PlanCutShort DEF Outcomes
  <2>3. CASE Advance
    BY <1>1, <2>3, AdvanceType
  <2> QED BY <2>1, <2>2, <2>3 DEF Fail
<1> QED BY <1>1, <1>2, <1>3 DEF TInv, Typed, Plans

LEMMA TypeInvariance == Spec => []TInv
<1>1. Init => TInv
  BY InitTyped DEF Init, TInv, WellFormed
<1>2. TInv /\ [Next]_vars => TInv'
  <2> SUFFICES ASSUME TInv, [Next]_vars PROVE TInv'
    OBVIOUS
  <2>1. ASSUME NEW rs \in RuleSets, Start(rs) PROVE TInv'
    BY <2>1, StartType
  <2>2. CASE Execute
    BY <2>2, ExecuteType
  <2>3. CASE Fail
    BY <2>3, FailType
  <2>4. CASE UNCHANGED vars
    BY <2>4 DEF vars, TInv, Typed, WellFormed
  <2> QED BY <2>1, <2>2, <2>3, <2>4 DEF Next
<1> QED BY <1>1, <1>2, PTL DEF Spec

-----------------------------------------------------------------------------
(* Nobody unlisted on a closed path.                                       *)

(* Rules that belong into a chain: those in place there, an accept only    *)
(* for what is on the list of each path through the chain.                 *)
FitRules(lists, f, c) ==
  {rule \in Rule :
     /\ rule.target = "ACCEPT" =>
          /\ rule.match # "any"
          /\ \A path \in Paths :
               path[1] = f /\ c \in {path[2], BuiltInOf(path[2])} => rule.match \in lists[path]
     /\ InPlace(f, c, rule)}

FitCalls(lists) ==
  {call \in Call : call.op = "append" => call.rule \in FitRules(lists, call.family, call.chain)}

(* A rule that belongs somewhere belongs there when lists grow.            *)
LEMMA FitGrows ==
  ASSUME NEW old \in [Paths -> SUBSET Packets], NEW new \in [Paths -> SUBSET Packets],
         \A path \in Paths : old[path] \subseteq new[path]
  PROVE  /\ \A f \in Families, c \in Chain : FitRules(old, f, c) \subseteq FitRules(new, f, c)
         /\ FitCalls(old) \subseteq FitCalls(new)
<1>1. \A f \in Families, c \in Chain : FitRules(old, f, c) \subseteq FitRules(new, f, c)
  BY DEF FitRules
<1>2. ASSUME NEW call \in FitCalls(old) PROVE call \in FitCalls(new)
  BY <1>1, CallFields DEF FitCalls
<1> QED BY <1>1, <1>2

LEMMA SeqGrows ==
  ASSUME NEW S, NEW T, S \subseteq T, NEW s \in Seq(S)
  PROVE  s \in Seq(T)
OBVIOUS

LEMMA ReturnFits ==
  ASSUME NEW lists, NEW f \in Families, NEW c \in Chain
  PROVE  c \notin BuiltIn => Return \in FitRules(lists, f, c)
BY RuleTypes DEF FitRules, InPlace, Return, Reject, Dirs, Chain

(* What is provisioned into a chain belongs there if its rules do.         *)
LEMMA RulesFit ==
  ASSUME NEW lists, NEW f \in Families, NEW c \in Chain, NEW rs \in Seq(FitRules(lists, f, c))
  PROVE  ProvisionRulesIntoChain(f, c, rs) \in Seq(FitCalls(lists))
<1> DEFINE all == IF c \in BuiltIn \/ rs = <<>> THEN rs ELSE Append(rs, Return)
           append(rule) == [op |-> "append", family |-> f, chain |-> c, rule |-> rule]
           u == [i \in DOMAIN all |-> append(all[i])]
<1>1. all \in Seq(FitRules(lists, f, c))
  BY ReturnFits, AppendProperties
<1>2. /\ Len(all) \in Nat /\ DOMAIN all = 1 .. Len(all)
      /\ \A i \in DOMAIN all : all[i] \in FitRules(lists, f, c)
  BY <1>1, LenProperties, ElementOfSeq
<1> HIDE DEF all
<1>3. ASSUME NEW rule \in FitRules(lists, f, c) PROVE append(rule) \in FitCalls(lists)
  <2>1. rule \in Rule
    BY DEF FitRules
  <2>2. append(rule) \in Call
    BY <2>1 DEF Call
  <2> QED BY <2>2 DEF FitCalls
<1>4. u \in [1 .. Len(all) -> FitCalls(lists)]
  <2> HIDE DEF append
  <2> QED BY <1>2, <1>3
<1> HIDE DEF u
<1>5. u \in Seq(FitCalls(lists))
  BY <1>2, <1>4, SeqDef
<1> QED BY <1>5 DEF ProvisionRulesIntoChain, u, all

LEMMA EnsureFits ==
  ASSUME NEW lists, NEW rs \in RuleSets, NEW f \in Families, NEW dir \in Dirs
  PROVE  EnsureChain(rs, f, dir) \in Seq(FitCalls(lists))
<1> DEFINE c == BuiltInOf(dir)
           head == << [op |-> "ensure", family |-> f, chain |-> dir],
                      [op |-> "flush", family |-> f, chain |-> dir] >>
<1>1. c \in Chain
  BY DEF BuiltInOf, BuiltIn, Chain, Dirs
<1>2. Jump(dir) \in FitRules(lists, f, c)
  BY RuleTypes DEF FitRules, InPlace, Jump, Return, Reject, Dirs
<1>3. <<Jump(dir)>> \in Seq(FitRules(lists, f, c))
  BY <1>2
<1>4. ProvisionRulesIntoChain(f, c, <<Jump(dir)>>) \in Seq(FitCalls(lists))
  <2> HIDE DEF c
  <2> QED BY <1>1, <1>3, RulesFit
<1>5. /\ [op |-> "ensure", family |-> f, chain |-> dir] \in FitCalls(lists)
      /\ [op |-> "flush", family |-> f, chain |-> dir] \in FitCalls(lists)
  BY DEF FitCalls, Call
<1>6. head \in Seq(FitCalls(lists))
  BY <1>5
<1> HIDE DEF head, c
<1>7. head \o ProvisionRulesIntoChain(f, c, <<Jump(dir)>>) \in Seq(FitCalls(lists))
  BY <1>4, <1>6, ConcatProperties
<1> QED BY <1>7, EmptySeq DEF EnsureChain, head, c

(* The rules of each chain are on the list the NetRuleSet makes for it.    *)
LEMMA DynamicFits ==
  ASSUME NEW rs \in RuleSets, NEW f \in Families, NEW dir \in Dirs
  PROVE  DynamicRules(rs, f, dir) \in Seq(FitCalls(White(rs)))
<1> DEFINE list == rs[f][dir]
           accepts == [i \in DOMAIN list |-> Accept(list[i])]
<1>1. list \in Seq(Peers)
  BY RuleSetsAssumption DEF NetRuleSet
<1>2. Len(list) \in Nat /\ DOMAIN list = 1 .. Len(list) /\ \A i \in DOMAIN list : list[i] \in Peers
  BY <1>1, LenProperties, ElementOfSeq
<1>3. ASSUME NEW i \in DOMAIN list PROVE Accept(list[i]) \in FitRules(White(rs), f, dir)
  <2>1. list[i] # "any" /\ Accept(list[i]) \in Rule
    BY <1>2, PeersAssumption, RuleTypes DEF Packets
  <2>2. ASSUME NEW path \in Paths, path[1] = f, dir \in {path[2], BuiltInOf(path[2])}
        PROVE  list[i] \in White(rs)[path]
    <3>1. path[2] = dir
      BY <2>2 DEF Paths, Dirs, BuiltInOf
    <3>2. list[i] \in Range(rs[path[1]][path[2]])
      BY <2>2, <3>1 DEF Range
    <3> QED BY <3>1, <3>2 DEF White
  <2>3. /\ Accept(list[i]).match = list[i] /\ Accept(list[i]).target = "ACCEPT"
        /\ InPlace(f, dir, Accept(list[i]))
    BY DEF Accept, Dirs, InPlace, Return, Reject
  <2> HIDE DEF list
  <2> QED BY <2>1, <2>2, <2>3 DEF FitRules
<1>4. accepts \in [1 .. Len(list) -> FitRules(White(rs), f, dir)]
  <2> HIDE DEF list
  <2> QED BY <1>2, <1>3
<1> HIDE DEF list, accepts
<1>5. accepts \in Seq(FitRules(White(rs), f, dir))
  BY <1>2, <1>4, SeqDef
<1>6. dir \in Chain
  BY DEF Chain
<1> QED BY <1>5, <1>6, RulesFit DEF DynamicRules, list, accepts

LEMMA DefaultFits ==
  ASSUME NEW rs \in RuleSets, NEW f \in Families, NEW c \in BuiltIn
  PROVE  ProvisionRulesIntoChain(f, c, DefaultRules[c]) \in Seq(FitCalls(White(rs)))
<1> DEFINE list == DefaultRules[c]
<1>1. /\ list \in Seq(Rule) /\ Len(list) \in Nat /\ DOMAIN list = 1 .. Len(list)
      /\ \A i \in DOMAIN list : list[i] \in Rule
  BY DefaultRulesTypes, LenProperties, ElementOfSeq
<1>2. \A i \in DOMAIN list :
        /\ list[i].target \in {"ACCEPT", "REJECT"}
        /\ list[i].target = "ACCEPT" => list[i].match # "any"
  BY DEF DefaultRules, BuiltIn, Accept, Reject
<1>3. ASSUME NEW i \in DOMAIN list PROVE list[i] \in FitRules(White(rs), f, c)
  <2>1. InPlace(f, c, list[i])
    BY <1>2 DEF InPlace, Return, Dirs
  <2>2. ASSUME NEW path \in Paths, c \in {path[2], BuiltInOf(path[2])},
               list[i].match # "any"
        PROVE  list[i].match \in White(rs)[path]
    <3>1. c = BuiltInOf(path[2])
      BY <2>2 DEF Paths, Dirs, BuiltIn
    <3>2. list[i] \in Range(DefaultRules[BuiltInOf(path[2])])
      BY <3>1 DEF Range
    <3>3. list[i].match \in Always[path]
      <4> HIDE DEF list
      <4> QED BY <2>2, <3>2 DEF Always
    <3> QED BY <3>3 DEF White
  <2> HIDE DEF list
  <2> QED BY <1>1, <1>2, <2>1, <2>2 DEF FitRules
<1> HIDE DEF list
<1>4. list \in Seq(FitRules(White(rs), f, c))
  <2>1. list \in [1 .. Len(list) -> FitRules(White(rs), f, c)]
    BY <1>1, <1>3
  <2> QED BY <1>1, <2>1, SeqDef
<1>5. c \in Chain
  BY DEF Chain
<1> QED BY <1>4, <1>5, RulesFit DEF list

LEMMA ProvisioningFits ==
  ASSUME NEW rs \in RuleSets
  PROVE  AddRulesToNewPod(rs) \in Seq(FitCalls(White(rs)))
<1> DEFINE S == FitCalls(White(rs))
<1>1. \A s, t \in Seq(S) : s \o t \in Seq(S)
  <2> HIDE DEF S
  <2> QED BY ConcatProperties
<1>2. EnsureChains(rs) \in Seq(S)
  <2>1. \A f \in Families, dir \in Dirs : EnsureChain(rs, f, dir) \in Seq(S)
    BY EnsureFits
  <2> HIDE DEF S
  <2> QED BY <1>1, <2>1 DEF EnsureChains, Families, Dirs
<1>3. ProvisionDynamicRules(rs) \in Seq(S)
  <2>1. \A f \in Families, dir \in Dirs : DynamicRules(rs, f, dir) \in Seq(S)
    BY DynamicFits
  <2> HIDE DEF S
  <2> QED BY <1>1, <2>1 DEF ProvisionDynamicRules, Families, Dirs
<1>4. ASSUME NEW f \in Families PROVE DefaultsOf(f) \in Seq(S)
  <2>1. \A c \in BuiltIn : ProvisionRulesIntoChain(f, c, DefaultRules[c]) \in Seq(S)
    BY DefaultFits
  <2>2. /\ ProvisionRulesIntoChain(f, "INPUT", DefaultRules.INPUT) \in Seq(S)
        /\ ProvisionRulesIntoChain(f, "OUTPUT", DefaultRules.OUTPUT) \in Seq(S)
        /\ ProvisionRulesIntoChain(f, "FORWARD", DefaultRules.FORWARD) \in Seq(S)
    BY <2>1 DEF BuiltIn
  <2> HIDE DEF S
  <2> QED BY <1>1, <2>2 DEF DefaultsOf
<1>5. ProvisionDefaultRules \in Seq(S)
  <2> HIDE DEF S
  <2> QED BY <1>1, <1>4 DEF ProvisionDefaultRules, Families
<1>6. [op |-> "enter"] \in S
  BY DEF FitCalls, Call
<1>7. <<[op |-> "enter"]>> \in Seq(S)
  BY <1>6
<1> HIDE DEF S
<1>8. AddRulesToNewPod(rs) \in Seq(S)
  BY <1>1, <1>2, <1>3, <1>5, <1>7 DEF AddRulesToNewPod
<1> QED BY <1>8 DEF S

(* The inductive invariant: what is in the tables, and what is to come,    *)
(* belongs where it is put.                                                *)
Fitting ==
  /\ \A f \in Families, c \in Chain : table[f][c] \in Seq(FitRules(listed, f, c))
  /\ plan \in Seq(FitCalls(listed))

LEMMA StartFits ==
  ASSUME TInv, Fitting, NEW rs \in RuleSets, Start(rs)
  PROVE  Fitting'
<1>1. /\ listed \in [Paths -> SUBSET Packets] /\ White(rs) \in [Paths -> SUBSET Packets]
      /\ listed' = [path \in Paths |-> listed[path] \union White(rs)[path]]
      /\ plan' = AddRulesToNewPod(rs) /\ table' = table
  BY WhiteTypes DEF Start, TInv, Typed
<1>2. listed' \in [Paths -> SUBSET Packets]
  BY <1>1
<1>3. \A path \in Paths : listed[path] \subseteq listed'[path] /\ White(rs)[path] \subseteq listed'[path]
  BY <1>1
<1>4. \A f \in Families, c \in Chain : FitRules(listed, f, c) \subseteq FitRules(listed', f, c)
  BY <1>1, <1>2, <1>3, FitGrows
<1>5. FitCalls(White(rs)) \subseteq FitCalls(listed')
  BY <1>1, <1>2, <1>3, FitGrows
<1>6. plan' \in Seq(FitCalls(listed'))
  BY <1>1, <1>5, ProvisioningFits, SeqGrows
<1>7. ASSUME NEW f \in Families, NEW c \in Chain
      PROVE  table'[f][c] \in Seq(FitRules(listed', f, c))
  <2>1. table[f][c] \in Seq(FitRules(listed, f, c))
    BY DEF Fitting
  <2> QED BY <1>1, <1>4, <2>1, SeqGrows
<1> QED BY <1>6, <1>7 DEF Fitting

LEMMA ExecuteFits ==
  ASSUME TInv, Fitting, Execute
  PROVE  Fitting'
<1> DEFINE call == Head(plan)
<1>1. plan # <<>> /\ Advance /\ listed' = listed
  BY DEF Execute
<1>2. call \in Call /\ call \in FitCalls(listed)
  BY <1>1, HeadTailProperties DEF TInv, Typed, Fitting
<1>3. plan' \in Seq(FitCalls(listed'))
  BY <1>1, HeadTailProperties DEF Fitting, Advance
<1>4. table \in [Families -> [Chain -> Seq(Rule)]]
  BY DEF TInv, Typed
<1>5. ASSUME NEW f \in Families, NEW c \in Chain
      PROVE  table'[f][c] \in Seq(FitRules(listed, f, c))
  <2>1. table[f][c] \in Seq(FitRules(listed, f, c))
    BY DEF Fitting
  <2>2. CASE UNCHANGED table
    BY <2>1, <2>2
  <2>3. CASE call.op \in {"enter", "ensure"}
    BY <2>2, <2>3 DEF Execute
  <2>4. CASE call.op = "flush"
    <3>1. call.family \in Families /\ call.chain \in Dirs
      BY <1>2, <2>4, CallFields
    <3>2. table' = [table EXCEPT ![call.family][call.chain] = <<>>]
      BY <2>4 DEF Execute
    <3> HIDE DEF call
    <3>3. table'[f][c] = <<>> \/ table'[f][c] = table[f][c]
      BY <1>4, <3>1, <3>2 DEF Chain
    <3> QED BY <2>1, <3>3, EmptySeq
  <2>5. CASE call.op = "append"
    <3>1. /\ call.family \in Families /\ call.chain \in Chain
          /\ call.rule \in FitRules(listed, call.family, call.chain)
      BY <1>2, <2>5, CallFields DEF FitCalls
    <3>2. EnsureRule(call.family, call.chain, call.rule)
      BY <2>5 DEF Execute
    <3> HIDE DEF call
    <3>3. CASE table' = [table EXCEPT ![call.family][call.chain] = Append(@, call.rule)]
      <4>1. CASE f = call.family /\ c = call.chain
        <5>1. table'[f][c] = Append(table[f][c], call.rule)
          BY <1>4, <3>3, <4>1
        <5> QED BY <2>1, <3>1, <4>1, <5>1, AppendProperties
      <4>2. CASE ~(f = call.family /\ c = call.chain)
        BY <1>4, <2>1, <3>1, <3>3, <4>2
      <4> QED BY <4>1, <4>2
    <3> QED BY <2>2, <3>2, <3>3 DEF EnsureRule
  <2> QED BY <1>2, <2>3, <2>4, <2>5, CallFields
<1> QED BY <1>1, <1>3, <1>5 DEF Fitting

LEMMA FailFits ==
  ASSUME TInv, Fitting, Fail
  PROVE  Fitting'
<1> DEFINE S == FitCalls(listed)
<1>1. plan \in Seq(S) /\ plan # <<>> /\ UNCHANGED <<table, listed>>
  BY DEF Fail, Fitting
<1>2. plan' \in Seq(S)
  <2>1. CASE plan' = <<>>
    BY <2>1, EmptySeq
  <2>2. CASE Head(plan).op = "ensure" /\ plan' = SubSeq(plan, 2, 3)
    <3>1. WellFormed(plan) /\ plan \in Seq(Call)
      BY DEF TInv, Typed
    <3>2. Len(plan) \in Nat /\ DOMAIN plan = 1 .. Len(plan) /\ Len(plan) # 0
      BY <1>1, <3>1, LenProperties, EmptySeq
    <3>3. 1 + 2 \in DOMAIN plan
      <4>1. 1 \in DOMAIN plan /\ plan[1].op = "ensure"
        BY <2>2, <3>1, <3>2
      <4> QED BY <3>1, <4>1 DEF WellFormed
    <3> HIDE DEF S
    <3>4. \A i \in 2 .. 3 : plan[i] \in S
      BY <1>1, <3>2, <3>3, ElementOfSeq
    <3> QED BY <2>2, <3>4, SubSeqProperties
  <2>3. CASE Advance
    <3> HIDE DEF S
    <3> QED BY <1>1, <2>3, HeadTailProperties DEF Advance
  <2> QED BY <2>1, <2>2, <2>3 DEF Fail
<1> QED BY <1>1, <1>2 DEF Fitting

LEMMA FittingInvariance == Spec => []Fitting
<1>1. Init => Fitting
  BY EmptySeq DEF Init, Fitting
<1>2. TInv /\ Fitting /\ [Next]_vars => Fitting'
  <2> SUFFICES ASSUME TInv, Fitting, [Next]_vars PROVE Fitting'
    OBVIOUS
  <2>1. ASSUME NEW rs \in RuleSets, Start(rs) PROVE Fitting'
    BY <2>1, StartFits
  <2>2. CASE Execute
    BY <2>2, ExecuteFits
  <2>3. CASE Fail
    BY <2>3, FailFits
  <2>4. CASE UNCHANGED vars
    BY <2>4 DEF vars, Fitting
  <2> QED BY <2>1, <2>2, <2>3, <2>4 DEF Next
<1> QED BY <1>1, <1>2, TypeInvariance, PTL DEF Spec

(* A chain of our own accepts what is on the list of its path.             *)
LEMMA OwnChainListed ==
  ASSUME NEW lists, NEW f \in Families, NEW dir \in Dirs,
         table[f][dir] \in Seq(FitRules(lists, f, dir)),
         NEW packet \in Packets, ChainAccepts(f, dir, packet)
  PROVE  packet \in lists[<<f, dir>>]
<1>1. PICK i \in DOMAIN table[f][dir] :
        Matches(table[f][dir][i], packet) /\ table[f][dir][i].target = "ACCEPT"
  BY DEF ChainAccepts
<1> DEFINE rule == table[f][dir][i]
<1>2. dir \in Chain /\ <<f, dir>> \in Paths
  BY DEF Chain, Paths
<1>3. rule \in FitRules(lists, f, dir)
  BY <1>1, ElementOfSeq, LenProperties
<1> HIDE DEF rule
<1>4. rule.match # "any" /\ rule.match \in lists[<<f, dir>>]
  <2>1. rule.target = "ACCEPT"
    BY <1>1 DEF rule
  <2> QED BY <1>2, <1>3, <2>1 DEF FitRules
<1>5. rule.match = packet
  BY <1>1, <1>4 DEF Matches, rule
<1> QED BY <1>4, <1>5

(* A path is shut when there is a REJECT on it; else everybody passes.     *)
Shut(path) == Reject \in Range(table[path[1]][BuiltInOf(path[2])])

LEMMA OpenPath ==
  ASSUME NEW path \in Paths, ~Shut(path)
  PROVE  Accepted[path] = Packets
<1>1. \A packet \in Packets : LetsThrough(path[1], BuiltInOf(path[2]), packet)
  BY DEF Shut, LetsThrough, Range
<1> QED BY <1>1 DEF Accepted

(* What a REJECT does not stop is on the list by which the rules belong    *)
(* where they are.                                                         *)
LEMMA ShutPath ==
  ASSUME NEW lists, NEW path \in Paths, Shut(path),
         table[path[1]][BuiltInOf(path[2])] \in Seq(FitRules(lists, path[1], BuiltInOf(path[2]))),
         path[2] \in Dirs =>
           table[path[1]][path[2]] \in Seq(FitRules(lists, path[1], path[2]))
  PROVE  Accepted[path] \subseteq lists[path]
<1> DEFINE f == path[1]
           c == BuiltInOf(path[2])
<1>1. f \in Families /\ c \in Chain
  BY DEF Paths, Dirs, BuiltInOf, BuiltIn, Chain
<1>2. Accepted[path] = {packet \in Packets : LetsThrough(f, c, packet)}
  BY DEF Accepted
<1>3. PICK i \in DOMAIN table[f][c] : table[f][c][i] = Reject
  BY DEF Shut, Range
<1>4. ASSUME NEW packet \in Packets, LetsThrough(f, c, packet)
      PROVE  packet \in lists[path]
  <2>1. PICK j \in 1 .. i - 1 :
          /\ Matches(table[f][c][j], packet)
          /\ \/ table[f][c][j].target = "ACCEPT"
             \/ table[f][c][j].target \in Dirs /\ ChainAccepts(f, table[f][c][j].target, packet)
    BY <1>3, <1>4 DEF LetsThrough
  <2> DEFINE rule == table[f][c][j]
  <2>2. rule \in FitRules(lists, f, c)
    <3>1. Len(table[f][c]) \in Nat /\ DOMAIN table[f][c] = 1 .. Len(table[f][c])
      BY LenProperties
    <3>2. j \in 1 .. Len(table[f][c])
      BY <1>3, <2>1, <3>1
    <3> QED BY <3>2, ElementOfSeq
  <2>3. CASE rule.target = "ACCEPT"
    <3>1. rule.match # "any" /\ rule.match \in lists[path]
      BY <2>2, <2>3 DEF FitRules
    <3>2. rule.match = packet
      BY <2>1, <3>1 DEF Matches
    <3> QED BY <3>1, <3>2
  <2>4. CASE rule.target \in Dirs /\ ChainAccepts(f, rule.target, packet)
    <3>1. c = BuiltInOf(rule.target)
      BY <2>2, <2>4 DEF FitRules, InPlace
    <3>2. rule.target = path[2] /\ path = <<f, rule.target>>
      <4>1. path[2] \in Dirs \union {"forward"} /\ path = <<path[1], path[2]>>
        BY DEF Paths
      <4>2. \A dir \in Dirs, other \in Dirs \union {"forward"} :
              BuiltInOf(dir) = BuiltInOf(other) => dir = other
        BY DEF Dirs, BuiltInOf
      <4> DEFINE target == rule.target
      <4>3. target \in Dirs /\ BuiltInOf(target) = BuiltInOf(path[2])
        BY <2>4, <3>1
      <4> HIDE DEF target
      <4>4. target = path[2]
        BY <4>1, <4>2, <4>3
      <4> QED BY <4>1, <4>4 DEF target
    <3>3. table[f][rule.target] \in Seq(FitRules(lists, f, rule.target))
      BY <2>4, <3>2
    <3> HIDE DEF rule, f
    <3>4. packet \in lists[<<f, rule.target>>]
      BY <1>1, <2>4, <3>3, OwnChainListed
    <3> QED BY <3>2, <3>4
  <2> QED BY <2>1, <2>3, <2>4
<1> QED BY <1>2, <1>4

(* The invariant is enough: what a REJECT does not stop is on the list.    *)
LEMMA FittingCloses == Fitting => ClosedToUnlisted
<1> SUFFICES ASSUME Fitting, NEW path \in Paths, Shut(path)
             PROVE  Accepted[path] \subseteq listed[path]
  BY OpenPath DEF ClosedToUnlisted
<1>1. /\ path[1] \in Families /\ BuiltInOf(path[2]) \in Chain
      /\ path[2] \in Dirs => path[2] \in Chain
  BY DEF Paths, Dirs, BuiltInOf, BuiltIn, Chain
<1> QED BY <1>1, ShutPath DEF Fitting

(* Wherever a provisioning is cut short, whatever fails, and whatever the  *)
(* provisionings before it wrote: a path that is not open lets nobody      *)
(* through that no policy ever listed.                                     *)
THEOREM NobodyUnlisted == Spec => []ClosedToUnlisted
BY FittingInvariance, FittingCloses, PTL

-----------------------------------------------------------------------------
(* Every rule in its place.                                                *)

(* The variables have their types in every reachable state; and whatever   *)
(* fails or is provisioned again, no RETURN gets into a built-in chain, no *)
(* REJECT into one of Policer's and no jump into the chain of another      *)
(* direction.                                                              *)
THEOREM TypeCorrect == Spec => []TypeOK
<1>1. TInv /\ Fitting => TypeOK
  <2> SUFFICES ASSUME TInv, Fitting, NEW f \in Families, NEW c \in Chain,
                      NEW rule \in Range(table[f][c])
               PROVE  InPlace(f, c, rule)
    BY DEF TInv, TypeOK
  <2>1. PICK i \in DOMAIN table[f][c] : rule = table[f][c][i]
    BY DEF Range
  <2>2. table[f][c] \in Seq(FitRules(listed, f, c))
    BY DEF Fitting
  <2>3. rule \in FitRules(listed, f, c)
    BY <2>1, <2>2, ElementOfSeq, LenProperties
  <2> QED BY <2>3 DEF FitRules
<1> QED BY <1>1, TypeInvariance, FittingInvariance, PTL
=============================================================================
