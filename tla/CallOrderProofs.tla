--------------------------- MODULE CallOrderProofs ---------------------------
(***************************************************************************)
(* Which calls AddRulesToNewPod issues, in which order, and what each of   *)
(* them does to the tables: for any rule sets, any number of provisionings *)
(* and any number of calls that fail.                                      *)
(*                                                                         *)
(* The chains of the Pod are made before they are written to, and the      *)
(* REJECTs come after all that could end the provisioning early: so a Pod  *)
(* left without its rules is left open (NothingClosed).  IsolationProofs   *)
(* goes on from here.                                                      *)
(***************************************************************************)
EXTENDS ProvisionerProofs

-----------------------------------------------------------------------------
(* The calls of AddRulesToNewPod and their order.                          *)

Ensure(f, dir) == [op |-> "ensure", family |-> f, chain |-> dir]
Flush(f, dir) == [op |-> "flush", family |-> f, chain |-> dir]
Put(f, c, rule) == [op |-> "append", family |-> f, chain |-> c, rule |-> rule]
Enter == [op |-> "enter"]

(* The calls for the chain of one path, and for one built-in chain.        *)
ChainCalls(f, dir) ==
  {Ensure(f, dir), Flush(f, dir), Put(f, BuiltInOf(dir), Jump(dir))}
ListCalls(rs, f, dir) ==
  {Put(f, dir, Accept(peer)) : peer \in Range(rs[f][dir])} \union {Put(f, dir, Return)}
DefaultCalls(f, c) == {Put(f, c, rule) : rule \in Range(DefaultRules[c])}

(* All the calls there are for a rule set.                                 *)
Issued(rs) ==
  {call \in Call :
     \/ call = Enter
     \/ \E f \in Families, dir \in Dirs :
          rs[f][dir] # <<>> /\ call \in ChainCalls(f, dir) \union ListCalls(rs, f, dir)
     \/ \E f \in Families, c \in BuiltIn : call \in DefaultCalls(f, c)}

(* Chains are made first, then come the lists, then the default rules.     *)
Stage(call) ==
  IF call.op = "enter" THEN 0
  ELSE IF call.op \in {"ensure", "flush"} \/ call.rule.target \in Dirs THEN 1
  ELSE IF call.chain \in Dirs THEN 2
  ELSE 3

(* The chain whose turn it is.                                             *)
Place(call) ==
  IF call.op = "enter" THEN <<>>
  ELSE IF call.op = "append" /\ call.rule.target \in Dirs THEN <<call.family, call.rule.target>>
  ELSE <<call.family, call.chain>>

(* In each stage, what is done to a chain in the end.                      *)
Final(call) == call.op = "flush" \/ (call.op = "append" /\ call.rule.target # "ACCEPT")

InTurn(a, b) ==
  \/ Stage(a) < Stage(b)
  \/ Stage(a) = Stage(b) /\ (Place(a) = Place(b) /\ Final(a) => Final(b))

Sorted(s) == \A i, j \in DOMAIN s : i < j => InTurn(s[i], s[j])

(* The calls still to be issued.                                           *)
Left == Range(plan)

(* Whatever fails, the calls left are calls of AddRulesToNewPod, in their  *)
(* order, and of what is in the built-in chains only the default rules     *)
(* let packets through.                                                    *)
Orderly ==
  /\ Left \subseteq Issued(rules)
  /\ Sorted(plan)
  /\ \A f \in Families, c \in BuiltIn : table[f][c] \in Seq(FitRules(Always, f, c))

-----------------------------------------------------------------------------
(* Sequences: what is in them, and whether it is in order.                 *)

(* Two sequences put together hold what each of them holds.                *)
LEMMA RangeConcat ==
  ASSUME NEW S, NEW s \in Seq(S), NEW t \in Seq(S)
  PROVE  Range(s \o t) = Range(s) \union Range(t)
<1> DEFINE u == s \o t
<1>1. /\ Len(u) = Len(s) + Len(t) /\ u \in Seq(S)
      /\ \A i \in 1 .. Len(s) + Len(t) : u[i] = IF i <= Len(s) THEN s[i] ELSE t[i - Len(s)]
  BY ConcatProperties
<1>2. /\ Len(s) \in Nat /\ Len(t) \in Nat /\ DOMAIN s = 1 .. Len(s) /\ DOMAIN t = 1 .. Len(t)
      /\ DOMAIN u = 1 .. Len(s) + Len(t)
  BY <1>1, LenProperties
<1> HIDE DEF u
<1>3. ASSUME NEW i \in DOMAIN s PROVE s[i] \in Range(u)
  <2>1. i \in DOMAIN u /\ u[i] = s[i]
    BY <1>1, <1>2
  <2> QED BY <2>1 DEF Range
<1>4. ASSUME NEW i \in DOMAIN t PROVE t[i] \in Range(u)
  <2>1. Len(s) + i \in DOMAIN u /\ u[Len(s) + i] = t[i]
    BY <1>1, <1>2
  <2> QED BY <2>1 DEF Range
<1>5. ASSUME NEW i \in DOMAIN u PROVE u[i] \in Range(s) \union Range(t)
  <2>1. CASE i <= Len(s)
    <3>1. i \in DOMAIN s /\ u[i] = s[i]
      BY <1>1, <1>2, <2>1
    <3> QED BY <3>1 DEF Range
  <2>2. CASE ~(i <= Len(s))
    <3>1. i - Len(s) \in DOMAIN t /\ u[i] = t[i - Len(s)]
      BY <1>1, <1>2, <2>2
    <3> QED BY <3>1 DEF Range
  <2> QED BY <2>1, <2>2
<1>6. Range(u) = Range(s) \union Range(t)
  BY <1>3, <1>4, <1>5 DEF Range
<1> QED BY <1>6 DEF u

(* A sequence holds what is appended to it, and what it held before.       *)
LEMMA RangeAppend ==
  ASSUME NEW S, NEW s \in Seq(S), NEW e \in S
  PROVE  Range(Append(s, e)) = Range(s) \union {e}
<1> DEFINE u == Append(s, e)
<1>1. /\ Len(u) = Len(s) + 1 /\ u \in Seq(S) /\ u[Len(s) + 1] = e
      /\ \A i \in 1 .. Len(s) : u[i] = s[i]
  BY AppendProperties
<1>2. Len(s) \in Nat /\ DOMAIN s = 1 .. Len(s) /\ DOMAIN u = 1 .. Len(s) + 1
  BY <1>1, LenProperties
<1> HIDE DEF u
<1>3. e \in Range(u)
  BY <1>1, <1>2 DEF Range
<1>4. \A i \in DOMAIN s : i \in DOMAIN u /\ u[i] = s[i]
  BY <1>1, <1>2
<1>5. \A i \in DOMAIN u : i = Len(s) + 1 \/ (i \in DOMAIN s /\ u[i] = s[i])
  BY <1>1, <1>2
<1>6. Range(u) = Range(s) \union {e}
  BY <1>1, <1>3, <1>4, <1>5 DEF Range
<1> QED BY <1>6 DEF u

(* Two plans put together are in order if each of them is, and no call of  *)
(* the second should have come before one of the first.                    *)
LEMMA SortedConcat ==
  ASSUME NEW s \in Seq(Call), NEW t \in Seq(Call), Sorted(s), Sorted(t),
         \A a \in Range(s), b \in Range(t) : InTurn(a, b)
  PROVE  Sorted(s \o t)
<1> DEFINE u == s \o t
<1>1. /\ Len(u) = Len(s) + Len(t) /\ u \in Seq(Call)
      /\ \A i \in 1 .. Len(s) + Len(t) : u[i] = IF i <= Len(s) THEN s[i] ELSE t[i - Len(s)]
  BY ConcatProperties
<1>2. /\ Len(s) \in Nat /\ Len(t) \in Nat /\ DOMAIN s = 1 .. Len(s) /\ DOMAIN t = 1 .. Len(t)
      /\ DOMAIN u = 1 .. Len(s) + Len(t)
  BY <1>1, LenProperties
<1> HIDE DEF u
<1>3. ASSUME NEW i \in DOMAIN u, NEW j \in DOMAIN u, i < j
      PROVE  InTurn(u[i], u[j])
  <2>1. CASE j <= Len(s)
    <3>1. i \in DOMAIN s /\ j \in DOMAIN s /\ u[i] = s[i] /\ u[j] = s[j]
      BY <1>1, <1>2, <1>3, <2>1
    <3> QED BY <1>3, <3>1 DEF Sorted
  <2>2. CASE i <= Len(s) /\ ~(j <= Len(s))
    <3>1. i \in DOMAIN s /\ j - Len(s) \in DOMAIN t /\ u[i] = s[i] /\ u[j] = t[j - Len(s)]
      BY <1>1, <1>2, <1>3, <2>2
    <3> QED BY <3>1 DEF Range
  <2>3. CASE ~(i <= Len(s)) /\ ~(j <= Len(s))
    <3>1. /\ i - Len(s) \in DOMAIN t /\ j - Len(s) \in DOMAIN t
          /\ u[i] = t[i - Len(s)] /\ u[j] = t[j - Len(s)] /\ i - Len(s) < j - Len(s)
      BY <1>1, <1>2, <1>3, <2>3
    <3> QED BY <3>1 DEF Sorted
  <2> QED BY <1>2, <1>3, <2>1, <2>2, <2>3
<1>4. Sorted(u)
  BY <1>3 DEF Sorted
<1> QED BY <1>4 DEF u

(* The call at the head of a plan, and those that are left after it.       *)
LEMMA HeadFirst ==
  ASSUME NEW s \in Seq(Call), s # <<>>, Sorted(s)
  PROVE  /\ Range(s) = {Head(s)} \union Range(Tail(s))
         /\ Sorted(Tail(s))
         /\ \A b \in Range(Tail(s)) : InTurn(Head(s), b)
<1> DEFINE u == Tail(s)
<1>1. /\ u \in Seq(Call) /\ Len(u) = Len(s) - 1
      /\ \A i \in 1 .. Len(u) : u[i] = s[i + 1]
  BY HeadTailProperties
<1>2. /\ Len(s) \in Nat /\ DOMAIN s = 1 .. Len(s) /\ DOMAIN u = 1 .. Len(u)
      /\ Len(s) # 0 /\ Head(s) = s[1]
  BY <1>1, LenProperties, EmptySeq
<1> HIDE DEF u
<1>3. \A i \in DOMAIN u : i + 1 \in DOMAIN s /\ u[i] = s[i + 1] /\ 1 < i + 1
  BY <1>1, <1>2
<1>4. \A i \in DOMAIN s : i = 1 \/ (i - 1 \in DOMAIN u /\ s[i] = u[i - 1])
  BY <1>1, <1>2
<1>5. 1 \in DOMAIN s
  BY <1>2
<1>6. Range(s) = {Head(s)} \union Range(u)
  BY <1>2, <1>3, <1>4, <1>5 DEF Range
<1>7. ASSUME NEW i \in DOMAIN u, NEW j \in DOMAIN u, i < j PROVE InTurn(u[i], u[j])
  <2>1. i + 1 < j + 1
    BY <1>2, <1>7, <1>1
  <2> QED BY <1>3, <2>1 DEF Sorted
<1>8. \A b \in Range(u) : InTurn(Head(s), b)
  BY <1>2, <1>3, <1>5 DEF Range, Sorted
<1> QED BY <1>6, <1>7, <1>8 DEF Sorted, u

(* Two calls out of a plan are in order too.                               *)
LEMMA CutShortSorted ==
  ASSUME NEW s \in Seq(Call), Sorted(s), 3 \in DOMAIN s
  PROVE  Sorted(SubSeq(s, 2, 3)) /\ Range(SubSeq(s, 2, 3)) \subseteq Range(s)
<1> DEFINE u == SubSeq(s, 2, 3)
<1>1. Len(s) \in Nat /\ DOMAIN s = 1 .. Len(s)
  BY LenProperties
<1>2. \A i \in 2 .. 3 : s[i] \in Call
  BY <1>1, ElementOfSeq
<1>3. u \in Seq(Call) /\ Len(u) = 2 /\ u[1] = s[2] /\ u[2] = s[3]
  <2>1. /\ u \in Seq(Call) /\ Len(u) = IF 2 <= 3 THEN 3 - 2 + 1 ELSE 0
        /\ \A i \in 1 .. 3 - 2 + 1 : u[i] = s[2 + i - 1]
    BY <1>2, SubSeqProperties
  <2> QED BY <2>1
<1> HIDE DEF u
<1>4. DOMAIN u = 1 .. 2
  BY <1>3, LenProperties
<1>5. \A i \in DOMAIN u : i + 1 \in DOMAIN s /\ u[i] = s[i + 1]
  BY <1>1, <1>3, <1>4
<1>6. ASSUME NEW i \in DOMAIN u, NEW j \in DOMAIN u, i < j PROVE InTurn(u[i], u[j])
  <2>1. i + 1 < j + 1
    BY <1>4, <1>6
  <2> QED BY <1>5, <2>1 DEF Sorted
<1> QED BY <1>5, <1>6 DEF Sorted, Range, u

-----------------------------------------------------------------------------
(* What AddRulesToNewPod issues, and in which order.                       *)

(* Calls of one stage, in order, for some of the chains.                   *)
Piece(s, stage, places) ==
  /\ s \in Seq(Call) /\ Sorted(s)
  /\ \A call \in Range(s) : Stage(call) = stage /\ Place(call) \in places

(* Pieces for different chains, put together, are a piece for both.        *)
LEMMA PieceConcat ==
  ASSUME NEW s, NEW t, NEW stage, NEW F, NEW G,
         Piece(s, stage, F), Piece(t, stage, G), F \intersect G = {}
  PROVE  Piece(s \o t, stage, F \union G)
<1>1. s \in Seq(Call) /\ t \in Seq(Call) /\ s \o t \in Seq(Call)
  BY ConcatProperties DEF Piece
<1>2. Range(s \o t) = Range(s) \union Range(t)
  BY <1>1, RangeConcat
<1>3. \A a \in Range(s), b \in Range(t) : InTurn(a, b)
  BY DEF Piece, InTurn
<1>4. Sorted(s \o t)
  BY <1>1, <1>3, SortedConcat DEF Piece
<1> QED BY <1>1, <1>2, <1>4 DEF Piece

(* What is provisioned into a chain.                                       *)
LEMMA RulesRange ==
  ASSUME NEW f \in Families, NEW c \in Chain, NEW rs \in Seq(Rule)
  PROVE  Range(ProvisionRulesIntoChain(f, c, rs)) =
           {Put(f, c, rule) : rule \in Range(rs)}
             \union IF c \in BuiltIn \/ rs = <<>> THEN {} ELSE {Put(f, c, Return)}
<1> DEFINE all == IF c \in BuiltIn \/ rs = <<>> THEN rs ELSE Append(rs, Return)
           u == [i \in DOMAIN all |-> Put(f, c, all[i])]
<1>1. Range(all) = Range(rs) \union IF c \in BuiltIn \/ rs = <<>> THEN {} ELSE {Return}
  BY RuleTypes, RangeAppend
<1> HIDE DEF all
<1>2. Range(u) = {Put(f, c, rule) : rule \in Range(all)}
  BY DEF Range
<1>3. ProvisionRulesIntoChain(f, c, rs) = u
  BY DEF ProvisionRulesIntoChain, Put, all
<1> HIDE DEF u
<1>4. {Put(f, c, rule) : rule \in Range(all)}
        = {Put(f, c, rule) : rule \in Range(rs)}
            \union IF c \in BuiltIn \/ rs = <<>> THEN {} ELSE {Put(f, c, Return)}
  BY <1>1
<1> QED BY <1>2, <1>3, <1>4

(* It is in order if only its last rule is no accept.                      *)
LEMMA RulesSorted ==
  ASSUME NEW f \in Families, NEW c \in Chain, NEW rs \in Seq(Rule),
         \A i \in DOMAIN rs : rs[i].target \notin Dirs,
         \A i \in DOMAIN rs : rs[i].target # "ACCEPT" => i = Len(rs) /\ c \in BuiltIn
  PROVE  Sorted(ProvisionRulesIntoChain(f, c, rs))
<1> DEFINE all == IF c \in BuiltIn \/ rs = <<>> THEN rs ELSE Append(rs, Return)
           u == [i \in DOMAIN all |-> Put(f, c, all[i])]
<1>1. Len(rs) \in Nat /\ DOMAIN rs = 1 .. Len(rs)
  BY LenProperties
<1>2. /\ Len(all) \in Nat /\ DOMAIN all = 1 .. Len(all)
      /\ \A i \in DOMAIN all : all[i].target \notin Dirs
      /\ \A i \in DOMAIN all : all[i].target # "ACCEPT" => i = Len(all)
  <2>1. CASE all = rs
    BY <1>1, <2>1
  <2>2. CASE c \notin BuiltIn /\ all = Append(rs, Return)
    <3>1. /\ Len(all) = Len(rs) + 1 /\ all[Len(rs) + 1] = Return
          /\ \A i \in 1 .. Len(rs) : all[i] = rs[i]
      BY <2>2, RuleTypes, AppendProperties
    <3>2. DOMAIN all = 1 .. Len(rs) + 1
      <4>1. all \in Seq(Rule)
        BY <2>2, RuleTypes, AppendProperties
      <4> HIDE DEF all
      <4> QED BY <4>1, <3>1, LenProperties
    <3> HIDE DEF all
    <3>3. Return.target \notin Dirs
      BY DEF Return, Dirs
    <3>4. ASSUME NEW i \in DOMAIN all
          PROVE  all[i].target \notin Dirs /\ (all[i].target # "ACCEPT" => i = Len(all))
      <4>1. CASE i = Len(rs) + 1
        BY <3>1, <3>3, <4>1
      <4>2. CASE i \in 1 .. Len(rs)
        BY <1>1, <2>2, <3>1, <4>2
      <4> QED BY <1>1, <3>2, <4>1, <4>2
    <3> QED BY <1>1, <3>1, <3>2, <3>4
  <2> QED BY <2>1, <2>2
<1> HIDE DEF all
<1>3. ASSUME NEW i \in DOMAIN all, NEW j \in DOMAIN all, i < j
      PROVE  InTurn(u[i], u[j])
  <2> DEFINE a == Put(f, c, all[i])
             b == Put(f, c, all[j])
  <2>1. u[i] = a /\ u[j] = b
    OBVIOUS
  <2>2. Stage(a) = Stage(b)
    <3>1. all[i].target \notin Dirs /\ all[j].target \notin Dirs
      BY <1>2
    <3> QED BY <3>1 DEF Stage, Put
  <2>3. i # Len(all)
    BY <1>2, <1>3
  <2>4. ~Final(a)
    BY <1>2, <2>3 DEF Final, Put
  <2> HIDE DEF a, b
  <2> QED BY <2>1, <2>2, <2>4 DEF InTurn
<1>4. Sorted(u)
  BY <1>3 DEF Sorted
<1> QED BY <1>4 DEF ProvisionRulesIntoChain, Put, u, all

(* What EnsureChain issues for a chain that is to hold rules, and for one  *)
(* that is not.                                                            *)
LEMMA EnsurePiece ==
  ASSUME NEW rs \in RuleSets, NEW f \in Families, NEW dir \in Dirs
  PROVE  /\ Range(EnsureChain(rs, f, dir)) = IF rs[f][dir] = <<>> THEN {} ELSE ChainCalls(f, dir)
         /\ Piece(EnsureChain(rs, f, dir), 1, {<<f, dir>>})
<1> DEFINE s == EnsureChain(rs, f, dir)
<1>1. s \in Seq(Call)
  BY EnsurePlan DEF Plans
<1>2. CASE rs[f][dir] = <<>>
  <2>1. s = <<>>
    BY <1>2 DEF EnsureChain
  <2> HIDE DEF s
  <2>2. DOMAIN s = {}
    BY <2>1
  <2>3. Range(s) = {} /\ Sorted(s)
    BY <2>2 DEF Range, Sorted
  <2> QED BY <1>1, <1>2, <2>3 DEF Piece, s
<1>3. CASE rs[f][dir] # <<>>
  <2> DEFINE a == Ensure(f, dir)
             b == Flush(f, dir)
             c == Put(f, BuiltInOf(dir), Jump(dir))
  <2>1. s = <<a, b, c>>
    BY <1>3, EnsureCalls DEF Ensure, Flush, Put
  <2>2. /\ Stage(a) = 1 /\ Stage(b) = 1 /\ Stage(c) = 1
        /\ Place(a) = <<f, dir>> /\ Place(b) = <<f, dir>> /\ Place(c) = <<f, dir>>
        /\ ~Final(a) /\ Final(b) /\ Final(c)
    BY DEF Ensure, Flush, Put, Jump, Stage, Place, Final, Dirs
  <2> HIDE DEF s, a, b, c
  <2>3. DOMAIN s = 1 .. 3 /\ s[1] = a /\ s[2] = b /\ s[3] = c
    BY <2>1
  <2>4. Range(s) = {a, b, c}
    BY <2>3 DEF Range
  <2>5. \A i, j \in 1 .. 3 : i < j => InTurn(s[i], s[j])
    <3>1. InTurn(a, b) /\ InTurn(a, c) /\ InTurn(b, c)
      BY <2>2 DEF InTurn
    <3>2. ASSUME NEW i \in 1 .. 3, NEW j \in 1 .. 3, i < j PROVE InTurn(s[i], s[j])
      <4>1. CASE i = 1 /\ j = 2
        BY <2>3, <3>1, <4>1
      <4>2. CASE i = 1 /\ j = 3
        BY <2>3, <3>1, <4>2
      <4>3. CASE i = 2 /\ j = 3
        BY <2>3, <3>1, <4>3
      <4> QED BY <3>2, <4>1, <4>2, <4>3
    <3> QED BY <3>2
  <2>6. Sorted(s)
    BY <2>3, <2>5 DEF Sorted
  <2> QED BY <1>1, <1>3, <2>2, <2>4, <2>6 DEF Piece, ChainCalls, s, a, b, c
<1> QED BY <1>2, <1>3

(* What is issued for the list of a chain.                                 *)
LEMMA DynamicPiece ==
  ASSUME NEW rs \in RuleSets, NEW f \in Families, NEW dir \in Dirs
  PROVE  /\ Range(DynamicRules(rs, f, dir)) = IF rs[f][dir] = <<>> THEN {} ELSE ListCalls(rs, f, dir)
         /\ Piece(DynamicRules(rs, f, dir), 2, {<<f, dir>>})
<1> DEFINE list == rs[f][dir]
           accepts == [i \in DOMAIN list |-> Accept(list[i])]
           s == DynamicRules(rs, f, dir)
<1>1. list \in Seq(Peers)
  BY RuleSetsAssumption DEF NetRuleSet
<1>2. Len(list) \in Nat /\ DOMAIN list = 1 .. Len(list) /\ \A i \in DOMAIN list : list[i] \in Peers
  BY <1>1, LenProperties, ElementOfSeq
<1>3. dir \in Chain /\ dir \notin BuiltIn
  BY DEF Chain, BuiltIn, Dirs
<1>4. s = ProvisionRulesIntoChain(f, dir, accepts) /\ s \in Seq(Call)
  BY DynamicPlan DEF DynamicRules, Plans
<1> HIDE DEF list, s
<1>5. /\ accepts \in [1 .. Len(list) -> Rule]
      /\ \A i \in DOMAIN list : accepts[i].target = "ACCEPT"
      /\ Range(accepts) = {Accept(peer) : peer \in Range(list)}
  <2>1. accepts \in [1 .. Len(list) -> Rule]
    BY <1>2, RuleTypes DEF Packets
  <2>2. \A i \in DOMAIN list : accepts[i].target = "ACCEPT"
    BY DEF Accept
  <2>3. Range(accepts) = {Accept(peer) : peer \in Range(list)}
    BY DEF Range
  <2> QED BY <2>1, <2>2, <2>3
<1>6. DOMAIN accepts = DOMAIN list
  OBVIOUS
<1> HIDE DEF accepts
<1>7. accepts \in Seq(Rule)
  BY <1>2, <1>5, SeqDef
<1>8. accepts = <<>> <=> list = <<>>
  <2>1. Len(accepts) = Len(list)
    BY <1>2, <1>6, <1>7, LenProperties
  <2> QED BY <1>1, <1>7, <2>1, EmptySeq
<1>9. Range(s) = {Put(f, dir, rule) : rule \in Range(accepts)}
                   \union IF list = <<>> THEN {} ELSE {Put(f, dir, Return)}
  BY <1>3, <1>4, <1>7, <1>8, RulesRange
<1>10. {Put(f, dir, rule) : rule \in Range(accepts)} = {Put(f, dir, Accept(peer)) : peer \in Range(list)}
  BY <1>5
<1>11. Range(s) = IF list = <<>> THEN {} ELSE ListCalls(rs, f, dir)
  <2>1. list = <<>> => Range(list) = {}
    BY DEF Range
  <2> QED BY <1>9, <1>10, <2>1 DEF ListCalls, list
<1>12. Sorted(s)
  <2>1. "ACCEPT" \notin Dirs
    BY DEF Dirs
  <2> QED BY <1>3, <1>4, <1>5, <1>6, <1>7, <2>1, RulesSorted
<1>13. ASSUME NEW call \in Range(s) PROVE Stage(call) = 2 /\ Place(call) = <<f, dir>>
  <2>1. \/ call = Put(f, dir, Return)
        \/ \E peer \in Range(list) : call = Put(f, dir, Accept(peer))
    BY <1>9, <1>10, <1>13
  <2> QED BY <2>1 DEF Put, Return, Accept, Stage, Place, Dirs
<1>14. Piece(s, 2, {<<f, dir>>})
  BY <1>4, <1>12, <1>13 DEF Piece
<1> QED BY <1>11, <1>14 DEF s, list

(* What is issued for the default rules of a built-in chain.               *)
LEMMA DefaultPiece ==
  ASSUME NEW f \in Families, NEW c \in BuiltIn
  PROVE  /\ Range(ProvisionRulesIntoChain(f, c, DefaultRules[c])) = DefaultCalls(f, c)
         /\ Piece(ProvisionRulesIntoChain(f, c, DefaultRules[c]), 3, {<<f, c>>})
<1> DEFINE list == DefaultRules[c]
           s == ProvisionRulesIntoChain(f, c, list)
<1>1. c \in Chain /\ c \notin Dirs /\ list \in Seq(Rule)
  BY DefaultRulesTypes DEF Chain, BuiltIn, Dirs
<1>2. /\ \A i \in DOMAIN list : list[i].target \notin Dirs
      /\ \A i \in DOMAIN list : list[i].target # "ACCEPT" => i = Len(list) /\ c \in BuiltIn
  <2>1. CASE c = "INPUT"
    BY <2>1 DEF DefaultRules, BuiltIn, Accept, Reject, Dirs
  <2>2. CASE c = "OUTPUT"
    BY <2>2 DEF DefaultRules, BuiltIn, Accept, Reject, Dirs
  <2>3. CASE c = "FORWARD"
    BY <2>3 DEF DefaultRules, BuiltIn, Accept, Reject, Dirs
  <2> QED BY <2>1, <2>2, <2>3 DEF BuiltIn
<1> HIDE DEF list
<1>3. s \in Seq(Call) /\ Sorted(s) /\ Range(s) = {Put(f, c, rule) : rule \in Range(list)}
  BY <1>1, <1>2, RulesPlan, RulesSorted, RulesRange DEF Plans
<1>4. ASSUME NEW call \in Range(s) PROVE Stage(call) = 3 /\ Place(call) = <<f, c>>
  <2>1. PICK i \in DOMAIN list : call = Put(f, c, list[i])
    BY <1>3, <1>4 DEF Range
  <2> QED BY <1>1, <1>2, <2>1 DEF Put, Stage, Place
<1> HIDE DEF s
<1>5. Piece(s, 3, {<<f, c>>})
  BY <1>3, <1>4 DEF Piece
<1> QED BY <1>3, <1>5 DEF s, list, DefaultCalls

(* The four chains of a rule set, one after the other.                     *)
InAllChains(g) ==
  g["v4"]["ingress"] \o g["v6"]["ingress"] \o g["v4"]["egress"] \o g["v6"]["egress"]

(* Pieces for each of the four chains make up a stage.                     *)
LEMMA FourPieces ==
  ASSUME NEW g, NEW stage, \A f \in Families, dir \in Dirs : Piece(g[f][dir], stage, {<<f, dir>>})
  PROVE  /\ InAllChains(g) \in Seq(Call) /\ Sorted(InAllChains(g))
         /\ \A call \in Range(InAllChains(g)) : Stage(call) = stage
         /\ \A call : call \in Range(InAllChains(g)) <=>
              \E f \in Families, dir \in Dirs : call \in Range(g[f][dir])
<1> DEFINE a == g["v4"]["ingress"]
           b == g["v6"]["ingress"]
           c == g["v4"]["egress"]
           d == g["v6"]["egress"]
           A == {<<"v4", "ingress">>}
           B == {<<"v6", "ingress">>}
           C == {<<"v4", "egress">>}
           D == {<<"v6", "egress">>}
<1>1. Piece(a, stage, A) /\ Piece(b, stage, B) /\ Piece(c, stage, C) /\ Piece(d, stage, D)
  BY DEF Families, Dirs
<1>2. A \intersect B = {} /\ (A \union B) \intersect C = {} /\ (A \union B \union C) \intersect D = {}
  OBVIOUS
<1>3. \A call :
        (\E f \in Families, dir \in Dirs : call \in Range(g[f][dir])) <=>
          call \in Range(a) \union Range(b) \union Range(c) \union Range(d)
  BY DEF Families, Dirs
<1>4. InAllChains(g) = a \o b \o c \o d
  BY DEF InAllChains
<1> HIDE DEF a, b, c, d, A, B, C, D
<1>5. Piece(a \o b, stage, A \union B)
  BY <1>1, <1>2, PieceConcat
<1>6. Piece(a \o b \o c, stage, A \union B \union C)
  BY <1>1, <1>2, <1>5, PieceConcat
<1>7. Piece(a \o b \o c \o d, stage, A \union B \union C \union D)
  <2> DEFINE u == a \o b \o c
             U == A \union B \union C
  <2>1. Piece(u, stage, U) /\ U \intersect D = {}
    BY <1>2, <1>6
  <2> HIDE DEF u, U
  <2>2. Piece(u \o d, stage, U \union D)
    BY <1>1, <2>1, PieceConcat
  <2> QED BY <2>2 DEF u, U
<1>8. /\ a \in Seq(Call) /\ b \in Seq(Call) /\ c \in Seq(Call) /\ d \in Seq(Call)
      /\ a \o b \in Seq(Call) /\ a \o b \o c \in Seq(Call)
  BY <1>1, <1>5, <1>6 DEF Piece
<1>9. Range(a \o b) = Range(a) \union Range(b)
  BY <1>8, RangeConcat
<1>10. Range((a \o b) \o c) = Range(a \o b) \union Range(c)
  <2> DEFINE u == a \o b
  <2>1. u \in Seq(Call)
    BY <1>8
  <2> HIDE DEF u
  <2>2. Range(u \o c) = Range(u) \union Range(c)
    BY <1>8, <2>1, RangeConcat
  <2> QED BY <2>2 DEF u
<1>11. Range((a \o b \o c) \o d) = Range(a \o b \o c) \union Range(d)
  <2> DEFINE u == a \o b \o c
  <2>1. u \in Seq(Call)
    BY <1>8
  <2> HIDE DEF u
  <2>2. Range(u \o d) = Range(u) \union Range(d)
    BY <1>8, <2>1, RangeConcat
  <2> QED BY <2>2 DEF u
<1> QED BY <1>3, <1>4, <1>7, <1>9, <1>10, <1>11 DEF Piece

(* The first stage: the chains that are to hold rules.                     *)
LEMMA EnsureStage ==
  ASSUME NEW rs \in RuleSets
  PROVE  /\ EnsureChains(rs) \in Seq(Call) /\ Sorted(EnsureChains(rs))
         /\ \A call \in Range(EnsureChains(rs)) : Stage(call) = 1
         /\ \A call : call \in Range(EnsureChains(rs)) <=>
              \E f \in Families, dir \in Dirs : rs[f][dir] # <<>> /\ call \in ChainCalls(f, dir)
<1> DEFINE g == [f \in Families |-> [dir \in Dirs |-> EnsureChain(rs, f, dir)]]
<1>1. ASSUME NEW f \in Families, NEW dir \in Dirs
      PROVE  /\ Range(g[f][dir]) = IF rs[f][dir] = <<>> THEN {} ELSE ChainCalls(f, dir)
             /\ Piece(g[f][dir], 1, {<<f, dir>>})
  BY EnsurePiece
<1>2. EnsureChains(rs) = InAllChains(g)
  BY DEF EnsureChains, InAllChains, Families, Dirs
<1> HIDE DEF g
<1>3. /\ InAllChains(g) \in Seq(Call) /\ Sorted(InAllChains(g))
      /\ \A call \in Range(InAllChains(g)) : Stage(call) = 1
      /\ \A call : call \in Range(InAllChains(g)) <=>
           \E f \in Families, dir \in Dirs : call \in Range(g[f][dir])
  BY <1>1, FourPieces
<1>4. ASSUME NEW call
      PROVE  (\E f \in Families, dir \in Dirs : call \in Range(g[f][dir])) <=>
               \E f \in Families, dir \in Dirs : rs[f][dir] # <<>> /\ call \in ChainCalls(f, dir)
  BY <1>1
<1> QED BY <1>2, <1>3, <1>4

(* The second stage: their lists.                                          *)
LEMMA DynamicStage ==
  ASSUME NEW rs \in RuleSets
  PROVE  /\ ProvisionDynamicRules(rs) \in Seq(Call) /\ Sorted(ProvisionDynamicRules(rs))
         /\ \A call \in Range(ProvisionDynamicRules(rs)) : Stage(call) = 2
         /\ \A call : call \in Range(ProvisionDynamicRules(rs)) <=>
              \E f \in Families, dir \in Dirs : rs[f][dir] # <<>> /\ call \in ListCalls(rs, f, dir)
<1> DEFINE g == [f \in Families |-> [dir \in Dirs |-> DynamicRules(rs, f, dir)]]
<1>1. ASSUME NEW f \in Families, NEW dir \in Dirs
      PROVE  /\ Range(g[f][dir]) = IF rs[f][dir] = <<>> THEN {} ELSE ListCalls(rs, f, dir)
             /\ Piece(g[f][dir], 2, {<<f, dir>>})
  BY DynamicPiece
<1>2. ProvisionDynamicRules(rs) = InAllChains(g)
  BY DEF ProvisionDynamicRules, InAllChains, Families, Dirs
<1> HIDE DEF g
<1>3. /\ InAllChains(g) \in Seq(Call) /\ Sorted(InAllChains(g))
      /\ \A call \in Range(InAllChains(g)) : Stage(call) = 2
      /\ \A call : call \in Range(InAllChains(g)) <=>
           \E f \in Families, dir \in Dirs : call \in Range(g[f][dir])
  BY <1>1, FourPieces
<1>4. ASSUME NEW call
      PROVE  (\E f \in Families, dir \in Dirs : call \in Range(g[f][dir])) <=>
               \E f \in Families, dir \in Dirs : rs[f][dir] # <<>> /\ call \in ListCalls(rs, f, dir)
  BY <1>1
<1> QED BY <1>2, <1>3, <1>4

(* The third stage: the default rules, whatever the rule set.              *)
LEMMA DefaultStage ==
  /\ ProvisionDefaultRules \in Seq(Call) /\ Sorted(ProvisionDefaultRules)
  /\ \A call \in Range(ProvisionDefaultRules) : Stage(call) = 3
  /\ \A call : call \in Range(ProvisionDefaultRules) <=>
       \E f \in Families, c \in BuiltIn : call \in DefaultCalls(f, c)
<1> DEFINE s(f, c) == ProvisionRulesIntoChain(f, c, DefaultRules[c])
<1>1. \A f \in Families, c \in BuiltIn :
        Range(s(f, c)) = DefaultCalls(f, c) /\ Piece(s(f, c), 3, {<<f, c>>})
  BY DefaultPiece
<1>2. \A f \in Families : DefaultsOf(f) = s(f, "INPUT") \o s(f, "OUTPUT") \o s(f, "FORWARD")
  BY DEF DefaultsOf
<1> HIDE DEF s
<1>3. ASSUME NEW f \in Families
      PROVE  /\ Piece(DefaultsOf(f), 3, {<<f, c>> : c \in BuiltIn})
             /\ \A call : call \in Range(DefaultsOf(f)) <=> \E c \in BuiltIn : call \in DefaultCalls(f, c)
  <2> DEFINE a == s(f, "INPUT")
             b == s(f, "OUTPUT")
             c == s(f, "FORWARD")
  <2>1. /\ Piece(a, 3, {<<f, "INPUT">>}) /\ Range(a) = DefaultCalls(f, "INPUT")
        /\ Piece(b, 3, {<<f, "OUTPUT">>}) /\ Range(b) = DefaultCalls(f, "OUTPUT")
        /\ Piece(c, 3, {<<f, "FORWARD">>}) /\ Range(c) = DefaultCalls(f, "FORWARD")
    BY <1>1 DEF BuiltIn
  <2> HIDE DEF a, b, c
  <2>2. Piece(a \o b, 3, {<<f, "INPUT">>} \union {<<f, "OUTPUT">>})
    BY <2>1, PieceConcat
  <2>3. Piece((a \o b) \o c, 3, {<<f, "INPUT">>} \union {<<f, "OUTPUT">>} \union {<<f, "FORWARD">>})
    BY <2>1, <2>2, PieceConcat
  <2>4. /\ Range(a \o b) = Range(a) \union Range(b)
        /\ Range((a \o b) \o c) = Range(a \o b) \union Range(c)
    <3>1. a \in Seq(Call) /\ b \in Seq(Call) /\ c \in Seq(Call) /\ a \o b \in Seq(Call)
      BY <2>1, <2>2 DEF Piece
    <3>2. Range(a \o b) = Range(a) \union Range(b)
      BY <3>1, RangeConcat
    <3>3. Range((a \o b) \o c) = Range(a \o b) \union Range(c)
      <4> DEFINE u == a \o b
      <4>1. u \in Seq(Call)
        BY <3>1
      <4> HIDE DEF u
      <4>2. Range(u \o c) = Range(u) \union Range(c)
        BY <3>1, <4>1, RangeConcat
      <4> QED BY <4>2 DEF u
    <3> QED BY <3>2, <3>3
  <2>5. {<<f, "INPUT">>} \union {<<f, "OUTPUT">>} \union {<<f, "FORWARD">>} = {<<f, d>> : d \in BuiltIn}
    BY DEF BuiltIn
  <2>6. ASSUME NEW call
        PROVE  call \in Range(DefaultsOf(f)) <=> \E d \in BuiltIn : call \in DefaultCalls(f, d)
    BY <1>2, <2>1, <2>4 DEF BuiltIn, a, b, c
  <2> QED BY <1>2, <2>3, <2>5, <2>6 DEF a, b, c
<1>4. "v4" \in Families /\ "v6" \in Families
  BY DEF Families
<1>5. Piece(ProvisionDefaultRules, 3, {<<"v4", c>> : c \in BuiltIn} \union {<<"v6", c>> : c \in BuiltIn})
  <2>1. {<<"v4", c>> : c \in BuiltIn} \intersect {<<"v6", c>> : c \in BuiltIn} = {}
    OBVIOUS
  <2> QED BY <1>3, <1>4, <2>1, PieceConcat DEF ProvisionDefaultRules
<1>6. Range(ProvisionDefaultRules) = Range(DefaultsOf("v4")) \union Range(DefaultsOf("v6"))
  BY <1>3, <1>4, RangeConcat DEF Piece, ProvisionDefaultRules
<1>7. ASSUME NEW call
      PROVE  call \in Range(ProvisionDefaultRules) <=>
               \E f \in Families, c \in BuiltIn : call \in DefaultCalls(f, c)
  BY <1>3, <1>4, <1>6 DEF Families
<1> QED BY <1>5, <1>7 DEF Piece

(* A later stage put after what is in order so far.                        *)
LEMMA NextStage ==
  ASSUME NEW s \in Seq(Call), Sorted(s), NEW stage \in Nat,
         \A call \in Range(s) : Stage(call) < stage,
         NEW t \in Seq(Call), Sorted(t), \A call \in Range(t) : Stage(call) = stage
  PROVE  /\ s \o t \in Seq(Call) /\ Sorted(s \o t)
         /\ Range(s \o t) = Range(s) \union Range(t)
         /\ \A call \in Range(s \o t) : Stage(call) < stage + 1
<1>1. s \o t \in Seq(Call)
  BY ConcatProperties
<1>2. \A a \in Range(s), b \in Range(t) : InTurn(a, b)
  BY DEF InTurn
<1>3. Sorted(s \o t)
  BY <1>2, SortedConcat
<1>4. Range(s \o t) = Range(s) \union Range(t)
  BY RangeConcat
<1>5. \A call \in Range(s \o t) : Stage(call) < stage + 1
  <2>1. \A call \in Range(s) \union Range(t) : Stage(call) \in Nat
    BY DEF Stage
  <2> QED BY <1>4, <2>1
<1> QED BY <1>1, <1>3, <1>4, <1>5

(* AddRulesToNewPod issues what there is to be issued, in order.           *)
LEMMA Provisioning ==
  ASSUME NEW rs \in RuleSets
  PROVE  Range(AddRulesToNewPod(rs)) = Issued(rs) /\ Sorted(AddRulesToNewPod(rs))
<1> DEFINE e == <<Enter>>
           a == EnsureChains(rs)
           b == ProvisionDynamicRules(rs)
           c == ProvisionDefaultRules
<1>1. e \in Seq(Call) /\ Sorted(e) /\ Range(e) = {Enter} /\ Stage(Enter) = 0
  <2>1. Enter \in Call
    BY DEF Call, Enter
  <2>2. e \in Seq(Call) /\ DOMAIN e = 1 .. 1 /\ e[1] = Enter
    BY <2>1
  <2> HIDE DEF e
  <2>3. Range(e) = {Enter} /\ Sorted(e)
    BY <2>2 DEF Range, Sorted
  <2> QED BY <2>2, <2>3 DEF Stage, Enter
<1>2. /\ a \in Seq(Call) /\ Sorted(a) /\ \A call \in Range(a) : Stage(call) = 1
      /\ b \in Seq(Call) /\ Sorted(b) /\ \A call \in Range(b) : Stage(call) = 2
      /\ c \in Seq(Call) /\ Sorted(c) /\ \A call \in Range(c) : Stage(call) = 3
  BY EnsureStage, DynamicStage, DefaultStage
<1>3. AddRulesToNewPod(rs) = e \o a \o b \o c
  BY DEF AddRulesToNewPod, Enter
<1>4. Range(e) \union Range(a) \union Range(b) \union Range(c) = Issued(rs)
  <2>1. /\ \A call : call \in Range(a) <=>
             \E f \in Families, dir \in Dirs : rs[f][dir] # <<>> /\ call \in ChainCalls(f, dir)
        /\ \A call : call \in Range(b) <=>
             \E f \in Families, dir \in Dirs : rs[f][dir] # <<>> /\ call \in ListCalls(rs, f, dir)
        /\ \A call : call \in Range(c) <=>
             \E f \in Families, g \in BuiltIn : call \in DefaultCalls(f, g)
    BY EnsureStage, DynamicStage, DefaultStage
  <2> HIDE DEF a, b, c, e
  <2>2. \A s \in Seq(Call) : \A call \in Range(s) : call \in Call
    BY ElementOfSeq, LenProperties DEF Range
  <2>3. \A call \in Range(e) \union Range(a) \union Range(b) \union Range(c) : call \in Call
    BY <1>1, <1>2, <2>2
  <2>4. ASSUME NEW call
        PROVE  call \in Range(e) \union Range(a) \union Range(b) \union Range(c) <=> call \in Issued(rs)
    BY <1>1, <2>1, <2>3 DEF Issued
  <2> QED BY <2>4
<1> HIDE DEF e, a, b, c
<1>5. /\ e \o a \in Seq(Call) /\ Sorted(e \o a) /\ Range(e \o a) = Range(e) \union Range(a)
      /\ \A call \in Range(e \o a) : Stage(call) < 2
  <2>1. \A call \in Range(e) : Stage(call) < 1
    BY <1>1
  <2>2. /\ e \o a \in Seq(Call) /\ Sorted(e \o a) /\ Range(e \o a) = Range(e) \union Range(a)
        /\ \A call \in Range(e \o a) : Stage(call) < 1 + 1
    BY <1>1, <1>2, <2>1, NextStage
  <2> QED BY <2>2
<1> DEFINE u == e \o a
           v == u \o b
<1>6. u \in Seq(Call) /\ Sorted(u) /\ \A call \in Range(u) : Stage(call) < 2
  BY <1>5
<1>7. /\ u \o b \in Seq(Call) /\ Sorted(u \o b) /\ Range(u \o b) = Range(u) \union Range(b)
      /\ \A call \in Range(u \o b) : Stage(call) < 3
  <2> HIDE DEF u
  <2>1. /\ u \o b \in Seq(Call) /\ Sorted(u \o b) /\ Range(u \o b) = Range(u) \union Range(b)
        /\ \A call \in Range(u \o b) : Stage(call) < 2 + 1
    BY <1>2, <1>6, NextStage
  <2> QED BY <2>1
<1>8. Sorted(v \o c) /\ Range(v \o c) = Range(v) \union Range(c)
  <2>1. v \in Seq(Call) /\ Sorted(v) /\ \A call \in Range(v) : Stage(call) < 3
    BY <1>7
  <2> HIDE DEF u, v
  <2> QED BY <1>2, <2>1, NextStage
<1>9. AddRulesToNewPod(rs) = v \o c
  BY <1>3
<1>10. Range(v) = Range(e) \union Range(a) \union Range(b)
  BY <1>5, <1>7
<1> HIDE DEF u, v
<1> QED BY <1>4, <1>8, <1>9, <1>10
-----------------------------------------------------------------------------
(* What one call does.                                                     *)

(* In a built-in chain, only the default rules let packets through.        *)
LEMMA BuiltInFits ==
  ASSUME NEW rs, NEW f \in Families, NEW c \in BuiltIn, NEW rule, Put(f, c, rule) \in Issued(rs)
  PROVE  rule \in FitRules(Always, f, c)
<1> DEFINE call == Put(f, c, rule)
<1>1. c \notin Dirs /\ rule \in Rule
  <2>1. call \in Call
    BY DEF Issued
  <2>2. call.op = "append" /\ call.rule = rule
    BY DEF Put
  <2> HIDE DEF call
  <2>3. rule \in Rule
    BY <2>1, <2>2, CallFields
  <2> QED BY <2>3 DEF BuiltIn, Dirs
<1>2. \/ \E dir \in Dirs : c = BuiltInOf(dir) /\ rule = Jump(dir)
      \/ rule \in Range(DefaultRules[c])
  BY <1>1 DEF Issued, ChainCalls, ListCalls, DefaultCalls, Enter, Ensure, Flush, Put
<1>3. ASSUME NEW dir \in Dirs, c = BuiltInOf(dir), rule = Jump(dir)
      PROVE  rule \in FitRules(Always, f, c)
  BY <1>1, <1>3 DEF FitRules, InPlace, Jump, Return, Reject, Dirs
<1>4. CASE rule \in Range(DefaultRules[c])
  <2>1. PICK i \in DOMAIN DefaultRules[c] : rule = DefaultRules[c][i]
    BY <1>4 DEF Range
  <2>2. /\ rule.target \in {"ACCEPT", "REJECT"}
        /\ rule.target = "ACCEPT" => rule.match # "any"
    BY <2>1 DEF DefaultRules, BuiltIn, Accept, Reject
  <2>3. ASSUME NEW path \in Paths, c \in {path[2], BuiltInOf(path[2])}, rule.match # "any"
        PROVE  rule.match \in Always[path]
    <3>1. c = BuiltInOf(path[2])
      BY <2>3 DEF Paths, Dirs, BuiltIn
    <3> QED BY <1>4, <2>3, <3>1 DEF Always
  <2>4. InPlace(f, c, rule)
    BY <2>2 DEF InPlace, Return, Dirs
  <2> QED BY <1>1, <2>2, <2>3, <2>4 DEF FitRules
<1> QED BY <1>2, <1>3, <1>4

(* The one chain that a call may change, and how.                          *)
Flushed(f, c) == Head(plan) = Flush(f, c) /\ table'[f][c] = <<>>
Extended(f, c) ==
  \E rule \in Rule :
    /\ Head(plan) = Put(f, c, rule) /\ rule \notin Range(table[f][c])
    /\ table'[f][c] = Append(table[f][c], rule)

(* A call that is executed leaves the calls behind it, which are in turn,  *)
(* and does to the tables what it says; every other chain is left alone.   *)
LEMMA CallEffect ==
  ASSUME TInv, Orderly, Execute
  PROVE  /\ plan # <<>> /\ Head(plan) \in Issued(rules) /\ Head(plan) \in Call
         /\ Left = {Head(plan)} \union Left' /\ Sorted(plan')
         /\ \A call \in Left' : InTurn(Head(plan), call)
         /\ \A f \in Families, c \in Chain :
              table'[f][c] = table[f][c] \/ (c \in Dirs /\ Flushed(f, c)) \/ Extended(f, c)
         /\ \A f \in Families, dir \in Dirs : Head(plan) = Flush(f, dir) => table'[f][dir] = <<>>
         /\ \A f \in Families : chains[f] \subseteq chains'[f]
         /\ \A f \in Families, dir \in Dirs : Head(plan) = Ensure(f, dir) => dir \in chains'[f]
         /\ \A f \in Families, c \in Chain, rule \in Rule :
              Head(plan) = Put(f, c, rule) /\ CanHold(f, c, rule) => rule \in Range(table'[f][c])
         /\ UNCHANGED <<rules, listed, runs, errors>>
<1> DEFINE call == Head(plan)
<1>1. plan # <<>> /\ plan' = Tail(plan) /\ UNCHANGED <<rules, listed, runs, errors>>
  BY DEF Execute, Advance
<1>2. call \in Call /\ plan \in Seq(Call) /\ Sorted(plan)
  BY <1>1, HeadTailProperties DEF TInv, Typed, Orderly
<1>3. /\ Left = {call} \union Left' /\ Sorted(plan')
      /\ \A b \in Left' : InTurn(call, b)
  BY <1>1, <1>2, HeadFirst DEF Left
<1>4. call \in Issued(rules)
  BY <1>3 DEF Orderly
<1>5. /\ chains \in [Families -> SUBSET Dirs]
      /\ table \in [Families -> [Chain -> Seq(Rule)]]
  BY DEF TInv, Typed
<1>6. CASE call.op = "enter"
  <2>1. UNCHANGED <<chains, table>>
    BY <1>6 DEF Execute
  <2>2. /\ \A f, c : call # Flush(f, c) /\ call # Ensure(f, c)
        /\ \A f, c, rule : call # Put(f, c, rule)
    <3> HIDE DEF call
    <3> QED BY <1>6 DEF Flush, Ensure, Put
  <2> HIDE DEF call
  <2> QED BY <1>1, <1>2, <1>3, <1>4, <2>1, <2>2 DEF call
<1>7. CASE call.op = "ensure"
  <2>1. UNCHANGED table /\ chains' = [chains EXCEPT ![call.family] = @ \union {call.chain}]
    BY <1>7 DEF Execute
  <2>2. /\ \A f, c : call # Flush(f, c)
        /\ \A f, c, rule : call # Put(f, c, rule)
        /\ \A f, c : call = Ensure(f, c) => call.family = f /\ call.chain = c
    <3> HIDE DEF call
    <3> QED BY <1>7 DEF Flush, Ensure, Put
  <2>3. call.family \in Families
    BY <1>2, <1>7, CallFields
  <2> HIDE DEF call
  <2>4. \A f \in Families : chains[f] \subseteq chains'[f]
    BY <1>5, <2>1
  <2>5. \A f \in Families, dir \in Dirs : call = Ensure(f, dir) => dir \in chains'[f]
    BY <1>5, <2>1, <2>2
  <2> QED BY <1>1, <1>2, <1>3, <1>4, <2>1, <2>2, <2>4, <2>5 DEF call
<1>8. CASE call.op = "flush"
  <2>1. UNCHANGED chains /\ table' = [table EXCEPT ![call.family][call.chain] = <<>>]
    BY <1>8 DEF Execute
  <2>2. /\ \A f, c : call # Ensure(f, c)
        /\ \A f, c, rule : call # Put(f, c, rule)
        /\ \A f, c : call = Flush(f, c) => call.family = f /\ call.chain = c
    <3> HIDE DEF call
    <3> QED BY <1>8 DEF Flush, Ensure, Put
  <2>3. call.family \in Families /\ call.chain \in Dirs /\ call.chain \in Chain
    BY <1>2, <1>8, CallFields DEF Chain
  <2>4. call = Flush(call.family, call.chain)
    <3>1. \E f \in Families, dir \in Dirs : call = Flush(f, dir)
      <4> HIDE DEF call
      <4> QED BY <1>4, <1>8 DEF Issued, ChainCalls, ListCalls, DefaultCalls, Enter, Ensure, Flush, Put
    <3> HIDE DEF call
    <3> QED BY <2>2, <3>1
  <2> HIDE DEF call
  <2>5. ASSUME NEW f \in Families, NEW c \in Chain
        PROVE  table'[f][c] = IF f = call.family /\ c = call.chain THEN <<>> ELSE table[f][c]
    BY <1>5, <2>1, <2>3
  <2>6. \A f \in Families, c \in Chain : table'[f][c] = table[f][c] \/ (c \in Dirs /\ Flushed(f, c))
    BY <2>3, <2>4, <2>5 DEF Flushed, call
  <2>7. \A f \in Families, dir \in Dirs : call = Flush(f, dir) => table'[f][dir] = <<>>
    BY <2>2, <2>3, <2>5
  <2> QED BY <1>1, <1>2, <1>3, <1>4, <2>1, <2>2, <2>6, <2>7 DEF call
<1>9. CASE call.op = "append"
  <2>1. UNCHANGED chains /\ EnsureRule(call.family, call.chain, call.rule)
    BY <1>9 DEF Execute
  <2>2. /\ \A f, c : call # Ensure(f, c)
        /\ \A f, c : call # Flush(f, c)
        /\ \A f, c, rule : call = Put(f, c, rule) =>
             call.family = f /\ call.chain = c /\ call.rule = rule
    <3> HIDE DEF call
    <3> QED BY <1>9 DEF Flush, Ensure, Put
  <2>3. call.family \in Families /\ call.chain \in Chain /\ call.rule \in Rule
    BY <1>2, <1>9, CallFields
  <2>4. call = Put(call.family, call.chain, call.rule)
    <3>1. \E f, c, rule : call = Put(f, c, rule)
      <4> HIDE DEF call
      <4> QED BY <1>4, <1>9 DEF Issued, ChainCalls, ListCalls, DefaultCalls, Enter, Ensure, Flush, Put
    <3> HIDE DEF call
    <3> QED BY <2>2, <3>1
  <2> HIDE DEF call
  <2>5. CASE /\ CanHold(call.family, call.chain, call.rule)
             /\ call.rule \notin Range(table[call.family][call.chain])
    <3>1. table' = [table EXCEPT ![call.family][call.chain] = Append(@, call.rule)]
      BY <2>1, <2>5 DEF EnsureRule
    <3>2. ASSUME NEW f \in Families, NEW c \in Chain
          PROVE  table'[f][c] = IF f = call.family /\ c = call.chain
                                  THEN Append(table[f][c], call.rule) ELSE table[f][c]
      BY <1>5, <2>3, <3>1
    <3>3. ASSUME NEW f \in Families, NEW c \in Chain
          PROVE  table'[f][c] = table[f][c] \/ Extended(f, c)
      <4>1. CASE f = call.family /\ c = call.chain
        <5>1. table'[f][c] = Append(table[f][c], call.rule) /\ call.rule \notin Range(table[f][c])
          BY <2>5, <3>2, <4>1
        <5>2. Head(plan) = Put(f, c, call.rule)
          BY <2>4, <4>1 DEF call
        <5> QED BY <2>3, <5>1, <5>2 DEF Extended
      <4>2. CASE ~(f = call.family /\ c = call.chain)
        BY <3>2, <4>2
      <4> QED BY <4>1, <4>2
    <3>4. call.rule \in Range(table'[call.family][call.chain])
      <4> DEFINE old == table[call.family][call.chain]
      <4>1. old \in Seq(Rule)
        BY <1>5, <2>3
      <4>2. table'[call.family][call.chain] = Append(old, call.rule)
        BY <2>3, <3>2
      <4> HIDE DEF old
      <4>3. Range(Append(old, call.rule)) = Range(old) \union {call.rule}
        BY <2>3, <4>1, RangeAppend
      <4> QED BY <4>2, <4>3
    <3> QED BY <1>1, <1>2, <1>3, <1>4, <2>1, <2>2, <3>3, <3>4 DEF call
  <2>6. CASE ~CanHold(call.family, call.chain, call.rule)
    <3>1. UNCHANGED table
      BY <2>1, <2>6 DEF EnsureRule
    <3> QED BY <1>1, <1>2, <1>3, <1>4, <2>1, <2>2, <2>6, <3>1 DEF call
  <2>7. CASE call.rule \in Range(table[call.family][call.chain])
    <3>1. UNCHANGED table
      BY <2>1, <2>7 DEF EnsureRule
    <3> QED BY <1>1, <1>2, <1>3, <1>4, <2>1, <2>2, <2>7, <3>1 DEF call
  <2> QED BY <2>5, <2>6, <2>7
<1> QED BY <1>2, <1>6, <1>7, <1>8, <1>9, CallFields

-----------------------------------------------------------------------------
(* The order of the calls is kept, whatever fails.                         *)

(* A provisioning starts with all its calls, in order.                     *)
LEMMA StartOrderly ==
  ASSUME TInv, Orderly, NEW rs \in RuleSets, Start(rs)
  PROVE  Orderly'
BY Provisioning DEF Orderly, Start, Left

(* A call puts into a built-in chain what belongs there.                   *)
LEMMA ExecuteOrderly ==
  ASSUME TInv, Orderly, Execute
  PROVE  Orderly'
<1>1. Left' \subseteq Issued(rules') /\ Sorted(plan')
  BY CallEffect DEF Orderly
<1>2. ASSUME NEW f \in Families, NEW c \in BuiltIn
      PROVE  table'[f][c] \in Seq(FitRules(Always, f, c))
  <2>1. table[f][c] \in Seq(FitRules(Always, f, c)) /\ c \in Chain /\ c \notin Dirs
    BY DEF Orderly, Chain, BuiltIn, Dirs
  <2>2. table'[f][c] = table[f][c] \/ Extended(f, c)
    BY <2>1, CallEffect
  <2>3. ASSUME NEW rule \in Rule, Head(plan) = Put(f, c, rule),
               table'[f][c] = Append(table[f][c], rule)
        PROVE  table'[f][c] \in Seq(FitRules(Always, f, c))
    <3>1. rule \in FitRules(Always, f, c)
      BY <2>3, CallEffect, BuiltInFits
    <3> QED BY <2>1, <2>3, <3>1, AppendProperties
  <2> QED BY <2>1, <2>2, <2>3 DEF Extended
<1> QED BY <1>1, <1>2 DEF Orderly

(* What a failure leaves of the calls is in order.                         *)
LEMMA FailOrderly ==
  ASSUME TInv, Orderly, Fail
  PROVE  Orderly'
<1>1. /\ plan \in Seq(Call) /\ plan # <<>> /\ Sorted(plan) /\ Left \subseteq Issued(rules)
      /\ UNCHANGED <<rules, table>>
  BY DEF Fail, TInv, Typed, Orderly
<1>2. Left' \subseteq Left /\ Sorted(plan')
  <2>1. CASE plan' = <<>>
    <3>1. DOMAIN plan' = {}
      BY <2>1
    <3> QED BY <3>1 DEF Left, Range, Sorted
  <2>2. CASE Head(plan).op = "ensure" /\ plan' = SubSeq(plan, 2, 3)
    <3>1. Len(plan) \in Nat /\ DOMAIN plan = 1 .. Len(plan) /\ Len(plan) # 0 /\ WellFormed(plan)
      BY <1>1, LenProperties, EmptySeq DEF TInv
    <3>2. 1 + 2 \in DOMAIN plan
      <4>1. 1 \in DOMAIN plan /\ plan[1].op = "ensure"
        BY <1>1, <2>2, <3>1
      <4> QED BY <3>1, <4>1 DEF WellFormed
    <3> QED BY <1>1, <2>2, <3>2, CutShortSorted DEF Left
  <2>3. CASE Advance
    BY <1>1, <2>3, HeadFirst DEF Advance, Left
  <2> QED BY <2>1, <2>2, <2>3 DEF Fail
<1> QED BY <1>1, <1>2 DEF Orderly

LEMMA OrderlyInit == Init => Orderly
<1> SUFFICES ASSUME Init PROVE Orderly
  OBVIOUS
<1>1. DOMAIN plan = {}
  BY DEF Init
<1>2. Left = {} /\ Sorted(plan)
  BY <1>1 DEF Left, Range, Sorted
<1>3. \A f \in Families, c \in BuiltIn : table[f][c] = <<>>
  BY DEF Init, Chain
<1> QED BY <1>2, <1>3, EmptySeq DEF Orderly

LEMMA OrderlyStep ==
  ASSUME TInv, Orderly, [Next]_vars
  PROVE  Orderly'
<1>1. ASSUME NEW rs \in RuleSets, Start(rs) PROVE Orderly'
  BY <1>1, StartOrderly
<1>2. CASE Execute
  BY <1>2, ExecuteOrderly
<1>3. CASE Fail
  BY <1>3, FailOrderly
<1>4. CASE UNCHANGED vars
  BY <1>4 DEF vars, Orderly, Left
<1> QED BY <1>1, <1>2, <1>3, <1>4 DEF Next

LEMMA OrderlyInvariance == Spec => []Orderly
<1>1. TInv /\ Orderly /\ [Next]_vars => Orderly'
  BY OrderlyStep
<1> QED BY <1>1, OrderlyInit, TypeInvariance, PTL DEF Spec

-----------------------------------------------------------------------------
(* Nothing is closed in vain.                                              *)

(* A peer that no policy lists.                                            *)
IsStranger(peer) ==
  /\ peer \in Peers
  /\ \A rs \in RuleSets, f \in Families, dir \in Dirs : peer \notin Range(rs[f][dir])

(* What passes whatever the policies is in the default rules.              *)
LEMMA AlwaysDefaults == \A path \in Paths : Always[path] \subseteq Defaults
<1> SUFFICES ASSUME NEW path \in Paths, NEW match \in Always[path]
             PROVE  match \in Defaults
  OBVIOUS
<1> DEFINE c == BuiltInOf(path[2])
<1>1. c \in BuiltIn
  BY DEF Paths, Dirs, BuiltInOf, BuiltIn
<1>2. PICK i \in DOMAIN DefaultRules[c] : match = DefaultRules[c][i].match /\ match # "any"
  BY DEF Always, Range
<1> HIDE DEF c
<1> QED BY <1>1, <1>2 DEF DefaultRules, BuiltIn, Accept, Reject, Defaults

Unlisted(peer) == \A path \in Paths : peer \notin listed[path]

(* A stranger is on no list, at any time.                                  *)
LEMMA StaysUnlisted ==
  ASSUME NEW stranger, IsStranger(stranger)
  PROVE  Spec => []Unlisted(stranger)
<1>1. ASSUME NEW rs \in RuleSets, NEW path \in Paths
      PROVE  stranger \notin White(rs)[path]
  <2>1. stranger \in Peers /\ stranger \notin Defaults
    BY PeersAssumption DEF IsStranger
  <2>2. path[1] \in Families
    BY DEF Paths
  <2>3. White(rs)[path]
          = Always[path] \union IF path[2] \in Dirs THEN Range(rs[path[1]][path[2]]) ELSE {}
    BY DEF White
  <2> QED BY <2>1, <2>2, <2>3, AlwaysDefaults DEF IsStranger
<1>2. Init => Unlisted(stranger)
  BY <1>1 DEF Init, Unlisted
<1>3. Unlisted(stranger) /\ [Next]_vars => Unlisted(stranger)'
  BY <1>1 DEF Unlisted, Next, Start, Execute, Fail, vars
<1> QED BY <1>2, <1>3, PTL DEF Spec

(* A path is closed when it is shut: that is what a stranger finds out.    *)
ShutIsClosed == \A path \in Paths : Accepted[path] = Packets <=> ~Shut(path)

LEMMA StrangerShutOut ==
  ASSUME NEW stranger, IsStranger(stranger)
  PROVE  Spec => []ShutIsClosed
<1>1. Fitting /\ Unlisted(stranger) => ShutIsClosed
  <2> SUFFICES ASSUME Fitting, Unlisted(stranger), NEW path \in Paths, Shut(path)
               PROVE  Accepted[path] # Packets
    BY OpenPath DEF ShutIsClosed
  <2>1. /\ path[1] \in Families /\ BuiltInOf(path[2]) \in Chain
        /\ path[2] \in Dirs => path[2] \in Chain
    BY DEF Paths, Dirs, BuiltInOf, BuiltIn, Chain
  <2>2. Accepted[path] \subseteq listed[path]
    BY <2>1, ShutPath DEF Fitting
  <2>3. stranger \in Packets /\ stranger \notin listed[path]
    BY DEF IsStranger, Packets, Unlisted
  <2> QED BY <2>2, <2>3
<1> QED BY <1>1, FittingInvariance, StaysUnlisted, PTL

(* The only call that shuts a path is the one that appends its REJECT.     *)
LEMMA ShutByReject ==
  ASSUME TInv, Orderly, [Next]_vars, NEW path \in Paths, ~Shut(path), Shut(path)'
  PROVE  Execute /\ Head(plan) = Put(path[1], BuiltInOf(path[2]), Reject)
<1> DEFINE f == path[1]
           c == BuiltInOf(path[2])
<1>1. f \in Families /\ c \in Chain /\ c \notin Dirs
  BY DEF Paths, Dirs, BuiltInOf, BuiltIn, Chain
<1>2. Reject \notin Range(table[f][c]) /\ Reject \in Range(table'[f][c])
  BY DEF Shut
<1>3. Execute
  BY <1>2 DEF Next, Start, Fail, vars
<1>4. Extended(f, c)
  BY <1>1, <1>2, <1>3, CallEffect
<1>5. PICK rule \in Rule : Head(plan) = Put(f, c, rule) /\ table'[f][c] = Append(table[f][c], rule)
  BY <1>4 DEF Extended
<1>6. Range(table'[f][c]) = Range(table[f][c]) \union {rule}
  BY <1>1, <1>5, RangeAppend DEF TInv, Typed
<1> QED BY <1>2, <1>3, <1>5, <1>6

(* By then nothing is left that could end the provisioning.                *)
LEMMA RejectsComeLast ==
  ASSUME TInv, Orderly, Execute, NEW f, NEW c \in BuiltIn, Head(plan) = Put(f, c, Reject)
  PROVE  ~MayGiveUp
<1>1. Stage(Head(plan)) = 3 /\ Head(plan).op = "append"
  BY DEF Put, Reject, Stage, BuiltIn, Dirs
<1>2. ASSUME NEW call \in Left PROVE call.op \notin {"enter", "ensure"}
  <2>1. CASE call = Head(plan)
    BY <1>1, <2>1
  <2>2. CASE InTurn(Head(plan), call)
    <3>1. Stage(call) \notin {0, 1}
      BY <1>1, <2>2 DEF InTurn
    <3> QED BY <3>1 DEF Stage
  <2> QED BY <2>1, <2>2, CallEffect
<1> QED BY <1>2 DEF MayGiveUp, Left, Range

(* As long as EnsureChain may still fail, which ends AddRulesToNewPod, no  *)
(* path has been closed by this provisioning, whatever failed before.      *)
THEOREM NothingClosed ==
  ASSUME NEW stranger, IsStranger(stranger)
  PROVE  Spec => NothingClosedInVain
<1>1. TInv /\ Orderly /\ ShutIsClosed /\ ShutIsClosed' /\ [Next]_vars =>
        [MayGiveUp => \A path \in Paths : Accepted[path] = Packets => Accepted'[path] = Packets]_vars
  <2> SUFFICES ASSUME TInv, Orderly, ShutIsClosed, ShutIsClosed', [Next]_vars, MayGiveUp,
                      NEW path \in Paths, Accepted[path] = Packets
               PROVE  Accepted'[path] = Packets
    OBVIOUS
  <2>1. ~Shut(path)
    BY DEF ShutIsClosed
  <2>2. CASE Shut(path)'
    <3>1. Execute /\ Head(plan) = Put(path[1], BuiltInOf(path[2]), Reject)
      BY <2>1, <2>2, ShutByReject
    <3>2. BuiltInOf(path[2]) \in BuiltIn
      BY DEF Paths, Dirs, BuiltInOf, BuiltIn
    <3> QED BY <3>1, <3>2, RejectsComeLast
  <2>3. CASE ~Shut(path)'
    BY <2>3 DEF ShutIsClosed
  <2> QED BY <2>2, <2>3
<1> QED BY <1>1, TypeInvariance, OrderlyInvariance, StrangerShutOut, PTL DEF Spec, NothingClosedInVain
=============================================================================
