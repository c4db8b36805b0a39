--------------------------- MODULE IsolationProofs ---------------------------
(***************************************************************************)
(* That the calls of AddRulesToNewPod do to packets what module Isolation  *)
(* promises, for any rule sets, any number of provisionings and any number *)
(* of calls that fail, as long as the policies keep to the same chains.    *)
(*                                                                         *)
(* Each path is closed by the last call that concerns it, when all that it *)
(* is to let through is in the tables, or still to come into a chain that  *)
(* is to be flushed first (Progress).                                      *)
(***************************************************************************)
EXTENDS CallOrderProofs

-----------------------------------------------------------------------------
(* What the theorems assume of the policies.                               *)

(* The policies may change, but not as to which chains hold rules: run     *)
(* policy_change shows what happens otherwise.                             *)
KeepsChains ==
  \A rs \in RuleSets : \A other \in Successors[rs] :
    \A f \in Families, dir \in Dirs : other[f][dir] = <<>> <=> rs[f][dir] = <<>>

-----------------------------------------------------------------------------
(* The inductive invariant.                                                *)

(* What a path with a list needs is in place or still to come; what the    *)
(* flush removes does not count.                                           *)
Prepared(f, dir) ==
  rules[f][dir] # <<>> =>
    /\ dir \in chains[f] \/ Ensure(f, dir) \in Left
    /\ \/ Jump(dir) \in Range(table[f][BuiltInOf(dir)])
       \/ Put(f, BuiltInOf(dir), Jump(dir)) \in Left
    /\ \A peer \in Range(rules[f][dir]) :
         \/ Put(f, dir, Accept(peer)) \in Left
         \/ Flush(f, dir) \notin Left /\ Accept(peer) \in Range(table[f][dir])

(* So are the default rules.                                               *)
Defaulted(f, c) ==
  \A rule \in Range(DefaultRules[c]) : rule \in Range(table[f][c]) \/ Put(f, c, rule) \in Left

(* A chain of ours has no rule of an earlier list, or is to be flushed.    *)
Fresh(f, dir) ==
  \/ rules[f][dir] # <<>> /\ Flush(f, dir) \in Left
  \/ table[f][dir] \in Seq(FitRules(White(rules), f, dir))

(* Its RETURN comes last.                                                  *)
Terminated(f, dir) ==
  /\ \A i \in DOMAIN table[f][dir] : table[f][dir][i] = Return => i = Len(table[f][dir])
  /\ Return \in Range(table[f][dir]) /\ Flush(f, dir) \notin Left =>
       \A peer \in Peers : Put(f, dir, Accept(peer)) \notin Left

(* A REJECT has the default rules and the jump ahead of it.                *)
Guarded(f, c) ==
  \A i \in DOMAIN table[f][c] : table[f][c][i] = Reject =>
    /\ \A rule \in Range(DefaultRules[c]) \ {Reject} : \E j \in 1 .. i - 1 : table[f][c][j] = rule
    /\ \A dir \in Dirs : BuiltInOf(dir) = c /\ rules[f][dir] # <<>> =>
         \E j \in 1 .. i - 1 : table[f][c][j] = Jump(dir)

(* As long as no call fails.                                               *)
Progress ==
  /\ outcome \notin {"aborting", "aborted"}
  /\ \A f \in Families, dir \in Dirs : Fresh(f, dir) /\ Terminated(f, dir)
  /\ \A f \in Families, c \in BuiltIn : Guarded(f, c)
  /\ outcome # "none" =>
       /\ \A f \in Families, dir \in Dirs : Prepared(f, dir)
       /\ \A f \in Families, c \in BuiltIn : Defaulted(f, c)

IInv == Orderly /\ (errors = 0 => Progress)

-----------------------------------------------------------------------------
(* The inductive invariant, as long as no call fails: one lemma for each   *)
(* part of Progress.                                                       *)

(* Stage, place and finality of each kind of call.                         *)
LEMMA Turns ==
  ASSUME NEW f \in Families
  PROVE  /\ \A dir \in Dirs :
              /\ Stage(Ensure(f, dir)) = 1 /\ Place(Ensure(f, dir)) = <<f, dir>>
              /\ ~Final(Ensure(f, dir))
              /\ Stage(Flush(f, dir)) = 1 /\ Place(Flush(f, dir)) = <<f, dir>>
              /\ Stage(Put(f, dir, Return)) = 2 /\ Place(Put(f, dir, Return)) = <<f, dir>>
              /\ Final(Put(f, dir, Return))
         /\ \A dir \in Dirs, c \in BuiltIn :
              /\ Stage(Put(f, c, Jump(dir))) = 1 /\ Place(Put(f, c, Jump(dir))) = <<f, dir>>
              /\ Final(Put(f, c, Jump(dir)))
         /\ \A dir \in Dirs, peer \in Peers :
              /\ Stage(Put(f, dir, Accept(peer))) = 2 /\ Place(Put(f, dir, Accept(peer))) = <<f, dir>>
              /\ ~Final(Put(f, dir, Accept(peer)))
         /\ \A c \in BuiltIn : \A rule \in Range(DefaultRules[c]) :
              /\ Stage(Put(f, c, rule)) = 3 /\ Place(Put(f, c, rule)) = <<f, c>>
              /\ Final(Put(f, c, rule)) <=> rule = Reject
              /\ rule.target \notin Dirs
<1>1. ASSUME NEW c \in BuiltIn, NEW rule \in Range(DefaultRules[c])
      PROVE  /\ rule.target \in {"ACCEPT", "REJECT"}
             /\ rule.target = "REJECT" <=> rule = Reject
  <2>1. PICK i \in DOMAIN DefaultRules[c] : rule = DefaultRules[c][i]
    BY DEF Range
  <2> QED BY <2>1 DEF DefaultRules, BuiltIn, Accept, Reject
<1>2. ASSUME NEW c \in BuiltIn, NEW rule \in Range(DefaultRules[c])
      PROVE  /\ Stage(Put(f, c, rule)) = 3 /\ Place(Put(f, c, rule)) = <<f, c>>
             /\ Final(Put(f, c, rule)) <=> rule = Reject
             /\ rule.target \notin Dirs
  <2>1. rule.target \notin Dirs /\ c \notin Dirs
    BY <1>1 DEF Dirs, BuiltIn
  <2> QED BY <1>1, <2>1 DEF Put, Stage, Place, Final
<1>3. ASSUME NEW dir \in Dirs
      PROVE  /\ Stage(Ensure(f, dir)) = 1 /\ Place(Ensure(f, dir)) = <<f, dir>>
             /\ ~Final(Ensure(f, dir))
             /\ Stage(Flush(f, dir)) = 1 /\ Place(Flush(f, dir)) = <<f, dir>>
  BY DEF Ensure, Flush, Stage, Place, Final
<1>4. ASSUME NEW dir \in Dirs
      PROVE  /\ Stage(Put(f, dir, Return)) = 2 /\ Place(Put(f, dir, Return)) = <<f, dir>>
             /\ Final(Put(f, dir, Return))
             /\ \A peer \in Peers :
                  /\ Stage(Put(f, dir, Accept(peer))) = 2 /\ Place(Put(f, dir, Accept(peer))) = <<f, dir>>
                  /\ ~Final(Put(f, dir, Accept(peer)))
  BY DEF Put, Return, Accept, Stage, Place, Final, Dirs
<1>5. ASSUME NEW dir \in Dirs, NEW c \in BuiltIn
      PROVE  /\ Stage(Put(f, c, Jump(dir))) = 1 /\ Place(Put(f, c, Jump(dir))) = <<f, dir>>
             /\ Final(Put(f, c, Jump(dir)))
  BY DEF Put, Jump, Stage, Place, Final, Dirs
<1> QED BY <1>2, <1>3, <1>4, <1>5

(* What is put into a chain of ours.                                       *)
LEMMA OwnFits ==
  ASSUME NEW rs \in RuleSets, NEW f \in Families, NEW dir \in Dirs, NEW rule,
         Put(f, dir, rule) \in Issued(rs)
  PROVE  /\ rule \in FitRules(White(rs), f, dir)
         /\ rule = Return \/ \E peer \in Range(rs[f][dir]) : rule = Accept(peer)
         /\ rs[f][dir] # <<>>
<1> DEFINE call == Put(f, dir, rule)
<1>1. call \in FitCalls(White(rs))
  <2>1. call \in Range(AddRulesToNewPod(rs))
    BY Provisioning
  <2> HIDE DEF call
  <2> QED BY <2>1, ProvisioningFits, ElementOfSeq, LenProperties DEF Range
<1>2. call.op = "append" /\ call.family = f /\ call.chain = dir /\ call.rule = rule
  BY DEF Put
<1>3. rule \in FitRules(White(rs), f, dir)
  <2> HIDE DEF call
  <2> QED BY <1>1, <1>2 DEF FitCalls
<1>4. /\ rule = Return \/ \E peer \in Range(rs[f][dir]) : rule = Accept(peer)
      /\ rs[f][dir] # <<>>
  <2>1. dir \notin BuiltIn
    BY DEF BuiltIn, Dirs
  <2>2. \A d \in Dirs : BuiltInOf(d) # dir
    BY DEF BuiltInOf, Dirs
  <2> QED BY <2>1, <2>2 DEF Issued, ChainCalls, ListCalls, DefaultCalls, Enter, Ensure, Flush, Put
<1> QED BY <1>3, <1>4

(* What is on a list are peers.                                            *)
LEMMA ListedPeers ==
  ASSUME NEW rs \in RuleSets, NEW f \in Families, NEW dir \in Dirs
  PROVE  Range(rs[f][dir]) \subseteq Peers
<1>1. rs[f][dir] \in Seq(Peers)
  BY RuleSetsAssumption DEF NetRuleSet
<1> QED BY <1>1, ElementOfSeq, LenProperties DEF Range

(* What is in a chain stays there, unless the chain is flushed.            *)
LEMMA StaysInChain ==
  ASSUME TInv, Orderly, Execute, NEW f \in Families, NEW c \in Chain,
         NEW rule \in Range(table[f][c]), c \in BuiltIn \/ Flush(f, c) \notin Left
  PROVE  rule \in Range(table'[f][c])
<1>1. table'[f][c] = table[f][c] \/ Extended(f, c)
  <2>1. c \in BuiltIn => c \notin Dirs
    BY DEF BuiltIn, Dirs
  <2>2. ~(c \in Dirs /\ Flushed(f, c))
    BY <2>1, CallEffect DEF Flushed
  <2> QED BY <2>2, CallEffect
<1>2. ASSUME NEW new \in Rule, table'[f][c] = Append(table[f][c], new)
      PROVE  rule \in Range(table'[f][c])
  <2>1. table[f][c] \in Seq(Rule)
    BY DEF TInv, Typed
  <2> QED BY <1>2, <2>1, RangeAppend
<1> QED BY <1>1, <1>2 DEF Extended

(* What is issued for a chain is in place afterwards: the chain is there   *)
(* by the time it is written or jumped to, and is flushed before.          *)
LEMMA PreparedKept ==
  ASSUME TInv, Orderly, Execute, NEW f \in Families, NEW dir \in Dirs, Prepared(f, dir)
  PROVE  Prepared(f, dir)'
<1> DEFINE c == BuiltInOf(dir)
<1> SUFFICES ASSUME rules[f][dir] # <<>> PROVE Prepared(f, dir)'
  BY CallEffect DEF Prepared
<1>1. /\ dir \in Chain /\ c \in Chain /\ c \in BuiltIn
      /\ rules \in RuleSets /\ rules' = rules /\ Left' \subseteq Left
  BY CallEffect DEF TInv, Typed, Chain, BuiltInOf, BuiltIn, Dirs
<1>2. dir \in chains[f] => dir \in chains'[f]
  BY CallEffect
<1>3. Ensure(f, dir) \in Left => dir \in chains'[f] \/ Ensure(f, dir) \in Left'
  BY CallEffect
<1>4. Ensure(f, dir) \in Left /\ Head(plan) # Ensure(f, dir) => InTurn(Head(plan), Ensure(f, dir))
  BY CallEffect
<1>5. \/ Jump(dir) \in Range(table'[f][c])
      \/ Put(f, c, Jump(dir)) \in Left'
  <2>1. CASE Jump(dir) \in Range(table[f][c])
    BY <1>1, <2>1, StaysInChain
  <2>2. CASE Head(plan) = Put(f, c, Jump(dir))
    <3>1. Ensure(f, dir) \notin Left
      <4>1. Head(plan) # Ensure(f, dir)
        BY <2>2 DEF Put, Ensure
      <4>2. ~InTurn(Head(plan), Ensure(f, dir))
        BY <1>1, <2>2, Turns DEF InTurn
      <4> QED BY <1>4, <4>1, <4>2
    <3>2. CanHold(f, c, Jump(dir))
      BY <1>1, <3>1 DEF Prepared, CanHold, Jump
    <3>3. Jump(dir) \in Rule
      BY RuleTypes
    <3> QED BY <1>1, <2>2, <3>2, <3>3, CallEffect
  <2>3. CASE Put(f, c, Jump(dir)) \in Left /\ Head(plan) # Put(f, c, Jump(dir))
    BY <2>3, CallEffect
  <2> QED BY <2>1, <2>2, <2>3 DEF Prepared
<1>6. ASSUME NEW peer \in Range(rules[f][dir])
      PROVE  \/ Put(f, dir, Accept(peer)) \in Left'
             \/ Flush(f, dir) \notin Left' /\ Accept(peer) \in Range(table'[f][dir])
  <2>1. CASE Flush(f, dir) \notin Left /\ Accept(peer) \in Range(table[f][dir])
    BY <1>1, <2>1, StaysInChain
  <2>2. CASE Head(plan) = Put(f, dir, Accept(peer))
    <3>1. Stage(Head(plan)) = 2 /\ peer \in Peers
      BY <1>1, <2>2, Turns, ListedPeers
    <3>2. Flush(f, dir) \notin Left'
      <4>1. ~InTurn(Head(plan), Flush(f, dir))
        BY <3>1, Turns DEF InTurn
      <4> QED BY <4>1, CallEffect
    <3>3. Ensure(f, dir) \notin Left
      <4>1. Head(plan) # Ensure(f, dir)
        BY <2>2 DEF Put, Ensure
      <4>2. ~InTurn(Head(plan), Ensure(f, dir))
        BY <3>1, Turns DEF InTurn
      <4> QED BY <1>4, <4>1, <4>2
    <3>4. CanHold(f, dir, Accept(peer))
      BY <3>3 DEF Prepared, CanHold, Accept, Dirs
    <3>5. Accept(peer) \in Rule
      BY <3>1, RuleTypes DEF Packets
    <3> QED BY <1>1, <2>2, <3>2, <3>4, <3>5, CallEffect
  <2>3. CASE Put(f, dir, Accept(peer)) \in Left /\ Head(plan) # Put(f, dir, Accept(peer))
    BY <2>3, CallEffect
  <2> QED BY <2>1, <2>2, <2>3 DEF Prepared
<1>7. dir \in chains'[f] \/ Ensure(f, dir) \in Left'
  BY <1>2, <1>3 DEF Prepared
<1> QED BY <1>1, <1>5, <1>6, <1>7 DEF Prepared

(* A default rule that is issued is in its chain afterwards.               *)
LEMMA DefaultedKept ==
  ASSUME TInv, Orderly, Execute, NEW f \in Families, NEW c \in BuiltIn, Defaulted(f, c)
  PROVE  Defaulted(f, c)'
<1> SUFFICES ASSUME NEW rule \in Range(DefaultRules[c])
             PROVE  rule \in Range(table'[f][c]) \/ Put(f, c, rule) \in Left'
  BY DEF Defaulted
<1>1. c \in Chain
  BY DEF Chain
<1>2. CASE rule \in Range(table[f][c])
  BY <1>1, <1>2, StaysInChain
<1>3. CASE Head(plan) = Put(f, c, rule)
  <2>1. CanHold(f, c, rule)
    BY Turns DEF CanHold
  <2>2. rule \in Rule
    BY DefaultRulesTypes, ElementOfSeq, LenProperties DEF Range
  <2> QED BY <1>1, <1>3, <2>1, <2>2, CallEffect
<1>4. CASE Put(f, c, rule) \in Left /\ Head(plan) # Put(f, c, rule)
  BY <1>4, CallEffect
<1> QED BY <1>2, <1>3, <1>4 DEF Defaulted

(* A chain that was flushed holds rules of the list of this provisioning   *)
(* only.                                                                   *)
LEMMA FreshKept ==
  ASSUME TInv, Orderly, Execute, NEW f \in Families, NEW dir \in Dirs, Fresh(f, dir)
  PROVE  Fresh(f, dir)'
<1> DEFINE S == FitRules(White(rules), f, dir)
<1>1. rules' = rules /\ rules \in RuleSets /\ dir \in Chain
  BY CallEffect DEF TInv, Typed, Chain
<1>2. CASE rules[f][dir] # <<>> /\ Flush(f, dir) \in Left'
  BY <1>1, <1>2 DEF Fresh
<1>3. CASE Head(plan) = Flush(f, dir)
  <2>1. table'[f][dir] = <<>>
    BY <1>3, CallEffect
  <2> QED BY <1>1, <2>1, EmptySeq DEF Fresh
<1>4. CASE table[f][dir] \in Seq(S) /\ Head(plan) # Flush(f, dir)
  <2>1. table'[f][dir] = table[f][dir] \/ Extended(f, dir)
    BY <1>1, <1>4, CallEffect DEF Flushed
  <2>2. ASSUME NEW rule \in Rule, Head(plan) = Put(f, dir, rule),
               table'[f][dir] = Append(table[f][dir], rule)
        PROVE  table'[f][dir] \in Seq(S)
    <3>1. rule \in S
      BY <1>1, <2>2, CallEffect, OwnFits
    <3> QED BY <1>4, <2>2, <3>1, AppendProperties
  <2>3. table'[f][dir] \in Seq(S)
    BY <1>4, <2>1, <2>2 DEF Extended
  <2> QED BY <1>1, <2>3 DEF Fresh
<1> QED BY <1>2, <1>3, <1>4, CallEffect DEF Fresh

(* An accept is put into a chain of ours only after the flush.             *)
LEMMA AcceptAfterFlush ==
  ASSUME TInv, Orderly, Execute, NEW f \in Families, NEW dir \in Dirs, NEW peer \in Peers,
         Head(plan) = Put(f, dir, Accept(peer))
  PROVE  Flush(f, dir) \notin Left /\ Put(f, dir, Accept(peer)) \in Left
<1>1. Head(plan) # Flush(f, dir)
  BY DEF Put, Flush
<1>2. ~InTurn(Head(plan), Flush(f, dir))
  BY Turns DEF InTurn
<1> QED BY <1>1, <1>2, CallEffect

(* No rule is put behind the RETURN of a chain.                            *)
LEMMA TerminatedKept ==
  ASSUME TInv, Orderly, Execute, NEW f \in Families, NEW dir \in Dirs, Terminated(f, dir)
  PROVE  Terminated(f, dir)'
<1> DEFINE s == table[f][dir]
           t == table'[f][dir]
<1>1. rules \in RuleSets /\ dir \in Chain /\ s \in Seq(Rule) /\ Left' \subseteq Left
  BY CallEffect DEF TInv, Typed, Chain
<1>2. CASE t = <<>>
  <2>1. DOMAIN t = {}
    BY <1>2
  <2> QED BY <2>1 DEF Terminated, Range
<1>3. CASE t = s /\ Head(plan) # Flush(f, dir)
  <2>1. Flush(f, dir) \notin Left' => Flush(f, dir) \notin Left
    BY <1>3, CallEffect
  <2> QED BY <1>1, <1>3, <2>1 DEF Terminated
<1>4. ASSUME NEW rule \in Rule, Head(plan) = Put(f, dir, rule), rule \notin Range(s),
             t = Append(s, rule)
      PROVE  Terminated(f, dir)'
  <2>1. /\ Len(s) \in Nat /\ DOMAIN s = 1 .. Len(s) /\ DOMAIN t = 1 .. Len(s) + 1
        /\ Len(t) = Len(s) + 1 /\ t[Len(s) + 1] = rule
        /\ \A i \in 1 .. Len(s) : t[i] = s[i]
    <3>1. t \in Seq(Rule)
      BY <1>1, <1>4, AppendProperties
    <3> QED BY <1>1, <1>4, <3>1, AppendProperties, LenProperties
  <2>2. Range(t) = Range(s) \union {rule}
    BY <1>1, <1>4, RangeAppend
  <2>3. rule = Return \/ \E peer \in Peers : rule = Accept(peer)
    BY <1>1, <1>4, CallEffect, OwnFits, ListedPeers
  <2>4. Return \notin Range(s)
    <3>1. ASSUME NEW peer \in Peers, rule = Accept(peer), Return \in Range(s) PROVE FALSE
      BY <1>4, <3>1, AcceptAfterFlush DEF Terminated
    <3> QED BY <1>4, <2>3, <3>1
  <2>5. \A i \in DOMAIN t : t[i] = Return => i = Len(t)
    <3>1. \A i \in DOMAIN s : s[i] # Return
      BY <2>4 DEF Range
    <3> HIDE DEF s, t
    <3> QED BY <2>1, <3>1
  <2>6. ASSUME Return \in Range(t), NEW peer \in Peers
        PROVE  Put(f, dir, Accept(peer)) \notin Left'
    <3>1. Head(plan) = Put(f, dir, Return)
      BY <1>4, <2>2, <2>4, <2>6
    <3>2. ~InTurn(Head(plan), Put(f, dir, Accept(peer)))
      BY <3>1, Turns DEF InTurn
    <3> QED BY <3>2, CallEffect
  <2> QED BY <2>5, <2>6 DEF Terminated
<1>5. t = <<>> \/ (t = s /\ Head(plan) # Flush(f, dir)) \/ Extended(f, dir)
  BY <1>1, CallEffect DEF Flushed
<1> QED BY <1>2, <1>3, <1>4, <1>5 DEF Extended

(* A REJECT is appended when the default rules and the jump are there.     *)
LEMMA GuardedKept ==
  ASSUME TInv, Orderly, Execute, NEW f \in Families, NEW c \in BuiltIn, Guarded(f, c),
         Defaulted(f, c), \A dir \in Dirs : Prepared(f, dir)
  PROVE  Guarded(f, c)'
<1> DEFINE s == table[f][c]
           t == table'[f][c]
<1>1. /\ rules' = rules /\ c \in Chain /\ c \notin Dirs /\ s \in Seq(Rule)
  BY CallEffect DEF TInv, Typed, Chain, BuiltIn, Dirs
<1>2. CASE t = s
  BY <1>1, <1>2 DEF Guarded
<1>3. ASSUME NEW new \in Rule, Head(plan) = Put(f, c, new), t = Append(s, new)
      PROVE  Guarded(f, c)'
  <2>1. /\ Len(s) \in Nat /\ DOMAIN s = 1 .. Len(s) /\ DOMAIN t = 1 .. Len(s) + 1
        /\ t[Len(s) + 1] = new /\ \A i \in 1 .. Len(s) : t[i] = s[i]
    <3>1. t \in Seq(Rule)
      BY <1>1, <1>3, AppendProperties
    <3> QED BY <1>1, <1>3, <3>1, AppendProperties, LenProperties
  <2> SUFFICES ASSUME NEW i \in DOMAIN t, t[i] = Reject
               PROVE  /\ \A rule \in Range(DefaultRules[c]) \ {Reject} : \E j \in 1 .. i - 1 : t[j] = rule
                      /\ \A dir \in Dirs : BuiltInOf(dir) = c /\ rules[f][dir] # <<>> =>
                           \E j \in 1 .. i - 1 : t[j] = Jump(dir)
    BY <1>1 DEF Guarded
  <2> HIDE DEF s, t
  <2>2. CASE i \in DOMAIN s
    <3>1. s[i] = Reject
      BY <2>1, <2>2
    <3>2. \A j \in 1 .. i - 1 : t[j] = s[j]
      BY <2>1, <2>2
    <3> QED BY <2>2, <3>1, <3>2 DEF Guarded, s
  <2>3. CASE i = Len(s) + 1
    <3>1. new = Reject
      BY <2>1, <2>3
    <3>2. \A rule \in Range(s) : \E j \in 1 .. i - 1 : t[j] = rule
      BY <2>1, <2>3 DEF Range
    <3>3. Reject \in Range(DefaultRules[c])
      BY <1>1, <1>3, <3>1, CallEffect
        DEF Issued, ChainCalls, ListCalls, DefaultCalls, Enter, Ensure, Flush, Put, Jump, Reject, Dirs
    <3>4. ASSUME NEW rule \in Range(DefaultRules[c]) \ {Reject}
          PROVE  rule \in Range(s)
      <4>1. Head(plan) # Put(f, c, rule)
        BY <1>3, <3>1, <3>4 DEF Put
      <4>2. ~InTurn(Head(plan), Put(f, c, rule))
        BY <1>3, <3>1, <3>3, <3>4, Turns DEF InTurn
      <4>3. Put(f, c, rule) \notin Left
        BY <4>1, <4>2, CallEffect
      <4> QED BY <3>4, <4>3 DEF Defaulted, s
    <3>5. ASSUME NEW dir \in Dirs, BuiltInOf(dir) = c, rules[f][dir] # <<>>
          PROVE  Jump(dir) \in Range(s)
      <4>1. Head(plan) # Put(f, c, Jump(dir))
        BY <1>3, <3>1, Turns DEF Put, Reject, Jump, Dirs
      <4>2. ~InTurn(Head(plan), Put(f, c, Jump(dir)))
        BY <1>3, <3>1, <3>3, Turns DEF InTurn
      <4>3. Put(f, c, Jump(dir)) \notin Left
        BY <4>1, <4>2, CallEffect
      <4> QED BY <3>5, <4>3 DEF Prepared, s
    <3> QED BY <3>2, <3>4, <3>5
  <2> QED BY <2>1, <2>2, <2>3
<1>4. t = s \/ Extended(f, c)
  BY <1>1, CallEffect
<1> QED BY <1>2, <1>3, <1>4 DEF Extended

(* A call that does not fail keeps the invariant.                          *)
LEMMA ExecuteProgress ==
  ASSUME TInv, Orderly, Progress, Execute
  PROVE  Progress'
<1>1. outcome = "running" /\ outcome' \in {"running", "done"}
  BY DEF TInv, Typed, Progress, Execute, Advance
<1>2. \A f \in Families, dir \in Dirs : Fresh(f, dir)' /\ Terminated(f, dir)' /\ Prepared(f, dir)'
  BY <1>1, FreshKept, TerminatedKept, PreparedKept DEF Progress
<1>3. \A f \in Families, c \in BuiltIn : Guarded(f, c)' /\ Defaulted(f, c)'
  BY <1>1, GuardedKept, DefaultedKept DEF Progress
<1> QED BY <1>1, <1>2, <1>3 DEF Progress

(* A provisioning may start with what the ones before it have left, if the *)
(* policies keep to the same chains.                                       *)
LEMMA StartProgress ==
  ASSUME KeepsChains, TInv, Progress, NEW rs \in RuleSets, Start(rs)
  PROVE  Progress'
<1>1. /\ rules' = rs /\ outcome' = "running" /\ table' = table /\ rules \in RuleSets
      /\ Left' = Issued(rs)
  BY Provisioning DEF Start, TInv, Typed, Left
<1>2. \A f \in Families, dir \in Dirs : rs[f][dir] = <<>> <=> rules[f][dir] = <<>>
  BY DEF KeepsChains, Start, TInv, Typed
<1>3. Left' \subseteq Call
  BY <1>1 DEF Issued
<1>4. ASSUME NEW f \in Families, NEW dir \in Dirs, rs[f][dir] # <<>>
      PROVE  /\ Ensure(f, dir) \in Left' /\ Flush(f, dir) \in Left'
             /\ Put(f, BuiltInOf(dir), Jump(dir)) \in Left'
             /\ \A peer \in Range(rs[f][dir]) : Put(f, dir, Accept(peer)) \in Left'
  <2>1. /\ Ensure(f, dir) \in Call /\ Flush(f, dir) \in Call
        /\ Put(f, BuiltInOf(dir), Jump(dir)) \in Call
    <3>1. BuiltInOf(dir) \in Chain
      BY DEF BuiltInOf, BuiltIn, Chain, Dirs
    <3> QED BY <3>1, RuleTypes DEF Call, Ensure, Flush, Put
  <2>2. ASSUME NEW peer \in Range(rs[f][dir]) PROVE Put(f, dir, Accept(peer)) \in Call
    <3>1. dir \in Chain /\ Accept(peer) \in Rule
      BY ListedPeers, RuleTypes DEF Chain, Packets
    <3> QED BY <3>1 DEF Call, Put
  <2> QED BY <1>1, <1>4, <2>1, <2>2 DEF Issued, ChainCalls, ListCalls
<1>5. ASSUME NEW f \in Families, NEW c \in BuiltIn, NEW rule \in Range(DefaultRules[c])
      PROVE  Put(f, c, rule) \in Left'
  <2>1. c \in Chain /\ rule \in Rule
    BY DefaultRulesTypes, ElementOfSeq, LenProperties DEF Range, Chain
  <2>2. Put(f, c, rule) \in Call
    BY <2>1 DEF Call, Put
  <2> QED BY <1>1, <2>2 DEF Issued, DefaultCalls
<1>6. ASSUME NEW f \in Families, NEW dir \in Dirs
      PROVE  Fresh(f, dir)'
  <2>1. CASE rs[f][dir] # <<>>
    BY <1>1, <1>4, <2>1 DEF Fresh
  <2>2. CASE rs[f][dir] = <<>>
    <3>1. table[f][dir] \in Seq(FitRules(White(rules), f, dir))
      BY <1>2, <2>2 DEF Progress, Fresh
    <3>2. FitRules(White(rules), f, dir) = FitRules(White(rs), f, dir)
      <4>1. ASSUME NEW path \in Paths, path[1] = f, dir \in {path[2], BuiltInOf(path[2])}
            PROVE  White(rules)[path] = White(rs)[path]
        <5>1. path[2] = dir
          BY <4>1 DEF Paths, Dirs, BuiltInOf
        <5> QED BY <1>2, <2>2, <4>1, <5>1 DEF White
      <4> QED BY <4>1 DEF FitRules
    <3> QED BY <1>1, <3>1, <3>2 DEF Fresh
  <2> QED BY <2>1, <2>2
<1>7. ASSUME NEW f \in Families, NEW dir \in Dirs
      PROVE  Terminated(f, dir)'
  <2>1. ASSUME Flush(f, dir) \notin Left', NEW peer PROVE Put(f, dir, Accept(peer)) \notin Left'
    <3>1. rs[f][dir] = <<>>
      BY <1>4, <2>1
    <3> QED BY <1>1, <3>1, OwnFits
  <2> QED BY <1>1, <2>1 DEF Progress, Terminated
<1>8. \A f \in Families, c \in BuiltIn : Guarded(f, c)'
  BY <1>1, <1>2 DEF Progress, Guarded
<1>9. \A f \in Families, dir \in Dirs : Prepared(f, dir)'
  BY <1>1, <1>4 DEF Prepared
<1>10. \A f \in Families, c \in BuiltIn : Defaulted(f, c)'
  BY <1>5 DEF Defaulted
<1> QED BY <1>1, <1>6, <1>7, <1>8, <1>9, <1>10 DEF Progress

(* The inductive invariant holds in every reachable state.                 *)
LEMMA ProgressInvariance ==
  ASSUME KeepsChains
  PROVE  Spec => []IInv
<1>1. Init => IInv
  <2> SUFFICES ASSUME Init PROVE Progress
    BY OrderlyInit DEF IInv
  <2>1. /\ \A f \in Families, c \in Chain : table[f][c] = <<>>
        /\ outcome = "none"
    BY DEF Init
  <2>2. \A f \in Families, c \in Chain : DOMAIN table[f][c] = {} /\ Range(table[f][c]) = {}
    BY <2>1 DEF Range
  <2>3. BuiltIn \subseteq Chain /\ Dirs \subseteq Chain
    BY DEF Chain
  <2>4. \A f \in Families, dir \in Dirs : Fresh(f, dir)
    BY <2>1, <2>3, EmptySeq DEF Fresh
  <2> QED BY <2>1, <2>2, <2>3, <2>4 DEF Progress, Terminated, Guarded
<1>2. TInv /\ IInv /\ [Next]_vars => IInv'
  <2> SUFFICES ASSUME TInv, IInv, [Next]_vars PROVE IInv'
    OBVIOUS
  <2>1. Orderly'
    BY OrderlyStep DEF IInv
  <2>2. ASSUME NEW rs \in RuleSets, Start(rs) PROVE IInv'
    <3>1. errors' = 0 => Progress'
      BY <2>2, StartProgress DEF IInv, Start
    <3> QED BY <2>1, <3>1 DEF IInv
  <2>3. CASE Execute
    <3>1. errors' = 0 => Progress'
      BY <2>3, ExecuteProgress DEF IInv, Execute
    <3> QED BY <2>1, <3>1 DEF IInv
  <2>4. CASE Fail
    <3>1. errors' # 0
      BY <2>4, BoundsAssumption DEF Fail, TInv, Typed
    <3> QED BY <2>1, <3>1 DEF IInv
  <2>5. CASE UNCHANGED vars
    <3>1. Progress => Progress'
      BY <2>5 DEF vars, Progress, Fresh, Terminated, Guarded, Prepared, Defaulted, Left
    <3> QED BY <2>1, <2>5, <3>1 DEF vars, IInv
  <2> QED BY <2>2, <2>3, <2>4, <2>5 DEF Next
<1> QED BY <1>1, <1>2, TypeInvariance, PTL DEF Spec

-----------------------------------------------------------------------------
(* What the invariant says of packets.                                     *)

(* The built-in chain of a path, and its own.                              *)
LEMMA PathTypes ==
  ASSUME NEW path \in Paths
  PROVE  /\ path[1] \in Families /\ BuiltInOf(path[2]) \in BuiltIn
         /\ path[2] \in Dirs \/ path[2] = "forward"
         /\ path = <<path[1], path[2]>>
BY DEF Paths, Dirs, BuiltInOf, BuiltIn

(* Nothing is left to be done to the chain of a path.                      *)
Settled(path) ==
  path[2] \in Dirs =>
    /\ Flush(path[1], path[2]) \notin Left
    /\ \A peer \in Peers : Put(path[1], path[2], Accept(peer)) \notin Left

(* What is always to pass is ahead of every REJECT.                        *)
LEMMA AlwaysPasses ==
  ASSUME Progress, NEW path \in Paths
  PROVE  Always[path] \subseteq Accepted[path]
<1> DEFINE f == path[1]
           c == BuiltInOf(path[2])
<1> SUFFICES ASSUME NEW packet \in Always[path] PROVE packet \in Accepted[path]
  OBVIOUS
<1>1. packet \in Packets
  BY AlwaysDefaults DEF Packets
<1>2. PICK rule \in Range(DefaultRules[c]) : packet = rule.match /\ packet # "any"
  BY DEF Always
<1>3. c \in BuiltIn /\ f \in Families
  BY PathTypes
<1>4. rule # Reject /\ rule.target = "ACCEPT"
  <2>1. PICK i \in DOMAIN DefaultRules[c] : rule = DefaultRules[c][i]
    BY DEF Range
  <2> HIDE DEF c
  <2> QED BY <1>2, <1>3, <2>1 DEF DefaultRules, BuiltIn, Accept, Reject
<1>5. \A i \in DOMAIN table[f][c] : table[f][c][i] = Reject =>
        \E j \in 1 .. i - 1 : table[f][c][j] = rule
  <2> HIDE DEF f, c
  <2>1. Guarded(f, c) /\ rule \in Range(DefaultRules[c]) \ {Reject}
    BY <1>2, <1>3, <1>4 DEF Progress
  <2> QED BY <2>1 DEF Guarded
<1>6. Matches(rule, packet)
  BY <1>2 DEF Matches
<1>7. LetsThrough(f, c, packet)
  BY <1>4, <1>5, <1>6 DEF LetsThrough
<1> QED BY <1>1, <1>7 DEF Accepted

(* A peer on the list passes unless the call that lets it in is to come.   *)
LEMMA ListedPasses ==
  ASSUME TInv, Progress, outcome # "none", NEW path \in Paths, path[2] \in Dirs,
         NEW packet \in Range(rules[path[1]][path[2]]),
         Put(path[1], path[2], Accept(packet)) \notin Left
  PROVE  packet \in Accepted[path]
<1> DEFINE f == path[1]
           dir == path[2]
           c == BuiltInOf(path[2])
<1>1. f \in Families /\ c \in BuiltIn /\ dir \in Chain /\ rules \in RuleSets
  BY PathTypes DEF Chain, TInv, Typed
<1>2. packet \in Packets /\ rules[f][dir] # <<>>
  <2>1. rules[f][dir] = <<>> => Range(rules[f][dir]) = {}
    BY DEF Range
  <2> QED BY <1>1, <2>1, ListedPeers DEF Packets
<1>3. Accept(packet) \in Range(table[f][dir])
  BY <1>1, <1>2 DEF Progress, Prepared
<1>4. PICK k \in DOMAIN table[f][dir] : table[f][dir][k] = Accept(packet)
  BY <1>3 DEF Range
<1>5. \A j \in 1 .. k - 1 : table[f][dir][j] # Return
  <2>1. table[f][dir] \in Seq(Rule)
    BY <1>1 DEF TInv, Typed
  <2>2. Len(table[f][dir]) \in Nat /\ DOMAIN table[f][dir] = 1 .. Len(table[f][dir])
    BY <2>1, LenProperties
  <2>3. \A j \in DOMAIN table[f][dir] : table[f][dir][j] = Return => j = Len(table[f][dir])
    BY <1>1 DEF Progress, Terminated
  <2> QED BY <1>4, <2>2, <2>3
<1>6. ChainAccepts(f, dir, packet)
  <2>1. Matches(Accept(packet), packet) /\ Accept(packet).target = "ACCEPT"
    BY DEF Matches, Accept
  <2> HIDE DEF f, dir
  <2> QED BY <1>4, <1>5, <2>1 DEF ChainAccepts
<1>7. \A i \in DOMAIN table[f][c] : table[f][c][i] = Reject =>
        \E j \in 1 .. i - 1 : table[f][c][j] = Jump(dir)
  BY <1>1, <1>2 DEF Progress, Guarded
<1>8. Matches(Jump(dir), packet) /\ Jump(dir).target = dir
  BY DEF Matches, Jump
<1>9. LetsThrough(f, c, packet)
  BY <1>6, <1>7, <1>8 DEF LetsThrough
<1> QED BY <1>2, <1>9 DEF Accepted

(* A path that is shut and settled accepts exactly what is whitelisted.    *)
LEMMA ExactlyWhite ==
  ASSUME TInv, Orderly, Progress, outcome # "none",
         NEW path \in Paths, Shut(path), Settled(path)
  PROVE  Accepted[path] = White(rules)[path]
<1> DEFINE f == path[1]
           dir == path[2]
           c == BuiltInOf(path[2])
<1>1. f \in Families /\ c \in BuiltIn /\ c \in Chain /\ rules \in RuleSets /\ path = <<f, dir>>
  BY PathTypes DEF Chain, TInv, Typed
<1>2. White(rules)[path] = Always[path] \union IF dir \in Dirs THEN Range(rules[f][dir]) ELSE {}
  BY DEF White
<1>3. Accepted[path] \subseteq White(rules)[path]
  <2>1. table[f][c] \in Seq(FitRules(White(rules), f, c))
    <3>1. table[f][c] \in Seq(FitRules(Always, f, c))
      BY <1>1 DEF Orderly
    <3>2. \A p \in Paths : Always[p] \subseteq White(rules)[p]
      BY DEF White
    <3>3. FitRules(Always, f, c) \subseteq FitRules(White(rules), f, c)
      BY <3>2 DEF FitRules
    <3> QED BY <3>1, <3>3, SeqGrows
  <2>2. dir \in Dirs => table[f][dir] \in Seq(FitRules(White(rules), f, dir))
    BY <1>1 DEF Progress, Fresh, Settled
  <2> QED BY <2>1, <2>2, ShutPath
<1>4. ASSUME dir \in Dirs, NEW packet \in Range(rules[f][dir])
      PROVE  packet \in Accepted[path]
  <2>1. packet \in Peers
    BY <1>1, <1>4, ListedPeers
  <2>2. Put(f, dir, Accept(packet)) \notin Left /\ Flush(f, dir) \notin Left
    BY <1>4, <2>1 DEF Settled
  <2> QED BY <1>1, <1>4, <2>2, ListedPasses
<1> QED BY <1>2, <1>3, <1>4, AlwaysPasses

(* A provisioning that no call of failed leaves exactly what the policies  *)
(* whitelist, whatever was cut short before or written by other policies.  *)
THEOREM Isolated ==
  ASSUME KeepsChains
  PROVE  Spec => []DefaultIsolation
<1>1. TInv /\ IInv => DefaultIsolation
  <2> SUFFICES ASSUME TInv, IInv, outcome = "done", errors = 0 PROVE Accepted = White(rules)
    BY DEF DefaultIsolation
  <2>1. Progress /\ Orderly
    BY DEF IInv
  <2>2. Left = {}
    <3>1. plan = <<>>
      BY DEF TInv, Typed
    <3> QED BY <3>1 DEF Left, Range
  <2>3. ASSUME NEW path \in Paths PROVE Accepted[path] = White(rules)[path]
    <3>1. Reject \in Range(DefaultRules[BuiltInOf(path[2])])
      <4>1. \A c \in BuiltIn : \E i \in DOMAIN DefaultRules[c] : DefaultRules[c][i] = Reject
        <5>1. /\ 3 \in DOMAIN DefaultRules["INPUT"] /\ DefaultRules["INPUT"][3] = Reject
              /\ 5 \in DOMAIN DefaultRules["OUTPUT"] /\ DefaultRules["OUTPUT"][5] = Reject
              /\ 1 \in DOMAIN DefaultRules["FORWARD"] /\ DefaultRules["FORWARD"][1] = Reject
          BY DEF DefaultRules
        <5> QED BY <5>1 DEF BuiltIn
      <4> QED BY <4>1, PathTypes DEF Range
    <3>2. Shut(path)
      BY <2>1, <2>2, <3>1, PathTypes DEF Progress, Defaulted, Shut
    <3>3. Settled(path)
      BY <2>2 DEF Settled
    <3> QED BY <2>1, <3>2, <3>3, ExactlyWhite
  <2> QED BY <2>3 DEF Accepted, White
<1> QED BY <1>1, TypeInvariance, ProgressInvariance, PTL

(* Whoever a second provisioning cuts off by flushing a chain is let in    *)
(* again by a call that is still to come, and that no flush follows.       *)
THEOREM CutOffReturn ==
  ASSUME KeepsChains
  PROVE  Spec => []CutOffToReturn
<1>1. TInv /\ IInv => CutOffToReturn
  <2> SUFFICES ASSUME TInv, IInv, outcome = "running", errors = 0, NEW path \in Paths,
                      NEW packet \in White(rules)[path], packet \notin Accepted[path]
               PROVE  LetIn(path, packet)
    BY DEF CutOffToReturn
  <2> DEFINE f == path[1]
             dir == path[2]
             call == Put(f, dir, Accept(packet))
  <2>1. Progress /\ Orderly
    BY DEF IInv
  <2>2. f \in Families /\ dir \in Dirs /\ packet \in Range(rules[f][dir]) /\ packet \in Peers
    <3>1. packet \notin Always[path]
      BY <2>1, AlwaysPasses
    <3>2. dir \in Dirs /\ packet \in Range(rules[f][dir])
      BY <3>1 DEF White
    <3> QED BY <3>2, PathTypes, ListedPeers DEF TInv, Typed
  <2>3. call \in Left
    BY <2>1, <2>2, ListedPasses
  <2>4. PICK i \in DOMAIN plan : plan[i] = call
    BY <2>3 DEF Left, Range
  <2>5. ASSUME NEW j \in DOMAIN plan, j > i PROVE plan[j] # Flush(f, dir)
    <3>1. InTurn(plan[i], plan[j])
      <4>1. plan \in Seq(Call)
        BY DEF TInv, Typed
      <4>2. Len(plan) \in Nat /\ DOMAIN plan = 1 .. Len(plan)
        BY <4>1, LenProperties
      <4> HIDE DEF call
      <4> QED BY <2>1, <2>4, <2>5, <4>2 DEF Orderly, Sorted
    <3>2. Stage(call) = 2 /\ Stage(Flush(f, dir)) = 1
      BY <2>2, Turns
    <3> HIDE DEF call, f, dir
    <3> QED BY <2>4, <3>1, <3>2 DEF InTurn
  <2> QED BY <2>4, <2>5 DEF LetIn, Put, Flush
<1> QED BY <1>1, TypeInvariance, ProgressInvariance, PTL

-----------------------------------------------------------------------------
(* Provisioner implements Isolation.                                       *)

(* What the refinement needs to know of a state.                           *)
TrafficFacts ==
  /\ ShutIsClosed /\ ClosedToUnlisted
  /\ errors = 0 => \A path \in Paths : Always[path] \subseteq Accepted[path]
  /\ errors = 0 /\ outcome # "none" =>
       \A path \in Paths : Shut(path) /\ Settled(path) => Accepted[path] = White(rules)[path]

(* They hold in every reachable state.                                     *)
LEMMA TrafficInvariance ==
  ASSUME KeepsChains, NEW stranger, IsStranger(stranger)
  PROVE  Spec => []TrafficFacts
<1>1. TInv /\ IInv /\ ShutIsClosed /\ ClosedToUnlisted => TrafficFacts
  BY AlwaysPasses, ExactlyWhite DEF IInv, TrafficFacts
<1> QED BY <1>1, TypeInvariance, ProgressInvariance, StrangerShutOut, NobodyUnlisted, PTL

(* Accepted is a set of packets for each path.                             *)
LEMMA AcceptedFunction ==
  /\ Accepted = [path \in Paths |-> Accepted[path]]
  /\ \A path \in Paths : Accepted[path] \subseteq Packets
BY DEF Accepted

(* What a path lets through depends on its two chains only.                *)
LEMMA TwoChains ==
  ASSUME Orderly, NEW path \in Paths,
         table'[path[1]][BuiltInOf(path[2])] = table[path[1]][BuiltInOf(path[2])],
         path[2] \in Dirs => table'[path[1]][path[2]] = table[path[1]][path[2]]
  PROVE  Accepted'[path] = Accepted[path]
<1> DEFINE f == path[1]
           c == BuiltInOf(path[2])
<1>1. f \in Families /\ c \in BuiltIn
  BY PathTypes
<1>2. ASSUME NEW i \in DOMAIN table[f][c], table[f][c][i].target \in Dirs
      PROVE  table[f][c][i].target = path[2]
  <2>1. table[f][c] \in Seq(FitRules(Always, f, c))
    BY <1>1 DEF Orderly
  <2>2. table[f][c][i] \in FitRules(Always, f, c)
    BY <2>1, ElementOfSeq, LenProperties
  <2> DEFINE target == table[f][c][i].target
  <2>3. target \in Dirs /\ BuiltInOf(path[2]) = BuiltInOf(target)
    BY <1>2, <2>2 DEF FitRules, InPlace
  <2> HIDE DEF target
  <2>4. \A dir \in Dirs, other \in Dirs \union {"forward"} :
          BuiltInOf(other) = BuiltInOf(dir) => dir = other
    BY DEF Dirs, BuiltInOf
  <2>5. path[2] \in Dirs \union {"forward"}
    BY PathTypes
  <2>6. target = path[2]
    BY <2>3, <2>4, <2>5
  <2> QED BY <2>6 DEF target
<1>3. ASSUME NEW packet \in Packets, path[2] \in Dirs
      PROVE  ChainAccepts(f, path[2], packet)' <=> ChainAccepts(f, path[2], packet)
  BY <1>3 DEF ChainAccepts
<1>4. \A i \in DOMAIN table[f][c] : \A j \in 1 .. i - 1 : j \in DOMAIN table[f][c]
  <2>1. table[f][c] \in Seq(FitRules(Always, f, c))
    BY <1>1 DEF Orderly
  <2>2. Len(table[f][c]) \in Nat /\ DOMAIN table[f][c] = 1 .. Len(table[f][c])
    BY <2>1, LenProperties
  <2> DEFINE n == Len(table[f][c])
  <2>3. n \in Nat /\ DOMAIN table[f][c] = 1 .. n
    BY <2>2
  <2> HIDE DEF n, f, c
  <2>4. \A i \in 1 .. n : \A j \in 1 .. i - 1 : j \in 1 .. n
    BY <2>3
  <2> QED BY <2>3, <2>4
<1>5. ASSUME NEW packet \in Packets
      PROVE  LetsThrough(f, c, packet)' <=> LetsThrough(f, c, packet)
  <2>1. \A j \in DOMAIN table[f][c] :
          table[f][c][j].target \in Dirs =>
            (ChainAccepts(f, table[f][c][j].target, packet)'
               <=> ChainAccepts(f, table[f][c][j].target, packet))
    BY <1>2, <1>3
  <2> HIDE DEF f, c
  <2> QED BY <1>4, <2>1 DEF LetsThrough, f, c
<1> QED BY <1>5 DEF Accepted

(* A call changes the traffic of one path at most.                         *)
LEMMA OnePathChanges ==
  ASSUME TInv, Orderly, Execute
  PROVE  \/ Accepted' = Accepted
         \/ \E path \in Paths : Accepted' = [Accepted EXCEPT ![path] = Accepted'[path]]
<1>1. \A f \in Families, c \in Chain :
        table'[f][c] # table[f][c] => Head(plan).op # "enter" /\ Head(plan).family = f /\ Head(plan).chain = c
  BY CallEffect DEF Flushed, Extended, Flush, Put
<1>2. ASSUME NEW f \in Families, NEW c \in Chain,
             \A g \in Families, d \in Chain : table'[g][d] # table[g][d] => g = f /\ d = c
      PROVE  \E path \in Paths : \A other \in Paths \ {path} : Accepted'[other] = Accepted[other]
  <2>1. PICK path \in Paths : path[1] = f /\ c \in {path[2], BuiltInOf(path[2])}
    <3>1. CASE c \in Dirs
      <4>1. <<f, c>> \in Paths /\ <<f, c>>[1] = f /\ <<f, c>>[2] = c
        BY <3>1 DEF Paths
      <4> QED BY <4>1
    <3>2. CASE c \in BuiltIn
      <4>1. PICK dir \in Dirs \union {"forward"} : c = BuiltInOf(dir)
        BY <3>2 DEF BuiltIn, BuiltInOf, Dirs
      <4>2. <<f, dir>> \in Paths /\ <<f, dir>>[1] = f /\ <<f, dir>>[2] = dir
        BY DEF Paths
      <4> QED BY <4>1, <4>2
    <3> QED BY <3>1, <3>2 DEF Chain
  <2>2. ASSUME NEW other \in Paths, other # path
        PROVE  Accepted'[other] = Accepted[other]
    <3>1. ~(other[1] = f /\ c \in {other[2], BuiltInOf(other[2])})
      BY <2>1, <2>2 DEF Paths, Dirs, BuiltInOf
    <3>2. /\ other[1] \in Families /\ BuiltInOf(other[2]) \in Chain
          /\ other[2] \in Dirs => other[2] \in Chain
      BY PathTypes DEF Chain
    <3> QED BY <1>2, <3>1, <3>2, TwoChains
  <2> QED BY <2>2
<1>3. CASE \A f \in Families, c \in Chain : table'[f][c] = table[f][c]
  <2>1. ASSUME NEW path \in Paths PROVE Accepted'[path] = Accepted[path]
    <3>1. /\ path[1] \in Families /\ BuiltInOf(path[2]) \in Chain
          /\ path[2] \in Dirs => path[2] \in Chain
      BY PathTypes DEF Chain
    <3> QED BY <1>3, <3>1, TwoChains
  <2> QED BY <2>1 DEF Accepted
<1>4. CASE \E f \in Families, c \in Chain : table'[f][c] # table[f][c]
  <2>1. PICK path \in Paths : \A other \in Paths \ {path} : Accepted'[other] = Accepted[other]
    <3>1. PICK f \in Families, c \in Chain : table'[f][c] # table[f][c]
      BY <1>4
    <3>2. \A g \in Families, d \in Chain : table'[g][d] # table[g][d] => g = f /\ d = c
      BY <1>1, <3>1
    <3> QED BY <1>2, <3>2
  <2>2. Accepted' = [Accepted EXCEPT ![path] = Accepted'[path]]
    BY <2>1 DEF Accepted
  <2> QED BY <2>2
<1> QED BY <1>3, <1>4

(* The start of a provisioning is a Select.                                *)
LEMMA SelectStep ==
  ASSUME TInv, NEW rs \in RuleSets, Start(rs)
  PROVE  Traffic!Select
<1>1. White(rs) \in [Paths -> SUBSET Packets] /\ \A path \in Paths : Always[path] \subseteq White(rs)[path]
  BY WhiteTypes DEF White
<1>2. White(rules)' = White(rs)
  BY DEF Start, White
<1>3. Accepted' = Accepted
  BY DEF Start, Accepted, LetsThrough, ChainAccepts
<1>4. listed' = [path \in Paths |-> listed[path] \union White(rules)'[path]] /\ errors' = errors
  BY <1>2 DEF Start
<1> QED BY <1>1, <1>2, <1>3, <1>4 DEF Traffic!Select

(* A call that fails is a Break.                                           *)
LEMMA BreakStep ==
  ASSUME TInv, Fail
  PROVE  Traffic!Break
<1>1. errors' # 0
  BY BoundsAssumption DEF Fail, TInv, Typed
<1>2. Accepted' = Accepted
  BY DEF Fail, Accepted, LetsThrough, ChainAccepts
<1>3. White(rules)' = White(rules) /\ listed' = listed
  BY DEF Fail, White
<1> QED BY <1>1, <1>2, <1>3 DEF Traffic!Break

(* A call that does not fail closes a path, adjusts a path or does nothing *)
(* to packets.                                                             *)
LEMMA TrafficStep ==
  ASSUME TInv, IInv, TrafficFacts, TrafficFacts', Execute
  PROVE  [Traffic!Next]_(Traffic!vars)
<1>1. Orderly /\ White(rules)' = White(rules) /\ listed' = listed /\ errors' = errors
  BY DEF IInv, Execute, White
<1>2. CASE Accepted' = Accepted
  BY <1>1, <1>2 DEF Traffic!vars
<1>3. ASSUME NEW path \in Paths, Accepted' = [Accepted EXCEPT ![path] = Accepted'[path]],
             Accepted'[path] # Accepted[path]
      PROVE  Traffic!Close(path) \/ Traffic!Adjust(path)
  <2> DEFINE kept == Accepted'[path]
  <2>1. Shut(path)'
    <3>1. CASE ~Shut(path)'
      <4>1. kept = Packets /\ Accepted[path] # Packets
        BY <1>3, <3>1 DEF TrafficFacts, ShutIsClosed
      <4>2. Shut(path)
        BY <4>1 DEF TrafficFacts, ShutIsClosed
      <4>3. BuiltInOf(path[2]) \in Chain /\ BuiltInOf(path[2]) \in BuiltIn /\ path[1] \in Families
        BY PathTypes DEF Chain
      <4> QED BY <1>1, <3>1, <4>2, <4>3, StaysInChain DEF Shut
    <3> QED BY <3>1
  <2>2. kept \subseteq listed[path]
    <3>1. kept # Packets
      BY <2>1 DEF TrafficFacts, ShutIsClosed
    <3> QED BY <1>1, <3>1 DEF TrafficFacts, ClosedToUnlisted
  <2>3. CASE Shut(path)
    <3>1. Accepted[path] # Packets
      BY <2>3 DEF TrafficFacts, ShutIsClosed
    <3>2. errors = 0 => Always[path] \subseteq kept
      BY <1>1 DEF TrafficFacts
    <3> HIDE DEF kept
    <3>3. Accepted' = [Accepted EXCEPT ![path] = kept]
      BY <1>3 DEF kept
    <3> QED BY <1>1, <2>2, <3>1, <3>2, <3>3 DEF Traffic!Adjust
  <2>4. CASE ~Shut(path)
    <3>1. Accepted[path] = Packets
      BY <2>4 DEF TrafficFacts, ShutIsClosed
    <3>2. Head(plan) = Put(path[1], BuiltInOf(path[2]), Reject)
      BY <1>1, <2>1, <2>4, ShutByReject DEF Next
    <3>3. Settled(path)'
      <4>1. Stage(Head(plan)) = 3
        BY <3>2, PathTypes DEF Put, Reject, Stage, BuiltIn, Dirs
      <4>2. ASSUME NEW call, Stage(call) \in {1, 2} PROVE call \notin Left'
        BY <1>1, <4>1, <4>2, CallEffect DEF InTurn
      <4> QED BY <4>2, PathTypes, Turns DEF Settled
    <3>4. errors = 0 => kept = White(rules)[path]
      <4>1. outcome' # "none"
        BY DEF Execute, Advance, TInv, Typed
      <4> QED BY <1>1, <2>1, <3>3, <4>1 DEF TrafficFacts
    <3> HIDE DEF kept
    <3>5. Accepted' = [Accepted EXCEPT ![path] = kept]
      BY <1>3 DEF kept
    <3> QED BY <1>1, <2>2, <3>1, <3>4, <3>5 DEF Traffic!Close
  <2> QED BY <2>3, <2>4
<1>4. ASSUME NEW path \in Paths, Accepted' = [Accepted EXCEPT ![path] = Accepted'[path]],
             Accepted'[path] = Accepted[path]
      PROVE  Accepted' = Accepted
  BY <1>4, AcceptedFunction
<1> QED BY <1>1, <1>2, <1>3, <1>4, OnePathChanges DEF Traffic!Next

(* Call by call, with failures and restarts, the provisioner does to       *)
(* packets what module Isolation promises.                                 *)
THEOREM ProvisionerImplementsIsolation ==
  ASSUME KeepsChains, NEW stranger, IsStranger(stranger)
  PROVE  Spec => IsolationSpec
<1>1. Init => Traffic!Init
  <2> SUFFICES ASSUME Init PROVE Traffic!Init
    OBVIOUS
  <2>1. /\ White(rules) \in [Paths -> SUBSET Packets] /\ listed = White(rules) /\ errors = 0
        /\ \A path \in Paths : Always[path] \subseteq White(rules)[path]
    BY WhiteTypes DEF Init, White
  <2>2. \A path \in Paths : ~Shut(path)
    BY PathTypes DEF Init, Shut, Range, Chain
  <2>3. Accepted = [path \in Paths |-> Packets]
    BY <2>2, OpenPath, AcceptedFunction
  <2> QED BY <2>1, <2>3 DEF Traffic!Init
<1>2. TInv /\ IInv /\ TrafficFacts /\ TrafficFacts' /\ [Next]_vars => [Traffic!Next]_(Traffic!vars)
  <2> SUFFICES ASSUME TInv, IInv, TrafficFacts, TrafficFacts', [Next]_vars
               PROVE  [Traffic!Next]_(Traffic!vars)
    OBVIOUS
  <2>1. ASSUME NEW rs \in RuleSets, Start(rs) PROVE Traffic!Next
    BY <2>1, SelectStep DEF Traffic!Next
  <2>2. CASE Execute
    BY <2>2, TrafficStep
  <2>3. CASE Fail
    BY <2>3, BreakStep DEF Traffic!Next
  <2>4. CASE UNCHANGED vars
    BY <2>4 DEF vars, Traffic!vars, White, Accepted, LetsThrough, ChainAccepts
  <2> QED BY <2>1, <2>2, <2>3, <2>4 DEF Next
<1> QED BY <1>1, <1>2, TypeInvariance, ProgressInvariance, TrafficInvariance, PTL
        DEF Spec, IsolationSpec, Traffic!Spec
=============================================================================
