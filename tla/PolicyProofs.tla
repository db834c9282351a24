---------------------------- MODULE PolicyProofs ----------------------------
(***************************************************************************)
(* Theorems about the policy engine, for every policy and every session.   *)
(***************************************************************************)
EXTENDS PolicySession, Lemmas

-----------------------------------------------------------------------------
(* A session starts well typed. *)
LEMMA TypeInit == Init => TypeOK
BY PolicySessionAssumption DEF Init, TypeOK, Stats, NoStats

(* What a step does to the variables. *)
LEMMA CountersGrow ==
    ASSUME TypeOK, [Next]_vars
    PROVE  /\ pol' = pol /\ op' = op
           /\ stats \in Stats /\ stats' \in Stats
           /\ stats'.mutations >= stats.mutations
           /\ stats'.destructive >= stats.destructive
<1>1. stats = [mutations |-> stats.mutations, destructive |-> stats.destructive]
      /\ stats.mutations \in Nat /\ stats.destructive \in Nat
  BY DEF TypeOK, Stats
<1>2. CASE CommitWrite /\ UNCHANGED <<pol, op>>
  BY <1>1, <1>2 DEF CommitWrite, Stats
<1>3. CASE CommitDestructive /\ UNCHANGED <<pol, op>>
  <2>1. stats' = [mutations |-> stats.mutations + 1, destructive |-> stats.destructive + 1]
    BY <1>1, <1>3 DEF CommitDestructive
  <2>. QED
    BY <1>1, <1>3, <2>1 DEF Stats
<1>4. CASE UNCHANGED vars
  BY <1>1, <1>4 DEF vars, Stats
<1>. QED
  BY <1>2, <1>3, <1>4 DEF Next

(* A commit leaves the counters natural numbers. *)
LEMMA TypeNext == TypeOK /\ [Next]_vars => TypeOK'
BY CountersGrow DEF TypeOK

(* The parameters keep their types and the counters count. *)
THEOREM TypeCorrect == Spec => []TypeOK
BY TypeInit, TypeNext, PTL DEF Spec

(* A session's limit on destructive actions holds for every policy: when   *)
(* it is reached, whatever the rules say, no destructive call is allowed   *)
(* or merely simulated (policy.py decide).                                 *)
LEMMA LimitFromType == TypeOK => LimitIsEnforced
<1>. SUFFICES ASSUME TypeOK, op.risk >= DESTRUCTIVE, pol.max_destructive # NoLimit,
                     stats.destructive >= pol.max_destructive
              PROVE  Decision \in {"approve", "hold", "deny"}
  BY DEF LimitIsEnforced
<1>. DEFINE v == BaseVerdict(pol, op.name, op.risk)
<1>1. v \in Verdict
  BY BaseVerdictType DEF TypeOK, Operations
<1>2. MustEscalate(pol, op, stats, v) /\ op.risk # READ
  BY DEF MustEscalate, Reached, TypeOK, Operations, Risk, READ, DESTRUCTIVE, IRREVERSIBLE
<1>3. Escalate(v) \in {"approve", "hold", "deny"}
  BY <1>1, EscalateIsStricter
<1>. QED
  BY <1>2, <1>3 DEF Decision, Decide

(* Once the limit of destructive actions is reached, decide() gives no     *)
(* destructive call a verdict that runs it without consent.                *)
THEOREM LimitHolds == Spec => []LimitIsEnforced
BY TypeCorrect, LimitFromType, PTL

(* What asked for an approval keeps asking for it as the counters grow. *)
LEMMA MustEscalateGrows ==
    ASSUME TypeOK, [Next]_vars,
           NEW v, MustEscalate(pol, op, stats, v)
    PROVE  MustEscalate(pol', op', stats', v)
<1>1. pol' = pol /\ op' = op
  BY CountersGrow
<1>2. /\ stats'.mutations >= stats.mutations /\ stats'.destructive >= stats.destructive
      /\ stats.mutations \in Nat /\ stats.destructive \in Nat
      /\ stats'.mutations \in Nat /\ stats'.destructive \in Nat
  BY CountersGrow DEF Stats
<1>3. /\ pol.max_destructive \in Nat \cup {NoLimit}
      /\ pol.max_mutations \in Nat \cup {NoLimit}
  BY DEF TypeOK, PolicyType
<1>4. /\ Reached(pol.max_destructive, stats.destructive) => Reached(pol.max_destructive, stats'.destructive)
      /\ Reached(pol.max_mutations, stats.mutations) => Reached(pol.max_mutations, stats'.mutations)
  BY <1>2, <1>3 DEF Reached
<1>. QED
  BY <1>1, <1>4 DEF MustEscalate

(* decide() never answers with less than the rules do, and along a session *)
(* the answer to the same call never gets laxer.                           *)
THEOREM DecisionsNeverLaxer == Spec => NeverLaxer
<1>1. TypeOK /\ [Next]_vars =>
         /\ Rank[Decision] >= Rank[BaseVerdict(pol, op.name, op.risk)]
         /\ Rank[Decision'] >= Rank[Decision]
  <2>. SUFFICES ASSUME TypeOK, [Next]_vars
                PROVE  /\ Rank[Decision] >= Rank[BaseVerdict(pol, op.name, op.risk)]
                       /\ Rank[Decision'] >= Rank[Decision]
    OBVIOUS
  <2>. DEFINE v == BaseVerdict(pol, op.name, op.risk)
  <2>1. /\ pol \in PolicyType(Name) /\ op.name \in Name /\ op.risk \in Risk
        /\ pol' = pol /\ op' = op
    BY DEF TypeOK, Operations, Next, vars
  <2>2. v \in Verdict /\ Decision \in Verdict /\ Rank[Decision] >= Rank[v]
    BY <2>1, BaseVerdictType, DecideType DEF Decision
  <2>3. Decision' = Decide(pol, op, stats')
    BY <2>1 DEF Decision
  <2>4. CASE Decision = v
    BY <2>1, <2>2, <2>3, <2>4, DecideType
  <2>5. CASE Decision # v
    <3>1. v # "deny" /\ op.risk # READ /\ MustEscalate(pol, op, stats, v) /\ Decision = Escalate(v)
      BY <2>5 DEF Decision, Decide
    <3>2. MustEscalate(pol, op, stats', v)
      BY <3>1, <2>1, MustEscalateGrows
    <3>3. Decision' = Decision
      BY <2>3, <3>1, <3>2 DEF Decide
    <3>. QED
      BY <2>2, <3>3, RankValues DEF Verdict
  <2>. QED
    BY <2>2, <2>4, <2>5
<1>. QED
  BY <1>1, TypeCorrect, PTL DEF Spec, NeverLaxer

-----------------------------------------------------------------------------

(* First match wins, for every list of rules (policy.py decide). *)
THEOREM RulesInOrder == Spec => []FirstMatchWins
<1>1. TypeOK => FirstMatchWins
  BY FirstMatch DEF TypeOK, Operations, FirstMatchWins
<1>. QED
  BY <1>1, TypeCorrect, PTL
=============================================================================
