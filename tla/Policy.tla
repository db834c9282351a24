------------------------------- MODULE Policy -------------------------------
(***************************************************************************)
(* The policy engine of undolith/policy.py: a pure function from an action *)
(* and the counters of its session to a verdict.                           *)
(*                                                                         *)
(* A rule's globs, argument globs and predicate are abstracted to the set  *)
(* of operations they select; reasons and descriptions are left out.       *)
(***************************************************************************)
EXTENDS Naturals, Sequences, FiniteSetsExt

CONSTANT NoLimit   \* an optional limit that is not set (None in the code)

ASSUME NoLimitAssumption == NoLimit \notin Nat

(***************************************************************************)
(* Risk is an IntEnum, so the code compares its members as numbers.        *)
(***************************************************************************)
READ         == 0
WRITE        == 1
DESTRUCTIVE  == 2
IRREVERSIBLE == 3
Risk         == READ .. IRREVERSIBLE

Verdict == {"allow", "simulate", "approve", "hold", "deny"}

Rank == [v \in Verdict |-> CASE v = "allow"    -> 0
                             [] v = "simulate" -> 1
                             [] v = "approve"  -> 2
                             [] v = "hold"     -> 3
                             [] v = "deny"     -> 4]

DeviationResponse == {"warn", "halt", "rollback", "rollback_session"}

DEFAULTS == [r \in Risk |-> CASE r = READ         -> "allow"
                              [] r = WRITE        -> "simulate"
                              [] r = DESTRUCTIVE  -> "simulate"
                              [] r = IRREVERSIBLE -> "approve"]

(* Faulty variant: off by one. *)
ReachedLate(limit, n) == limit # NoLimit /\ n > limit

(* An optional limit on what has committed is reached. *)
Reached(limit, n) == limit # NoLimit /\ n >= limit

Rule(Name) == [verdict : Verdict, selects : SUBSET Name, min_risk : Risk, max_risk : Risk]

PolicyType(Name) ==
    [rules : Seq(Rule(Name)), defaults : [Risk -> Verdict],
     max_destructive : Nat \cup {NoLimit}, max_mutations : Nat \cup {NoLimit},
     approve_irreversible_destructive : BOOLEAN, require_simulator : BOOLEAN,
     on_deviation : DeviationResponse, log_reads : BOOLEAN]

Stats == [mutations : Nat, destructive : Nat]
NoStats == [mutations |-> 0, destructive |-> 0]

Matches(rule, name, risk) ==
    /\ name \in rule.selects
    /\ rule.min_risk <= risk
    /\ risk <= rule.max_risk

(* Faulty variant: a later rule overrides an earlier one. *)
LastMatchWins(policy, name, risk) ==
    LET hits == {i \in DOMAIN policy.rules : Matches(policy.rules[i], name, risk)}
    IN  IF hits = {} THEN policy.defaults[risk] ELSE policy.rules[Max(hits)].verdict

(* The first rule that matches, else the default of the risk. *)
BaseVerdict(policy, name, risk) ==
    LET hits == {i \in DOMAIN policy.rules : Matches(policy.rules[i], name, risk)}
    IN  IF hits = {} THEN policy.defaults[risk] ELSE policy.rules[Min(hits)].verdict

(* Faulty variant: the verdict is replaced, not raised. *)
EscalateAlways(v) == "approve"

(* escalate(APPROVE): a verdict is only ever made stricter. *)
Escalate(v) == IF Rank[v] < Rank["approve"] THEN "approve" ELSE v

(* Faulty variant: destructive work without an inverse is let through. *)
EscalateOnLimitsOnly(policy, op, stats, v) ==
    \/ v = "simulate" /\ ~op.simulate /\ policy.require_simulator
    \/ op.risk >= DESTRUCTIVE /\ Reached(policy.max_destructive, stats.destructive)
    \/ Reached(policy.max_mutations, stats.mutations)

(***************************************************************************)
(* Some reason of decide() asks for at least an approval.  An operation op *)
(* is a record with the fields name, risk, reversible and simulate (it has *)
(* a simulator).  The second reason reads the verdict the first may have   *)
(* raised; both raise to the same verdict, so the order does not matter.   *)
(***************************************************************************)
MustEscalate(policy, op, stats, v) ==
    \/ /\ op.risk >= DESTRUCTIVE
       /\ ~op.reversible
       /\ policy.approve_irreversible_destructive
    \/ v = "simulate" /\ ~op.simulate /\ policy.require_simulator
    \/ op.risk >= DESTRUCTIVE /\ Reached(policy.max_destructive, stats.destructive)
    \/ Reached(policy.max_mutations, stats.mutations)

Decide(policy, op, stats) ==
    LET v == BaseVerdict(policy, op.name, op.risk)
    IN  IF v = "deny" \/ op.risk = READ \/ ~MustEscalate(policy, op, stats, v)
        THEN v
        ELSE Escalate(v)
=============================================================================
