------------------------------ MODULE MCPolicy ------------------------------
(***************************************************************************)
(* Instances of PolicySession for TLC: every list of at most two rules     *)
(* over a few verdicts and risk ranges, small limits, every flag.          *)
(***************************************************************************)
EXTENDS PolicySession

CONSTANTS f, g, LimitMax     \* two operation names; the largest limit

SomeRules == [verdict : {"allow", "hold", "deny"}, selects : {{f}, Name},
              min_risk : {READ, DESTRUCTIVE}, max_risk : {WRITE, IRREVERSIBLE}]
RuleLists == {<<>>} \cup {<<r>> : r \in SomeRules} \cup {<<q, r>> : q \in SomeRules, r \in SomeRules}

Limits == {NoLimit} \cup 0 .. LimitMax

SomePolicies ==
    [rules : RuleLists, defaults : {DEFAULTS}, max_destructive : Limits,
     max_mutations : {NoLimit, LimitMax}, approve_irreversible_destructive : BOOLEAN,
     require_simulator : BOOLEAN, on_deviation : {"warn"}, log_reads : {TRUE}]
=============================================================================
