----------------------------- MODULE TestCases ------------------------------
(***************************************************************************)
(* Test cases made from judged traces (testgen/generate.py), their         *)
(* matchers (suite.py), and the verdict on a run of an agent against one   *)
(* (runner.py, run_test).                                                  *)
(*                                                                         *)
(* A call has an operation, an identifying path of a directory and a file, *)
(* and further arguments (data).  dir = NoDir stands for an argument       *)
(* without a slash, which is never generalised.                            *)
(***************************************************************************)
EXTENDS Traces

CONSTANTS
    Call,       \* records with the fields op, dir, file, data and read
    NoDir,
    GlobOf,     \* directory |-> the directories whose files the glob "dir/*" matches
    Slack       \* calls a run may make beyond those of a short trace

ASSUME SlackAssumption == Slack \in Nat

-----------------------------------------------------------------------------
(* Faulty variant: what was rolled back is not served.                     *)
cassette_of_kept(t) == Restrict(t.steps, {i \in DOMAIN t.steps : t.steps[i].status \in {"ok", "error"}})

(* generate.py.  What the agent is served; blocked and undone calls are    *)
(* left out.  Steps that are selected keep their places in the trace, so   *)
(* that a selection is a sequence with gaps.                               *)
cassette_for(t) == Restrict(t.steps, {i \in DOMAIN t.steps : t.steps[i].status \in REPLAYABLE})

CallsOf(steps) == [i \in DOMAIN steps |-> steps[i].call]

MaxCalls(t) == Max({2 * Len(t.steps), Len(t.steps) + Slack})

Test(t, kind, rule) ==
    [kind |-> kind, rule |-> rule, cassette |-> cassette_for(t), expect |-> <<>>, forbid |-> {},
     max_calls |-> MaxCalls(t), max_repeats |-> None, final |-> None, must_pass_judge |-> FALSE]

(* The mutating calls in order and the final answer; no test without any.  *)
golden_test(t) ==
    LET expected == Restrict(t.steps, {i \in DOMAIN t.steps : t.steps[i].status = "ok" /\ ~t.steps[i].call.read})
    IN  IF DOMAIN expected = {} /\ t.final = None THEN {}
        ELSE {[Test(t, "golden", None) EXCEPT !.expect = CallsOf(expected), !.final = t.final]}

(* Faulty variant: one repetition too many is let pass. *)
regression_test_at_threshold(t, f) ==
    LET test == Test(t, "regression", f.rule)
    IN  IF f.step = 0 THEN [test EXCEPT !.must_pass_judge = TRUE]
        ELSE IF f.rule = "loop" THEN [test EXCEPT !.max_repeats = LoopThreshold]
        ELSE [test EXCEPT !.forbid = {t.steps[f.step].call}]

regression_test(t, f) ==
    LET test == Test(t, "regression", f.rule)
    IN  IF f.step = 0 THEN [test EXCEPT !.must_pass_judge = TRUE]
        ELSE IF f.rule = "loop" THEN [test EXCEPT !.max_repeats = 2]
        ELSE [test EXCEPT !.forbid = {t.steps[f.step].call}]

generate(t, found) ==
    {regression_test(t, f) : f \in found}
       \cup IF found = {} /\ t.outcome # "failure" THEN golden_test(t) ELSE {}

-----------------------------------------------------------------------------
(* suite.py, match_call with a generalised specification: the operation    *)
(* and the path only, and of the path only the directory.                  *)
Forbids(spec, c) ==
    /\ spec.op = c.op
    /\ IF spec.dir = NoDir THEN c.dir = NoDir /\ c.file = spec.file ELSE c.dir \in GlobOf[spec.dir]

(* runner.py.  A run is the calls made, each with what it was served, the  *)
(* final answer, and whether the agent raised.                             *)

(* Where the expected call at j is found behind pos; nothing is expected   *)
(* in a gap.                                                               *)
Hits(expect, calls, j, pos) == {i \in pos + 1 .. Len(calls) : j \in DOMAIN expect /\ calls[i].call = expect[j]}

(* Expected calls are looked for one after the other, each behind the last *)
(* that was found: how far the search has got with those up to j.          *)
Searched(expect, calls) ==
    LET pos[j \in 0 .. Max(DOMAIN expect \cup {0})] ==
          IF j = 0 THEN 0
          ELSE LET hits == Hits(expect, calls, j, pos[j - 1]) IN IF hits = {} THEN pos[j - 1] ELSE Min(hits)
    IN  pos

(* Faulty variant: each from the beginning. *)
MissingAnywhere(expect, calls) == \E j \in DOMAIN expect : Hits(expect, calls, j, 0) = {}

Missing(expect, calls) ==
    \E j \in DOMAIN expect : Hits(expect, calls, j, Searched(expect, calls)[j - 1]) = {}

(* The trace run_test makes of the run for must_pass_judge: no outcome.    *)
NewTrace(run) ==
    [steps |-> [i \in DOMAIN run.calls |->
                   [call |-> run.calls[i].call, result |-> run.calls[i].result, error |-> run.calls[i].error,
                    status |-> IF run.calls[i].error THEN "error" ELSE "ok"]],
     final |-> run.final, outcome |-> None]

TooMany(test, calls) == Len(calls) > test.max_calls

TooOften(test, calls) ==
    /\ test.max_repeats # None
    /\ \E i \in DOMAIN calls : Repeats(calls, i) > test.max_repeats

(* The kinds of failures of a run (minimize.py, failure_signature); the    *)
(* test passes when there is none.                                         *)
Failures(test, run) ==
    {k \in {"crash", "expected", "forbidden", "max_calls", "repeats", "final", "judge"} :
        \/ k = "crash"     /\ run.raised
        \/ k = "expected"  /\ Missing(test.expect, run.calls)
        \/ k = "forbidden" /\ \E spec \in test.forbid, i \in DOMAIN run.calls : Forbids(spec, run.calls[i].call)
        \/ k = "max_calls" /\ TooMany(test, run.calls)
        \/ k = "repeats"   /\ TooOften(test, run.calls)
        \/ k = "final"     /\ test.final # None /\ run.final # test.final
        \/ k = "judge"     /\ test.must_pass_judge /\ Heuristic(NewTrace(run)) # {}}
=============================================================================
