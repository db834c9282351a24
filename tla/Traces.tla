------------------------------- MODULE Traces -------------------------------
(***************************************************************************)
(* Sessions of the ledger as traces (testgen/importers.py, trace.py) and   *)
(* what a judge finds wrong with a trace (testgen/judge.py).               *)
(*                                                                         *)
(* A session is the entries of its actions, the call of each action, and   *)
(* how it ended; a trace is a sequence of steps with the final answer.     *)
(***************************************************************************)
EXTENDS Lifecycle, SequencesExt

CONSTANTS
    None,
    LoopThreshold   \* identical calls that make a loop

ASSUME NoneAssumption == None \notin Nat

(* Three unless it is configured (judge.py). *)
ASSUME LoopAssumption == LoopThreshold \in Nat /\ LoopThreshold >= 3

BLOCKED    == {"denied", "rejected", "discarded"}
REVERSED   == {"undone", "deviation"}
BAD        == BLOCKED \cup REVERSED \cup {"failed"}
REPLAYABLE == {"ok", "error", "rolled_back"}

-----------------------------------------------------------------------------
(* Faulty variant: a rolled-back deviation counts as collateral.           *)
StepStatusOfState(log, a) ==
    LET state == StatusOf(log, a)
    IN  IF state = "undone" /\ log[LastPos(log, a, "undone")].val = "session rollback" THEN "rolled_back"
        ELSE IF Has(log, a, "deviation") /\ state \in {"committed", "undone"} THEN "deviation"
        ELSE IF state = "committed" THEN "ok" ELSE state

(* from_ledger: what the entries of action a in log make of its step.      *)
StepStatus(log, a) ==
    LET state == StatusOf(log, a)
        why   == log[LastPos(log, a, "undone")].val
    IN  IF Has(log, a, "deviation") /\ state \in {"committed", "undone"} THEN "deviation"
        ELSE IF state = "undone" /\ why = "session rollback" THEN "rolled_back"
        ELSE IF state = "committed" THEN "ok"
        ELSE state

(* The n-th action's result is told apart from the others' by its number.  *)
StepOf(log, call, a) ==
    [call   |-> call,
     status |-> StepStatus(log, a),
     result |-> IF Happened(log, a) THEN a ELSE None,
     error  |-> \E k \in {"failed", "denied", "rejected", "deviation"} : Has(log, a, k)]

Outcome(s, steps) ==
    IF s.outcome # None THEN s.outcome
    ELSE IF s.halted \/ \E i \in DOMAIN steps : steps[i].status \notin {"ok", "held", "rolled_back"}
    THEN "failure"
    ELSE IF s.finished THEN "success" ELSE None

TraceOf(s) ==
    LET steps == [a \in DOMAIN s.calls |-> StepOf(s.log, s.calls[a], a)]
    IN  [steps |-> steps, final |-> s.answer, outcome |-> Outcome(s, steps)]

-----------------------------------------------------------------------------
(* The failing findings of HeuristicJudge.  A finding names its rule and   *)
(* the step it blames, 0 for none.  Warnings and passes are left out:      *)
(* nothing is generated from them.                                         *)
Finding(rule, i) == [rule |-> rule, step |-> i]

Repeats(steps, i) == Cardinality({j \in 1 .. i : steps[j].call = steps[i].call})

Blamed(t) == {Finding("ledger", i) : i \in {i \in DOMAIN t.steps : t.steps[i].status \in BAD}}

Loops(t) == {Finding("loop", i) : i \in {i \in DOMAIN t.steps : Repeats(t.steps, i) = LoopThreshold}}

EndedOnError(t) ==
    {Finding("ended-on-error", i) :
        i \in {i \in DOMAIN t.steps : i = Len(t.steps) /\ t.steps[i].status = "error" /\ t.final = None}}

GaveUp(t) == IF t.final = "sorry" THEN {Finding("gave-up", 0)} ELSE {}

Heuristic(t) ==
    LET found == Blamed(t) \cup Loops(t) \cup EndedOnError(t) \cup GaveUp(t)
    IN  IF found = {} /\ t.outcome = "failure" THEN {Finding("labelled-failure", 0)} ELSE found

(* OllamaJudge: silent, or one failure the model has confirmed, which may  *)
(* name a step.  An unreachable model, an answer that cannot be parsed and *)
(* a failure it takes back are no failing findings.                        *)
Model(t) == {{}} \cup {{Finding("llm", i)} : i \in 0 .. Len(t.steps)}

(* make_judge: the heuristics alone, or CompositeJudge, which asks the     *)
(* model only about traces the heuristics find nothing wrong with.         *)
Judgements(kind, t) ==
    IF kind = "both" /\ Heuristic(t) = {} THEN Model(t) ELSE {Heuristic(t)}
=============================================================================
