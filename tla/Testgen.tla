------------------------------ MODULE Testgen -------------------------------
(***************************************************************************)
(* From a recorded session to the verdict on an agent: a suite is          *)
(* generated from the session's trace, and an agent that may do anything   *)
(* runs against one of its tests, served by ReplayTools.                   *)
(***************************************************************************)
EXTENDS TestCases

CONSTANTS
    Sessions,   \* the recorded sessions considered
    Judges,     \* the judges considered: "heuristic", "both"
    CallMax     \* bound: calls an agent makes in one run

(* What a gateway records: the actions are numbered, and each goes through *)
(* the diagram of lifecycle.py.                                            *)
ASSUME SessionsAssumption ==
    \A s \in Sessions :
       /\ s.calls \in Seq(Call)
       /\ Len(s.log) \in Nat /\ DOMAIN s.log = 1 .. Len(s.log)
       /\ \A a \in DOMAIN s.calls : KeepsDiagram(s.log, a)

VARIABLES
    session,    \* what was recorded
    phase,      \* "recorded", "generated", "running", "done"
    suite,      \* the generated tests
    test,       \* the one being run
    tools,      \* ReplayTools: call |-> the places of the responses still to be served
    run         \* the calls so far, the final answer, whether the agent raised

vars == <<session, phase, suite, test, tools, run>>

trace == TraceOf(session)

Answer == {None, "done", "sorry"}
NoRun  == [calls |-> <<>>, final |-> None, raised |-> FALSE]

Init == /\ session \in Sessions
        /\ phase = "recorded"
        /\ suite = {} /\ test = None /\ tools = <<>> /\ run = NoRun

(* testgen from-ledger: import, judge, generate.                           *)
Generate ==
    /\ phase = "recorded"
    /\ \E kind \in Judges : \E found \in Judgements(kind, trace) : suite' = generate(trace, found)
    /\ phase' = "generated"
    /\ UNCHANGED <<session, test, tools, run>>

(* testgen run: a test with its own ReplayTools.                           *)
StartTest ==
    /\ phase = "generated"
    /\ \E t \in suite :
         /\ test' = t
         /\ tools' = [c \in Call |-> {i \in DOMAIN t.cassette : t.cassette[i].call = c}]
    /\ phase' = "running"
    /\ UNCHANGED <<session, suite, run>>

(* ReplayTools.call: responses recorded for this very call in order, the   *)
(* last one again and again; without any, an error.                        *)
AgentCalls(c) ==
    LET queue == tools[c]
    IN  /\ phase = "running" /\ Len(run.calls) < CallMax
        /\ IF queue = {}
           THEN /\ run' = [run EXCEPT !.calls = Append(@, [call |-> c, result |-> None, error |-> TRUE])]
                /\ UNCHANGED tools
           ELSE LET rec == test.cassette[Min(queue)]
                IN  /\ run' = [run EXCEPT !.calls = Append(@, [call |-> c, result |-> rec.result, error |-> rec.error])]
                    /\ tools' = IF Cardinality(queue) > 1 THEN [tools EXCEPT ![c] = @ \ {Min(queue)}] ELSE tools
        /\ UNCHANGED <<session, phase, suite, test>>

AgentAnswers(final) ==
    /\ phase = "running"
    /\ run' = [run EXCEPT !.final = final]
    /\ phase' = "done"
    /\ UNCHANGED <<session, suite, test, tools>>

AgentRaises ==
    /\ phase = "running"
    /\ run' = [run EXCEPT !.raised = TRUE]
    /\ phase' = "done"
    /\ UNCHANGED <<session, suite, test, tools>>

Next == \/ Generate
        \/ StartTest
        \/ \E c \in Call : AgentCalls(c)
        \/ \E final \in Answer : AgentAnswers(final)
        \/ AgentRaises

Spec == Init /\ [][Next]_vars

-----------------------------------------------------------------------------
Verdict == Failures(test, run)

Embeds(expect, calls) ==
    \E at \in [DOMAIN expect -> DOMAIN calls] :
        /\ \A i \in DOMAIN expect : calls[at[i]].call = expect[i]
        /\ \A i, j \in DOMAIN expect : i < j => at[i] < at[j]

(* The agent makes the recorded calls, so far, and in the end gives the    *)
(* recorded answer.                                                        *)
Follows  == \A i \in DOMAIN run.calls : i <= Len(trace.steps) /\ run.calls[i].call = trace.steps[i].call
Repeated == /\ Follows /\ Len(run.calls) = Len(trace.steps)
            /\ run.final = trace.final /\ ~run.raised

(* run_test's one pass over the calls finds the expected calls in order    *)
(* exactly if they are there in order, and a limit of repeats is exceeded  *)
(* exactly if some call was made more often.                               *)
ExpectedIffEmbedded ==
    phase = "done" => (("expected" \in Verdict) <=> ~Embeds(test.expect, run.calls))

(* "From a clean trace: the agent should make the same mutating calls and  *)
(* reach the same final answer" (generate.py:3): the agent that does what  *)
(* was recorded passes.                                                    *)
GoldenAccepts ==
    phase = "done" /\ test.kind = "golden" /\ Repeated => Verdict = {}

(* "From each failure: assert it does not repeat the failing call, loop,   *)
(* or give up" (generate.py:6): the agent that does what was recorded      *)
(* fails.  Three kinds of test cannot keep this: a failure that is only a  *)
(* label, one the model does not place, and a directory that is not        *)
(* matched by the glob made of its own name.                               *)
Toothless == \/ test.rule = "labelled-failure"
             \/ test.rule = "llm" /\ test.must_pass_judge
             \/ \E spec \in test.forbid : ~Forbids(spec, spec)
RegressionRejects ==
    phase = "done" /\ test.kind = "regression" /\ Repeated /\ ~Toothless => Verdict # {}

(* A test accepts or rejects, as its kind says, the run it was made from.  *)
DecidesItsRecording == GoldenAccepts /\ RegressionRejects

(* While it does what was recorded, the agent is served what was recorded, *)
(* in the recorded order, if every step was one that can be served.        *)
ServedAsRecorded ==
    Follows /\ (\A i \in DOMAIN trace.steps : trace.steps[i].status \in REPLAYABLE)
       => \A i \in DOMAIN run.calls : run.calls[i].result = trace.steps[i].result

(* "Blocked, undone and deviating calls from an Undolith ledger are        *)
(* failures" (generate.py:10), and so are failed ones (SPEC.md 12.1): the  *)
(* suite of the session forbids each of them.  Not one whose failure was   *)
(* rolled back with its session, which the import takes for collateral.    *)
Trouble(a) ==
    LET log == session.log
    IN  \/ \E k \in {"denied", "rejected", "discarded", "deviation"} : Has(log, a, k)
        \/ Has(log, a, "failed") /\ ~Has(log, a, "undone")
        \/ Has(log, a, "undone") /\ log[LastPos(log, a, "undone")].val # "session rollback"
TroubleIsTested ==
    phase = "generated" =>
       \A a \in DOMAIN session.calls : Trouble(a) => \E t \in suite : session.calls[a] \in t.forbid
=============================================================================
