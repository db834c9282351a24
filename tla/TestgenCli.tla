----------------------------- MODULE TestgenCli -----------------------------
(***************************************************************************)
(* "undolith testgen" (testgen/cli.py): one invocation either generates a  *)
(* suite and runs it, or minimises a test.  The parts share no state; the  *)
(* command decides which one moves.                                        *)
(***************************************************************************)
EXTENDS Testgen, Minimize

VARIABLE cmd

allvars == <<cmd, vars, shrinking>>

NoSession == [calls |-> <<>>, log |-> <<>>, finished |-> FALSE, answer |-> None, outcome |-> None, halted |-> FALSE]

(* Of the command that is not given, there is nothing to do. *)
CliInit ==
    \/ /\ cmd = "run" /\ Init
       /\ task = "none" /\ fails = {} /\ pc = "passes" /\ items = {} /\ n = 2 /\ chunk = 1 /\ lo = 0 /\ hi = 0
    \/ /\ cmd = "minimize" /\ ShrinkInit
       /\ session = NoSession /\ phase = "none" /\ suite = {} /\ test = None /\ tools = <<>> /\ run = NoRun

CliNext == \/ cmd = "run"      /\ Next       /\ UNCHANGED <<cmd, shrinking>>
           \/ cmd = "minimize" /\ ShrinkNext /\ UNCHANGED <<cmd, vars>>

CliSpec == CliInit /\ [][CliNext]_allvars /\ WF_allvars(cmd = "minimize" /\ CliNext)
=============================================================================
