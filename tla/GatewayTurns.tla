---------------------------- MODULE GatewayTurns ----------------------------
(***************************************************************************)
(* The gateway with a memory, for the promises about undo that hold as     *)
(* long as nobody comes between: what the runs of an action left, whose    *)
(* work somebody came between, and on what two processes worked at once.   *)
(* The three variables only watch: no action of Gateway reads them.        *)
(***************************************************************************)
EXTENDS GatewayProperties

VARIABLES
    left,       \* the states that the runs of each action have left
    disturbed,  \* actions whose resource somebody else changed while it mattered
    overlapped  \* resources on which two processes have been at work at once

turns == <<left, disturbed, overlapped>>

(* What a successful run leaves. *)
Ran(p) == At(p, "run") /\ frame'[p].pc = "observe"
Leaves(a) == {world'[Op[a].res] : p \in {q \in Proc : Ran(q) /\ frame[q].act = a}}

(* Between a run and its observation, and between the check of an undo and *)
(* the inverse, a process takes its resource to be as it was.              *)
Relies(p) == frame[p].pc \in {"observe", "inverse"}
ComesBetween(p) ==
    LET r == Op[frame[p].act].res
    IN  frame'[p] = frame[p] /\ world'[r] # world[r]

(* The resources p works on: of the action it runs or undoes, and of those *)
(* a rollback has on its list.                                             *)
Working == {"snapshot", "prepare", "run", "fail", "observe", "commit",
            "undo", "check", "inverse", "undone", "undo_failed"}
WorksOn(p) ==
    {Op[a].res : a \in frame[p].todo
                       \cup (IF frame[p].pc \in Working THEN {frame[p].act} ELSE {})}

Watch ==
    /\ left' = [a \in Action |-> left[a] \cup Leaves(a)]
    /\ disturbed' = disturbed
          \cup {frame[p].act : p \in {q \in Proc : Relies(q) /\ ComesBetween(q)}}
    /\ overlapped' = overlapped
          \cup {r \in Resource : \E p, q \in Proc : p # q /\ r \in WorksOn(p)' \cap WorksOn(q)'}

TurnsInit ==
    /\ Init
    /\ left = [a \in Action |-> {}]
    /\ disturbed = {}
    /\ overlapped = {}

TurnsSpec == TurnsInit /\ [][Next /\ Watch]_<<vars, turns>>

-----------------------------------------------------------------------------
(* p runs an inverse in this step. *)
InverseStep(p) == At(p, "inverse") /\ frame'[p].pc \in {"undone", "undo_failed"}

(* "An undo never silently overwrites newer changes" (README.md:229,       *)
(* SPEC.md 8.2), as far as the code keeps it: where a committed action has *)
(* an observed state and the undo is not forced, the inverse replaces what *)
(* a run of that action left, and nothing newer, unless somebody changed   *)
(* the resource in one of two windows: between op.run and op.observe, so   *)
(* that the state on record is not the action's own, or between the check  *)
(* and op.undo (core.py:438-444).  The undo of a failed or an in-flight    *)
(* action makes no check (core.py:437) and is outside the promise.         *)
NoSilentOverwrite ==
    [][\A p \in Proc :
          LET a == frame[p].act IN
          /\ InverseStep(p) /\ ~frame[p].force
          /\ EntryValue(Seen(p), a, "committed") \in Value
          /\ a \notin disturbed
          => StateOf(a) \in left[a]]_<<vars, turns>>

(* "Reverse order is what keeps the precondition check satisfied for       *)
(* repeated edits to the same resource" (SPEC.md 8.3): while no hook has   *)
(* failed, nothing was cut short or forced, and no outsider or other       *)
(* session has touched its resources, the rollback of a session fails for  *)
(* no action, except on a resource on which two processes worked at once.  *)
(* There the order of the prepared entries, by which core.py:466 sorts,    *)
(* may not be the order of the commits, nor a snapshot what the action     *)
(* before it left.                                                         *)
Private(s) ==
    \A a, b \in used : Op[a].res = Op[b].res => (Op[a].ses = s <=> Op[b].ses = s)
OrderKeepsPrecondition ==
    [][\A p \in Proc :
          /\ RollbackEnds(p)
          /\ Private(frame[p].ses)
          /\ Untouched({"fault", "interrupt", "crash", "external", "force"})
          => \A a \in frame[p].report.failed : Op[a].res \in overlapped]_<<vars, turns>>
=============================================================================
