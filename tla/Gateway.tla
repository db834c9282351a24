------------------------------ MODULE Gateway -------------------------------
(***************************************************************************)
(* The pipeline of undolith/core.py: agents' calls, the outbox, undo,      *)
(* session rollback, batches and the kill switch, run by several processes *)
(* (agent threads, asyncio.to_thread workers, operators at a command line) *)
(* that share one ledger, one home directory and the guarded world.        *)
(*                                                                         *)
(* A process is a program counter with the local variables of the method   *)
(* it runs.  One action of the model is the code between two accesses to   *)
(* shared state: a ledger append, a ledger read, a look at the KILL file,  *)
(* a hook of the operation that reads or changes the world.  Nothing else  *)
(* orders the processes: the gateway takes no lock around a pipeline.      *)
(*                                                                         *)
(* The ledger is the store's append-only sequence; its append is atomic    *)
(* (SQLiteStore: BEGIN IMMEDIATE).  Blobs, hashes, signatures, redaction,  *)
(* reasons and timestamps are left out.                                    *)
(***************************************************************************)
EXTENDS Policy, Lifecycle, Integers, FiniteSets

CONSTANTS
    Proc,       \* processes and threads that use the gateway
    Session,    \* session ids
    Action,     \* action ids; each is given to at most one call
    Resource,   \* what tools act on: a file, a table, a record
    Value,      \* observable states of a resource
    None,       \* Python's None
    ObsError,   \* {"$error": ...}: what _observe returns when the hook raises
    Op,         \* the operation, arguments and session each action is called with
    policy,     \* the Policy in force
    approver,   \* is an approver configured
    Initial,    \* the world at the start
    Ambient,    \* what the world may hold without the gateway: Initial, outsiders' writes
    Budget,     \* how many commands, faults and crashes of each kind may occur
    May         \* the commands each process may issue

(* Commands; and what Budget bounds: commands ("force" is an undo or a     *)
(* rollback with force, "kill_rollback" a kill that rolls back) and the    *)
(* events of the environment: a "fault" is a hook that raises an Exception, *)
(* an "interrupt" an exception that the step it comes in does not catch.   *)
Command == {"call", "release", "discard", "undo", "force", "rollback", "kill",
            "resume", "batch"}
Event   == Command \cup {"kill_rollback", "external", "fault", "interrupt", "crash"}

(***************************************************************************)
(* What the model needs to know of an operation applied to its arguments:  *)
(* which hooks it has, the state a successful run leaves (any of effects), *)
(* the state its simulator predicts (None: it predicts nothing) and the    *)
(* state its inverse leaves when there is no snapshot to restore.          *)
(***************************************************************************)
OpType == [name : STRING, ses : Session, res : Resource, risk : Risk,
           reversible : BOOLEAN, simulate : BOOLEAN, snapshot : BOOLEAN,
           observe : BOOLEAN, effects : SUBSET Value,
           predicts : Value \cup {None}, inverse : Value]

ASSUME GatewayAssumption ==
    /\ Op \in [Action -> OpType]
    /\ policy \in PolicyType(STRING)
    /\ approver \in BOOLEAN
    /\ Initial \in [Resource -> Value]
    /\ Ambient \subseteq Value
    /\ \A r \in Resource : Initial[r] \in Ambient
    /\ Budget \in [Event -> Nat]
    /\ May \in [Proc -> SUBSET Command]
    /\ None \notin Value \cup {ObsError} \cup Action \cup Session
    /\ ObsError \notin Value

(* A host runs finitely many threads and processes. *)
ASSUME ProcAssumption == IsFiniteSet(Proc)

VARIABLES
    ledger,     \* the store's entries in seq order
    killFile,   \* does <home>/KILL exist
    world,      \* the state of each resource
    stats,      \* Session.stats of the live Session object of each session
    used,       \* action ids handed out
    frame,      \* the method each process is in, with its local variables
    budget      \* what is left of Budget

vars == <<ledger, killFile, world, stats, used, frame, budget>>

-----------------------------------------------------------------------------
(* Entries, and appending one. *)

Report == [undone : SUBSET Action, skipped : SUBSET Action, failed : SUBSET Action]
EmptyReport == [undone |-> {}, skipped |-> {}, failed |-> {}]

EntryKind == StatusKind \cup {"simulated", "escalated", "approved", "deviation",
                              "undo_failed", "rollback", "halted", "resumed"}
EntryType == [kind : EntryKind, act : Action \cup {None}, ses : Session \cup {None},
              val : Verdict \cup Value \cup {None, ObsError}]

(* An entry about an action, and one about a session (None: every session). *)
Entry(kind, a, val) == [kind |-> kind, act |-> a, ses |-> Op[a].ses, val |-> val]
Mark(kind, s) == [kind |-> kind, act |-> None, ses |-> s, val |-> None]

Log(e) == ledger' = Append(ledger, e)

-----------------------------------------------------------------------------
(***************************************************************************)
(* A frame.  pc names the next step; job is the command being served; act  *)
(* the action in hand; verdict and predicted the decision and the preview; *)
(* reg the value a hook last returned; seen the number of entries that     *)
(* undo() has read, force its argument; ses, to, todo, report the loop of  *)
(* rollback(); batch, cp the session and checkpoint of the batch() around. *)
(***************************************************************************)
Label == {"idle", "gate", "ensure", "decide", "read", "propose", "deny", "simulate",
          "escalate", "authorize", "release", "snapshot", "prepare", "run", "fail",
          "observe", "commit", "account", "deviate", "halt", "discard",
          "undo", "check", "inverse", "undone", "undo_failed", "collect", "next",
          "log_halt", "unlink", "log_resume"}
Job == Command \cup {"none"}

FrameType == [pc : Label, job : Job, act : Action \cup {None}, verdict : Verdict,
              predicted : Value \cup {None}, reg : Value \cup {None, ObsError},
              seen : Nat, force : BOOLEAN, ses : Session \cup {None}, to : Nat,
              todo : SUBSET Action, report : Report,
              batch : Session \cup {None}, cp : Nat]

IdleFrame(s, n) ==
    [pc |-> "idle", job |-> "none", act |-> None, verdict |-> "allow",
     predicted |-> None, reg |-> None, seen |-> 0, force |-> FALSE, ses |-> None, to |-> 0,
     todo |-> {}, report |-> EmptyReport, batch |-> s, cp |-> n]

At(p, label) == frame[p].pc = label
Become(p, f) == frame' = [frame EXCEPT ![p] = f]
Goto(p, label) == Become(p, [frame[p] EXCEPT !.pc = label])

(* Start serving a command in an idle process that may issue it. *)
Idle(p, c) == At(p, "idle") /\ c \in May[p]
Spend(e) == budget[e] > 0 /\ budget' = [budget EXCEPT ![e] = @ - 1]

(* The method returns to its caller, normally or by raising.  An exception *)
(* leaves the block of an enclosing batch(), which then rolls the session  *)
(* back to its checkpoint before it re-raises.                             *)
Return(p) == Become(p, IdleFrame(frame[p].batch, frame[p].cp))
RollbackTo(f, s, n) == [f EXCEPT !.pc = "collect", !.ses = s, !.to = n]
Raise(p) ==
    Become(p, IF frame[p].batch = None
              THEN IdleFrame(None, 0)
              ELSE [RollbackTo(IdleFrame(None, 0), frame[p].batch, frame[p].cp)
                      EXCEPT !.job = "batch"])

(* A hook that raises, once per unit of the budget. *)
Fault == Spend("fault")
NoFault == UNCHANGED budget

(* is_halted(session): the KILL file, else the session's last mark. *)
MarkedHalted(s) ==
    LET M == {i \in DOMAIN ledger : /\ ledger[i].ses = s
                                    /\ ledger[i].kind \in {"halted", "resumed"}}
    IN  M # {} /\ ledger[Max(M)].kind = "halted"
(* Faulty variant: only the global switch is looked at. *)
IsHaltedGlobally(s) == killFile

IsHalted(s) == killFile \/ MarkedHalted(s)

StateOf(a) == world[Op[a].res]
SetState(a, v) == world' = [world EXCEPT ![Op[a].res] = v]

Init ==
    /\ ledger = <<>>
    /\ killFile = FALSE
    /\ world = Initial
    /\ stats = [s \in Session |-> NoStats]
    /\ used = {}
    /\ frame = [p \in Proc |-> IdleFrame(None, 0)]
    /\ budget = Budget

-----------------------------------------------------------------------------
(* Session.call / _execute *)

(* A new action id; _ensure_running looks at the KILL file first. *)
Call(p, a) ==
    /\ Idle(p, "call")
    /\ a \notin used
    /\ used' = used \cup {a}
    /\ IF killFile
       THEN Raise(p)
       ELSE Become(p, [frame[p] EXCEPT !.pc = "ensure", !.job = "call", !.act = a])
    /\ UNCHANGED <<ledger, killFile, world, stats, budget>>

(* The rest of _ensure_running: is_halted looks at the file and the marks. *)
EnsureRunning(p) ==
    /\ At(p, "ensure")
    /\ IF IsHalted(Op[frame[p].act].ses)
       THEN Raise(p)
       ELSE Goto(p, IF frame[p].job = "call" THEN "decide" ELSE "release")
    /\ UNCHANGED <<ledger, killFile, world, stats, used, budget>>

(* policy.decide reads the counters of the session. *)
DecideVerdict(p) ==
    /\ At(p, "decide")
    /\ LET op == Op[frame[p].act]
           v  == Decide(policy, op, stats[op.ses])
       IN  Become(p, [frame[p] EXCEPT
                !.verdict = v,
                !.pc = IF op.risk = READ /\ v = "allow" THEN "read" ELSE "propose"])
    /\ UNCHANGED <<ledger, killFile, world, stats, used, budget>>

(* An allowed read runs at once; it leaves an entry only if reads are logged. *)
Read(p) ==
    /\ At(p, "read")
    /\ \/ /\ IF policy.log_reads THEN Log(Entry("read", frame[p].act, None)) ELSE UNCHANGED ledger
          /\ Return(p)
          /\ NoFault
       \/ Raise(p) /\ Fault /\ UNCHANGED ledger
    /\ UNCHANGED <<killFile, world, stats, used>>

Propose(p) ==
    /\ At(p, "propose")
    /\ Log(Entry("proposed", frame[p].act, frame[p].verdict))
    /\ Goto(p, CASE frame[p].verdict = "deny"  -> "deny"
                 [] frame[p].verdict = "allow" -> "snapshot"
                 [] OTHER                      -> "simulate")
    /\ UNCHANGED <<killFile, world, stats, used, budget>>

DenyByPolicy(p) ==
    /\ At(p, "deny")
    /\ Log(Entry("denied", frame[p].act, None))
    /\ Raise(p)
    /\ UNCHANGED <<killFile, world, stats, used, budget>>

(* What follows the "simulated" entry when the preview came back with this flag. *)
AfterSimulation(verdict, simulated) ==
    IF verdict # "simulate" THEN "authorize"
    ELSE IF ~simulated /\ policy.require_simulator THEN "escalate" ELSE "snapshot"

(* _simulate: a missing or a failing simulator gives an empty preview. *)
Simulate(p) ==
    /\ At(p, "simulate")
    /\ LET a == frame[p].act IN
       \E simulated \in BOOLEAN :
          LET predicted == IF simulated THEN Op[a].predicts ELSE None
          IN  /\ simulated => Op[a].simulate
              /\ IF Op[a].simulate /\ ~simulated THEN Fault ELSE NoFault
              /\ Log(Entry("simulated", a, predicted))
              /\ Become(p, [frame[p] EXCEPT
                    !.predicted = predicted,
                    !.pc = AfterSimulation(frame[p].verdict, simulated)])
    /\ UNCHANGED <<killFile, world, stats, used>>

EscalateToApproval(p) ==
    /\ At(p, "escalate")
    /\ Log(Entry("escalated", frame[p].act, "approve"))
    /\ Become(p, [frame[p] EXCEPT !.verdict = "approve", !.pc = "authorize"])
    /\ UNCHANGED <<killFile, world, stats, used, budget>>

(* The approver is asked, for as long as it takes, when the verdict is     *)
(* "approve": it approves, rejects, raises or answers None (see Hold).     *)
Asked(p) == At(p, "authorize") /\ frame[p].verdict = "approve" /\ approver

Approve(p) ==
    /\ Asked(p)
    /\ Log(Entry("approved", frame[p].act, None))
    /\ Goto(p, "snapshot")
    /\ UNCHANGED <<killFile, world, stats, used, budget>>

(* Faulty variant: the rejection is recorded and the call goes on. *)
RejectAndRun(p) ==
    /\ Asked(p)
    /\ Log(Entry("rejected", frame[p].act, None))
    /\ Goto(p, "snapshot")
    /\ UNCHANGED <<killFile, world, stats, used, budget>>

Reject(p) ==
    /\ Asked(p)
    /\ Log(Entry("rejected", frame[p].act, None))
    /\ Raise(p)
    /\ UNCHANGED <<killFile, world, stats, used, budget>>

ApproverRaises(p) ==
    /\ Asked(p)
    /\ Raise(p)
    /\ Fault
    /\ UNCHANGED <<ledger, killFile, world, stats, used>>

(* Faulty variant: the parked action runs all the same. *)
HoldAndRun(p) ==
    /\ At(p, "authorize")
    /\ Log(Entry("held", frame[p].act, None))
    /\ Goto(p, "snapshot")
    /\ UNCHANGED <<killFile, world, stats, used, budget>>

(* No approver, an approver that defers, or the verdict "hold". *)
Hold(p) ==
    /\ At(p, "authorize")
    /\ Log(Entry("held", frame[p].act, None))
    /\ Return(p)
    /\ UNCHANGED <<killFile, world, stats, used, budget>>

-----------------------------------------------------------------------------
(* _commit: the part a call and a release share. *)

(* The pre-state an undo would restore; without it the operation is not run. *)
TakeSnapshot(p) ==
    /\ At(p, "snapshot")
    /\ LET a == frame[p].act IN
       \/ /\ Become(p, [frame[p] EXCEPT !.pc = "prepare",
                                        !.reg = IF Op[a].snapshot THEN StateOf(a) ELSE None])
          /\ NoFault
          /\ UNCHANGED ledger
       \/ /\ Op[a].snapshot /\ Fault
          /\ Log(Entry("failed", a, None))
          /\ Raise(p)
    /\ UNCHANGED <<killFile, world, stats, used>>

(* Faulty variant: no write-ahead entry. *)
PrepareUnlogged(p) ==
    /\ At(p, "prepare")
    /\ Goto(p, "run")
    /\ UNCHANGED <<ledger, killFile, world, stats, used, budget>>

Prepare(p) ==
    /\ At(p, "prepare")
    /\ Log(Entry("prepared", frame[p].act, frame[p].reg))
    /\ Goto(p, "run")
    /\ UNCHANGED <<killFile, world, stats, used, budget>>

(* What a run may leave; a read leaves its resource as it is. *)
Outcomes(a) == IF Op[a].risk = READ THEN {StateOf(a)} ELSE Op[a].effects

(* op.run: it takes effect, or it raises with or without having had one.   *)
(* What is no Exception, a KeyboardInterrupt or the cancellation of a task, *)
(* leaves no entry: see Interrupted.                                       *)
Run(p) ==
    /\ At(p, "run")
    /\ LET a == frame[p].act IN
       \/ /\ \E v \in Outcomes(a) : SetState(a, v)
          /\ Goto(p, "observe")
          /\ NoFault
       \/ /\ \E v \in Outcomes(a) \cup {StateOf(a)} : SetState(a, v)
          /\ Goto(p, "fail")
          /\ Fault
    /\ UNCHANGED <<ledger, killFile, stats, used>>

(* Faulty variant: the exception passes without an entry. *)
RaiseUnlogged(p) ==
    /\ At(p, "fail")
    /\ Raise(p)
    /\ UNCHANGED <<ledger, killFile, world, stats, used, budget>>

LogFailed(p) ==
    /\ At(p, "fail")
    /\ Log(Entry("failed", frame[p].act, None))
    /\ Raise(p)
    /\ UNCHANGED <<killFile, world, stats, used, budget>>

(* _observe: nothing without the hook, an error value when it raises. *)
Observe(p) ==
    /\ At(p, "observe")
    /\ LET a == frame[p].act IN
       \/ /\ Become(p, [frame[p] EXCEPT !.pc = "commit",
                                        !.reg = IF Op[a].observe THEN StateOf(a) ELSE None])
          /\ NoFault
       \/ /\ Op[a].observe /\ Fault
          /\ Become(p, [frame[p] EXCEPT !.pc = "commit", !.reg = ObsError])
    /\ UNCHANGED <<ledger, killFile, world, stats, used>>

(* The result is stored, hashed and logged; this may raise, outside any    *)
(* try, although the operation has taken effect: see Interrupted.          *)
Commit(p) ==
    /\ At(p, "commit")
    /\ Log(Entry("committed", frame[p].act, frame[p].reg))
    /\ Goto(p, "account")
    /\ UNCHANGED <<killFile, world, stats, used, budget>>

(* The counters of the Session object.  A release made an object of its    *)
(* own, which nobody reads again.                                          *)
Counted(st, risk) ==
    [mutations   |-> st.mutations   + (IF risk >= WRITE       THEN 1 ELSE 0),
     destructive |-> st.destructive + (IF risk >= DESTRUCTIVE THEN 1 ELSE 0)]

(* Predicted and observed states are compared only when both exist and     *)
(* share their key; the error value shares none.  The model has one key    *)
(* per resource and a threshold below 1, so one mismatch is a deviation.   *)
Deviates(f) == f.predicted # None /\ f.reg \notin {None, ObsError} /\ f.predicted # f.reg

Account(p) ==
    /\ At(p, "account")
    /\ LET op == Op[frame[p].act] IN
       stats' = IF frame[p].job = "call"
                THEN [stats EXCEPT ![op.ses] = Counted(@, op.risk)]
                ELSE stats
    /\ IF Deviates(frame[p]) THEN Goto(p, "deviate") ELSE Return(p)
    /\ UNCHANGED <<ledger, killFile, world, used, budget>>

(* Faulty variant: every response but "warn" undoes the one action. *)
DeviateAndUndo(p) ==
    /\ At(p, "deviate")
    /\ Log(Entry("deviation", frame[p].act, None))
    /\ IF policy.on_deviation = "warn" THEN Return(p) ELSE Goto(p, "undo")
    /\ UNCHANGED <<killFile, world, stats, used, budget>>

Deviate(p) ==
    /\ At(p, "deviate")
    /\ Log(Entry("deviation", frame[p].act, None))
    /\ CASE policy.on_deviation = "warn"     -> Return(p)
         [] policy.on_deviation = "rollback" -> Goto(p, "undo")
         [] OTHER                            -> Goto(p, "halt")
    /\ UNCHANGED <<killFile, world, stats, used, budget>>

(* kill(session) of a deviation: halt, then perhaps roll the session back. *)
HaltOnDeviation(p) ==
    /\ At(p, "halt")
    /\ LET s == Op[frame[p].act].ses IN
       /\ Log(Mark("halted", s))
       /\ IF policy.on_deviation = "rollback_session"
          THEN Become(p, RollbackTo(frame[p], s, 0))
          ELSE Raise(p)
    /\ UNCHANGED <<killFile, world, stats, used, budget>>

-----------------------------------------------------------------------------
(* The outbox *)

(* Faulty variant: the stored preview is not carried over. *)
ReleaseUnpreviewed(p, a) ==
    /\ Idle(p, "release")
    /\ StatusOf(ledger, a) = "held"
    /\ Spend("release")
    /\ Become(p, [frame[p] EXCEPT !.pc = "gate", !.job = "release", !.act = a])
    /\ UNCHANGED <<ledger, killFile, world, stats, used>>

(* The status is read first, then the kill switch, then the entry is made. *)
Release(p, a) ==
    /\ Idle(p, "release")
    /\ StatusOf(ledger, a) = "held"
    /\ Spend("release")
    /\ Become(p, [frame[p] EXCEPT
            !.pc = "gate", !.job = "release", !.act = a,
            !.predicted = LET i == FirstPos(ledger, a, "simulated")
                          IN  IF i = 0 THEN None ELSE ledger[i].val])
    /\ UNCHANGED <<ledger, killFile, world, stats, used>>

CheckKillFile(p) ==
    /\ At(p, "gate")
    /\ IF killFile THEN Raise(p) ELSE Goto(p, "ensure")
    /\ UNCHANGED <<ledger, killFile, world, stats, used, budget>>

LogReleased(p) ==
    /\ At(p, "release")
    /\ Log(Entry("released", frame[p].act, None))
    /\ Goto(p, "snapshot")
    /\ UNCHANGED <<killFile, world, stats, used, budget>>

Discard(p, a) ==
    /\ Idle(p, "discard")
    /\ StatusOf(ledger, a) = "held"
    /\ Spend("discard")
    /\ Become(p, [frame[p] EXCEPT !.pc = "discard", !.job = "discard", !.act = a])
    /\ UNCHANGED <<ledger, killFile, world, stats, used>>

LogDiscarded(p) ==
    /\ At(p, "discard")
    /\ Log(Entry("discarded", frame[p].act, None))
    /\ Return(p)
    /\ UNCHANGED <<killFile, world, stats, used, budget>>

-----------------------------------------------------------------------------
(* undo *)

(* The end of undo(): the loop of rollback() sorts it into its report,     *)
(* an operator gets True, False or the exception, and a deviating call     *)
(* raises in any case.                                                     *)
UndoEnds(p, outcome) ==
    LET f == frame[p]
        Filed(field) == IF outcome = field THEN f.report[field] \cup {f.act}
                                           ELSE f.report[field]
    IN  IF f.ses # None
        THEN Become(p, [f EXCEPT !.pc = "next", !.act = None, !.reg = None, !.seen = 0,
                !.report = [undone  |-> Filed("undone"), skipped |-> Filed("skipped"),
                            failed  |-> Filed("failed")]])
        ELSE IF f.job = "undo" /\ outcome \in {"undone", "nothing"}
             THEN Return(p)
             ELSE Raise(p)

Undo(p, a, force) ==
    /\ Idle(p, "undo")
    /\ StatusOf(ledger, a) # "unknown"
    /\ Spend(IF force THEN "force" ELSE "undo")
    /\ Become(p, [frame[p] EXCEPT !.pc = "undo", !.job = "undo", !.act = a, !.force = force])
    /\ UNCHANGED <<ledger, killFile, world, stats, used>>

(* What undo() has loaded: the entries up to frame[p].seen. *)
Seen(p) == SubSeq(ledger, 1, frame[p].seen)
EntryValue(log, a, kind) == LET i == LastPos(log, a, kind) IN IF i = 0 THEN None ELSE log[i].val

(* Nothing to restore: no inverse, or no commit and no snapshot either. *)
NotReversible(log, a) ==
    \/ ~Op[a].reversible
    \/ ~Has(log, a, "committed") /\ EntryValue(log, a, "prepared") = None

(* Faulty variant: the check is made for what was not observed. *)
NeedsCheckUnobserved(log, a) == Op[a].observe /\ EntryValue(log, a, "committed") = None

(* Only a committed, observed state can be compared with the present one. *)
NeedsCheck(log, a) == Op[a].observe /\ EntryValue(log, a, "committed") # None

(* Faulty variant: an undone action is undone again. *)
UndoAnswerAgain(log, a) ==
    IF StatusOf(log, a) \notin UNDOABLE \cup {"undone"} THEN "failed"
    ELSE IF NotReversible(log, a) THEN "skipped" ELSE "go"

(* What undo() makes of the entries: False, an UndolithError,              *)
(* NotReversible, or to go on.                                             *)
UndoAnswer(log, a) ==
    IF StatusOf(log, a) = "undone" THEN "nothing"
    ELSE IF StatusOf(log, a) \notin UNDOABLE THEN "failed"
    ELSE IF NotReversible(log, a) THEN "skipped" ELSE "go"

(* undo() reads the action's entries once and decides from them. *)
LoadForUndo(p) ==
    /\ At(p, "undo")
    /\ LET a == frame[p].act
           answer == UndoAnswer(ledger, a)
       IN  IF answer # "go"
           THEN UndoEnds(p, answer)
           ELSE Become(p, [frame[p] EXCEPT
                    !.seen = Len(ledger),
                    !.pc = IF NeedsCheck(ledger, a) /\ ~frame[p].force
                           THEN "check" ELSE "inverse"])
    /\ UNCHANGED <<ledger, killFile, world, stats, used, budget>>

(* Refuse when the state is not the one observed at commit (UndoConflict). *)
CheckConflict(p) ==
    /\ At(p, "check")
    /\ LET a == frame[p].act
           expected == EntryValue(Seen(p), a, "committed")
       IN \E current \in {StateOf(a), ObsError} :
             /\ IF current = ObsError THEN Fault ELSE NoFault
             /\ IF current = expected THEN Goto(p, "inverse") ELSE UndoEnds(p, "failed")
    /\ UNCHANGED <<ledger, killFile, world, stats, used>>

(* The state op.undo restores. *)
Restored(p) ==
    LET a == frame[p].act
        snapshot == EntryValue(Seen(p), a, "prepared")
    IN  IF snapshot # None THEN snapshot ELSE Op[a].inverse

(* op.undo: it restores, or it raises having restored or not. *)
ApplyInverse(p) ==
    /\ At(p, "inverse")
    /\ LET a == frame[p].act IN
       \/ SetState(a, Restored(p)) /\ Goto(p, "undone") /\ NoFault
       \/ /\ \E v \in {Restored(p), StateOf(a)} : SetState(a, v)
          /\ Goto(p, "undo_failed")
          /\ Fault
    /\ UNCHANGED <<ledger, killFile, stats, used>>

LogUndone(p) ==
    /\ At(p, "undone")
    /\ Log(Entry("undone", frame[p].act, None))
    /\ UndoEnds(p, "undone")
    /\ UNCHANGED <<killFile, world, stats, used, budget>>

(* Faulty variant: the failure does not reach the report. *)
LogUndoFailedUnreported(p) ==
    /\ At(p, "undo_failed")
    /\ Log(Entry("undo_failed", frame[p].act, None))
    /\ UndoEnds(p, "nothing")
    /\ UNCHANGED <<killFile, world, stats, used, budget>>

LogUndoFailed(p) ==
    /\ At(p, "undo_failed")
    /\ Log(Entry("undo_failed", frame[p].act, None))
    /\ UndoEnds(p, "failed")
    /\ UNCHANGED <<killFile, world, stats, used, budget>>

-----------------------------------------------------------------------------
(* Session rollback, batches and the kill switch *)

(* The checkpoints worth telling apart: any other selects the actions that *)
(* the last "prepared" entry before it selects, or 0.                      *)
Checkpoints == {0} \cup {i \in DOMAIN ledger : ledger[i].kind = "prepared"}

Rollback(p, s, to, force) ==
    /\ Idle(p, "rollback")
    /\ Spend(IF force THEN "force" ELSE "rollback")
    /\ Become(p, [RollbackTo(frame[p], s, to) EXCEPT !.job = "rollback", !.force = force])
    /\ UNCHANGED <<ledger, killFile, world, stats, used>>

(* Faulty variant: entries without an action are not left out. *)
ToUndoAnyEntry(s, to) ==
    {ledger[i].act : i \in {j \in DOMAIN ledger : j > to /\ ledger[j].ses = s}}

(* The actions to undo, from one read of the session's entries. *)
ToUndo(s, to) ==
    {a \in Action : /\ Op[a].ses = s
                    /\ FirstPos(ledger, a, "prepared") > to
                    /\ StatusOf(ledger, a) \in UNDOABLE}

CollectActions(p) ==
    /\ At(p, "collect")
    /\ Become(p, [frame[p] EXCEPT !.pc = "next", !.act = None, !.reg = None,
                                  !.todo = ToUndo(frame[p].ses, frame[p].to)])
    /\ UNCHANGED <<ledger, killFile, world, stats, used, budget>>

(* Faulty variant: oldest first. *)
Oldest(S) == {a \in S : \A b \in S : FirstPos(ledger, a, "prepared") <= FirstPos(ledger, b, "prepared")}

(* Newest first, by the position of the "prepared" entry. *)
Newest(S) == {a \in S : \A b \in S : FirstPos(ledger, a, "prepared") >= FirstPos(ledger, b, "prepared")}

(* Faulty variant: the work list does not shrink. *)
UndoNextForever(p) ==
    /\ At(p, "next")
    /\ \E a \in Newest(frame[p].todo) : Become(p, [frame[p] EXCEPT !.pc = "undo", !.act = a])
    /\ UNCHANGED <<ledger, killFile, world, stats, used, budget>>

UndoNext(p) ==
    /\ At(p, "next")
    /\ \E a \in Newest(frame[p].todo) :
          Become(p, [frame[p] EXCEPT !.pc = "undo", !.act = a, !.todo = @ \ {a}])
    /\ UNCHANGED <<ledger, killFile, world, stats, used, budget>>

LogRollback(p) ==
    /\ At(p, "next")
    /\ frame[p].todo = {}
    /\ Log(Mark("rollback", frame[p].ses))
    /\ IF frame[p].job \in {"call", "release"} THEN Raise(p) ELSE Return(p)
    /\ UNCHANGED <<killFile, world, stats, used, budget>>

BeginBatch(p, s) ==
    /\ Idle(p, "batch")
    /\ frame[p].batch = None
    /\ Spend("batch")
    /\ Become(p, IdleFrame(s, Len(ledger)))
    /\ UNCHANGED <<ledger, killFile, world, stats, used>>

(* The block ends, or raises of its own accord. *)
EndBatch(p) ==
    /\ At(p, "idle") /\ frame[p].batch # None
    /\ Become(p, IdleFrame(None, 0)) \/ Raise(p)
    /\ UNCHANGED <<ledger, killFile, world, stats, used, budget>>

KillSession(p, s, rollback) ==
    /\ Idle(p, "kill")
    /\ Spend(IF rollback THEN "kill_rollback" ELSE "kill")
    /\ Log(Mark("halted", s))
    /\ IF rollback
       THEN Become(p, [RollbackTo(frame[p], s, 0) EXCEPT !.job = "kill"])
       ELSE Return(p)
    /\ UNCHANGED <<killFile, world, stats, used>>

(* kill(): the file first, then the entry. *)
KillAll(p) ==
    /\ Idle(p, "kill")
    /\ Spend("kill")
    /\ killFile' = TRUE
    /\ Become(p, [frame[p] EXCEPT !.pc = "log_halt", !.job = "kill"])
    /\ UNCHANGED <<ledger, world, stats, used>>

LogGlobalHalt(p) ==
    /\ At(p, "log_halt")
    /\ Log(Mark("halted", None))
    /\ Return(p)
    /\ UNCHANGED <<killFile, world, stats, used, budget>>

ResumeSession(p, s) ==
    /\ Idle(p, "resume")
    /\ Spend("resume")
    /\ Log(Mark("resumed", s))
    /\ UNCHANGED <<killFile, world, stats, used, frame>>

(* resume(): if the file is there it is unlinked, and gone by then it raises. *)
ResumeAll(p) ==
    /\ Idle(p, "resume")
    /\ Spend("resume")
    /\ Become(p, [frame[p] EXCEPT !.pc = IF killFile THEN "unlink" ELSE "log_resume",
                                  !.job = "resume"])
    /\ UNCHANGED <<ledger, killFile, world, stats, used>>

UnlinkKillFile(p) ==
    /\ At(p, "unlink")
    /\ IF killFile THEN Goto(p, "log_resume") ELSE Raise(p)
    /\ killFile' = FALSE
    /\ UNCHANGED <<ledger, world, stats, used, budget>>

LogGlobalResume(p) ==
    /\ At(p, "log_resume")
    /\ Log(Mark("resumed", None))
    /\ Return(p)
    /\ UNCHANGED <<killFile, world, stats, used, budget>>

-----------------------------------------------------------------------------
(***************************************************************************)
(* An exception the step does not catch ends the method where it stands,   *)
(* after an effect and before its entry as anywhere else: one that is no   *)
(* Exception (a KeyboardInterrupt, a CancelledError), in a hook or between *)
(* two lines; a result that cannot be stored or hashed; a ledger that      *)
(* cannot be read or written.  The rollback() around an undo() catches it  *)
(* if it is an Exception and files the action under failed; one from a     *)
(* hook of undo() is the Fault of CheckConflict and ApplyInverse.          *)
(***************************************************************************)
Interrupted(p) ==
    /\ ~At(p, "idle")
    /\ Spend("interrupt")
    /\ \/ Raise(p)
       \/ frame[p].pc \in {"undo", "undone", "undo_failed"} /\ UndoEnds(p, "failed")
    /\ UNCHANGED <<ledger, killFile, world, stats, used>>

-----------------------------------------------------------------------------
(* The environment *)

(* Somebody changes a resource without going through the gateway. *)
OutsideWrite(r, v) ==
    /\ Spend("external")
    /\ world' = [world EXCEPT ![r] = v]
    /\ UNCHANGED <<ledger, killFile, stats, used, frame>>

(* The host stops and is started again: memory is gone, the home directory *)
(* and the world are not.                                                  *)
Crash ==
    /\ Spend("crash")
    /\ frame' = [p \in Proc |-> IdleFrame(None, 0)]
    /\ stats' = [s \in Session |-> NoStats]
    /\ UNCHANGED <<ledger, killFile, world, used>>

-----------------------------------------------------------------------------
(* A process begins a command, or goes on with the one it serves. *)

Begin(p) ==
    \/ \E a \in Action : \/ Call(p, a)
                         \/ Release(p, a)
                         \/ Discard(p, a)
                         \/ \E force \in BOOLEAN : Undo(p, a, force)
    \/ \E s \in Session : \/ \E to \in Checkpoints, force \in BOOLEAN : Rollback(p, s, to, force)
                          \/ BeginBatch(p, s)
                          \/ \E rollback \in BOOLEAN : KillSession(p, s, rollback)
                          \/ ResumeSession(p, s)
    \/ EndBatch(p)
    \/ KillAll(p)
    \/ ResumeAll(p)

Continue(p) ==
    \/ EnsureRunning(p) \/ DecideVerdict(p) \/ Read(p) \/ Propose(p) \/ DenyByPolicy(p)
    \/ Simulate(p) \/ EscalateToApproval(p) \/ Approve(p) \/ Reject(p) \/ ApproverRaises(p)
    \/ Hold(p) \/ TakeSnapshot(p) \/ Prepare(p) \/ Run(p) \/ LogFailed(p) \/ Observe(p)
    \/ Commit(p) \/ Account(p) \/ Deviate(p) \/ HaltOnDeviation(p)
    \/ CheckKillFile(p) \/ LogReleased(p) \/ LogDiscarded(p)
    \/ LoadForUndo(p) \/ CheckConflict(p) \/ ApplyInverse(p) \/ LogUndone(p) \/ LogUndoFailed(p)
    \/ CollectActions(p) \/ UndoNext(p) \/ LogRollback(p)
    \/ LogGlobalHalt(p) \/ UnlinkKillFile(p) \/ LogGlobalResume(p)
    \/ Interrupted(p)

Environment == (\E r \in Resource, v \in Ambient : OutsideWrite(r, v)) \/ Crash

Next == (\E p \in Proc : Begin(p) \/ Continue(p)) \/ Environment

Spec == Init /\ [][Next]_vars

(* Threads and processes run: a command that was begun goes on. *)
FairSpec == Spec /\ \A p \in Proc : WF_vars(Continue(p))
=============================================================================
