--------------------------- MODULE GatewayProofs ----------------------------
(***************************************************************************)
(* Three theorems of Gateway, and the table of its steps that the theorems *)
(* of GatewaySafety also rest on.                                          *)
(*                                                                         *)
(* Type correctness is not inductive: what undo puts back is read from a   *)
(* "prepared" entry, and a release reads its preview from a "simulated"    *)
(* one, so TypeInv also says what those entries hold, which frames have an *)
(* action in hand, and that undo has read no more of the ledger than there *)
(* is.                                                                     *)
(*                                                                         *)
(* Write-ahead (EffectsAreLogged) is not inductive by itself.  An inverse  *)
(* puts back what a "prepared" entry holds, and that value was read from   *)
(* the world before; and what an action may run or undo it owes to its     *)
(* "prepared" entry.  LoggedInv follows the value and the entry through    *)
(* the frames.  The kill switch (HaltBoundsLeak) needs to know who has     *)
(* passed it: HaltInv counts them together with what they have begun.      *)
(***************************************************************************)
EXTENDS GatewayProperties, Lemmas, FiniteSetTheorems

(***************************************************************************)
(* Type correctness.                                                       *)
(***************************************************************************)

(* Entries whose value is read back into a frame or into the world. *)
EntryOK(e) == e.kind \in {"simulated", "prepared"} => e.val \in Value \cup {None}

NoAction == {"idle", "collect", "next", "log_halt", "unlink", "log_resume"}

FrameOK(f, n) ==
    /\ f.pc \notin NoAction => f.act \in Action
    /\ f.pc = "prepare" => f.reg \in Value \cup {None}
    /\ f.pc \in {"check", "inverse"} => f.seen <= n

TypeInv ==
    /\ TypeOK
    /\ \A i \in DOMAIN ledger : EntryOK(ledger[i])
    /\ \A p \in Proc : FrameOK(frame[p], Len(ledger))

-----------------------------------------------------------------------------
(* Frames *)

(* An idle process has a frame. *)
LEMMA IdleFrameType ==
    ASSUME NEW s \in Session \cup {None}, NEW n \in Nat
    PROVE  IdleFrame(s, n) \in FrameType /\ IdleFrame(s, n).pc = "idle"
BY DEF IdleFrame, FrameType, Label, Job, Verdict, Report, EmptyReport

(* A jump keeps a frame a frame. *)
LEMMA GotoType ==
    ASSUME NEW f \in FrameType, NEW l \in Label
    PROVE  [f EXCEPT !.pc = l] \in FrameType
BY DEF FrameType

(* A frame turned to a rollback is a frame. *)
LEMMA CollectType ==
    ASSUME NEW f \in FrameType, NEW s \in Session \cup {None}, NEW n \in Nat
    PROVE  RollbackTo(f, s, n) \in FrameType /\ RollbackTo(f, s, n).pc = "collect"
BY DEF RollbackTo, FrameType, Label

(* Where a method ends, its caller's frame has no action in hand. *)
LEMMA ReturnType ==
    ASSUME TypeOK, NEW p \in Proc, Return(p) \/ Raise(p)
    PROVE  \E f \in FrameType : f.pc \in {"idle", "collect"} /\ Become(p, f)
<1>1. frame[p].batch \in Session \cup {None} /\ frame[p].cp \in Nat
  BY DEF TypeOK, FrameType
<1>2. CASE Return(p)
  BY <1>1, <1>2, IdleFrameType DEF Return
<1>3. CASE Raise(p) /\ frame[p].batch = None
  BY <1>3, IdleFrameType DEF Raise
<1>4. CASE Raise(p) /\ frame[p].batch # None
  <2>. DEFINE g == RollbackTo(IdleFrame(None, 0), frame[p].batch, frame[p].cp)
  <2>1. g \in FrameType /\ g.pc = "collect"
    BY <1>1, IdleFrameType, CollectType
  <2>2. [g EXCEPT !.job = "batch"] \in FrameType /\ [g EXCEPT !.job = "batch"].pc = "collect"
    <3>. HIDE DEF g
    <3>. QED
      BY <2>1 DEF FrameType, Job, Command
  <2>. QED
    BY <1>4, <2>2 DEF Raise
<1>. QED
  BY <1>2, <1>3, <1>4

(* undo() ends in a frame without an action in hand. *)
LEMMA UndoEndsType ==
    ASSUME TypeOK, NEW p \in Proc, frame[p].act \in Action, NEW outcome, UndoEnds(p, outcome)
    PROVE  \E f \in FrameType : f.pc \in {"idle", "collect", "next"} /\ Become(p, f)
<1>. DEFINE f == frame[p]
<1>1. f \in FrameType /\ f.report \in Report
  BY DEF TypeOK, FrameType
<1>2. CASE f.ses = None
  BY <1>2, ReturnType DEF UndoEnds
<1>3. CASE f.ses # None
  <2>. DEFINE Filed(field) == IF outcome = field THEN f.report[field] \cup {f.act}
                                                 ELSE f.report[field]
              rep == [undone |-> Filed("undone"), skipped |-> Filed("skipped"),
                      failed |-> Filed("failed")]
              g == [f EXCEPT !.pc = "next", !.act = None, !.reg = None, !.seen = 0, !.report = rep]
  <2>1. rep \in Report
    BY <1>1 DEF Report
  <2>2. g \in FrameType /\ g.pc = "next"
    <3>. HIDE DEF rep, f
    <3>. QED
      BY <1>1, <2>1 DEF FrameType, Label
  <2>3. Become(p, g)
    BY <1>3 DEF UndoEnds
  <2>. QED
    BY <2>2, <2>3
<1>. QED
  BY <1>2, <1>3

-----------------------------------------------------------------------------
(* Steps *)

(* Spending keeps the budget typed. *)
LEMMA SpendType ==
    ASSUME TypeOK, NEW e \in Event, Spend(e)
    PROVE  budget' \in [Event -> Nat]
BY DEF TypeOK, Spend

(* So does a hook that raises, or one that does not. *)
LEMMA FaultType ==
    ASSUME TypeOK, Fault \/ NoFault
    PROVE  budget' \in [Event -> Nat]
BY SpendType DEF TypeOK, Fault, NoFault, Event

(* What the pipeline appends are entries. *)
LEMMA EntryTypes ==
    ASSUME NEW k \in EntryKind
    PROVE  /\ \A a \in Action, v \in Verdict \cup Value \cup {None, ObsError} :
                 Entry(k, a, v) \in EntryType
           /\ \A s \in Session \cup {None} : Mark(k, s) \in EntryType
BY GatewayAssumption DEF Entry, Mark, EntryType, OpType

(* The state of an action's resource is a value. *)
LEMMA StateType ==
    ASSUME TypeOK, NEW a \in Action
    PROVE  StateOf(a) \in Value
BY GatewayAssumption DEF TypeOK, StateOf, OpType

(* Setting it to a value keeps the world typed. *)
LEMMA SetStateType ==
    ASSUME TypeOK, NEW a \in Action, NEW v \in Value, SetState(a, v)
    PROVE  world' \in [Resource -> Value]
BY DEF TypeOK, SetState

(* The ledger stays, or grows by one entry. *)
LedgerStep ==
    \/ ledger' = ledger
    \/ \E e \in EntryType : EntryOK(e) /\ Log(e)

(* The other variables keep their types. *)
RestTyped ==
    /\ killFile' \in BOOLEAN /\ world' \in [Resource -> Value] /\ stats' \in [Session -> Stats]
    /\ used' \subseteq Action /\ budget' \in [Event -> Nat]

(* A step that leaves the other variables alone keeps their types. *)
LEMMA RestUnchanged ==
    TypeOK /\ UNCHANGED <<killFile, world, stats, used, budget>> => RestTyped
BY DEF TypeOK, RestTyped

(* Appending one good entry keeps every entry good. *)
LEMMA LedgerStepType ==
    ASSUME TypeInv, LedgerStep
    PROVE  /\ ledger' \in Seq(EntryType)
           /\ \A i \in DOMAIN ledger' : EntryOK(ledger'[i])
           /\ Len(ledger) \in Nat /\ Len(ledger') \in Nat /\ Len(ledger) <= Len(ledger')
<1>1. CASE ledger' = ledger
  BY <1>1 DEF TypeInv, TypeOK
<1>2. CASE \E e \in EntryType : EntryOK(e) /\ Log(e)
  <2>1. PICK e \in EntryType : EntryOK(e) /\ ledger' = Append(ledger, e)
    BY <1>2 DEF Log
  <2>2. ledger \in Seq(EntryType)
    BY DEF TypeInv, TypeOK
  <2>. QED
    BY <2>1, <2>2, AppendEntry DEF TypeInv
<1>. QED
  BY <1>1, <1>2 DEF LedgerStep

(* A step of one process that gives it a good frame keeps the invariant. *)
LEMMA ProcessStep ==
    ASSUME TypeInv, LedgerStep, NEW p \in Proc,
           \E f \in FrameType : Become(p, f) /\ FrameOK(f, Len(ledger)),
           RestTyped
    PROVE  TypeInv'
<1>1. PICK f \in FrameType : Become(p, f) /\ FrameOK(f, Len(ledger))
  OBVIOUS
<1>2. /\ frame \in [Proc -> FrameType]
      /\ frame' = [frame EXCEPT ![p] = f]
  BY <1>1 DEF TypeInv, TypeOK, Become
<1>3. frame' \in [Proc -> FrameType]
  BY <1>2
<1>4. \A q \in Proc : FrameOK(frame'[q], Len(ledger))
  BY <1>1, <1>2 DEF TypeInv
<1>5. ASSUME NEW q \in Proc PROVE FrameOK(frame'[q], Len(ledger'))
  <2>1. frame'[q].seen \in Nat
    BY <1>3 DEF FrameType
  <2>2. Len(ledger) \in Nat /\ Len(ledger') \in Nat /\ Len(ledger) <= Len(ledger')
    BY LedgerStepType
  <2>. QED
    BY <1>4, <2>1, <2>2 DEF FrameOK
<1>. QED
  BY <1>3, <1>5, LedgerStepType DEF TypeInv, TypeOK, RestTyped

(* The frame of a method that ends, or that takes its next step. *)
LEMMA EndFrame ==
    ASSUME NEW p, NEW labels, \A l \in labels : l \in {"idle", "collect", "next"},
           \E f \in FrameType : f.pc \in labels /\ Become(p, f)
    PROVE  \E f \in FrameType : Become(p, f) /\ FrameOK(f, Len(ledger))
BY DEF FrameOK, NoAction

(* A jump of a process to a label its frame is fit for. *)
LEMMA GotoFrame ==
    ASSUME TypeOK, NEW p \in Proc, NEW l \in Label, Goto(p, l),
           l \notin {"prepare", "check", "inverse"},
           l \notin NoAction => frame[p].act \in Action
    PROVE  \E f \in FrameType : Become(p, f) /\ FrameOK(f, Len(ledger))
<1>. DEFINE f == [frame[p] EXCEPT !.pc = l]
<1>1. frame[p] \in FrameType
  BY DEF TypeOK
<1>2. f \in FrameType
  BY <1>1, GotoType
<1>3. f.pc = l /\ f.act = frame[p].act
  BY <1>1 DEF FrameType
<1>4. Become(p, f)
  BY DEF Goto
<1>5. FrameOK(f, Len(ledger))
  <2>. HIDE DEF f
  <2>. QED
    BY <1>3 DEF FrameOK
<1>. QED
  BY <1>2, <1>4, <1>5

(* What a process with an action in hand may rely on. *)
LEMMA InHand ==
    ASSUME TypeInv, NEW p \in Proc, frame[p].pc \notin NoAction
    PROVE  /\ frame[p].act \in Action /\ frame[p] \in FrameType
           /\ Op[frame[p].act] \in OpType
BY GatewayAssumption DEF TypeInv, TypeOK, FrameOK

(* Appending an entry that carries no state read back later. *)
LEMMA LogStep ==
    ASSUME NEW k \in EntryKind \ {"prepared", "simulated"},
           \/ \E a \in Action, v \in Verdict \cup Value \cup {None, ObsError} : Log(Entry(k, a, v))
           \/ \E s \in Session \cup {None} : Log(Mark(k, s))
    PROVE  LedgerStep
<1>1. /\ \A a, v : Entry(k, a, v).kind = k
      /\ \A s : Mark(k, s).kind = k
  BY DEF Entry, Mark
<1>. QED
  BY <1>1, EntryTypes DEF LedgerStep, EntryOK

(* A step after which the method is over, and one to its next label. *)
LEMMA StepEnds ==
    ASSUME TypeInv, NEW p \in Proc, LedgerStep, RestTyped, Return(p) \/ Raise(p)
    PROVE  TypeInv'
BY ReturnType, EndFrame, ProcessStep DEF TypeInv

(* A jump to such a label preserves TypeInv. *)
LEMMA StepGoes ==
    ASSUME TypeInv, NEW p \in Proc, LedgerStep, RestTyped, NEW l \in Label, Goto(p, l),
           l \notin {"prepare", "check", "inverse"},
           l \notin NoAction => frame[p].act \in Action
    PROVE  TypeInv'
BY GotoFrame, ProcessStep DEF TypeInv

(* So does a step to any fit frame. *)
LEMMA StepFrame ==
    ASSUME TypeInv, NEW p \in Proc, LedgerStep, RestTyped,
           NEW f \in FrameType, Become(p, f), FrameOK(f, Len(ledger))
    PROVE  TypeInv'
BY ProcessStep

-----------------------------------------------------------------------------
(* The pipeline of a call, up to the decision to run the operation *)

(* A call is given an id; TypeInv is preserved. *)
LEMMA CallType ==
    ASSUME TypeInv, NEW p \in Proc, NEW a \in Action, Call(p, a)
    PROVE  TypeInv'
<1>1. LedgerStep /\ RestTyped
  BY DEF Call, TypeInv, TypeOK, LedgerStep, RestTyped
<1>2. CASE killFile
  BY <1>1, <1>2, StepEnds DEF Call
<1>3. CASE ~killFile
  <2>. DEFINE f == [frame[p] EXCEPT !.pc = "ensure", !.job = "call", !.act = a]
  <2>1. frame[p] \in FrameType
    BY DEF TypeInv, TypeOK
  <2>2. f \in FrameType /\ f.pc = "ensure" /\ f.act = a
    BY <2>1 DEF FrameType, Label, Job, Command
  <2>3. Become(p, f)
    BY <1>3 DEF Call
  <2>. HIDE DEF f
  <2>4. FrameOK(f, Len(ledger))
    BY <2>2 DEF FrameOK
  <2>. QED
    BY <1>1, <2>2, <2>3, <2>4, StepFrame
<1>. QED
  BY <1>2, <1>3

(* The kill switch is looked at; TypeInv is preserved. *)
LEMMA EnsureRunningType ==
    ASSUME TypeInv, NEW p \in Proc, EnsureRunning(p)
    PROVE  TypeInv'
<1>1. LedgerStep /\ RestTyped
  BY RestUnchanged DEF EnsureRunning, TypeInv, LedgerStep
<1>2. frame[p].act \in Action
  BY InHand DEF EnsureRunning, At, NoAction
<1>3. CASE Raise(p)
  BY <1>1, <1>3, StepEnds
<1>4. CASE Goto(p, "decide")
  BY <1>1, <1>2, <1>4, StepGoes DEF Label
<1>5. CASE Goto(p, "release")
  BY <1>1, <1>2, <1>5, StepGoes DEF Label
<1>. QED
  BY <1>3, <1>4, <1>5 DEF EnsureRunning

(* The policy decides; TypeInv is preserved. *)
LEMMA DecideVerdictType ==
    ASSUME TypeInv, NEW p \in Proc, DecideVerdict(p)
    PROVE  TypeInv'
<1>1. LedgerStep /\ RestTyped
  BY RestUnchanged DEF DecideVerdict, TypeInv, LedgerStep
<1>2. /\ frame[p].act \in Action /\ frame[p] \in FrameType /\ Op[frame[p].act] \in OpType
  BY InHand DEF DecideVerdict, At, NoAction
<1>. DEFINE op == Op[frame[p].act]
            v  == Decide(policy, op, stats[op.ses])
            l  == IF op.risk = READ /\ v = "allow" THEN "read" ELSE "propose"
            f  == [frame[p] EXCEPT !.verdict = v, !.pc = l]
<1>3. v \in Verdict
  BY <1>2, GatewayAssumption, DecideType DEF OpType
<1>4. l \in {"read", "propose"}
  OBVIOUS
<1>5. Become(p, f)
  BY DEF DecideVerdict
<1>. HIDE DEF v, l
<1>6. f \in FrameType /\ f.pc = l /\ f.act = frame[p].act
  BY <1>2, <1>3, <1>4 DEF FrameType, Label
<1>. HIDE DEF f
<1>7. FrameOK(f, Len(ledger))
  BY <1>2, <1>4, <1>6 DEF FrameOK
<1>. QED
  BY <1>1, <1>5, <1>6, <1>7, StepFrame

(* A read runs; TypeInv is preserved. *)
LEMMA ReadType ==
    ASSUME TypeInv, NEW p \in Proc, Read(p)
    PROVE  TypeInv'
<1>1. frame[p].act \in Action
  BY InHand DEF Read, At, NoAction
<1>2. RestTyped
  BY FaultType DEF Read, TypeInv, TypeOK, RestTyped
<1>3. LedgerStep
  BY <1>1, LogStep DEF Read, LedgerStep, EntryKind, StatusKind
<1>. QED
  BY <1>2, <1>3, StepEnds DEF Read

(* The proposal is logged; TypeInv is preserved. *)
LEMMA ProposeType ==
    ASSUME TypeInv, NEW p \in Proc, Propose(p)
    PROVE  TypeInv'
<1>1. frame[p].act \in Action /\ frame[p].verdict \in Verdict
  BY InHand DEF Propose, At, NoAction, FrameType
<1>2. RestTyped
  BY RestUnchanged DEF Propose, TypeInv
<1>3. LedgerStep
  BY <1>1, LogStep DEF Propose, EntryKind, StatusKind
<1>4. Goto(p, "deny") \/ Goto(p, "snapshot") \/ Goto(p, "simulate")
  BY DEF Propose
<1>. QED
  BY <1>1, <1>2, <1>3, <1>4, StepGoes DEF Label

(* The denial is logged; TypeInv is preserved. *)
LEMMA DenyByPolicyType ==
    ASSUME TypeInv, NEW p \in Proc, DenyByPolicy(p)
    PROVE  TypeInv'
<1>1. frame[p].act \in Action
  BY InHand DEF DenyByPolicy, At, NoAction
<1>2. RestTyped
  BY RestUnchanged DEF DenyByPolicy, TypeInv
<1>3. LedgerStep
  BY <1>1, LogStep DEF DenyByPolicy, EntryKind, StatusKind
<1>. QED
  BY <1>2, <1>3, StepEnds DEF DenyByPolicy
(* The simulator runs; TypeInv is preserved. *)
LEMMA SimulateType ==
    ASSUME TypeInv, NEW p \in Proc, Simulate(p)
    PROVE  TypeInv'
<1>1. /\ frame[p].act \in Action /\ frame[p] \in FrameType /\ Op[frame[p].act] \in OpType
  BY InHand DEF Simulate, At, NoAction
<1>. DEFINE a == frame[p].act
            predicted(simulated) == IF simulated THEN Op[a].predicts ELSE None
            l(simulated) == AfterSimulation(frame[p].verdict, simulated)
            f(simulated) == [frame[p] EXCEPT !.predicted = predicted(simulated), !.pc = l(simulated)]
<1>2. PICK simulated \in BOOLEAN : /\ Fault \/ NoFault
                                   /\ Log(Entry("simulated", a, predicted(simulated)))
                                   /\ Become(p, f(simulated))
  BY DEF Simulate
<1>3. predicted(simulated) \in Value \cup {None}
  BY <1>1 DEF OpType
<1>4. RestTyped
  BY <1>2, FaultType DEF Simulate, TypeInv, TypeOK, RestTyped
<1>5. LedgerStep
  <2>1. Entry("simulated", a, predicted(simulated)) \in EntryType
    BY <1>1, <1>3, EntryTypes DEF EntryKind
  <2>2. Entry("simulated", a, predicted(simulated)).val = predicted(simulated)
    BY DEF Entry
  <2>. QED
    BY <1>2, <1>3, <2>1, <2>2 DEF LedgerStep, EntryOK
<1>6. l(simulated) \in {"authorize", "escalate", "snapshot"}
  BY DEF AfterSimulation
<1>. HIDE DEF predicted, l
<1>7. f(simulated) \in FrameType /\ f(simulated).pc = l(simulated) /\ f(simulated).act = a
  BY <1>1, <1>3, <1>6 DEF FrameType, Label
<1>. HIDE DEF f
<1>8. FrameOK(f(simulated), Len(ledger))
  BY <1>1, <1>6, <1>7 DEF FrameOK
<1>. QED
  BY <1>2, <1>4, <1>5, <1>7, <1>8, StepFrame

(* The escalation is logged; TypeInv is preserved. *)
LEMMA EscalateToApprovalType ==
    ASSUME TypeInv, NEW p \in Proc, EscalateToApproval(p)
    PROVE  TypeInv'
<1>1. frame[p].act \in Action /\ frame[p] \in FrameType
  BY InHand DEF EscalateToApproval, At, NoAction
<1>2. RestTyped
  BY RestUnchanged DEF EscalateToApproval, TypeInv
<1>3. LedgerStep
  BY <1>1, LogStep DEF EscalateToApproval, EntryKind, StatusKind, Verdict
<1>. DEFINE f == [frame[p] EXCEPT !.verdict = "approve", !.pc = "authorize"]
<1>4. Become(p, f)
  BY DEF EscalateToApproval
<1>5. f \in FrameType /\ f.pc = "authorize" /\ f.act = frame[p].act
  BY <1>1 DEF FrameType, Label, Verdict
<1>. HIDE DEF f
<1>6. FrameOK(f, Len(ledger))
  BY <1>1, <1>5 DEF FrameOK
<1>. QED
  BY <1>2, <1>3, <1>4, <1>5, <1>6, StepFrame

(* The approval is logged; TypeInv is preserved. *)
LEMMA ApproveType ==
    ASSUME TypeInv, NEW p \in Proc, Approve(p)
    PROVE  TypeInv'
<1>1. frame[p].act \in Action
  BY InHand DEF Approve, At, NoAction, Asked
<1>2. RestTyped
  BY RestUnchanged DEF Approve, TypeInv
<1>3. LedgerStep
  BY <1>1, LogStep DEF Approve, EntryKind, StatusKind
<1>4. Goto(p, "snapshot")
  BY DEF Approve
<1>. QED
  BY <1>1, <1>2, <1>3, <1>4, StepGoes DEF Label

(* The rejection is logged; TypeInv is preserved. *)
LEMMA RejectType ==
    ASSUME TypeInv, NEW p \in Proc, Reject(p)
    PROVE  TypeInv'
<1>1. frame[p].act \in Action
  BY InHand DEF Reject, At, NoAction, Asked
<1>2. RestTyped
  BY RestUnchanged DEF Reject, TypeInv
<1>3. LedgerStep
  BY <1>1, LogStep DEF Reject, EntryKind, StatusKind
<1>. QED
  BY <1>2, <1>3, StepEnds DEF Reject

(* The approver raises; TypeInv is preserved. *)
LEMMA ApproverRaisesType ==
    ASSUME TypeInv, NEW p \in Proc, ApproverRaises(p)
    PROVE  TypeInv'
<1>1. RestTyped
  BY FaultType DEF ApproverRaises, TypeInv, TypeOK, RestTyped
<1>2. LedgerStep
  BY DEF ApproverRaises, LedgerStep
<1>. QED
  BY <1>1, <1>2, StepEnds DEF ApproverRaises

(* The action is parked; TypeInv is preserved. *)
LEMMA HoldType ==
    ASSUME TypeInv, NEW p \in Proc, Hold(p)
    PROVE  TypeInv'
<1>1. frame[p].act \in Action
  BY InHand DEF Hold, At, NoAction
<1>2. RestTyped
  BY RestUnchanged DEF Hold, TypeInv
<1>3. LedgerStep
  BY <1>1, LogStep DEF Hold, EntryKind, StatusKind
<1>. QED
  BY <1>2, <1>3, StepEnds DEF Hold

-----------------------------------------------------------------------------
(* Running the operation *)

(* The snapshot is taken, a state or None; TypeInv is preserved. *)
LEMMA TakeSnapshotType ==
    ASSUME TypeInv, NEW p \in Proc, TakeSnapshot(p)
    PROVE  TypeInv'
<1>1. /\ frame[p].act \in Action /\ frame[p] \in FrameType
  BY InHand DEF TakeSnapshot, At, NoAction
<1>2. RestTyped
  BY FaultType DEF TakeSnapshot, TypeInv, TypeOK, RestTyped
<1>. DEFINE a == frame[p].act
            v == IF Op[a].snapshot THEN StateOf(a) ELSE None
            f == [frame[p] EXCEPT !.pc = "prepare", !.reg = v]
<1>3. CASE Become(p, f) /\ UNCHANGED ledger
  <2>1. v \in Value \cup {None}
    <3>1. StateOf(a) \in Value
      BY <1>1, StateType DEF TypeInv
    <3>. QED
      BY <3>1
  <2>. HIDE DEF v
  <2>2. f \in FrameType /\ f.pc = "prepare" /\ f.act = a /\ f.reg = v
    BY <1>1, <2>1 DEF FrameType, Label
  <2>. HIDE DEF f
  <2>3. FrameOK(f, Len(ledger))
    BY <1>1, <2>1, <2>2 DEF FrameOK
  <2>. QED
    BY <1>2, <1>3, <2>2, <2>3, StepFrame DEF LedgerStep
<1>4. CASE Log(Entry("failed", a, None)) /\ Raise(p)
  <2>1. LedgerStep
    BY <1>1, <1>4, LogStep DEF EntryKind, StatusKind
  <2>. QED
    BY <1>2, <1>4, <2>1, StepEnds
<1>. QED
  BY <1>3, <1>4 DEF TakeSnapshot

(* The snapshot is logged; TypeInv is preserved. *)
LEMMA PrepareType ==
    ASSUME TypeInv, NEW p \in Proc, Prepare(p)
    PROVE  TypeInv'
<1>1. /\ frame[p].act \in Action /\ frame[p].reg \in Value \cup {None}
  BY InHand DEF Prepare, At, NoAction, TypeInv, FrameOK
<1>2. RestTyped
  BY RestUnchanged DEF Prepare, TypeInv
<1>. DEFINE e == Entry("prepared", frame[p].act, frame[p].reg)
<1>3. e \in EntryType
  BY <1>1, EntryTypes DEF EntryKind, StatusKind
<1>4. e.val = frame[p].reg
  BY DEF Entry
<1>5. LedgerStep
  BY <1>1, <1>3, <1>4 DEF Prepare, LedgerStep, EntryOK
<1>6. Goto(p, "run")
  BY DEF Prepare
<1>. QED
  BY <1>1, <1>2, <1>5, <1>6, StepGoes DEF Label

(* The operation runs; TypeInv is preserved. *)
LEMMA RunType ==
    ASSUME TypeInv, NEW p \in Proc, Run(p)
    PROVE  TypeInv'
<1>1. /\ frame[p].act \in Action /\ Op[frame[p].act] \in OpType
  BY InHand DEF Run, At, NoAction
<1>. DEFINE a == frame[p].act
<1>2. StateOf(a) \in Value /\ Outcomes(a) \subseteq Value
  BY <1>1, StateType DEF TypeInv, Outcomes, OpType
<1>3. world' \in [Resource -> Value]
  BY <1>1, <1>2, SetStateType DEF Run, TypeInv
<1>4. LedgerStep /\ RestTyped
  BY <1>3, FaultType DEF Run, TypeInv, TypeOK, RestTyped, LedgerStep
<1>5. Goto(p, "observe") \/ Goto(p, "fail")
  BY DEF Run
<1>. QED
  BY <1>1, <1>4, <1>5, StepGoes DEF Label

(* The failure is logged; TypeInv is preserved. *)
LEMMA LogFailedType ==
    ASSUME TypeInv, NEW p \in Proc, LogFailed(p)
    PROVE  TypeInv'
<1>1. frame[p].act \in Action
  BY InHand DEF LogFailed, At, NoAction
<1>2. RestTyped
  BY RestUnchanged DEF LogFailed, TypeInv
<1>3. LedgerStep
  BY <1>1, LogStep DEF LogFailed, EntryKind, StatusKind
<1>. QED
  BY <1>2, <1>3, StepEnds DEF LogFailed

(* The outcome is observed; TypeInv is preserved. *)
LEMMA ObserveType ==
    ASSUME TypeInv, NEW p \in Proc, Observe(p)
    PROVE  TypeInv'
<1>1. /\ frame[p].act \in Action /\ frame[p] \in FrameType
  BY InHand DEF Observe, At, NoAction
<1>2. LedgerStep /\ RestTyped
  BY FaultType DEF Observe, TypeInv, TypeOK, RestTyped, LedgerStep
<1>. DEFINE f(v) == [frame[p] EXCEPT !.pc = "commit", !.reg = v]
<1>3. \E v \in Value \cup {None, ObsError} : Become(p, f(v))
  <2>1. StateOf(frame[p].act) \in Value
    BY <1>1, StateType DEF TypeInv
  <2>. QED
    BY <2>1 DEF Observe
<1>4. PICK v \in Value \cup {None, ObsError} : Become(p, f(v))
  BY <1>3
<1>5. f(v) \in FrameType /\ f(v).pc = "commit" /\ f(v).act = frame[p].act
  BY <1>1 DEF FrameType, Label
<1>. HIDE DEF f
<1>6. FrameOK(f(v), Len(ledger))
  BY <1>1, <1>5 DEF FrameOK
<1>. QED
  BY <1>2, <1>4, <1>5, <1>6, StepFrame

(* The commit is logged; TypeInv is preserved. *)
LEMMA CommitType ==
    ASSUME TypeInv, NEW p \in Proc, Commit(p)
    PROVE  TypeInv'
<1>1. frame[p].act \in Action /\ frame[p].reg \in Value \cup {None, ObsError}
  BY InHand DEF Commit, At, NoAction, FrameType
<1>2. RestTyped
  BY RestUnchanged DEF Commit, TypeInv
<1>3. LedgerStep
  BY <1>1, LogStep DEF Commit, EntryKind, StatusKind
<1>4. Goto(p, "account")
  BY DEF Commit
<1>. QED
  BY <1>1, <1>2, <1>3, <1>4, StepGoes DEF Label

(* The counters grow; TypeInv is preserved. *)
LEMMA AccountType ==
    ASSUME TypeInv, NEW p \in Proc, Account(p)
    PROVE  TypeInv'
<1>1. frame[p].act \in Action /\ Op[frame[p].act] \in OpType
  BY InHand DEF Account, At, NoAction
<1>. DEFINE s == Op[frame[p].act].ses
            n == Counted(stats[s], Op[frame[p].act].risk)
<1>2. s \in Session /\ stats \in [Session -> Stats]
  BY <1>1 DEF OpType, TypeInv, TypeOK
<1>3. n \in Stats
  <2>1. stats[s].mutations \in Nat /\ stats[s].destructive \in Nat
    BY <1>2 DEF Stats
  <2>2. \A i, j \in Nat : [mutations |-> i, destructive |-> j] \in Stats
    BY DEF Stats
  <2>3. \A risk : /\ stats[s].mutations + (IF risk >= WRITE THEN 1 ELSE 0) \in Nat
                  /\ stats[s].destructive + (IF risk >= DESTRUCTIVE THEN 1 ELSE 0) \in Nat
    BY <2>1
  <2>. QED
    BY <2>2, <2>3 DEF Counted
<1>4. stats' = [stats EXCEPT ![s] = n] \/ stats' = stats
  BY DEF Account
<1>5. stats' \in [Session -> Stats]
  <2>. HIDE DEF n
  <2>. QED
    BY <1>2, <1>3, <1>4
<1>6. LedgerStep /\ RestTyped
  BY <1>5 DEF Account, TypeInv, TypeOK, RestTyped, LedgerStep
<1>7. Goto(p, "deviate") \/ Return(p)
  BY DEF Account
<1>. QED
  BY <1>1, <1>6, <1>7, StepGoes, StepEnds DEF Label

(* The deviation is logged; TypeInv is preserved. *)
LEMMA DeviateType ==
    ASSUME TypeInv, NEW p \in Proc, Deviate(p)
    PROVE  TypeInv'
<1>1. frame[p].act \in Action
  BY InHand DEF Deviate, At, NoAction
<1>2. RestTyped
  BY RestUnchanged DEF Deviate, TypeInv
<1>3. LedgerStep
  BY <1>1, LogStep DEF Deviate, EntryKind
<1>4. Return(p) \/ Goto(p, "undo") \/ Goto(p, "halt")
  BY DEF Deviate
<1>. QED
  BY <1>1, <1>2, <1>3, <1>4, StepGoes, StepEnds DEF Label

(* The session is halted; TypeInv is preserved. *)
LEMMA HaltOnDeviationType ==
    ASSUME TypeInv, NEW p \in Proc, HaltOnDeviation(p)
    PROVE  TypeInv'
<1>1. /\ frame[p].act \in Action /\ frame[p] \in FrameType /\ Op[frame[p].act] \in OpType
  BY InHand DEF HaltOnDeviation, At, NoAction
<1>. DEFINE s == Op[frame[p].act].ses
<1>2. s \in Session
  BY <1>1 DEF OpType
<1>3. RestTyped
  BY RestUnchanged DEF HaltOnDeviation, TypeInv
<1>4. LedgerStep
  BY <1>2, LogStep DEF HaltOnDeviation, EntryKind
<1>5. CASE Raise(p)
  BY <1>3, <1>4, <1>5, StepEnds
<1>6. CASE Become(p, RollbackTo(frame[p], s, 0))
  <2>1. RollbackTo(frame[p], s, 0) \in FrameType /\ RollbackTo(frame[p], s, 0).pc = "collect"
    BY <1>1, <1>2, CollectType
  <2>2. FrameOK(RollbackTo(frame[p], s, 0), Len(ledger))
    BY <2>1 DEF FrameOK, NoAction
  <2>. QED
    BY <1>3, <1>4, <1>6, <2>1, <2>2, StepFrame
<1>. QED
  BY <1>5, <1>6 DEF HaltOnDeviation

-----------------------------------------------------------------------------
(* The outbox *)

(* A release reads the stored preview; TypeInv is preserved. *)
LEMMA ReleaseType ==
    ASSUME TypeInv, NEW p \in Proc, NEW a \in Action, Release(p, a)
    PROVE  TypeInv'
<1>1. LedgerStep /\ RestTyped
  BY SpendType DEF Release, Event, Command, TypeInv, TypeOK, LedgerStep, RestTyped
<1>2. frame[p] \in FrameType
  BY DEF TypeInv, TypeOK
<1>. DEFINE i == FirstPos(ledger, a, "simulated")
            v == IF i = 0 THEN None ELSE ledger[i].val
            f == [frame[p] EXCEPT !.pc = "gate", !.job = "release", !.act = a, !.predicted = v]
<1>3. v \in Value \cup {None}
  BY FirstPosType DEF TypeInv, TypeOK, EntryOK
<1>4. Become(p, f)
  BY DEF Release
<1>5. "gate" \in Label /\ "release" \in Job
  BY DEF Label, Job, Command
<1>. HIDE DEF v, i
<1>6. f \in FrameType /\ f.pc = "gate" /\ f.act = a
  BY <1>2, <1>3, <1>5 DEF FrameType
<1>. HIDE DEF f
<1>7. FrameOK(f, Len(ledger))
  BY <1>6 DEF FrameOK
<1>. QED
  BY <1>1, <1>4, <1>6, <1>7, StepFrame

(* A release looks at the KILL file; TypeInv is preserved. *)
LEMMA CheckKillFileType ==
    ASSUME TypeInv, NEW p \in Proc, CheckKillFile(p)
    PROVE  TypeInv'
<1>1. frame[p].act \in Action
  BY InHand DEF CheckKillFile, At, NoAction
<1>2. LedgerStep /\ RestTyped
  BY RestUnchanged DEF CheckKillFile, TypeInv, LedgerStep
<1>3. Raise(p) \/ Goto(p, "ensure")
  BY DEF CheckKillFile
<1>. QED
  BY <1>1, <1>2, <1>3, StepGoes, StepEnds DEF Label

(* The release is logged; TypeInv is preserved. *)
LEMMA LogReleasedType ==
    ASSUME TypeInv, NEW p \in Proc, LogReleased(p)
    PROVE  TypeInv'
<1>1. frame[p].act \in Action
  BY InHand DEF LogReleased, At, NoAction
<1>2. RestTyped
  BY RestUnchanged DEF LogReleased, TypeInv
<1>3. LedgerStep
  BY <1>1, LogStep DEF LogReleased, EntryKind, StatusKind
<1>4. Goto(p, "snapshot")
  BY DEF LogReleased
<1>. QED
  BY <1>1, <1>2, <1>3, <1>4, StepGoes DEF Label

(* A discard reads the status; TypeInv is preserved. *)
LEMMA DiscardType ==
    ASSUME TypeInv, NEW p \in Proc, NEW a \in Action, Discard(p, a)
    PROVE  TypeInv'
<1>1. LedgerStep /\ RestTyped
  BY SpendType DEF Discard, Event, Command, TypeInv, TypeOK, LedgerStep, RestTyped
<1>2. frame[p] \in FrameType
  BY DEF TypeInv, TypeOK
<1>. DEFINE f == [frame[p] EXCEPT !.pc = "discard", !.job = "discard", !.act = a]
<1>3. Become(p, f)
  BY DEF Discard
<1>4. f \in FrameType /\ f.pc = "discard" /\ f.act = a
  BY <1>2 DEF FrameType, Label, Job, Command
<1>. HIDE DEF f
<1>5. FrameOK(f, Len(ledger))
  BY <1>4 DEF FrameOK
<1>. QED
  BY <1>1, <1>3, <1>4, <1>5, StepFrame

(* The discard is logged; TypeInv is preserved. *)
LEMMA LogDiscardedType ==
    ASSUME TypeInv, NEW p \in Proc, LogDiscarded(p)
    PROVE  TypeInv'
<1>1. frame[p].act \in Action
  BY InHand DEF LogDiscarded, At, NoAction
<1>2. RestTyped
  BY RestUnchanged DEF LogDiscarded, TypeInv
<1>3. LedgerStep
  BY <1>1, LogStep DEF LogDiscarded, EntryKind, StatusKind
<1>. QED
  BY <1>2, <1>3, StepEnds DEF LogDiscarded

-----------------------------------------------------------------------------
(* undo *)

(* A value looked up in a log is None or that of such an entry. *)
LEMMA EntryValueType ==
    ASSUME NEW log \in Seq(EntryType), NEW a, NEW kind
    PROVE  \/ EntryValue(log, a, kind) = None
           \/ \E i \in DOMAIN log : /\ log[i].act = a /\ log[i].kind = kind
                                    /\ EntryValue(log, a, kind) = log[i].val
<1>. DEFINE i == LastPos(log, a, kind)
<1>1. i = 0 \/ (i \in DOMAIN log /\ log[i].act = a /\ log[i].kind = kind)
  BY LastPosType
<1>2. EntryValue(log, a, kind) = IF i = 0 THEN None ELSE log[i].val
  BY DEF EntryValue
<1>. HIDE DEF i
<1>. QED
  BY <1>1, <1>2

(* What undo() has read is a prefix of the ledger. *)
LEMMA SeenPrefix ==
    ASSUME TypeInv, NEW p \in Proc, frame[p].pc \in {"check", "inverse"}
    PROVE  /\ Seen(p) \in Seq(EntryType)
           /\ \A i \in DOMAIN Seen(p) : i \in DOMAIN ledger /\ Seen(p)[i] = ledger[i]
<1>1. ledger \in Seq(EntryType) /\ frame[p].seen \in Nat /\ frame[p].seen <= Len(ledger)
  BY DEF TypeInv, TypeOK, FrameType, FrameOK
<1>. DEFINE n == frame[p].seen
<1>2. Seen(p) = SubSeq(ledger, 1, n)
  BY DEF Seen
<1>. HIDE DEF n
<1>. QED
  BY <1>1, <1>2 DEF n

(* What undo() restores is a state: the snapshot, or the inverse's own. *)
LEMMA RestoredType ==
    ASSUME TypeInv, NEW p \in Proc, At(p, "inverse")
    PROVE  Restored(p) \in Value
<1>. DEFINE a == frame[p].act
            v == EntryValue(Seen(p), a, "prepared")
<1>1. a \in Action /\ Op[a] \in OpType
  BY InHand DEF At, NoAction
<1>2. CASE v = None
  BY <1>1, <1>2 DEF Restored, OpType
<1>3. CASE v # None
  <2>1. \E i \in DOMAIN ledger : ledger[i].kind = "prepared" /\ v = ledger[i].val
    BY <1>3, EntryValueType, SeenPrefix DEF At
  <2>2. v \in Value
    BY <1>3, <2>1 DEF TypeInv, EntryOK
  <2>. QED
    BY <1>3, <2>2 DEF Restored
<1>. QED
  BY <1>2, <1>3

(* An undo begins; TypeInv is preserved. *)
LEMMA UndoType ==
    ASSUME TypeInv, NEW p \in Proc, NEW a \in Action, NEW force \in BOOLEAN, Undo(p, a, force)
    PROVE  TypeInv'
<1>1. LedgerStep /\ RestTyped
  BY SpendType DEF Undo, Event, Command, TypeInv, TypeOK, LedgerStep, RestTyped
<1>2. frame[p] \in FrameType
  BY DEF TypeInv, TypeOK
<1>. DEFINE f == [frame[p] EXCEPT !.pc = "undo", !.job = "undo", !.act = a, !.force = force]
<1>3. Become(p, f)
  BY DEF Undo
<1>4. "undo" \in Label /\ "undo" \in Job
  BY DEF Label, Job, Command
<1>5. f \in FrameType /\ f.pc = "undo" /\ f.act = a
  BY <1>2, <1>4 DEF FrameType
<1>. HIDE DEF f
<1>6. FrameOK(f, Len(ledger))
  BY <1>5 DEF FrameOK
<1>. QED
  BY <1>1, <1>3, <1>5, <1>6, StepFrame

(* A step in which undo() ends preserves TypeInv. *)
LEMMA StepUndoEnds ==
    ASSUME TypeInv, NEW p \in Proc, LedgerStep, RestTyped, frame[p].act \in Action,
           NEW outcome, UndoEnds(p, outcome)
    PROVE  TypeInv'
BY UndoEndsType, EndFrame, ProcessStep DEF TypeInv

(* undo() reads the entries; TypeInv is preserved. *)
LEMMA LoadForUndoType ==
    ASSUME TypeInv, NEW p \in Proc, LoadForUndo(p)
    PROVE  TypeInv'
<1>1. frame[p].act \in Action /\ frame[p] \in FrameType
  BY InHand DEF LoadForUndo, At, NoAction
<1>2. LedgerStep /\ RestTyped
  BY RestUnchanged DEF LoadForUndo, TypeInv, LedgerStep
<1>. DEFINE f(l) == [frame[p] EXCEPT !.seen = Len(ledger), !.pc = l]
<1>3. CASE \E answer : UndoEnds(p, answer)
  BY <1>1, <1>2, <1>3, StepUndoEnds
<1>4. CASE \E l \in {"check", "inverse"} : Become(p, f(l))
  <2>1. PICK l \in {"check", "inverse"} : Become(p, f(l))
    BY <1>4
  <2>2. Len(ledger) \in Nat
    BY DEF TypeInv, TypeOK
  <2>3. f(l) \in FrameType /\ f(l).pc = l /\ f(l).act = frame[p].act /\ f(l).seen = Len(ledger)
    BY <1>1, <2>2 DEF FrameType, Label
  <2>. HIDE DEF f
  <2>4. FrameOK(f(l), Len(ledger))
    BY <1>1, <2>1, <2>2, <2>3 DEF FrameOK
  <2>. QED
    BY <1>2, <2>1, <2>3, <2>4, StepFrame
<1>. QED
  BY <1>3, <1>4 DEF LoadForUndo

(* undo() compares the states; TypeInv is preserved. *)
LEMMA CheckConflictType ==
    ASSUME TypeInv, NEW p \in Proc, CheckConflict(p)
    PROVE  TypeInv'
<1>1. frame[p].act \in Action /\ frame[p] \in FrameType /\ frame[p].seen <= Len(ledger)
  BY InHand DEF CheckConflict, At, NoAction, TypeInv, FrameOK
<1>2. LedgerStep /\ RestTyped
  BY FaultType DEF CheckConflict, TypeInv, TypeOK, RestTyped, LedgerStep
<1>3. CASE UndoEnds(p, "failed")
  BY <1>1, <1>2, <1>3, StepUndoEnds
<1>4. CASE Goto(p, "inverse")
  <2>. DEFINE f == [frame[p] EXCEPT !.pc = "inverse"]
  <2>1. f \in FrameType /\ f.pc = "inverse" /\ f.act = frame[p].act /\ f.seen = frame[p].seen
    BY <1>1 DEF FrameType, Label
  <2>2. Become(p, f)
    BY <1>4 DEF Goto
  <2>. HIDE DEF f
  <2>3. FrameOK(f, Len(ledger))
    BY <1>1, <2>1 DEF FrameOK
  <2>. QED
    BY <1>2, <2>1, <2>2, <2>3, StepFrame
<1>. QED
  BY <1>3, <1>4 DEF CheckConflict

(* The inverse runs; TypeInv is preserved. *)
LEMMA ApplyInverseType ==
    ASSUME TypeInv, NEW p \in Proc, ApplyInverse(p)
    PROVE  TypeInv'
<1>1. frame[p].act \in Action
  BY InHand DEF ApplyInverse, At, NoAction
<1>2. Restored(p) \in Value /\ StateOf(frame[p].act) \in Value
  BY <1>1, RestoredType, StateType DEF ApplyInverse, TypeInv
<1>3. world' \in [Resource -> Value]
  BY <1>1, <1>2, SetStateType DEF ApplyInverse, TypeInv
<1>4. LedgerStep /\ RestTyped
  BY <1>3, FaultType DEF ApplyInverse, TypeInv, TypeOK, RestTyped, LedgerStep
<1>5. Goto(p, "undone") \/ Goto(p, "undo_failed")
  BY DEF ApplyInverse
<1>. QED
  BY <1>1, <1>4, <1>5, StepGoes DEF Label

(* The undo is logged; TypeInv is preserved. *)
LEMMA LogUndoneType ==
    ASSUME TypeInv, NEW p \in Proc, LogUndone(p)
    PROVE  TypeInv'
<1>1. frame[p].act \in Action
  BY InHand DEF LogUndone, At, NoAction
<1>2. RestTyped
  BY RestUnchanged DEF LogUndone, TypeInv
<1>3. LedgerStep
  BY <1>1, LogStep DEF LogUndone, EntryKind, StatusKind
<1>. QED
  BY <1>1, <1>2, <1>3, StepUndoEnds DEF LogUndone

(* The failed undo is logged; TypeInv is preserved. *)
LEMMA LogUndoFailedType ==
    ASSUME TypeInv, NEW p \in Proc, LogUndoFailed(p)
    PROVE  TypeInv'
<1>1. frame[p].act \in Action
  BY InHand DEF LogUndoFailed, At, NoAction
<1>2. RestTyped
  BY RestUnchanged DEF LogUndoFailed, TypeInv
<1>3. LedgerStep
  BY <1>1, LogStep DEF LogUndoFailed, EntryKind, StatusKind
<1>. QED
  BY <1>1, <1>2, <1>3, StepUndoEnds DEF LogUndoFailed

-----------------------------------------------------------------------------
(* Session rollback, batches and the kill switch *)

(* A frame without an action in hand is a good frame. *)
LEMMA StepIdle ==
    ASSUME TypeInv, NEW p \in Proc, LedgerStep, RestTyped,
           NEW f \in FrameType, f.pc \in {"idle", "collect", "next"}, Become(p, f)
    PROVE  TypeInv'
BY EndFrame, ProcessStep

(* A rollback begins; TypeInv is preserved. *)
LEMMA RollbackType ==
    ASSUME TypeInv, NEW p \in Proc, NEW s \in Session, NEW to \in Checkpoints,
           NEW force \in BOOLEAN, Rollback(p, s, to, force)
    PROVE  TypeInv'
<1>1. LedgerStep /\ RestTyped
  BY SpendType DEF Rollback, Event, Command, TypeInv, TypeOK, LedgerStep, RestTyped
<1>2. frame[p] \in FrameType /\ to \in Nat
  BY DEF TypeInv, TypeOK, Checkpoints
<1>. DEFINE g == RollbackTo(frame[p], s, to)
            f == [g EXCEPT !.job = "rollback", !.force = force]
<1>3. Become(p, f)
  BY DEF Rollback
<1>4. g \in FrameType /\ g.pc = "collect"
  BY <1>2, CollectType
<1>. HIDE DEF g
<1>5. f \in FrameType /\ f.pc = "collect"
  BY <1>4 DEF FrameType, Job, Command
<1>. HIDE DEF f
<1>. QED
  BY <1>1, <1>3, <1>5, StepIdle

(* A rollback lists its work; TypeInv is preserved. *)
LEMMA CollectActionsType ==
    ASSUME TypeInv, NEW p \in Proc, CollectActions(p)
    PROVE  TypeInv'
<1>1. LedgerStep /\ RestTyped
  BY RestUnchanged DEF CollectActions, TypeInv, LedgerStep
<1>2. frame[p] \in FrameType
  BY DEF TypeInv, TypeOK
<1>. DEFINE T == ToUndo(frame[p].ses, frame[p].to)
            f == [frame[p] EXCEPT !.pc = "next", !.act = None, !.reg = None, !.todo = T]
<1>3. Become(p, f)
  BY DEF CollectActions
<1>4. T \in SUBSET Action
  BY DEF ToUndo
<1>. HIDE DEF T
<1>5. f \in FrameType /\ f.pc = "next"
  BY <1>2, <1>4 DEF FrameType, Label
<1>. HIDE DEF f
<1>. QED
  BY <1>1, <1>3, <1>5, StepIdle

(* A rollback takes the next action; TypeInv is preserved. *)
LEMMA UndoNextType ==
    ASSUME TypeInv, NEW p \in Proc, UndoNext(p)
    PROVE  TypeInv'
<1>1. LedgerStep /\ RestTyped
  BY RestUnchanged DEF UndoNext, TypeInv, LedgerStep
<1>2. frame[p] \in FrameType /\ frame[p].todo \in SUBSET Action
  BY DEF TypeInv, TypeOK, FrameType
<1>. DEFINE f(a) == [frame[p] EXCEPT !.pc = "undo", !.act = a, !.todo = @ \ {a}]
<1>3. PICK a \in Newest(frame[p].todo) : Become(p, f(a))
  BY DEF UndoNext
<1>4. a \in Action
  BY <1>2, <1>3 DEF Newest
<1>5. f(a) \in FrameType /\ f(a).pc = "undo" /\ f(a).act = a
  BY <1>2, <1>4 DEF FrameType, Label
<1>. HIDE DEF f
<1>6. FrameOK(f(a), Len(ledger))
  BY <1>4, <1>5 DEF FrameOK
<1>. QED
  BY <1>1, <1>3, <1>5, <1>6, StepFrame

(* The rollback is logged; TypeInv is preserved. *)
LEMMA LogRollbackType ==
    ASSUME TypeInv, NEW p \in Proc, LogRollback(p)
    PROVE  TypeInv'
<1>1. RestTyped
  BY RestUnchanged DEF LogRollback, TypeInv
<1>2. frame[p].ses \in Session \cup {None}
  BY DEF TypeInv, TypeOK, FrameType
<1>3. LedgerStep
  BY <1>2, LogStep DEF LogRollback, EntryKind
<1>. QED
  BY <1>1, <1>3, StepEnds DEF LogRollback

(* A batch takes its checkpoint; TypeInv is preserved. *)
LEMMA BeginBatchType ==
    ASSUME TypeInv, NEW p \in Proc, NEW s \in Session, BeginBatch(p, s)
    PROVE  TypeInv'
<1>1. LedgerStep /\ RestTyped
  BY SpendType DEF BeginBatch, Event, Command, TypeInv, TypeOK, LedgerStep, RestTyped
<1>2. Len(ledger) \in Nat
  BY DEF TypeInv, TypeOK
<1>3. IdleFrame(s, Len(ledger)) \in FrameType /\ IdleFrame(s, Len(ledger)).pc = "idle"
  BY <1>2, IdleFrameType
<1>. QED
  BY <1>1, <1>3, StepIdle DEF BeginBatch

(* A batch ends; TypeInv is preserved. *)
LEMMA EndBatchType ==
    ASSUME TypeInv, NEW p \in Proc, EndBatch(p)
    PROVE  TypeInv'
<1>1. LedgerStep /\ RestTyped
  BY RestUnchanged DEF EndBatch, TypeInv, LedgerStep
<1>2. IdleFrame(None, 0) \in FrameType /\ IdleFrame(None, 0).pc = "idle"
  BY IdleFrameType
<1>. QED
  BY <1>1, <1>2, StepIdle, StepEnds DEF EndBatch

(* A session is killed; TypeInv is preserved. *)
LEMMA KillSessionType ==
    ASSUME TypeInv, NEW p \in Proc, NEW s \in Session, NEW rollback \in BOOLEAN,
           KillSession(p, s, rollback)
    PROVE  TypeInv'
<1>1. RestTyped
  BY SpendType DEF KillSession, Event, Command, TypeInv, TypeOK, RestTyped
<1>2. LedgerStep
  BY LogStep DEF KillSession, EntryKind
<1>3. CASE Return(p)
  BY <1>1, <1>2, <1>3, StepEnds
<1>. DEFINE g == RollbackTo(frame[p], s, 0)
            f == [g EXCEPT !.job = "kill"]
<1>4. CASE Become(p, f)
  <2>1. g \in FrameType /\ g.pc = "collect"
    BY CollectType DEF TypeInv, TypeOK
  <2>. HIDE DEF g
  <2>2. f \in FrameType /\ f.pc = "collect"
    BY <2>1 DEF FrameType, Job, Command
  <2>. HIDE DEF f
  <2>. QED
    BY <1>1, <1>2, <1>4, <2>2, StepIdle
<1>. QED
  BY <1>3, <1>4 DEF KillSession

(* A global kill or resume: its frame names a label and the job. *)
LEMMA GlobalFrame ==
    ASSUME TypeInv, NEW p \in Proc, LedgerStep, RestTyped,
           NEW l \in {"log_halt", "unlink", "log_resume"}, NEW j \in {"kill", "resume"},
           Become(p, [frame[p] EXCEPT !.pc = l, !.job = j])
    PROVE  TypeInv'
<1>. DEFINE f == [frame[p] EXCEPT !.pc = l, !.job = j]
<1>1. f \in FrameType /\ f.pc = l
  <2>1. l \in Label /\ j \in Job /\ frame[p] \in FrameType
    BY DEF TypeInv, TypeOK, Label, Job, Command
  <2>. QED
    BY <2>1 DEF FrameType
<1>2. Become(p, f)
  OBVIOUS
<1>. HIDE DEF f
<1>3. FrameOK(f, Len(ledger))
  BY <1>1 DEF FrameOK, NoAction
<1>. QED
  BY <1>1, <1>2, <1>3, StepFrame

(* The KILL file is written; TypeInv is preserved. *)
LEMMA KillAllType ==
    ASSUME TypeInv, NEW p \in Proc, KillAll(p)
    PROVE  TypeInv'
<1>1. LedgerStep /\ RestTyped
  BY SpendType DEF KillAll, Event, Command, TypeInv, TypeOK, LedgerStep, RestTyped
<1>. QED
  BY <1>1, GlobalFrame DEF KillAll

(* The global halt is logged; TypeInv is preserved. *)
LEMMA LogGlobalHaltType ==
    ASSUME TypeInv, NEW p \in Proc, LogGlobalHalt(p)
    PROVE  TypeInv'
<1>1. RestTyped
  BY RestUnchanged DEF LogGlobalHalt, TypeInv
<1>2. LedgerStep
  BY LogStep DEF LogGlobalHalt, EntryKind
<1>. QED
  BY <1>1, <1>2, StepEnds DEF LogGlobalHalt

(* A session is resumed; TypeInv is preserved. *)
LEMMA ResumeSessionType ==
    ASSUME TypeInv, NEW p \in Proc, NEW s \in Session, ResumeSession(p, s)
    PROVE  TypeInv'
<1>1. RestTyped
  BY SpendType DEF ResumeSession, Event, Command, TypeInv, TypeOK, RestTyped
<1>2. LedgerStep
  BY LogStep DEF ResumeSession, EntryKind
<1>3. Become(p, frame[p]) /\ FrameOK(frame[p], Len(ledger)) /\ frame[p] \in FrameType
  BY DEF ResumeSession, Become, TypeInv, TypeOK
<1>. QED
  BY <1>1, <1>2, <1>3, StepFrame

(* The KILL file is looked for; TypeInv is preserved. *)
LEMMA ResumeAllType ==
    ASSUME TypeInv, NEW p \in Proc, ResumeAll(p)
    PROVE  TypeInv'
<1>1. LedgerStep /\ RestTyped
  BY SpendType DEF ResumeAll, Event, Command, TypeInv, TypeOK, LedgerStep, RestTyped
<1>. QED
  BY <1>1, GlobalFrame DEF ResumeAll

(* The KILL file is unlinked; TypeInv is preserved. *)
LEMMA UnlinkKillFileType ==
    ASSUME TypeInv, NEW p \in Proc, UnlinkKillFile(p)
    PROVE  TypeInv'
<1>1. LedgerStep /\ RestTyped
  BY DEF UnlinkKillFile, TypeInv, TypeOK, LedgerStep, RestTyped
<1>2. Goto(p, "log_resume") \/ Raise(p)
  BY DEF UnlinkKillFile
<1>3. "log_resume" \in Label /\ "log_resume" \in NoAction
  BY DEF Label, NoAction
<1>. QED
  BY <1>1, <1>2, <1>3, StepGoes, StepEnds

(* The global resume is logged; TypeInv is preserved. *)
LEMMA LogGlobalResumeType ==
    ASSUME TypeInv, NEW p \in Proc, LogGlobalResume(p)
    PROVE  TypeInv'
<1>1. RestTyped
  BY RestUnchanged DEF LogGlobalResume, TypeInv
<1>2. LedgerStep
  BY LogStep DEF LogGlobalResume, EntryKind
<1>. QED
  BY <1>1, <1>2, StepEnds DEF LogGlobalResume

-----------------------------------------------------------------------------
(* The environment *)

(* An outsider writes; TypeInv is preserved. *)
LEMMA OutsideWriteType ==
    ASSUME TypeInv, NEW r \in Resource, NEW v \in Ambient, OutsideWrite(r, v)
    PROVE  TypeInv'
<1>1. budget' \in [Event -> Nat]
  BY SpendType DEF OutsideWrite, Event, TypeInv
<1>2. world' \in [Resource -> Value]
  BY GatewayAssumption DEF OutsideWrite, TypeInv, TypeOK
<1>. QED
  BY <1>1, <1>2 DEF OutsideWrite, TypeInv, TypeOK

(* The host restarts; TypeInv is preserved. *)
LEMMA CrashType ==
    ASSUME TypeInv, Crash
    PROVE  TypeInv'
<1>1. budget' \in [Event -> Nat]
  BY SpendType DEF Crash, Event, TypeInv
<1>2. IdleFrame(None, 0) \in FrameType /\ FrameOK(IdleFrame(None, 0), Len(ledger))
  BY IdleFrameType DEF FrameOK, NoAction
<1>3. stats' \in [Session -> Stats]
  BY DEF Crash, Stats, NoStats
<1>. QED
  BY <1>1, <1>2, <1>3 DEF Crash, TypeInv, TypeOK

-----------------------------------------------------------------------------
(* TypeInv holds at the start. *)
LEMMA TypeInit == Init => TypeInv
<1>1. IdleFrame(None, 0) \in FrameType /\ FrameOK(IdleFrame(None, 0), 0)
  BY IdleFrameType DEF FrameOK, NoAction
<1>2. [s \in Session |-> NoStats] \in [Session -> Stats]
  BY DEF NoStats, Stats
<1>. SUFFICES ASSUME Init PROVE TypeInv
  OBVIOUS
<1>3. ledger \in Seq(EntryType) /\ Len(ledger) = 0 /\ DOMAIN ledger = {}
  BY DEF Init
<1>4. frame \in [Proc -> FrameType] /\ \A p \in Proc : FrameOK(frame[p], 0)
  BY <1>1 DEF Init
<1>5. world \in [Resource -> Value] /\ budget \in [Event -> Nat]
  BY GatewayAssumption DEF Init
<1>. QED
  BY <1>2, <1>3, <1>4, <1>5 DEF Init, TypeInv, TypeOK

(* A method is cut short; TypeInv is preserved. *)
LEMMA InterruptedType ==
    ASSUME TypeInv, NEW p \in Proc, Interrupted(p)
    PROVE  TypeInv'
<1>1. LedgerStep /\ RestTyped
  BY SpendType DEF Interrupted, Event, TypeInv, TypeOK, LedgerStep, RestTyped
<1>2. CASE Raise(p)
  BY <1>1, <1>2, StepEnds
<1>3. CASE frame[p].pc \in {"undo", "undone", "undo_failed"} /\ UndoEnds(p, "failed")
  <2>1. frame[p].act \in Action
    BY <1>3, InHand DEF NoAction
  <2>. QED
    BY <1>1, <1>3, <2>1, StepUndoEnds
<1>. QED
  BY <1>2, <1>3 DEF Interrupted

(* Every step preserves TypeInv: one lemma per action above. *)
LEMMA TypeNext == TypeInv /\ [Next]_vars => TypeInv'
<1>. SUFFICES ASSUME TypeInv, [Next]_vars PROVE TypeInv'
  OBVIOUS
<1>1. ASSUME NEW p \in Proc, Begin(p) PROVE TypeInv'
  BY <1>1, CallType, ReleaseType, DiscardType, UndoType, RollbackType, BeginBatchType,
     KillSessionType, ResumeSessionType, EndBatchType, KillAllType, ResumeAllType DEF Begin
<1>2. ASSUME NEW p \in Proc, Continue(p) PROVE TypeInv'
  BY <1>2, EnsureRunningType, DecideVerdictType, ReadType, ProposeType, DenyByPolicyType,
     SimulateType, EscalateToApprovalType, ApproveType, RejectType, ApproverRaisesType, HoldType,
     TakeSnapshotType, PrepareType, RunType, LogFailedType, ObserveType, CommitType, AccountType,
     DeviateType, HaltOnDeviationType, CheckKillFileType, LogReleasedType, LogDiscardedType,
     LoadForUndoType, CheckConflictType, ApplyInverseType, LogUndoneType, LogUndoFailedType,
     CollectActionsType, UndoNextType, LogRollbackType, LogGlobalHaltType, UnlinkKillFileType,
     InterruptedType,
     LogGlobalResumeType DEF Continue
<1>3. CASE Environment
  BY <1>3, OutsideWriteType, CrashType DEF Environment
<1>4. CASE UNCHANGED vars
  BY <1>4 DEF vars, TypeInv, TypeOK
<1>. QED
  BY <1>1, <1>2, <1>3, <1>4 DEF Next

(* TypeInv is an invariant of the gateway. *)
LEMMA TypeInvariant == Spec => []TypeInv
BY TypeInit, TypeNext, PTL DEF Spec

(* Every variable keeps its type, for any number of processes, actions,    *)
(* sessions and resources, any policy and any operations (core.py).        *)
THEOREM TypeCorrect == Spec => []TypeOK
<1>1. TypeInv => TypeOK
  BY DEF TypeInv
<1>. QED
  BY <1>1, TypeInvariant, PTL

(***************************************************************************)
(* Write-ahead, the table of steps, and the kill switch.                   *)
(***************************************************************************)
(* Labels at which a frame relies on the ledger. *)
Critical == {"prepare", "run", "observe", "commit", "check", "inverse"}

FrameLogged(log, f) ==
    /\ f.pc = "prepare" /\ f.reg # None => Accounted(log, Op[f.act].res, f.reg)
    /\ f.pc \in Critical \ {"prepare"} => Has(log, f.act, "prepared")

EntryLogged(log, e) ==
    /\ e.kind = "prepared" /\ e.val # None => Accounted(log, Op[e.act].res, e.val)
    /\ e.kind = "committed" => Has(log, e.act, "prepared")

LoggedInv ==
    /\ EffectsAreLogged
    /\ \A i \in DOMAIN ledger : EntryLogged(ledger, ledger[i])
    /\ \A p \in Proc : FrameLogged(ledger, frame[p])

-----------------------------------------------------------------------------
(* The ledger only grows, and what it shows it keeps showing. *)

Extended ==
    /\ ledger \in Seq(EntryType) /\ ledger' \in Seq(EntryType)
    /\ \A i \in DOMAIN ledger : i \in DOMAIN ledger' /\ ledger'[i] = ledger[i]

(* A ledger that stays or has an entry appended is extended. *)
LEMMA ExtendedByStep ==
    ASSUME TypeInv, TypeInv', ledger' = ledger \/ \E e : Log(e)
    PROVE  Extended
<1>1. ledger \in Seq(EntryType) /\ ledger' \in Seq(EntryType)
  BY DEF TypeInv, TypeOK
<1>2. CASE ledger' = ledger
  BY <1>1, <1>2 DEF Extended
<1>3. CASE \E e : Log(e)
  <2>1. PICK e : ledger' = Append(ledger, e)
    BY <1>3 DEF Log
  <2>2. ledger \in Seq(EntryType \cup {e}) /\ e \in EntryType \cup {e}
    BY <1>1
  <2>. QED
    BY <1>1, <2>1, <2>2, AppendEntry DEF Extended
<1>. QED
  BY <1>2, <1>3

(* An entry once there stays there. *)
LEMMA HasKept ==
    ASSUME Extended, NEW a, NEW kind, Has(ledger, a, kind)
    PROVE  Has(ledger', a, kind)
BY DEF Extended, Has, Positions

(* A value once accounted for stays so. *)
LEMMA AccountedKept ==
    ASSUME Extended, NEW r, NEW v, Accounted(ledger, r, v)
    PROVE  Accounted(ledger', r, v)
BY DEF Extended, Accounted

(* What a frame relies on stays in the ledger. *)
LEMMA FrameKept ==
    ASSUME Extended, NEW f, FrameLogged(ledger, f)
    PROVE  FrameLogged(ledger', f)
BY HasKept, AccountedKept DEF FrameLogged

(* What an entry relies on stays in the ledger. *)
LEMMA EntryKept ==
    ASSUME Extended, NEW e, EntryLogged(ledger, e)
    PROVE  EntryLogged(ledger', e)
BY HasKept, AccountedKept DEF EntryLogged

(* A value an action may leave is accounted for once it is prepared. *)
LEMMA PreparedAccounts ==
    ASSUME NEW a, Has(ledger, a, "prepared"),
           NEW v \in Op[a].effects \cup {Op[a].inverse}
    PROVE  Accounted(ledger, Op[a].res, v)
BY DEF Has, Positions, Accounted

-----------------------------------------------------------------------------
(* Steps *)

Same(p) == \A q \in Proc \ {p} : frame'[q] = frame[q]
NewPos == DOMAIN ledger' \ DOMAIN ledger

(* What a step of p must show, the new state being well typed. *)
LEMMA LoggedStep ==
    ASSUME LoggedInv, Extended, NEW p \in Proc, Same(p),
           FrameLogged(ledger', frame'[p]),
           \A i \in NewPos : EntryLogged(ledger', ledger'[i]),
           \A r \in Resource : Accounted(ledger', r, world'[r])
    PROVE  LoggedInv'
<1>1. ASSUME NEW i \in DOMAIN ledger' PROVE EntryLogged(ledger', ledger'[i])
  <2>1. CASE i \in DOMAIN ledger
    <3>1. EntryLogged(ledger, ledger[i]) /\ ledger'[i] = ledger[i]
      BY <2>1 DEF LoggedInv, Extended
    <3>. QED
      BY <3>1, EntryKept
  <2>. QED
    BY <2>1 DEF NewPos
<1>2. ASSUME NEW q \in Proc PROVE FrameLogged(ledger', frame'[q])
  <2>1. CASE q # p
    <3>1. FrameLogged(ledger, frame[q]) /\ frame'[q] = frame[q]
      BY <2>1 DEF LoggedInv, Same
    <3>. QED
      BY <3>1, FrameKept
  <2>. QED
    BY <2>1
<1>. QED
  BY <1>1, <1>2 DEF LoggedInv, EffectsAreLogged

(* A world that does not change stays accounted for. *)
LEMMA WorldKept ==
    ASSUME LoggedInv, Extended, world' = world
    PROVE  \A r \in Resource : Accounted(ledger', r, world'[r])
BY AccountedKept DEF LoggedInv, EffectsAreLogged

(* Appending e adds the position of e and no other. *)
LEMMA NewEntry ==
    ASSUME TypeInv, NEW e, Log(e)
    PROVE  /\ \A i \in NewPos : ledger'[i] = e
           /\ \E i \in DOMAIN ledger' : ledger'[i] = e
<1>1. ledger \in Seq(EntryType \cup {e}) /\ e \in EntryType \cup {e}
  BY DEF TypeInv, TypeOK
<1>. QED
  BY <1>1, AppendEntry DEF Log, NewPos

(* Steps that neither touch the world nor reach a critical label. *)
Away(p) == Same(p) /\ frame'[p].pc \notin Critical
Plain(e) == e.kind \notin {"prepared", "committed"}
PlainLog == ledger' = ledger \/ \E e : Plain(e) /\ Log(e)

(* A new entry that is neither prepared nor committed relies on nothing. *)
LEMMA PlainNewEntries ==
    ASSUME TypeInv, PlainLog
    PROVE  \A i \in NewPos : EntryLogged(ledger', ledger'[i])
<1>1. CASE ledger' = ledger
  BY <1>1 DEF NewPos
<1>2. CASE \E e : Plain(e) /\ Log(e)
  <2>1. PICK e : Plain(e) /\ Log(e)
    BY <1>2
  <2>2. \A i \in NewPos : ledger'[i] = e
    BY <2>1, NewEntry
  <2>. QED
    BY <2>1, <2>2 DEF EntryLogged, Plain
<1>. QED
  BY <1>1, <1>2 DEF PlainLog

(* A step that touches no resource and leaves its process off the critical *)
(* labels preserves LoggedInv.                                             *)
LEMMA QuietStep ==
    ASSUME TypeInv, TypeInv', LoggedInv, NEW p \in Proc, Away(p), PlainLog, world' = world
    PROVE  LoggedInv'
<1>1. Extended
  BY ExtendedByStep DEF PlainLog
<1>2. \A r \in Resource : Accounted(ledger', r, world'[r])
  BY <1>1, WorldKept
<1>3. FrameLogged(ledger', frame'[p])
  BY DEF Away, FrameLogged, Critical
<1>. QED
  BY <1>1, <1>2, <1>3, PlainNewEntries, LoggedStep DEF Away

(* How a frame moves away. *)
LEMMA AwayByFrame ==
    ASSUME TypeInv, NEW p \in Proc, NEW f, f.pc \notin Critical, Become(p, f)
    PROVE  Away(p)
BY DEF TypeInv, TypeOK, Become, Away, Same

(* By a jump, *)
LEMMA AwayByGoto ==
    ASSUME TypeInv, NEW p \in Proc, NEW l, l \notin Critical, Goto(p, l)
    PROVE  Away(p)
<1>1. [frame[p] EXCEPT !.pc = l].pc = l
  BY DEF TypeInv, TypeOK, FrameType
<1>. QED
  BY <1>1, AwayByFrame DEF Goto

(* by the end of the method, *)
LEMMA AwayByReturn ==
    ASSUME TypeInv, NEW p \in Proc, Return(p) \/ Raise(p)
    PROVE  Away(p)
BY ReturnType, AwayByFrame DEF TypeInv, Critical

(* by the end of undo(). *)
LEMMA AwayByUndoEnds ==
    ASSUME TypeInv, NEW p \in Proc, frame[p].act \in Action, NEW outcome, UndoEnds(p, outcome)
    PROVE  Away(p)
BY UndoEndsType, AwayByFrame DEF TypeInv, Critical

(* Appending an entry about an action that is neither prepared nor committed. *)
LEMMA PlainByEntry ==
    ASSUME NEW kind, NEW a, NEW v, Log(Entry(kind, a, v)), kind \notin {"prepared", "committed"}
    PROVE  PlainLog
BY DEF PlainLog, Plain, Entry

(* Appending an entry about a session. *)
LEMMA PlainByMark ==
    ASSUME NEW kind, NEW s, Log(Mark(kind, s)), kind \notin {"prepared", "committed"}
    PROVE  PlainLog
BY DEF PlainLog, Plain, Mark

-----------------------------------------------------------------------------
(* The quiet actions *)

Quiet(p) == Away(p) /\ PlainLog /\ world' = world

(* Every command begins quietly: it appends at most a mark and runs nothing. *)
LEMMA QuietCommands ==
    ASSUME TypeInv, NEW p \in Proc, Begin(p)
    PROVE  Quiet(p)
<1>1. frame \in [Proc -> FrameType] /\ frame[p] \in FrameType
  BY DEF TypeInv, TypeOK
<1>2. ASSUME NEW a \in Action, Call(p, a) PROVE Quiet(p)
  <2>1. CASE killFile
    BY <1>2, <2>1, AwayByReturn DEF Call, Quiet, PlainLog
  <2>2. CASE ~killFile
    <3>. DEFINE f == [frame[p] EXCEPT !.pc = "ensure", !.job = "call", !.act = a]
    <3>1. f.pc = "ensure" /\ Become(p, f)
      BY <1>1, <1>2, <2>2 DEF Call, FrameType
    <3>. HIDE DEF f
    <3>2. Away(p)
      BY <3>1, AwayByFrame DEF Critical
    <3>. QED
      BY <1>2, <3>2 DEF Call, Quiet, PlainLog
  <2>. QED
    BY <2>1, <2>2
<1>3. ASSUME NEW a \in Action, Release(p, a) PROVE Quiet(p)
  <2>. DEFINE v == LET i == FirstPos(ledger, a, "simulated") IN IF i = 0 THEN None ELSE ledger[i].val
              f == [frame[p] EXCEPT !.pc = "gate", !.job = "release", !.act = a, !.predicted = v]
  <2>1. Become(p, f)
    BY <1>3 DEF Release
  <2>. HIDE DEF v
  <2>2. f.pc = "gate"
    BY <1>1 DEF FrameType
  <2>. HIDE DEF f
  <2>3. Away(p)
    BY <2>1, <2>2, AwayByFrame DEF Critical
  <2>. QED
    BY <1>3, <2>3 DEF Release, Quiet, PlainLog
<1>4. ASSUME NEW a \in Action, Discard(p, a) PROVE Quiet(p)
  <2>. DEFINE f == [frame[p] EXCEPT !.pc = "discard", !.job = "discard", !.act = a]
  <2>1. Become(p, f) /\ f.pc = "discard"
    BY <1>1, <1>4 DEF Discard, FrameType
  <2>. HIDE DEF f
  <2>2. Away(p)
    BY <2>1, AwayByFrame DEF Critical
  <2>. QED
    BY <1>4, <2>2 DEF Discard, Quiet, PlainLog
<1>5. ASSUME NEW a \in Action, NEW force \in BOOLEAN, Undo(p, a, force) PROVE Quiet(p)
  <2>. DEFINE f == [frame[p] EXCEPT !.pc = "undo", !.job = "undo", !.act = a, !.force = force]
  <2>1. Become(p, f) /\ f.pc = "undo"
    BY <1>1, <1>5 DEF Undo, FrameType
  <2>. HIDE DEF f
  <2>2. Away(p)
    BY <2>1, AwayByFrame DEF Critical
  <2>. QED
    BY <1>5, <2>2 DEF Undo, Quiet, PlainLog
<1>6. ASSUME NEW s \in Session, NEW to \in Checkpoints, NEW force \in BOOLEAN,
             Rollback(p, s, to, force)
      PROVE  Quiet(p)
  <2>. DEFINE f == [RollbackTo(frame[p], s, to) EXCEPT !.job = "rollback", !.force = force]
  <2>1. Become(p, f) /\ f.pc = "collect"
    BY <1>1, <1>6 DEF Rollback, RollbackTo, FrameType
  <2>. HIDE DEF f
  <2>2. Away(p)
    BY <2>1, AwayByFrame DEF Critical
  <2>. QED
    BY <1>6, <2>2 DEF Rollback, Quiet, PlainLog
<1>7. ASSUME NEW s \in Session, BeginBatch(p, s) PROVE Quiet(p)
  <2>1. IdleFrame(s, Len(ledger)).pc = "idle"
    BY DEF IdleFrame
  <2>2. Away(p)
    BY <1>7, <2>1, AwayByFrame DEF BeginBatch, Critical
  <2>. QED
    BY <1>7, <2>2 DEF BeginBatch, Quiet, PlainLog
<1>8. ASSUME NEW s \in Session, NEW rollback \in BOOLEAN, KillSession(p, s, rollback)
      PROVE  Quiet(p)
  <2>. DEFINE f == [RollbackTo(frame[p], s, 0) EXCEPT !.job = "kill"]
  <2>1. f.pc = "collect"
    BY <1>1 DEF RollbackTo, FrameType
  <2>2. Become(p, f) \/ Return(p)
    BY <1>8 DEF KillSession
  <2>. HIDE DEF f
  <2>3. Away(p)
    BY <2>1, <2>2, AwayByFrame, AwayByReturn DEF Critical
  <2>4. PlainLog
    BY <1>8, PlainByMark DEF KillSession
  <2>. QED
    BY <1>8, <2>3, <2>4 DEF KillSession, Quiet
<1>9. ASSUME NEW s \in Session, ResumeSession(p, s) PROVE Quiet(p)
  <2>1. frame' = frame /\ At(p, "idle")
    BY <1>9 DEF ResumeSession, Idle
  <2>2. Away(p)
    BY <2>1 DEF Away, Same, At, Critical
  <2>. QED
    BY <1>9, <2>2, PlainByMark DEF ResumeSession, Quiet
<1>10. CASE EndBatch(p)
  <2>1. IdleFrame(None, 0).pc = "idle"
    BY DEF IdleFrame
  <2>2. Away(p)
    BY <1>10, <2>1, AwayByFrame, AwayByReturn DEF EndBatch, Critical
  <2>. QED
    BY <1>10, <2>2 DEF EndBatch, Quiet, PlainLog
<1>11. CASE KillAll(p)
  <2>. DEFINE f == [frame[p] EXCEPT !.pc = "log_halt", !.job = "kill"]
  <2>1. Become(p, f) /\ f.pc = "log_halt"
    BY <1>1, <1>11 DEF KillAll, FrameType
  <2>. HIDE DEF f
  <2>2. Away(p)
    BY <2>1, AwayByFrame DEF Critical
  <2>. QED
    BY <1>11, <2>2 DEF KillAll, Quiet, PlainLog
<1>12. CASE ResumeAll(p)
  <2>. DEFINE l == IF killFile THEN "unlink" ELSE "log_resume"
              f == [frame[p] EXCEPT !.pc = l, !.job = "resume"]
  <2>1. Become(p, f)
    BY <1>12 DEF ResumeAll
  <2>2. f.pc = l /\ l \notin Critical
    BY <1>1 DEF FrameType, Critical
  <2>. HIDE DEF f, l
  <2>3. Away(p)
    BY <2>1, <2>2, AwayByFrame
  <2>. QED
    BY <1>12, <2>3 DEF ResumeAll, Quiet, PlainLog
<1>. QED
  BY <1>2, <1>3, <1>4, <1>5, <1>6, <1>7, <1>8, <1>9, <1>10, <1>11, <1>12 DEF Begin

(* The steps at which the world changes, or a frame comes to rely on the   *)
(* ledger; the others are quiet.                                           *)
WorldStep(p) ==
    \/ TakeSnapshot(p) \/ Prepare(p) \/ Run(p) \/ Observe(p) \/ Commit(p)
    \/ LoadForUndo(p) \/ CheckConflict(p) \/ ApplyInverse(p)

(* Every other step of a method is quiet. *)
LEMMA QuietContinue ==
    ASSUME TypeInv, NEW p \in Proc, Continue(p), ~WorldStep(p)
    PROVE  Quiet(p)
<1>1. frame \in [Proc -> FrameType] /\ frame[p] \in FrameType
  BY DEF TypeInv, TypeOK
<1>2. CASE EnsureRunning(p)
  <2>1. Goto(p, "decide") \/ Goto(p, "release") \/ Return(p) \/ Raise(p)
    BY <1>2 DEF EnsureRunning
  <2>2. Away(p)
    BY <2>1, AwayByGoto, AwayByReturn DEF Critical
  <2>3. PlainLog
    BY <1>2 DEF EnsureRunning, PlainLog
  <2>. QED
    BY <1>2, <2>2, <2>3 DEF EnsureRunning, Quiet
<1>3. CASE DecideVerdict(p)
  <2>. DEFINE o == Op[frame[p].act]
              v == Decide(policy, o, stats[o.ses])
              l == IF o.risk = READ /\ v = "allow" THEN "read" ELSE "propose"
              f == [frame[p] EXCEPT !.verdict = v, !.pc = l]
  <2>1. Become(p, f)
    BY <1>3 DEF DecideVerdict
  <2>2. l \notin Critical
    BY DEF Critical
  <2>. HIDE DEF v, l
  <2>3. f.pc = l
    BY <1>1 DEF FrameType
  <2>. HIDE DEF f
  <2>4. Away(p)
    BY <2>1, <2>2, <2>3, AwayByFrame
  <2>. QED
    BY <1>3, <2>4 DEF DecideVerdict, Quiet, PlainLog
<1>4. CASE Read(p)
  <2>1. Away(p)
    BY <1>4, AwayByReturn DEF Read
  <2>2. PlainLog
    <3>1. ledger' = ledger \/ Log(Entry("read", frame[p].act, None))
      BY <1>4 DEF Read
    <3>. QED
      BY <3>1, PlainByEntry DEF PlainLog
  <2>. QED
    BY <1>4, <2>1, <2>2 DEF Read, Quiet
<1>5. CASE Propose(p)
  <2>1. Goto(p, "deny") \/ Goto(p, "snapshot") \/ Goto(p, "simulate")
    BY <1>5 DEF Propose
  <2>2. Away(p)
    BY <2>1, AwayByGoto DEF Critical
  <2>3. PlainLog
    BY <1>5, PlainByEntry DEF Propose
  <2>. QED
    BY <1>5, <2>2, <2>3 DEF Propose, Quiet
<1>6. CASE DenyByPolicy(p)
  <2>1. Away(p)
    BY <1>6, AwayByReturn DEF DenyByPolicy
  <2>2. PlainLog
    BY <1>6, PlainByEntry DEF DenyByPolicy
  <2>. QED
    BY <1>6, <2>1, <2>2 DEF DenyByPolicy, Quiet
<1>7. CASE Simulate(p)
  <2>. DEFINE f(v, l) == [frame[p] EXCEPT !.predicted = v, !.pc = l]
  <2>1. \E v : \E l \in {"authorize", "escalate", "snapshot"} : Become(p, f(v, l))
    BY <1>7 DEF Simulate, AfterSimulation
  <2>2. \A v, l : f(v, l).pc = l
    BY <1>1 DEF FrameType
  <2>. HIDE DEF f
  <2>3. Away(p)
    BY <2>1, <2>2, AwayByFrame DEF Critical
  <2>4. PlainLog
    BY <1>7, PlainByEntry DEF Simulate
  <2>. QED
    BY <1>7, <2>3, <2>4 DEF Simulate, Quiet
<1>8. CASE EscalateToApproval(p)
  <2>. DEFINE f == [frame[p] EXCEPT !.verdict = "approve", !.pc = "authorize"]
  <2>1. Become(p, f) /\ f.pc = "authorize"
    BY <1>1, <1>8 DEF EscalateToApproval, FrameType
  <2>. HIDE DEF f
  <2>2. Away(p)
    BY <2>1, AwayByFrame DEF Critical
  <2>3. PlainLog
    BY <1>8, PlainByEntry DEF EscalateToApproval
  <2>. QED
    BY <1>8, <2>2, <2>3 DEF EscalateToApproval, Quiet
<1>9. CASE Approve(p)
  <2>1. Goto(p, "snapshot")
    BY <1>9 DEF Approve
  <2>2. Away(p)
    BY <2>1, AwayByGoto DEF Critical
  <2>3. PlainLog
    BY <1>9, PlainByEntry DEF Approve
  <2>. QED
    BY <1>9, <2>2, <2>3 DEF Approve, Quiet
<1>10. CASE Reject(p)
  <2>1. Away(p)
    BY <1>10, AwayByReturn DEF Reject
  <2>2. PlainLog
    BY <1>10, PlainByEntry DEF Reject
  <2>. QED
    BY <1>10, <2>1, <2>2 DEF Reject, Quiet
<1>11. CASE ApproverRaises(p)
  BY <1>11, AwayByReturn DEF ApproverRaises, Quiet, PlainLog
<1>12. CASE Hold(p)
  <2>1. Away(p)
    BY <1>12, AwayByReturn DEF Hold
  <2>2. PlainLog
    BY <1>12, PlainByEntry DEF Hold
  <2>. QED
    BY <1>12, <2>1, <2>2 DEF Hold, Quiet
<1>13. CASE LogFailed(p)
  <2>1. Away(p)
    BY <1>13, AwayByReturn DEF LogFailed
  <2>2. PlainLog
    BY <1>13, PlainByEntry DEF LogFailed
  <2>. QED
    BY <1>13, <2>1, <2>2 DEF LogFailed, Quiet
<1>14. CASE Account(p)
  <2>1. Goto(p, "deviate") \/ Return(p) \/ Raise(p)
    BY <1>14 DEF Account
  <2>2. Away(p)
    BY <2>1, AwayByGoto, AwayByReturn DEF Critical
  <2>3. PlainLog
    BY <1>14 DEF Account, PlainLog
  <2>. QED
    BY <1>14, <2>2, <2>3 DEF Account, Quiet
<1>15. CASE Deviate(p)
  <2>1. Goto(p, "undo") \/ Goto(p, "halt") \/ Return(p) \/ Raise(p)
    BY <1>15 DEF Deviate
  <2>2. Away(p)
    BY <2>1, AwayByGoto, AwayByReturn DEF Critical
  <2>3. PlainLog
    BY <1>15, PlainByEntry DEF Deviate
  <2>. QED
    BY <1>15, <2>2, <2>3 DEF Deviate, Quiet
<1>16. CASE HaltOnDeviation(p)
  <2>. DEFINE f == RollbackTo(frame[p], Op[frame[p].act].ses, 0)
  <2>1. Become(p, f) \/ Raise(p)
    BY <1>16 DEF HaltOnDeviation
  <2>2. f.pc = "collect"
    BY <1>1 DEF RollbackTo, FrameType
  <2>. HIDE DEF f
  <2>3. Away(p)
    BY <2>1, <2>2, AwayByFrame, AwayByReturn DEF Critical
  <2>4. PlainLog
    BY <1>16, PlainByMark DEF HaltOnDeviation
  <2>. QED
    BY <1>16, <2>3, <2>4 DEF HaltOnDeviation, Quiet
<1>17. CASE CheckKillFile(p)
  <2>1. Goto(p, "ensure") \/ Return(p) \/ Raise(p)
    BY <1>17 DEF CheckKillFile
  <2>2. Away(p)
    BY <2>1, AwayByGoto, AwayByReturn DEF Critical
  <2>3. PlainLog
    BY <1>17 DEF CheckKillFile, PlainLog
  <2>. QED
    BY <1>17, <2>2, <2>3 DEF CheckKillFile, Quiet
<1>18. CASE LogReleased(p)
  <2>1. Goto(p, "snapshot")
    BY <1>18 DEF LogReleased
  <2>2. Away(p)
    BY <2>1, AwayByGoto DEF Critical
  <2>3. PlainLog
    BY <1>18, PlainByEntry DEF LogReleased
  <2>. QED
    BY <1>18, <2>2, <2>3 DEF LogReleased, Quiet
<1>19. CASE LogDiscarded(p)
  <2>1. Away(p)
    BY <1>19, AwayByReturn DEF LogDiscarded
  <2>2. PlainLog
    BY <1>19, PlainByEntry DEF LogDiscarded
  <2>. QED
    BY <1>19, <2>1, <2>2 DEF LogDiscarded, Quiet
<1>20. CASE LogUndone(p)
  <2>1. frame[p].act \in Action
    BY <1>20, InHand DEF LogUndone, At, NoAction
  <2>2. Away(p)
    BY <1>20, <2>1, AwayByUndoEnds DEF LogUndone
  <2>3. PlainLog
    BY <1>20, PlainByEntry DEF LogUndone
  <2>. QED
    BY <1>20, <2>2, <2>3 DEF LogUndone, Quiet
<1>21. CASE LogUndoFailed(p)
  <2>1. frame[p].act \in Action
    BY <1>21, InHand DEF LogUndoFailed, At, NoAction
  <2>2. Away(p)
    BY <1>21, <2>1, AwayByUndoEnds DEF LogUndoFailed
  <2>3. PlainLog
    BY <1>21, PlainByEntry DEF LogUndoFailed
  <2>. QED
    BY <1>21, <2>2, <2>3 DEF LogUndoFailed, Quiet
<1>22. CASE CollectActions(p)
  <2>. DEFINE T == ToUndo(frame[p].ses, frame[p].to)
              f == [frame[p] EXCEPT !.pc = "next", !.act = None, !.reg = None, !.todo = T]
  <2>1. Become(p, f)
    BY <1>22 DEF CollectActions
  <2>. HIDE DEF T
  <2>2. f.pc = "next"
    BY <1>1 DEF FrameType
  <2>. HIDE DEF f
  <2>3. Away(p)
    BY <2>1, <2>2, AwayByFrame DEF Critical
  <2>. QED
    BY <1>22, <2>3 DEF CollectActions, Quiet, PlainLog
<1>23. CASE UndoNext(p)
  <2>. DEFINE f(a) == [frame[p] EXCEPT !.pc = "undo", !.act = a, !.todo = @ \ {a}]
  <2>1. \E a : Become(p, f(a))
    BY <1>23 DEF UndoNext
  <2>2. \A a : f(a).pc = "undo"
    BY <1>1 DEF FrameType
  <2>. HIDE DEF f
  <2>3. Away(p)
    BY <2>1, <2>2, AwayByFrame DEF Critical
  <2>. QED
    BY <1>23, <2>3 DEF UndoNext, Quiet, PlainLog
<1>24. CASE LogRollback(p)
  <2>1. Away(p)
    BY <1>24, AwayByReturn DEF LogRollback
  <2>2. PlainLog
    BY <1>24, PlainByMark DEF LogRollback
  <2>. QED
    BY <1>24, <2>1, <2>2 DEF LogRollback, Quiet
<1>25. CASE LogGlobalHalt(p)
  <2>1. Away(p)
    BY <1>25, AwayByReturn DEF LogGlobalHalt
  <2>2. PlainLog
    BY <1>25, PlainByMark DEF LogGlobalHalt
  <2>. QED
    BY <1>25, <2>1, <2>2 DEF LogGlobalHalt, Quiet
<1>26. CASE UnlinkKillFile(p)
  <2>1. Goto(p, "log_resume") \/ Return(p) \/ Raise(p)
    BY <1>26 DEF UnlinkKillFile
  <2>2. Away(p)
    BY <2>1, AwayByGoto, AwayByReturn DEF Critical
  <2>3. PlainLog
    BY <1>26 DEF UnlinkKillFile, PlainLog
  <2>. QED
    BY <1>26, <2>2, <2>3 DEF UnlinkKillFile, Quiet
<1>27. CASE LogGlobalResume(p)
  <2>1. Away(p)
    BY <1>27, AwayByReturn DEF LogGlobalResume
  <2>2. PlainLog
    BY <1>27, PlainByMark DEF LogGlobalResume
  <2>. QED
    BY <1>27, <2>1, <2>2 DEF LogGlobalResume, Quiet
<1>28. CASE Interrupted(p)
  <2>1. frame[p].pc \in {"undo", "undone", "undo_failed"} => frame[p].act \in Action
    BY InHand DEF NoAction
  <2>2. Away(p)
    BY <1>28, <2>1, AwayByReturn, AwayByUndoEnds DEF Interrupted
  <2>. QED
    BY <1>28, <2>2 DEF Interrupted, Quiet, PlainLog
<1>. QED
  BY <1>2, <1>3, <1>4, <1>5, <1>6, <1>7, <1>8, <1>9, <1>10, <1>11, <1>12, <1>13, 
     <1>14, <1>15, <1>16, <1>17, <1>18, <1>19, <1>20, <1>21, <1>22, <1>23, <1>24, 
     <1>25, <1>26, <1>27, <1>28 DEF Continue, WorldStep

-----------------------------------------------------------------------------
(* The steps that change the world or come to rely on the ledger *)

(* p's frame is f, and every other frame is as it was. *)
LEMMA FrameIs ==
    ASSUME TypeInv, NEW p \in Proc, NEW f, Become(p, f)
    PROVE  frame'[p] = f /\ Same(p)
BY DEF TypeInv, TypeOK, Become, Same

(* A jump changes the label of the process and nothing else of it. *)
LEMMA GotoIs ==
    ASSUME TypeInv, NEW p \in Proc, NEW l, Goto(p, l)
    PROVE  /\ Same(p) /\ frame'[p].pc = l
           /\ frame'[p].act = frame[p].act /\ frame'[p].reg = frame[p].reg
<1>. DEFINE f == [frame[p] EXCEPT !.pc = l]
<1>1. f.pc = l /\ f.act = frame[p].act /\ f.reg = frame[p].reg
  BY DEF TypeInv, TypeOK, FrameType
<1>2. Become(p, f)
  BY DEF Goto
<1>. HIDE DEF f
<1>. QED
  BY <1>1, <1>2, FrameIs

(* Two ways to keep the invariant without a new entry. *)
LEMMA UnloggedStep ==
    ASSUME TypeInv, TypeInv', LoggedInv, ledger' = ledger, NEW p \in Proc, Same(p),
           FrameLogged(ledger, frame'[p]),
           \A r \in Resource : Accounted(ledger, r, world'[r])
    PROVE  LoggedInv'
<1>1. Extended /\ NewPos = {}
  BY ExtendedByStep DEF NewPos
<1>. QED
  BY <1>1, LoggedStep

(* The world is accounted for. *)
LEMMA WorldAccounted ==
    ASSUME LoggedInv
    PROVE  \A r \in Resource : Accounted(ledger, r, world[r])
BY DEF LoggedInv, EffectsAreLogged

(* The present state of an action's resource is accounted for. *)
LEMMA StateAccounted ==
    ASSUME LoggedInv, NEW a \in Action
    PROVE  Accounted(ledger, Op[a].res, StateOf(a))
BY GatewayAssumption DEF LoggedInv, EffectsAreLogged, StateOf, OpType

(* An accounted value of a's resource may be put into the world. *)
LEMMA SetAccounted ==
    ASSUME TypeInv, LoggedInv, NEW a \in Action, NEW v, Accounted(ledger, Op[a].res, v),
           SetState(a, v)
    PROVE  \A r \in Resource : Accounted(ledger, r, world'[r])
<1>. TAKE r \in Resource
<1>1. CASE r = Op[a].res
  BY <1>1 DEF SetState, TypeInv, TypeOK
<1>2. CASE r # Op[a].res
  <2>1. world'[r] = world[r]
    BY <1>2 DEF SetState, TypeInv, TypeOK
  <2>. QED
    BY <2>1, WorldAccounted
<1>. QED
  BY <1>1, <1>2

(* The snapshot is a state of the world, so it is accounted for. *)
LEMMA TakeSnapshotLogged ==
    ASSUME TypeInv, TypeInv', LoggedInv, NEW p \in Proc, TakeSnapshot(p)
    PROVE  LoggedInv'
<1>. DEFINE a == frame[p].act
            v == IF Op[a].snapshot THEN StateOf(a) ELSE None
            f == [frame[p] EXCEPT !.pc = "prepare", !.reg = v]
<1>1. a \in Action /\ frame[p] \in FrameType
  BY InHand DEF TakeSnapshot, At, NoAction
<1>2. CASE Become(p, f) /\ ledger' = ledger
  <2>1. v # None => Accounted(ledger, Op[a].res, v)
    BY <1>1, StateAccounted
  <2>. HIDE DEF v
  <2>2. f.pc = "prepare" /\ f.act = a /\ f.reg = v
    BY <1>1 DEF FrameType
  <2>. HIDE DEF f
  <2>3. frame'[p] = f /\ Same(p)
    BY <1>2, FrameIs
  <2>4. FrameLogged(ledger, f)
    BY <2>1, <2>2 DEF FrameLogged, Critical
  <2>5. world' = world
    BY DEF TakeSnapshot
  <2>. QED
    BY <1>2, <2>3, <2>4, <2>5, UnloggedStep, WorldAccounted
<1>3. CASE Log(Entry("failed", a, None)) /\ Raise(p)
  <2>1. Away(p) /\ PlainLog
    BY <1>3, AwayByReturn, PlainByEntry
  <2>. QED
    BY <2>1, QuietStep DEF TakeSnapshot
<1>. QED
  BY <1>2, <1>3 DEF TakeSnapshot

(* The prepared entry carries the snapshot; from here on the action has one. *)
LEMMA PrepareLogged ==
    ASSUME TypeInv, TypeInv', LoggedInv, NEW p \in Proc, Prepare(p)
    PROVE  LoggedInv'
<1>. DEFINE a == frame[p].act
            e == Entry("prepared", a, frame[p].reg)
<1>1. Log(e) /\ world' = world
  BY DEF Prepare
<1>2. Extended
  BY <1>1, ExtendedByStep
<1>3. Same(p) /\ frame'[p].pc = "run" /\ frame'[p].act = a
  BY GotoIs DEF Prepare
<1>4. e.kind = "prepared" /\ e.act = a /\ e.val = frame[p].reg
  BY DEF Entry
<1>5. frame[p].reg # None => Accounted(ledger, Op[a].res, frame[p].reg)
  BY DEF Prepare, At, LoggedInv, FrameLogged
<1>. HIDE DEF e
<1>6. EntryLogged(ledger', e)
  BY <1>2, <1>4, <1>5, AccountedKept DEF EntryLogged
<1>7. \A i \in NewPos : EntryLogged(ledger', ledger'[i])
  BY <1>1, <1>6, NewEntry
<1>8. Has(ledger', a, "prepared")
  <2>1. \E i \in DOMAIN ledger' : ledger'[i] = e
    BY <1>1, NewEntry
  <2>. QED
    BY <1>4, <2>1 DEF Has, Positions
<1>9. FrameLogged(ledger', frame'[p])
  BY <1>3, <1>8 DEF FrameLogged
<1>. QED
  BY <1>1, <1>2, <1>3, <1>7, <1>9, LoggedStep, WorldKept

(* What the operation leaves is an effect of a prepared action. *)
LEMMA RunLogged ==
    ASSUME TypeInv, TypeInv', LoggedInv, NEW p \in Proc, Run(p)
    PROVE  LoggedInv'
<1>. DEFINE a == frame[p].act
<1>1. a \in Action
  BY InHand DEF Run, At, NoAction
<1>2. Has(ledger, a, "prepared")
  BY DEF Run, At, LoggedInv, FrameLogged, Critical
<1>3. \A v \in Outcomes(a) \cup {StateOf(a)} : Accounted(ledger, Op[a].res, v)
  BY <1>1, <1>2, StateAccounted, PreparedAccounts DEF Outcomes
<1>4. PICK v \in Outcomes(a) \cup {StateOf(a)} : SetState(a, v)
  BY DEF Run
<1>5. \A r \in Resource : Accounted(ledger, r, world'[r])
  BY <1>1, <1>3, <1>4, SetAccounted
<1>6. Goto(p, "observe") \/ Goto(p, "fail")
  BY DEF Run
<1>7. Same(p) /\ frame'[p].act = a /\ frame'[p].pc # "prepare"
  BY <1>6, GotoIs
<1>8. FrameLogged(ledger, frame'[p])
  BY <1>2, <1>7 DEF FrameLogged
<1>. QED
  BY <1>5, <1>7, <1>8, UnloggedStep DEF Run

(* Observing changes nothing. *)
LEMMA ObserveLogged ==
    ASSUME TypeInv, TypeInv', LoggedInv, NEW p \in Proc, Observe(p)
    PROVE  LoggedInv'
<1>. DEFINE a == frame[p].act
            f(v) == [frame[p] EXCEPT !.pc = "commit", !.reg = v]
<1>1. PICK v : Become(p, f(v))
  BY DEF Observe
<1>2. f(v).pc = "commit" /\ f(v).act = a
  BY DEF TypeInv, TypeOK, FrameType
<1>. HIDE DEF f
<1>3. frame'[p] = f(v) /\ Same(p)
  BY <1>1, FrameIs
<1>4. Has(ledger, a, "prepared")
  BY DEF Observe, At, LoggedInv, FrameLogged, Critical
<1>5. FrameLogged(ledger, frame'[p])
  BY <1>2, <1>3, <1>4 DEF FrameLogged
<1>. QED
  BY <1>3, <1>5, UnloggedStep, WorldAccounted DEF Observe

(* The committed entry comes after the prepared one. *)
LEMMA CommitLogged ==
    ASSUME TypeInv, TypeInv', LoggedInv, NEW p \in Proc, Commit(p)
    PROVE  LoggedInv'
<1>. DEFINE a == frame[p].act
            e == Entry("committed", a, frame[p].reg)
<1>1. Log(e) /\ world' = world
  BY DEF Commit
<1>2. Extended
  BY <1>1, ExtendedByStep
<1>3. Same(p) /\ frame'[p].pc = "account"
  BY GotoIs DEF Commit
<1>4. e.kind = "committed" /\ e.act = a
  BY DEF Entry
<1>. HIDE DEF e
<1>5. Has(ledger, a, "prepared")
  BY DEF Commit, At, LoggedInv, FrameLogged, Critical
<1>6. EntryLogged(ledger', e)
  BY <1>2, <1>4, <1>5, HasKept DEF EntryLogged
<1>7. \A i \in NewPos : EntryLogged(ledger', ledger'[i])
  BY <1>1, <1>6, NewEntry
<1>8. FrameLogged(ledger', frame'[p])
  BY <1>3 DEF FrameLogged, Critical
<1>. QED
  BY <1>1, <1>2, <1>3, <1>7, <1>8, LoggedStep, WorldKept

(* What may be undone has been prepared. *)
LEMMA UndoablePrepared ==
    ASSUME TypeInv, LoggedInv, NEW a, UndoAnswer(ledger, a) = "go"
    PROVE  Has(ledger, a, "prepared")
<1>1. ~NotReversible(ledger, a)
  BY DEF UndoAnswer
<1>2. CASE Has(ledger, a, "committed")
  BY <1>2 DEF Has, Positions, LoggedInv, EntryLogged
<1>3. CASE EntryValue(ledger, a, "prepared") # None
  <2>1. \E i \in DOMAIN ledger : ledger[i].act = a /\ ledger[i].kind = "prepared"
    BY <1>3, EntryValueType DEF TypeInv, TypeOK
  <2>. QED
    BY <2>1 DEF Has, Positions
<1>. QED
  BY <1>1, <1>2, <1>3 DEF NotReversible

(* What undo() goes on with has been prepared, as its next steps need.     *)
LEMMA LoadForUndoLogged ==
    ASSUME TypeInv, TypeInv', LoggedInv, NEW p \in Proc, LoadForUndo(p)
    PROVE  LoggedInv'
<1>. DEFINE a == frame[p].act
            f(l) == [frame[p] EXCEPT !.seen = Len(ledger), !.pc = l]
<1>1. a \in Action
  BY InHand DEF LoadForUndo, At, NoAction
<1>2. CASE UndoAnswer(ledger, a) # "go"
  <2>1. UndoEnds(p, UndoAnswer(ledger, a))
    BY <1>2 DEF LoadForUndo
  <2>2. Away(p)
    BY <1>1, <2>1, AwayByUndoEnds
  <2>. QED
    BY <2>2, QuietStep DEF LoadForUndo, PlainLog
<1>3. CASE UndoAnswer(ledger, a) = "go"
  <2>1. PICK l \in {"check", "inverse"} : Become(p, f(l))
    BY <1>3 DEF LoadForUndo
  <2>2. f(l).pc = l /\ f(l).act = a
    BY DEF TypeInv, TypeOK, FrameType
  <2>. HIDE DEF f
  <2>3. frame'[p] = f(l) /\ Same(p)
    BY <2>1, FrameIs
  <2>4. FrameLogged(ledger, frame'[p])
    BY <1>3, <2>2, <2>3, UndoablePrepared DEF FrameLogged
  <2>. QED
    BY <2>3, <2>4, UnloggedStep, WorldAccounted DEF LoadForUndo
<1>. QED
  BY <1>2, <1>3

(* Comparing changes nothing. *)
LEMMA CheckConflictLogged ==
    ASSUME TypeInv, TypeInv', LoggedInv, NEW p \in Proc, CheckConflict(p)
    PROVE  LoggedInv'
<1>. DEFINE a == frame[p].act
<1>1. a \in Action /\ world' = world /\ ledger' = ledger
  BY InHand DEF CheckConflict, At, NoAction
<1>2. CASE UndoEnds(p, "failed")
  <2>1. Away(p)
    BY <1>1, <1>2, AwayByUndoEnds
  <2>. QED
    BY <1>1, <2>1, QuietStep DEF PlainLog
<1>3. CASE Goto(p, "inverse")
  <2>1. Same(p) /\ frame'[p].pc = "inverse" /\ frame'[p].act = a
    BY <1>3, GotoIs
  <2>2. Has(ledger, a, "prepared")
    BY DEF CheckConflict, At, LoggedInv, FrameLogged, Critical
  <2>3. FrameLogged(ledger, frame'[p])
    BY <2>1, <2>2 DEF FrameLogged
  <2>. QED
    BY <1>1, <2>1, <2>3, UnloggedStep, WorldAccounted
<1>. QED
  BY <1>2, <1>3 DEF CheckConflict

(* What the inverse leaves is a logged snapshot or the action's own inverse. *)
LEMMA ApplyInverseLogged ==
    ASSUME TypeInv, TypeInv', LoggedInv, NEW p \in Proc, ApplyInverse(p)
    PROVE  LoggedInv'
<1>. DEFINE a == frame[p].act
            snapshot == EntryValue(Seen(p), a, "prepared")
<1>1. a \in Action
  BY InHand DEF ApplyInverse, At, NoAction
<1>2. Accounted(ledger, Op[a].res, Restored(p))
  <2>1. CASE snapshot = None
    <3>1. Has(ledger, a, "prepared")
      BY DEF ApplyInverse, At, LoggedInv, FrameLogged, Critical
    <3>2. Restored(p) = Op[a].inverse
      BY <2>1 DEF Restored
    <3>. QED
      BY <3>1, <3>2, PreparedAccounts
  <2>2. CASE snapshot # None
    <3>1. PICK i \in DOMAIN ledger : /\ ledger[i].act = a /\ ledger[i].kind = "prepared"
                                     /\ snapshot = ledger[i].val
      BY <2>2, EntryValueType, SeenPrefix DEF ApplyInverse, At
    <3>2. Accounted(ledger, Op[a].res, snapshot)
      BY <2>2, <3>1 DEF LoggedInv, EntryLogged
    <3>. QED
      BY <2>2, <3>2 DEF Restored
  <2>. QED
    BY <2>1, <2>2
<1>3. PICK v \in {Restored(p), StateOf(a)} : SetState(a, v)
  BY DEF ApplyInverse
<1>4. \A r \in Resource : Accounted(ledger, r, world'[r])
  BY <1>1, <1>2, <1>3, StateAccounted, SetAccounted
<1>5. Goto(p, "undone") \/ Goto(p, "undo_failed")
  BY DEF ApplyInverse
<1>6. Same(p) /\ frame'[p].pc \notin Critical
  BY <1>5, GotoIs DEF Critical
<1>7. FrameLogged(ledger, frame'[p])
  BY <1>6 DEF FrameLogged, Critical
<1>. QED
  BY <1>4, <1>6, <1>7, UnloggedStep DEF ApplyInverse

-----------------------------------------------------------------------------
(* LoggedInv holds at the start. *)
LEMMA LoggedInit == Init => LoggedInv
<1>. SUFFICES ASSUME Init PROVE LoggedInv
  OBVIOUS
<1>1. EffectsAreLogged
  BY GatewayAssumption DEF Init, EffectsAreLogged, Accounted
<1>2. \A p \in Proc : frame[p].pc = "idle"
  BY DEF Init, IdleFrame
<1>3. DOMAIN ledger = {}
  BY DEF Init
<1>. QED
  BY <1>1, <1>2, <1>3 DEF LoggedInv, FrameLogged, Critical

(* Outsiders write ambient values; a crash empties the frames. *)
LEMMA EnvironmentLogged ==
    ASSUME TypeInv, LoggedInv, Environment
    PROVE  LoggedInv'
<1>1. ASSUME NEW r \in Resource, NEW v \in Ambient, OutsideWrite(r, v) PROVE LoggedInv'
  <2>1. \A q \in Resource : world'[q] = world[q] \/ world'[q] \in Ambient
    BY <1>1 DEF OutsideWrite, TypeInv, TypeOK
  <2>2. ledger' = ledger /\ frame' = frame
    BY <1>1 DEF OutsideWrite
  <2>3. EffectsAreLogged'
    BY <2>1, <2>2 DEF LoggedInv, EffectsAreLogged, Accounted
  <2>. QED
    BY <2>2, <2>3 DEF LoggedInv
<1>2. CASE Crash
  <2>1. \A q \in Proc : frame'[q].pc = "idle"
    BY <1>2 DEF Crash, IdleFrame
  <2>2. ledger' = ledger /\ world' = world
    BY <1>2 DEF Crash
  <2>3. \A q \in Proc : FrameLogged(ledger', frame'[q])
    BY <2>1 DEF FrameLogged, Critical
  <2>. QED
    BY <2>2, <2>3 DEF LoggedInv, EffectsAreLogged
<1>. QED
  BY <1>1, <1>2 DEF Environment

(* Every step preserves LoggedInv. *)
LEMMA LoggedNext == TypeInv /\ TypeInv' /\ LoggedInv /\ [Next]_vars => LoggedInv'
<1>. SUFFICES ASSUME TypeInv, TypeInv', LoggedInv, [Next]_vars PROVE LoggedInv'
  OBVIOUS
<1>1. ASSUME NEW p \in Proc, Begin(p) PROVE LoggedInv'
  BY <1>1, QuietCommands, QuietStep DEF Quiet
<1>2. ASSUME NEW p \in Proc, Continue(p), ~WorldStep(p) PROVE LoggedInv'
  BY <1>2, QuietContinue, QuietStep DEF Quiet
<1>3. ASSUME NEW p \in Proc, WorldStep(p) PROVE LoggedInv'
  BY <1>3, TakeSnapshotLogged, PrepareLogged, RunLogged, ObserveLogged, CommitLogged,
     LoadForUndoLogged, CheckConflictLogged, ApplyInverseLogged DEF WorldStep
<1>4. CASE Environment
  BY <1>4, EnvironmentLogged
<1>5. CASE UNCHANGED vars
  BY <1>5 DEF vars, LoggedInv, EffectsAreLogged
<1>. QED
  BY <1>1, <1>2, <1>3, <1>4, <1>5 DEF Next

(* The invariant that the theorems about the gateway start from. *)
LEMMA Logged == Spec => [](TypeInv /\ LoggedInv)
<1>1. Init => TypeInv /\ LoggedInv
  BY TypeInit, LoggedInit
<1>2. TypeInv /\ LoggedInv /\ [Next]_vars => (TypeInv /\ LoggedInv)'
  BY TypeNext, LoggedNext
<1>. QED
  BY <1>1, <1>2, PTL DEF Spec

(* Write-ahead, for any number of processes that crash, undo, roll back    *)
(* and run side by side: what the world holds, the environment put there   *)
(* or an action with a "prepared" entry (core.py _commit, undo).           *)
THEOREM WriteAhead == Spec => []EffectsAreLogged
<1>1. LoggedInv => EffectsAreLogged
  BY DEF LoggedInv
<1>. QED
  BY <1>1, Logged, PTL

-----------------------------------------------------------------------------
(***************************************************************************)
(* A table of the steps of one process.  For the theorems below a step is  *)
(* a label and the next one, the entry it appends, and what it does to the *)
(* decision and the preview the frame carries; the 45 actions of Gateway   *)
(* fall into the rows that follow.                                         *)
(***************************************************************************)

Still == UNCHANGED <<ledger, killFile, stats, used>>
Adds(kind, a, v) == Log(Entry(kind, a, v)) /\ UNCHANGED <<killFile, stats, used>>

KeepsHand(p) ==
    /\ Same(p)
    /\ frame'[p].job = frame[p].job /\ frame'[p].act = frame[p].act

Goes(p, from, to) ==
    /\ At(p, from) /\ frame'[p].pc = to
    /\ KeepsHand(p)
    /\ frame'[p].verdict = frame[p].verdict /\ frame'[p].predicted = frame[p].predicted
    /\ frame'[p].reg = frame[p].reg

(* The process has no action in hand any more. *)
Out(p) ==
    /\ Same(p)
    /\ frame'[p].pc \in NoAction
    /\ frame'[p].pc = "idle" => frame'[p].predicted = None \/ frame'[p] = frame[p]
    /\ frame'[p].job \notin {"call", "release"} \/ frame'[p].job = frame[p].job

OutToWork(p) == Out(p) /\ frame'[p].pc \notin {"log_halt", "unlink"}

(* Steps that end a command, or begin one that has no action in hand; at   *)
(* the two steps after a commit only an exception does.                    *)
CutShort == Spend("interrupt")
Stops(p) == OutToWork(p) /\ Still /\ (At(p, "account") \/ At(p, "deviate") => CutShort)
Refused(p) ==
    /\ OutToWork(p) /\ At(p, "idle")
    /\ \E a \in Action : used' = used \cup {a}
    /\ UNCHANGED <<ledger, killFile, stats>>
Marks(p) ==
    /\ OutToWork(p) /\ UNCHANGED <<killFile, stats, used>>
    /\ ~At(p, "account") /\ ~At(p, "deviate")
    /\ \E kind \in {"halted", "resumed", "rollback"}, s \in Session \cup {None} :
          /\ Log(Mark(kind, s))
          /\ kind = "halted" /\ s = None => At(p, "log_halt")
KillsAll(p) ==
    /\ Out(p) /\ At(p, "idle") /\ frame'[p].pc = "log_halt" /\ killFile' = TRUE
    /\ UNCHANGED <<ledger, stats, used>>
ResumesAll(p) == Out(p) /\ At(p, "idle") /\ Spend("resume") /\ Still
Unlinks(p) ==
    /\ OutToWork(p) /\ At(p, "unlink")
    /\ UNCHANGED <<ledger, stats, used>>

Closer == {<<"read", "read">>, <<"deny", "denied">>, <<"authorize", "rejected">>,
           <<"authorize", "held">>, <<"snapshot", "failed">>, <<"fail", "failed">>,
           <<"deviate", "deviation">>, <<"discard", "discarded">>,
           <<"undone", "undone">>, <<"undo_failed", "undo_failed">>}
Closes(p, label, kind) == OutToWork(p) /\ At(p, label) /\ Adds(kind, frame[p].act, None)

(* Steps that take an action in hand. *)
Calls(p, a) ==
    /\ At(p, "idle") /\ "call" \in May[p] /\ a \notin used
    /\ Same(p) /\ frame'[p].pc = "ensure" /\ frame'[p].job = "call" /\ frame'[p].act = a
    /\ frame'[p].predicted = frame[p].predicted
    /\ used' = used \cup {a} /\ UNCHANGED <<ledger, killFile, stats>>
PicksUp(p, a) ==
    /\ At(p, "idle") /\ StatusOf(ledger, a) = "held"
    /\ Same(p) /\ frame'[p].act = a /\ Still
    /\ \/ /\ "release" \in May[p] /\ Spend("release")
          /\ frame'[p].pc = "gate" /\ frame'[p].job = "release"
          /\ LET i == FirstPos(ledger, a, "simulated")
             IN  frame'[p].predicted = IF i = 0 THEN None ELSE ledger[i].val
       \/ "discard" \in May[p] /\ frame'[p].pc = "discard" /\ frame'[p].job = "discard"
TurnsToUndo(p) ==
    /\ frame[p].pc \in {"idle", "next"} /\ Same(p) /\ frame'[p].pc = "undo" /\ Still
    /\ frame'[p].job \in {"undo", frame[p].job}

(* Steps that go on with it. *)
Jump == {<<"gate", "ensure">>, <<"run", "observe">>, <<"run", "fail">>,
         <<"check", "inverse">>, <<"inverse", "undone">>, <<"inverse", "undo_failed">>}
Jumps(p) == \E j \in Jump : Goes(p, j[1], j[2]) /\ Still
PassesKillSwitch(p) ==
    /\ Goes(p, "ensure", IF frame[p].job = "call" THEN "decide" ELSE "release") /\ Still
    /\ ~IsHalted(Op[frame[p].act].ses)
Reads(p) ==
    /\ \E j \in {<<"snapshot", "prepare">>, <<"observe", "commit">>} :
          At(p, j[1]) /\ frame'[p].pc = j[2]
    /\ KeepsHand(p) /\ Still
    /\ frame'[p].verdict = frame[p].verdict /\ frame'[p].predicted = frame[p].predicted
Decides(p) ==
    LET op == Op[frame[p].act]
        v  == Decide(policy, op, stats[op.ses])
    IN  /\ At(p, "decide") /\ KeepsHand(p) /\ Still
        /\ frame'[p].predicted = frame[p].predicted
        /\ frame'[p].verdict = v
        /\ \/ frame'[p].pc = "read" /\ op.risk = READ /\ v = "allow"
           \/ frame'[p].pc = "propose"
Accounts(p) ==
    /\ At(p, "account") /\ UNCHANGED <<ledger, killFile, used>>
    /\ stats' = IF frame[p].job = "call"
                THEN [stats EXCEPT ![Op[frame[p].act].ses] = Counted(@, Op[frame[p].act].risk)]
                ELSE stats
    /\ \/ Goes(p, "account", "deviate")
       \/ OutToWork(p) /\ ~Deviates(frame[p])
LoadsForUndo(p) ==
    /\ At(p, "undo") /\ frame'[p].pc \in {"check", "inverse"} /\ KeepsHand(p) /\ Still
    /\ UndoAnswer(ledger, frame[p].act) = "go"
Proposes(p) ==
    /\ \/ Goes(p, "propose", "deny")     /\ frame[p].verdict = "deny"
       \/ Goes(p, "propose", "snapshot") /\ frame[p].verdict = "allow"
       \/ Goes(p, "propose", "simulate") /\ frame[p].verdict \notin {"deny", "allow"}
    /\ Adds("proposed", frame[p].act, frame[p].verdict)
Simulates(p) ==
    /\ At(p, "simulate") /\ KeepsHand(p) /\ frame'[p].verdict = frame[p].verdict
    /\ Adds("simulated", frame[p].act, frame'[p].predicted)
    /\ \/ frame'[p].pc = "authorize" /\ frame[p].verdict # "simulate"
       \/ frame'[p].pc \in {"escalate", "snapshot"} /\ frame[p].verdict = "simulate"
Escalates(p) ==
    /\ At(p, "escalate") /\ KeepsHand(p) /\ frame'[p].pc = "authorize"
    /\ frame'[p].verdict = "approve" /\ frame'[p].predicted = frame[p].predicted
    /\ Adds("escalated", frame[p].act, "approve")
IsApproved(p) == Goes(p, "authorize", "snapshot") /\ Adds("approved", frame[p].act, None)
IsReleased(p) == Goes(p, "release", "snapshot") /\ Adds("released", frame[p].act, None)
Prepares(p) == Goes(p, "prepare", "run") /\ Adds("prepared", frame[p].act, frame[p].reg)
Commits(p) == Goes(p, "commit", "account") /\ Adds("committed", frame[p].act, frame[p].reg)
ReportsDeviation(p) ==
    /\ Goes(p, "deviate", "undo") \/ Goes(p, "deviate", "halt")
    /\ Adds("deviation", frame[p].act, None)

OutStep(p) ==
    \/ Stops(p) \/ Refused(p) \/ Marks(p) \/ KillsAll(p) \/ ResumesAll(p) \/ Unlinks(p)
    \/ \E c \in Closer : Closes(p, c[1], c[2])
SilentStep(p) ==
    \/ \E a \in Action : Calls(p, a) \/ PicksUp(p, a)
    \/ TurnsToUndo(p) \/ Jumps(p) \/ PassesKillSwitch(p) \/ Reads(p) \/ Decides(p)
    \/ Accounts(p) \/ LoadsForUndo(p)
LoggedMove(p) ==
    \/ Proposes(p) \/ Simulates(p) \/ Escalates(p) \/ IsApproved(p) \/ IsReleased(p)
    \/ Prepares(p) \/ Commits(p) \/ ReportsDeviation(p)
Step(p) == OutStep(p) \/ SilentStep(p) \/ LoggedMove(p)

(* A jump carries the whole frame along. *)
LEMMA GotoGoes ==
    ASSUME TypeInv, NEW p \in Proc, NEW l, NEW m, At(p, l), Goto(p, m)
    PROVE  Goes(p, l, m)
<1>. DEFINE f == [frame[p] EXCEPT !.pc = m]
<1>1. /\ f.pc = m /\ f.act = frame[p].act /\ f.reg = frame[p].reg /\ f.job = frame[p].job
      /\ f.verdict = frame[p].verdict /\ f.predicted = frame[p].predicted
  BY DEF TypeInv, TypeOK, FrameType
<1>2. Become(p, f)
  BY DEF Goto
<1>. HIDE DEF f
<1>. QED
  BY <1>1, <1>2, FrameIs DEF Goes, KeepsHand

(* A method that returns or raises leaves no action in hand. *)
LEMMA ReturnOut ==
    ASSUME TypeInv, NEW p \in Proc, Return(p) \/ Raise(p)
    PROVE  OutToWork(p) /\ frame'[p].pc \in {"idle", "collect"}
<1>. DEFINE b == frame[p].batch
            c == frame[p].cp
            g == [RollbackTo(IdleFrame(None, 0), b, c) EXCEPT !.job = "batch"]
<1>1. \A s, n : /\ IdleFrame(s, n).pc = "idle" /\ IdleFrame(s, n).job = "none"
                /\ IdleFrame(s, n).predicted = None
  BY DEF IdleFrame
<1>2. g.pc = "collect" /\ g.job = "batch"
  BY DEF RollbackTo, IdleFrame
<1>3. Become(p, IdleFrame(b, c)) \/ Become(p, IdleFrame(None, 0)) \/ Become(p, g)
  BY DEF Return, Raise
<1>. HIDE DEF g, b, c
<1>. QED
  BY <1>1, <1>2, <1>3, FrameIs DEF OutToWork, Out, NoAction

(* So does an undo() that ends. *)
LEMMA UndoEndsOut ==
    ASSUME TypeInv, NEW p \in Proc, NEW outcome, UndoEnds(p, outcome)
    PROVE  OutToWork(p)
<1>1. CASE frame[p].ses = None
  BY <1>1, ReturnOut DEF UndoEnds
<1>2. CASE frame[p].ses # None
  <2>. DEFINE f == frame[p]
              g(rep) == [f EXCEPT !.pc = "next", !.act = None, !.reg = None, !.seen = 0,
                                  !.report = rep]
  <2>1. \E rep : Become(p, g(rep))
    BY <1>2 DEF UndoEnds
  <2>2. \A rep : g(rep).pc = "next" /\ g(rep).job = f.job
    BY DEF TypeInv, TypeOK, FrameType
  <2>. HIDE DEF g
  <2>. QED
    BY <2>1, <2>2, FrameIs DEF OutToWork, Out, NoAction
<1>. QED
  BY <1>1, <1>2

(* What every frame has, and the fields an update leaves alone. *)
LEMMA FrameFields ==
    ASSUME TypeInv, NEW p \in Proc
    PROVE  /\ frame[p] \in FrameType /\ ledger \in Seq(EntryType)
           /\ frame[p].batch \in Session \cup {None} /\ frame[p].ses \in Session \cup {None}
BY DEF TypeInv, TypeOK, FrameType

(* Commands *)
LEMMA CommandSteps ==
    ASSUME TypeInv, NEW p \in Proc, Begin(p)
    PROVE  Step(p)
<1>1. frame[p] \in FrameType
  BY FrameFields
<1>2. ASSUME NEW a \in Action, Call(p, a) PROVE Step(p)
  <2>1. CASE killFile
    <3>1. Refused(p)
      BY <1>2, <2>1, ReturnOut DEF Call, Idle, Refused
    <3>. QED
      BY <3>1 DEF Step, OutStep
  <2>2. CASE ~killFile
    <3>. DEFINE f == [frame[p] EXCEPT !.pc = "ensure", !.job = "call", !.act = a]
    <3>1. /\ f.pc = "ensure" /\ f.job = "call" /\ f.act = a /\ f.predicted = frame[p].predicted
      BY <1>1 DEF FrameType
    <3>2. Become(p, f)
      BY <1>2, <2>2 DEF Call
    <3>. HIDE DEF f
    <3>3. Calls(p, a)
      BY <1>2, <3>1, <3>2, FrameIs DEF Calls, Call, Idle
    <3>. QED
      BY <3>3 DEF Step, SilentStep
  <2>. QED
    BY <2>1, <2>2
<1>3. ASSUME NEW a \in Action, Release(p, a) PROVE Step(p)
  <2>. DEFINE v == LET i == FirstPos(ledger, a, "simulated") IN IF i = 0 THEN None ELSE ledger[i].val
              f == [frame[p] EXCEPT !.pc = "gate", !.job = "release", !.act = a, !.predicted = v]
  <2>1. Become(p, f)
    BY <1>3 DEF Release
  <2>2. f.pc = "gate" /\ f.job = "release" /\ f.act = a /\ f.predicted = v
    <3>. HIDE DEF v
    <3>. QED
      BY <1>1 DEF FrameType
  <2>. HIDE DEF f
  <2>3. frame'[p] = f /\ Same(p)
    BY <2>1, FrameIs
  <2>4. PicksUp(p, a)
    BY <1>3, <2>2, <2>3 DEF PicksUp, Release, Idle, Still
  <2>. QED
    BY <2>4 DEF Step, SilentStep
<1>4. ASSUME NEW a \in Action, Discard(p, a) PROVE Step(p)
  <2>. DEFINE f == [frame[p] EXCEPT !.pc = "discard", !.job = "discard", !.act = a]
  <2>1. Become(p, f)
    BY <1>4 DEF Discard
  <2>2. f.pc = "discard" /\ f.job = "discard" /\ f.act = a
    BY <1>1 DEF FrameType
  <2>. HIDE DEF f
  <2>3. frame'[p] = f /\ Same(p)
    BY <2>1, FrameIs
  <2>4. PicksUp(p, a)
    BY <1>4, <2>2, <2>3 DEF PicksUp, Discard, Idle, Still
  <2>. QED
    BY <2>4 DEF Step, SilentStep
<1>5. ASSUME NEW a \in Action, NEW force \in BOOLEAN, Undo(p, a, force) PROVE Step(p)
  <2>. DEFINE f == [frame[p] EXCEPT !.pc = "undo", !.job = "undo", !.act = a, !.force = force]
  <2>1. Become(p, f)
    BY <1>5 DEF Undo
  <2>2. f.pc = "undo" /\ f.job = "undo"
    BY <1>1 DEF FrameType
  <2>. HIDE DEF f
  <2>3. TurnsToUndo(p)
    BY <1>5, <2>1, <2>2, FrameIs DEF TurnsToUndo, Undo, Idle, At, Still
  <2>. QED
    BY <2>3 DEF Step, SilentStep
<1>6. ASSUME NEW s \in Session, NEW to \in Checkpoints, NEW force \in BOOLEAN,
             Rollback(p, s, to, force)
      PROVE  Step(p)
  <2>. DEFINE f == [RollbackTo(frame[p], s, to) EXCEPT !.job = "rollback", !.force = force]
  <2>1. Become(p, f)
    BY <1>6 DEF Rollback
  <2>2. f.pc = "collect" /\ f.job = "rollback"
    BY <1>1 DEF RollbackTo, FrameType
  <2>. HIDE DEF f
  <2>3. Stops(p)
    BY <1>6, <2>1, <2>2, FrameIs DEF Stops, OutToWork, Out, NoAction, Rollback, Idle, At, Still
  <2>. QED
    BY <2>3 DEF Step, OutStep
<1>7. ASSUME NEW s \in Session, BeginBatch(p, s) PROVE Step(p)
  <2>. DEFINE f == IdleFrame(s, Len(ledger))
  <2>1. Become(p, f)
    BY <1>7 DEF BeginBatch
  <2>2. f.pc = "idle" /\ f.job = "none" /\ f.predicted = None
    BY DEF IdleFrame
  <2>. HIDE DEF f
  <2>3. Stops(p)
    BY <1>7, <2>1, <2>2, FrameIs DEF Stops, OutToWork, Out, NoAction, BeginBatch, Idle, At, Still
  <2>. QED
    BY <2>3 DEF Step, OutStep
<1>8. ASSUME NEW s \in Session, NEW rollback \in BOOLEAN, KillSession(p, s, rollback)
      PROVE  Step(p)
  <2>. DEFINE f == [RollbackTo(frame[p], s, 0) EXCEPT !.job = "kill"]
  <2>1. f.pc = "collect" /\ f.job = "kill"
    BY <1>1 DEF RollbackTo, FrameType
  <2>2. Become(p, f) \/ Return(p)
    BY <1>8 DEF KillSession
  <2>. HIDE DEF f
  <2>3. OutToWork(p)
    BY <2>1, <2>2, FrameIs, ReturnOut DEF OutToWork, Out, NoAction
  <2>4. s # None
    BY GatewayAssumption
  <2>5. Marks(p)
    BY <1>8, <2>3, <2>4 DEF Marks, KillSession, Idle, At
  <2>. QED
    BY <2>5 DEF Step, OutStep
<1>9. ASSUME NEW s \in Session, ResumeSession(p, s) PROVE Step(p)
  <2>1. OutToWork(p)
    BY <1>9 DEF OutToWork, Out, NoAction, ResumeSession, Idle, At, Same
  <2>2. Marks(p)
    BY <1>9, <2>1 DEF Marks, ResumeSession, Idle, At
  <2>. QED
    BY <2>2 DEF Step, OutStep
<1>10. CASE EndBatch(p)
  <2>. DEFINE f == IdleFrame(None, 0)
  <2>1. f.pc = "idle" /\ f.job = "none" /\ f.predicted = None
    BY DEF IdleFrame
  <2>2. Become(p, f) \/ Raise(p)
    BY <1>10 DEF EndBatch
  <2>. HIDE DEF f
  <2>3. OutToWork(p)
    BY <2>1, <2>2, FrameIs, ReturnOut DEF OutToWork, Out, NoAction
  <2>4. Stops(p)
    BY <1>10, <2>3 DEF Stops, EndBatch, At, Still
  <2>. QED
    BY <2>4 DEF Step, OutStep
<1>11. CASE KillAll(p)
  <2>. DEFINE f == [frame[p] EXCEPT !.pc = "log_halt", !.job = "kill"]
  <2>1. f.pc = "log_halt" /\ f.job = "kill"
    BY <1>1 DEF FrameType
  <2>2. Become(p, f)
    BY <1>11 DEF KillAll
  <2>. HIDE DEF f
  <2>3. KillsAll(p)
    BY <1>11, <2>1, <2>2, FrameIs DEF KillsAll, Out, NoAction, KillAll, Idle, At
  <2>. QED
    BY <2>3 DEF Step, OutStep
<1>12. CASE ResumeAll(p)
  <2>. DEFINE l == IF killFile THEN "unlink" ELSE "log_resume"
              f == [frame[p] EXCEPT !.pc = l, !.job = "resume"]
  <2>1. f.pc \in {"unlink", "log_resume"} /\ f.job = "resume"
    BY <1>1 DEF FrameType
  <2>2. Become(p, f)
    BY <1>12 DEF ResumeAll
  <2>. HIDE DEF f
  <2>3. ResumesAll(p)
    BY <1>12, <2>1, <2>2, FrameIs DEF ResumesAll, Out, NoAction, ResumeAll, Idle, At, Still
  <2>. QED
    BY <2>3 DEF Step, OutStep
<1>. QED
  BY <1>2, <1>3, <1>4, <1>5, <1>6, <1>7, <1>8, <1>9, <1>10, <1>11, <1>12 DEF Begin

(* The pipeline of a call, up to the decision to run the operation. *)
LEMMA PipelineSteps ==
    ASSUME TypeInv, NEW p \in Proc,
           \/ EnsureRunning(p) \/ DecideVerdict(p) \/ Read(p) \/ Propose(p) \/ DenyByPolicy(p)
           \/ Simulate(p) \/ EscalateToApproval(p) \/ Approve(p) \/ Reject(p)
           \/ ApproverRaises(p) \/ Hold(p)
    PROVE  Step(p)
<1>1. frame[p] \in FrameType
  BY FrameFields
<1>2. CASE EnsureRunning(p)
  <2>1. At(p, "ensure") /\ Still
    BY <1>2 DEF EnsureRunning, Still
  <2>2. CASE IsHalted(Op[frame[p].act].ses)
    <3>1. OutToWork(p)
      BY <1>2, <2>2, ReturnOut DEF EnsureRunning
    <3>. QED
      BY <2>1, <3>1 DEF Stops, At, Step, OutStep
  <2>3. CASE ~IsHalted(Op[frame[p].act].ses)
    <3>1. Goto(p, IF frame[p].job = "call" THEN "decide" ELSE "release")
      BY <1>2, <2>3 DEF EnsureRunning
    <3>2. PassesKillSwitch(p)
      BY <2>1, <2>3, <3>1, GotoGoes DEF PassesKillSwitch
    <3>. QED
      BY <3>2 DEF Step, SilentStep
  <2>. QED
    BY <2>2, <2>3
<1>3. CASE DecideVerdict(p)
  <2>. DEFINE o == Op[frame[p].act]
              v == Decide(policy, o, stats[o.ses])
              l == IF o.risk = READ /\ v = "allow" THEN "read" ELSE "propose"
              f == [frame[p] EXCEPT !.verdict = v, !.pc = l]
  <2>1. Become(p, f)
    BY <1>3 DEF DecideVerdict
  <2>2. /\ f.pc = l /\ f.verdict = v /\ f.job = frame[p].job /\ f.act = frame[p].act
        /\ f.predicted = frame[p].predicted
    <3>. HIDE DEF v, l
    <3>. QED
      BY <1>1 DEF FrameType
  <2>. HIDE DEF f
  <2>3. frame'[p] = f /\ Same(p)
    BY <2>1, FrameIs
  <2>4. Decides(p)
    BY <1>3, <2>2, <2>3 DEF Decides, DecideVerdict, KeepsHand, Still
  <2>. QED
    BY <2>4 DEF Step, SilentStep
<1>4. CASE Read(p)
  <2>1. OutToWork(p) /\ At(p, "read")
    BY <1>4, ReturnOut DEF Read
  <2>2. CASE ledger' = ledger
    <3>1. Stops(p)
      BY <1>4, <2>1, <2>2 DEF Stops, Read, Still, At
    <3>. QED
      BY <3>1 DEF Step, OutStep
  <2>3. CASE Log(Entry("read", frame[p].act, None))
    <3>1. Closes(p, "read", "read")
      BY <1>4, <2>1, <2>3 DEF Closes, Adds, Read
    <3>2. <<"read", "read">> \in Closer /\ <<"read", "read">>[1] = "read" /\ <<"read", "read">>[2] = "read"
      BY DEF Closer
    <3>. QED
      BY <3>1, <3>2 DEF Step, OutStep
  <2>. QED
    BY <1>4, <2>2, <2>3 DEF Read
<1>5. CASE Propose(p)
  <2>1. At(p, "propose") /\ Adds("proposed", frame[p].act, frame[p].verdict)
    BY <1>5 DEF Propose, Adds
  <2>2. \/ Goto(p, "deny")     /\ frame[p].verdict = "deny"
        \/ Goto(p, "snapshot") /\ frame[p].verdict = "allow"
        \/ Goto(p, "simulate") /\ frame[p].verdict \notin {"deny", "allow"}
    BY <1>5 DEF Propose
  <2>3. Proposes(p)
    BY <2>1, <2>2, GotoGoes DEF Proposes
  <2>. QED
    BY <2>3 DEF Step, LoggedMove
<1>6. CASE DenyByPolicy(p)
  <2>1. Closes(p, "deny", "denied")
    BY <1>6, ReturnOut DEF Closes, Adds, DenyByPolicy
  <2>2. <<"deny", "denied">> \in Closer
    BY DEF Closer
  <2>. QED
    BY <2>1, <2>2 DEF Step, OutStep
<1>7. CASE Simulate(p)
  <2>. DEFINE f(w, l) == [frame[p] EXCEPT !.predicted = w, !.pc = l]
  <2>1. PICK simulated \in BOOLEAN : \E v :
                /\ Log(Entry("simulated", frame[p].act, v))
                /\ Become(p, f(v, AfterSimulation(frame[p].verdict, simulated)))
    BY <1>7 DEF Simulate
  <2>. DEFINE l == AfterSimulation(frame[p].verdict, simulated)
  <2>2. PICK w : Log(Entry("simulated", frame[p].act, w)) /\ Become(p, f(w, l))
    BY <2>1
  <2>3. \/ l = "authorize" /\ frame[p].verdict # "simulate"
        \/ l \in {"escalate", "snapshot"} /\ frame[p].verdict = "simulate"
    BY DEF AfterSimulation
  <2>. HIDE DEF l
  <2>4. /\ f(w, l).pc = l /\ f(w, l).predicted = w /\ f(w, l).act = frame[p].act
        /\ f(w, l).job = frame[p].job /\ f(w, l).verdict = frame[p].verdict
    BY <1>1 DEF FrameType
  <2>. HIDE DEF f
  <2>5. frame'[p] = f(w, l) /\ Same(p)
    BY <2>2, FrameIs
  <2>6. Simulates(p)
    BY <1>7, <2>2, <2>3, <2>4, <2>5 DEF Simulates, Simulate, KeepsHand, Adds
  <2>. QED
    BY <2>6 DEF Step, LoggedMove
<1>8. CASE EscalateToApproval(p)
  <2>. DEFINE f == [frame[p] EXCEPT !.verdict = "approve", !.pc = "authorize"]
  <2>1. /\ f.pc = "authorize" /\ f.verdict = "approve" /\ f.act = frame[p].act
        /\ f.job = frame[p].job /\ f.predicted = frame[p].predicted
    BY <1>1 DEF FrameType
  <2>2. Become(p, f)
    BY <1>8 DEF EscalateToApproval
  <2>. HIDE DEF f
  <2>3. Escalates(p)
    BY <1>8, <2>1, <2>2, FrameIs DEF Escalates, EscalateToApproval, KeepsHand, Adds
  <2>. QED
    BY <2>3 DEF Step, LoggedMove
<1>9. CASE Approve(p)
  <2>1. IsApproved(p)
    BY <1>9, GotoGoes DEF IsApproved, Approve, Asked, Adds
  <2>. QED
    BY <2>1 DEF Step, LoggedMove
<1>10. CASE Reject(p)
  <2>1. Closes(p, "authorize", "rejected")
    BY <1>10, ReturnOut DEF Closes, Adds, Reject, Asked
  <2>2. <<"authorize", "rejected">> \in Closer
    BY DEF Closer
  <2>. QED
    BY <2>1, <2>2 DEF Step, OutStep
<1>11. CASE ApproverRaises(p)
  <2>1. Stops(p)
    BY <1>11, ReturnOut DEF Stops, ApproverRaises, Asked, At, Still
  <2>. QED
    BY <2>1 DEF Step, OutStep
<1>12. CASE Hold(p)
  <2>1. Closes(p, "authorize", "held")
    BY <1>12, ReturnOut DEF Closes, Adds, Hold
  <2>2. <<"authorize", "held">> \in Closer
    BY DEF Closer
  <2>. QED
    BY <2>1, <2>2 DEF Step, OutStep
<1>. QED
  BY <1>2, <1>3, <1>4, <1>5, <1>6, <1>7, <1>8, <1>9, <1>10, <1>11, <1>12

(* The part a call and a release share, the deviation's response, the outbox. *)
LEMMA CommitSteps ==
    ASSUME TypeInv, NEW p \in Proc,
           \/ TakeSnapshot(p) \/ Prepare(p) \/ Run(p) \/ LogFailed(p) \/ Observe(p)
           \/ Commit(p) \/ Account(p) \/ Deviate(p) \/ HaltOnDeviation(p)
           \/ CheckKillFile(p) \/ LogReleased(p) \/ LogDiscarded(p)
    PROVE  Step(p)
<1>1. frame[p] \in FrameType
  BY FrameFields
<1>2. CASE TakeSnapshot(p)
  <2>. DEFINE f(v) == [frame[p] EXCEPT !.pc = "prepare", !.reg = v]
  <2>1. ASSUME NEW v, Become(p, f(v)), ledger' = ledger PROVE Step(p)
    <3>1. /\ f(v).pc = "prepare" /\ f(v).act = frame[p].act /\ f(v).job = frame[p].job
          /\ f(v).verdict = frame[p].verdict /\ f(v).predicted = frame[p].predicted
      BY <1>1 DEF FrameType
    <3>. HIDE DEF f
    <3>2. frame'[p] = f(v) /\ Same(p)
      BY <2>1, FrameIs
    <3>3. At(p, "snapshot") /\ frame'[p].pc = "prepare" /\ Still /\ KeepsHand(p)
      BY <1>2, <2>1, <3>1, <3>2 DEF TakeSnapshot, KeepsHand, Still
    <3>4. Reads(p)
      BY <3>1, <3>2, <3>3 DEF Reads
    <3>. QED
      BY <3>4 DEF Step, SilentStep
  <2>2. ASSUME Log(Entry("failed", frame[p].act, None)), Raise(p) PROVE Step(p)
    <3>1. Closes(p, "snapshot", "failed")
      BY <1>2, <2>2, ReturnOut DEF Closes, Adds, TakeSnapshot
    <3>2. <<"snapshot", "failed">> \in Closer
      BY DEF Closer
    <3>. QED
      BY <3>1, <3>2 DEF Step, OutStep
  <2>. QED
    BY <1>2, <2>1, <2>2 DEF TakeSnapshot
<1>3. CASE Prepare(p)
  <2>1. Prepares(p)
    BY <1>3, GotoGoes DEF Prepare, Prepares, Adds
  <2>. QED
    BY <2>1 DEF Step, LoggedMove
<1>4. CASE Run(p)
  <2>1. Goes(p, "run", "observe") \/ Goes(p, "run", "fail")
    BY <1>4, GotoGoes DEF Run
  <2>2. Jumps(p)
    <3>1. <<"run", "observe">> \in Jump /\ <<"run", "fail">> \in Jump
      BY DEF Jump
    <3>2. Still
      BY <1>4 DEF Run, Still
    <3>. QED
      BY <2>1, <3>1, <3>2 DEF Jumps
  <2>. QED
    BY <2>2 DEF Step, SilentStep
<1>5. CASE LogFailed(p)
  <2>1. Closes(p, "fail", "failed")
    BY <1>5, ReturnOut DEF Closes, Adds, LogFailed
  <2>2. <<"fail", "failed">> \in Closer
    BY DEF Closer
  <2>. QED
    BY <2>1, <2>2 DEF Step, OutStep
<1>6. CASE Observe(p)
  <2>. DEFINE f(v) == [frame[p] EXCEPT !.pc = "commit", !.reg = v]
  <2>1. PICK v : Become(p, f(v))
    BY <1>6 DEF Observe
  <2>2. /\ f(v).pc = "commit" /\ f(v).act = frame[p].act /\ f(v).job = frame[p].job
        /\ f(v).verdict = frame[p].verdict /\ f(v).predicted = frame[p].predicted
    BY <1>1 DEF FrameType
  <2>. HIDE DEF f
  <2>3. frame'[p] = f(v) /\ Same(p)
    BY <2>1, FrameIs
  <2>4. At(p, "observe") /\ frame'[p].pc = "commit" /\ Still /\ KeepsHand(p)
    BY <1>6, <2>2, <2>3 DEF Observe, KeepsHand, Still
  <2>5. Reads(p)
    BY <2>2, <2>3, <2>4 DEF Reads
  <2>. QED
    BY <2>5 DEF Step, SilentStep
<1>7. CASE Commit(p)
  <2>1. Commits(p)
    BY <1>7, GotoGoes DEF Commit, Commits, Adds
  <2>. QED
    BY <2>1 DEF Step, LoggedMove
<1>8. CASE Account(p)
  <2>1. Goes(p, "account", "deviate") \/ (OutToWork(p) /\ ~Deviates(frame[p]))
    BY <1>8, GotoGoes, ReturnOut DEF Account
  <2>2. Accounts(p)
    BY <1>8, <2>1 DEF Account, Accounts
  <2>. QED
    BY <2>2 DEF Step, SilentStep
<1>9. CASE Deviate(p)
  <2>1. CASE Return(p)
    <3>1. Closes(p, "deviate", "deviation")
      BY <1>9, <2>1, ReturnOut DEF Closes, Adds, Deviate
    <3>2. <<"deviate", "deviation">> \in Closer
      BY DEF Closer
    <3>. QED
      BY <3>1, <3>2 DEF Step, OutStep
  <2>2. CASE Goto(p, "undo") \/ Goto(p, "halt")
    <3>1. ReportsDeviation(p)
      BY <1>9, <2>2, GotoGoes DEF ReportsDeviation, Adds, Deviate
    <3>. QED
      BY <3>1 DEF Step, LoggedMove
  <2>. QED
    BY <1>9, <2>1, <2>2 DEF Deviate
<1>10. CASE HaltOnDeviation(p)
  <2>. DEFINE s == Op[frame[p].act].ses
              f == RollbackTo(frame[p], s, 0)
  <2>1. s \in Session
    BY <1>10, InHand DEF HaltOnDeviation, At, NoAction, OpType
  <2>2. s # None
    BY <2>1, GatewayAssumption
  <2>3. OutToWork(p)
    <3>1. f.pc = "collect" /\ f.job = frame[p].job
      BY <1>1 DEF RollbackTo, FrameType
    <3>2. Become(p, f) \/ Raise(p)
      BY <1>10 DEF HaltOnDeviation
    <3>. HIDE DEF f
    <3>. QED
      BY <3>1, <3>2, FrameIs, ReturnOut DEF OutToWork, Out, NoAction
  <2>4. Log(Mark("halted", s)) /\ At(p, "halt") /\ UNCHANGED <<killFile, stats, used>>
    BY <1>10 DEF HaltOnDeviation
  <2>. HIDE DEF s
  <2>5. Marks(p)
    BY <2>1, <2>2, <2>3, <2>4 DEF Marks, At
  <2>. QED
    BY <2>5 DEF Step, OutStep
<1>11. CASE CheckKillFile(p)
  <2>1. CASE killFile
    <3>1. Stops(p)
      BY <1>11, <2>1, ReturnOut DEF Stops, CheckKillFile, At, Still
    <3>. QED
      BY <3>1 DEF Step, OutStep
  <2>2. CASE ~killFile
    <3>1. Goes(p, "gate", "ensure") /\ Still
      BY <1>11, <2>2, GotoGoes DEF CheckKillFile, Still
    <3>2. <<"gate", "ensure">> \in Jump
      BY DEF Jump
    <3>. QED
      BY <3>1, <3>2 DEF Jumps, Step, SilentStep
  <2>. QED
    BY <2>1, <2>2
<1>12. CASE LogReleased(p)
  <2>1. IsReleased(p)
    BY <1>12, GotoGoes DEF LogReleased, IsReleased, Adds
  <2>. QED
    BY <2>1 DEF Step, LoggedMove
<1>13. CASE LogDiscarded(p)
  <2>1. Closes(p, "discard", "discarded")
    BY <1>13, ReturnOut DEF Closes, Adds, LogDiscarded
  <2>2. <<"discard", "discarded">> \in Closer
    BY DEF Closer
  <2>. QED
    BY <2>1, <2>2 DEF Step, OutStep
<1>. QED
  BY <1>2, <1>3, <1>4, <1>5, <1>6, <1>7, <1>8, <1>9, <1>10, <1>11, <1>12, <1>13

(* undo, rollback and the kill switch. *)
LEMMA UndoSteps ==
    ASSUME TypeInv, NEW p \in Proc,
           \/ LoadForUndo(p) \/ CheckConflict(p) \/ ApplyInverse(p) \/ LogUndone(p)
           \/ LogUndoFailed(p) \/ CollectActions(p) \/ UndoNext(p) \/ LogRollback(p)
           \/ LogGlobalHalt(p) \/ UnlinkKillFile(p) \/ LogGlobalResume(p) \/ Interrupted(p)
    PROVE  Step(p)
<1>1. frame[p] \in FrameType
  BY FrameFields
<1>2. CASE LoadForUndo(p)
  <2>. DEFINE answer == UndoAnswer(ledger, frame[p].act)
              f(l) == [frame[p] EXCEPT !.seen = Len(ledger), !.pc = l]
  <2>1. CASE answer # "go"
    <3>1. Stops(p)
      BY <1>2, <2>1, UndoEndsOut DEF Stops, LoadForUndo, At, Still
    <3>. QED
      BY <3>1 DEF Step, OutStep
  <2>2. CASE answer = "go"
    <3>1. PICK l \in {"check", "inverse"} : Become(p, f(l))
      BY <1>2, <2>2 DEF LoadForUndo
    <3>2. f(l).pc = l /\ f(l).act = frame[p].act /\ f(l).job = frame[p].job
      BY <1>1 DEF FrameType
    <3>. HIDE DEF f
    <3>3. frame'[p] = f(l) /\ Same(p)
      BY <3>1, FrameIs
    <3>4. LoadsForUndo(p)
      BY <1>2, <2>2, <3>2, <3>3 DEF LoadsForUndo, LoadForUndo, KeepsHand, Still
    <3>. QED
      BY <3>4 DEF Step, SilentStep
  <2>. QED
    BY <2>1, <2>2
<1>3. CASE CheckConflict(p)
  <2>1. At(p, "check") /\ Still
    BY <1>3 DEF CheckConflict, Still
  <2>2. CASE UndoEnds(p, "failed")
    <3>1. Stops(p)
      BY <2>1, <2>2, UndoEndsOut DEF Stops, At
    <3>. QED
      BY <3>1 DEF Step, OutStep
  <2>3. CASE Goto(p, "inverse")
    <3>1. Goes(p, "check", "inverse")
      BY <2>1, <2>3, GotoGoes
    <3>2. <<"check", "inverse">> \in Jump
      BY DEF Jump
    <3>. QED
      BY <2>1, <3>1, <3>2 DEF Jumps, Step, SilentStep
  <2>. QED
    BY <1>3, <2>2, <2>3 DEF CheckConflict
<1>4. CASE ApplyInverse(p)
  <2>1. Goes(p, "inverse", "undone") \/ Goes(p, "inverse", "undo_failed")
    BY <1>4, GotoGoes DEF ApplyInverse
  <2>2. <<"inverse", "undone">> \in Jump /\ <<"inverse", "undo_failed">> \in Jump
    BY DEF Jump
  <2>3. Still
    BY <1>4 DEF ApplyInverse, Still
  <2>. QED
    BY <2>1, <2>2, <2>3 DEF Jumps, Step, SilentStep
<1>5. CASE LogUndone(p)
  <2>1. Closes(p, "undone", "undone")
    BY <1>5, UndoEndsOut DEF Closes, Adds, LogUndone
  <2>2. <<"undone", "undone">> \in Closer
    BY DEF Closer
  <2>. QED
    BY <2>1, <2>2 DEF Step, OutStep
<1>6. CASE LogUndoFailed(p)
  <2>1. Closes(p, "undo_failed", "undo_failed")
    BY <1>6, UndoEndsOut DEF Closes, Adds, LogUndoFailed
  <2>2. <<"undo_failed", "undo_failed">> \in Closer
    BY DEF Closer
  <2>. QED
    BY <2>1, <2>2 DEF Step, OutStep
<1>7. CASE CollectActions(p)
  <2>. DEFINE f(todo) == [frame[p] EXCEPT !.pc = "next", !.act = None, !.reg = None, !.todo = todo]
  <2>1. PICK todo : Become(p, f(todo))
    BY <1>7 DEF CollectActions
  <2>2. f(todo).pc = "next" /\ f(todo).job = frame[p].job
    BY <1>1 DEF FrameType
  <2>. HIDE DEF f
  <2>3. Stops(p)
    BY <1>7, <2>1, <2>2, FrameIs DEF Stops, OutToWork, Out, NoAction, CollectActions, At, Still
  <2>. QED
    BY <2>3 DEF Step, OutStep
<1>8. CASE UndoNext(p)
  <2>. DEFINE f(a, todo) == [frame[p] EXCEPT !.pc = "undo", !.act = a, !.todo = todo]
  <2>1. PICK a, todo : Become(p, f(a, todo))
    BY <1>8 DEF UndoNext
  <2>2. f(a, todo).pc = "undo" /\ f(a, todo).job = frame[p].job
    BY <1>1 DEF FrameType
  <2>. HIDE DEF f
  <2>3. TurnsToUndo(p)
    BY <1>8, <2>1, <2>2, FrameIs DEF TurnsToUndo, UndoNext, At, Still
  <2>. QED
    BY <2>3 DEF Step, SilentStep
<1>9. CASE LogRollback(p)
  <2>1. OutToWork(p)
    BY <1>9, ReturnOut DEF LogRollback
  <2>2. Marks(p)
    BY <1>9, <2>1, FrameFields DEF Marks, LogRollback, At
  <2>. QED
    BY <2>2 DEF Step, OutStep
<1>10. CASE LogGlobalHalt(p)
  <2>1. Marks(p)
    BY <1>10, ReturnOut DEF Marks, LogGlobalHalt, At
  <2>. QED
    BY <2>1 DEF Step, OutStep
<1>11. CASE UnlinkKillFile(p)
  <2>1. CASE Raise(p)
    <3>1. Unlinks(p)
      BY <1>11, <2>1, ReturnOut DEF Unlinks, UnlinkKillFile
    <3>. QED
      BY <3>1 DEF Step, OutStep
  <2>2. CASE Goto(p, "log_resume")
    <3>1. Goes(p, "unlink", "log_resume")
      BY <1>11, <2>2, GotoGoes DEF UnlinkKillFile
    <3>2. Unlinks(p)
      BY <1>11, <3>1 DEF Unlinks, UnlinkKillFile, Goes, KeepsHand, OutToWork, Out, NoAction
    <3>. QED
      BY <3>2 DEF Step, OutStep
  <2>. QED
    BY <1>11, <2>1, <2>2 DEF UnlinkKillFile
<1>12. CASE LogGlobalResume(p)
  <2>1. Marks(p)
    BY <1>12, ReturnOut DEF Marks, LogGlobalResume, At
  <2>. QED
    BY <2>1 DEF Step, OutStep
<1>13. CASE Interrupted(p)
  <2>1. OutToWork(p)
    BY <1>13, ReturnOut, UndoEndsOut DEF Interrupted
  <2>2. Stops(p)
    BY <1>13, <2>1 DEF Stops, CutShort, Interrupted, Still
  <2>. QED
    BY <2>2 DEF Step, OutStep
<1>. QED
  BY <1>2, <1>3, <1>4, <1>5, <1>6, <1>7, <1>8, <1>9, <1>10, <1>11, <1>12, <1>13

(* Every step of a process is in the table. *)
LEMMA Steps ==
    ASSUME TypeInv, NEW p \in Proc, Begin(p) \/ Continue(p)
    PROVE  Step(p)
BY CommandSteps, PipelineSteps, CommitSteps, UndoSteps DEF Continue

-----------------------------------------------------------------------------
(***************************************************************************)
(* The kill switch: HaltBoundsLeak as a theorem.  The processes that may   *)
(* still start an action of a halted session are those that passed         *)
(* _ensure_running before; each entry they log takes one of them away.     *)
(***************************************************************************)

(* A label tells the command that is served. *)
CallLabel == {"decide", "read", "propose", "deny", "simulate", "escalate", "authorize"}
RightJob(p) ==
    LET f == frame[p] IN
    /\ f.pc \in CallLabel => f.job = "call"
    /\ f.pc \in {"gate", "release"} => f.job = "release"
    /\ f.pc \in {"ensure", "snapshot", "prepare"} => f.job \in {"call", "release"}
    /\ f.job = "call" => "call" \in May[p]
    /\ f.job = "release" => "release" \in May[p] /\ Budget["release"] > 0

Spent == \A e \in Event : budget[e] <= Budget[e]

(* While nobody has resumed anything, a global halt is still in force. *)
StaysHalted ==
    Untouched({"resume"}) =>
       /\ \A i \in DOMAIN ledger : ledger[i].kind = "halted" /\ ledger[i].ses = None => killFile
       /\ \A p \in Proc : /\ frame[p].pc = "log_halt" => killFile
                          /\ frame[p].pc # "unlink"

(* The processes that have passed the kill switch with an action of s, and *)
(* the entries since position h that begin an action of s or let it go on. *)
Started == {"read", "proposed", "released"}
Past(s) == {p \in Proc : /\ frame[p].pc \in {"decide", "read", "propose", "release"}
                         /\ Op[frame[p].act].ses = s}
Since(h, s) == {i \in DOMAIN ledger : i > h /\ ledger[i].ses = s /\ ledger[i].kind \in Started}

LeakBounded ==
    \A s \in Session : \A h \in Standing(s) :
       Cardinality(Since(h, s)) + Cardinality(Past(s)) <= Cardinality(Starters)

HaltInv ==
    /\ \A p \in Proc : RightJob(p)
    /\ Spent
    /\ StaysHalted
    /\ LeakBounded

-----------------------------------------------------------------------------
(* The budget only shrinks. *)
LEMMA BudgetFalls ==
    ASSUME TypeInv, [Next]_vars
    PROVE  \A e \in Event : budget'[e] \in Nat /\ budget[e] \in Nat /\ budget'[e] <= budget[e]
<1>1. budget \in [Event -> Nat]
  BY DEF TypeInv, TypeOK
<1>2. budget' = budget \/ \E e \in Event : Spend(e)
  <2>1. ASSUME NEW p \in Proc, Begin(p) PROVE budget' = budget \/ \E e \in Event : Spend(e)
    BY <2>1 DEF Begin, Call, Release, Discard, Undo, Rollback, BeginBatch, KillSession,
       ResumeSession, EndBatch, KillAll, ResumeAll, Event, Command
  <2>2. ASSUME NEW p \in Proc, Continue(p)
        PROVE  budget' = budget \/ Spend("fault") \/ Spend("interrupt")
    BY <2>2 DEF Continue, EnsureRunning, DecideVerdict, Read, Propose, DenyByPolicy, Simulate,
       EscalateToApproval, Approve, Reject, ApproverRaises, Hold, TakeSnapshot, Prepare, Run,
       LogFailed, Observe, Commit, Account, Deviate, HaltOnDeviation, CheckKillFile, LogReleased,
       LogDiscarded, LoadForUndo, CheckConflict, ApplyInverse, LogUndone, LogUndoFailed,
       CollectActions, UndoNext, LogRollback, LogGlobalHalt, UnlinkKillFile, LogGlobalResume,
       Interrupted, Fault, NoFault
  <2>3. ASSUME Environment PROVE budget' = budget \/ \E e \in Event : Spend(e)
    BY <2>3 DEF Environment, OutsideWrite, Crash, Event
  <2>4. ASSUME UNCHANGED vars PROVE budget' = budget
    BY <2>4 DEF vars
  <2>. QED
    BY <2>1, <2>2, <2>3, <2>4 DEF Next, Event
<1>3. ASSUME NEW x \in Event, Spend(x)
      PROVE  \A e \in Event : budget'[e] \in Nat /\ budget[e] \in Nat /\ budget'[e] <= budget[e]
  BY <1>1, <1>3 DEF Spend
<1>. QED
  BY <1>1, <1>2, <1>3

(* What has not been touched after a step was not touched before it. *)
LEMMA UntouchedBefore ==
    ASSUME TypeInv, [Next]_vars, Spent, NEW x \in Event, Untouched({x})'
    PROVE  Untouched({x})
<1>1. budget'[x] <= budget[x] /\ budget'[x] \in Nat /\ budget[x] \in Nat
  BY BudgetFalls
<1>2. budget[x] <= Budget[x] /\ budget'[x] = Budget[x]
  BY DEF Spent, Untouched
<1>. QED
  BY <1>1, <1>2 DEF Untouched

(* The budget stays within its bounds. *)
LEMMA SpentNext ==
    ASSUME TypeInv, [Next]_vars, Spent
    PROVE  Spent'
<1>. SUFFICES ASSUME NEW e \in Event PROVE budget'[e] <= Budget[e]
  BY DEF Spent
<1>1. budget'[e] <= budget[e] /\ budget'[e] \in Nat /\ budget[e] \in Nat
  BY BudgetFalls
<1>2. budget[e] <= Budget[e] /\ Budget[e] \in Nat
  BY GatewayAssumption DEF Spent
<1>. QED
  BY <1>1, <1>2

(* The ledger is what it was, and e after it. *)
ExtendedByOne(e) ==
    /\ Len(ledger) \in Nat /\ Len(ledger') = Len(ledger) + 1
    /\ DOMAIN ledger = 1 .. Len(ledger) /\ DOMAIN ledger' = 1 .. (Len(ledger) + 1)
    /\ \A i \in DOMAIN ledger : i \in DOMAIN ledger' /\ ledger'[i] = ledger[i]
    /\ ledger'[Len(ledger) + 1] = e
    /\ \A i \in DOMAIN ledger' : i \in DOMAIN ledger \/ i = Len(ledger) + 1

(* Logging e does that. *)
LEMMA AppendsOne ==
    ASSUME TypeInv, NEW e, Log(e)
    PROVE  ExtendedByOne(e)
<1>1. ledger \in Seq(EntryType \cup {e}) /\ e \in EntryType \cup {e}
  BY DEF TypeInv, TypeOK
<1>. QED
  BY <1>1, AppendEntry DEF Log, ExtendedByOne

(* A step of p leaves the other processes' frames alone. *)
LEMMA OthersSame ==
    ASSUME NEW p \in Proc, Step(p)
    PROVE  Same(p)
BY DEF Step, OutStep, SilentStep, LoggedMove, Stops, Refused, Marks, KillsAll, ResumesAll, Unlinks,
   Closes, OutToWork, Out, Calls, PicksUp, TurnsToUndo, Jumps, PassesKillSwitch, Reads, Decides,
   Accounts, LoadsForUndo, Proposes, Simulates, Escalates, IsApproved, IsReleased, Prepares,
   Commits, ReportsDeviation, Goes, KeepsHand

(* The label a process reaches is one of the command it serves. *)
LEMMA RightJobStep ==
    ASSUME TypeInv, Spent, NEW p \in Proc, RightJob(p), Step(p)
    PROVE  RightJob(p)'
<1>. USE DEF RightJob, CallLabel
<1>1. CASE OutStep(p)
  <2>1. Out(p)
    BY <1>1 DEF OutStep, Stops, Refused, Marks, KillsAll, ResumesAll, Unlinks, Closes, OutToWork
  <2>. QED
    BY <2>1 DEF Out, NoAction
<1>2. CASE SilentStep(p)
  <2>1. ASSUME NEW a \in Action, Calls(p, a) PROVE RightJob(p)'
    BY <2>1 DEF Calls
  <2>2. ASSUME NEW a \in Action, PicksUp(p, a) PROVE RightJob(p)'
    <3>1. Spend("release") => Budget["release"] > 0
      <4>1. "release" \in Event
        BY DEF Event, Command
      <4>2. budget["release"] \in Nat /\ budget["release"] <= Budget["release"]
        BY <4>1 DEF TypeInv, TypeOK, Spent
      <4>3. Budget["release"] \in Nat
        BY <4>1, GatewayAssumption
      <4>. QED
        BY <4>2, <4>3 DEF Spend
    <3>. QED
      BY <2>2, <3>1 DEF PicksUp
  <2>3. CASE TurnsToUndo(p)
    BY <2>3 DEF TurnsToUndo
  <2>4. CASE Jumps(p)
    BY <2>4 DEF Jumps, Jump, Goes, KeepsHand, At
  <2>5. CASE PassesKillSwitch(p)
    BY <2>5 DEF PassesKillSwitch, Goes, KeepsHand, At
  <2>6. CASE Reads(p)
    BY <2>6 DEF Reads, KeepsHand, At
  <2>7. CASE Decides(p)
    BY <2>7 DEF Decides, KeepsHand, At
  <2>8. CASE Accounts(p)
    BY <2>8 DEF Accounts, Goes, KeepsHand, At, OutToWork, Out, NoAction
  <2>9. CASE LoadsForUndo(p)
    BY <2>9 DEF LoadsForUndo, KeepsHand, At
  <2>. QED
    BY <1>2, <2>1, <2>2, <2>3, <2>4, <2>5, <2>6, <2>7, <2>8, <2>9 DEF SilentStep
<1>3. CASE LoggedMove(p)
  BY <1>3 DEF LoggedMove, Proposes, Simulates, Escalates, IsApproved, IsReleased, Prepares,
     Commits, ReportsDeviation, Goes, KeepsHand, At
<1>. QED
  BY <1>1, <1>2, <1>3 DEF Step

(* So it is for every process after a step of one. *)
LEMMA RightJobs ==
    ASSUME TypeInv, Spent, NEW p \in Proc, Step(p), \A q \in Proc : RightJob(q)
    PROVE  \A q \in Proc : RightJob(q)'
<1>1. ASSUME NEW q \in Proc, q # p PROVE RightJob(q)'
  <2>1. frame'[q] = frame[q]
    BY <1>1, OthersSame DEF Same
  <2>. QED
    BY <2>1 DEF RightJob
<1>. QED
  BY <1>1, RightJobStep

(* What a step of p appends: nothing, an entry about the action in hand    *)
(* that belongs to p's label, or a mark, that of a global halt only where  *)
(* the KILL file is already there.                                         *)
Writes == Closer \cup
    {<<"propose", "proposed">>, <<"simulate", "simulated">>, <<"escalate", "escalated">>,
     <<"authorize", "approved">>, <<"release", "released">>, <<"prepare", "prepared">>,
     <<"commit", "committed">>}
OwnEntry(p) ==
    \E w \in Writes : At(p, w[1]) /\ \E v : Log(Entry(w[2], frame[p].act, v))
OwnMark(p) ==
    \E kind \in {"halted", "resumed", "rollback"}, s \in Session \cup {None} :
       /\ Log(Mark(kind, s))
       /\ kind = "halted" /\ s = None => At(p, "log_halt")
       /\ frame'[p].pc \notin {"log_halt", "unlink"} /\ frame'[p].pc \in NoAction

(* A step appends one of these, or nothing. *)
LEMMA StepAppends ==
    ASSUME NEW p \in Proc, Step(p)
    PROVE  ledger' = ledger \/ OwnEntry(p) \/ OwnMark(p)
<1>1. CASE OutStep(p)
  <2>1. ASSUME NEW c \in Closer, Closes(p, c[1], c[2]) PROVE OwnEntry(p)
    BY <2>1 DEF Closes, Adds, OwnEntry, Writes
  <2>2. CASE Marks(p)
    BY <2>2 DEF Marks, OwnMark, OutToWork, Out
  <2>. QED
    BY <1>1, <2>1, <2>2 DEF OutStep, Stops, Refused, KillsAll, ResumesAll, Unlinks, Still
<1>2. CASE SilentStep(p)
  BY <1>2 DEF SilentStep, Calls, PicksUp, TurnsToUndo, Jumps, PassesKillSwitch, Reads, Decides,
     Accounts, LoadsForUndo, Still
<1>3. CASE LoggedMove(p)
  <2>1. \A w \in Writes : \A v : At(p, w[1]) /\ Log(Entry(w[2], frame[p].act, v)) => OwnEntry(p)
    BY DEF OwnEntry
  <2>2. \A l, k, v : <<l, k>> \in Writes /\ At(p, l) /\ Log(Entry(k, frame[p].act, v)) => OwnEntry(p)
    BY <2>1
  <2>3. /\ <<"propose", "proposed">> \in Writes /\ <<"simulate", "simulated">> \in Writes
        /\ <<"escalate", "escalated">> \in Writes /\ <<"authorize", "approved">> \in Writes
        /\ <<"release", "released">> \in Writes /\ <<"prepare", "prepared">> \in Writes
        /\ <<"commit", "committed">> \in Writes /\ <<"deviate", "deviation">> \in Writes
    BY DEF Writes, Closer
  <2>4. ASSUME Proposes(p) \/ Simulates(p) \/ Escalates(p) PROVE OwnEntry(p)
    BY <2>2, <2>3, <2>4 DEF Proposes, Simulates, Escalates, Goes, Adds
  <2>5. ASSUME IsApproved(p) \/ IsReleased(p) \/ Prepares(p) PROVE OwnEntry(p)
    BY <2>2, <2>3, <2>5 DEF IsApproved, IsReleased, Prepares, Goes, Adds
  <2>6. ASSUME Commits(p) \/ ReportsDeviation(p) PROVE OwnEntry(p)
    BY <2>2, <2>3, <2>6 DEF Commits, ReportsDeviation, Goes, Adds
  <2>. QED
    BY <1>3, <2>4, <2>5, <2>6 DEF LoggedMove
<1>. QED
  BY <1>1, <1>2, <1>3 DEF Step

(* The kinds of those entries. *)
LEMMA WritesKinds ==
    ASSUME NEW w \in Writes
    PROVE  /\ w[1] \notin NoAction
           /\ w[2] \in EntryKind \ {"halted", "resumed", "rollback"}
           /\ w[2] \in Started => w[1] \in {"read", "propose", "release"}
BY DEF Writes, Closer, NoAction, EntryKind, StatusKind, Started

(* A global halt stays in force as long as nobody resumes. *)
LEMMA StaysHaltedStep ==
    ASSUME TypeInv, TypeInv', Spent, [Next]_vars, StaysHalted, NEW p \in Proc, Step(p)
    PROVE  StaysHalted'
<1>. SUFFICES ASSUME Untouched({"resume"})'
              PROVE  /\ \A i \in DOMAIN ledger' : ledger'[i].kind = "halted" /\ ledger'[i].ses = None => killFile'
                     /\ \A q \in Proc : /\ frame'[q].pc = "log_halt" => killFile'
                                        /\ frame'[q].pc # "unlink"
  BY DEF StaysHalted
<1>0. "resume" \in Event
  BY DEF Event, Command
<1>1. Untouched({"resume"})
  BY <1>0, UntouchedBefore
<1>2. /\ \A i \in DOMAIN ledger : ledger[i].kind = "halted" /\ ledger[i].ses = None => killFile
      /\ \A q \in Proc : (frame[q].pc = "log_halt" => killFile) /\ frame[q].pc # "unlink"
  BY <1>1 DEF StaysHalted
<1>3. ~Spend("resume")
  <2>1. budget["resume"] \in Nat /\ budget \in [Event -> Nat]
    BY <1>0 DEF TypeInv, TypeOK
  <2>2. budget["resume"] = Budget["resume"] /\ budget'["resume"] = Budget["resume"]
    BY <1>1 DEF Untouched
  <2>. QED
    BY <1>0, <2>1, <2>2 DEF Spend
<1>4. killFile => killFile'
  BY <1>2 DEF Step, OutStep, SilentStep, LoggedMove, Stops, Refused, Marks, KillsAll, ResumesAll,
     Unlinks, Closes, Still, Adds, Calls, PicksUp, TurnsToUndo, Jumps, PassesKillSwitch, Reads,
     Decides, Accounts, LoadsForUndo, Proposes, Simulates, Escalates, IsApproved, IsReleased,
     Prepares, Commits, ReportsDeviation, At
<1>5. frame'[p].pc = "log_halt" => killFile'
  BY <1>3 DEF Step, OutStep, SilentStep, LoggedMove, Stops, Refused, Marks, KillsAll, ResumesAll,
     Unlinks, Closes, OutToWork, Calls, PicksUp, TurnsToUndo, Jumps, Jump, PassesKillSwitch, Reads,
     Decides, Accounts, LoadsForUndo, Proposes, Simulates, Escalates, IsApproved, IsReleased,
     Prepares, Commits, ReportsDeviation, Goes
<1>6. ASSUME NEW q \in Proc
      PROVE  (frame'[q].pc = "log_halt" => killFile') /\ frame'[q].pc # "unlink"
  <2>1. CASE q # p
    <3>1. frame'[q] = frame[q]
      BY <2>1, OthersSame DEF Same
    <3>. QED
      BY <1>2, <1>4, <3>1
  <2>2. CASE q = p
    <3>1. frame'[p].pc # "unlink"
      <4>1. CASE OutStep(p)
        BY <1>3, <4>1 DEF OutStep, Stops, Refused, Marks, KillsAll, ResumesAll, Unlinks, Closes, OutToWork
      <4>2. CASE SilentStep(p)
        BY <4>2 DEF SilentStep, Calls, PicksUp, TurnsToUndo, Jumps, Jump, PassesKillSwitch, Reads,
           Decides, Accounts, LoadsForUndo, Goes, OutToWork
      <4>3. CASE LoggedMove(p)
        BY <4>3 DEF LoggedMove, Proposes, Simulates, Escalates, IsApproved, IsReleased,
           Prepares, Commits, ReportsDeviation, Goes
      <4>. QED
        BY <4>1, <4>2, <4>3 DEF Step
    <3>. QED
      BY <1>5, <2>2, <3>1
  <2>. QED
    BY <2>1, <2>2
<1>7. ASSUME NEW i \in DOMAIN ledger', ledger'[i].kind = "halted", ledger'[i].ses = None
      PROVE  killFile'
  <2>1. CASE ledger' = ledger
    BY <1>2, <1>4, <1>7, <2>1
  <2>2. ASSUME NEW e, Log(e), e.kind = "halted" => e.ses # None \/ killFile PROVE killFile'
    <3>1. ExtendedByOne(e)
      BY <2>2, AppendsOne
    <3>. QED
      BY <1>2, <1>4, <1>7, <2>2, <3>1 DEF ExtendedByOne
  <2>3. CASE OwnEntry(p)
    <3>1. PICK w \in Writes : \E v : Log(Entry(w[2], frame[p].act, v))
      BY <2>3 DEF OwnEntry
    <3>2. PICK v : Log(Entry(w[2], frame[p].act, v))
      BY <3>1
    <3>3. Entry(w[2], frame[p].act, v).kind # "halted"
      BY WritesKinds DEF Entry
    <3>. QED
      BY <2>2, <3>2, <3>3
  <2>4. CASE OwnMark(p)
    <3>1. PICK kind, s : Log(Mark(kind, s)) /\ (kind = "halted" /\ s = None => At(p, "log_halt"))
      BY <2>4 DEF OwnMark
    <3>2. Mark(kind, s).kind = kind /\ Mark(kind, s).ses = s
      BY DEF Mark
    <3>. QED
      BY <1>2, <2>2, <3>1, <3>2 DEF At
  <2>. QED
    BY <2>1, <2>3, <2>4, StepAppends
<1>. QED
  BY <1>6, <1>7

(* A session with a standing halt is halted, whichever way it was. *)
LEMMA StandingIsHalted ==
    ASSUME TypeInv, StaysHalted, NEW s \in Session, NEW h \in Standing(s)
    PROVE  IsHalted(s)
<1>. DEFINE M == {i \in DOMAIN ledger : ledger[i].ses = s /\ ledger[i].kind \in {"halted", "resumed"}}
<1>1. h \in DOMAIN ledger /\ ledger[h].kind = "halted"
  BY DEF Standing
<1>2. CASE ledger[h].ses = None /\ Untouched({"resume"})
  BY <1>1, <1>2 DEF StaysHalted, IsHalted
<1>3. CASE /\ ledger[h].ses = s
           /\ ~\E j \in DOMAIN ledger : j > h /\ ledger[j].ses = s /\ ledger[j].kind = "resumed"
  <2>1. DOMAIN ledger = 1 .. Len(ledger) /\ Len(ledger) \in Nat
    BY DEF TypeInv, TypeOK
  <2>2. M \in SUBSET (0 .. Len(ledger)) /\ h \in M
    BY <1>1, <1>3, <2>1
  <2>3. Max(M) \in M /\ Max(M) >= h
    BY <2>1, <2>2, MaxOfBounded
  <2>4. ledger[Max(M)].kind = "halted"
    BY <1>1, <1>3, <2>1, <2>3
  <2>. QED
    BY <2>2, <2>4 DEF IsHalted, MarkedHalted
<1>. QED
  BY <1>2, <1>3 DEF Standing

(* A halt that stands after a step and was there before stood before. *)
LEMMA StoodBefore ==
    ASSUME TypeInv, Spent, Extended, [Next]_vars,
           NEW s \in Session, NEW h \in Standing(s)', h \in DOMAIN ledger
    PROVE  h \in Standing(s)
<1>1. Untouched({"resume"})' => Untouched({"resume"})
  BY UntouchedBefore DEF Event, Command
<1>2. ledger'[h] = ledger[h] /\ \A j \in DOMAIN ledger : j \in DOMAIN ledger' /\ ledger'[j] = ledger[j]
  BY DEF Extended
<1>. QED
  BY <1>1, <1>2 DEF Standing

(* Nobody passes the kill switch of a halted session, and an entry of a    *)
(* process that had passed takes it off the list.                          *)
LEMMA PastStep ==
    ASSUME NEW p \in Proc, Step(p), NEW s, IsHalted(s), p \in Past(s)'
    PROVE  p \in Past(s) /\ ledger' = ledger
<1>1. frame'[p].pc \in {"decide", "read", "propose", "release"} /\ Op[frame'[p].act].ses = s
  BY DEF Past
<1>2. ~OutStep(p)
  BY <1>1 DEF OutStep, Stops, Refused, Marks, KillsAll, ResumesAll, Unlinks, Closes, OutToWork,
     Out, NoAction
<1>3. ~LoggedMove(p)
  BY <1>1 DEF LoggedMove, Proposes, Simulates, Escalates, IsApproved, IsReleased, Prepares, Commits,
     ReportsDeviation, Goes
<1>4. CASE PassesKillSwitch(p)
  BY <1>1, <1>4 DEF PassesKillSwitch, Goes, KeepsHand
<1>5. CASE Decides(p)
  BY <1>1, <1>5 DEF Decides, KeepsHand, Still, Past, At
<1>6. ~(\/ \E a \in Action : Calls(p, a) \/ PicksUp(p, a)
        \/ TurnsToUndo(p) \/ Jumps(p) \/ Reads(p) \/ Accounts(p) \/ LoadsForUndo(p))
  BY <1>1 DEF Calls, PicksUp, TurnsToUndo, Jumps, Jump, Reads, Accounts, LoadsForUndo, Goes,
     OutToWork, Out, NoAction
<1>. QED
  BY <1>2, <1>3, <1>4, <1>5, <1>6 DEF Step, SilentStep

(* The sets that are counted are finite. *)
LEMMA LeakFinite ==
    ASSUME TypeInv, NEW s, NEW h
    PROVE  /\ IsFiniteSet(Since(h, s)) /\ IsFiniteSet(Past(s)) /\ IsFiniteSet(Starters)
           /\ Cardinality(Since(h, s)) \in Nat /\ Cardinality(Past(s)) \in Nat
           /\ Cardinality(Starters) \in Nat
<1>1. IsFiniteSet(DOMAIN ledger)
  <2>1. DOMAIN ledger = 1 .. Len(ledger) /\ Len(ledger) \in Nat
    BY DEF TypeInv, TypeOK
  <2>. QED
    BY <2>1, FS_Interval
<1>2. Since(h, s) \subseteq DOMAIN ledger /\ Past(s) \subseteq Proc /\ Starters \subseteq Proc
  BY DEF Since, Past, Starters
<1>3. IsFiniteSet(Since(h, s)) /\ IsFiniteSet(Past(s)) /\ IsFiniteSet(Starters)
  BY <1>1, <1>2, ProcAssumption, FS_Subset
<1>. QED
  BY <1>3, FS_CardinalityType

(* What a step moves from one set to the other is counted once. *)
LEMMA MovesOne ==
    ASSUME NEW S, NEW T, NEW P, NEW Q, IsFiniteSet(S), IsFiniteSet(P), NEW n, NEW p,
           \/ T = S /\ Q \subseteq P
           \/ T = S \cup {n} /\ p \in P /\ Q \subseteq P \ {p}
    PROVE  /\ Cardinality(T) \in Nat /\ Cardinality(Q) \in Nat
           /\ Cardinality(T) + Cardinality(Q) <= Cardinality(S) + Cardinality(P)
<1>1. Cardinality(S) \in Nat /\ Cardinality(P) \in Nat
  BY FS_CardinalityType
<1>2. CASE T = S /\ Q \subseteq P
  <2>1. IsFiniteSet(Q) /\ Cardinality(Q) <= Cardinality(P) /\ Cardinality(Q) \in Nat
    BY <1>2, FS_Subset, FS_CardinalityType
  <2>. QED
    BY <1>1, <1>2, <2>1
<1>3. CASE T = S \cup {n} /\ p \in P /\ Q \subseteq P \ {p}
  <2>1. IsFiniteSet(T) /\ Cardinality(T) <= Cardinality(S) + 1 /\ Cardinality(T) \in Nat
    <3>1. IsFiniteSet(S \cup {n})
          /\ (Cardinality(S \cup {n}) = Cardinality(S) \/ Cardinality(S \cup {n}) = Cardinality(S) + 1)
      BY FS_AddElement
    <3>2. Cardinality(S \cup {n}) \in Nat
      BY <3>1, FS_CardinalityType
    <3>. QED
      BY <1>1, <1>3, <3>1, <3>2
  <2>2. IsFiniteSet(P \ {p}) /\ Cardinality(P \ {p}) = Cardinality(P) - 1
    BY <1>3, FS_RemoveElement
  <2>3. Cardinality(Q) <= Cardinality(P \ {p}) /\ Cardinality(Q) \in Nat
    BY <1>3, <2>2, FS_Subset, FS_CardinalityType
  <2>. QED
    BY <1>1, <2>1, <2>2, <2>3
<1>. QED
  BY <1>2, <1>3

(* The bound after a step, for a halt that was there before it. *)
LEMMA LeakKept ==
    ASSUME TypeInv, Extended, StaysHalted, LeakBounded, NEW p \in Proc, Step(p),
           NEW s \in Session, NEW h \in Standing(s)
    PROVE  Cardinality(Since(h, s))' + Cardinality(Past(s))' <= Cardinality(Starters)
<1>. DEFINE n == Len(ledger) + 1
<1>1. IsHalted(s)
  BY StandingIsHalted
<1>2. Past(s)' \subseteq Past(s) /\ (ledger' # ledger => p \notin Past(s)')
  <2>1. ASSUME NEW q \in Past(s)', q # p PROVE q \in Past(s)
    <3>1. frame'[q] = frame[q]
      BY <2>1, OthersSame DEF Same, Past
    <3>. QED
      BY <2>1, <3>1 DEF Past
  <2>. QED
    BY <1>1, <2>1, PastStep
<1>3. \/ Since(h, s)' = Since(h, s)
      \/ Since(h, s)' = Since(h, s) \cup {n} /\ p \in Past(s) /\ p \notin Past(s)'
  <2>1. CASE ledger' = ledger
    BY <2>1 DEF Since
  <2>2. ASSUME NEW e, Log(e), ~(e.ses = s /\ e.kind \in Started) PROVE Since(h, s)' = Since(h, s)
    <3>1. ExtendedByOne(e)
      BY <2>2, AppendsOne
    <3>. QED
      BY <2>2, <3>1 DEF ExtendedByOne, Since
  <2>3. ASSUME NEW e, Log(e), e.ses = s /\ e.kind \in Started, h \in DOMAIN ledger
        PROVE  Since(h, s)' = Since(h, s) \cup {n} /\ ledger' # ledger
    <3>1. ExtendedByOne(e)
      BY <2>3, AppendsOne
    <3>2. \A i \in DOMAIN ledger' : i > h /\ ledger'[i].ses = s /\ ledger'[i].kind \in Started
                                    => i \in Since(h, s) \cup {n}
      BY <3>1 DEF ExtendedByOne, Since
    <3>3. \A i \in Since(h, s) : i \in Since(h, s)'
      BY <3>1 DEF ExtendedByOne, Since
    <3>4. n \in DOMAIN ledger' /\ n > h /\ ledger'[n] = e
      BY <2>3, <3>1 DEF ExtendedByOne
    <3>5. n \in Since(h, s)'
      BY <2>3, <3>4 DEF Since
    <3>6. Since(h, s)' \subseteq Since(h, s) \cup {n}
      BY <3>2 DEF Since
    <3>. QED
      BY <3>1, <3>3, <3>5, <3>6 DEF ExtendedByOne
  <2>4. CASE OwnEntry(p)
    <3>1. PICK w \in Writes : At(p, w[1]) /\ \E v : Log(Entry(w[2], frame[p].act, v))
      BY <2>4 DEF OwnEntry
    <3>2. PICK v : Log(Entry(w[2], frame[p].act, v))
      BY <3>1
    <3>. DEFINE e == Entry(w[2], frame[p].act, v)
    <3>3. e.kind = w[2] /\ e.ses = Op[frame[p].act].ses
      BY DEF Entry
    <3>4. h \in DOMAIN ledger
      BY DEF Standing
    <3>5. e.ses = s /\ e.kind \in Started => p \in Past(s)
      BY <3>1, <3>3, WritesKinds DEF Past, At
    <3>. HIDE DEF e
    <3>6. CASE e.ses = s /\ e.kind \in Started
      BY <1>2, <2>3, <3>2, <3>4, <3>5, <3>6 DEF e
    <3>7. CASE ~(e.ses = s /\ e.kind \in Started)
      BY <2>2, <3>2, <3>7 DEF e
    <3>. QED
      BY <3>6, <3>7
  <2>5. CASE OwnMark(p)
    <3>1. PICK kind \in {"halted", "resumed", "rollback"} : \E z : Log(Mark(kind, z))
      BY <2>5 DEF OwnMark
    <3>2. PICK z : Log(Mark(kind, z))
      BY <3>1
    <3>3. Mark(kind, z).kind \notin Started
      BY DEF Mark, Started
    <3>. QED
      BY <2>2, <3>2, <3>3
  <2>. QED
    BY <2>1, <2>4, <2>5, StepAppends
<1>4. IsFiniteSet(Since(h, s)) /\ IsFiniteSet(Past(s))
  BY LeakFinite
<1>5. Cardinality(Since(h, s)) + Cardinality(Past(s)) <= Cardinality(Starters)
  BY DEF LeakBounded
<1>. DEFINE S == Since(h, s)  T == Since(h, s)'  P == Past(s)  Q == Past(s)'
<1>6. /\ Cardinality(T) \in Nat /\ Cardinality(Q) \in Nat
      /\ Cardinality(T) + Cardinality(Q) <= Cardinality(S) + Cardinality(P)
  <2>1. IsFiniteSet(S) /\ IsFiniteSet(P)
    BY <1>4
  <2>2. \/ T = S /\ Q \subseteq P
        \/ T = S \cup {n} /\ p \in P /\ Q \subseteq P \ {p}
    BY <1>2, <1>3
  <2>. HIDE DEF S, T, P, Q, n
  <2>. QED
    BY <2>1, <2>2, MovesOne
<1>7. Cardinality(S) \in Nat /\ Cardinality(P) \in Nat /\ Cardinality(Starters) \in Nat
  BY LeakFinite
<1>8. Cardinality(S) + Cardinality(P) <= Cardinality(Starters)
  BY <1>5
<1>9. Cardinality(T) + Cardinality(Q) <= Cardinality(Starters)
  <2>. HIDE DEF S, T, P, Q
  <2>. QED
    BY <1>6, <1>7, <1>8
<1>. QED
  BY <1>9

(* A halt that is appended counts nothing yet, and whoever is past the     *)
(* kill switch is one who may start actions.                               *)
LEMMA LeakNew ==
    ASSUME TypeInv', NEW s \in Session, NEW h \in Nat, h = Len(ledger'),
           \A q \in Proc : RightJob(q)'
    PROVE  Cardinality(Since(h, s))' + Cardinality(Past(s))' <= Cardinality(Starters)
<1>1. DOMAIN ledger' = 1 .. Len(ledger')
  BY DEF TypeInv, TypeOK
<1>2. Since(h, s)' = {}
  BY <1>1 DEF Since
<1>3. Past(s)' \subseteq Starters
  BY DEF RightJob, CallLabel, Past, Starters
<1>4. IsFiniteSet(Starters)
  <2>1. Starters \subseteq Proc
    BY DEF Starters
  <2>. QED
    BY <2>1, ProcAssumption, FS_Subset
<1>5. /\ Cardinality(Past(s)') <= Cardinality(Starters)
      /\ Cardinality(Past(s)') \in Nat /\ Cardinality(Starters) \in Nat
  BY <1>3, <1>4, FS_Subset, FS_CardinalityType
<1>6. Cardinality(Since(h, s)') = 0
  BY <1>2, FS_EmptySet
<1>. QED
  BY <1>5, <1>6

(* The invariant is preserved by a step of a process. *)
LEMMA HaltStep ==
    ASSUME TypeInv, TypeInv', HaltInv, [Next]_vars, NEW p \in Proc, Step(p)
    PROVE  HaltInv'
<1>1. Spent' /\ StaysHalted' /\ \A q \in Proc : RightJob(q)'
  BY SpentNext, StaysHaltedStep, RightJobs DEF HaltInv
<1>2. Extended
  <2>1. ledger' = ledger \/ \E e : Log(e)
    BY StepAppends DEF OwnEntry, OwnMark
  <2>. QED
    BY <2>1, ExtendedByStep
<1>3. ASSUME NEW s \in Session, NEW h \in Standing(s)'
      PROVE  Cardinality(Since(h, s))' + Cardinality(Past(s))' <= Cardinality(Starters)
  <2>1. CASE h \in DOMAIN ledger
    <3>1. h \in Standing(s)
      BY <1>2, <2>1, StoodBefore DEF HaltInv
    <3>. QED
      BY <1>2, <3>1, LeakKept DEF HaltInv
  <2>2. CASE h \notin DOMAIN ledger
    <3>1. h \in DOMAIN ledger'
      BY DEF Standing
    <3>2. ledger' # ledger
      BY <2>2, <3>1
    <3>3. PICK e : Log(e)
      BY <3>2, StepAppends DEF OwnEntry, OwnMark
    <3>4. h = Len(ledger') /\ h \in Nat
      BY <2>2, <3>1, <3>3, AppendsOne DEF ExtendedByOne
    <3>. QED
      BY <1>1, <3>4, LeakNew
  <2>. QED
    BY <2>1, <2>2
<1>4. LeakBounded'
  BY <1>3 DEF LeakBounded
<1>. QED
  BY <1>1, <1>4 DEF HaltInv

(* Nor do outsiders, a crash, or a step that changes nothing. *)
LEMMA HaltElse ==
    ASSUME TypeInv, TypeInv', HaltInv, [Next]_vars, Environment \/ UNCHANGED vars
    PROVE  HaltInv'
<1>1. ledger' = ledger /\ killFile' = killFile
  BY DEF Environment, OutsideWrite, Crash, vars
<1>2. \A q \in Proc : frame'[q] = frame[q] \/ (frame'[q].pc = "idle" /\ frame'[q].job = "none")
  <2>1. IdleFrame(None, 0).pc = "idle" /\ IdleFrame(None, 0).job = "none"
    BY DEF IdleFrame
  <2>. QED
    BY <2>1 DEF Environment, OutsideWrite, Crash, vars
<1>3. Spent'
  BY SpentNext DEF HaltInv
<1>4. \A q \in Proc : RightJob(q)'
  BY <1>2 DEF HaltInv, RightJob, CallLabel
<1>5. Untouched({"resume"})' => Untouched({"resume"})
  BY UntouchedBefore DEF HaltInv, Event, Command
<1>6. StaysHalted'
  BY <1>1, <1>2, <1>5 DEF HaltInv, StaysHalted
<1>7. Extended
  BY <1>1 DEF Extended, TypeInv, TypeOK
<1>8. ASSUME NEW s \in Session, NEW h \in Standing(s)'
      PROVE  Cardinality(Since(h, s))' + Cardinality(Past(s))' <= Cardinality(Starters)
  <2>1. h \in Standing(s)
    <3>1. h \in DOMAIN ledger
      BY <1>1 DEF Standing
    <3>. QED
      BY <1>7, <3>1, StoodBefore DEF HaltInv
  <2>2. Since(h, s)' = Since(h, s) /\ Past(s)' \subseteq Past(s)
    BY <1>1, <1>2 DEF Since, Past
  <2>3. /\ IsFiniteSet(Since(h, s)) /\ IsFiniteSet(Past(s)) /\ Cardinality(Starters) \in Nat
        /\ Cardinality(Since(h, s)) \in Nat /\ Cardinality(Past(s)) \in Nat
    BY LeakFinite
  <2>4. Cardinality(Since(h, s)) + Cardinality(Past(s)) <= Cardinality(Starters)
    BY <2>1 DEF HaltInv, LeakBounded
  <2>5. Cardinality(Past(s)') <= Cardinality(Past(s)) /\ Cardinality(Past(s)') \in Nat
    BY <2>2, <2>3, FS_Subset, FS_CardinalityType
  <2>6. Cardinality(Since(h, s)') = Cardinality(Since(h, s))
    BY <2>2
  <2>. HIDE DEF Since, Past
  <2>. QED
    BY <2>3, <2>4, <2>5, <2>6
<1>. QED
  BY <1>3, <1>4, <1>6, <1>8 DEF HaltInv, LeakBounded

(* It holds at the start. *)
LEMMA HaltInit == Init => HaltInv
<1>. SUFFICES ASSUME Init PROVE HaltInv
  OBVIOUS
<1>1. \A q \in Proc : frame[q].pc = "idle" /\ frame[q].job = "none"
  BY DEF Init, IdleFrame
<1>2. DOMAIN ledger = {}
  BY DEF Init
<1>3. Spent
  BY GatewayAssumption DEF Init, Spent
<1>. QED
  BY <1>1, <1>2, <1>3 DEF HaltInv, RightJob, CallLabel, StaysHalted, LeakBounded, Standing

(* What it is for. *)
LEMMA LeakIsBounded == TypeInv /\ HaltInv => HaltBoundsLeak
<1>. SUFFICES ASSUME TypeInv, HaltInv, NEW s \in Session, NEW h \in Standing(s)
              PROVE  Cardinality(Since(h, s)) <= Cardinality(Starters)
  BY DEF HaltBoundsLeak, Since, Started
<1>1. /\ Cardinality(Since(h, s)) \in Nat /\ Cardinality(Past(s)) \in Nat
      /\ Cardinality(Starters) \in Nat
  BY LeakFinite
<1>2. Cardinality(Since(h, s)) + Cardinality(Past(s)) <= Cardinality(Starters)
  BY DEF HaltInv, LeakBounded
<1>. QED
  BY <1>1, <1>2

(* It holds always. *)
LEMMA Halting == Spec => [](TypeInv /\ HaltInv)
<1>1. Init => HaltInv
  BY HaltInit
<1>2. TypeInv /\ TypeInv' /\ HaltInv /\ [Next]_vars => HaltInv'
  <2>. SUFFICES ASSUME TypeInv, TypeInv', HaltInv, [Next]_vars PROVE HaltInv'
    OBVIOUS
  <2>1. ASSUME NEW p \in Proc, Begin(p) \/ Continue(p) PROVE HaltInv'
    <3>1. Step(p)
      BY <2>1, Steps
    <3>. QED
      BY <3>1, HaltStep
  <2>2. ASSUME Environment \/ UNCHANGED vars PROVE HaltInv'
    BY <2>2, HaltElse
  <2>. QED
    BY <2>1, <2>2 DEF Next
<1>3. Spec => []TypeInv
  BY Logged, PTL
<1>. QED
  BY <1>1, <1>2, <1>3, PTL DEF Spec

(* After a halt that stands, of a session or of all, a process starts or   *)
(* releases at most one more action of the session, the one it had let     *)
(* pass before (core.py _ensure_running, kill, resume).                    *)
THEOREM KillSwitch == Spec => []HaltBoundsLeak
<1>1. TypeInv /\ HaltInv => HaltBoundsLeak
  BY LeakIsBounded
<1>. QED
  BY <1>1, Halting, PTL
=============================================================================
