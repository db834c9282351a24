------------------------- MODULE GatewayProperties --------------------------
(***************************************************************************)
(* What the gateway promises, over the state machine of Gateway.           *)
(***************************************************************************)
EXTENDS Gateway

(* The type invariant. *)
TypeOK ==
    /\ ledger \in Seq(EntryType)
    /\ killFile \in BOOLEAN
    /\ world \in [Resource -> Value]
    /\ stats \in [Session -> Stats]
    /\ used \subseteq Action
    /\ frame \in [Proc -> FrameType]
    /\ budget \in [Event -> Nat]

-----------------------------------------------------------------------------
(* Authorization *)

Before(i) == SubSeq(ledger, 1, i - 1)

(* The prepared entries: after one the operation may have run. *)
PreparedPos == {i \in DOMAIN ledger : ledger[i].kind = "prepared"}

(* A person let the action run. *)
Consented(log, a) == Has(log, a, "approved") \/ Has(log, a, "released")

(* The policy let it run on its own, and its simulation did not change that. *)
AutoAllowed(log, a) ==
    /\ \E i \in Positions(log, a, {"proposed"}) : Authorizes(log[i])
    /\ ~Has(log, a, "escalated")

(* An operation is prepared only after an entry that sanctions it: the     *)
(* policy's own verdict, an approval or a release; and an action that was  *)
(* denied or rejected is never prepared, whoever tries to release, undo or *)
(* retry it; and "a held action never commits without a released entry"    *)
(* (SPEC.md 6.3), one behind each held (core.py: _execute, release, _commit). *)
Sanctioned ==
    \A i \in PreparedPos :
       /\ Consented(Before(i), ledger[i].act) \/ AutoAllowed(Before(i), ledger[i].act)
       /\ ~Has(ledger, ledger[i].act, "denied")
       /\ ~Has(ledger, ledger[i].act, "rejected")
       /\ \A j \in Positions(Before(i), ledger[i].act, {"held"}) :
             \E k \in Positions(Before(i), ledger[i].act, {"released"}) : j < k

(* Destructive work without an inverse never runs on the policy's word     *)
(* alone, whatever rule matched (policy.py: decide, first escalation).     *)
ConsentForIrreversible ==
    policy.approve_irreversible_destructive =>
       \A i \in PreparedPos :
          LET a == ledger[i].act IN
          Op[a].risk >= DESTRUCTIVE /\ ~Op[a].reversible => Consented(Before(i), a)

(* What happened was authorized, in the words of a proof: no action whose  *)
(* entries fold to happened folds to not authorized, so no later denial,   *)
(* rejection or discard takes back the authority of what has run, as long  *)
(* as one operator works the outbox (lifecycle.py: summarize).             *)
HappenedAuthorized ==
    \A a \in used : Happened(ledger, a) => Authorized(ledger, a)

-----------------------------------------------------------------------------
(* Write-ahead *)

(* The value v of r came with the environment or from a prepared action. *)
Accounted(log, r, v) ==
    \/ v \in Ambient
    \/ \E i \in DOMAIN log :
          /\ log[i].kind = "prepared"
          /\ Op[log[i].act].res = r
          /\ v \in Op[log[i].act].effects \cup {Op[log[i].act].inverse}

(* Whatever an action put into the world, its prepared entry was in the    *)
(* ledger before, so a crash at any step leaves the means to find it       *)
(* (core.py _commit, the write-ahead comment; SPEC.md 6.2 step 6).         *)
EffectsAreLogged == \A r \in Resource : Accounted(ledger, r, world[r])

-----------------------------------------------------------------------------
(* Lifecycle *)

(* An entry moves its action along an edge of the diagram, or leaves its   *)
(* status alone; and it is never a second entry of the same status kind:   *)
(* no action is released, run or undone twice.  The methods read the       *)
(* status and append in separate steps (core.py:424-445, 530-543), so this *)
(* is a promise to one process at a time, which the run has, or to         *)
(* processes that are never midway through one action (OneHand in          *)
(* GatewaySafety): two undos that overlap may both append "undone".        *)
LifecycleStep ==
    \A a \in Action :
       LET old == StatusOf(ledger, a)
           new == StatusOf(ledger', a)
       IN  /\ old # new => <<old, new>> \in StatusEdge
           /\ old = new => Positions(ledger', a, StatusKind) = Positions(ledger, a, StatusKind)
LifecycleRespected == [][LifecycleStep]_ledger

(* "is not held" (core.py release, discard): an action is released or      *)
(* discarded only while it is held.                                        *)
Appended == ledger'[Len(ledger')]
ResolvedWhileHeld ==
    [][ledger # ledger' /\ Appended.kind \in {"released", "discarded"}
          => StatusOf(ledger, Appended.act) = "held"]_ledger

-----------------------------------------------------------------------------
(* Undo and rollback *)

Untouched(events) == \A e \in events : budget[e] = Budget[e]

(* p logs the end of a rollback in this step. *)
RollbackEnds(p) == At(p, "next") /\ frame[p].todo = {} /\ ledger' # ledger

(* A rollback that reports neither a skipped nor a failed action has put   *)
(* each resource it undid something on back to what it was before the      *)
(* first of the undone actions was prepared, for operations that take      *)
(* snapshots, when nobody forced an undo (core.py rollback; SPEC.md 8.3).  *)
RollbackRestores ==
    [][\A p \in Proc :
          /\ RollbackEnds(p)
          /\ frame[p].report.skipped = {} /\ frame[p].report.failed = {}
          /\ Untouched({"force"})
          => \A r \in Resource :
                LET span == {i \in PreparedPos : /\ ledger[i].act \in frame[p].report.undone
                                                 /\ Op[ledger[i].act].res = r}
                IN  span # {} /\ (\A i \in span : Op[ledger[i].act].snapshot)
                       => world[r] = ledger[Min(span)].val]_vars

(* What is still undoable when a rollback ends is named in its report.     *)
RollbackAccountsForAll ==
    [][\A p \in Proc :
          RollbackEnds(p) =>
             ToUndo(frame[p].ses, frame[p].to)
                \subseteq frame[p].report.skipped \cup frame[p].report.failed]_vars

-----------------------------------------------------------------------------
(* Deviations *)

(* An outcome that is not the one previewed is never silent: while the     *)
(* host stays up and no exception cuts a method short, the action has a    *)
(* deviation entry or the call that ran it is about to log one; a release  *)
(* is held to the preview stored when the action was held (core.py         *)
(* release, _commit, _check_deviation).                                    *)
NoSilentDeviation ==
    Untouched({"crash", "interrupt"}) =>
       \A a \in used :
          LET predicted == EntryValue(ledger, a, "simulated")
              observed  == EntryValue(ledger, a, "committed")
          IN  predicted \in Value /\ observed \in Value /\ predicted # observed
              => \/ Has(ledger, a, "deviation")
                 \/ \E p \in Proc : frame[p].act = a /\ frame[p].pc \in {"account", "deviate"}

-----------------------------------------------------------------------------
(* Kill switch *)

(* The halts of session s that no resume has lifted. *)
Standing(s) ==
    {i \in DOMAIN ledger :
       /\ ledger[i].kind = "halted"
       /\ \/ /\ ledger[i].ses = s
             /\ ~\E j \in DOMAIN ledger : j > i /\ ledger[j].ses = s /\ ledger[j].kind = "resumed"
          \/ /\ ledger[i].ses = None
             /\ Untouched({"resume"})}

(* The processes that may begin an action, or let a parked one go on. *)
Starters == {p \in Proc : \/ "call" \in May[p]
                          \/ "release" \in May[p] /\ Budget["release"] > 0}

(* The kill switch does not stop calls that are past _ensure_running, but  *)
(* it stops everything else: after a standing halt each process starts at  *)
(* most one more action of the session, the one it had already let pass.   *)
HaltBoundsLeak ==
    \A s \in Session : \A h \in Standing(s) :
       Cardinality({i \in DOMAIN ledger : /\ i > h
                                          /\ ledger[i].ses = s
                                          /\ ledger[i].kind \in {"read", "proposed", "released"}})
          <= Cardinality(Starters)

-----------------------------------------------------------------------------
(* Blast radius *)

(* The destructive actions of s that committed on the policy's word alone. *)
AutoCommitted(s) ==
    {a \in Action : /\ Op[a].ses = s /\ Op[a].risk >= DESTRUCTIVE
                    /\ Has(ledger, a, "committed") /\ ~Consented(ledger, a)}

Callers == {p \in Proc : "call" \in May[p]}

(* The counters are read when a call is decided and written when it has    *)
(* committed, so callers that overlap can exceed the limit, but only by    *)
(* one action for each other caller; a call that is cut short between its  *)
(* commit and its count is not counted (policy.py decide, core.py _commit). *)
BlastRadiusBounded ==
    policy.max_destructive # NoLimit /\ Untouched({"crash", "interrupt"}) =>
       \A s \in Session :
          Cardinality(AutoCommitted(s)) <= policy.max_destructive + Cardinality(Callers) - 1

-----------------------------------------------------------------------------
(* Liveness, under FairSpec *)

(* Every command ends: a call returns or raises, the loop of a rollback    *)
(* runs out of work.                                                       *)
EveryCommandEnds == \A p \in Proc : (~At(p, "idle")) ~> At(p, "idle")

(* A deviation stops its session when the policy says so: the deviation    *)
(* entry is followed by a halted one, unless the host crashes or an        *)
(* exception comes between the two.                                        *)
DeviationHalts ==
    policy.on_deviation \in {"halt", "rollback_session"} =>
       \A a \in Action :
          Has(ledger, a, "deviation") ~>
             \/ \E i \in DOMAIN ledger : /\ i > FirstPos(ledger, a, "deviation")
                                         /\ ledger[i].kind = "halted"
                                         /\ ledger[i].ses = Op[a].ses
             \/ ~Untouched({"crash", "interrupt"})

(* Prepared actions without an outcome. *)
InFlight ==
    {a \in Action : /\ Has(ledger, a, "prepared")
                    /\ ~\E k \in {"committed", "failed", "undone"} : Has(ledger, a, k)}

(* While the host does not crash, whatever hooks fail, a prepared action   *)
(* gets an outcome in the ledger.  What stays in flight behind a process   *)
(* that lives on is at most one action for each exception that nothing in  *)
(* _commit catches: a KeyboardInterrupt in op.run, a result that cannot be *)
(* stored or hashed, a committed entry that cannot be written.             *)
EveryRunSettles ==
    <>[](\/ Cardinality(InFlight) <= Budget["interrupt"] - budget["interrupt"]
         \/ ~Untouched({"crash"}))
=============================================================================
