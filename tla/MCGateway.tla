----------------------------- MODULE MCGateway ------------------------------
(***************************************************************************)
(* Instances of Gateway for TLC: a few actions of each sort an adapter     *)
(* offers, policies as the repository's tests configure them, and budgets  *)
(* that let the interesting cases happen.                                  *)
(***************************************************************************)
EXTENDS GatewayProperties, TLC

CONSTANTS
    agent, second, operator, other,     \* processes
    s1, s2,                             \* sessions
    a1, a2, a3,                         \* actions
    r1,                                 \* a resource
    v0, v1, v2, v3, odd                 \* states of a resource

Values == {v0, v1, v2, v3, odd}

-----------------------------------------------------------------------------
(* Operations *)

(* A write of v: every hook, and a simulator that is right (fs.write). *)
Edit(s, r, v) ==
    [name |-> "fs.write", ses |-> s, res |-> r, risk |-> WRITE, reversible |-> TRUE,
     simulate |-> TRUE, snapshot |-> TRUE, observe |-> TRUE,
     effects |-> {v}, predicts |-> v, inverse |-> v0]

(* One that removes data, and may leave what its simulator did not predict. *)
Delete(s, r, v) == [Edit(s, r, v) EXCEPT !.name = "db.execute", !.risk = DESTRUCTIVE,
                                         !.effects = {v, odd}]

(* One that removes data and does exactly that (fs.delete). *)
Drop(s, r, v) == [Delete(s, r, v) EXCEPT !.name = "fs.delete", !.effects = {v}]

(* One that cannot be observed (a decorator without an observe hook). *)
Blind(s, r, v) == [Edit(s, r, v) EXCEPT !.name = "app.op", !.observe = FALSE]

(* A request with a compensating inverse and no snapshot (http with undo). *)
Post(s, r, v) == [Edit(s, r, v) EXCEPT !.name = "http.post", !.snapshot = FALSE]

(* A push: no inverse and no snapshot, and perhaps not what was previewed. *)
Push(s, r, v) == [Delete(s, r, v) EXCEPT !.name = "git.push", !.risk = IRREVERSIBLE,
                                         !.reversible = FALSE, !.snapshot = FALSE]

Get(s, r) == [Edit(s, r, v0) EXCEPT !.name = "fs.read", !.risk = READ, !.simulate = FALSE,
                                    !.snapshot = FALSE, !.reversible = FALSE]

Ops(o1, o2, o3) == [a \in Action |-> CASE a = a1 -> o1 [] a = a2 -> o2 [] a = a3 -> o3]

CrashOps      == Ops(Blind(s1, r1, v1), Delete(s1, r1, v2), Get(s1, r1))
AgentOps      == Ops(Drop(s1, r1, v1), Drop(s1, r1, v1), Drop(s1, r1, v1))
OutboxOps     == Ops(Push(s1, r1, v1), Edit(s1, r1, v2), Get(s1, r1))
LiveOps       == Ops(Delete(s1, r1, v1), Post(s1, r1, v2), Get(s1, r1))
LimitOps      == Ops(Push(s1, r1, v1), Drop(s1, r1, v2), Drop(s1, r1, v3))

-----------------------------------------------------------------------------
(* Policies *)

DefaultPolicy ==
    [rules |-> <<>>, defaults |-> DEFAULTS, max_destructive |-> 5, max_mutations |-> NoLimit,
     approve_irreversible_destructive |-> TRUE, require_simulator |-> FALSE,
     on_deviation |-> "rollback", log_reads |-> TRUE]

Permissive ==
    [DefaultPolicy EXCEPT !.defaults = [r \in Risk |-> "allow"], !.max_destructive = NoLimit,
                          !.approve_irreversible_destructive = FALSE]

(* One destructive action on the policy's word, and none that is irreversible. *)
OneDestructive ==
    [DefaultPolicy EXCEPT !.defaults = [r \in Risk |-> "allow"], !.max_destructive = 1]

(* Nothing without a simulation, no reads of files, and pushes left to decide(). *)
Supervised ==
    [DefaultPolicy EXCEPT
       !.rules = <<[verdict |-> "allow", selects |-> {"git.push"},
                    min_risk |-> READ, max_risk |-> IRREVERSIBLE],
                   [verdict |-> "deny", selects |-> {"fs.read", "git.push"},
                    min_risk |-> READ, max_risk |-> DESTRUCTIVE]>>,
       !.require_simulator = TRUE, !.on_deviation = "halt"]

RollsBackSession == [DefaultPolicy EXCEPT !.on_deviation = "rollback_session", !.log_reads = FALSE]

-----------------------------------------------------------------------------
(* Budgets and roles *)

Nothing == [e \in Event |-> 0]
With(few, n) == [e \in Event |-> IF e \in few THEN n ELSE 0]

CrashBudget      == With({"force", "batch", "crash", "fault"}, 1)
AgentBudget      == With({"kill", "resume"}, 1)
OutboxBudget     == With({"release", "discard", "kill", "fault"}, 1)
LiveBudget       == With({"undo", "fault", "external", "interrupt"}, 1)
ReleaseOrDiscard == With({"release", "discard"}, 1)

World0 == [r \in Resource |-> v0]

Everything == [p \in Proc |-> Command]
Roles == [p \in Proc |-> CASE p \in {agent, second}   -> {"call"}
                           [] p \in {operator, other} -> Command \ {"call", "batch"}]

(* Threads of one agent are interchangeable, and so are equal calls. *)
ThreadsAndCalls == Permutations({agent, second}) \cup Permutations(Action)
=============================================================================
