--------------------------- MODULE PolicySession ----------------------------
(***************************************************************************)
(* The decisions of a policy in the course of one session: a policy and an *)
(* operation are fixed, and the counters grow as actions commit.           *)
(***************************************************************************)
EXTENDS Policy

CONSTANTS
    Name,       \* the names of operations
    Policies,   \* the policies considered
    CommitMax   \* bound: how many actions of the session commit

ASSUME PolicySessionAssumption ==
    /\ Policies \subseteq PolicyType(Name)
    /\ CommitMax \in Nat

VARIABLES pol, op, stats

vars == <<pol, op, stats>>

Operations == [name : Name, risk : Risk, reversible : BOOLEAN, simulate : BOOLEAN]

Init == /\ pol \in Policies
        /\ op \in Operations
        /\ stats = NoStats

(* An action of the session commits: a write, or a destructive one. *)
CommitWrite       == stats' = [stats EXCEPT !.mutations = @ + 1]
CommitDestructive == stats' = [stats EXCEPT !.mutations = @ + 1, !.destructive = @ + 1]

Next == /\ stats.mutations < CommitMax
        /\ CommitWrite \/ CommitDestructive
        /\ UNCHANGED <<pol, op>>

Spec == Init /\ [][Next]_vars

-----------------------------------------------------------------------------
TypeOK == pol \in PolicyType(Name) /\ op \in Operations /\ stats \in Stats

Decision == Decide(pol, op, stats)

(* "Escalations only ever make the verdict stricter" (SPEC.md 5), also     *)
(* along a session: the verdict on a call is at least as strict as the     *)
(* rules' own, and never gets laxer while the session goes on.             *)
NeverLaxer ==
    [][/\ Rank[Decision] >= Rank[BaseVerdict(pol, op.name, op.risk)]
       /\ Rank[Decision'] >= Rank[Decision]]_vars

(* "Rules, first match wins": a rule in front of the list decides when it  *)
(* matches and changes nothing when it does not.                           *)
FirstMatchWins ==
    pol.rules # <<>> =>
       BaseVerdict(pol, op.name, op.risk) =
          IF Matches(Head(pol.rules), op.name, op.risk)
          THEN Head(pol.rules).verdict
          ELSE BaseVerdict([pol EXCEPT !.rules = Tail(@)], op.name, op.risk)

(* Once the limit of destructive actions is reached, no destructive call   *)
(* goes through on the policy's word, whatever the rules say.              *)
LimitIsEnforced ==
    op.risk >= DESTRUCTIVE /\ pol.max_destructive # NoLimit /\ stats.destructive >= pol.max_destructive
       => Decision \in {"approve", "hold", "deny"}
=============================================================================
