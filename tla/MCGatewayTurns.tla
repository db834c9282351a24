--------------------------- MODULE MCGatewayTurns ---------------------------
(***************************************************************************)
(* Two threads of one agent that edit one resource, one of them rolling    *)
(* the session back and the other undoing an action, with a failing hook   *)
(* and a write from outside at any moment.                                 *)
(***************************************************************************)
EXTENDS MCGateway, GatewayTurns

TurnOps == Ops(Edit(s1, r1, v1), Edit(s1, r1, v2), Edit(s1, r1, v3))
TurnBudget == With({"undo", "rollback", "fault", "external"}, 1)
TurnRoles == [p \in Proc |-> IF p = agent THEN {"call", "rollback"} ELSE {"call", "undo"}]

(* The two edits differ in nothing but what they write, so that swapping   *)
(* them together with their values gives the same behaviours again.        *)
Mirror == a1 :> a2 @@ a2 :> a1 @@ v1 :> v2 @@ v2 :> v1
MirrorImages ==
    {f \in Permutations({a1, a2, v1, v2}) : f = Mirror \/ \A x \in DOMAIN f : f[x] = x}
=============================================================================
