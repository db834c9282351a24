----------------------------- MODULE Lifecycle ------------------------------
(***************************************************************************)
(* An action's state is derived from its ledger entries and never stored   *)
(* (undolith/lifecycle.py).  A log is a sequence of entries, records with  *)
(* the fields kind, act, ses and val; an action's entries are those whose  *)
(* act is the action, and the code folds over them in ledger order.  What  *)
(* the folds return is given here by the last entry that matters, so that  *)
(* no definition is recursive.                                             *)
(***************************************************************************)
EXTENDS Naturals, Sequences, FiniteSetsExt

STATUS_BY_KIND ==
    [read      |-> "committed", proposed  |-> "proposed",  denied   |-> "denied",
     rejected  |-> "rejected",  held      |-> "held",      released |-> "released",
     discarded |-> "discarded", prepared  |-> "in_flight", committed |-> "committed",
     failed    |-> "failed",    undone    |-> "undone"]

StatusKind == {"read", "proposed", "denied", "rejected", "held", "released",
               "discarded", "prepared", "committed", "failed", "undone"}
Status     == {"unknown", "committed", "proposed", "denied", "rejected", "held",
               "released", "discarded", "in_flight", "failed", "undone"}

UNDOABLE == {"committed", "failed", "in_flight"}

(* Positions of a's entries of the given kinds in log. *)
Positions(log, a, kinds) == {i \in DOMAIN log : log[i].act = a /\ log[i].kind \in kinds}

(* Did log record an entry of this kind for a? *)
Has(log, a, kind) == Positions(log, a, {kind}) # {}

(* The positions of the first and of the last; 0 when there is none. *)
FirstPos(log, a, kind) ==
    LET P == Positions(log, a, {kind}) IN IF P = {} THEN 0 ELSE Min(P)
LastPos(log, a, kind) ==
    LET P == Positions(log, a, {kind}) IN IF P = {} THEN 0 ELSE Max(P)

(* summarize(entries)["status"]: the last status-bearing entry decides. *)
StatusOf(log, a) ==
    LET P == Positions(log, a, StatusKind)
    IN  IF P = {} THEN "unknown" ELSE STATUS_BY_KIND[log[Max(P)].kind]

(* The edges of the diagram of lifecycle.py, with the undo of a failed and *)
(* of an in-flight action, and the snapshot that fails before "prepared".  *)
StatusEdge ==
    {<<"unknown", "proposed">>, <<"unknown", "committed">>,
     <<"proposed", "denied">>, <<"proposed", "rejected">>, <<"proposed", "held">>,
     <<"proposed", "in_flight">>, <<"proposed", "failed">>,
     <<"held", "released">>, <<"held", "discarded">>,
     <<"released", "in_flight">>, <<"released", "failed">>,
     <<"in_flight", "committed">>, <<"in_flight", "failed">>, <<"in_flight", "undone">>,
     <<"committed", "undone">>, <<"failed", "undone">>}

(* The status that the entries in front of position i fold to. *)
StatusBefore(log, a, i) ==
    LET P == {j \in Positions(log, a, StatusKind) : j < i}
    IN  IF P = {} THEN "unknown" ELSE STATUS_BY_KIND[log[Max(P)].kind]

(* Action a goes through the diagram in log: each of its entries moves it  *)
(* along an edge, and only what has committed deviates.                    *)
KeepsDiagram(log, a) ==
    /\ \A i \in Positions(log, a, StatusKind) :
          <<StatusBefore(log, a, i), STATUS_BY_KIND[log[i].kind]>> \in StatusEdge
    /\ \A i \in Positions(log, a, {"deviation"}) : StatusBefore(log, a, i) \in {"committed", "undone"}

(* The entries that change summarize(entries)["authorized"], and what each says. *)
AuthorityKind == {"read", "proposed", "escalated", "approved", "released",
                  "denied", "rejected", "discarded"}
Authorizes(e) ==
    \/ e.kind \in {"read", "approved", "released"}
    \/ e.kind \in {"proposed", "escalated"} /\ e.val \in {"allow", "simulate"}

(* summarize(entries)["authorized"] *)
Authorized(log, a) ==
    LET P == Positions(log, a, AuthorityKind) IN P # {} /\ Authorizes(log[Max(P)])

(* summarize(entries)["happened"] *)
Happened(log, a) == Has(log, a, "read") \/ Has(log, a, "committed")
=============================================================================
