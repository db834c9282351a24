----------------------------- MODULE MCTestgen ------------------------------
(* Instances of TestgenCli: three calls, and the histories an action can   *)
(* have in the ledger.                                                     *)
EXTENDS TestgenCli

Write(dir) == [op |-> "write", dir |-> dir, file |-> "f", data |-> "v", read |-> FALSE]
Look       == [op |-> "read", dir |-> "data", file |-> "f", data |-> "v", read |-> TRUE]
Calls      == {Write("data"), Write("data[1]"), Look}

(* "data[1]/*" is a pattern for the files of data1. *)
Globs == [d \in {"data", "data[1]"} |-> IF d = "data" THEN {"data"} ELSE {"data1"}]

Entry(kind, val) == [kind |-> kind, val |-> val]
Kinds(kinds)     == [i \in DOMAIN kinds |-> Entry(kinds[i], None)]

Committed == Kinds(<<"proposed", "prepared", "committed">>)
Failed    == Kinds(<<"proposed", "prepared", "failed">>)
Deviated  == Append(Committed, Entry("deviation", None))
TakenBack(h, why) == Append(h, Entry("undone", why))

ReadHistories  == {Kinds(<<"read">>), Kinds(<<"proposed", "denied">>)}
LoopHistories  == {Committed, Failed, TakenBack(Committed, "session rollback"), Kinds(<<"proposed", "held">>)}
WriteHistories ==
    LoopHistories \cup
    {Kinds(<<"proposed", "denied">>), Kinds(<<"proposed", "held", "discarded">>),
     TakenBack(Committed, "by hand"), TakenBack(Deviated, "session rollback"), Deviated,
     TakenBack(Failed, "session rollback"), Kinds(<<"proposed", "prepared">>)}

Did == {[call |-> c, entries |-> h] : c \in {Write("data"), Write("data[1]")}, h \in WriteHistories}
          \cup {[call |-> Look, entries |-> h] : h \in ReadHistories}
Loop(c) == {[call |-> c, entries |-> h] : h \in LoopHistories}

Runs == UNION {TupleOf(Did, k) : k \in 0 .. 2} \cup TupleOf(Loop(Write("data")), 3)

LogOf(did) ==
    FlattenSeq([a \in DOMAIN did |->
                   [i \in DOMAIN did[a].entries |->
                       [act |-> a, kind |-> did[a].entries[i].kind, val |-> did[a].entries[i].val]]])

Ending == {[finished |-> FALSE, answer |-> None, outcome |-> None, halted |-> TRUE],
           [finished |-> TRUE, answer |-> "done", outcome |-> None, halted |-> FALSE],
           [finished |-> TRUE, answer |-> "sorry", outcome |-> None, halted |-> FALSE],
           [finished |-> TRUE, answer |-> "done", outcome |-> "failure", halted |-> FALSE]}

SomeSessions ==
    {[calls |-> [a \in DOMAIN did |-> did[a].call], log |-> LogOf(did), finished |-> end.finished,
      answer |-> end.answer, outcome |-> end.outcome, halted |-> end.halted] : did \in Runs, end \in Ending}
=============================================================================
