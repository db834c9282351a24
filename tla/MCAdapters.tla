----------------------------- MODULE MCAdapters -----------------------------
(* Instances of Adapters: a directory, a file in it and one beside it; two *)
(* rows; two resources; a repository with two files; a mail.               *)
EXTENDS Adapters

Paths  == {"d", "d/f", "g"}
Aboves == [p \in Paths |-> IF p = "d/f" THEN {"d"} ELSE {}]

File(op, p) == [op |-> op, path |-> p, dst |-> p, data |-> <<>>]
Write(op, p, v) == [File(op, p) EXCEPT !.data = <<v>>]
Move(p, q)      == [File("move", p) EXCEPT !.dst = q]
FsCalls == {Write("write", "g", "v1"), Write("write", "d/f", "v1"), File("delete", "d"), Write("append", "g", "v2"),
            File("delete", "g"), File("delete", "d/f"), Move("g", "d/f"), Move("d/f", "g"), Move("g", "g"),
            File("mkdir", "d"), File("rmdir", "d"), File("exists", "g")}
FsStarts == {[p \in Paths |-> FS!Absent],
             [p \in Paths |-> IF p = "d" THEN FS!Dir ELSE FS!File(<<"v0">>)]}

SQL(op, verb, words, del, ins) == [op |-> op, sql |-> [verb |-> verb, words |-> words, deletes |-> del, inserts |-> ins]]
DbCalls == {SQL("execute", "insert", {"insert"}, {}, {1}), SQL("execute", "insert", {"insert"}, {}, {1, 2}),
            SQL("execute", "delete", {"delete"}, {1, 2}, {}), SQL("execute", "replace", {"replace"}, {1}, {1}),
            SQL("execute", "with", {"with", "delete"}, {2}, {}), SQL("execute", "with", {"with", "replace"}, {2}, {2}),
            SQL("execute", "select", {"select"}, {}, {}), SQL("query", "select", {"select"}, {}, {}),
            SQL("query", "delete", {"delete"}, {1}, {})}
DbStarts == {[rows |-> {}], [rows |-> {2}], [rows |-> {2, 3}]}

Urls == {"orders", "users"}
Request(m, u, b) == [op |-> "request", method |-> m, url |-> u, body |-> b]
HttpCalls  == {Request(m, u, "v1") : m \in {"GET", "PUT", "POST", "DELETE"}, u \in Urls} \cup {Request("PUT", "users", "v2")}
HttpStarts == {[u \in Urls |-> None], [u \in Urls |-> "v0"]}

Cmd(cmd, f) == [op |-> "run", cmd |-> cmd, file |-> f]
ShCalls  == {Cmd("commit", None), Cmd("add", "f1"), Cmd("add", "f2"), Cmd("reset", None), Cmd("status", None)}
ShStarts == {[head |-> <<>>, index |-> {}], [head |-> <<{"f0"}>>, index |-> {"f0"}]}

ToolCalls  == [fs |-> FsCalls, db |-> DbCalls, http |-> HttpCalls, sh |-> ShCalls, email |-> {[op |-> "send", to |-> "a"]}]
ToolStarts == [fs |-> FsStarts, db |-> DbStarts, http |-> HttpStarts, sh |-> ShStarts, email |-> {[sent |-> <<>>]}]
OrderInverse == {<<"POST", "orders">>}
=============================================================================
