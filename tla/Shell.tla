------------------------------- MODULE Shell --------------------------------
(***************************************************************************)
(* The hooks of the shell adapter (adapters/shell.py), for git: the        *)
(* commits HEAD leads to, and the index.  "git commit" is the command the  *)
(* adapter can undo.                                                       *)
(***************************************************************************)
EXTENDS SequencesExt

CONSTANT None    \* no snapshot

Committed(repo) == IF repo.head = <<>> THEN {} ELSE Last(repo.head)
Pending(repo)   == repo.index # Committed(repo)

(* The exit code, of the command and of its --dry-run. *)
Exit(c, repo) == IF c.cmd = "commit" /\ ~Pending(repo) THEN 1 ELSE 0

After(c, repo) ==
    CASE c.cmd = "commit" -> [repo EXCEPT !.head = Append(@, repo.index)]
      [] c.cmd = "add"    -> [repo EXCEPT !.index = @ \cup {c.file}]
      [] c.cmd = "reset"  -> [repo EXCEPT !.index = Committed(repo)]
      [] c.cmd = "status" -> repo

Run(c, repo) ==
    IF Exit(c, repo) = 0 THEN [ok |-> TRUE, w |-> After(c, repo), result |-> 0]
    ELSE [ok |-> FALSE, w |-> repo, result |-> 1]

shell_risk(c) == CASE c.cmd = "status" -> "read" [] c.cmd = "reset" -> "destructive" [] OTHER -> "write"
risk(c, repo) == shell_risk(c)

(* "git reset" has no --dry-run: nothing is predicted. *)
Simulate(c, repo)    == IF c.cmd = "reset" THEN <<>> ELSE [returncode |-> Exit(c, repo)]
CanSnapshot(c, repo) == TRUE
Snapshot(c, repo)    == IF c.cmd = "commit" THEN repo.head ELSE None
reversible(c)        == c.cmd = "commit"

Observe(c, result, repo) ==
    IF reversible(c) THEN [returncode |-> result, git_head |-> repo.head] ELSE [returncode |-> result]

(* git reset --soft: HEAD goes back, the index stays.  The first commit    *)
(* has nothing to go back to.                                              *)
Undo(c, snap, result, repo) ==
    IF snap = <<>> THEN [ok |-> FALSE, w |-> repo] ELSE [ok |-> TRUE, w |-> [repo EXCEPT !.head = snap]]
=============================================================================
