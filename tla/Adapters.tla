------------------------------ MODULE Adapters ------------------------------
(***************************************************************************)
(* One session through one adapter: the pipeline of core.py calls the      *)
(* adapter's hooks, keeps what they return, and takes actions back with    *)
(* them, while somebody else changes the same world around the guard.      *)
(*                                                                         *)
(* Each call and each undo is one step here: their interleaving is the     *)
(* subject of Gateway, what the hooks do to the world is the subject here. *)
(* Every call that is not a read is previewed, and a deviation is only     *)
(* recorded.                                                               *)
(***************************************************************************)
EXTENDS SequencesExt

CONSTANTS
    None,
    Path, Above,        \* FileSystem
    max_snapshot,       \* SQLiteDB
    Inverses,           \* HTTP
    Tools,              \* the adapters considered
    Calls,              \* tool |-> the calls made through it
    Starts,             \* tool |-> the worlds a session may find
    MaxCalls, MaxOthers \* bounds: calls of the session, changes of others

FS == INSTANCE FileSystem
DB == INSTANCE SQLiteDB
HT == INSTANCE HTTP WITH Gone <- None
SH == INSTANCE Shell
EM == INSTANCE Email

(* What adapter t works on.                                                *)
Resource == UNION {DOMAIN srv : srv \in Starts["http"]}
IsWorld(t, w) ==
    CASE t = "fs"    -> /\ w = [p \in Path |-> w[p]]
                        /\ \A p \in Path : w[p] \in {FS!Absent, FS!Dir} \/ w[p] = FS!File(w[p].data)
      [] t = "db"    -> w = [rows |-> w.rows]
      [] t = "http"  -> w = [url \in Resource |-> w[url]]
      [] t = "sh"    -> w = [head |-> w.head, index |-> w.index]
      [] t = "email" -> w = [sent |-> w.sent]

ASSUME ToolsAssumption == Tools \subseteq {"fs", "db", "http", "sh", "email"}
ASSUME StartsAssumption == \A t \in Tools : \A w \in Starts[t] : IsWorld(t, w)
ASSUME FsAssumption ==
    "fs" \in Tools =>
       /\ \A p \in Path : Above[p] \subseteq Path \ {p}
       /\ \A c \in Calls["fs"] : /\ c.op \in {"write", "append", "delete", "move", "mkdir", "rmdir", "exists"}
                                 /\ c.path \in Path /\ c.dst \in Path
(* A statement that changes rows says so: by its first word, or further on. *)
ASSUME DbAssumption ==
    "db" \in Tools =>
       \A c \in Calls["db"] :
          \/ c.sql.deletes = {} /\ c.sql.inserts = {}
          \/ c.sql.verb \notin DB!Reading
          \/ c.sql.words \cap {"insert", "update", "delete", "drop", "alter", "create", "replace", "pragma"} # {}
(* What an inverse deletes, a POST has made. *)
ASSUME HttpAssumption ==
    "http" \in Tools =>
       /\ \A c \in Calls["http"] : c.method \in {"GET", "PUT", "POST", "DELETE"} /\ c.url \in Resource /\ c.body # None
       /\ \A registered \in Inverses : registered[1] = "POST"
ASSUME ShAssumption == "sh" \in Tools => \A c \in Calls["sh"] : c.cmd \in {"commit", "add", "reset", "status"}

VARIABLES
    tool,
    world,      \* what the adapter works on: paths, rows, resources, a repository
    log,        \* the session's actions, in the order of their "prepared" entries
    others,     \* the changes of others so far
    start,      \* history: the world the session found
    orderly     \* history: nobody else and no misread statement changed the world,
                \* and no action was undone while a later one stood

vars == <<tool, world, log, others, start, orderly>>

-----------------------------------------------------------------------------
(* The hooks of adapter t.                                                 *)
Run(t, c, w) ==
    CASE t = "fs" -> FS!Run(c, w) [] t = "db" -> DB!Run(c, w) [] t = "http" -> HT!Run(c, w)
      [] t = "sh" -> SH!Run(c, w) [] t = "email" -> EM!Run(c, w)

risk(t, c, w) ==
    CASE t = "fs" -> FS!risk(c, w) [] t = "db" -> DB!risk(c, w) [] t = "http" -> HT!risk(c, w)
      [] t = "sh" -> SH!risk(c, w) [] t = "email" -> EM!risk(c, w)

Simulate(t, c, w) ==
    CASE t = "fs" -> FS!Simulate(c, w) [] t = "db" -> DB!Simulate(c, w) [] t = "http" -> HT!Simulate(c, w)
      [] t = "sh" -> SH!Simulate(c, w) [] t = "email" -> EM!Simulate(c, w)

CanSnapshot(t, c, w) == t = "db" => DB!CanSnapshot(c, w)

Snapshot(t, c, w) ==
    CASE t = "fs" -> FS!Snapshot(c, w) [] t = "db" -> DB!Snapshot(c, w) [] t = "http" -> HT!Snapshot(c, w)
      [] t = "sh" -> SH!Snapshot(c, w) [] t = "email" -> EM!Snapshot(c, w)

Observe(t, c, result, w) ==
    CASE t = "fs"   -> FS!Observe(c, result, w) [] t = "db" -> DB!Observe(c, result, w)
      [] t = "http" -> HT!Observe(c, result, w) [] t = "sh" -> SH!Observe(c, result, w)
      [] t = "email" -> EM!Observe(c, result, w)

UndoHook(t, c, snap, result, w) ==
    CASE t = "fs"   -> FS!Undo(c, snap, result, w) [] t = "db" -> DB!Undo(c, snap, result, w)
      [] t = "http" -> HT!Undo(c, snap, result, w) [] t = "sh" -> SH!Undo(c, snap, result, w)

reversible(t, c) ==
    CASE t = "fs" -> FS!reversible(c) [] t = "db" -> DB!reversible(c) [] t = "http" -> HT!reversible(c)
      [] t = "sh" -> SH!reversible(c) [] t = "email" -> EM!reversible(c)

-----------------------------------------------------------------------------
(* _execute and _commit: an action and what the ledger and the blobs know  *)
(* of it.  Of an action that failed, nothing was observed.                 *)
Act(t, c, w) ==
    LET done == Run(t, c, w)
    IN  [call |-> c, status |-> IF done.ok THEN "committed" ELSE "failed",
         predicted |-> Simulate(t, c, w), snapshot |-> Snapshot(t, c, w), result |-> done.result,
         observed |-> IF done.ok THEN {Observe(t, c, done.result, done.w)} ELSE {}, pre |-> w, post |-> done.w]

(* _check_deviation: of what was predicted and can be observed, what differs. *)
Mismatches(act) ==
    {k \in DOMAIN act.predicted : \E seen \in act.observed : k \in DOMAIN seen /\ act.predicted[k] # seen[k]}

(* undo: what may be undone, and the check that nothing newer is in the way; *)
(* a failed action was not observed, and is not checked.                   *)
Undoable(t, act) ==
    /\ act.status \in {"committed", "failed"}
    /\ reversible(t, act.call)
    /\ act.status = "failed" => act.snapshot # None

NoConflict(t, act, w) == act.status = "committed" => Observe(t, act.call, act.result, w) \in act.observed

UndoOf(t, act, w) ==
    IF Undoable(t, act) /\ NoConflict(t, act, w) THEN UndoHook(t, act.call, act.snapshot, act.result, w)
    ELSE [ok |-> FALSE, w |-> w]

(* rollback: every action that can be undone, the newest first; one that   *)
(* cannot is passed over.  What the world is when those from i on are      *)
(* done with.                                                              *)
Left(t, acts, w) ==
    LET left[i \in 1 .. Len(acts) + 1] == IF i > Len(acts) THEN w ELSE UndoOf(t, acts[i], left[i + 1]).w
    IN  left

(* replay into a sandbox: what committed, in the order of the first        *)
(* entries, and undone at once if it was undone.                           *)
ReplayOf(t, act, w) ==
    LET done == Run(t, act.call, w)
    IN  IF act.observed = {} THEN w       \* it never committed
        ELSE IF act.status = "undone" /\ done.ok
        THEN UndoHook(t, act.call, Snapshot(t, act.call, w), done.result, done.w).w
        ELSE done.w

Again(t, acts, w) ==
    LET again[i \in 0 .. Len(acts)] == IF i = 0 THEN w ELSE ReplayOf(t, acts[i], again[i - 1])
    IN  again

-----------------------------------------------------------------------------
Init == /\ tool \in Tools
        /\ world \in Starts[tool]
        /\ log = <<>> /\ others = 0
        /\ start = world /\ orderly = TRUE

(* After log' every later action than one just undone is undone, too.      *)
NewestFirst ==
    \A i, j \in DOMAIN log : i < j /\ log'[i].status # log[i].status => log'[j].status = "undone"

(* db.query runs any statement, and pragma and "with ... replace" pass for *)
(* reads although they are none.                                           *)
Misread(c) == tool = "db" /\ (c.op = "query" \/ c.sql.words \cap {"replace", "pragma"} # {})

(* A read just runs.  Without a snapshot an action does not run.           *)
Call(c) ==
    /\ Len(log) < MaxCalls
    /\ world' = Run(tool, c, world).w
    /\ IF risk(tool, c, world) = "read"
       THEN UNCHANGED log /\ orderly' = (orderly /\ (Misread(c) => world' = world))
       ELSE CanSnapshot(tool, c, world) /\ log' = Append(log, Act(tool, c, world)) /\ UNCHANGED orderly
    /\ UNCHANGED <<tool, others, start>>

(* An inverse that fails leaves the action as it is ("undo_failed"), the   *)
(* world perhaps not.                                                      *)
Undo(i) ==
    LET u == UndoOf(tool, log[i], world)
    IN  /\ Undoable(tool, log[i])
        /\ world' = u.w
        /\ log' = IF u.ok THEN [log EXCEPT ![i].status = "undone"] ELSE log
        /\ orderly' = (orderly /\ NewestFirst)
        /\ UNCHANGED <<tool, others, start>>

Rollback ==
    LET left == Left(tool, log, world)
    IN  /\ log # <<>>
        /\ world' = left[1]
        /\ log' = [i \in DOMAIN log |-> IF UndoOf(tool, log[i], left[i + 1]).ok
                                        THEN [log[i] EXCEPT !.status = "undone"] ELSE log[i]]
        /\ orderly' = (orderly /\ NewestFirst)
        /\ UNCHANGED <<tool, others, start>>

(* Somebody else, not through the guard. *)
Other(c) ==
    /\ others < MaxOthers
    /\ world' = Run(tool, c, world).w
    /\ others' = others + 1
    /\ orderly' = FALSE
    /\ UNCHANGED <<tool, log, start>>

Next == \/ \E c \in Calls[tool] : Call(c) \/ Other(c)
        \/ \E i \in DOMAIN log : Undo(i)
        \/ Rollback

Spec == Init /\ [][Next]_vars

-----------------------------------------------------------------------------
(* The same world, but for directories made on the way to a file, or made  *)
(* again, which an undo may leave behind.                                  *)
Same(t, w, v) ==
    \A p \in DOMAIN w : w[p] = v[p] \/ (t = "fs" /\ {w[p], v[p]} = {FS!Dir, FS!Absent})

(* PUT of a resource that was not there, the first commit.                 *)
NothingToRestore(t, act) ==
    \/ t = "http" /\ act.snapshot = None /\ ~HT!Inverse(act.call)
    \/ t = "sh" /\ act.snapshot = <<>>

(* Nothing is a file at one time and a directory at another.  Where a path *)
(* is both, a directory left behind may be in the way of a file: deleting  *)
(* a file and failing to rmdir its path, for one, is not rolled back.      *)
FilePath == {c.path : c \in {c \in Calls["fs"] : c.op \in {"write", "append", "move"}}}
              \cup {c.dst : c \in {c \in Calls["fs"] : c.op = "move"}}
              \cup (UNION {{p \in Path : FS!IsFile(w[p])} : w \in Starts["fs"]})
DirPath  == {c.path : c \in {c \in Calls["fs"] : c.op \in {"mkdir", "rmdir"}}}
              \cup (UNION {Above[p] : p \in Path})
              \cup (UNION {{p \in Path : w[p] = FS!Dir} : w \in Starts["fs"]})
PathsApart == tool = "fs" => FilePath \cap DirPath = {}

(* "Undo restores the pre-state of what an action touched" (README.md:229), *)
(* of an action that failed: moving a file that is not there to one that   *)
(* is does not keep it.                                                    *)
FailedMove(t, act) == t = "fs" /\ act.call.op = "move" /\ act.observed = {}
FailedUndoRestores ==
    \A i \in DOMAIN log :
       log[i].status = "failed" /\ world = log[i].post => Same(tool, UndoOf(tool, log[i], world).w, log[i].pre)

(* "An undo never silently overwrites newer changes" (README.md:229): of   *)
(* what the undo of a committed action replaces, the action itself left    *)
(* what is there; by the observation alone, whoever else wrote and         *)
(* whatever was undone out of order.  Not through HTTP, where only the     *)
(* response is observed.                                                   *)
UndoKeepsNewer ==
    [][\A i \in DOMAIN log :
         Undo(i) /\ log[i].status = "committed" /\ tool # "http" =>
            \A p \in DOMAIN world :
               \/ world'[p] = world[p]
               \/ world[p] = log[i].post[p]
               \/ tool = "fs" /\ world[p] = FS!Absent /\ world'[p] = FS!Dir]_vars

(* A rollback of a session nobody interfered with leaves the world as the  *)
(* session found it, if each of its actions can be undone at all: what is  *)
(* reversible has an inverse that can be applied and restores what was     *)
(* there ("every reversible action has an inverse", README.md:34), and     *)
(* what passes for a read had no effect ("no side effects", model.py:13).  *)
(* Files and directories have paths of their own.                          *)
RollbackRestores ==
    [][Rollback /\ orderly /\ PathsApart
          /\ (\A i \in DOMAIN log : reversible(tool, log[i].call) /\ ~NothingToRestore(tool, log[i])
                                      /\ ~FailedMove(tool, log[i]))
       => Same(tool, world', start)]_vars

(* What was predicted is observed when nobody interferes: the guard never  *)
(* takes back or halts for a deviation of its own making.  A file moved    *)
(* onto itself is predicted to be gone.                                    *)
PredictionHolds ==
    \A i \in DOMAIN log : Mismatches(log[i]) # {} => log[i].call.op = "move" /\ log[i].call.path = log[i].call.dst

(* "The sandbox ends in the same state" (core.py:585), after a session     *)
(* nobody interfered with, undone newest first if at all.  Not if requests *)
(* were undone: the replay undoes each at once, and the next one, sent to  *)
(* a resource that is not there then, may have nothing to go back to.      *)
ReplayReproduces ==
    /\ orderly /\ PathsApart
    /\ \A i \in DOMAIN log : ~FailedMove(tool, log[i]) /\ (tool = "http" => log[i].status # "undone")
    => Same(tool, Again(tool, log, start)[Len(log)], world)
=============================================================================
