----------------------------- MODULE FileSystem -----------------------------
(***************************************************************************)
(* The hooks of the file system adapter (adapters/fs.py).  The tree under  *)
(* root is a function from paths to what is there; contents are sequences  *)
(* of the pieces written, so they are told apart and can be appended to.   *)
(***************************************************************************)
EXTENDS Sequences, FiniteSets

CONSTANTS
    Path,   \* paths under root; nothing outside is reachable (resolve)
    Above   \* path |-> the directories above it, below root

Absent     == [is |-> "absent", data |-> <<>>]
Dir        == [is |-> "dir", data |-> <<>>]
File(data) == [is |-> "file", data |-> data]

IsFile(node) == node.is = "file"
Below(a)     == {q \in Path : a \in Above[q]}
Empty(fs, a) == \A q \in Below(a) : fs[q] = Absent

(* mkdir(parents=True): impossible if a file is in the way.                *)
CanHold(fs, p)   == \A a \in Above[p] : ~IsFile(fs[a])
MkParents(fs, p) == [q \in Path |-> IF q \in Above[p] /\ fs[q] = Absent THEN Dir ELSE fs[q]]

Done(fs)  == [ok |-> TRUE, w |-> fs, result |-> "done"]
Fails(fs) == [ok |-> FALSE, w |-> fs, result |-> "raised"]

Old(fs, p)      == IF IsFile(fs[p]) THEN fs[p].data ELSE <<>>
Written(c, fs)  == File(IF c.op = "append" THEN Old(fs, c.path) \o c.data ELSE c.data)
Moved(c, fs)    == [q \in Path |-> IF q = c.dst THEN fs[c.path] ELSE IF q = c.path THEN Absent
                                   ELSE MkParents(fs, c.dst)[q]]

(* Can the operation be done, and what does it leave?                      *)
Possible(c, fs) ==
    \/ c.op \in {"write", "append"} /\ CanHold(fs, c.path) /\ fs[c.path] # Dir
    \/ c.op = "delete" /\ IsFile(fs[c.path])
    \/ c.op = "move"   /\ IsFile(fs[c.path]) /\ CanHold(fs, c.dst) /\ fs[c.dst] # Dir
    \/ c.op = "mkdir"  /\ CanHold(fs, c.path) /\ ~IsFile(fs[c.path])
    \/ c.op = "rmdir"  /\ fs[c.path] = Dir /\ Empty(fs, c.path)
    \/ c.op = "exists"

After(c, fs) ==
    CASE c.op \in {"write", "append"} -> [MkParents(fs, c.path) EXCEPT ![c.path] = Written(c, fs)]
      [] c.op \in {"delete", "rmdir"} -> [fs EXCEPT ![c.path] = Absent]
      [] c.op = "move"                -> Moved(c, fs)
      [] c.op = "mkdir"               -> [MkParents(fs, c.path) EXCEPT ![c.path] = Dir]
      [] c.op = "exists"              -> fs

Run(c, fs) == IF Possible(c, fs) THEN Done(After(c, fs)) ELSE Fails(fs)

risk(c, fs) ==
    CASE c.op = "exists" -> "read"
      [] c.op = "delete" -> "destructive"
      [] c.op = "move"   -> IF fs[c.dst] # Absent THEN "destructive" ELSE "write"
      [] OTHER           -> "write"

-----------------------------------------------------------------------------
(* A digest is the file it digests; Absent when there is no file.          *)
Sha(node)   == IF IsFile(node) THEN node ELSE Absent
(* Faulty variant: the content is not observed.                            *)
Existence(node) == [exists |-> node # Absent, sha256 |-> Absent]

State(node) == [exists |-> node # Absent, sha256 |-> Sha(node)]

Simulate(c, fs) ==
    CASE c.op \in {"write", "append"} -> State(Written(c, fs))
      [] c.op = "delete" -> IF IsFile(fs[c.path]) THEN State(Absent) ELSE [exists |-> fs[c.path] # Absent]
      [] c.op = "move"   -> [src_exists |-> FALSE, dst_sha256 |-> Sha(fs[c.path])]
      [] c.op = "mkdir"  -> [is_dir |-> TRUE]
      [] c.op = "rmdir"  -> [is_dir |-> FALSE]

Observe(c, result, fs) ==
    CASE c.op \in {"write", "append", "delete"} -> State(fs[c.path])
      [] c.op = "move"              -> [src_exists |-> fs[c.path] # Absent, dst_sha256 |-> Sha(fs[c.dst])]
      [] c.op \in {"mkdir", "rmdir"} -> [is_dir |-> fs[c.path] = Dir]

CanSnapshot(c, fs) == TRUE

Snapshot(c, fs) ==
    CASE c.op \in {"write", "append", "delete"} -> fs[c.path]
      [] c.op = "move"  -> <<fs[c.path], fs[c.dst]>>
      [] c.op = "mkdir" -> {a \in Above[c.path] \cup {c.path} : fs[a] = Absent}
      [] c.op = "rmdir" -> c.path

(* Faulty variant: a file that was not there stays.                        *)
RestoreData(fs, p, node) ==
    IF IsFile(node) /\ CanHold(fs, p) /\ fs[p] # Dir THEN Done([MkParents(fs, p) EXCEPT ![p] = node]) ELSE Done(fs)

(* _restore: write what was there, or remove the file that was not.        *)
Restore(fs, p, node) ==
    IF IsFile(node)
    THEN IF CanHold(fs, p) /\ fs[p] # Dir THEN Done([MkParents(fs, p) EXCEPT ![p] = node]) ELSE Fails(fs)
    ELSE Done(IF node = Absent /\ IsFile(fs[p]) THEN [fs EXCEPT ![p] = Absent] ELSE fs)

(* mkdir_undo: of the directories that were made, deepest first, those     *)
(* that are empty by then; a non-empty one is left without a word.         *)
Removable(fs, created) ==
    {a \in created : fs[a] = Dir /\ \A q \in Below(a) : fs[q] = Absent \/ (fs[q] = Dir /\ q \in created)}

(* os.replace: a file takes the place of a file or of nothing, a directory *)
(* that of nothing or of an empty directory outside of it.  (What is in it *)
(* goes along, to paths that Path does not name.)                          *)
CanReplace(fs, from, to) ==
    \/ IsFile(fs[from]) /\ fs[to] # Dir
    \/ fs[from] = Dir /\ from = to
    \/ fs[from] = Dir /\ from \notin Above[to] /\ ~IsFile(fs[to]) /\ Empty(fs, to)

Replaced(fs, from, to) ==
    [q \in Path |-> IF q = to THEN fs[from]
                    ELSE IF q = from \/ (fs[from] = Dir /\ from \in Above[q] \ {to}) THEN Absent
                    ELSE fs[q]]

(* move_undo: what is at the destination goes back, and what it replaced   *)
(* is restored.                                                            *)
UndoMove(c, replaced, fs) ==
    LET made == MkParents(fs, c.path)
    IN  IF ~CanHold(fs, c.path) THEN Fails(fs)
        ELSE IF ~CanReplace(made, c.dst, c.path) THEN Fails(made)
        ELSE Restore(Replaced(made, c.dst, c.path), c.dst, replaced)

Undo(c, snap, result, fs) ==
    CASE c.op \in {"write", "append", "delete"} -> Restore(fs, c.path, snap)
      [] c.op = "move"  -> UndoMove(c, snap[2], fs)
      [] c.op = "mkdir" -> Done([q \in Path |-> IF q \in Removable(fs, snap) THEN Absent ELSE fs[q]])
      [] c.op = "rmdir" ->
           IF CanHold(fs, snap) /\ ~IsFile(fs[snap])
           THEN Done([MkParents(fs, snap) EXCEPT ![snap] = Dir]) ELSE Fails(fs)

reversible(c) == TRUE
=============================================================================
