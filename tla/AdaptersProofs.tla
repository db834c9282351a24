--------------------------- MODULE AdaptersProofs ---------------------------
(***************************************************************************)
(* What the adapters' hooks do to any world, and what becomes of a session *)
(* of any length through one of them.                                      *)
(***************************************************************************)
EXTENDS Adapters, WellFoundedInduction, FiniteSetTheorems, TLAPS

(***************************************************************************)
(* The file system.  Two trees are the same to an undo if they have the    *)
(* same files; directories may be left or made again.                      *)
(***************************************************************************)
IsNode(n) == n \in {FS!Absent, FS!Dir} \/ n = FS!File(n.data)
IsTree(w) == w = [p \in Path |-> w[p]] /\ \A p \in Path : IsNode(w[p])

(* What can be at a path.                                                  *)
LEMMA Nodes ==
    /\ FS!Absent # FS!Dir /\ ~FS!IsFile(FS!Absent) /\ ~FS!IsFile(FS!Dir)
    /\ \A d : FS!IsFile(FS!File(d)) /\ FS!File(d).data = d
    /\ \A n : FS!IsFile(n) => n # FS!Absent /\ n # FS!Dir
    /\ \A n : IsNode(n) => FS!IsFile(n) \/ n = FS!Absent \/ n = FS!Dir
    /\ IsNode(FS!Absent) /\ IsNode(FS!Dir) /\ \A d : IsNode(FS!File(d))
<1>1. FS!Absent # FS!Dir /\ ~FS!IsFile(FS!Absent) /\ ~FS!IsFile(FS!Dir)
  BY DEF FS!Absent, FS!Dir, FS!IsFile
<1>2. ASSUME NEW d PROVE FS!IsFile(FS!File(d)) /\ FS!File(d).data = d
  BY DEF FS!File, FS!IsFile
<1>3. \A n : IsNode(n) => FS!IsFile(n) \/ n = FS!Absent \/ n = FS!Dir
  BY <1>2 DEF IsNode
<1>. QED
  BY <1>1, <1>2, <1>3 DEF IsNode

(* mkdir(parents=True), path by path. *)
LEMMA Parents ==
    ASSUME NEW w, IsTree(w), NEW p \in Path
    PROVE  /\ IsTree(FS!MkParents(w, p))
           /\ \A q \in Path : FS!MkParents(w, p)[q] = IF q \in Above[p] /\ w[q] = FS!Absent THEN FS!Dir ELSE w[q]
<1>. DEFINE m == FS!MkParents(w, p)
<1>1. m = [q \in Path |-> IF q \in Above[p] /\ w[q] = FS!Absent THEN FS!Dir ELSE w[q]]
  BY DEF FS!MkParents
<1>2. \A q \in Path : m[q] = IF q \in Above[p] /\ w[q] = FS!Absent THEN FS!Dir ELSE w[q]
  BY <1>1
<1>3. m = [q \in Path |-> m[q]]
  BY <1>1
<1>. HIDE DEF m
<1>4. \A q \in Path : IsNode(m[q])
  BY <1>2, Nodes DEF IsTree
<1>. QED
  BY <1>2, <1>3, <1>4 DEF IsTree, m

(* A tree with another node at one path.                                   *)
LEMMA Put ==
    ASSUME NEW w, IsTree(w), NEW p \in Path, NEW node, IsNode(node)
    PROVE  /\ IsTree([w EXCEPT ![p] = node])
           /\ \A q \in Path : [w EXCEPT ![p] = node][q] = IF q = p THEN node ELSE w[q]
<1>. DEFINE v == [w EXCEPT ![p] = node]
<1>1. w = [q \in Path |-> w[q]]
  BY DEF IsTree
<1>2. v = [q \in Path |-> IF q = p THEN node ELSE w[q]]
  BY <1>1
<1>3. \A q \in Path : v[q] = IF q = p THEN node ELSE w[q]
  BY <1>2
<1>4. v = [q \in Path |-> v[q]]
  BY <1>2
<1>. HIDE DEF v
<1>5. \A q \in Path : IsNode(v[q])
  BY <1>3 DEF IsTree
<1>. QED
  BY <1>3, <1>4, <1>5 DEF IsTree, v

-----------------------------------------------------------------------------
(* What each operation leaves, path by path.                               *)
Leaves(c, w, v) ==
    /\ IsTree(v)
    /\ c.op \in {"write", "append"} =>
          \A q \in Path : v[q] = IF q = c.path THEN FS!Written(c, w) ELSE FS!MkParents(w, c.path)[q]
    /\ c.op \in {"delete", "rmdir"} => \A q \in Path : v[q] = IF q = c.path THEN FS!Absent ELSE w[q]
    /\ c.op = "move" =>
          \A q \in Path : v[q] = IF q = c.dst THEN w[c.path] ELSE IF q = c.path THEN FS!Absent
                                 ELSE FS!MkParents(w, c.dst)[q]
    /\ c.op = "mkdir" => \A q \in Path : v[q] = IF q = c.path THEN FS!Dir ELSE FS!MkParents(w, c.path)[q]
    /\ c.op = "exists" => v = w

FsOp == {"write", "append", "delete", "move", "mkdir", "rmdir", "exists"}

(* After does what Leaves says. *)
LEMMA FsAfter ==
    ASSUME NEW w, IsTree(w), NEW c, c.op \in FsOp, c.path \in Path, c.dst \in Path
    PROVE  Leaves(c, w, FS!After(c, w))
<1>1. IsTree(FS!MkParents(w, c.path)) /\ IsTree(FS!MkParents(w, c.dst))
  BY Parents
<1>2. CASE c.op \in {"write", "append"}
  <2>1. FS!After(c, w) = [FS!MkParents(w, c.path) EXCEPT ![c.path] = FS!Written(c, w)]
    BY <1>2 DEF FS!After
  <2>2. IsNode(FS!Written(c, w))
    BY Nodes DEF FS!Written
  <2>. DEFINE m    == FS!MkParents(w, c.path)
              node == FS!Written(c, w)
              v    == [m EXCEPT ![c.path] = node]
  <2>. HIDE DEF m, node
  <2>3. IsTree(v) /\ \A q \in Path : v[q] = IF q = c.path THEN node ELSE m[q]
    BY <1>1, <2>2, Put DEF m, node
  <2>4. FS!After(c, w) = v
    BY <2>1 DEF m, node
  <2>. HIDE DEF v
  <2>5. c.op \notin {"delete", "rmdir"} /\ c.op # "move" /\ c.op # "mkdir" /\ c.op # "exists"
    BY <1>2
  <2>6. \A q \in Path : v[q] = IF q = c.path THEN FS!Written(c, w) ELSE FS!MkParents(w, c.path)[q]
    BY <2>3 DEF m, node
  <2>7. Leaves(c, w, v)
    BY <2>3, <2>5, <2>6 DEF Leaves
  <2>. QED
    BY <2>4, <2>7
<1>3. CASE c.op \in {"delete", "rmdir"}
  <2>1. FS!After(c, w) = [w EXCEPT ![c.path] = FS!Absent]
    BY <1>3 DEF FS!After
  <2>. DEFINE v == [w EXCEPT ![c.path] = FS!Absent]
  <2>2. IsTree(v) /\ \A q \in Path : v[q] = IF q = c.path THEN FS!Absent ELSE w[q]
    BY Put, Nodes
  <2>. HIDE DEF v
  <2>3. Leaves(c, w, v)
    BY <1>3, <2>2 DEF Leaves
  <2>. QED
    BY <2>1, <2>3 DEF v
<1>4. CASE c.op = "move"
  <2>. DEFINE v == FS!Moved(c, w)
  <2>1. v = [q \in Path |-> IF q = c.dst THEN w[c.path] ELSE IF q = c.path THEN FS!Absent
                             ELSE FS!MkParents(w, c.dst)[q]]
    BY DEF FS!Moved
  <2>2. \A q \in Path : v[q] = IF q = c.dst THEN w[c.path] ELSE IF q = c.path THEN FS!Absent
                               ELSE FS!MkParents(w, c.dst)[q]
    BY <2>1
  <2>3. v = [q \in Path |-> v[q]]
    BY <2>1
  <2>4. FS!After(c, w) = v
    BY <1>4 DEF FS!After
  <2>. HIDE DEF v
  <2>5. \A q \in Path : IsNode(v[q])
    BY <1>1, <2>2, Nodes DEF IsTree
  <2>. QED
    BY <1>4, <2>2, <2>3, <2>4, <2>5 DEF Leaves, IsTree
<1>5. CASE c.op = "mkdir"
  <2>1. FS!After(c, w) = [FS!MkParents(w, c.path) EXCEPT ![c.path] = FS!Dir]
    BY <1>5 DEF FS!After
  <2>. DEFINE m == FS!MkParents(w, c.path)
              v == [m EXCEPT ![c.path] = FS!Dir]
  <2>. HIDE DEF m
  <2>2. IsTree(v) /\ \A q \in Path : v[q] = IF q = c.path THEN FS!Dir ELSE m[q]
    BY <1>1, Put, Nodes DEF m
  <2>. HIDE DEF v
  <2>3. Leaves(c, w, v)
    BY <1>5, <2>2 DEF Leaves, m
  <2>. QED
    BY <2>1, <2>3 DEF v, m
<1>6. CASE c.op = "exists"
  <2>1. FS!After(c, w) = w
    BY <1>6 DEF FS!After
  <2>. QED
    BY <1>6, <2>1 DEF Leaves
<1>. QED
  BY <1>2, <1>3, <1>4, <1>5, <1>6 DEF FsOp

(* An operation that cannot be done changes nothing.                       *)
LEMMA FsRun ==
    ASSUME NEW w, IsTree(w), NEW c, c.op \in FsOp, c.path \in Path, c.dst \in Path
    PROVE  LET done == FS!Run(c, w)
           IN  /\ IsTree(done.w) /\ (done.ok <=> FS!Possible(c, w))
               /\ FS!Possible(c, w) => Leaves(c, w, done.w)
               /\ ~FS!Possible(c, w) => done.w = w
<1>1. CASE FS!Possible(c, w)
  <2>1. FS!Run(c, w).w = FS!After(c, w) /\ FS!Run(c, w).ok = TRUE
    BY <1>1 DEF FS!Run, FS!Done
  <2>. QED
    BY <1>1, <2>1, FsAfter DEF Leaves
<1>2. CASE ~FS!Possible(c, w)
  <2>1. FS!Run(c, w).w = w /\ FS!Run(c, w).ok = FALSE
    BY <1>2 DEF FS!Run, FS!Fails
  <2>. QED
    BY <1>2, <2>1
<1>. QED
  BY <1>1, <1>2

-----------------------------------------------------------------------------
(* _restore. *)
LEMMA RestoreFacts ==
    ASSUME NEW v, IsTree(v), NEW p \in Path, NEW node, IsNode(node)
    PROVE  LET done == FS!Restore(v, p, node)
           IN  /\ IsTree(done.w)
               /\ FS!IsFile(node) =>
                     /\ done.ok <=> FS!CanHold(v, p) /\ v[p] # FS!Dir
                     /\ done.ok => \A q \in Path : done.w[q] = IF q = p THEN node ELSE FS!MkParents(v, p)[q]
                     /\ ~done.ok => done.w = v
               /\ ~FS!IsFile(node) =>
                     /\ done.ok
                     /\ \A q \in Path : done.w[q] = IF q = p /\ node = FS!Absent /\ FS!IsFile(v[p]) THEN FS!Absent
                                                    ELSE v[q]
<1>1. CASE FS!IsFile(node) /\ FS!CanHold(v, p) /\ v[p] # FS!Dir
  <2>. DEFINE m == FS!MkParents(v, p)
              x == [m EXCEPT ![p] = node]
  <2>1. FS!Restore(v, p, node).w = x /\ FS!Restore(v, p, node).ok = TRUE
    BY <1>1 DEF FS!Restore, FS!Done
  <2>2. IsTree(m)
    BY Parents
  <2>. HIDE DEF m
  <2>3. IsTree(x) /\ \A q \in Path : x[q] = IF q = p THEN node ELSE m[q]
    BY <2>2, Put
  <2>. HIDE DEF x
  <2>. QED
    BY <1>1, <2>1, <2>3 DEF m
<1>2. CASE FS!IsFile(node) /\ ~(FS!CanHold(v, p) /\ v[p] # FS!Dir)
  <2>1. FS!Restore(v, p, node).w = v /\ FS!Restore(v, p, node).ok = FALSE
    BY <1>2 DEF FS!Restore, FS!Fails
  <2>. QED
    BY <1>2, <2>1
<1>3. CASE ~FS!IsFile(node) /\ node = FS!Absent /\ FS!IsFile(v[p])
  <2>. DEFINE x == [v EXCEPT ![p] = FS!Absent]
  <2>1. FS!Restore(v, p, node).w = x /\ FS!Restore(v, p, node).ok = TRUE
    BY <1>3 DEF FS!Restore, FS!Done
  <2>2. IsTree(x) /\ \A q \in Path : x[q] = IF q = p THEN FS!Absent ELSE v[q]
    BY Put, Nodes
  <2>. HIDE DEF x
  <2>. QED
    BY <1>3, <2>1, <2>2
<1>4. CASE ~FS!IsFile(node) /\ ~(node = FS!Absent /\ FS!IsFile(v[p]))
  <2>1. FS!Restore(v, p, node).w = v /\ FS!Restore(v, p, node).ok = TRUE
    BY <1>4 DEF FS!Restore, FS!Done
  <2>. QED
    BY <1>4, <2>1
<1>. QED
  BY <1>1, <1>2, <1>3, <1>4

(* A restored tree is a tree. *)
LEMMA RestoreTree ==
    ASSUME NEW v, IsTree(v), NEW p \in Path, NEW node, IsNode(node)
    PROVE  IsTree(FS!Restore(v, p, node).w)
BY RestoreFacts

(* Elsewhere, a restore makes directories at most. *)
LEMMA RestoreKeeps ==
    ASSUME NEW v, IsTree(v), NEW p \in Path, NEW node, IsNode(node), NEW q \in Path, q # p
    PROVE  FS!Restore(v, p, node).w[q] \in {v[q], FS!MkParents(v, p)[q]}
<1>. DEFINE done == FS!Restore(v, p, node)
<1>1. FS!IsFile(node) /\ done.ok => \A h \in Path : done.w[h] = IF h = p THEN node ELSE FS!MkParents(v, p)[h]
  BY RestoreFacts
<1>2. FS!IsFile(node) /\ ~done.ok => done.w = v
  BY RestoreFacts
<1>3. ~FS!IsFile(node) => \A h \in Path : done.w[h] = IF h = p /\ node = FS!Absent /\ FS!IsFile(v[p]) THEN FS!Absent
                                                      ELSE v[h]
  BY RestoreFacts
<1>. HIDE DEF done
<1>4. done.w[q] \in {v[q], FS!MkParents(v, p)[q]}
  BY <1>1, <1>2, <1>3
<1>. QED
  BY <1>4 DEF done

(* The undo of a move: what is there goes back, before what it replaced does. *)
MovedBack(c, v) == FS!Replaced(FS!MkParents(v, c.path), c.dst, c.path)

CanGoBack(c, v) == FS!CanReplace(FS!MkParents(v, c.path), c.dst, c.path)

(* What is where after it. *)
LEMMA MovedBackFacts ==
    ASSUME NEW v, IsTree(v), NEW c, c.path \in Path, c.dst \in Path
    PROVE  LET m == FS!MkParents(v, c.path)
           IN  /\ IsTree(MovedBack(c, v))
               /\ MovedBack(c, v)[c.path] = m[c.dst]
               /\ c.dst # c.path => MovedBack(c, v)[c.dst] = FS!Absent
               /\ \A q \in Path \ {c.path, c.dst} : m[c.dst] # FS!Dir => MovedBack(c, v)[q] = m[q]
<1>. DEFINE x == MovedBack(c, v)
            m == FS!MkParents(v, c.path)
            gone(q) == q = c.dst \/ (m[c.dst] = FS!Dir /\ c.dst \in Above[q] \ {c.path})
<1>1. x = [q \in Path |-> IF q = c.path THEN m[c.dst] ELSE IF gone(q) THEN FS!Absent ELSE m[q]]
  BY DEF MovedBack, FS!Replaced
<1>3. IsTree(m)
  BY Parents
<1>. HIDE DEF x, m
<1>2. \A q \in Path : x[q] = IF q = c.path THEN m[c.dst] ELSE IF gone(q) THEN FS!Absent ELSE m[q]
  BY <1>1
<1>5. x = [q \in Path |-> x[q]]
  BY <1>1
<1>. HIDE DEF gone
<1>4. \A q \in Path : IsNode(x[q])
  BY <1>2, <1>3, Nodes DEF IsTree
<1>6. IsTree(x)
  BY <1>4, <1>5 DEF IsTree
<1>7. x[c.path] = m[c.dst] /\ (c.dst # c.path => x[c.dst] = FS!Absent)
  BY <1>2 DEF gone
<1>8. \A q \in Path \ {c.path, c.dst} : m[c.dst] # FS!Dir => x[q] = m[q]
  BY <1>2 DEF gone
<1>. QED
  BY <1>6, <1>7, <1>8 DEF x, m

(* The undo of a move in three cases. *)
LEMMA UndoMoveCases ==
    ASSUME NEW c, c.op = "move", NEW pre, NEW r, NEW v
    PROVE  LET u == FS!Undo(c, FS!Snapshot(c, pre), r, v)
           IN  /\ ~FS!CanHold(v, c.path) => u = FS!Fails(v)
               /\ FS!CanHold(v, c.path) /\ ~CanGoBack(c, v) => u = FS!Fails(FS!MkParents(v, c.path))
               /\ FS!CanHold(v, c.path) /\ CanGoBack(c, v) => u = FS!Restore(MovedBack(c, v), c.dst, pre[c.dst])
<1>. DEFINE u == FS!Undo(c, FS!Snapshot(c, pre), r, v)
<1>1. FS!Snapshot(c, pre)[2] = pre[c.dst]
  BY DEF FS!Snapshot
<1>2. u = FS!UndoMove(c, FS!Snapshot(c, pre)[2], v)
  BY DEF FS!Undo
<1>3. u = FS!UndoMove(c, pre[c.dst], v)
  BY <1>1, <1>2
<1>. HIDE DEF u
<1>4. /\ ~FS!CanHold(v, c.path) => u = FS!Fails(v)
      /\ FS!CanHold(v, c.path) /\ ~CanGoBack(c, v) => u = FS!Fails(FS!MkParents(v, c.path))
      /\ FS!CanHold(v, c.path) /\ CanGoBack(c, v) => u = FS!Restore(MovedBack(c, v), c.dst, pre[c.dst])
  BY <1>3 DEF FS!UndoMove, CanGoBack, MovedBack
<1>. QED
  BY <1>4 DEF u

(* The paths of which an undo may replace what is there; besides, it makes *)
(* directories.                                                            *)
Touched(c, pre) ==
    IF c.op \in {"write", "append", "delete"} THEN {c.path}
    ELSE IF c.op = "move" THEN {c.path, c.dst}
    ELSE IF c.op = "mkdir" THEN FS!Snapshot(c, pre) ELSE {}

(* Whatever the trees, an undo replaces nothing else. *)
LEMMA FsUndoKeeps ==
    ASSUME NEW pre, IsTree(pre), NEW v, IsTree(v), NEW r,
           NEW c, c.op \in FsOp \ {"exists"}, c.path \in Path, c.dst \in Path
    PROVE  LET u == FS!Undo(c, FS!Snapshot(c, pre), r, v)
           IN  /\ IsTree(u.w)
               /\ \A q \in Path : \/ u.w[q] = v[q]
                                  \/ v[q] = FS!Absent /\ u.w[q] = FS!Dir
                                  \/ q \in Touched(c, pre) /\ (c.op = "mkdir" => v[q] = FS!Dir)
                                  \/ c.op = "move" /\ ~FS!IsFile(v[c.dst])
<1>. DEFINE u == FS!Undo(c, FS!Snapshot(c, pre), r, v)
<1>1. CASE c.op \in {"write", "append", "delete"}
  <2>1. u = FS!Restore(v, c.path, pre[c.path])
    BY <1>1 DEF FS!Undo, FS!Snapshot
  <2>. HIDE DEF u
  <2>2. IsNode(pre[c.path])
    BY DEF IsTree
  <2>5. IsTree(u.w)
    BY <2>1, <2>2, RestoreTree
  <2>3. \A q \in Path : q # c.path => u.w[q] = v[q] \/ u.w[q] = FS!MkParents(v, c.path)[q]
    BY <2>1, <2>2, RestoreKeeps
  <2>4. \A q \in Path : q # c.path => u.w[q] = v[q] \/ (v[q] = FS!Absent /\ u.w[q] = FS!Dir)
    BY <2>3, Parents
  <2>. QED
    BY <1>1, <2>4, <2>5 DEF Touched, u
<1>2. CASE c.op = "move"
  <2>. DEFINE m == FS!MkParents(v, c.path)
              x == MovedBack(c, v)
  <2>1. /\ ~FS!CanHold(v, c.path) => u = FS!Fails(v)
        /\ FS!CanHold(v, c.path) /\ ~CanGoBack(c, v) => u = FS!Fails(m)
        /\ FS!CanHold(v, c.path) /\ CanGoBack(c, v) => u = FS!Restore(x, c.dst, pre[c.dst])
    BY <1>2, UndoMoveCases
  <2>2. IsTree(m) /\ \A q \in Path : m[q] = v[q] \/ (v[q] = FS!Absent /\ m[q] = FS!Dir)
    BY Parents
  <2>3. IsTree(x) /\ \A q \in Path \ {c.path, c.dst} : m[c.dst] # FS!Dir => x[q] = m[q]
    BY MovedBackFacts
  <2>10. FS!IsFile(v[c.dst]) => m[c.dst] # FS!Dir
    BY <2>2, Nodes
  <2>. HIDE DEF u, m, x
  <2>4. CASE ~FS!CanHold(v, c.path)
    <3>1. u.w = v
      BY <2>1, <2>4 DEF FS!Fails
    <3>. QED
      BY <3>1 DEF u
  <2>5. CASE FS!CanHold(v, c.path) /\ ~CanGoBack(c, v)
    <3>1. u.w = m
      BY <2>1, <2>5 DEF FS!Fails
    <3>. QED
      BY <2>2, <3>1 DEF u
  <2>6. CASE FS!CanHold(v, c.path) /\ CanGoBack(c, v)
    <3>1. u = FS!Restore(x, c.dst, pre[c.dst]) /\ IsNode(pre[c.dst])
      BY <2>1, <2>6 DEF IsTree
    <3>2. IsTree(u.w)
      BY <2>3, <3>1, RestoreTree
    <3>3. \A q \in Path : q # c.dst => u.w[q] = x[q] \/ u.w[q] = FS!MkParents(x, c.dst)[q]
      BY <2>3, <3>1, RestoreKeeps
    <3>4. \A q \in Path : FS!MkParents(x, c.dst)[q] = IF q \in Above[c.dst] /\ x[q] = FS!Absent THEN FS!Dir ELSE x[q]
      BY <2>3, Parents
    <3>5. \A q \in Path : q # c.dst => u.w[q] = x[q] \/ (x[q] = FS!Absent /\ u.w[q] = FS!Dir)
      BY <3>3, <3>4
    <3>6. ASSUME NEW q \in Path, q \notin {c.path, c.dst}, FS!IsFile(v[c.dst])
          PROVE  u.w[q] = v[q] \/ (v[q] = FS!Absent /\ u.w[q] = FS!Dir)
      <4>1. x[q] = m[q] /\ (m[q] = v[q] \/ (v[q] = FS!Absent /\ m[q] = FS!Dir))
        BY <2>2, <2>3, <2>10, <3>6
      <4>2. u.w[q] = x[q] \/ (x[q] = FS!Absent /\ u.w[q] = FS!Dir)
        BY <3>5, <3>6
      <4>. QED
        BY <4>1, <4>2, Nodes
    <3>. QED
      BY <1>2, <3>2, <3>6 DEF Touched, u
  <2>. QED
    BY <2>4, <2>5, <2>6
<1>3. CASE c.op = "mkdir"
  <2>. DEFINE gone == FS!Removable(v, FS!Snapshot(c, pre))
              x    == [q \in Path |-> IF q \in gone THEN FS!Absent ELSE v[q]]
  <2>1. u.w = x
    BY <1>3 DEF FS!Undo, FS!Done
  <2>2. \A q \in Path : q \in gone => q \in FS!Snapshot(c, pre) /\ v[q] = FS!Dir
    BY DEF FS!Removable
  <2>. HIDE DEF gone, u
  <2>3. \A q \in Path : x[q] = IF q \in gone THEN FS!Absent ELSE v[q]
    OBVIOUS
  <2>4. x = [q \in Path |-> x[q]]
    OBVIOUS
  <2>. HIDE DEF x
  <2>5. \A q \in Path : IsNode(x[q])
    BY <2>3, Nodes DEF IsTree
  <2>. QED
    BY <1>3, <2>1, <2>2, <2>3, <2>4, <2>5 DEF Touched, IsTree, u
<1>4. CASE c.op = "rmdir"
  <2>1. u = IF FS!CanHold(v, c.path) /\ ~FS!IsFile(v[c.path])
            THEN FS!Done([FS!MkParents(v, c.path) EXCEPT ![c.path] = FS!Dir]) ELSE FS!Fails(v)
    BY <1>4 DEF FS!Undo, FS!Snapshot
  <2>. HIDE DEF u
  <2>2. CASE FS!CanHold(v, c.path) /\ ~FS!IsFile(v[c.path])
    <3>. DEFINE m == FS!MkParents(v, c.path)
                x == [m EXCEPT ![c.path] = FS!Dir]
    <3>1. u.w = x
      BY <2>1, <2>2 DEF FS!Done
    <3>2. IsTree(m)
      BY Parents
    <3>. HIDE DEF m
    <3>3. IsTree(x) /\ \A q \in Path : x[q] = IF q = c.path THEN FS!Dir ELSE m[q]
      BY <3>2, Put, Nodes
    <3>. HIDE DEF x
    <3>4. v[c.path] = FS!Absent \/ v[c.path] = FS!Dir
      BY <2>2, Nodes DEF IsTree
    <3>5. \A q \in Path : m[q] = v[q] \/ (v[q] = FS!Absent /\ m[q] = FS!Dir)
      BY Parents DEF m
    <3>. QED
      BY <3>1, <3>3, <3>4, <3>5 DEF u
  <2>3. CASE ~(FS!CanHold(v, c.path) /\ ~FS!IsFile(v[c.path]))
    <3>1. u.w = v
      BY <2>1, <2>3 DEF FS!Fails
    <3>. QED
      BY <3>1 DEF u
  <2>. QED
    BY <2>2, <2>3
<1>. QED
  BY <1>1, <1>2, <1>3, <1>4 DEF FsOp

-----------------------------------------------------------------------------
(* Trees in which files are where files belong and directories where       *)
(* directories do.                                                         *)
Apart   == FilePath \cap DirPath = {}
Tidy(w) == \A p \in Path : (FS!IsFile(w[p]) => p \in FilePath) /\ (w[p] = FS!Dir => p \in DirPath)

(* The files of a tree, and what an operation does to them.                *)
Files(w) == [p \in Path |-> FS!Sha(w[p])]

EffectAt(c, f, q) ==
    IF c.op \in {"write", "append"} THEN IF q = c.path THEN FS!Written(c, f) ELSE f[q]
    ELSE IF c.op = "delete" THEN IF q = c.path THEN FS!Absent ELSE f[q]
    ELSE IF c.op = "move" /\ FS!IsFile(f[c.path])
    THEN IF q = c.dst THEN f[c.path] ELSE IF q = c.path THEN FS!Absent ELSE f[q]
    ELSE f[q]
Effect(c, f) == [q \in Path |-> EffectAt(c, f, q)]

(* What a digest tells of what is at a path. *)
LEMMA Digest ==
    \A n : /\ FS!IsFile(n) => FS!Sha(n) = n
           /\ ~FS!IsFile(n) => FS!Sha(n) = FS!Absent
           /\ FS!IsFile(FS!Sha(n)) <=> FS!IsFile(n)
BY Nodes DEF FS!Sha

(* The file at a path. *)
LEMMA FilesAt == \A w : \A p \in Path : Files(w)[p] = FS!Sha(w[p])
BY DEF Files

(* Where the operations put files and directories. *)
LEMMA PathSorts ==
    ASSUME "fs" \in Tools, NEW c \in Calls["fs"]
    PROVE  /\ c.op \in FsOp /\ c.path \in Path /\ c.dst \in Path
           /\ c.op \in {"write", "append", "move"} => c.path \in FilePath
           /\ c.op = "move" => c.dst \in FilePath
           /\ c.op \in {"mkdir", "rmdir"} => c.path \in DirPath
BY FsAssumption DEF FsOp, FilePath, DirPath

(* What is above a path is a directory's place, and not the path. *)
LEMMA AboveAreDirs ==
    ASSUME "fs" \in Tools
    PROVE  \A p \in Path : Above[p] \subseteq DirPath /\ p \notin Above[p] /\ Above[p] \subseteq Path
BY FsAssumption DEF DirPath

(* In a tidy tree parents can be made everywhere, and change no file. *)
LEMMA TidyParents ==
    ASSUME "fs" \in Tools, Apart, NEW w, IsTree(w), Tidy(w), NEW p \in Path
    PROVE  /\ FS!CanHold(w, p)
           /\ Tidy(FS!MkParents(w, p))
           /\ \A q \in Path : FS!Sha(FS!MkParents(w, p)[q]) = FS!Sha(w[q])
<1>1. \A a \in Above[p] : a \in DirPath /\ a \in Path /\ a \notin FilePath
  BY AboveAreDirs DEF Apart
<1>2. FS!CanHold(w, p)
  BY <1>1 DEF FS!CanHold, Tidy
<1>3. \A q \in Path : FS!MkParents(w, p)[q] = IF q \in Above[p] /\ w[q] = FS!Absent THEN FS!Dir ELSE w[q]
  BY Parents
<1>4. Tidy(FS!MkParents(w, p))
  BY <1>1, <1>3, Nodes DEF Tidy
<1>5. \A q \in Path : FS!Sha(FS!MkParents(w, p)[q]) = FS!Sha(w[q])
  BY <1>3, Nodes, Digest
<1>. QED
  BY <1>2, <1>4, <1>5

(* What is written depends on the files only. *)
LEMMA WrittenFile ==
    ASSUME NEW w, NEW c, c.path \in Path
    PROVE  FS!Written(c, Files(w)) = FS!Written(c, w) /\ FS!IsFile(FS!Written(c, w))
<1>1. FS!Old(Files(w), c.path) = FS!Old(w, c.path)
  <2>1. Files(w)[c.path] = FS!Sha(w[c.path])
    BY FilesAt
  <2>2. CASE FS!IsFile(w[c.path])
    BY <2>1, <2>2, Digest DEF FS!Old
  <2>3. CASE ~FS!IsFile(w[c.path])
    BY <2>1, <2>3, Digest DEF FS!Old
  <2>. QED
    BY <2>2, <2>3
<1>. QED
  BY <1>1, Nodes DEF FS!Written

(* What can be done in a tidy tree depends on the files only, but for      *)
(* operations on directories, and so does what becomes of the files.       *)
LEMMA TidyRun ==
    ASSUME "fs" \in Tools, Apart, NEW w, IsTree(w), Tidy(w), NEW c \in Calls["fs"]
    PROVE  LET v == FS!Run(c, w).w
           IN  /\ Tidy(v) /\ Files(v) = Effect(c, Files(w))
               /\ c.op \in {"write", "append"} => FS!Possible(c, w)
               /\ c.op = "delete" => (FS!Possible(c, w) <=> FS!IsFile(w[c.path]))
               /\ c.op = "move" => (FS!Possible(c, w) <=> FS!IsFile(w[c.path]))
<1>. DEFINE v == FS!Run(c, w).w
<1>1. /\ c.op \in FsOp /\ c.path \in Path /\ c.dst \in Path
      /\ c.op \in {"write", "append", "move"} => c.path \in FilePath /\ w[c.path] # FS!Dir
      /\ c.op = "move" => c.dst \in FilePath /\ w[c.dst] # FS!Dir
      /\ c.op \in {"mkdir", "rmdir"} => c.path \in DirPath /\ ~FS!IsFile(w[c.path])
  BY PathSorts DEF Apart, Tidy
<1>2. FS!CanHold(w, c.path) /\ FS!CanHold(w, c.dst)
  BY <1>1, TidyParents
<1>3. /\ c.op \in {"write", "append"} => FS!Possible(c, w)
      /\ c.op = "delete" => (FS!Possible(c, w) <=> FS!IsFile(w[c.path]))
      /\ c.op = "move" => (FS!Possible(c, w) <=> FS!IsFile(w[c.path]))
  BY <1>1, <1>2 DEF FS!Possible
<1>4. /\ FS!Possible(c, w) => Leaves(c, w, v)
      /\ ~FS!Possible(c, w) => v = w
  BY <1>1, FsRun
<1>. HIDE DEF v
<1>5. \A q \in Path : Files(w)[q] = FS!Sha(w[q])
  BY FilesAt
<1>6. /\ Tidy(FS!MkParents(w, c.path)) /\ Tidy(FS!MkParents(w, c.dst))
      /\ \A q \in Path : FS!Sha(FS!MkParents(w, c.path)[q]) = FS!Sha(w[q])
      /\ \A q \in Path : FS!Sha(FS!MkParents(w, c.dst)[q]) = FS!Sha(w[q])
  BY <1>1, TidyParents
<1>7. Tidy(v) /\ \A q \in Path : FS!Sha(v[q]) = EffectAt(c, Files(w), q)
  <2>1. CASE c.op \in {"write", "append"}
    <3>1. \A q \in Path : v[q] = IF q = c.path THEN FS!Written(c, w) ELSE FS!MkParents(w, c.path)[q]
      BY <1>3, <1>4, <2>1 DEF Leaves
    <3>2. FS!IsFile(FS!Written(c, w)) /\ FS!Written(c, Files(w)) = FS!Written(c, w)
      BY <1>1, WrittenFile
    <3>3. Tidy(v)
      BY <1>1, <1>6, <2>1, <3>1, <3>2, Nodes DEF Tidy
    <3>4. \A q \in Path : EffectAt(c, Files(w), q) = IF q = c.path THEN FS!Written(c, w) ELSE FS!Sha(w[q])
      BY <1>5, <2>1, <3>2 DEF EffectAt
    <3>5. FS!Sha(FS!Written(c, w)) = FS!Written(c, w)
      BY <3>2, Digest
    <3>. QED
      BY <1>6, <3>1, <3>3, <3>4, <3>5
  <2>2. CASE c.op = "delete"
    <3>1. \A q \in Path : EffectAt(c, Files(w), q) = IF q = c.path THEN FS!Absent ELSE FS!Sha(w[q])
      BY <1>5, <2>2 DEF EffectAt
    <3>2. CASE FS!Possible(c, w)
      <4>1. \A q \in Path : v[q] = IF q = c.path THEN FS!Absent ELSE w[q]
        BY <1>4, <2>2, <3>2 DEF Leaves
      <4>2. Tidy(v)
        BY <4>1, Nodes DEF Tidy
      <4>. QED
        BY <3>1, <4>1, <4>2, Digest, Nodes
    <3>3. CASE ~FS!Possible(c, w)
      <4>1. v = w /\ FS!Sha(w[c.path]) = FS!Absent
        BY <1>3, <1>4, <2>2, <3>3, Digest
      <4>. QED
        BY <3>1, <4>1
    <3>. QED
      BY <3>2, <3>3
  <2>3. CASE c.op = "move"
    <3>1. Files(w)[c.path] = FS!Sha(w[c.path]) /\ (FS!IsFile(Files(w)[c.path]) <=> FS!IsFile(w[c.path]))
      BY <1>1, <1>5, Digest
    <3>2. CASE FS!Possible(c, w)
      <4>0. FS!IsFile(w[c.path]) /\ FS!Sha(w[c.path]) = w[c.path]
        BY <1>3, <2>3, <3>2, Digest
      <4>1. \A q \in Path : v[q] = IF q = c.dst THEN w[c.path] ELSE IF q = c.path THEN FS!Absent
                                   ELSE FS!MkParents(w, c.dst)[q]
        BY <1>4, <2>3, <3>2 DEF Leaves
      <4>2. Tidy(v)
        BY <1>1, <1>6, <2>3, <4>0, <4>1, Nodes DEF Tidy
      <4>3. \A q \in Path : EffectAt(c, Files(w), q) =
                               IF q = c.dst THEN w[c.path] ELSE IF q = c.path THEN FS!Absent ELSE FS!Sha(w[q])
        BY <1>5, <2>3, <3>1, <4>0 DEF EffectAt
      <4>4. FS!Sha(FS!Absent) = FS!Absent
        BY Nodes, Digest
      <4>. QED
        BY <1>6, <4>0, <4>1, <4>2, <4>3, <4>4
    <3>3. CASE ~FS!Possible(c, w)
      <4>1. v = w /\ ~FS!IsFile(w[c.path])
        BY <1>3, <1>4, <2>3, <3>3
      <4>2. \A q \in Path : EffectAt(c, Files(w), q) = FS!Sha(w[q])
        BY <1>5, <2>3, <3>1, <4>1 DEF EffectAt
      <4>. QED
        BY <4>1, <4>2
    <3>. QED
      BY <3>2, <3>3
  <2>4. CASE c.op \in {"mkdir", "rmdir", "exists"}
    <3>1. \A q \in Path : EffectAt(c, Files(w), q) = FS!Sha(w[q])
      BY <1>5, <2>4 DEF EffectAt
    <3>2. CASE ~FS!Possible(c, w) \/ c.op = "exists"
      <4>1. v = w
        BY <1>4, <3>2 DEF Leaves
      <4>. QED
        BY <3>1, <4>1
    <3>3. CASE FS!Possible(c, w) /\ c.op = "mkdir"
      <4>1. \A q \in Path : v[q] = IF q = c.path THEN FS!Dir ELSE FS!MkParents(w, c.path)[q]
        BY <1>4, <3>3 DEF Leaves
      <4>2. Tidy(v)
        BY <1>1, <1>6, <3>3, <4>1, Nodes DEF Tidy
      <4>3. FS!Sha(w[c.path]) = FS!Sha(FS!Dir)
        BY <1>1, <3>3, Nodes, Digest
      <4>. QED
        BY <1>6, <3>1, <4>1, <4>2, <4>3
    <3>4. CASE FS!Possible(c, w) /\ c.op = "rmdir"
      <4>1. \A q \in Path : v[q] = IF q = c.path THEN FS!Absent ELSE w[q]
        BY <1>4, <3>4 DEF Leaves
      <4>2. Tidy(v)
        BY <4>1, Nodes DEF Tidy
      <4>3. FS!Sha(w[c.path]) = FS!Sha(FS!Absent)
        BY <1>1, <3>4, Nodes, Digest
      <4>. QED
        BY <3>1, <4>1, <4>2, <4>3
    <3>. QED
      BY <2>4, <3>2, <3>3, <3>4
  <2>. QED
    BY <1>1, <2>1, <2>2, <2>3, <2>4 DEF FsOp
<1>8. Files(v) = Effect(c, Files(w))
  BY <1>7 DEF Files, Effect
<1>. QED
  BY <1>3, <1>7, <1>8 DEF v

(* What can be undone is undone: in a tidy tree nothing is in the way.     *)
LEMMA TidyRestore ==
    ASSUME "fs" \in Tools, Apart, NEW v, IsTree(v), Tidy(v), NEW p \in Path,
           NEW node, IsNode(node), FS!IsFile(node) => p \in FilePath, node = FS!Dir => p \in DirPath
    PROVE  LET done == FS!Restore(v, p, node)
           IN  /\ IsTree(done.w) /\ Tidy(done.w) /\ done.ok
               /\ \A q \in Path : FS!Sha(done.w[q]) = IF q = p THEN FS!Sha(node) ELSE FS!Sha(v[q])
<1>. DEFINE done == FS!Restore(v, p, node)
            x    == done.w
<1>1. /\ FS!CanHold(v, p) /\ Tidy(FS!MkParents(v, p))
      /\ \A q \in Path : FS!Sha(FS!MkParents(v, p)[q]) = FS!Sha(v[q])
  BY TidyParents
<1>2. /\ FS!IsFile(node) => v[p] # FS!Dir
      /\ node = FS!Dir => ~FS!IsFile(v[p])
  BY DEF Apart, Tidy
<1>3. IsTree(x)
  BY RestoreFacts
<1>4. CASE FS!IsFile(node)
  <2>1. done.ok /\ \A q \in Path : x[q] = IF q = p THEN node ELSE FS!MkParents(v, p)[q]
    BY <1>1, <1>2, <1>4, RestoreFacts
  <2>. HIDE DEF x, done
  <2>2. Tidy(x)
    BY <1>1, <1>4, <2>1, Nodes DEF Tidy
  <2>3. \A q \in Path : FS!Sha(x[q]) = IF q = p THEN FS!Sha(node) ELSE FS!Sha(v[q])
    <3>. TAKE q \in Path
    <3>. QED
      BY <1>1, <2>1
  <2>. QED
    BY <1>3, <2>1, <2>2, <2>3 DEF x, done
<1>5. CASE ~FS!IsFile(node)
  <2>1. done.ok /\ \A q \in Path : x[q] = IF q = p /\ node = FS!Absent /\ FS!IsFile(v[p]) THEN FS!Absent ELSE v[q]
    BY <1>5, RestoreFacts
  <2>. HIDE DEF x, done
  <2>2. Tidy(x)
    BY <2>1, Nodes DEF Tidy
  <2>3. node = FS!Absent \/ node = FS!Dir
    BY <1>5, Nodes
  <2>4. FS!Sha(node) = FS!Absent /\ FS!Sha(FS!Absent) = FS!Absent
    BY <1>5, Nodes, Digest
  <2>6. ~FS!IsFile(v[p]) => FS!Sha(v[p]) = FS!Absent
    BY Digest
  <2>5. \A q \in Path : FS!Sha(x[q]) = IF q = p THEN FS!Sha(node) ELSE FS!Sha(v[q])
    BY <1>2, <2>1, <2>3, <2>4, <2>6
  <2>. QED
    BY <1>3, <2>1, <2>2, <2>5 DEF x, done
<1>. QED
  BY <1>4, <1>5

(* The files an undo leaves in a tidy tree, of an action taken in another. *)
UndoneAt(c, f, g, q) ==
    IF c.op \in {"write", "append", "delete"} /\ q = c.path THEN f[q]
    ELSE IF c.op = "move" /\ q = c.dst THEN f[q]
    ELSE IF c.op = "move" /\ q = c.path THEN g[c.dst]
    ELSE g[q]

(* An undo keeps a tree tidy, and leaves these files. *)
LEMMA TidyUndo ==
    ASSUME "fs" \in Tools, Apart, NEW pre, IsTree(pre), Tidy(pre), NEW v, IsTree(v), Tidy(v), NEW r,
           NEW c \in Calls["fs"], c.op # "exists"
    PROVE  LET u == FS!Undo(c, FS!Snapshot(c, pre), r, v)
           IN  /\ IsTree(u.w) /\ Tidy(u.w)
               /\ u.ok <=> (c.op = "move" => FS!IsFile(v[c.dst]))
               /\ u.ok => \A q \in Path : FS!Sha(u.w[q]) = UndoneAt(c, Files(pre), Files(v), q)
               /\ ~u.ok => \A q \in Path : FS!Sha(u.w[q]) = FS!Sha(v[q])
<1>. DEFINE u == FS!Undo(c, FS!Snapshot(c, pre), r, v)
<1>1. /\ c.op \in FsOp \ {"exists"} /\ c.path \in Path /\ c.dst \in Path
      /\ c.op = "move" => c.path \in FilePath /\ c.dst \in FilePath
      /\ c.op \in {"mkdir", "rmdir"} => c.path \in DirPath
  BY PathSorts
<1>2. \A q \in Path : Files(pre)[q] = FS!Sha(pre[q]) /\ Files(v)[q] = FS!Sha(v[q])
  BY FilesAt
<1>3. \A q \in Path : IsNode(pre[q]) /\ (FS!IsFile(pre[q]) => q \in FilePath) /\ (pre[q] = FS!Dir => q \in DirPath)
  BY DEF IsTree, Tidy
<1>4. CASE c.op \in {"write", "append", "delete"}
  <2>1. u = FS!Restore(v, c.path, pre[c.path])
    BY <1>4 DEF FS!Undo, FS!Snapshot
  <2>. HIDE DEF u
  <2>. DEFINE node == pre[c.path]
  <2>4. IsNode(node) /\ (FS!IsFile(node) => c.path \in FilePath) /\ (node = FS!Dir => c.path \in DirPath)
    BY <1>1, <1>3
  <2>. HIDE DEF node
  <2>5. u = FS!Restore(v, c.path, node)
    BY <2>1 DEF node
  <2>6. /\ IsTree(u.w) /\ Tidy(u.w) /\ u.ok
        /\ \A q \in Path : FS!Sha(u.w[q]) = IF q = c.path THEN FS!Sha(node) ELSE FS!Sha(v[q])
    BY <1>1, <2>4, <2>5, TidyRestore
  <2>2. /\ IsTree(u.w) /\ Tidy(u.w) /\ u.ok
        /\ \A q \in Path : FS!Sha(u.w[q]) = IF q = c.path THEN FS!Sha(pre[c.path]) ELSE FS!Sha(v[q])
    BY <2>6 DEF node
  <2>3. \A q \in Path : UndoneAt(c, Files(pre), Files(v), q) = IF q = c.path THEN FS!Sha(pre[c.path]) ELSE FS!Sha(v[q])
    BY <1>2, <1>4 DEF UndoneAt
  <2>. QED
    BY <1>4, <2>2, <2>3 DEF u
<1>5. CASE c.op = "move"
  <2>. DEFINE x == MovedBack(c, v)
              m == FS!MkParents(v, c.path)
  <2>1. /\ FS!CanHold(v, c.path) /\ Tidy(m) /\ IsTree(m)
        /\ \A q \in Path : FS!Sha(m[q]) = FS!Sha(v[q])
    BY <1>1, TidyParents, Parents
  <2>20. /\ IsTree(x) /\ x[c.path] = m[c.dst]
         /\ c.dst # c.path => x[c.dst] = FS!Absent
         /\ \A q \in Path \ {c.path, c.dst} : m[c.dst] # FS!Dir => x[q] = m[q]
    BY <1>1, MovedBackFacts
  <2>21. CanGoBack(c, v) => u = FS!Restore(x, c.dst, pre[c.dst])
    BY <1>5, <2>1, UndoMoveCases
  <2>22. ~CanGoBack(c, v) => u = FS!Fails(m)
    BY <1>5, <2>1, UndoMoveCases
  <2>23. CanGoBack(c, v) = FS!CanReplace(m, c.dst, c.path)
    BY DEF CanGoBack
  <2>. HIDE DEF u, x, m
  <2>24. v[c.dst] # FS!Dir /\ m[c.dst] # FS!Dir /\ m[c.path] # FS!Dir
    BY <1>1, <1>5, <2>1 DEF Apart, Tidy
  <2>25. FS!IsFile(m[c.dst]) <=> FS!IsFile(v[c.dst])
    BY <1>1, <2>1, Digest
  <2>26. CanGoBack(c, v) <=> FS!IsFile(v[c.dst])
    BY <2>23, <2>24, <2>25 DEF FS!CanReplace
  <2>27. CASE ~FS!IsFile(v[c.dst])
    <3>1. u.w = m /\ ~u.ok
      BY <2>22, <2>26, <2>27 DEF FS!Fails
    <3>. QED
      BY <1>5, <2>1, <2>27, <3>1 DEF u
  <2>28. CASE FS!IsFile(v[c.dst])
    <3>. DEFINE node == pre[c.dst]
    <3>1. IsNode(node) /\ (FS!IsFile(node) => c.dst \in FilePath) /\ (node = FS!Dir => c.dst \in DirPath)
      BY <1>1, <1>3
    <3>. HIDE DEF node
    <3>2. u = FS!Restore(x, c.dst, node)
      BY <2>21, <2>26, <2>28 DEF node
    <3>3. Tidy(x)
      BY <1>1, <1>5, <2>1, <2>20, <2>24, Nodes DEF Tidy
    <3>4. /\ IsTree(u.w) /\ Tidy(u.w) /\ u.ok
          /\ \A q \in Path : FS!Sha(u.w[q]) = IF q = c.dst THEN FS!Sha(node) ELSE FS!Sha(x[q])
      BY <1>1, <2>20, <3>1, <3>2, <3>3, TidyRestore
    <3>5. ASSUME NEW q \in Path PROVE FS!Sha(u.w[q]) = UndoneAt(c, Files(pre), Files(v), q)
      <4>1. CASE q = c.dst
        <5>1. FS!Sha(u.w[q]) = FS!Sha(pre[c.dst])
          BY <3>4, <4>1 DEF node
        <5>. QED
          BY <1>2, <1>5, <4>1, <5>1 DEF UndoneAt
      <4>2. CASE q # c.dst /\ q = c.path
        <5>1. FS!Sha(u.w[q]) = FS!Sha(v[c.dst])
          BY <1>1, <2>1, <2>20, <3>4, <4>2
        <5>2. UndoneAt(c, Files(pre), Files(v), q) = Files(v)[c.dst]
          BY <1>5, <4>2 DEF UndoneAt
        <5>. QED
          BY <1>1, <1>2, <5>1, <5>2
      <4>3. CASE q # c.dst /\ q # c.path
        <5>1. FS!Sha(u.w[q]) = FS!Sha(v[q])
          BY <2>1, <2>20, <2>24, <3>4, <4>3
        <5>2. UndoneAt(c, Files(pre), Files(v), q) = Files(v)[q]
          BY <1>5, <4>3 DEF UndoneAt
        <5>. QED
          BY <1>2, <5>1, <5>2
      <4>. QED
        BY <4>1, <4>2, <4>3
    <3>. QED
      BY <2>28, <3>4, <3>5 DEF u
  <2>. QED
    BY <2>27, <2>28
<1>6. CASE c.op = "mkdir"
  <2>0. \A q \in Path : UndoneAt(c, Files(pre), Files(v), q) = FS!Sha(v[q])
    BY <1>2, <1>6 DEF UndoneAt
  <2>. DEFINE gone == FS!Removable(v, FS!Snapshot(c, pre))
              x    == [q \in Path |-> IF q \in gone THEN FS!Absent ELSE v[q]]
  <2>1. u.w = x /\ u.ok
    BY <1>6 DEF FS!Undo, FS!Done
  <2>2. \A q \in Path : q \in gone => v[q] = FS!Dir
    BY DEF FS!Removable
  <2>. HIDE DEF gone, u
  <2>3. \A q \in Path : x[q] = IF q \in gone THEN FS!Absent ELSE v[q]
    OBVIOUS
  <2>. HIDE DEF x
  <2>4. Tidy(x)
    BY <2>3, Nodes DEF Tidy
  <2>5. FS!Sha(FS!Absent) = FS!Sha(FS!Dir)
    BY Nodes, Digest
  <2>6. \A q \in Path : FS!Sha(x[q]) = FS!Sha(v[q])
    BY <2>2, <2>3, <2>5
  <2>7. IsTree(u.w)
    BY <1>1, FsUndoKeeps DEF u
  <2>. QED
    BY <1>6, <2>0, <2>1, <2>4, <2>6, <2>7 DEF u
<1>7. CASE c.op = "rmdir"
  <2>0. \A q \in Path : UndoneAt(c, Files(pre), Files(v), q) = FS!Sha(v[q])
    BY <1>2, <1>7 DEF UndoneAt
  <2>. DEFINE m == FS!MkParents(v, c.path)
              x == [m EXCEPT ![c.path] = FS!Dir]
  <2>1. FS!CanHold(v, c.path) /\ Tidy(m) /\ \A q \in Path : FS!Sha(m[q]) = FS!Sha(v[q])
    BY <1>1, TidyParents
  <2>2. ~FS!IsFile(v[c.path])
    BY <1>1, <1>7 DEF Apart, Tidy
  <2>3. u.w = x /\ u.ok
    BY <1>7, <2>1, <2>2 DEF FS!Undo, FS!Snapshot, FS!Done
  <2>4. IsTree(m)
    BY <1>1, Parents
  <2>. HIDE DEF m, u
  <2>5. IsTree(x) /\ \A q \in Path : x[q] = IF q = c.path THEN FS!Dir ELSE m[q]
    BY <1>1, <2>4, Put, Nodes
  <2>. HIDE DEF x
  <2>6. Tidy(x)
    BY <1>1, <1>7, <2>1, <2>5, Nodes DEF Tidy
  <2>7. FS!Sha(v[c.path]) = FS!Absent /\ FS!Sha(FS!Dir) = FS!Absent
    BY <2>2, Nodes, Digest
  <2>8. \A q \in Path : FS!Sha(x[q]) = FS!Sha(v[q])
    BY <2>1, <2>5, <2>7
  <2>. QED
    BY <1>7, <2>0, <2>3, <2>5, <2>6, <2>8 DEF u
<1>. QED
  BY <1>1, <1>4, <1>5, <1>6, <1>7 DEF FsOp

(* So the undo of an action that was the last to change the files restores *)
(* them, but for a move that failed.                                       *)
LEMMA TidyUndoRestores ==
    ASSUME "fs" \in Tools, Apart, NEW pre, IsTree(pre), Tidy(pre), NEW v, IsTree(v), Tidy(v), NEW r,
           NEW c \in Calls["fs"], c.op # "exists",
           Files(v) = Files(FS!Run(c, pre).w), c.op = "move" => FS!Run(c, pre).ok
    PROVE  Files(FS!Undo(c, FS!Snapshot(c, pre), r, v).w) = Files(pre)
<1>. DEFINE u == FS!Undo(c, FS!Snapshot(c, pre), r, v)
            f == Files(pre)
            g == Files(v)
<1>1. c.op \in FsOp /\ c.path \in Path /\ c.dst \in Path
  BY PathSorts
<1>2. /\ u.ok <=> (c.op = "move" => FS!IsFile(v[c.dst]))
      /\ u.ok => \A q \in Path : FS!Sha(u.w[q]) = UndoneAt(c, f, g, q)
  BY TidyUndo
<1>3. g = Effect(c, f) /\ (c.op = "move" => FS!IsFile(pre[c.path]))
  BY <1>1, TidyRun, FsRun
<1>4. c.op = "move" => FS!IsFile(f[c.path])
  BY <1>1, <1>3, FilesAt, Digest
<1>10. g[c.dst] = FS!Sha(v[c.dst])
  BY <1>1, FilesAt
<1>. HIDE DEF u, f, g
<1>5. \A q \in Path : g[q] = EffectAt(c, f, q)
  BY <1>3 DEF Effect
<1>11. c.op = "move" => g[c.dst] = f[c.path]
  <2>1. c.op = "move" => EffectAt(c, f, c.dst) = f[c.path]
    BY <1>4 DEF EffectAt
  <2>. QED
    BY <1>1, <1>5, <2>1
<1>12. u.ok
  BY <1>2, <1>4, <1>10, <1>11, Digest
<1>6. \A q \in Path : UndoneAt(c, f, g, q) = f[q]
  BY <1>1, <1>4, <1>5 DEF UndoneAt, EffectAt
<1>7. \A q \in Path : FS!Sha(u.w[q]) = f[q]
  BY <1>2, <1>6, <1>12
<1>8. \A q \in Path : f[q] = FS!Sha(pre[q])
  BY FilesAt DEF f
<1>9. \A q \in Path : FS!Sha(u.w[q]) = FS!Sha(pre[q])
  BY <1>7, <1>8
<1>. QED
  BY <1>9 DEF Files, u

(***************************************************************************)
(* Every adapter.                                                          *)
(***************************************************************************)
(* PathsApart, of adapter t.                                               *)
IsApart(t) == t = "fs" => Apart

(* A world a session may be in, and of it what an undo has to restore.     *)
Fit(t, w)  == IsWorld(t, w) /\ (t = "fs" /\ Apart => Tidy(w))
Core(t, w) == IF t = "fs" THEN Files(w) ELSE w

(* The worlds of the file system adapter are the trees. *)
LEMMA FsWorld == \A w : IsWorld("fs", w) <=> IsTree(w)
BY DEF IsWorld, IsTree, IsNode

(* Only "exists" reads. *)
LEMMA ExistsReads == \A c, w : risk("fs", c, w) # "read" => c.op # "exists"
BY DEF risk, FS!risk

(* A call keeps the world one; a call that fails leaves it as it was.      *)
LEMMA RunFits ==
    ASSUME NEW t \in Tools, NEW c \in Calls[t], NEW w, IsWorld(t, w)
    PROVE  LET done == Run(t, c, w)
           IN  IsWorld(t, done.w) /\ done.ok \in BOOLEAN /\ (~done.ok => done.w = w)
<1>1. CASE t = "fs"
  <2>1. Run(t, c, w) = FS!Run(c, w) /\ IsTree(w)
    BY <1>1, FsWorld DEF Run
  <2>2. c.op \in FsOp /\ c.path \in Path /\ c.dst \in Path
    BY <1>1, PathSorts
  <2>3. FS!Run(c, w).ok \in BOOLEAN
    BY DEF FS!Run, FS!Done, FS!Fails
  <2>4. IsTree(FS!Run(c, w).w) /\ (~FS!Run(c, w).ok => FS!Run(c, w).w = w)
    BY <2>1, <2>2, FsRun
  <2>. QED
    BY <1>1, <2>1, <2>3, <2>4, FsWorld
<1>2. CASE t = "db"
  BY <1>2 DEF Run, DB!Run, IsWorld
<1>3. CASE t = "http"
  <2>1. c.method \in {"GET", "PUT", "POST", "DELETE"} /\ c.url \in Resource
    BY <1>3, HttpAssumption
  <2>2. Run(t, c, w) = HT!Run(c, w) /\ w = [url \in Resource |-> w[url]]
    BY <1>3 DEF Run, IsWorld
  <2>. DEFINE x == HT!Send(c.method, c.url, c.body, w)
  <2>3. x = [url \in Resource |-> x[url]]
    BY <2>1, <2>2 DEF HT!Send
  <2>. HIDE DEF x
  <2>4. HT!Run(c, w).w \in {w, x} /\ HT!Run(c, w).ok \in BOOLEAN /\ (~HT!Run(c, w).ok => HT!Run(c, w).w = w)
    BY DEF HT!Run, x
  <2>. QED
    BY <1>3, <2>2, <2>3, <2>4 DEF IsWorld
<1>4. CASE t = "sh"
  <2>1. c.cmd \in {"commit", "add", "reset", "status"}
    BY <1>4, ShAssumption
  <2>. QED
    BY <1>4, <2>1 DEF Run, SH!Run, SH!After, IsWorld
<1>5. CASE t = "email"
  BY <1>5 DEF Run, EM!Run, IsWorld
<1>. QED
  BY <1>1, <1>2, <1>3, <1>4, <1>5, ToolsAssumption

(* A call keeps a tree tidy, too. *)
LEMMA RunFit ==
    ASSUME NEW t \in Tools, NEW c \in Calls[t], NEW w, Fit(t, w)
    PROVE  Fit(t, Run(t, c, w).w)
<1>1. IsWorld(t, w) /\ IsWorld(t, Run(t, c, w).w)
  BY RunFits DEF Fit
<1>2. ASSUME t = "fs", Apart PROVE Tidy(Run(t, c, w).w)
  <2>1. IsTree(w) /\ Tidy(w)
    BY <1>1, <1>2, FsWorld DEF Fit
  <2>2. Tidy(FS!Run(c, w).w)
    BY <1>2, <2>1, TidyRun
  <2>. QED
    BY <1>2, <2>2 DEF Run
<1>. QED
  BY <1>1, <1>2 DEF Fit

(* What counts as a read, and is none of those that are misread, reads.    *)
LEMMA ReadKeeps ==
    ASSUME NEW t \in Tools, NEW c \in Calls[t], NEW w, IsWorld(t, w), risk(t, c, w) = "read",
           t = "db" => c.op # "query" /\ c.sql.words \cap {"replace", "pragma"} = {}
    PROVE  Run(t, c, w).w = w
<1>1. CASE t = "fs"
  <2>1. c.op \in FsOp
    BY <1>1, PathSorts
  <2>2. c.op = "exists"
    BY <1>1, <2>1 DEF risk, FS!risk, FsOp
  <2>. QED
    BY <1>1, <2>2 DEF Run, FS!Run, FS!Done, FS!After, FS!Fails
<1>2. CASE t = "db"
  <2>1. DB!sql_risk(c.sql) = "read"
    BY <1>2 DEF risk, DB!risk
  <2>2. c.sql.deletes = {} /\ c.sql.inserts = {}
    <3>1. c.sql.verb \in DB!Reading /\ c.sql.words \cap {"insert", "update", "delete", "drop", "alter", "create"} = {}
      BY <2>1 DEF DB!sql_risk
    <3>. QED
      BY <1>2, <3>1, DbAssumption
  <2>3. Run(t, c, w).w = w \/ Run(t, c, w).w = [rows |-> (w.rows \ {}) \cup {}]
    BY <1>2, <2>2 DEF Run, DB!Run
  <2>4. (w.rows \ {}) \cup {} = w.rows
    OBVIOUS
  <2>. QED
    BY <1>2, <2>3, <2>4 DEF IsWorld
<1>3. CASE t = "http"
  BY <1>3, HttpAssumption DEF Run, risk, HT!Run, HT!risk, HT!Send
<1>4. CASE t = "sh"
  BY <1>4, ShAssumption DEF Run, risk, SH!Run, SH!risk, SH!shell_risk, SH!After
<1>5. CASE t = "email"
  BY <1>5 DEF risk, EM!risk
<1>. QED
  BY <1>1, <1>2, <1>3, <1>4, <1>5, ToolsAssumption

(* An undo keeps the world one, and if it fails, too.                      *)
LEMMA UndoFits ==
    ASSUME NEW t \in Tools, NEW c \in Calls[t], NEW pre, IsWorld(t, pre), NEW v, IsWorld(t, v), NEW r,
           risk(t, c, pre) # "read", reversible(t, c)
    PROVE  IsWorld(t, UndoHook(t, c, Snapshot(t, c, pre), r, v).w)
<1>1. CASE t = "fs"
  <2>1. /\ IsTree(pre) /\ IsTree(v) /\ c.op # "exists"
        /\ UndoHook(t, c, Snapshot(t, c, pre), r, v) = FS!Undo(c, FS!Snapshot(c, pre), r, v)
    BY <1>1, FsWorld, ExistsReads DEF UndoHook, Snapshot
  <2>2. c.op \in FsOp \ {"exists"} /\ c.path \in Path /\ c.dst \in Path
    BY <1>1, <2>1, PathSorts
  <2>3. IsTree(FS!Undo(c, FS!Snapshot(c, pre), r, v).w)
    BY <2>1, <2>2, FsUndoKeeps
  <2>. QED
    BY <1>1, <2>1, <2>3, FsWorld
<1>2. CASE t = "db"
  BY <1>2 DEF UndoHook, Snapshot, DB!Undo, DB!Snapshot
<1>3. CASE t = "http"
  <2>1. c.url \in Resource /\ v = [url \in Resource |-> v[url]]
    BY <1>3, HttpAssumption DEF IsWorld
  <2>. DEFINE x(val) == [v EXCEPT ![c.url] = val]
  <2>2. \A val : x(val) = [url \in Resource |-> x(val)[url]]
    BY <2>1
  <2>3. \A val : IsWorld(t, x(val))
    BY <1>3, <2>2 DEF IsWorld
  <2>. DEFINE u == UndoHook(t, c, Snapshot(t, c, pre), r, v)
  <2>4. u.w = v \/ u.w = x(HT!Snapshot(c, pre)) \/ u.w = x(None)
    BY <1>3 DEF UndoHook, Snapshot, HT!Undo, HT!Send
  <2>. HIDE DEF x, u
  <2>. QED
    BY <2>3, <2>4 DEF u
<1>4. CASE t = "sh"
  BY <1>4 DEF UndoHook, Snapshot, SH!Undo, SH!Snapshot, IsWorld
<1>5. CASE t = "email"
  BY <1>5 DEF reversible, EM!reversible
<1>. QED
  BY <1>1, <1>2, <1>3, <1>4, <1>5, ToolsAssumption

(* An undo keeps a tree tidy, too. *)
LEMMA UndoFit ==
    ASSUME NEW t \in Tools, NEW c \in Calls[t], NEW pre, Fit(t, pre), NEW v, Fit(t, v), NEW r,
           risk(t, c, pre) # "read", reversible(t, c)
    PROVE  Fit(t, UndoHook(t, c, Snapshot(t, c, pre), r, v).w)
<1>. DEFINE u == UndoHook(t, c, Snapshot(t, c, pre), r, v)
<1>1. IsWorld(t, pre) /\ IsWorld(t, v)
  BY DEF Fit
<1>2. IsWorld(t, u.w)
  BY <1>1, UndoFits
<1>3. ASSUME t = "fs", Apart PROVE Tidy(u.w)
  <2>1. /\ IsTree(pre) /\ IsTree(v) /\ Tidy(pre) /\ Tidy(v) /\ c.op # "exists"
        /\ u = FS!Undo(c, FS!Snapshot(c, pre), r, v)
    BY <1>1, <1>3, FsWorld, ExistsReads DEF UndoHook, Snapshot, Fit
  <2>. HIDE DEF u
  <2>. QED
    BY <1>3, <2>1, TidyUndo
<1>. HIDE DEF u
<1>4. Fit(t, u.w)
  BY <1>2, <1>3 DEF Fit
<1>. QED
  BY <1>4 DEF u

(* An undo that fails leaves the world as it was, up to directories.       *)
LEMMA UndoFails ==
    ASSUME NEW t \in Tools, NEW c \in Calls[t], NEW pre, Fit(t, pre), NEW v, Fit(t, v), NEW r, IsApart(t),
           risk(t, c, pre) # "read", reversible(t, c), ~UndoHook(t, c, Snapshot(t, c, pre), r, v).ok
    PROVE  Core(t, UndoHook(t, c, Snapshot(t, c, pre), r, v).w) = Core(t, v)
<1>. DEFINE u == UndoHook(t, c, Snapshot(t, c, pre), r, v)
<1>1. IsWorld(t, pre) /\ IsWorld(t, v)
  BY DEF Fit
<1>2. CASE t = "fs"
  <2>1. /\ IsTree(pre) /\ IsTree(v) /\ Tidy(pre) /\ Tidy(v) /\ c.op # "exists" /\ Apart
        /\ u = FS!Undo(c, FS!Snapshot(c, pre), r, v)
    BY <1>1, <1>2, FsWorld, ExistsReads DEF UndoHook, Snapshot, Fit, IsApart
  <2>2. \A q \in Path : FS!Sha(u.w[q]) = FS!Sha(v[q])
    BY <1>2, <2>1, TidyUndo
  <2>. HIDE DEF u
  <2>3. Files(u.w) = Files(v)
    BY <2>2 DEF Files
  <2>. QED
    BY <1>2, <2>3 DEF Core, u
<1>3. CASE t = "db"
  BY <1>3 DEF UndoHook, DB!Undo, Core
<1>4. CASE t = "http"
  <2>1. /\ v = [url \in Resource |-> v[url]] /\ c.url \in Resource
        /\ u = HT!Undo(c, Snapshot(t, c, pre), r, v)
    BY <1>1, <1>4, HttpAssumption DEF IsWorld, UndoHook
  <2>2. ~u.ok
    OBVIOUS
  <2>. HIDE DEF u
  <2>3. CASE HT!Inverse(c)
    <3>1. u = [ok |-> HT!Accepted("DELETE", c.url, v), w |-> HT!Send("DELETE", c.url, None, v)]
      BY <2>1, <2>3 DEF HT!Undo
    <3>2. v[c.url] = None
      BY <2>2, <3>1 DEF HT!Accepted
    <3>3. u.w = [v EXCEPT ![c.url] = None]
      BY <3>1 DEF HT!Send
    <3>4. u.w = v
      BY <2>1, <3>2, <3>3
    <3>. QED
      BY <1>4, <3>4 DEF u, Core
  <2>4. CASE ~HT!Inverse(c)
    <3>1. u.w = v
      BY <2>1, <2>2, <2>4 DEF HT!Undo
    <3>. QED
      BY <1>4, <3>1 DEF u, Core
  <2>. QED
    BY <2>3, <2>4
<1>5. CASE t = "sh"
  BY <1>5 DEF UndoHook, SH!Undo, Core
<1>6. CASE t = "email"
  BY <1>6 DEF reversible, EM!reversible
<1>. QED
  BY <1>2, <1>3, <1>4, <1>5, <1>6, ToolsAssumption

(* Requests that make or replace a resource.                               *)
LEMMA Requests ==
    ASSUME NEW c, NEW w
    PROVE  /\ c.method = "POST" => (HT!Run(c, w).ok <=> w[c.url] = None)
           /\ c.method = "POST" /\ HT!Run(c, w).ok => HT!Run(c, w).w = [w EXCEPT ![c.url] = c.body]
           /\ c.method = "PUT" => HT!Run(c, w).ok /\ HT!Run(c, w).w = [w EXCEPT ![c.url] = c.body]
           /\ c.method = "POST" => HT!Snapshot(c, w) = None
<1>1. c.method = "POST" => HT!Snapshot(c, w) = None
  BY DEF HT!Snapshot
<1>2. c.method = "POST" => HT!Accepted(c.method, c.url, w) = (w[c.url] = None)
  BY DEF HT!Accepted
<1>3. c.method = "PUT" => HT!Accepted(c.method, c.url, w) = TRUE
  BY DEF HT!Accepted
<1>4. c.method \in {"PUT", "POST"} => HT!Send(c.method, c.url, c.body, w) = [w EXCEPT ![c.url] = c.body]
  BY DEF HT!Send
<1>. QED
  BY <1>1, <1>2, <1>3, <1>4 DEF HT!Run

(* What an undo restores, when nothing but the action changed the world.   *)
LEMMA UndoRestores ==
    ASSUME NEW t \in Tools, NEW c \in Calls[t], NEW pre, Fit(t, pre), NEW v, Fit(t, v), NEW r, IsApart(t),
           risk(t, c, pre) # "read", reversible(t, c),
           Core(t, v) = Core(t, Run(t, c, pre).w),
           t = "fs" /\ c.op = "move" => Run(t, c, pre).ok,
           ~Run(t, c, pre).ok => Snapshot(t, c, pre) # None,
           UndoHook(t, c, Snapshot(t, c, pre), r, v).ok
    PROVE  Core(t, UndoHook(t, c, Snapshot(t, c, pre), r, v).w) = Core(t, pre)
<1>. DEFINE u == UndoHook(t, c, Snapshot(t, c, pre), r, v)
<1>1. IsWorld(t, pre) /\ IsWorld(t, v)
  BY DEF Fit
<1>2. CASE t = "fs"
  <2>1. /\ IsTree(pre) /\ IsTree(v) /\ Tidy(pre) /\ Tidy(v) /\ c.op # "exists" /\ Apart
        /\ u = FS!Undo(c, FS!Snapshot(c, pre), r, v)
    BY <1>1, <1>2, FsWorld, ExistsReads DEF UndoHook, Snapshot, Fit, IsApart
  <2>2. Files(v) = Files(FS!Run(c, pre).w) /\ (c.op = "move" => FS!Run(c, pre).ok)
    BY <1>2 DEF Core, Run
  <2>3. "fs" \in Tools /\ c \in Calls["fs"]
    BY <1>2
  <2>. HIDE DEF u
  <2>4. Files(u.w) = Files(pre)
    BY <2>1, <2>2, <2>3, TidyUndoRestores
  <2>. QED
    BY <1>2, <2>4 DEF Core, u
<1>3. CASE t = "db"
  BY <1>3 DEF UndoHook, Snapshot, DB!Undo, DB!Snapshot, Core
<1>4. CASE t = "http"
  <2>1. /\ pre = [url \in Resource |-> pre[url]] /\ c.url \in Resource /\ c.body # None
        /\ \A registered \in Inverses : registered[1] = "POST"
        /\ v = Run(t, c, pre).w
    BY <1>1, <1>4, HttpAssumption DEF IsWorld, Core
  <2>2. /\ u = HT!Undo(c, HT!Snapshot(c, pre), r, v) /\ Run(t, c, pre) = HT!Run(c, pre)
        /\ reversible(t, c) <=> HT!reversible(c)
    BY <1>4 DEF UndoHook, Snapshot, Run, reversible
  <2>3. u.ok
    OBVIOUS
  <2>6. ~HT!Run(c, pre).ok => HT!Snapshot(c, pre) # None
    BY <1>4 DEF Snapshot, Run
  <2>7. v = HT!Run(c, pre).w
    BY <2>1, <2>2
  <2>. HIDE DEF u
  <2>4. CASE HT!Inverse(c)
    <3>1. <<c.method, c.url>>[1] = "POST"
      BY <2>1, <2>4 DEF HT!Inverse
    <3>2. c.method = "POST"
      BY <3>1
    <3>6. HT!Run(c, pre).ok
      BY <2>6, <3>2, Requests
    <3>3. pre[c.url] = None /\ v = [pre EXCEPT ![c.url] = c.body]
      BY <2>7, <3>2, <3>6, Requests
    <3>4. u.w = [v EXCEPT ![c.url] = None]
      BY <2>2, <2>4 DEF HT!Undo, HT!Send
    <3>5. u.w = pre
      BY <2>1, <3>3, <3>4
    <3>. QED
      BY <1>4, <3>5 DEF Core, u
  <2>5. CASE ~HT!Inverse(c)
    <3>1. c.method = "PUT" /\ HT!Snapshot(c, pre) = pre[c.url]
      BY <2>2, <2>5 DEF HT!reversible, HT!Snapshot
    <3>2. v = [pre EXCEPT ![c.url] = c.body]
      BY <2>7, <3>1, Requests
    <3>3. u.w = [v EXCEPT ![c.url] = pre[c.url]]
      BY <2>2, <2>3, <2>5, <3>1 DEF HT!Undo, HT!Send
    <3>4. u.w = pre
      BY <2>1, <3>2, <3>3
    <3>. QED
      BY <1>4, <3>4 DEF Core, u
  <2>. QED
    BY <2>4, <2>5
<1>5. CASE t = "sh"
  <2>1. /\ pre = [head |-> pre.head, index |-> pre.index] /\ c.cmd = "commit"
        /\ v = Run(t, c, pre).w
    BY <1>1, <1>5 DEF IsWorld, Core, reversible, SH!reversible
  <2>2. u.w = [v EXCEPT !.head = pre.head]
    BY <1>5, <2>1 DEF UndoHook, Snapshot, SH!Undo, SH!Snapshot
  <2>3. v = pre \/ v = [pre EXCEPT !.head = Append(@, pre.index)]
    BY <1>5, <2>1 DEF Run, SH!Run, SH!After
  <2>. HIDE DEF u
  <2>4. u.w = pre
    BY <2>1, <2>2, <2>3
  <2>. QED
    BY <1>5, <2>4 DEF Core, u
<1>6. CASE t = "email"
  BY <1>6 DEF reversible, EM!reversible
<1>. QED
  BY <1>2, <1>3, <1>4, <1>5, <1>6, ToolsAssumption

(* An undo of an action that was done succeeds, then, if there is          *)
(* something to restore.                                                   *)
LEMMA UndoSucceeds ==
    ASSUME NEW t \in Tools, NEW c \in Calls[t], NEW pre, Fit(t, pre), NEW v, Fit(t, v), NEW r, IsApart(t),
           risk(t, c, pre) # "read", reversible(t, c),
           Core(t, v) = Core(t, Run(t, c, pre).w), Run(t, c, pre).ok,
           t = "http" => Snapshot(t, c, pre) # None \/ HT!Inverse(c),
           t = "sh" => Snapshot(t, c, pre) # <<>>
    PROVE  UndoHook(t, c, Snapshot(t, c, pre), r, v).ok
<1>. DEFINE u == UndoHook(t, c, Snapshot(t, c, pre), r, v)
<1>1. IsWorld(t, pre) /\ IsWorld(t, v)
  BY DEF Fit
<1>2. CASE t = "fs"
  <2>1. /\ IsTree(pre) /\ IsTree(v) /\ Tidy(pre) /\ Tidy(v) /\ c.op # "exists" /\ Apart
        /\ u = FS!Undo(c, FS!Snapshot(c, pre), r, v)
    BY <1>1, <1>2, FsWorld, ExistsReads DEF UndoHook, Snapshot, Fit, IsApart
  <2>2. c \in Calls["fs"] /\ "fs" \in Tools /\ c.path \in Path /\ c.dst \in Path
    BY <1>2, PathSorts
  <2>3. Files(v) = Files(FS!Run(c, pre).w) /\ FS!Run(c, pre).ok
    BY <1>2 DEF Core, Run
  <2>4. ASSUME c.op = "move" PROVE FS!IsFile(v[c.dst])
    <3>1. Files(v) = Effect(c, Files(pre)) /\ FS!IsFile(pre[c.path])
      BY <2>1, <2>2, <2>3, <2>4, TidyRun, FsRun, PathSorts
    <3>3. FS!IsFile(Files(pre)[c.path])
      BY <2>2, <3>1, FilesAt, Digest
    <3>4. EffectAt(c, Files(pre), c.dst) = Files(pre)[c.path]
      BY <2>4, <3>3 DEF EffectAt
    <3>2. Files(v)[c.dst] = Files(pre)[c.path]
      BY <2>2, <3>1, <3>4 DEF Effect
    <3>. QED
      BY <2>2, <3>1, <3>2, FilesAt, Digest
  <2>. HIDE DEF u
  <2>5. u.ok
    BY <2>1, <2>2, <2>4, TidyUndo
  <2>. QED
    BY <2>5 DEF u
<1>3. CASE t = "db"
  BY <1>3 DEF UndoHook, DB!Undo
<1>4. CASE t = "http"
  <2>1. /\ pre = [url \in Resource |-> pre[url]] /\ c.url \in Resource /\ c.body # None
        /\ \A registered \in Inverses : registered[1] = "POST"
        /\ v = Run(t, c, pre).w
    BY <1>1, <1>4, HttpAssumption DEF IsWorld, Core
  <2>2. /\ u = HT!Undo(c, HT!Snapshot(c, pre), r, v) /\ Run(t, c, pre) = HT!Run(c, pre)
        /\ HT!reversible(c) /\ (HT!Snapshot(c, pre) # None \/ HT!Inverse(c)) /\ HT!Run(c, pre).ok
    BY <1>4 DEF UndoHook, Snapshot, Run, reversible
  <2>. HIDE DEF u
  <2>3. CASE HT!Inverse(c)
    <3>1. <<c.method, c.url>>[1] = "POST"
      BY <2>1, <2>3 DEF HT!Inverse
    <3>2. c.method = "POST"
      BY <3>1
    <3>3. v = [pre EXCEPT ![c.url] = c.body]
      BY <2>1, <2>2, <3>2, Requests
    <3>4. v[c.url] # None
      BY <2>1, <3>3
    <3>5. u.ok
      BY <2>2, <2>3, <3>4 DEF HT!Undo, HT!Accepted
    <3>. QED
      BY <3>5 DEF u
  <2>4. CASE ~HT!Inverse(c)
    <3>1. u.ok
      BY <2>2, <2>4 DEF HT!Undo, HT!reversible
    <3>. QED
      BY <3>1 DEF u
  <2>. QED
    BY <2>3, <2>4
<1>5. CASE t = "sh"
  BY <1>5 DEF UndoHook, SH!Undo
<1>6. CASE t = "email"
  BY <1>6 DEF reversible, EM!reversible
<1>. QED
  BY <1>2, <1>3, <1>4, <1>5, <1>6, ToolsAssumption

(* A call has the same effect on what is the same world to an undo.        *)
LEMMA RunAgain ==
    ASSUME NEW t \in Tools, NEW c \in Calls[t], NEW w, Fit(t, w), NEW v, Fit(t, v), IsApart(t),
           Core(t, w) = Core(t, v)
    PROVE  Core(t, Run(t, c, w).w) = Core(t, Run(t, c, v).w)
<1>1. CASE t = "fs"
  <2>1. IsTree(w) /\ IsTree(v) /\ Tidy(w) /\ Tidy(v) /\ Apart /\ Files(w) = Files(v)
    BY <1>1, FsWorld DEF Fit, IsApart, Core
  <2>2. Files(FS!Run(c, w).w) = Effect(c, Files(w)) /\ Files(FS!Run(c, v).w) = Effect(c, Files(v))
    BY <1>1, <2>1, TidyRun
  <2>. QED
    BY <1>1, <2>1, <2>2 DEF Core, Run
<1>2. CASE t # "fs"
  BY <1>2 DEF Core
<1>. QED
  BY <1>1, <1>2

(* The same world to an undo is the same but for directories.              *)
LEMMA CoreIsSame ==
    ASSUME NEW t \in Tools, NEW w, Fit(t, w), NEW v, Fit(t, v), Core(t, w) = Core(t, v)
    PROVE  Same(t, w, v)
<1>1. CASE t = "fs"
  <2>1. IsTree(w) /\ IsTree(v) /\ Files(w) = Files(v)
    BY <1>1, FsWorld DEF Fit, Core
  <2>2. DOMAIN w = Path
    BY <2>1 DEF IsTree
  <2>3. ASSUME NEW p \in Path PROVE w[p] = v[p] \/ {w[p], v[p]} = {FS!Dir, FS!Absent}
    <3>1. FS!Sha(w[p]) = FS!Sha(v[p])
      BY <2>1, FilesAt
    <3>2. /\ FS!IsFile(w[p]) \/ w[p] = FS!Absent \/ w[p] = FS!Dir
          /\ FS!IsFile(v[p]) \/ v[p] = FS!Absent \/ v[p] = FS!Dir
      BY <2>1, Nodes DEF IsTree
    <3>3. FS!IsFile(w[p]) <=> FS!IsFile(v[p])
      BY <3>1, Digest
    <3>4. CASE FS!IsFile(w[p])
      BY <3>1, <3>3, <3>4, Digest
    <3>5. CASE ~FS!IsFile(w[p])
      BY <3>2, <3>3, <3>5
    <3>. QED
      BY <3>4, <3>5
  <2>. QED
    BY <1>1, <2>2, <2>3 DEF Same
<1>2. CASE t # "fs"
  BY <1>2 DEF Core, Same
<1>. QED
  BY <1>1, <1>2

(***************************************************************************)
(* What the session keeps of an action.                                    *)
(***************************************************************************)

IsEntry(t, e) ==
    /\ e.call \in Calls[t] /\ risk(t, e.call, e.pre) # "read" /\ Fit(t, e.pre)
    /\ LET done == Run(t, e.call, e.pre)
       IN  /\ e = [call |-> e.call, status |-> e.status, predicted |-> Simulate(t, e.call, e.pre),
                   snapshot |-> Snapshot(t, e.call, e.pre), result |-> done.result,
                   observed |-> IF done.ok THEN {Observe(t, e.call, done.result, done.w)} ELSE {},
                   pre |-> e.pre, post |-> done.w]
           /\ e.status \in {IF done.ok THEN "committed" ELSE "failed", "undone"}
    /\ e.status = "undone" => reversible(t, e.call)

(* What _execute and _commit keep is an entry. *)
LEMMA NewEntry ==
    ASSUME NEW t \in Tools, NEW c \in Calls[t], NEW w, Fit(t, w), risk(t, c, w) # "read"
    PROVE  LET e == Act(t, c, w)
           IN  IsEntry(t, e) /\ e.status # "undone" /\ e.pre = w /\ e.post = Run(t, c, w).w
<1>. DEFINE e == Act(t, c, w)
<1>1. /\ e.call = c /\ e.pre = w /\ e.post = Run(t, c, w).w
      /\ e.status = IF Run(t, c, w).ok THEN "committed" ELSE "failed"
      /\ e.predicted = Simulate(t, c, w) /\ e.snapshot = Snapshot(t, c, w) /\ e.result = Run(t, c, w).result
      /\ e.observed = IF Run(t, c, w).ok THEN {Observe(t, c, Run(t, c, w).result, Run(t, c, w).w)} ELSE {}
      /\ e = [call |-> e.call, status |-> e.status, predicted |-> e.predicted, snapshot |-> e.snapshot,
              result |-> e.result, observed |-> e.observed, pre |-> e.pre, post |-> e.post]
  BY DEF Act
<1>. HIDE DEF e
<1>2. IsEntry(t, e) /\ e.status # "undone"
  BY <1>1 DEF IsEntry
<1>. QED
  BY <1>1, <1>2 DEF e

(* An action is marked undone, and keeps the rest.                         *)
Marked(e) == [e EXCEPT !.status = "undone"]

(* An entry marked undone is one. *)
LEMMA MarkedEntry ==
    ASSUME NEW t, NEW e, IsEntry(t, e)
    PROVE  LET m == Marked(e)
           IN  /\ m.status = "undone" /\ m.call = e.call /\ m.pre = e.pre /\ m.post = e.post
               /\ m.observed = e.observed /\ m.predicted = e.predicted /\ m.snapshot = e.snapshot
               /\ reversible(t, e.call) => IsEntry(t, m)
<1>. DEFINE m == Marked(e)
<1>1. /\ e = [call |-> e.call, status |-> e.status, predicted |-> e.predicted, snapshot |-> e.snapshot,
              result |-> e.result, observed |-> e.observed, pre |-> e.pre, post |-> e.post]
      /\ e.predicted = Simulate(t, e.call, e.pre) /\ e.snapshot = Snapshot(t, e.call, e.pre)
      /\ e.result = Run(t, e.call, e.pre).result /\ e.post = Run(t, e.call, e.pre).w
      /\ e.observed = IF Run(t, e.call, e.pre).ok
                      THEN {Observe(t, e.call, Run(t, e.call, e.pre).result, Run(t, e.call, e.pre).w)} ELSE {}
  BY DEF IsEntry
<1>2. e.call \in Calls[t] /\ risk(t, e.call, e.pre) # "read" /\ Fit(t, e.pre)
  BY DEF IsEntry
<1>3. m = [call |-> e.call, status |-> "undone", predicted |-> e.predicted, snapshot |-> e.snapshot,
           result |-> e.result, observed |-> e.observed, pre |-> e.pre, post |-> e.post]
  BY <1>1 DEF Marked
<1>. HIDE DEF m
<1>4. /\ m.status = "undone" /\ m.call = e.call /\ m.pre = e.pre /\ m.post = e.post
      /\ m.observed = e.observed /\ m.predicted = e.predicted /\ m.snapshot = e.snapshot /\ m.result = e.result
  BY <1>3
<1>5. ASSUME reversible(t, e.call) PROVE IsEntry(t, m)
  BY <1>1, <1>2, <1>3, <1>4, <1>5 DEF IsEntry
<1>. QED
  BY <1>4, <1>5 DEF m

(* What is known of it. *)
LEMMA EntryFacts ==
    ASSUME NEW t \in Tools, NEW e, IsEntry(t, e)
    PROVE  /\ e.call \in Calls[t] /\ risk(t, e.call, e.pre) # "read" /\ Fit(t, e.pre) /\ Fit(t, e.post)
           /\ e.snapshot = Snapshot(t, e.call, e.pre) /\ e.post = Run(t, e.call, e.pre).w
           /\ e.status \in {"committed", "failed", "undone"}
           /\ (e.observed = {}) <=> ~Run(t, e.call, e.pre).ok
           /\ e.observed = {} => e.post = e.pre
           /\ e.status = "failed" => ~Run(t, e.call, e.pre).ok
           /\ e.status = "committed" => Run(t, e.call, e.pre).ok
           /\ e.status = "undone" => reversible(t, e.call)
           /\ Run(t, e.call, e.pre).ok => e.observed = {Observe(t, e.call, e.result, e.post)}
<1>1. /\ e.predicted = Simulate(t, e.call, e.pre) /\ e.snapshot = Snapshot(t, e.call, e.pre)
      /\ e.result = Run(t, e.call, e.pre).result /\ e.post = Run(t, e.call, e.pre).w
      /\ e.observed = IF Run(t, e.call, e.pre).ok
                      THEN {Observe(t, e.call, Run(t, e.call, e.pre).result, Run(t, e.call, e.pre).w)} ELSE {}
      /\ e.status \in {IF Run(t, e.call, e.pre).ok THEN "committed" ELSE "failed", "undone"}
  BY DEF IsEntry
<1>2. e.call \in Calls[t] /\ risk(t, e.call, e.pre) # "read" /\ Fit(t, e.pre)
      /\ (e.status = "undone" => reversible(t, e.call))
  BY DEF IsEntry
<1>3. Fit(t, e.post)
  BY <1>1, <1>2, RunFit
<1>4. ~Run(t, e.call, e.pre).ok => e.post = e.pre
  BY <1>1, <1>2, RunFits DEF Fit
<1>5. (e.observed = {}) <=> ~Run(t, e.call, e.pre).ok
  BY <1>1
<1>6. Run(t, e.call, e.pre).ok => e.observed = {Observe(t, e.call, e.result, e.post)}
  BY <1>1
<1>7. e.status \in {"committed", "failed", "undone"} /\ (e.status = "failed" => ~Run(t, e.call, e.pre).ok)
      /\ (e.status = "committed" => Run(t, e.call, e.pre).ok)
  BY <1>1
<1>. QED
  BY <1>1, <1>2, <1>3, <1>4, <1>5, <1>6, <1>7

-----------------------------------------------------------------------------
(* Where files belong, trees with the same files are the same.             *)
LEMMA SameAtFile ==
    ASSUME Apart, NEW w, IsTree(w), Tidy(w), NEW v, IsTree(v), Tidy(v), Files(w) = Files(v),
           NEW p \in Path, p \in FilePath
    PROVE  w[p] = v[p]
<1>1. FS!Sha(w[p]) = FS!Sha(v[p])
  BY FilesAt
<1>2. /\ FS!IsFile(w[p]) \/ w[p] = FS!Absent
      /\ FS!IsFile(v[p]) \/ v[p] = FS!Absent
  BY Nodes DEF IsTree, Tidy, Apart
<1>3. FS!IsFile(w[p]) <=> FS!IsFile(v[p])
  BY <1>1, Digest
<1>4. CASE FS!IsFile(w[p])
  BY <1>1, <1>3, <1>4, Digest
<1>5. CASE ~FS!IsFile(w[p])
  BY <1>2, <1>3, <1>5
<1>. QED
  BY <1>4, <1>5

(* So what an undo checks is there again, but for directories.             *)
LEMMA SeenAgain ==
    ASSUME NEW t \in Tools, NEW c \in Calls[t], NEW pre, Fit(t, pre), NEW v, Fit(t, v), NEW r, IsApart(t),
           risk(t, c, pre) # "read", Run(t, c, pre).ok, ~(t = "fs" /\ c.op \in {"mkdir", "rmdir"}),
           Core(t, v) = Core(t, Run(t, c, pre).w)
    PROVE  Observe(t, c, r, v) = Observe(t, c, r, Run(t, c, pre).w)
<1>. DEFINE post == Run(t, c, pre).w
<1>1. CASE t # "fs"
  BY <1>1 DEF Core
<1>2. CASE t = "fs"
  <2>1. Fit(t, post) /\ Run(t, c, pre) = FS!Run(c, pre)
    BY <1>2, RunFit DEF Run
  <2>2. IsTree(pre) /\ Tidy(pre) /\ c.op # "exists" /\ Apart
    BY <1>2, FsWorld, ExistsReads DEF Fit, IsApart
  <2>3. c.op \in {"write", "append", "delete", "move"} /\ c.path \in Path /\ c.dst \in Path
    BY <1>2, <2>2, PathSorts DEF FsOp
  <2>4. c.op \in {"write", "append", "move"} => c.path \in FilePath
    BY <1>2, PathSorts
  <2>5. c.op = "move" => c.dst \in FilePath
    BY <1>2, PathSorts
  <2>6. FS!Possible(c, pre)
    BY <2>1, <2>2, <2>3, FsRun DEF FsOp
  <2>7. c.op = "delete" => FS!IsFile(pre[c.path])
    BY <2>6 DEF FS!Possible
  <2>8. c.path \in FilePath
    BY <2>2, <2>3, <2>4, <2>7 DEF Tidy
  <2>. HIDE DEF post
  <2>9. IsTree(v) /\ Tidy(v) /\ IsTree(post) /\ Tidy(post)
    BY <1>2, <2>1, <2>2, FsWorld DEF Fit
  <2>10. Files(v) = Files(post)
    BY <1>2 DEF Core, post
  <2>11. v[c.path] = post[c.path]
    BY <2>2, <2>3, <2>8, <2>9, <2>10, SameAtFile
  <2>12. c.op = "move" => v[c.dst] = post[c.dst]
    BY <2>2, <2>3, <2>5, <2>9, <2>10, SameAtFile
  <2>13. FS!Observe(c, r, v) = FS!Observe(c, r, post)
    BY <2>3, <2>11, <2>12 DEF FS!Observe
  <2>. QED
    BY <1>2, <2>13 DEF Observe, post
<1>. QED
  BY <1>1, <1>2

(* The undo of an entry. *)
LEMMA UndoOfFits ==
    ASSUME NEW t \in Tools, NEW e, IsEntry(t, e), NEW v, Fit(t, v)
    PROVE  Fit(t, UndoOf(t, e, v).w)
<1>1. CASE Undoable(t, e) /\ NoConflict(t, e, v)
  <2>1. /\ UndoOf(t, e, v) = UndoHook(t, e.call, Snapshot(t, e.call, e.pre), e.result, v)
        /\ reversible(t, e.call)
    BY <1>1, EntryFacts DEF UndoOf, Undoable
  <2>2. e.call \in Calls[t] /\ risk(t, e.call, e.pre) # "read" /\ Fit(t, e.pre)
    BY EntryFacts
  <2>. QED
    BY <2>1, <2>2, UndoFit
<1>2. CASE ~(Undoable(t, e) /\ NoConflict(t, e, v))
  BY <1>2 DEF UndoOf
<1>. QED
  BY <1>1, <1>2

(* One that fails changes no file. *)
LEMMA UndoOfFails ==
    ASSUME NEW t \in Tools, NEW e, IsEntry(t, e), NEW v, Fit(t, v), IsApart(t), ~UndoOf(t, e, v).ok
    PROVE  Core(t, UndoOf(t, e, v).w) = Core(t, v)
<1>1. CASE Undoable(t, e) /\ NoConflict(t, e, v)
  <2>1. /\ UndoOf(t, e, v) = UndoHook(t, e.call, Snapshot(t, e.call, e.pre), e.result, v)
        /\ reversible(t, e.call)
    BY <1>1, EntryFacts DEF UndoOf, Undoable
  <2>2. e.call \in Calls[t] /\ risk(t, e.call, e.pre) # "read" /\ Fit(t, e.pre)
    BY EntryFacts
  <2>. QED
    BY <2>1, <2>2, UndoFails
<1>2. CASE ~(Undoable(t, e) /\ NoConflict(t, e, v))
  BY <1>2 DEF UndoOf
<1>. QED
  BY <1>1, <1>2

(* What an undo that succeeds has checked. *)
LEMMA UndoOfUndoes ==
    ASSUME NEW t \in Tools, NEW e, IsEntry(t, e), NEW v, UndoOf(t, e, v).ok
    PROVE  /\ Undoable(t, e) /\ NoConflict(t, e, v) /\ reversible(t, e.call) /\ e.status # "undone"
           /\ UndoOf(t, e, v) = UndoHook(t, e.call, e.snapshot, e.result, v)
           /\ t = "sh" => e.pre.head # <<>>
<1>1. Undoable(t, e) /\ NoConflict(t, e, v)
  BY DEF UndoOf
<1>2. reversible(t, e.call) /\ e.status # "undone"
  BY <1>1 DEF Undoable
<1>3. UndoOf(t, e, v) = UndoHook(t, e.call, e.snapshot, e.result, v)
  BY <1>1 DEF UndoOf
<1>4. ASSUME t = "sh" PROVE e.pre.head # <<>>
  <2>1. e.snapshot # <<>>
    BY <1>3, <1>4 DEF UndoHook, SH!Undo
  <2>2. e.call.cmd = "commit"
    BY <1>2, <1>4 DEF reversible, SH!reversible
  <2>3. e.snapshot = SH!Snapshot(e.call, e.pre)
    BY <1>4, EntryFacts DEF Snapshot
  <2>. QED
    BY <2>1, <2>2, <2>3 DEF SH!Snapshot
<1>. QED
  BY <1>1, <1>2, <1>3, <1>4

(* One that succeeds restores what was there, if nothing is newer. *)
LEMMA UndoOfRestores ==
    ASSUME NEW t \in Tools, NEW e, IsEntry(t, e), NEW v, Fit(t, v), IsApart(t), ~FailedMove(t, e),
           Core(t, v) = Core(t, e.post), UndoOf(t, e, v).ok
    PROVE  Core(t, UndoOf(t, e, v).w) = Core(t, e.pre)
<1>1. e.call \in Calls[t] /\ risk(t, e.call, e.pre) # "read" /\ Fit(t, e.pre)
  BY EntryFacts
<1>2. e.snapshot = Snapshot(t, e.call, e.pre) /\ e.post = Run(t, e.call, e.pre).w
  BY EntryFacts
<1>3. Undoable(t, e) /\ reversible(t, e.call) /\ UndoOf(t, e, v) = UndoHook(t, e.call, e.snapshot, e.result, v)
  BY UndoOfUndoes
<1>4. t = "fs" /\ e.call.op = "move" => Run(t, e.call, e.pre).ok
  BY EntryFacts DEF FailedMove
<1>5. ~Run(t, e.call, e.pre).ok => Snapshot(t, e.call, e.pre) # None
  <2>1. e.status \in {"committed", "failed"} /\ (e.status = "failed" => e.snapshot # None)
    BY <1>3 DEF Undoable
  <2>2. e.status = "committed" => Run(t, e.call, e.pre).ok
    BY EntryFacts
  <2>. QED
    BY <1>2, <2>1, <2>2
<1>6. UndoHook(t, e.call, Snapshot(t, e.call, e.pre), e.result, v).ok
  BY <1>2, <1>3
<1>7. Core(t, v) = Core(t, Run(t, e.call, e.pre).w)
  BY <1>2
<1>8. Core(t, UndoHook(t, e.call, Snapshot(t, e.call, e.pre), e.result, v).w) = Core(t, e.pre)
  BY <1>1, <1>3, <1>4, <1>5, <1>6, <1>7, UndoRestores
<1>. QED
  BY <1>2, <1>3, <1>8

(* With nothing in the way, a rollback goes behind the entry: it undoes    *)
(* it, or there is nothing to undo.                                        *)
LEMMA UndoOfReverts ==
    ASSUME NEW t \in Tools, NEW e, IsEntry(t, e), e.status # "undone", NEW v, Fit(t, v), IsApart(t),
           ~FailedMove(t, e), Core(t, v) = Core(t, e.post), reversible(t, e.call), ~NothingToRestore(t, e)
    PROVE  Core(t, UndoOf(t, e, v).w) = Core(t, e.pre)
<1>1. e.call \in Calls[t] /\ risk(t, e.call, e.pre) # "read" /\ Fit(t, e.pre)
  BY EntryFacts
<1>2. e.snapshot = Snapshot(t, e.call, e.pre) /\ e.post = Run(t, e.call, e.pre).w
  BY EntryFacts
<1>3. CASE UndoOf(t, e, v).ok
  BY <1>3, UndoOfRestores
<1>4. CASE ~UndoOf(t, e, v).ok
  <2>1. Core(t, UndoOf(t, e, v).w) = Core(t, v)
    BY <1>4, UndoOfFails
  <2>2. Core(t, e.post) = Core(t, e.pre)
    <3>1. CASE e.status = "failed"
      <4>1. e.post = e.pre
        BY <3>1, EntryFacts
      <4>. QED
        BY <4>1
    <3>2. CASE t = "fs" /\ e.call.op \in {"mkdir", "rmdir"}
      <4>1. /\ "fs" \in Tools /\ e.call \in Calls["fs"] /\ Apart /\ IsTree(e.pre) /\ Tidy(e.pre)
            /\ Run(t, e.call, e.pre) = FS!Run(e.call, e.pre)
        BY <1>1, <3>2, FsWorld DEF Fit, IsApart, Run
      <4>. DEFINE f == Files(e.pre)
      <4>2. Files(FS!Run(e.call, e.pre).w) = Effect(e.call, f)
        BY <4>1, TidyRun
      <4>3. \A q \in Path : EffectAt(e.call, f, q) = f[q]
        BY <3>2 DEF EffectAt
      <4>4. f = [q \in Path |-> f[q]]
        BY DEF Files
      <4>. HIDE DEF f
      <4>5. Effect(e.call, f) = f
        BY <4>3, <4>4 DEF Effect
      <4>. QED
        BY <1>2, <3>2, <4>1, <4>2, <4>5 DEF Core, f
    <3>3. CASE e.status = "committed" /\ ~(t = "fs" /\ e.call.op \in {"mkdir", "rmdir"})
      <4>1. Run(t, e.call, e.pre).ok /\ e.observed = {Observe(t, e.call, e.result, e.post)}
        BY <3>3, EntryFacts
      <4>2. Observe(t, e.call, e.result, v) = Observe(t, e.call, e.result, e.post)
        BY <1>1, <1>2, <3>3, <4>1, SeenAgain
      <4>3. NoConflict(t, e, v)
        BY <4>1, <4>2 DEF NoConflict
      <4>4. Undoable(t, e)
        BY <3>3 DEF Undoable
      <4>5. t = "http" => Snapshot(t, e.call, e.pre) # None \/ HT!Inverse(e.call)
        BY <1>2 DEF NothingToRestore
      <4>6. t = "sh" => Snapshot(t, e.call, e.pre) # <<>>
        BY <1>2 DEF NothingToRestore
      <4>7. UndoHook(t, e.call, Snapshot(t, e.call, e.pre), e.result, v).ok
        BY <1>1, <1>2, <4>1, <4>5, <4>6, UndoSucceeds
      <4>8. FALSE
        BY <1>2, <1>4, <4>3, <4>4, <4>7 DEF UndoOf
      <4>. QED
        BY <4>8
    <3>. QED
      BY <3>1, <3>2, <3>3, EntryFacts
  <2>. QED
    BY <2>1, <2>2
<1>. QED
  BY <1>3, <1>4

(***************************************************************************)
(* A session.                                                              *)
(***************************************************************************)

Least(S) == CHOOSE x \in S : \A y \in S : x <= y

(* A set of naturals has a least element. *)
LEMMA LeastOf ==
    ASSUME NEW S \in SUBSET Nat, S # {}
    PROVE  Least(S) \in S /\ \A y \in S : Least(S) <= y
<1>1. PICK x \in S : \A y \in S : ~(<<y, x>> \in OpToRel(<, Nat))
  BY NatLessThanWellFounded, WFMin
<1>2. OpToRel(<, Nat) = {ss \in Nat \X Nat : ss[1] < ss[2]}
  BY DEF OpToRel
<1>3. \A y \in S : ~(y < x)
  <2>. TAKE y \in S
  <2>1. <<y, x>> \in Nat \X Nat /\ <<y, x>>[1] = y /\ <<y, x>>[2] = x
    OBVIOUS
  <2>. QED
    BY <1>1, <1>2, <2>1
<1>4. \A y \in S : x <= y
  BY <1>3
<1>. QED
  BY <1>4 DEF Least

(* A bounded one has a greatest, and Max finds it. *)
LEMMA GreatestOf ==
    ASSUME NEW k \in Nat, NEW S \in SUBSET (0 .. k), S # {}
    PROVE  Max(S) \in S /\ \A y \in S : Max(S) >= y
<1>. DEFINE T == {i \in 0 .. k : k - i \in S}
<1>1. T # {} /\ T \subseteq Nat
  <2>1. PICK y \in S : TRUE
    OBVIOUS
  <2>2. y \in 0 .. k /\ k - y \in 0 .. k /\ k - (k - y) = y
    BY <2>1
  <2>3. k - y \in T
    BY <2>1, <2>2
  <2>4. T \subseteq Nat
    OBVIOUS
  <2>. HIDE DEF T
  <2>. QED
    BY <2>3, <2>4
<1>2. Least(T) \in T /\ \A i \in T : Least(T) <= i
  BY <1>1, LeastOf
<1>3. k - Least(T) \in S
  BY <1>2
<1>4. ASSUME NEW y \in S PROVE k - Least(T) >= y
  <2>1. k - (k - y) = y /\ k - y \in 0 .. k
    OBVIOUS
  <2>2. k - y \in T
    BY <2>1
  <2>. QED
    BY <2>1, <2>2, <1>2
<1>. QED
  BY <1>3, <1>4 DEF Max

(* One step of a rollback (back) or of a replay, the k-th, in world w.     *)
StepOf(back, t, acts, k, w) ==
    IF back THEN UndoOf(t, acts[Len(acts) + 1 - k], w).w ELSE ReplayOf(t, acts[k], w)

(* f follows it up to m. *)
IsChain(back, t, acts, w, m, f) ==
    f = [k \in 0 .. m |-> IF k = 0 THEN w ELSE StepOf(back, t, acts, k, f[k - 1])]

(* There is a function that follows it to any m. *)
LEMMA ChainExists ==
    ASSUME NEW back, NEW t, NEW acts, NEW w
    PROVE  \A m \in Nat : \E f : IsChain(back, t, acts, w, m, f)
<1>. DEFINE Bad == {m \in Nat : ~\E f : IsChain(back, t, acts, w, m, f)}
<1>1. SUFFICES ASSUME Bad # {} PROVE FALSE
  OBVIOUS
<1>2. PICK m \in Bad : \A i \in Bad : m <= i
  BY <1>1, LeastOf
<1>3. m \in Nat /\ ~\E f : IsChain(back, t, acts, w, m, f)
  OBVIOUS
<1>4. CASE m = 0
  <2>1. IsChain(back, t, acts, w, 0, [j \in 0 .. 0 |-> w])
    BY DEF IsChain
  <2>. QED
    BY <1>3, <1>4, <2>1
<1>5. CASE m # 0
  <2>1. m - 1 \in Nat /\ ~(m <= m - 1)
    BY <1>3, <1>5
  <2>2. m - 1 \notin Bad
    BY <1>2, <2>1
  <2>3. PICK f : IsChain(back, t, acts, w, m - 1, f)
    BY <2>1, <2>2
  <2>. DEFINE g == [j \in 0 .. m |-> IF j = m THEN StepOf(back, t, acts, m, f[m - 1]) ELSE f[j]]
  <2>4. \A j \in 0 .. m : g[j] = IF j = 0 THEN w ELSE StepOf(back, t, acts, j, g[j - 1])
    <3>. TAKE j \in 0 .. m
    <3>1. CASE j = m
      <4>1. m - 1 \in 0 .. m /\ m - 1 # m
        BY <1>3, <1>5
      <4>2. g[m - 1] = f[m - 1]
        BY <4>1
      <4>3. g[m] = StepOf(back, t, acts, m, f[m - 1])
        BY <1>3
      <4>. QED
        BY <1>5, <3>1, <4>2, <4>3
    <3>2. CASE j # m
      <4>1. j \in 0 .. m - 1 /\ (j # 0 => j - 1 \in 0 .. m /\ j - 1 # m)
        BY <1>3, <3>2
      <4>2. g[j] = f[j] /\ (j # 0 => g[j - 1] = f[j - 1])
        BY <3>2, <4>1
      <4>3. f[j] = IF j = 0 THEN w ELSE StepOf(back, t, acts, j, f[j - 1])
        BY <2>3, <4>1 DEF IsChain
      <4>. QED
        BY <4>2, <4>3
    <3>. QED
      BY <3>1, <3>2
  <2>5. IsChain(back, t, acts, w, m, g)
    BY <2>4 DEF IsChain
  <2>. QED
    BY <1>3, <2>5
<1>. QED
  BY <1>4, <1>5


(* So Again and Left follow theirs. *)
LEMMA AgainEquation ==
    ASSUME NEW t, NEW acts, Len(acts) \in Nat, NEW w
    PROVE  LET again == Again(t, acts, w)
           IN  again[0] = w /\ \A k \in 1 .. Len(acts) : again[k] = ReplayOf(t, acts[k], again[k - 1])
<1>. DEFINE n == Len(acts)
            again == Again(t, acts, w)
<1>1. again = CHOOSE f : f = [k \in 0 .. n |-> IF k = 0 THEN w ELSE ReplayOf(t, acts[k], f[k - 1])]
  BY DEF Again
<1>. HIDE DEF again
<1>2. again = CHOOSE f : IsChain(FALSE, t, acts, w, n, f)
  BY <1>1 DEF IsChain, StepOf
<1>3. \E f : IsChain(FALSE, t, acts, w, n, f)
  BY ChainExists
<1>4. IsChain(FALSE, t, acts, w, n, again)
  BY <1>2, <1>3
<1>5. again = [k \in 0 .. n |-> IF k = 0 THEN w ELSE ReplayOf(t, acts[k], again[k - 1])]
  BY <1>4 DEF IsChain, StepOf
<1>6. again[0] = w /\ \A k \in 1 .. n : again[k] = ReplayOf(t, acts[k], again[k - 1])
  BY <1>5
<1>. QED
  BY <1>6 DEF again

(* Left goes back from the last entry. *)
LEMMA LeftEquation ==
    ASSUME NEW t, NEW acts, Len(acts) \in Nat, NEW w
    PROVE  LET left == Left(t, acts, w)
           IN  left[Len(acts) + 1] = w /\ \A i \in 1 .. Len(acts) : left[i] = UndoOf(t, acts[i], left[i + 1]).w
<1>. DEFINE n == Len(acts)
            left == Left(t, acts, w)
            Goes(f) == f = [i \in 1 .. n + 1 |-> IF i > n THEN w ELSE UndoOf(t, acts[i], f[i + 1]).w]
<1>1. left = CHOOSE f : Goes(f)
  BY DEF Left
<1>2. \E f : Goes(f)
  <2>1. PICK f : IsChain(TRUE, t, acts, w, n, f)
    BY ChainExists
  <2>2. \A k \in 0 .. n : f[k] = IF k = 0 THEN w ELSE UndoOf(t, acts[n + 1 - k], f[k - 1]).w
    BY <2>1 DEF IsChain, StepOf
  <2>. DEFINE g == [i \in 1 .. n + 1 |-> f[n + 1 - i]]
  <2>3. ASSUME NEW i \in 1 .. n + 1 PROVE g[i] = IF i > n THEN w ELSE UndoOf(t, acts[i], g[i + 1]).w
    <3>. DEFINE k == n + 1 - i
    <3>1. k \in 0 .. n /\ (k = 0 <=> i > n) /\ g[i] = f[k] /\ n + 1 - k = i
      OBVIOUS
    <3>2. k # 0 => i + 1 \in 1 .. n + 1 /\ n + 1 - (i + 1) = k - 1
      OBVIOUS
    <3>3. k # 0 => g[i + 1] = f[k - 1]
      BY <3>2
    <3>. HIDE DEF k, g
    <3>. QED
      BY <2>2, <3>1, <3>3
  <2>4. Goes(g)
    BY <2>3
  <2>. QED
    BY <2>4
<1>. HIDE DEF left, Goes
<1>3. Goes(left)
  BY <1>1, <1>2
<1>4. left = [i \in 1 .. n + 1 |-> IF i > n THEN w ELSE UndoOf(t, acts[i], left[i + 1]).w]
  BY <1>3 DEF Goes
<1>5. n + 1 \in 1 .. n + 1 /\ n + 1 > n /\ \A i \in 1 .. n : i \in 1 .. n + 1 /\ ~(i > n)
  OBVIOUS
<1>. HIDE DEF n
<1>6. left[n + 1] = w
  BY <1>4, <1>5
<1>7. \A i \in 1 .. n : left[i] = UndoOf(t, acts[i], left[i + 1]).w
  BY <1>4, <1>5
<1>. QED
  BY <1>6, <1>7 DEF left, n

(* What a log is, and what it is with one more entry. *)
IsLog(t, acts) ==
    /\ Len(acts) \in Nat /\ acts = [i \in 1 .. Len(acts) |-> acts[i]]
    /\ \A i \in 1 .. Len(acts) : IsEntry(t, acts[i])

(* A function on an interval is a log. *)
LEMMA LogOf ==
    ASSUME NEW t, NEW k \in Nat, NEW acts, acts = [i \in 1 .. k |-> acts[i]],
           \A i \in 1 .. k : IsEntry(t, acts[i])
    PROVE  IsLog(t, acts) /\ Len(acts) = k /\ DOMAIN acts = 1 .. k
<1>1. acts \in [1 .. k -> {acts[i] : i \in 1 .. k}]
  OBVIOUS
<1>2. acts \in Seq({acts[i] : i \in 1 .. k})
  BY <1>1
<1>3. DOMAIN acts = 1 .. k
  BY <1>1
<1>4. Len(acts) = k
  BY <1>2, <1>3
<1>. QED
  BY <1>3, <1>4 DEF IsLog

(* A log with one more entry is a log. *)
LEMMA LogAppend ==
    ASSUME NEW t, NEW acts, IsLog(t, acts), NEW e, IsEntry(t, e)
    PROVE  LET more == Append(acts, e)
               n    == Len(acts)
           IN  /\ IsLog(t, more) /\ Len(more) = n + 1 /\ n \in Nat
               /\ more[n + 1] = e /\ \A i \in 1 .. n : more[i] = acts[i]
<1>. DEFINE n == Len(acts)
            E == {acts[i] : i \in 1 .. n} \cup {e}
            more == Append(acts, e)
<1>1. n \in Nat /\ acts = [i \in 1 .. n |-> acts[i]] /\ \A i \in 1 .. n : IsEntry(t, acts[i])
  BY DEF IsLog
<1>2. acts \in [1 .. n -> E]
  BY <1>1
<1>3. acts \in Seq(E) /\ e \in E
  BY <1>1, <1>2
<1>. HIDE DEF E
<1>4. more \in Seq(E) /\ Len(more) = n + 1 /\ more[n + 1] = e /\ \A i \in 1 .. n : more[i] = acts[i]
  BY <1>1, <1>3
<1>. HIDE DEF more, n
<1>5. more = [i \in 1 .. n + 1 |-> more[i]]
  BY <1>4
<1>6. \A i \in 1 .. n + 1 : i = n + 1 \/ i \in 1 .. n
  BY <1>1
<1>7. \A i \in 1 .. n + 1 : IsEntry(t, more[i])
  BY <1>1, <1>4, <1>6
<1>8. IsLog(t, more)
  BY <1>1, <1>4, <1>5, <1>7 DEF IsLog
<1>. QED
  BY <1>1, <1>4, <1>8 DEF more, n

-----------------------------------------------------------------------------
(* The entries before i that stand, and the world the last of them left.   *)
Standing(acts, i) == {j \in 1 .. i - 1 : acts[j].status # "undone"}
Base(acts, w, i)  == IF Standing(acts, i) = {} THEN w ELSE acts[Max(Standing(acts, i))].post

(* An entry that stands is the base of what follows, one that was undone is not. *)
LEMMA BaseAfter ==
    ASSUME NEW acts, NEW w, NEW i \in Nat \ {0}
    PROVE  /\ acts[i].status # "undone" => Base(acts, w, i + 1) = acts[i].post
           /\ acts[i].status = "undone" => Base(acts, w, i + 1) = Base(acts, w, i)
<1>. DEFINE S == Standing(acts, i + 1)
<1>1. ASSUME acts[i].status # "undone" PROVE Base(acts, w, i + 1) = acts[i].post
  <2>1. i \in 1 .. (i + 1) - 1
    OBVIOUS
  <2>2. i \in S /\ S \in SUBSET (0 .. i) /\ S # {}
    BY <1>1, <2>1 DEF Standing
  <2>. HIDE DEF S
  <2>3. Max(S) \in S /\ Max(S) >= i
    BY <2>2, GreatestOf
  <2>. DEFINE k == Max(S)
  <2>5. k \in 0 .. i /\ k >= i
    BY <2>2, <2>3
  <2>. HIDE DEF k
  <2>6. k = i
    BY <2>5
  <2>4. Max(S) = i
    BY <2>6 DEF k
  <2>. QED
    BY <2>2, <2>4 DEF Base, S
<1>2. ASSUME acts[i].status = "undone" PROVE Base(acts, w, i + 1) = Base(acts, w, i)
  <2>1. \A j \in 1 .. (i + 1) - 1 : j = i \/ j \in 1 .. i - 1
    OBVIOUS
  <2>2. \A j \in 1 .. i - 1 : j \in 1 .. (i + 1) - 1
    OBVIOUS
  <2>3. S = Standing(acts, i)
    BY <1>2, <2>1, <2>2 DEF Standing
  <2>. QED
    BY <2>3 DEF Base
<1>. QED
  BY <1>1, <1>2

(* The first entry has the world the session found. *)
LEMMA BaseFirst == \A acts, w : Base(acts, w, 1) = w
<1>1. \A acts : Standing(acts, 1) = {}
  BY DEF Standing
<1>. QED
  BY <1>1 DEF Base

(* It depends on what stands before only. *)
LEMMA BaseSame ==
    ASSUME NEW acts, NEW bcts, NEW w, NEW i \in Nat,
           \A j \in 1 .. i - 1 : /\ acts[j].status = "undone" <=> bcts[j].status = "undone"
                                 /\ acts[j].post = bcts[j].post
    PROVE  Base(acts, w, i) = Base(bcts, w, i)
<1>. DEFINE S == Standing(acts, i)
<1>1. S = Standing(bcts, i) /\ S \in SUBSET (0 .. i) /\ S \subseteq 1 .. i - 1
  BY DEF Standing
<1>. HIDE DEF S
<1>2. S # {} => Max(S) \in S
  BY <1>1, GreatestOf
<1>3. S # {} => acts[Max(S)].post = bcts[Max(S)].post
  BY <1>1, <1>2
<1>4. Base(acts, w, i) = IF S = {} THEN w ELSE acts[Max(S)].post
  BY DEF Base, S
<1>5. Base(bcts, w, i) = IF S = {} THEN w ELSE bcts[Max(S)].post
  BY <1>1 DEF Base
<1>. QED
  BY <1>3, <1>4, <1>5

(* Entries that were undone make no difference. *)
LEMMA BaseSkip ==
    ASSUME NEW acts, NEW w, NEW i \in Nat \ {0}, NEW k \in Nat, i <= k,
           \A j \in i .. k - 1 : acts[j].status = "undone"
    PROVE  Base(acts, w, k) = Base(acts, w, i)
<1>1. \A j \in 1 .. k - 1 : j \in 1 .. i - 1 \/ j \in i .. k - 1
  OBVIOUS
<1>2. \A j \in 1 .. i - 1 : j \in 1 .. k - 1
  OBVIOUS
<1>3. Standing(acts, k) = Standing(acts, i)
  BY <1>1, <1>2 DEF Standing
<1>. QED
  BY <1>3 DEF Base

(* Each entry that stands was taken in the world the last one before it    *)
(* that stands had left, and that of the last one is the world now.        *)
Chained(t, acts, w0, w) ==
    /\ \A i \in 1 .. Len(acts) : acts[i].status # "undone" => Core(t, acts[i].pre) = Core(t, Base(acts, w0, i))
    /\ \A i \in 1 .. Len(acts) : t = "sh" /\ acts[i].status = "undone" => Base(acts, w0, i).head # <<>>
    /\ Core(t, w) = Core(t, Base(acts, w0, Len(acts) + 1))

Calm(t, acts) == IsApart(t) /\ \A i \in 1 .. Len(acts) : ~FailedMove(t, acts[i])

(* So it stays when the entries from m on are undone, and the world is     *)
(* what the last one before them had left.                                 *)
LEMMA Cut ==
    ASSUME NEW t, NEW acts, Len(acts) \in Nat, NEW bcts, Len(bcts) = Len(acts), NEW w0, NEW w, NEW v,
           Chained(t, acts, w0, w), NEW m \in 1 .. Len(acts) + 1,
           \A j \in 1 .. Len(acts) : bcts[j].pre = acts[j].pre /\ bcts[j].post = acts[j].post,
           \A j \in 1 .. m - 1 : bcts[j].status = acts[j].status,
           \A j \in m .. Len(acts) : bcts[j].status = "undone",
           Core(t, v) = Core(t, Base(acts, w0, m)),
           t = "sh" /\ m <= Len(acts) => Base(acts, w0, m).head # <<>>
    PROVE  Chained(t, bcts, w0, v)
<1>. DEFINE n == Len(acts)
<1>1. \A i \in 1 .. m : \A j \in 1 .. i - 1 : j \in 1 .. m - 1 /\ j \in 1 .. n
  OBVIOUS
<1>2. ASSUME NEW i \in 1 .. m PROVE Base(bcts, w0, i) = Base(acts, w0, i)
  <2>1. \A j \in 1 .. i - 1 : /\ acts[j].status = "undone" <=> bcts[j].status = "undone"
                              /\ acts[j].post = bcts[j].post
    BY <1>1
  <2>2. i \in Nat
    OBVIOUS
  <2>. QED
    BY <2>1, <2>2, BaseSame
<1>3. ASSUME NEW i \in m .. n + 1 PROVE Base(bcts, w0, i) = Base(acts, w0, m)
  <2>1. \A j \in m .. i - 1 : j \in m .. n
    OBVIOUS
  <2>2. \A j \in m .. i - 1 : bcts[j].status = "undone"
    BY <2>1
  <2>3. m \in Nat \ {0} /\ i \in Nat /\ m <= i /\ m \in 1 .. m
    OBVIOUS
  <2>4. Base(bcts, w0, i) = Base(bcts, w0, m)
    BY <2>2, <2>3, BaseSkip
  <2>. QED
    BY <1>2, <2>3, <2>4
<1>4. ASSUME NEW i \in 1 .. n, bcts[i].status # "undone" PROVE Core(t, bcts[i].pre) = Core(t, Base(bcts, w0, i))
  <2>1. i \in 1 .. m - 1 /\ i \in 1 .. m
    BY <1>4
  <2>2. acts[i].status # "undone"
    BY <1>4, <2>1
  <2>3. Core(t, acts[i].pre) = Core(t, Base(acts, w0, i))
    BY <2>2 DEF Chained
  <2>. QED
    BY <1>2, <2>1, <2>3
<1>5. ASSUME NEW i \in 1 .. n, t = "sh", bcts[i].status = "undone" PROVE Base(bcts, w0, i).head # <<>>
  <2>1. CASE i \in 1 .. m - 1
    <3>1. i \in 1 .. m /\ acts[i].status = "undone"
      BY <1>5, <2>1
    <3>2. Base(acts, w0, i).head # <<>>
      BY <1>5, <3>1 DEF Chained
    <3>. QED
      BY <1>2, <3>1, <3>2
  <2>2. CASE i \notin 1 .. m - 1
    <3>1. i \in m .. n + 1 /\ m <= n
      BY <2>2
    <3>. QED
      BY <1>3, <1>5, <3>1
  <2>. QED
    BY <2>1, <2>2
<1>6. n + 1 \in m .. n + 1
  OBVIOUS
<1>7. Core(t, v) = Core(t, Base(bcts, w0, n + 1))
  BY <1>3, <1>6
<1>. QED
  BY <1>4, <1>5, <1>7 DEF Chained

-----------------------------------------------------------------------------
(* A rollback keeps the world one. *)
LEMMA LeftFits ==
    ASSUME NEW t \in Tools, NEW acts, IsLog(t, acts), NEW w, Fit(t, w)
    PROVE  \A i \in 1 .. Len(acts) + 1 : Fit(t, Left(t, acts, w)[i])
<1>. DEFINE n == Len(acts)
            left == Left(t, acts, w)
            Bad == {k \in 0 .. n : ~Fit(t, left[n + 1 - k])}
<1>1. n \in Nat /\ \A i \in 1 .. n : IsEntry(t, acts[i])
  BY DEF IsLog
<1>2. left[n + 1] = w /\ \A i \in 1 .. n : left[i] = UndoOf(t, acts[i], left[i + 1]).w
  BY <1>1, LeftEquation
<1>. HIDE DEF left
<1>3. ASSUME Bad # {} PROVE FALSE
  <2>1. Bad \in SUBSET Nat
    BY <1>1
  <2>2. PICK k \in Bad : \A j \in Bad : k <= j
    BY <1>3, <2>1, LeastOf
  <2>3. k \in 0 .. n /\ ~Fit(t, left[n + 1 - k])
    OBVIOUS
  <2>. DEFINE i == n + 1 - k
  <2>4. k # 0
    BY <1>1, <1>2, <2>3
  <2>5. k - 1 \in 0 .. n /\ ~(k <= k - 1) /\ n + 1 - (k - 1) = i + 1 /\ i \in 1 .. n
    BY <1>1, <2>3, <2>4
  <2>6. Fit(t, left[i + 1])
    BY <2>2, <2>5
  <2>. HIDE DEF i, Bad
  <2>7. Fit(t, left[i])
    BY <1>1, <1>2, <2>5, <2>6, UndoOfFits
  <2>. QED
    BY <2>3, <2>7 DEF i
<1>4. ASSUME NEW i \in 1 .. n + 1 PROVE Fit(t, left[i])
  <2>1. n + 1 - i \in 0 .. n /\ n + 1 - (n + 1 - i) = i
    BY <1>1
  <2>. QED
    BY <1>3, <2>1
<1>. QED
  BY <1>4 DEF left

(* Down to m, as long as everything can be taken back, it goes through the *)
(* worlds the session went through.                                        *)
LEMMA LeftChain ==
    ASSUME NEW t \in Tools, NEW acts, IsLog(t, acts), Calm(t, acts), NEW w0, NEW w, Fit(t, w),
           Chained(t, acts, w0, w), NEW m \in 1 .. Len(acts) + 1,
           \A i \in m .. Len(acts) :
              \/ acts[i].status = "undone"
              \/ UndoOf(t, acts[i], Left(t, acts, w)[i + 1]).ok
              \/ reversible(t, acts[i].call) /\ ~NothingToRestore(t, acts[i])
    PROVE  \A i \in m .. Len(acts) + 1 : Core(t, Left(t, acts, w)[i]) = Core(t, Base(acts, w0, i))
<1>. DEFINE n == Len(acts)
            left == Left(t, acts, w)
            Good(i) == Core(t, left[i]) = Core(t, Base(acts, w0, i))
            Bad == {k \in 0 .. n + 1 - m : ~Good(n + 1 - k)}
<1>1. n \in Nat /\ \A i \in 1 .. n : IsEntry(t, acts[i])
  BY DEF IsLog
<1>2. left[n + 1] = w /\ \A i \in 1 .. n : left[i] = UndoOf(t, acts[i], left[i + 1]).w
  BY <1>1, LeftEquation
<1>3. \A i \in 1 .. n + 1 : Fit(t, left[i])
  BY LeftFits
<1>4. \A i \in m .. n : acts[i].status = "undone" \/ UndoOf(t, acts[i], left[i + 1]).ok
                          \/ (reversible(t, acts[i].call) /\ ~NothingToRestore(t, acts[i]))
  OBVIOUS
<1>5. IsApart(t) /\ \A i \in 1 .. n : ~FailedMove(t, acts[i])
  BY DEF Calm
<1>6. /\ \A i \in 1 .. n : acts[i].status # "undone" => Core(t, acts[i].pre) = Core(t, Base(acts, w0, i))
      /\ Core(t, w) = Core(t, Base(acts, w0, n + 1))
  BY DEF Chained
<1>. HIDE DEF left
<1>7. ASSUME NEW i \in m .. n, Good(i + 1) PROVE Good(i)
  <2>1. i \in 1 .. n /\ i + 1 \in 1 .. n + 1 /\ i \in Nat \ {0}
    BY <1>1
  <2>2. Core(t, left[i + 1]) = Core(t, Base(acts, w0, i + 1))
    BY <1>7
  <2>. DEFINE e == acts[i]
              v == left[i + 1]
  <2>3. IsEntry(t, e) /\ Fit(t, v) /\ ~FailedMove(t, e) /\ left[i] = UndoOf(t, e, v).w
    BY <1>1, <1>2, <1>3, <1>5, <2>1
  <2>4. CASE e.status = "undone"
    <3>1. Base(acts, w0, i + 1) = Base(acts, w0, i)
      BY <2>1, <2>4, BaseAfter
    <3>2. ~Undoable(t, e)
      BY <2>4 DEF Undoable
    <3>3. UndoOf(t, e, v).w = v
      BY <3>2 DEF UndoOf
    <3>. QED
      BY <2>2, <2>3, <3>1, <3>3
  <2>5. CASE e.status # "undone"
    <3>1. Base(acts, w0, i + 1) = e.post
      BY <2>1, <2>5, BaseAfter
    <3>2. Core(t, e.pre) = Core(t, Base(acts, w0, i))
      BY <1>6, <2>1, <2>5
    <3>3. UndoOf(t, e, v).ok \/ (reversible(t, e.call) /\ ~NothingToRestore(t, e))
      BY <1>4, <2>5
    <3>4. Core(t, v) = Core(t, e.post)
      BY <2>2, <3>1
    <3>. HIDE DEF e, v
    <3>5. Core(t, UndoOf(t, e, v).w) = Core(t, e.pre)
      <4>1. CASE UndoOf(t, e, v).ok
        BY <1>5, <2>3, <3>4, <4>1, UndoOfRestores
      <4>2. CASE reversible(t, e.call) /\ ~NothingToRestore(t, e)
        BY <1>5, <2>3, <2>5, <3>4, <4>2, UndoOfReverts
      <4>. QED
        BY <3>3, <4>1, <4>2
    <3>. QED
      BY <2>3, <3>2, <3>5
  <2>. QED
    BY <2>4, <2>5
<1>8. Good(n + 1)
  BY <1>2, <1>6
<1>. HIDE DEF Good
<1>9. ASSUME Bad # {} PROVE FALSE
  <2>1. Bad \in SUBSET Nat
    BY <1>1
  <2>2. PICK k \in Bad : \A j \in Bad : k <= j
    BY <1>9, <2>1, LeastOf
  <2>3. k \in 0 .. n + 1 - m /\ ~Good(n + 1 - k)
    OBVIOUS
  <2>. DEFINE i == n + 1 - k
  <2>4. k # 0
    BY <1>1, <1>8, <2>3
  <2>5. k - 1 \in 0 .. n + 1 - m /\ ~(k <= k - 1) /\ n + 1 - (k - 1) = i + 1 /\ i \in m .. n
    BY <1>1, <2>3, <2>4
  <2>6. Good(i + 1)
    BY <2>2, <2>5
  <2>. HIDE DEF i, Bad
  <2>7. Good(i)
    BY <1>7, <2>5, <2>6
  <2>. QED
    BY <2>3, <2>7 DEF i
<1>10. ASSUME NEW i \in m .. n + 1 PROVE Good(i)
  <2>1. n + 1 - i \in 0 .. n + 1 - m /\ n + 1 - (n + 1 - i) = i
    BY <1>1
  <2>. QED
    BY <1>9, <2>1
<1>. QED
  BY <1>10 DEF Good, left

(* Where nothing is undone, no file changes. *)
LEMMA LeftIdle ==
    ASSUME NEW t \in Tools, NEW acts, IsLog(t, acts), IsApart(t), NEW w, Fit(t, w),
           NEW m \in 1 .. Len(acts) + 1,
           \A i \in 1 .. m - 1 : ~UndoOf(t, acts[i], Left(t, acts, w)[i + 1]).ok
    PROVE  Core(t, Left(t, acts, w)[1]) = Core(t, Left(t, acts, w)[m])
<1>. DEFINE n == Len(acts)
            left == Left(t, acts, w)
            Bad == {k \in 0 .. m - 1 : Core(t, left[m - k]) # Core(t, left[m])}
<1>1. n \in Nat /\ \A i \in 1 .. n : IsEntry(t, acts[i])
  BY DEF IsLog
<1>2. \A i \in 1 .. n : left[i] = UndoOf(t, acts[i], left[i + 1]).w
  BY <1>1, LeftEquation
<1>3. \A i \in 1 .. n + 1 : Fit(t, left[i])
  BY LeftFits
<1>4. \A i \in 1 .. m - 1 : ~UndoOf(t, acts[i], left[i + 1]).ok
  OBVIOUS
<1>. HIDE DEF left
<1>5. ASSUME NEW i \in 1 .. m - 1 PROVE Core(t, left[i]) = Core(t, left[i + 1])
  <2>1. i \in 1 .. n /\ i + 1 \in 1 .. n + 1
    BY <1>1
  <2>2. IsEntry(t, acts[i]) /\ Fit(t, left[i + 1]) /\ ~UndoOf(t, acts[i], left[i + 1]).ok
    BY <1>1, <1>3, <1>4, <2>1
  <2>3. Core(t, UndoOf(t, acts[i], left[i + 1]).w) = Core(t, left[i + 1])
    BY <2>2, UndoOfFails
  <2>. QED
    BY <1>2, <2>1, <2>3
<1>6. ASSUME Bad # {} PROVE FALSE
  <2>1. Bad \in SUBSET Nat
    BY <1>1
  <2>2. PICK k \in Bad : \A j \in Bad : k <= j
    BY <1>6, <2>1, LeastOf
  <2>3. k \in 0 .. m - 1 /\ Core(t, left[m - k]) # Core(t, left[m]) /\ m - 0 = m
    BY <1>1
  <2>. DEFINE i == m - k
  <2>4. k # 0
    BY <2>3
  <2>5. k - 1 \in 0 .. m - 1 /\ ~(k <= k - 1) /\ m - (k - 1) = i + 1 /\ i \in 1 .. m - 1
    BY <1>1, <2>3, <2>4
  <2>6. Core(t, left[i + 1]) = Core(t, left[m])
    BY <2>2, <2>5
  <2>. HIDE DEF i, Bad
  <2>7. Core(t, left[i]) = Core(t, left[m])
    BY <1>5, <2>5, <2>6
  <2>. QED
    BY <2>3, <2>7 DEF i
<1>7. m - 1 \in 0 .. m - 1 /\ m - (m - 1) = 1
  BY <1>1
<1>8. Core(t, left[1]) = Core(t, left[m])
  <2>1. ASSUME Core(t, left[1]) # Core(t, left[m]) PROVE FALSE
    <3>1. Core(t, left[m - (m - 1)]) # Core(t, left[m])
      BY <1>7, <2>1
    <3>2. m - 1 \in Bad
      BY <1>7, <3>1
    <3>. QED
      BY <1>6, <3>2
  <2>. QED
    BY <2>1
<1>. QED
  BY <1>8 DEF left

(* Whether a call reads does not depend on the world. *)
LEMMA ReadsAlways ==
    ASSUME NEW t \in Tools, NEW c \in Calls[t], NEW w, NEW v, risk(t, c, w) # "read"
    PROVE  risk(t, c, v) # "read"
<1>1. CASE t = "fs"
  BY <1>1, PathSorts DEF risk, FS!risk, FsOp
<1>2. CASE t = "db"
  BY <1>2 DEF risk, DB!risk
<1>3. CASE t = "http"
  BY <1>3 DEF risk, HT!risk
<1>4. CASE t = "sh"
  BY <1>4 DEF risk, SH!risk
<1>5. CASE t = "email"
  BY <1>5 DEF risk, EM!risk
<1>. QED
  BY <1>1, <1>2, <1>3, <1>4, <1>5, ToolsAssumption

(* One step of a replay: an entry that stands has its effect again, one    *)
(* that was undone has none.                                               *)
LEMMA ReplayStep ==
    ASSUME NEW t \in Tools, NEW e, IsEntry(t, e), NEW w, Fit(t, w), IsApart(t),
           e.status # "undone" => Core(t, w) = Core(t, e.pre),
           e.status = "undone" => t # "http" /\ (t = "sh" => w.head # <<>>)
    PROVE  /\ Fit(t, ReplayOf(t, e, w))
           /\ e.status # "undone" => Core(t, ReplayOf(t, e, w)) = Core(t, e.post)
           /\ e.status = "undone" => Core(t, ReplayOf(t, e, w)) = Core(t, w)
<1>. DEFINE c == e.call
            done == Run(t, c, w)
            u == UndoHook(t, c, Snapshot(t, c, w), done.result, done.w)
<1>1. /\ c \in Calls[t] /\ risk(t, c, e.pre) # "read" /\ Fit(t, e.pre)
      /\ e.post = Run(t, c, e.pre).w
  BY EntryFacts
<1>2. e.observed = {} => e.post = e.pre
  BY EntryFacts
<1>3. e.status = "undone" => reversible(t, c)
  BY EntryFacts
<1>4. risk(t, c, w) # "read"
  BY <1>1, ReadsAlways
<1>5. Fit(t, done.w) /\ (~done.ok => done.w = w)
  BY <1>1, RunFit, RunFits DEF Fit
<1>6. ReplayOf(t, e, w) = IF e.observed = {} THEN w ELSE IF e.status = "undone" /\ done.ok THEN u.w ELSE done.w
  BY DEF ReplayOf
<1>7. CASE e.status # "undone"
  <2>1. CASE e.observed = {}
    BY <1>2, <1>6, <1>7, <2>1
  <2>2. CASE e.observed # {}
    <3>1. ReplayOf(t, e, w) = done.w
      BY <1>6, <1>7, <2>2
    <3>2. Core(t, done.w) = Core(t, Run(t, c, e.pre).w)
      BY <1>1, <1>7, RunAgain
    <3>. QED
      BY <1>1, <1>5, <1>7, <3>1, <3>2
  <2>. QED
    BY <2>1, <2>2
<1>8. CASE e.status = "undone"
  <2>1. CASE e.observed = {} \/ ~done.ok
    BY <1>5, <1>6, <1>8, <2>1
  <2>2. CASE e.observed # {} /\ done.ok
    <3>1. ReplayOf(t, e, w) = u.w
      BY <1>6, <1>8, <2>2
    <3>2. reversible(t, c) /\ t # "http" /\ (t = "sh" => w.head # <<>>)
      BY <1>3, <1>8
    <3>3. Fit(t, u.w)
      BY <1>1, <1>4, <1>5, <3>2, UndoFit
    <3>4. t = "sh" => Snapshot(t, c, w) # <<>>
      BY <3>2 DEF reversible, Snapshot, SH!reversible, SH!Snapshot
    <3>5. u.ok
      BY <1>1, <1>4, <1>5, <2>2, <3>2, <3>4, UndoSucceeds
    <3>6. Core(t, u.w) = Core(t, w)
      BY <1>1, <1>4, <1>5, <2>2, <3>2, <3>5, UndoRestores
    <3>. QED
      BY <1>8, <3>1, <3>3, <3>6
  <2>. QED
    BY <2>1, <2>2
<1>. QED
  BY <1>7, <1>8

(* So a replay goes through the worlds the session went through. *)
LEMMA AgainChain ==
    ASSUME NEW t \in Tools, NEW acts, IsLog(t, acts), IsApart(t), NEW w0, Fit(t, w0), NEW w,
           Chained(t, acts, w0, w),
           \A i \in 1 .. Len(acts) : t = "http" => acts[i].status # "undone"
    PROVE  LET last == Again(t, acts, w0)[Len(acts)]
           IN  Fit(t, last) /\ Core(t, last) = Core(t, w)
<1>. DEFINE n == Len(acts)
            again == Again(t, acts, w0)
            Good(k) == Fit(t, again[k]) /\ Core(t, again[k]) = Core(t, Base(acts, w0, k + 1))
            Bad == {k \in 0 .. n : ~Good(k)}
<1>1. n \in Nat /\ \A i \in 1 .. n : IsEntry(t, acts[i])
  BY DEF IsLog
<1>2. again[0] = w0 /\ \A k \in 1 .. n : again[k] = ReplayOf(t, acts[k], again[k - 1])
  BY <1>1, AgainEquation
<1>3. /\ \A i \in 1 .. n : acts[i].status # "undone" => Core(t, acts[i].pre) = Core(t, Base(acts, w0, i))
      /\ \A i \in 1 .. n : t = "sh" /\ acts[i].status = "undone" => Base(acts, w0, i).head # <<>>
      /\ Core(t, w) = Core(t, Base(acts, w0, n + 1))
  BY DEF Chained
<1>4. \A i \in 1 .. n : t = "http" => acts[i].status # "undone"
  OBVIOUS
<1>. HIDE DEF again
<1>5. Good(0)
  BY <1>2, BaseFirst
<1>6. ASSUME NEW k \in 1 .. n, Good(k - 1) PROVE Good(k)
  <2>. DEFINE e == acts[k]
              x == again[k - 1]
  <2>1. k \in Nat \ {0} /\ (k - 1) + 1 = k
    BY <1>1
  <2>2. IsEntry(t, e) /\ Fit(t, x) /\ again[k] = ReplayOf(t, e, x)
    BY <1>1, <1>2, <1>6
  <2>3. Core(t, x) = Core(t, Base(acts, w0, k))
    BY <1>6, <2>1
  <2>4. e.status # "undone" => Core(t, x) = Core(t, e.pre)
    BY <1>3, <2>3
  <2>5. e.status = "undone" => t # "http" /\ (t = "sh" => x.head # <<>>)
    BY <1>3, <1>4, <2>3 DEF Core
  <2>6. /\ e.status # "undone" => Base(acts, w0, k + 1) = e.post
        /\ e.status = "undone" => Base(acts, w0, k + 1) = Base(acts, w0, k)
    BY <2>1, BaseAfter
  <2>. HIDE DEF e, x
  <2>7. /\ Fit(t, ReplayOf(t, e, x))
        /\ e.status # "undone" => Core(t, ReplayOf(t, e, x)) = Core(t, e.post)
        /\ e.status = "undone" => Core(t, ReplayOf(t, e, x)) = Core(t, x)
    BY <2>2, <2>4, <2>5, ReplayStep
  <2>. QED
    BY <2>2, <2>3, <2>6, <2>7
<1>. HIDE DEF Good
<1>7. ASSUME Bad # {} PROVE FALSE
  <2>1. Bad \in SUBSET Nat
    BY <1>1
  <2>2. PICK k \in Bad : \A j \in Bad : k <= j
    BY <1>7, <2>1, LeastOf
  <2>3. k \in 0 .. n /\ ~Good(k)
    OBVIOUS
  <2>4. k # 0
    BY <1>5, <2>3
  <2>5. k - 1 \in 0 .. n /\ ~(k <= k - 1) /\ k \in 1 .. n
    BY <1>1, <2>3, <2>4
  <2>6. Good(k - 1)
    BY <2>2, <2>5
  <2>. QED
    BY <1>6, <2>3, <2>5, <2>6
<1>8. Good(n)
  BY <1>1, <1>7
<1>. QED
  BY <1>3, <1>8 DEF Good, again

-----------------------------------------------------------------------------
(* The inductive invariant. *)
AInv ==
    /\ tool \in Tools /\ Fit(tool, world) /\ Fit(tool, start) /\ IsLog(tool, log) /\ orderly \in BOOLEAN
    /\ orderly /\ Calm(tool, log) => Chained(tool, log, start, world)

(* What a session finds is a world it may be in. *)
LEMMA StartsFit ==
    ASSUME NEW t \in Tools, NEW w \in Starts[t]
    PROVE  Fit(t, w)
<1>1. IsWorld(t, w)
  BY StartsAssumption
<1>2. ASSUME t = "fs" PROVE Tidy(w)
  <2>1. w \in Starts["fs"]
    BY <1>2
  <2>2. ASSUME NEW p \in Path, FS!IsFile(w[p]) PROVE p \in FilePath
    BY <2>1, <2>2 DEF FilePath
  <2>3. ASSUME NEW p \in Path, w[p] = FS!Dir PROVE p \in DirPath
    BY <2>1, <2>3 DEF DirPath
  <2>. QED
    BY <2>2, <2>3 DEF Tidy
<1>. QED
  BY <1>1, <1>2 DEF Fit

(* The invariant holds at first. *)
LEMMA AdaptersInit == Init => AInv
<1>. SUFFICES ASSUME Init PROVE AInv
  OBVIOUS
<1>1. tool \in Tools /\ world \in Starts[tool] /\ start = world /\ log = <<>> /\ orderly = TRUE
  BY DEF Init
<1>2. Fit(tool, world) /\ Fit(tool, start)
  BY <1>1, StartsFit
<1>3. log = [i \in 1 .. 0 |-> log[i]] /\ \A i \in 1 .. 0 : IsEntry(tool, log[i])
  BY <1>1
<1>4. IsLog(tool, log) /\ Len(log) = 0
  BY <1>3, LogOf
<1>5. Base(log, start, 0 + 1) = start
  BY BaseFirst
<1>6. Chained(tool, log, start, world)
  BY <1>1, <1>4, <1>5 DEF Chained
<1>. QED
  BY <1>1, <1>2, <1>4, <1>6 DEF AInv

(* The last entry is the newest one. *)
LEMMA CallAdapterStep == ASSUME AInv, NEW c \in Calls[tool], Call(c) PROVE AInv'
<1>1. /\ tool' = tool /\ start' = start /\ world' = Run(tool, c, world).w
      /\ tool \in Tools /\ Fit(tool, world) /\ Fit(tool, start) /\ IsLog(tool, log) /\ orderly \in BOOLEAN
  BY DEF Call, AInv
<1>2. Fit(tool, world')
  BY <1>1, RunFit
<1>3. orderly /\ Calm(tool, log) => Chained(tool, log, start, world)
  BY DEF AInv
<1>4. CASE risk(tool, c, world) = "read"
  <2>1. log' = log /\ orderly' = (orderly /\ (Misread(c) => world' = world))
    BY <1>4 DEF Call
  <2>2. orderly' => world' = world
    <3>1. CASE Misread(c)
      BY <2>1, <3>1
    <3>2. CASE ~Misread(c)
      <4>1. tool = "db" => c.op # "query" /\ c.sql.words \cap {"replace", "pragma"} = {}
        BY <3>2 DEF Misread
      <4>2. IsWorld(tool, world)
        BY <1>1 DEF Fit
      <4>. QED
        BY <1>1, <1>4, <4>1, <4>2, ReadKeeps
    <3>. QED
      BY <3>1, <3>2
  <2>3. orderly' => orderly
    BY <2>1
  <2>4. orderly' \in BOOLEAN
    BY <1>1, <2>1
  <2>5. orderly' /\ Calm(tool, log) => Chained(tool, log, start, world')
    BY <1>3, <2>2, <2>3
  <2>. QED
    BY <1>1, <1>2, <2>1, <2>4, <2>5 DEF AInv
<1>5. CASE risk(tool, c, world) # "read"
  <2>. DEFINE e == Act(tool, c, world)
              n == Len(log)
              more == Append(log, e)
  <2>1. log' = more /\ orderly' = orderly
    BY <1>5 DEF Call
  <2>2. IsEntry(tool, e) /\ e.status # "undone" /\ e.pre = world /\ e.post = world'
    BY <1>1, <1>5, NewEntry
  <2>. HIDE DEF e
  <2>3. /\ IsLog(tool, more) /\ Len(more) = n + 1 /\ n \in Nat
        /\ more[n + 1] = e /\ \A i \in 1 .. n : more[i] = log[i]
    BY <1>1, <2>2, LogAppend
  <2>. HIDE DEF more
  <2>4. ASSUME orderly, Calm(tool, more) PROVE Chained(tool, more, start, world')
    <3>1. IsApart(tool) /\ \A i \in 1 .. n + 1 : ~FailedMove(tool, more[i])
      BY <2>3, <2>4 DEF Calm
    <3>2. \A i \in 1 .. n : i \in 1 .. n + 1
      BY <2>3
    <3>3. Calm(tool, log)
      BY <2>3, <3>1, <3>2 DEF Calm
    <3>4. Chained(tool, log, start, world)
      BY <1>3, <2>4, <3>3
    <3>5. /\ \A i \in 1 .. n : log[i].status # "undone" => Core(tool, log[i].pre) = Core(tool, Base(log, start, i))
          /\ \A i \in 1 .. n : tool = "sh" /\ log[i].status = "undone" => Base(log, start, i).head # <<>>
          /\ Core(tool, world) = Core(tool, Base(log, start, n + 1))
      BY <3>4 DEF Chained
    <3>6. ASSUME NEW i \in 1 .. n + 1 PROVE Base(more, start, i) = Base(log, start, i)
      <4>1. i \in Nat /\ \A j \in 1 .. i - 1 : j \in 1 .. n
        BY <2>3
      <4>2. \A j \in 1 .. i - 1 : (log[j].status = "undone" <=> more[j].status = "undone") /\ log[j].post = more[j].post
        BY <2>3, <4>1
      <4>. QED
        BY <4>1, <4>2, BaseSame
    <3>7. n + 1 \in Nat \ {0} /\ n + 1 \in 1 .. n + 1
      BY <2>3
    <3>8. Base(more, start, (n + 1) + 1) = world'
      BY <2>2, <2>3, <3>7, BaseAfter
    <3>9. \A i \in 1 .. n + 1 : i = n + 1 \/ i \in 1 .. n
      BY <2>3
    <3>10. \A i \in 1 .. n + 1 : more[i].status # "undone" => Core(tool, more[i].pre) = Core(tool, Base(more, start, i))
      BY <2>2, <2>3, <3>5, <3>6, <3>9
    <3>11. \A i \in 1 .. n + 1 : tool = "sh" /\ more[i].status = "undone" => Base(more, start, i).head # <<>>
      BY <2>2, <2>3, <3>5, <3>6, <3>9
    <3>. QED
      BY <2>3, <3>8, <3>10, <3>11 DEF Chained
  <2>. QED
    BY <1>1, <1>2, <2>1, <2>3, <2>4 DEF AInv
<1>. QED
  BY <1>4, <1>5

(* Whoever else changes the world, the session is orderly no more. *)
LEMMA OtherStep == ASSUME AInv, NEW c \in Calls[tool], Other(c) PROVE AInv'
<1>1. /\ tool' = tool /\ start' = start /\ log' = log /\ world' = Run(tool, c, world).w /\ orderly' = FALSE
      /\ tool \in Tools /\ Fit(tool, world) /\ Fit(tool, start) /\ IsLog(tool, log)
  BY DEF Other, AInv
<1>2. Fit(tool, world')
  BY <1>1, RunFit
<1>. QED
  BY <1>1, <1>2 DEF AInv

(* Some entries are marked undone. *)
Marks(acts, bcts, S) ==
    \A i \in 1 .. Len(acts) :
       /\ bcts[i].pre = acts[i].pre /\ bcts[i].post = acts[i].post
       /\ bcts[i].call = acts[i].call /\ bcts[i].observed = acts[i].observed
       /\ i \in S => bcts[i].status = "undone"
       /\ i \notin S => bcts[i].status = acts[i].status

(* They are marked, and the log is one. *)
LEMMA MarkSome ==
    ASSUME NEW t \in Tools, NEW acts, IsLog(t, acts), NEW S,
           \A i \in 1 .. Len(acts) : i \in S => reversible(t, acts[i].call),
           NEW bcts, bcts = [i \in 1 .. Len(acts) |-> bcts[i]],
           \A i \in 1 .. Len(acts) : bcts[i] = IF i \in S THEN Marked(acts[i]) ELSE acts[i]
    PROVE  IsLog(t, bcts) /\ Len(bcts) = Len(acts) /\ Marks(acts, bcts, S)
<1>. DEFINE n == Len(acts)
<1>1. n \in Nat /\ \A i \in 1 .. n : IsEntry(t, acts[i])
  BY DEF IsLog
<1>2. \A i \in 1 .. n : bcts[i] = IF i \in S THEN Marked(acts[i]) ELSE acts[i]
  OBVIOUS
<1>3. bcts = [i \in 1 .. n |-> bcts[i]]
  OBVIOUS
<1>4. \A i \in 1 .. n : i \in S => reversible(t, acts[i].call)
  OBVIOUS
<1>5. ASSUME NEW i \in 1 .. n
      PROVE  /\ IsEntry(t, bcts[i])
             /\ bcts[i].pre = acts[i].pre /\ bcts[i].post = acts[i].post
             /\ bcts[i].call = acts[i].call /\ bcts[i].observed = acts[i].observed
             /\ i \in S => bcts[i].status = "undone"
             /\ i \notin S => bcts[i].status = acts[i].status
  <2>1. IsEntry(t, acts[i])
    BY <1>1
  <2>2. CASE i \in S
    <3>1. bcts[i] = Marked(acts[i]) /\ reversible(t, acts[i].call)
      BY <1>2, <1>4, <2>2
    <3>. QED
      BY <2>1, <2>2, <3>1, MarkedEntry
  <2>3. CASE i \notin S
    <3>1. bcts[i] = acts[i]
      BY <1>2, <2>3
    <3>. QED
      BY <2>1, <2>3, <3>1
  <2>. QED
    BY <2>2, <2>3
<1>6. \A i \in 1 .. n : IsEntry(t, bcts[i])
  BY <1>5
<1>8. Marks(acts, bcts, S)
  BY <1>5 DEF Marks
<1>7. IsLog(t, bcts) /\ Len(bcts) = n
  BY <1>1, <1>3, <1>6, LogOf
<1>. QED
  BY <1>7, <1>8

(* Marking changes nothing about failed moves. *)
LEMMA CalmBefore ==
    ASSUME NEW t, NEW acts, NEW bcts, Len(bcts) = Len(acts),
           \A i \in 1 .. Len(acts) : bcts[i].call = acts[i].call /\ bcts[i].observed = acts[i].observed,
           Calm(t, bcts)
    PROVE  Calm(t, acts)
BY DEF Calm, FailedMove

(* One action is undone: the last that stands, if the session stays        *)
(* orderly.                                                                *)
LEMMA UndoneStep == ASSUME AInv, NEW k \in DOMAIN log, Undo(k), UndoOf(tool, log[k], world).ok PROVE AInv'
<1>. DEFINE n == Len(log)
            e == log[k]
            u == UndoOf(tool, e, world)
            bcts == [i \in 1 .. n |-> IF i \in {k} THEN Marked(log[i]) ELSE log[i]]
<1>1. /\ tool' = tool /\ start' = start /\ world' = u.w /\ u.ok
      /\ log' = [log EXCEPT ![k].status = "undone"]
      /\ orderly' = (orderly /\ NewestFirst)
  BY DEF Undo
<1>2. tool \in Tools /\ Fit(tool, world) /\ Fit(tool, start) /\ IsLog(tool, log) /\ orderly \in BOOLEAN
  BY DEF AInv
<1>3. n \in Nat /\ log = [i \in 1 .. n |-> log[i]] /\ \A i \in 1 .. n : IsEntry(tool, log[i])
  BY <1>2 DEF IsLog
<1>4. k \in 1 .. n /\ DOMAIN log = 1 .. n /\ IsEntry(tool, e)
  BY <1>3
<1>. HIDE DEF u
<1>5. reversible(tool, e.call) /\ e.status # "undone" /\ (tool = "sh" => e.pre.head # <<>>)
  BY <1>1, <1>2, <1>4, UndoOfUndoes DEF u
<1>6. log' = bcts
  BY <1>1, <1>3, <1>4 DEF Marked
<1>7. \A i \in 1 .. n : i \in {k} => reversible(tool, log[i].call)
  BY <1>5
<1>. HIDE DEF bcts
<1>8. /\ IsLog(tool, bcts) /\ Len(bcts) = n
      /\ \A i \in 1 .. n : /\ bcts[i].pre = log[i].pre /\ bcts[i].post = log[i].post
                           /\ bcts[i].call = log[i].call /\ bcts[i].observed = log[i].observed
                           /\ i \in {k} => bcts[i].status = "undone"
                           /\ i \notin {k} => bcts[i].status = log[i].status
  <2>1. \A i \in 1 .. n : i \in {k} => reversible(tool, log[i].call)
    BY <1>7
  <2>3. bcts = [i \in 1 .. n |-> bcts[i]] /\ \A i \in 1 .. n : bcts[i] = IF i \in {k} THEN Marked(log[i]) ELSE log[i]
    BY DEF bcts
  <2>. DEFINE T == {k}
  <2>. HIDE DEF T
  <2>2. IsLog(tool, bcts) /\ Len(bcts) = n /\ Marks(log, bcts, T)
    BY <1>2, <2>1, <2>3, MarkSome DEF T
  <2>. QED
    BY <2>2 DEF Marks, T
<1>9. Fit(tool, world')
  BY <1>1, <1>2, <1>4, UndoOfFits DEF u
<1>10. orderly' \in BOOLEAN /\ (orderly' => orderly /\ NewestFirst)
  BY <1>1
<1>11. ASSUME orderly', Calm(tool, bcts) PROVE Chained(tool, bcts, start, world')
  <2>1. Calm(tool, log)
    BY <1>8, <1>11, CalmBefore
  <2>2. Chained(tool, log, start, world)
    BY <1>10, <1>11, <2>1 DEF AInv
  <2>3. \A j \in k + 1 .. n : j \in 1 .. n /\ j \notin {k} /\ k < j
    BY <1>4
  <2>4. \A j \in k + 1 .. n : log'[j].status = "undone"
    BY <1>4, <1>5, <1>6, <1>8, <1>10, <1>11, <2>3 DEF NewestFirst
  <2>5. \A j \in k + 1 .. n : log[j].status = "undone"
    BY <1>6, <1>8, <2>3, <2>4
  <2>6. k + 1 \in Nat \ {0} /\ n + 1 \in Nat /\ k + 1 <= n + 1 /\ (n + 1) - 1 = n /\ k \in Nat \ {0}
    BY <1>3, <1>4
  <2>7. Base(log, start, n + 1) = Base(log, start, k + 1)
    BY <2>5, <2>6, BaseSkip
  <2>8. Base(log, start, k + 1) = e.post
    BY <1>5, <2>6, BaseAfter
  <2>9. /\ Core(tool, world) = Core(tool, Base(log, start, n + 1))
        /\ Core(tool, e.pre) = Core(tool, Base(log, start, k))
    BY <1>4, <1>5, <2>2 DEF Chained
  <2>10. IsApart(tool) /\ ~FailedMove(tool, e)
    BY <1>4, <2>1 DEF Calm
  <2>11. Core(tool, world') = Core(tool, Base(log, start, k))
    BY <1>1, <1>2, <1>4, <2>7, <2>8, <2>9, <2>10, UndoOfRestores DEF u
  <2>12. tool = "sh" => Base(log, start, k).head # <<>>
    BY <1>5, <2>9 DEF Core
  <2>13. \A j \in 1 .. n : bcts[j].pre = log[j].pre /\ bcts[j].post = log[j].post
    BY <1>8
  <2>14. \A j \in 1 .. k - 1 : bcts[j].status = log[j].status
    <3>1. \A j \in 1 .. k - 1 : j \in 1 .. n /\ j \notin {k}
      BY <1>4
    <3>. QED
      BY <1>8, <3>1
  <2>15. \A j \in k .. n : bcts[j].status = "undone"
    <3>1. \A j \in k .. n : j = k \/ j \in k + 1 .. n
      BY <1>4
    <3>. QED
      BY <1>4, <1>6, <1>8, <2>4, <3>1
  <2>16. k \in 1 .. n + 1
    BY <1>3, <1>4
  <2>. QED
    BY <1>3, <1>8, <2>2, <2>11, <2>12, <2>13, <2>14, <2>15, <2>16, Cut
<1>12. orderly' /\ Calm(tool, bcts) => Chained(tool, bcts, start, world')
  BY <1>11
<1>. QED
  BY <1>1, <1>2, <1>6, <1>8, <1>9, <1>10, <1>12 DEF AInv

(* One whose inverse fails changes no file. *)
LEMMA UndoFailsStep == ASSUME AInv, NEW k \in DOMAIN log, Undo(k), ~UndoOf(tool, log[k], world).ok PROVE AInv'
<1>. DEFINE u == UndoOf(tool, log[k], world)
<1>1. tool' = tool /\ start' = start /\ log' = log /\ world' = u.w /\ orderly' = (orderly /\ NewestFirst)
  BY DEF Undo
<1>2. tool \in Tools /\ Fit(tool, world) /\ Fit(tool, start) /\ IsLog(tool, log) /\ orderly \in BOOLEAN
  BY DEF AInv
<1>3. IsEntry(tool, log[k])
  <2>1. log = [j \in 1 .. Len(log) |-> log[j]] /\ \A j \in 1 .. Len(log) : IsEntry(tool, log[j])
    BY <1>2 DEF IsLog
  <2>2. k \in 1 .. Len(log)
    BY <2>1
  <2>. QED
    BY <2>1, <2>2
<1>4. Fit(tool, u.w)
  BY <1>2, <1>3, UndoOfFits
<1>5. IsApart(tool) => Core(tool, u.w) = Core(tool, world)
  BY <1>2, <1>3, UndoOfFails
<1>. HIDE DEF u
<1>6. orderly' /\ Calm(tool, log) => Chained(tool, log, start, world')
  BY <1>1, <1>2, <1>5 DEF AInv, Calm, Chained
<1>. QED
  BY <1>1, <1>2, <1>4, <1>6 DEF AInv

(* Undoing one action. *)
LEMMA UndoStep == ASSUME AInv, NEW k \in DOMAIN log, Undo(k) PROVE AInv'
BY UndoneStep, UndoFailsStep

(* All are undone that can be: the last ones, if the session stays         *)
(* orderly.                                                                *)
LEMMA RollbackStep == ASSUME AInv, Rollback PROVE AInv'
<1>. DEFINE n == Len(log)
            left == Left(tool, log, world)
            S == {i \in 1 .. n : UndoOf(tool, log[i], left[i + 1]).ok}
            bcts == [i \in 1 .. n |-> IF i \in S THEN Marked(log[i]) ELSE log[i]]
<1>1. tool \in Tools /\ Fit(tool, world) /\ Fit(tool, start) /\ IsLog(tool, log) /\ orderly \in BOOLEAN
  BY DEF AInv
<1>2. n \in Nat /\ log = [i \in 1 .. n |-> log[i]] /\ \A i \in 1 .. n : IsEntry(tool, log[i])
  BY <1>1 DEF IsLog
<1>3. DOMAIN log = 1 .. n
  BY <1>2
<1>4. /\ tool' = tool /\ start' = start /\ world' = left[1]
      /\ orderly' = (orderly /\ NewestFirst)
  BY DEF Rollback
<1>5. log' = [i \in 1 .. n |-> IF UndoOf(tool, log[i], left[i + 1]).ok THEN Marked(log[i]) ELSE log[i]]
  BY <1>3 DEF Rollback, Marked
<1>6. log' = bcts
  BY <1>5
<1>7. \A i \in 1 .. n : i \in S => reversible(tool, log[i].call) /\ log[i].status # "undone"
                                     /\ (tool = "sh" => log[i].pre.head # <<>>)
  BY <1>1, <1>2, UndoOfUndoes
<1>. HIDE DEF bcts
<1>8. /\ IsLog(tool, bcts) /\ Len(bcts) = n
      /\ \A i \in 1 .. n : /\ bcts[i].pre = log[i].pre /\ bcts[i].post = log[i].post
                           /\ bcts[i].call = log[i].call /\ bcts[i].observed = log[i].observed
                           /\ i \in S => bcts[i].status = "undone"
                           /\ i \notin S => bcts[i].status = log[i].status
  <2>1. \A i \in 1 .. n : i \in S => reversible(tool, log[i].call)
    BY <1>7
  <2>3. bcts = [i \in 1 .. n |-> bcts[i]] /\ \A i \in 1 .. n : bcts[i] = IF i \in S THEN Marked(log[i]) ELSE log[i]
    BY DEF bcts
  <2>. DEFINE T == S
  <2>. HIDE DEF T
  <2>2. IsLog(tool, bcts) /\ Len(bcts) = n /\ Marks(log, bcts, T)
    BY <1>1, <2>1, <2>3, MarkSome DEF T
  <2>. QED
    BY <2>2 DEF Marks, T
<1>9. Fit(tool, world')
  <2>1. 1 \in 1 .. n + 1
    BY <1>2
  <2>. QED
    BY <1>1, <1>4, <2>1, LeftFits
<1>10. orderly' \in BOOLEAN /\ (orderly' => orderly /\ NewestFirst)
  BY <1>4
<1>11. ASSUME orderly', Calm(tool, bcts) PROVE Chained(tool, bcts, start, world')
  <2>1. Calm(tool, log) /\ IsApart(tool)
    BY <1>8, <1>11, CalmBefore DEF Calm
  <2>2. Chained(tool, log, start, world)
    BY <1>10, <1>11, <2>1 DEF AInv
  <2>3. PICK m \in 1 .. n + 1 : (\A i \in S : m <= i) /\ (m <= n => m \in S)
    <3>1. CASE S = {}
      <4>1. n + 1 \in 1 .. n + 1 /\ ~(n + 1 <= n)
        BY <1>2
      <4>. QED
        BY <3>1, <4>1
    <3>2. CASE S # {}
      <4>1. S \in SUBSET Nat /\ \A i \in S : i \in 1 .. n + 1
        BY <1>2
      <4>2. Least(S) \in S /\ \A i \in S : Least(S) <= i
        BY <3>2, <4>1, LeastOf
      <4>3. Least(S) \in 1 .. n + 1
        BY <4>1, <4>2
      <4>. QED
        BY <4>2, <4>3
    <3>. QED
      BY <3>1, <3>2
  <2>4. \A j \in m .. n : j \in 1 .. n
    BY <1>2
  <2>5. ASSUME NEW j \in m .. n PROVE bcts[j].status = "undone" /\ (j \in S \/ log[j].status = "undone")
    <3>1. CASE j = m
      <4>1. j \in S
        BY <1>2, <2>3, <2>4, <3>1
      <4>. QED
        BY <1>8, <2>4, <4>1
    <3>2. CASE j # m
      <4>1. m \in S /\ m \in 1 .. n /\ m < j
        BY <1>2, <2>3, <2>4, <3>2
      <4>2. log'[m].status # log[m].status
        BY <1>6, <1>7, <1>8, <4>1
      <4>3. log'[j].status = "undone"
        BY <1>3, <1>10, <1>11, <2>4, <4>1, <4>2 DEF NewestFirst
      <4>. QED
        BY <1>6, <1>8, <2>4, <4>3
    <3>. QED
      BY <3>1, <3>2
  <2>6. \A j \in m .. n : log[j].status = "undone" \/ UndoOf(tool, log[j], left[j + 1]).ok
    BY <2>5
  <2>7. \A i \in 1 .. m - 1 : i \in 1 .. n /\ i \notin S
    BY <1>2, <2>3
  <2>8. \A i \in 1 .. m - 1 : ~UndoOf(tool, log[i], left[i + 1]).ok
    BY <2>7
  <2>9. m \in m .. n + 1
    BY <1>2
  <2>10. Core(tool, left[m]) = Core(tool, Base(log, start, m))
    BY <1>1, <2>1, <2>2, <2>6, <2>9, LeftChain
  <2>11. Core(tool, left[1]) = Core(tool, left[m])
    BY <1>1, <2>1, <2>8, LeftIdle
  <2>. HIDE DEF left
  <2>12. Core(tool, world') = Core(tool, Base(log, start, m))
    BY <1>4, <2>10, <2>11
  <2>13. tool = "sh" /\ m <= n => Base(log, start, m).head # <<>>
    <3>1. ASSUME tool = "sh", m <= n PROVE Base(log, start, m).head # <<>>
      <4>1. m \in S /\ m \in 1 .. n
        BY <1>2, <2>3, <3>1
      <4>2. log[m].pre.head # <<>> /\ log[m].status # "undone"
        BY <1>7, <3>1, <4>1
      <4>3. Core(tool, log[m].pre) = Core(tool, Base(log, start, m))
        BY <2>2, <4>1, <4>2 DEF Chained
      <4>. QED
        BY <3>1, <4>2, <4>3 DEF Core
    <3>. QED
      BY <3>1
  <2>. HIDE DEF S
  <2>14. \A j \in 1 .. n : bcts[j].pre = log[j].pre /\ bcts[j].post = log[j].post
    BY <1>8
  <2>15. \A j \in 1 .. m - 1 : bcts[j].status = log[j].status
    BY <1>8, <2>7
  <2>16. \A j \in m .. n : bcts[j].status = "undone"
    BY <2>5
  <2>. QED
    BY <1>2, <1>8, <2>2, <2>12, <2>13, <2>14, <2>15, <2>16, Cut
<1>12. orderly' /\ Calm(tool, bcts) => Chained(tool, bcts, start, world')
  BY <1>11
<1>. QED
  BY <1>1, <1>4, <1>6, <1>8, <1>9, <1>10, <1>12 DEF AInv

(* Every step keeps the invariant. *)
LEMMA AdaptersStep == ASSUME AInv, [Next]_vars PROVE AInv'
<1>1. CASE Next
  <2>1. \A c \in Calls[tool] : Call(c) => AInv'
    BY CallAdapterStep
  <2>2. \A c \in Calls[tool] : Other(c) => AInv'
    BY OtherStep
  <2>3. \A k \in DOMAIN log : Undo(k) => AInv'
    BY UndoStep
  <2>4. Rollback => AInv'
    BY RollbackStep
  <2>. QED
    BY <1>1, <2>1, <2>2, <2>3, <2>4 DEF Next
<1>2. CASE UNCHANGED vars
  BY <1>2 DEF AInv, vars
<1>. QED
  BY <1>1, <1>2

(* It holds in every session. *)
LEMMA AdaptersInvariant == Spec => []AInv
<1>1. AInv /\ [Next]_vars => AInv'
  BY AdaptersStep
<1>. QED
  BY AdaptersInit, <1>1, PTL DEF Spec

-----------------------------------------------------------------------------
(* What a file operation that can be done is predicted to do is observed.  *)
LEMMA FsPredicted ==
    ASSUME "fs" \in Tools, NEW c \in Calls["fs"], c.op # "exists", NEW w, IsTree(w), NEW r,
           FS!Run(c, w).ok, c.op = "move" => c.path # c.dst,
           NEW k \in DOMAIN FS!Simulate(c, w)
    PROVE  FS!Simulate(c, w)[k] = FS!Observe(c, r, FS!Run(c, w).w)[k]
<1>. DEFINE v == FS!Run(c, w).w
<1>1. c.op \in FsOp \ {"exists"} /\ c.path \in Path /\ c.dst \in Path
  BY PathSorts
<1>2. FS!Possible(c, w) /\ Leaves(c, w, v)
  BY <1>1, FsRun
<1>. HIDE DEF v
<1>3. CASE c.op \in {"write", "append"}
  <2>1. v[c.path] = FS!Written(c, w)
    BY <1>1, <1>2, <1>3 DEF Leaves
  <2>. QED
    BY <1>3, <2>1 DEF FS!Simulate, FS!Observe, v
<1>4. CASE c.op = "delete"
  <2>1. v[c.path] = FS!Absent /\ FS!IsFile(w[c.path])
    BY <1>1, <1>2, <1>4 DEF Leaves, FS!Possible
  <2>. QED
    BY <1>4, <2>1 DEF FS!Simulate, FS!Observe, v
<1>5. CASE c.op = "move"
  <2>1. v[c.path] = FS!Absent /\ v[c.dst] = w[c.path]
    BY <1>1, <1>2, <1>5 DEF Leaves
  <2>2. FS!Simulate(c, w) = [src_exists |-> FALSE, dst_sha256 |-> FS!Sha(w[c.path])]
    BY <1>5 DEF FS!Simulate
  <2>3. FS!Observe(c, r, v) = [src_exists |-> FALSE, dst_sha256 |-> FS!Sha(w[c.path])]
    BY <1>5, <2>1 DEF FS!Observe
  <2>. QED
    BY <2>2, <2>3 DEF v
<1>6. CASE c.op = "mkdir"
  <2>1. v[c.path] = FS!Dir
    BY <1>1, <1>2, <1>6 DEF Leaves
  <2>. QED
    BY <1>6, <2>1 DEF FS!Simulate, FS!Observe, v
<1>7. CASE c.op = "rmdir"
  <2>1. v[c.path] = FS!Absent
    BY <1>1, <1>2, <1>7 DEF Leaves
  <2>. QED
    BY <1>7, <2>1, Nodes DEF FS!Simulate, FS!Observe, v
<1>. QED
  BY <1>1, <1>3, <1>4, <1>5, <1>6, <1>7 DEF FsOp

(* What a call that is done was predicted to do is observed. *)
LEMMA Predicted ==
    ASSUME NEW t \in Tools, NEW c \in Calls[t], NEW w, IsWorld(t, w), risk(t, c, w) # "read",
           Run(t, c, w).ok, c.op = "move" => c.path # c.dst,
           NEW k, k \in DOMAIN Simulate(t, c, w),
           k \in DOMAIN Observe(t, c, Run(t, c, w).result, Run(t, c, w).w)
    PROVE  Simulate(t, c, w)[k] = Observe(t, c, Run(t, c, w).result, Run(t, c, w).w)[k]
<1>1. CASE t = "fs"
  <2>1. IsTree(w) /\ c.op # "exists" /\ Run(t, c, w) = FS!Run(c, w) /\ Simulate(t, c, w) = FS!Simulate(c, w)
    BY <1>1, FsWorld, ExistsReads DEF Run, Simulate
  <2>2. \A r, v : Observe(t, c, r, v) = FS!Observe(c, r, v)
    BY <1>1 DEF Observe
  <2>. QED
    BY <1>1, <2>1, <2>2, FsPredicted
<1>2. CASE t = "db"
  <2>1. CASE DB!Rolled(c.sql, w)
    BY <1>2, <2>1 DEF Run, DB!Run
  <2>2. CASE ~DB!Rolled(c.sql, w)
    <3>1. Simulate(t, c, w) = [changes |-> DB!Changes(c.sql, w)] /\ Run(t, c, w).result = DB!Changes(c.sql, w)
      BY <1>2, <2>2 DEF Run, DB!Run, Simulate, DB!Simulate
    <3>2. k = "changes"
      BY <3>1
    <3>. QED
      BY <1>2, <3>1, <3>2 DEF Observe, DB!Observe
  <2>. QED
    BY <2>1, <2>2
<1>3. CASE t = "http"
  BY <1>3 DEF Run, HT!Run, Simulate, HT!Simulate, Observe, HT!Observe
<1>4. CASE t = "sh"
  <2>1. SH!Exit(c, w) = 0 /\ Run(t, c, w).result = 0
    BY <1>4 DEF Run, SH!Run
  <2>2. Simulate(t, c, w) = IF c.cmd = "reset" THEN <<>> ELSE [returncode |-> 0]
    BY <1>4, <2>1 DEF Simulate, SH!Simulate
  <2>3. DOMAIN <<>> = {}
    OBVIOUS
  <2>4. c.cmd # "reset" /\ k = "returncode"
    BY <2>2, <2>3
  <2>5. Observe(t, c, 0, Run(t, c, w).w)[k] = 0
    BY <1>4, <2>4 DEF Observe, SH!Observe
  <2>. QED
    BY <2>1, <2>2, <2>4, <2>5
<1>5. CASE t = "email"
  BY <1>5 DEF Run, EM!Run, Simulate, EM!Simulate, Observe, EM!Observe
<1>. QED
  BY <1>1, <1>2, <1>3, <1>4, <1>5, ToolsAssumption

(* What was predicted of an action is observed, in any session, through    *)
(* any adapter, but for a file moved onto itself (_check_deviation).       *)
THEOREM PredictionsHold == Spec => []PredictionHolds
<1>1. AInv => PredictionHolds
  <2>. SUFFICES ASSUME AInv, NEW i \in DOMAIN log, Mismatches(log[i]) # {},
                       ~(log[i].call.op = "move" /\ log[i].call.path = log[i].call.dst)
                PROVE  FALSE
    BY DEF PredictionHolds
  <2>. DEFINE e == log[i]
              c == e.call
              done == Run(tool, c, e.pre)
  <2>1. tool \in Tools /\ IsEntry(tool, e)
    <3>1. tool \in Tools /\ Len(log) \in Nat /\ log = [j \in 1 .. Len(log) |-> log[j]]
          /\ \A j \in 1 .. Len(log) : IsEntry(tool, log[j])
      BY DEF AInv, IsLog
    <3>2. i \in 1 .. Len(log)
      BY <3>1
    <3>. QED
      BY <3>1, <3>2
  <2>2. PICK k \in DOMAIN e.predicted : \E seen \in e.observed : k \in DOMAIN seen /\ e.predicted[k] # seen[k]
    BY DEF Mismatches
  <2>3. ~(c.op = "move" /\ c.path = c.dst)
    OBVIOUS
  <2>. HIDE DEF e
  <2>4. c \in Calls[tool] /\ risk(tool, c, e.pre) # "read" /\ IsWorld(tool, e.pre)
    BY <2>1, EntryFacts DEF Fit
  <2>5. e.predicted = Simulate(tool, c, e.pre)
    BY <2>1 DEF IsEntry
  <2>6. e.observed = IF done.ok THEN {Observe(tool, c, done.result, done.w)} ELSE {}
    BY <2>1 DEF IsEntry
  <2>7. done.ok /\ k \in DOMAIN Observe(tool, c, done.result, done.w)
        /\ e.predicted[k] # Observe(tool, c, done.result, done.w)[k]
    BY <2>2, <2>6
  <2>. QED
    BY <2>1, <2>2, <2>3, <2>4, <2>5, <2>7, Predicted
<1>. QED
  BY <1>1, AdaptersInvariant, PTL

(* A session nobody interfered with is replayed to the same world.         *)
THEOREM ReplaysReproduce == Spec => []ReplayReproduces
<1>1. AInv => ReplayReproduces
  <2>. SUFFICES ASSUME AInv, orderly, PathsApart,
                       \A i \in DOMAIN log : ~FailedMove(tool, log[i]) /\ (tool = "http" => log[i].status # "undone")
                PROVE  Same(tool, Again(tool, log, start)[Len(log)], world)
    BY DEF ReplayReproduces
  <2>1. tool \in Tools /\ Fit(tool, world) /\ Fit(tool, start) /\ IsLog(tool, log)
    BY DEF AInv
  <2>2. DOMAIN log = 1 .. Len(log)
    <3>1. log = [i \in 1 .. Len(log) |-> log[i]]
      BY <2>1 DEF IsLog
    <3>. QED
      BY <3>1
  <2>3. IsApart(tool)
    BY DEF PathsApart, IsApart, Apart
  <2>4. Calm(tool, log)
    BY <2>2, <2>3 DEF Calm
  <2>5. Chained(tool, log, start, world)
    BY <2>4 DEF AInv
  <2>. DEFINE last == Again(tool, log, start)[Len(log)]
  <2>6. Fit(tool, last) /\ Core(tool, last) = Core(tool, world)
    BY <2>1, <2>2, <2>3, <2>5, AgainChain
  <2>. HIDE DEF last
  <2>7. Same(tool, last, world)
    BY <2>1, <2>6, CoreIsSame
  <2>. QED
    BY <2>7 DEF last
<1>. QED
  BY <1>1, AdaptersInvariant, PTL

(* A rollback of a session nobody interfered with leaves the world as the  *)
(* session found it, whatever it did through any adapter, if each of its   *)
(* actions can be undone.                                                  *)
THEOREM RollbacksRestore == Spec => RollbackRestores
<1>1. AInv /\ [Next]_vars =>
        [Rollback /\ orderly /\ PathsApart
           /\ (\A i \in DOMAIN log : reversible(tool, log[i].call) /\ ~NothingToRestore(tool, log[i])
                                       /\ ~FailedMove(tool, log[i]))
         => Same(tool, world', start)]_vars
  <2>. SUFFICES ASSUME AInv, Rollback, orderly, PathsApart,
                       \A i \in DOMAIN log : reversible(tool, log[i].call) /\ ~NothingToRestore(tool, log[i])
                                               /\ ~FailedMove(tool, log[i])
                PROVE  Same(tool, world', start)
    OBVIOUS
  <2>1. tool \in Tools /\ Fit(tool, world) /\ Fit(tool, start) /\ IsLog(tool, log)
    BY DEF AInv
  <2>2. DOMAIN log = 1 .. Len(log) /\ Len(log) \in Nat
    <3>1. log = [i \in 1 .. Len(log) |-> log[i]] /\ Len(log) \in Nat
      BY <2>1 DEF IsLog
    <3>. QED
      BY <3>1
  <2>3. IsApart(tool)
    BY DEF PathsApart, IsApart, Apart
  <2>4. Calm(tool, log)
    BY <2>2, <2>3 DEF Calm
  <2>5. Chained(tool, log, start, world)
    BY <2>4 DEF AInv
  <2>6. 1 \in 1 .. Len(log) + 1
    BY <2>2
  <2>7. \A i \in 1 .. Len(log) : reversible(tool, log[i].call) /\ ~NothingToRestore(tool, log[i])
    BY <2>2
  <2>8. Core(tool, Left(tool, log, world)[1]) = Core(tool, Base(log, start, 1))
    BY <2>1, <2>4, <2>5, <2>6, <2>7, LeftChain
  <2>9. Fit(tool, Left(tool, log, world)[1])
    BY <2>1, <2>6, LeftFits
  <2>. DEFINE v == Left(tool, log, world)[1]
  <2>10. world' = v
    BY DEF Rollback
  <2>11. Fit(tool, v) /\ Core(tool, v) = Core(tool, start)
    BY <2>8, <2>9, BaseFirst
  <2>. HIDE DEF v
  <2>12. Same(tool, v, start)
    BY <2>1, <2>11, CoreIsSame
  <2>. QED
    BY <2>10, <2>12
<1>. QED
  BY <1>1, AdaptersInvariant, PTL DEF Spec, RollbackRestores

-----------------------------------------------------------------------------
(* Nodes that are observed to be the same are the same. *)
LEMMA StateTells ==
    ASSUME NEW m, IsNode(m), NEW n, IsNode(n), FS!State(m) = FS!State(n)
    PROVE  m = n
<1>1. (m # FS!Absent <=> n # FS!Absent) /\ FS!Sha(m) = FS!Sha(n)
  BY DEF FS!State
<1>2. /\ FS!IsFile(m) \/ m = FS!Absent \/ m = FS!Dir
      /\ FS!IsFile(n) \/ n = FS!Absent \/ n = FS!Dir
  BY Nodes
<1>3. FS!IsFile(m) <=> FS!IsFile(n)
  BY <1>1, Digest
<1>4. CASE FS!IsFile(m)
  BY <1>1, <1>3, <1>4, Digest
<1>5. CASE ~FS!IsFile(m)
  BY <1>1, <1>2, <1>3, <1>5, Nodes
<1>. QED
  BY <1>4, <1>5

(* What the undo of a file operation replaces is what the operation left,  *)
(* if what was observed then is observed again.                            *)
LEMMA FsKeepsNewer ==
    ASSUME "fs" \in Tools, NEW c \in Calls["fs"], c.op # "exists", NEW pre, IsTree(pre), NEW v, IsTree(v),
           NEW r, FS!Run(c, pre).ok, FS!Observe(c, r, v) = FS!Observe(c, r, FS!Run(c, pre).w),
           NEW p \in Path
    PROVE  LET u == FS!Undo(c, FS!Snapshot(c, pre), r, v)
           IN  \/ u.w[p] = v[p]
               \/ v[p] = FS!Run(c, pre).w[p]
               \/ v[p] = FS!Absent /\ u.w[p] = FS!Dir
<1>. DEFINE post == FS!Run(c, pre).w
            u    == FS!Undo(c, FS!Snapshot(c, pre), r, v)
<1>1. c.op \in FsOp \ {"exists"} /\ c.path \in Path /\ c.dst \in Path
  BY PathSorts
<1>2. FS!Possible(c, pre) /\ Leaves(c, pre, post) /\ IsTree(post)
  BY <1>1, FsRun
<1>3. FS!Observe(c, r, v) = FS!Observe(c, r, post)
  OBVIOUS
<1>4. \/ u.w[p] = v[p]
      \/ v[p] = FS!Absent /\ u.w[p] = FS!Dir
      \/ p \in Touched(c, pre) /\ (c.op = "mkdir" => v[p] = FS!Dir)
      \/ c.op = "move" /\ ~FS!IsFile(v[c.dst])
  BY <1>1, FsUndoKeeps
<1>5. \A q \in Path : IsNode(v[q]) /\ IsNode(post[q])
  BY <1>2 DEF IsTree
<1>. HIDE DEF post, u
<1>6. ASSUME p \in Touched(c, pre), c.op = "mkdir" => v[p] = FS!Dir PROVE v[p] = post[p]
  <2>1. CASE c.op \in {"write", "append", "delete"}
    <3>1. p = c.path
      BY <1>6, <2>1 DEF Touched
    <3>2. FS!State(v[p]) = FS!State(post[p])
      BY <1>3, <2>1, <3>1 DEF FS!Observe
    <3>. QED
      BY <1>5, <3>2, StateTells
  <2>2. CASE c.op = "move"
    <3>1. p = c.path \/ p = c.dst
      BY <1>6, <2>2 DEF Touched
    <3>2. FS!IsFile(pre[c.path]) /\ post[c.dst] = pre[c.path] /\ (c.path # c.dst => post[c.path] = FS!Absent)
      BY <1>1, <1>2, <2>2 DEF Leaves, FS!Possible
    <3>3. \A w : FS!Observe(c, r, w).src_exists = (w[c.path] # FS!Absent)
      BY <2>2 DEF FS!Observe
    <3>4. \A w : FS!Observe(c, r, w).dst_sha256 = FS!Sha(w[c.dst])
      BY <2>2 DEF FS!Observe
    <3>7. FS!Sha(v[c.dst]) = FS!Sha(post[c.dst])
      BY <1>3, <3>4
    <3>8. (v[c.path] # FS!Absent) = (post[c.path] # FS!Absent)
      BY <1>3, <3>3
    <3>5. (v[c.path] = FS!Absent <=> post[c.path] = FS!Absent) /\ FS!Sha(v[c.dst]) = FS!Sha(post[c.dst])
      BY <3>7, <3>8
    <3>6. v[c.dst] = post[c.dst]
      BY <3>2, <3>5, Digest
    <3>. QED
      BY <3>1, <3>2, <3>5, <3>6
  <2>3. CASE c.op = "mkdir"
    <3>1. p \in Above[c.path] \cup {c.path} /\ pre[p] = FS!Absent
      BY <1>6, <2>3 DEF Touched, FS!Snapshot
    <3>2. \A q \in Path : post[q] = IF q = c.path THEN FS!Dir ELSE FS!MkParents(pre, c.path)[q]
      BY <1>2, <2>3 DEF Leaves
    <3>3. FS!MkParents(pre, c.path)[p] = IF p \in Above[c.path] /\ pre[p] = FS!Absent THEN FS!Dir ELSE pre[p]
      BY <1>1, Parents
    <3>. QED
      BY <1>6, <2>3, <3>1, <3>2, <3>3
  <2>4. CASE c.op = "rmdir"
    BY <1>6, <2>4 DEF Touched
  <2>. QED
    BY <1>1, <2>1, <2>2, <2>3, <2>4 DEF FsOp
<1>8. ASSUME c.op = "move" PROVE FS!IsFile(v[c.dst])
  <2>1. FS!IsFile(pre[c.path]) /\ post[c.dst] = pre[c.path]
    BY <1>1, <1>2, <1>8 DEF Leaves, FS!Possible
  <2>2. \A w : FS!Observe(c, r, w).dst_sha256 = FS!Sha(w[c.dst])
    BY <1>8 DEF FS!Observe
  <2>3. FS!Sha(v[c.dst]) = FS!Sha(post[c.dst])
    BY <1>3, <2>2
  <2>. QED
    BY <2>1, <2>3, Digest
<1>7. u.w[p] = v[p] \/ v[p] = post[p] \/ (v[p] = FS!Absent /\ u.w[p] = FS!Dir)
  BY <1>4, <1>6, <1>8
<1>. QED
  BY <1>7 DEF post, u

(* What an undo of a committed action replaces, the action left there,     *)
(* even if the undo fails.                                                 *)
LEMMA KeepsNewer ==
    ASSUME NEW t \in Tools, t # "http", NEW e, IsEntry(t, e), e.status = "committed", NEW v, Fit(t, v),
           NEW p \in DOMAIN v
    PROVE  \/ UndoOf(t, e, v).w[p] = v[p]
           \/ v[p] = e.post[p]
           \/ t = "fs" /\ v[p] = FS!Absent /\ UndoOf(t, e, v).w[p] = FS!Dir
<1>. DEFINE u == UndoOf(t, e, v)
            c == e.call
<1>. SUFFICES ASSUME Undoable(t, e), NoConflict(t, e, v)
              PROVE  \/ u.w[p] = v[p]
                     \/ v[p] = e.post[p]
                     \/ t = "fs" /\ v[p] = FS!Absent /\ u.w[p] = FS!Dir
  BY DEF UndoOf
<1>1. c \in Calls[t] /\ risk(t, c, e.pre) # "read" /\ Fit(t, e.pre)
  BY EntryFacts
<1>2. e.snapshot = Snapshot(t, c, e.pre) /\ e.post = Run(t, c, e.pre).w
  BY EntryFacts
<1>3. Run(t, c, e.pre).ok /\ e.observed = {Observe(t, c, e.result, e.post)}
  BY EntryFacts
<1>4. NoConflict(t, e, v) /\ reversible(t, c) /\ u = UndoHook(t, c, e.snapshot, e.result, v)
  BY DEF UndoOf, Undoable
<1>5. Observe(t, c, e.result, v) = Observe(t, c, e.result, e.post)
  BY <1>3, <1>4 DEF NoConflict
<1>6. IsWorld(t, v) /\ IsWorld(t, e.pre) /\ IsWorld(t, e.post)
  BY EntryFacts DEF Fit
<1>. HIDE DEF u
<1>7. CASE t = "fs"
  <2>1. IsTree(v) /\ IsTree(e.pre) /\ c.op # "exists" /\ "fs" \in Tools /\ c \in Calls["fs"]
    BY <1>1, <1>6, <1>7, FsWorld, ExistsReads
  <2>2. FS!Run(c, e.pre).ok /\ e.post = FS!Run(c, e.pre).w
    BY <1>2, <1>3, <1>7 DEF Run
  <2>3. FS!Observe(c, e.result, v) = FS!Observe(c, e.result, FS!Run(c, e.pre).w)
    BY <1>5, <1>7, <2>2 DEF Observe
  <2>4. u = FS!Undo(c, FS!Snapshot(c, e.pre), e.result, v)
    BY <1>2, <1>4, <1>7 DEF UndoHook, Snapshot
  <2>5. p \in Path
    BY <2>1 DEF IsTree
  <2>6. \/ u.w[p] = v[p]
        \/ v[p] = FS!Run(c, e.pre).w[p]
        \/ v[p] = FS!Absent /\ u.w[p] = FS!Dir
    BY <2>1, <2>2, <2>3, <2>4, <2>5, FsKeepsNewer
  <2>. QED
    BY <1>7, <2>2, <2>6 DEF u
<1>8. CASE t = "db"
  <2>1. v.rows = e.post.rows
    BY <1>5, <1>8 DEF Observe, DB!Observe
  <2>2. v = [rows |-> v.rows] /\ e.post = [rows |-> e.post.rows]
    BY <1>6, <1>8 DEF IsWorld
  <2>3. v = e.post
    BY <2>1, <2>2
  <2>. QED
    BY <2>3
<1>9. CASE t = "sh"
  <2>1. c.cmd = "commit"
    BY <1>4, <1>9 DEF reversible, SH!reversible
  <2>2. v.head = e.post.head
    BY <1>5, <1>9, <2>1 DEF Observe, SH!Observe, SH!reversible
  <2>3. v = [head |-> v.head, index |-> v.index]
    BY <1>6, <1>9 DEF IsWorld
  <2>4. u.w = v \/ u.w = [v EXCEPT !.head = e.snapshot]
    BY <1>4, <1>9 DEF UndoHook, SH!Undo
  <2>5. p = "head" \/ p = "index"
    BY <2>3
  <2>6. u.w.index = v.index
    BY <2>3, <2>4
  <2>. QED
    BY <2>2, <2>5, <2>6 DEF u
<1>10. CASE t = "email"
  BY <1>4, <1>10 DEF reversible, EM!reversible
<1>. QED
  BY <1>7, <1>8, <1>9, <1>10, ToolsAssumption

(* The undo of a committed action never replaces anything newer, whoever   *)
(* else wrote and in whatever order actions were undone.                   *)
THEOREM UndosKeepNewer == Spec => UndoKeepsNewer
<1>1. AInv /\ [Next]_vars =>
        [\A i \in DOMAIN log :
           Undo(i) /\ log[i].status = "committed" /\ tool # "http" =>
              \A p \in DOMAIN world :
                 \/ world'[p] = world[p]
                 \/ world[p] = log[i].post[p]
                 \/ tool = "fs" /\ world[p] = FS!Absent /\ world'[p] = FS!Dir]_vars
  <2>. SUFFICES ASSUME AInv, NEW i \in DOMAIN log, Undo(i), log[i].status = "committed", tool # "http",
                       NEW p \in DOMAIN world
                PROVE  \/ world'[p] = world[p]
                       \/ world[p] = log[i].post[p]
                       \/ tool = "fs" /\ world[p] = FS!Absent /\ world'[p] = FS!Dir
    OBVIOUS
  <2>1. world' = UndoOf(tool, log[i], world).w
    BY DEF Undo
  <2>2. tool \in Tools /\ Fit(tool, world) /\ IsEntry(tool, log[i])
    <3>1. /\ tool \in Tools /\ Fit(tool, world) /\ log = [j \in 1 .. Len(log) |-> log[j]]
          /\ \A j \in 1 .. Len(log) : IsEntry(tool, log[j])
      BY DEF AInv, IsLog
    <3>2. i \in 1 .. Len(log)
      BY <3>1
    <3>. QED
      BY <3>1, <3>2
  <2>. QED
    BY <2>1, <2>2, KeepsNewer
<1>. QED
  BY <1>1, AdaptersInvariant, PTL DEF Spec, UndoKeepsNewer
=============================================================================
