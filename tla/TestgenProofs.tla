--------------------------- MODULE TestgenProofs ----------------------------
(***************************************************************************)
(* "undolith testgen": what minimising returns, for cassettes and traces   *)
(* of every length and every agent and judge that answer the same way      *)
(* twice; and what becomes of a recorded session of any length: a suite, a *)
(* run of any agent, a verdict.                                            *)
(***************************************************************************)
EXTENDS TestgenCli, FiniteSetTheorems, WellFoundedInduction, TLAPS

(***************************************************************************)
(* Minimising.                                                             *)
(***************************************************************************)

(* No x of s can be left out. *)
Minimal(s) == \A x \in s : s \ {x} \notin fails

(* The chunks in front of chunk have been tried without luck, and so has   *)
(* what is left without each of them, if that is not a chunk itself.       *)
Tried == \A k \in 1 .. chunk - 1 : Chunk(k) \notin fails /\ (n > 2 => Rest(k) \notin fails)

Typed ==
    /\ task \in {"test", "trace"}
    /\ items \subseteq Prefix(Size) /\ n \in Nat /\ n >= 2 /\ chunk \in Nat /\ chunk >= 1
    /\ lo \in Nat /\ hi \in Nat
    /\ task = "test" => pc \in {"whole", "passes", "empty", "chunk", "rest", "done"}
    /\ task = "trace" => pc \in {"whole", "passes", "middle", "done"}

Dividing ==
    task = "test" =>
       /\ pc = "whole" => items = Prefix(Size)
       /\ pc \in {"empty", "chunk", "rest", "done"} => items \in fails
       /\ pc \in {"chunk", "rest"} => {} \notin fails /\ Cardinality(items) >= 2 /\ Tried
       /\ pc = "rest" => n > 2 /\ Chunk(chunk) \notin fails
       /\ pc = "done" => Minimal(items)

Searching ==
    task = "trace" =>
       /\ lo <= hi
       /\ pc = "whole" => hi = Size
       /\ pc \in {"middle", "done"} => Prefix(hi) \in fails
       /\ hi <= Size
       /\ Monotone => \A k \in 0 .. lo - 1 : Prefix(k) \notin fails
       /\ pc = "done" => lo = hi

IInv == Typed /\ Dividing /\ Searching

-----------------------------------------------------------------------------
(* Sub-lists are finite, and shorter than the whole. *)
LEMMA ItemsFinite ==
    ASSUME Typed
    PROVE  IsFiniteSet(items) /\ Cardinality(items) \in Nat
<1>1. IsFiniteSet(Prefix(Size))
  BY FS_Interval, SizeAssumption DEF Prefix
<1>2. IsFiniteSet(items)
  BY <1>1, FS_Subset DEF Typed
<1>. QED
  BY <1>2, FS_CardinalityType

(* Ranks number the items from 1 on, each with another. *)
LEMMA Ranks ==
    ASSUME Typed
    PROVE  /\ \A x \in items : Rank(x) \in 1 .. Cardinality(items)
           /\ \A x, y \in items : Rank(x) = Rank(y) => x = y
<1>1. IsFiniteSet(items) /\ items \subseteq Int
  BY ItemsFinite, SizeAssumption DEF Typed, Prefix
<1>. DEFINE Upto(x) == {y \in items : y <= x}
<1>2. \A x : IsFiniteSet(Upto(x)) /\ Cardinality(Upto(x)) \in Nat
              /\ Cardinality(Upto(x)) <= Cardinality(items)
  BY <1>1, FS_Subset, FS_CardinalityType
<1>3. ASSUME NEW x \in items PROVE Rank(x) \in 1 .. Cardinality(items)
  <2>1. x \in Upto(x) /\ x \in Int
    BY <1>1
  <2>2. Cardinality(Upto(x)) # 0
    BY <1>2, <2>1, FS_EmptySet
  <2>. QED
    BY <1>2, <2>2, ItemsFinite DEF Rank
<1>4. ASSUME NEW x \in items, NEW y \in items, x < y PROVE Rank(x) # Rank(y)
  <2>1. Upto(x) \subseteq Upto(y) /\ y \in Upto(y) /\ y \notin Upto(x)
    <3>1. x \in Int /\ y \in Int
      BY <1>1
    <3>2. \A z \in items : z \in Int /\ (z <= x => z <= y)
      BY <1>1, <1>4, <3>1
    <3>3. y <= y /\ ~(y <= x)
      BY <1>4, <3>1
    <3>. QED
      BY <3>2, <3>3
  <2>2. Cardinality(Upto(y)) # Cardinality(Upto(x))
    BY <1>2, <2>1, FS_Subset
  <2>. QED
    BY <2>2 DEF Rank
<1>. QED
  BY <1>1, <1>3, <1>4

(* With at least as many chunks as items, every chunk is one item. *)
LEMMA ChunksOfOne ==
    ASSUME Typed, n >= Cardinality(items), Cardinality(items) >= 1
    PROVE  /\ ChunkSize = 1
           /\ \A x \in items : Chunk(Rank(x)) = {x}
<1>1. Cardinality(items) \in Nat
  BY ItemsFinite
<1>2. ChunkSize = 1
  <2>. DEFINE a == Cardinality(items) + n - 1
  <2>1. a \in Nat /\ n \in Nat /\ n >= 1 /\ n <= a /\ a < n + n
    BY <1>1 DEF Typed
  <2>2. a \div n = 1
    BY <2>1, Z3
  <2>. QED
    BY <2>2 DEF ChunkSize
<1>3. ASSUME NEW x \in items PROVE Chunk(Rank(x)) = {x}
  <2>1. \A y \in items : Rank(y) \in Int
    BY Ranks, <1>1
  <2>2. \A y \in items : (Rank(x) - 1) * ChunkSize < Rank(y) /\ Rank(y) <= Rank(x) * ChunkSize <=> Rank(y) = Rank(x)
    BY <1>2, <2>1
  <2>. QED
    BY <2>2, Ranks DEF Chunk
<1>. QED
  BY <1>2, <1>3

(* When every chunk has been tried and there are as many as items, nothing *)
(* can be left out.                                                        *)
LEMMA TriedAll ==
    ASSUME Typed, Cardinality(items) >= 2, n >= Cardinality(items), Tried, LastChunk,
           Chunk(chunk) \notin fails, n > 2 => Rest(chunk) \notin fails
    PROVE  Minimal(items)
<1>1. Cardinality(items) \in Nat /\ IsFiniteSet(items)
  BY ItemsFinite
<1>2. ChunkSize = 1 /\ \A x \in items : Chunk(Rank(x)) = {x}
  BY <1>1, ChunksOfOne
<1>3. chunk \in Nat /\ n \in Nat /\ chunk >= Cardinality(items)
  BY <1>1, <1>2 DEF LastChunk, Typed
<1>4. \A x \in items : Rank(x) \in 1 .. chunk
  BY <1>1, <1>3, Ranks
<1>5. \A x \in items : {x} \notin fails /\ (n > 2 => items \ {x} \notin fails)
  <2>. SUFFICES ASSUME NEW x \in items
                PROVE  Chunk(Rank(x)) \notin fails /\ (n > 2 => Rest(Rank(x)) \notin fails)
    BY <1>2 DEF Rest
  <2>1. CASE Rank(x) = chunk
    BY <2>1
  <2>2. CASE Rank(x) # chunk
    <3>1. Rank(x) \in 1 .. chunk - 1
      BY <1>3, <1>4, <2>2
    <3>. QED
      BY <3>1 DEF Tried
  <2>. QED
    BY <2>1, <2>2
<1>6. CASE n > 2
  BY <1>5, <1>6 DEF Minimal
<1>7. CASE ~(n > 2)
  <2>1. Cardinality(items) = 2
    BY <1>1, <1>3, <1>7
  <2>2. ASSUME NEW x \in items PROVE items \ {x} \notin fails
    <3>1. IsFiniteSet(items \ {x}) /\ Cardinality(items \ {x}) = 1
      BY <1>1, <2>1, FS_RemoveElement
    <3>2. \E y : items \ {x} = {y}
      BY <3>1, FS_Singleton
    <3>. QED
      BY <3>2, <1>5
  <2>. QED
    BY <2>2 DEF Minimal
<1>. QED
  BY <1>6, <1>7

-----------------------------------------------------------------------------
(* ddmin goes on with a sub-list that fails: its invariant starts anew.    *)
LEMMA ContinueStep ==
    ASSUME Typed, task = "test", {} \notin fails, UNCHANGED <<task, fails, lo, hi>>,
           NEW left, left \subseteq items, left \in fails,
           NEW parts \in Nat, parts >= 2, Continue(left, parts)
    PROVE  Typed' /\ Dividing'
<1>1. IsFiniteSet(left) /\ Cardinality(left) \in Nat
  BY ItemsFinite, FS_Subset, FS_CardinalityType
<1>2. Typed'
  BY DEF Typed, Continue
<1>3. Tried'
  BY DEF Tried, Continue
<1>4. ASSUME pc' = "done" PROVE Minimal(left)
  <2>1. Cardinality(left) = 0 \/ Cardinality(left) = 1
    BY <1>1, <1>4 DEF Continue
  <2>2. CASE left = {}
    BY <2>2 DEF Minimal
  <2>3. CASE Cardinality(left) = 1
    <3>1. \E x : left = {x}
      BY <1>1, <2>3, FS_Singleton
    <3>. QED
      BY <3>1 DEF Minimal
  <2>. QED
    BY <1>1, <2>1, <2>2, <2>3, FS_EmptySet
<1>5. items' = left /\ fails' = fails /\ (pc' = "chunk" => Cardinality(left) >= 2) /\ pc' \in {"chunk", "done"}
  BY DEF Continue
<1>6. pc' = "done" => Minimal(items)'
  BY <1>4, <1>5 DEF Minimal
<1>. QED
  BY <1>2, <1>3, <1>5, <1>6 DEF Dividing

(* No luck with a chunk, nor without it: Tried grows, or starts anew with  *)
(* smaller chunks, or has come to its end.                                 *)
LEMMA GoOnStep ==
    ASSUME Typed, Dividing, task = "test", pc \in {"chunk", "rest"}, GoOn,
           UNCHANGED <<task, fails, lo, hi>>,
           Chunk(chunk) \notin fails, n > 2 => Rest(chunk) \notin fails
    PROVE  Typed' /\ Dividing'
<1>1. /\ {} \notin fails /\ items \in fails /\ Tried /\ Cardinality(items) >= 2
      /\ Cardinality(items) \in Nat /\ n \in Nat /\ n >= 2 /\ chunk \in Nat /\ chunk >= 1
  BY ItemsFinite DEF Dividing, Typed
<1>2. CASE ~LastChunk
  <2>1. chunk' = chunk + 1 /\ pc' = "chunk" /\ items' = items /\ n' = n /\ fails' = fails
    BY <1>2 DEF GoOn
  <2>2. \A k : Chunk(k)' = Chunk(k) /\ Rest(k)' = Rest(k)
    BY <2>1 DEF Chunk, Rest, ChunkSize, Rank
  <2>3. \A k \in 1 .. chunk : Chunk(k) \notin fails /\ (n > 2 => Rest(k) \notin fails)
    <3>. SUFFICES ASSUME NEW k \in 1 .. chunk PROVE Chunk(k) \notin fails /\ (n > 2 => Rest(k) \notin fails)
      OBVIOUS
    <3>1. CASE k = chunk
      BY <3>1
    <3>2. CASE k # chunk
      <4>1. k \in 1 .. chunk - 1
        BY <1>1, <3>2
      <4>. QED
        BY <1>1, <4>1 DEF Tried
    <3>. QED
      BY <3>1, <3>2
  <2>4. Tried'
    <3>1. chunk' - 1 = chunk
      BY <1>1, <2>1
    <3>. QED
      BY <2>1, <2>2, <2>3, <3>1 DEF Tried
  <2>5. Typed'
    BY <1>1, <2>1 DEF Typed
  <2>. QED
    BY <1>1, <2>1, <2>4, <2>5 DEF Dividing
<1>3. CASE LastChunk /\ n >= Cardinality(items)
  <2>1. pc' = "done" /\ items' = items /\ n' = n /\ chunk' = chunk /\ fails' = fails
    BY <1>3 DEF GoOn
  <2>2. Minimal(items)
    BY <1>1, <1>3, TriedAll
  <2>3. Minimal(items)'
    BY <2>1, <2>2 DEF Minimal
  <2>. QED
    BY <1>1, <2>1, <2>3 DEF Dividing, Typed
<1>4. CASE LastChunk /\ ~(n >= Cardinality(items))
  <2>. DEFINE parts == IF 2 * n <= Cardinality(items) THEN 2 * n ELSE Cardinality(items)
  <2>1. parts \in Nat /\ parts >= 2
    BY <1>1
  <2>2. Continue(items, parts)
    BY <1>4 DEF GoOn
  <2>. QED
    BY <1>1, <2>1, <2>2, ContinueStep
<1>. QED
  BY <1>2, <1>3, <1>4

(* The invariant holds at first. *)
LEMMA InitInv == ShrinkInit => IInv
<1>. SUFFICES ASSUME ShrinkInit PROVE IInv
  OBVIOUS
<1>1. Typed
  BY SizeAssumption DEF ShrinkInit, Typed
<1>2. Dividing
  BY DEF ShrinkInit, Dividing
<1>3. Searching
  BY SizeAssumption DEF ShrinkInit, Searching, Prefix
<1>. QED
  BY <1>1, <1>2, <1>3 DEF IInv

(* Chunks and rests are sub-lists. *)
LEMMA SubLists == \A k : Chunk(k) \subseteq items /\ Rest(k) \subseteq items
BY DEF Chunk, Rest

(* ddmin leaves the variables of the search alone. *)
LEMMA NoSearch ==
    ASSUME Typed', task = "test", UNCHANGED task
    PROVE  Searching'
BY DEF Searching

(* Every step but those of the search, one by one. *)
LEMMA WholeStep == ASSUME IInv, TryWhole PROVE IInv'
<1>1. Typed'
  BY DEF IInv, TryWhole, Typed
<1>2. Dividing'
  BY DEF IInv, TryWhole, Dividing, Typed
<1>3. Searching'
  BY DEF IInv, TryWhole, Searching, Typed, Monotone
<1>. QED
  BY <1>1, <1>2, <1>3 DEF IInv

(* The run on the empty list: it ends the search or makes the first chunks. *)
LEMMA EmptyStep == ASSUME IInv, TryEmpty PROVE IInv'
<1>0. /\ Typed /\ Dividing /\ task = "test" /\ items \in fails /\ n \in Nat /\ n >= 2
      /\ UNCHANGED <<task, fails, lo, hi>>
  BY DEF IInv, TryEmpty, Typed, Dividing
<1>1. CASE {} \in fails
  <2>1. items' = {} /\ n' = n /\ chunk' = 1 /\ pc' = "done"
    BY <1>1, FS_EmptySet DEF TryEmpty, Continue
  <2>2. Typed' /\ Dividing'
    BY <1>0, <1>1, <2>1 DEF Typed, Dividing, Minimal
  <2>. QED
    BY <1>0, <2>2, NoSearch DEF IInv
<1>2. CASE {} \notin fails
  <2>1. Continue(items, n)
    BY <1>2 DEF TryEmpty
  <2>2. Typed' /\ Dividing'
    BY <1>0, <1>2, <2>1, ContinueStep
  <2>. QED
    BY <1>0, <2>2, NoSearch DEF IInv
<1>. QED
  BY <1>1, <1>2

(* A chunk that fails is cut in two again; one that does not is ticked off. *)
LEMMA ChunkStep == ASSUME IInv, TryChunk PROVE IInv'
<1>0. /\ Typed /\ Dividing /\ task = "test" /\ pc = "chunk" /\ {} \notin fails
      /\ n \in Nat /\ n >= 2 /\ UNCHANGED <<task, fails, lo, hi>>
  BY DEF IInv, TryChunk, Typed, Dividing
<1>1. CASE Chunk(chunk) \in fails
  <2>1. Continue(Chunk(chunk), 2)
    BY <1>1 DEF TryChunk
  <2>2. Typed' /\ Dividing'
    BY <1>0, <1>1, <2>1, SubLists, ContinueStep
  <2>. QED
    BY <1>0, <2>2, NoSearch DEF IInv
<1>2. CASE Chunk(chunk) \notin fails /\ n > 2
  <2>1. pc' = "rest" /\ items' = items /\ n' = n /\ chunk' = chunk
    BY <1>2 DEF TryChunk
  <2>2. \A k : Chunk(k)' = Chunk(k) /\ Rest(k)' = Rest(k)
    BY <2>1 DEF Chunk, Rest, ChunkSize, Rank
  <2>3. Chunk(chunk)' = Chunk(chunk)
    BY <2>1 DEF Chunk, ChunkSize, Rank
  <2>4. Tried'
    BY <1>0, <2>1, <2>2 DEF Dividing, Tried
  <2>5. Typed'
    BY <1>0, <2>1 DEF Typed
  <2>6. Dividing'
    BY <1>0, <1>2, <2>1, <2>3, <2>4 DEF Dividing
  <2>. QED
    BY <1>0, <2>5, <2>6, NoSearch DEF IInv
<1>3. CASE Chunk(chunk) \notin fails /\ ~(n > 2)
  <2>1. GoOn
    BY <1>3 DEF TryChunk
  <2>2. Typed' /\ Dividing'
    BY <1>0, <1>3, <2>1, GoOnStep
  <2>. QED
    BY <1>0, <2>2, NoSearch DEF IInv
<1>. QED
  BY <1>1, <1>2, <1>3

(* A complement that fails is kept; one that does not is ticked off.       *)
LEMMA RestStep == ASSUME IInv, TryRest PROVE IInv'
<1>0. /\ Typed /\ Dividing /\ task = "test" /\ pc = "rest" /\ {} \notin fails
      /\ n \in Nat /\ n > 2 /\ Chunk(chunk) \notin fails /\ UNCHANGED <<task, fails, lo, hi>>
  BY DEF IInv, TryRest, Typed, Dividing
<1>1. CASE Rest(chunk) \in fails
  <2>. DEFINE parts == IF n - 1 >= 2 THEN n - 1 ELSE 2
  <2>1. Continue(Rest(chunk), parts) /\ parts \in Nat /\ parts >= 2
    BY <1>0, <1>1 DEF TryRest
  <2>2. Typed' /\ Dividing'
    BY <1>0, <1>1, <2>1, SubLists, ContinueStep
  <2>. QED
    BY <1>0, <2>2, NoSearch DEF IInv
<1>2. CASE Rest(chunk) \notin fails
  <2>1. GoOn
    BY <1>2 DEF TryRest
  <2>2. Typed' /\ Dividing'
    BY <1>0, <1>2, <2>1, GoOnStep
  <2>. QED
    BY <1>0, <2>2, NoSearch DEF IInv
<1>. QED
  BY <1>1, <1>2

-----------------------------------------------------------------------------
(* The bisection: lo and hi close in on the shortest prefix that fails.    *)
LEMMA MiddleBetween ==
    ASSUME NEW l \in Nat, NEW h \in Nat, l < h
    PROVE  (l + h) \div 2 \in Nat /\ l <= (l + h) \div 2 /\ (l + h) \div 2 < h
BY Z3

(* A prefix that fails bounds the answer above, one that does not, below.  *)
LEMMA MiddleStep == ASSUME IInv, TryMiddle PROVE IInv'
<1>0. /\ Typed /\ Searching /\ task = "trace" /\ pc = "middle" /\ lo \in Nat /\ hi \in Nat
      /\ lo < hi /\ hi <= Size /\ Size \in Nat
      /\ UNCHANGED <<task, fails, pc, items, n, chunk>>
  BY SizeAssumption DEF IInv, TryMiddle, Typed, Searching
<1>1. Middle \in Nat /\ lo <= Middle /\ Middle < hi
  BY <1>0, MiddleBetween DEF Middle
<1>2. Monotone' = Monotone
  BY <1>0 DEF Monotone
<1>3. Dividing'
  BY <1>0 DEF Dividing
<1>4. CASE Prefix(Middle) \in fails
  <2>1. hi' = Middle /\ lo' = lo
    BY <1>4 DEF TryMiddle
  <2>2. Typed'
    BY <1>0, <1>1, <2>1 DEF Typed
  <2>3. Searching'
    BY <1>0, <1>1, <1>2, <1>4, <2>1 DEF Searching
  <2>. QED
    BY <1>3, <2>2, <2>3 DEF IInv
<1>5. CASE Prefix(Middle) \notin fails
  <2>1. lo' = Middle + 1 /\ hi' = hi
    BY <1>5 DEF TryMiddle
  <2>2. Typed'
    BY <1>0, <1>1, <2>1 DEF Typed
  <2>3. ASSUME Monotone, NEW k \in 0 .. Middle PROVE Prefix(k) \notin fails
    <3>1. k \in 0 .. Size /\ Middle \in 0 .. Size /\ k <= Middle
      BY <1>0, <1>1
    <3>. QED
      BY <1>5, <2>3, <3>1 DEF Monotone
  <2>4. lo' <= hi' /\ hi' <= Size /\ lo' - 1 = Middle
    BY <1>0, <1>1, <2>1
  <2>5. Searching'
    BY <1>0, <1>2, <2>1, <2>3, <2>4 DEF Searching
  <2>. QED
    BY <1>3, <2>2, <2>5 DEF IInv
<1>. QED
  BY <1>4, <1>5

(* When the ends meet, the prefix found is the one that is known to fail.  *)
LEMMA FoundStep == ASSUME IInv, Found PROVE IInv'
<1>1. Typed' /\ Dividing'
  BY DEF IInv, Found, Typed, Dividing
<1>2. Searching'
  BY DEF IInv, Found, Typed, Searching, Monotone
<1>. QED
  BY <1>1, <1>2 DEF IInv

(* Everything speaks of the search alone.                                  *)
LEMMA NoStep == ASSUME IInv, UNCHANGED shrinking PROVE IInv'
<1>1. Typed'
  BY DEF IInv, shrinking, Typed
<1>2. \A k : Chunk(k)' = Chunk(k) /\ Rest(k)' = Rest(k)
  BY DEF shrinking, Chunk, Rest, ChunkSize, Rank
<1>3. Chunk(chunk)' = Chunk(chunk)
  BY DEF shrinking, Chunk, ChunkSize, Rank
<1>4. Tried' = Tried
  BY <1>2 DEF shrinking, Tried
<1>5. Dividing'
  BY <1>3, <1>4 DEF IInv, shrinking, Dividing, Minimal
<1>6. Searching'
  BY DEF IInv, shrinking, Searching, Monotone
<1>. QED
  BY <1>1, <1>5, <1>6 DEF IInv

(* ddmin and the bisection keep the invariant. *)
LEMMA IInvStep == ASSUME IInv, [ShrinkNext]_shrinking PROVE IInv'
<1>1. CASE TryWhole
  BY <1>1, WholeStep
<1>2. CASE TryEmpty
  BY <1>2, EmptyStep
<1>3. CASE TryChunk
  BY <1>3, ChunkStep
<1>4. CASE TryRest
  BY <1>4, RestStep
<1>5. CASE TryMiddle
  BY <1>5, MiddleStep
<1>6. CASE Found
  BY <1>6, FoundStep
<1>7. CASE UNCHANGED shrinking
  BY <1>7, NoStep
<1>. QED
  BY <1>1, <1>2, <1>3, <1>4, <1>5, <1>6, <1>7 DEF ShrinkNext

(* So it always holds. *)
LEMMA Invariant == ShrinkSpec => []IInv
BY InitInv, IInvStep, PTL DEF ShrinkSpec

-----------------------------------------------------------------------------
(* What minimising returns still fails, for every cassette, trace, agent   *)
(* and judge: neither a chunk nor a prefix is given up for one that passes *)
(* (minimize.py, ddmin and minimize_trace).                                *)
THEOREM MinimizedStillFails == ShrinkSpec => []StillFails
<1>1. IInv => StillFails
  BY DEF IInv, Typed, Dividing, Searching, StillFails, Result
<1>. QED
  BY <1>1, Invariant, PTL

(* A minimised test needs every entry it is left with: ddmin ends only     *)
(* when every single entry has been left out in vain, or left alone in     *)
(* vain when there are two (minimize.py, ddmin).                           *)
THEOREM MinimizedIsMinimal == ShrinkSpec => []OneMinimal
<1>1. IInv => OneMinimal
  BY DEF IInv, Dividing, Minimal, OneMinimal
<1>. QED
  BY <1>1, Invariant, PTL

(* A judge that flags every longer prefix once it flags one is given the   *)
(* shortest prefix it flags (minimize.py, minimize_trace).                 *)
THEOREM MinimizedIsShortest == ShrinkSpec => []ShortestPrefix
<1>1. IInv => ShortestPrefix
  BY DEF IInv, Typed, Searching, ShortestPrefix
<1>. QED
  BY <1>1, Invariant, PTL

(* The three together: what minimising promises of its result.             *)
THEOREM MinimizedKeepsItsPromise == ShrinkSpec => []Minimized
<1>1. Minimized <=> StillFails /\ OneMinimal /\ ShortestPrefix
  BY DEF Minimized
<1>. QED
  BY <1>1, MinimizedStillFails, MinimizedIsMinimal, MinimizedIsShortest, PTL

(* A step of the command line is one of the part that is given. *)
LEMMA CliStep ==
    ASSUME [CliNext]_allvars
    PROVE  [Next]_vars /\ [ShrinkNext]_shrinking
BY DEF CliNext, allvars

(* The same of the command line, where one invocation may be another.      *)
THEOREM MinimizedOnCommand == CliSpec => []Minimized
<1>. DEFINE Other == task = "none" /\ pc = "passes"
<1>1. CliInit => Other \/ IInv
  BY InitInv DEF CliInit
<1>2. (Other \/ IInv) /\ [CliNext]_allvars => (Other \/ IInv)'
  <2>. SUFFICES ASSUME Other \/ IInv, [CliNext]_allvars PROVE (Other \/ IInv)'
    OBVIOUS
  <2>1. [ShrinkNext]_shrinking
    BY CliStep
  <2>2. CASE Other
    BY <2>1, <2>2 DEF ShrinkNext, TryWhole, TryEmpty, TryChunk, TryRest, TryMiddle, Found, shrinking
  <2>3. CASE IInv
    BY <2>1, <2>3, IInvStep
  <2>. QED
    BY <2>2, <2>3
<1>3. Other \/ IInv => Minimized
  <2>1. Other => Minimized
    BY DEF Minimized, StillFails, OneMinimal, ShortestPrefix
  <2>2. IInv => StillFails /\ OneMinimal /\ ShortestPrefix
    BY DEF IInv, Typed, Dividing, Searching, StillFails, Result, Minimal, OneMinimal, ShortestPrefix
  <2>. QED
    BY <2>1, <2>2 DEF Minimized
<1>. QED
  BY <1>1, <1>2, <1>3, PTL DEF CliSpec

(***************************************************************************)
(* From a recorded session to a verdict.                                   *)
(***************************************************************************)

(* A set of naturals has a least element, and Min finds it. *)
LEMMA LeastOf ==
    ASSUME NEW S \in SUBSET Nat, S # {}
    PROVE  Min(S) \in S /\ \A y \in S : Min(S) <= y
<1>1. PICK x \in S : \A y \in S : ~(<<y, x>> \in OpToRel(<, Nat))
  BY NatLessThanWellFounded, WFMin
<1>2. OpToRel(<, Nat) = {ss \in Nat \X Nat : ss[1] < ss[2]}
  BY DEF OpToRel
<1>3. \A y \in S : ~(y < x)
  <2>. TAKE y \in S
  <2>1. <<y, x>> \in Nat \X Nat /\ <<y, x>>[1] = y /\ <<y, x>>[2] = x
    OBVIOUS
  <2>. QED
    BY <1>1, <1>2, <2>1
<1>4. \A y \in S : x <= y
  BY <1>3
<1>. QED
  BY <1>4 DEF Min

(* A bounded one has a greatest, and Max finds it. *)
LEMMA GreatestOf ==
    ASSUME NEW k \in Nat, NEW S \in SUBSET (0 .. k), S # {}
    PROVE  Max(S) \in S /\ \A y \in S : Max(S) >= y
<1>. DEFINE T == {i \in 0 .. k : k - i \in S}
<1>1. T # {} /\ T \subseteq Nat
  <2>1. PICK y \in S : TRUE
    OBVIOUS
  <2>2. y \in 0 .. k /\ k - y \in 0 .. k /\ k - (k - y) = y
    BY <2>1
  <2>3. k - y \in T
    BY <2>1, <2>2
  <2>4. T \subseteq 0 .. k
    OBVIOUS
  <2>. HIDE DEF T
  <2>5. \A i \in 0 .. k : i \in Nat
    OBVIOUS
  <2>. QED
    BY <2>3, <2>4, <2>5
<1>2. Min(T) \in T /\ \A i \in T : Min(T) <= i
  BY <1>1, LeastOf
<1>3. k - Min(T) \in S
  BY <1>2
<1>4. ASSUME NEW y \in S PROVE k - Min(T) >= y
  <2>1. k - (k - y) = y /\ k - y \in 0 .. k
    OBVIOUS
  <2>2. k - y \in T
    BY <2>1
  <2>. QED
    BY <2>1, <2>2, <1>2
<1>. QED
  BY <1>3, <1>4 DEF Max

-----------------------------------------------------------------------------
(* The pass of run_test over the expected calls.                           *)

Step(expect, calls, j, pos) ==
    LET hits == Hits(expect, calls, j, pos) IN IF hits = {} THEN pos ELSE Min(hits)

(* f follows the pass up to m.                                             *)
IsSearch(expect, calls, m, f) ==
    f = [j \in 0 .. m |-> IF j = 0 THEN 0 ELSE Step(expect, calls, j, f[j - 1])]

(* There is a function that follows it to any m. *)
LEMMA SearchExists ==
    ASSUME NEW expect, NEW calls
    PROVE  \A m \in Nat : \E f : IsSearch(expect, calls, m, f)
<1>. DEFINE Bad == {m \in Nat : ~\E f : IsSearch(expect, calls, m, f)}
<1>1. SUFFICES ASSUME Bad # {} PROVE FALSE
  OBVIOUS
<1>2. PICK m \in Bad : \A i \in Bad : m <= i
  BY <1>1, LeastOf
<1>3. m \in Nat /\ ~\E f : IsSearch(expect, calls, m, f)
  OBVIOUS
<1>4. CASE m = 0
  <2>1. IsSearch(expect, calls, 0, [j \in 0 .. 0 |-> 0])
    BY DEF IsSearch
  <2>. QED
    BY <1>3, <1>4, <2>1
<1>5. CASE m # 0
  <2>1. m - 1 \in Nat /\ ~(m <= m - 1)
    BY <1>3, <1>5
  <2>2. m - 1 \notin Bad
    BY <1>2, <2>1
  <2>3. PICK f : IsSearch(expect, calls, m - 1, f)
    BY <2>1, <2>2
  <2>. DEFINE g == [j \in 0 .. m |-> IF j = m THEN Step(expect, calls, m, f[m - 1]) ELSE f[j]]
  <2>4. \A j \in 0 .. m : g[j] = IF j = 0 THEN 0 ELSE Step(expect, calls, j, g[j - 1])
    <3>. TAKE j \in 0 .. m
    <3>1. CASE j = m
      <4>1. m - 1 \in 0 .. m /\ m - 1 # m
        BY <1>3, <1>5
      <4>2. g[m - 1] = f[m - 1]
        BY <4>1
      <4>3. g[m] = Step(expect, calls, m, f[m - 1])
        BY <1>3
      <4>. QED
        BY <1>5, <3>1, <4>2, <4>3
    <3>2. CASE j # m
      <4>1. j \in 0 .. m - 1 /\ (j # 0 => j - 1 \in 0 .. m /\ j - 1 # m)
        BY <1>3, <3>2
      <4>2. g[j] = f[j] /\ (j # 0 => g[j - 1] = f[j - 1])
        BY <3>2, <4>1
      <4>3. f[j] = IF j = 0 THEN 0 ELSE Step(expect, calls, j, f[j - 1])
        BY <2>3, <4>1 DEF IsSearch
      <4>. QED
        BY <4>2, <4>3
    <3>. QED
      BY <3>1, <3>2
  <2>5. IsSearch(expect, calls, m, g)
    BY <2>4 DEF IsSearch
  <2>. QED
    BY <1>3, <2>5
<1>. QED
  BY <1>4, <1>5

(* So Searched follows it. *)
LEMMA SearchedEquation ==
    ASSUME NEW k \in Nat, NEW expect, NEW calls, DOMAIN expect \subseteq 1 .. k
    PROVE  \E m \in Nat : /\ DOMAIN expect \subseteq 1 .. m
                          /\ IsSearch(expect, calls, m, Searched(expect, calls))
<1>. DEFINE S == DOMAIN expect \cup {0}
            m == Max(S)
<1>1. S \in SUBSET (0 .. k) /\ S # {}
  OBVIOUS
<1>2. m \in S /\ \A y \in S : m >= y
  BY <1>1, GreatestOf
<1>3. m \in Nat
  BY <1>1, <1>2
<1>4. DOMAIN expect \subseteq 1 .. m
  BY <1>2, <1>3
<1>. HIDE DEF S
<1>5. Searched(expect, calls) = CHOOSE pos : pos = [j \in 0 .. m |-> IF j = 0 THEN 0 ELSE Step(expect, calls, j, pos[j - 1])]
  BY DEF Searched, Step, S
<1>. HIDE DEF m
<1>6. Searched(expect, calls) = CHOOSE pos : IsSearch(expect, calls, m, pos)
  BY <1>5 DEF IsSearch
<1>7. \E pos : IsSearch(expect, calls, m, pos)
  BY <1>3, SearchExists
<1>8. IsSearch(expect, calls, m, Searched(expect, calls))
  BY <1>6, <1>7
<1>. QED
  BY <1>3, <1>4, <1>8

(* What a pass does with each expected call: it stays where it is, or goes *)
(* to the first place behind at which the call is made.                    *)
LEMMA PassStep ==
    ASSUME NEW expect, NEW calls, Len(calls) \in Nat, NEW m \in Nat, NEW pos,
           IsSearch(expect, calls, m, pos)
    PROVE  /\ pos[0] = 0
           /\ \A j \in 0 .. m : pos[j] \in Nat
           /\ \A j \in 1 .. m : /\ pos[j - 1] <= pos[j]
                                /\ LET hits == Hits(expect, calls, j, pos[j - 1])
                                   IN  /\ hits = {} => pos[j] = pos[j - 1]
                                       /\ hits # {} => pos[j] \in hits /\ \A i \in hits : pos[j] <= i
<1>1. pos[0] = 0
  BY DEF IsSearch
<1>2. ASSUME NEW j \in 1 .. m PROVE pos[j] = Step(expect, calls, j, pos[j - 1])
  <2>1. j \in 0 .. m /\ j # 0
    OBVIOUS
  <2>. QED
    BY <2>1 DEF IsSearch
<1>3. ASSUME NEW j \in 1 .. m, pos[j - 1] \in Nat
      PROVE  LET hits == Hits(expect, calls, j, pos[j - 1])
             IN  /\ hits = {} => pos[j] = pos[j - 1]
                 /\ hits # {} => pos[j] \in hits /\ \A i \in hits : pos[j] <= i
                 /\ pos[j] \in Nat /\ pos[j - 1] <= pos[j]
  <2>. DEFINE hits == Hits(expect, calls, j, pos[j - 1])
  <2>1. \A i \in hits : i \in Nat /\ pos[j - 1] <= i
    BY <1>3 DEF Hits
  <2>2. pos[j] = IF hits = {} THEN pos[j - 1] ELSE Min(hits)
    BY <1>2 DEF Step
  <2>. HIDE DEF hits
  <2>3. hits # {} => Min(hits) \in hits /\ \A i \in hits : Min(hits) <= i
    BY <2>1, LeastOf
  <2>4. hits = {} => pos[j] = pos[j - 1]
    BY <2>2
  <2>5. hits # {} => pos[j] \in hits /\ \A i \in hits : pos[j] <= i
    BY <2>2, <2>3
  <2>6. pos[j] \in Nat /\ pos[j - 1] <= pos[j]
    BY <1>3, <2>1, <2>4, <2>5
  <2>. QED
    BY <2>4, <2>5, <2>6 DEF hits
<1>4. \A j \in 0 .. m : pos[j] \in Nat
  <2>. DEFINE Bad == {j \in 0 .. m : pos[j] \notin Nat}
  <2>1. SUFFICES ASSUME Bad # {} PROVE FALSE
    OBVIOUS
  <2>2. Bad \in SUBSET Nat
    OBVIOUS
  <2>3. PICK j \in Bad : \A i \in Bad : j <= i
    BY <2>1, <2>2, LeastOf
  <2>4. j \in 0 .. m /\ pos[j] \notin Nat /\ j # 0
    BY <1>1
  <2>5. j \in 1 .. m /\ j - 1 \in 0 .. m /\ ~(j <= j - 1)
    BY <2>4
  <2>6. pos[j - 1] \in Nat
    BY <2>3, <2>5
  <2>. QED
    BY <1>3, <2>4, <2>5, <2>6
<1>5. \A j \in 1 .. m : j - 1 \in 0 .. m
  OBVIOUS
<1>. QED
  BY <1>1, <1>3, <1>4, <1>5

(* It never goes back. *)
LEMMA PassForward ==
    ASSUME NEW expect, NEW calls, Len(calls) \in Nat, NEW m \in Nat, NEW pos,
           IsSearch(expect, calls, m, pos), NEW i \in 0 .. m
    PROVE  \A j \in i .. m : pos[i] <= pos[j]
<1>. DEFINE Bad == {j \in i .. m : ~(pos[i] <= pos[j])}
<1>1. SUFFICES ASSUME Bad # {} PROVE FALSE
  OBVIOUS
<1>2. Bad \in SUBSET Nat
  OBVIOUS
<1>3. PICK j \in Bad : \A h \in Bad : j <= h
  BY <1>1, <1>2, LeastOf
<1>4. j \in i .. m /\ ~(pos[i] <= pos[j]) /\ pos[i] \in Nat /\ pos[j] \in Nat
  <2>1. j \in i .. m /\ j \in 0 .. m /\ ~(pos[i] <= pos[j])
    BY <1>3
  <2>2. \A h \in 0 .. m : pos[h] \in Nat
    BY PassStep
  <2>. QED
    BY <2>1, <2>2
<1>5. j # i
  BY <1>4
<1>6. j \in 1 .. m /\ j - 1 \in i .. m /\ j - 1 \in 0 .. m /\ ~(j <= j - 1)
  BY <1>4, <1>5
<1>7. pos[i] <= pos[j - 1] /\ pos[j - 1] \in Nat
  BY <1>3, <1>6, PassStep
<1>8. pos[j - 1] <= pos[j]
  BY <1>6, PassStep
<1>. QED
  BY <1>4, <1>7, <1>8

(* The pass of run_test finds every expected call if, and only if, they    *)
(* are all made in order.                                                  *)
LEMMA PassFindsEmbedding ==
    ASSUME NEW k \in Nat, NEW expect, DOMAIN expect \subseteq 1 .. k,
           NEW calls, Len(calls) \in Nat, DOMAIN calls = 1 .. Len(calls)
    PROVE  Missing(expect, calls) <=> ~Embeds(expect, calls)
<1>. DEFINE pos == Searched(expect, calls)
<1>1. PICK m \in Nat : DOMAIN expect \subseteq 1 .. m /\ IsSearch(expect, calls, m, pos)
  BY SearchedEquation
<1>3. Missing(expect, calls) <=> \E j \in DOMAIN expect : Hits(expect, calls, j, pos[j - 1]) = {}
  BY DEF Missing
<1>. HIDE DEF pos
<1>2. /\ pos[0] = 0 /\ \A j \in 0 .. m : pos[j] \in Nat
      /\ \A j \in 1 .. m : LET hits == Hits(expect, calls, j, pos[j - 1])
                           IN  /\ hits = {} => pos[j] = pos[j - 1]
                               /\ hits # {} => pos[j] \in hits /\ \A i \in hits : pos[j] <= i
  <2>1. pos[0] = 0
    BY <1>1 DEF IsSearch
  <2>3. ASSUME NEW j \in 0 .. m PROVE pos[j] \in Nat
    BY <1>1, PassStep
  <2>2. ASSUME NEW j \in 1 .. m
        PROVE  LET hits == Hits(expect, calls, j, pos[j - 1])
               IN  /\ hits = {} => pos[j] = pos[j - 1]
                   /\ hits # {} => pos[j] \in hits /\ \A i \in hits : pos[j] <= i
    BY <1>1, PassStep
  <2>. QED
    BY <2>1, <2>2, <2>3
<1>4. \A i \in 0 .. m : \A j \in i .. m : pos[i] <= pos[j]
  BY <1>1, PassForward
<1>5. ASSUME ~Missing(expect, calls) PROVE Embeds(expect, calls)
  <2>1. ASSUME NEW j \in DOMAIN expect
        PROVE  pos[j] \in DOMAIN calls /\ pos[j - 1] < pos[j] /\ calls[pos[j]].call = expect[j]
    <3>1. j \in 1 .. m /\ j - 1 \in 0 .. m
      BY <1>1
    <3>2. Hits(expect, calls, j, pos[j - 1]) # {}
      BY <1>3, <1>5
    <3>3. pos[j] \in Hits(expect, calls, j, pos[j - 1]) /\ pos[j - 1] \in Nat
      BY <1>2, <3>1, <3>2
    <3>. QED
      BY <3>3 DEF Hits
  <2>2. ASSUME NEW i \in DOMAIN expect, NEW j \in DOMAIN expect, i < j PROVE pos[i] < pos[j]
    <3>1. i \in 0 .. m /\ j - 1 \in i .. m /\ j \in 0 .. m /\ j - 1 \in 0 .. m
      BY <1>1, <2>2
    <3>2. pos[i] <= pos[j - 1] /\ pos[i] \in Nat /\ pos[j - 1] \in Nat /\ pos[j] \in Nat
      BY <1>2, <1>4, <3>1
    <3>3. pos[j - 1] < pos[j]
      BY <2>1
    <3>. QED
      BY <3>2, <3>3
  <2>. DEFINE at == [j \in DOMAIN expect |-> pos[j]]
  <2>3. at \in [DOMAIN expect -> DOMAIN calls]
    BY <2>1
  <2>4. \A i \in DOMAIN expect : calls[at[i]].call = expect[i]
    BY <2>1
  <2>5. \A i, j \in DOMAIN expect : i < j => at[i] < at[j]
    BY <2>2
  <2>. HIDE DEF at
  <2>. QED
    BY <2>3, <2>4, <2>5 DEF Embeds
<1>6. ASSUME Embeds(expect, calls) PROVE ~Missing(expect, calls)
  <2>1. PICK at \in [DOMAIN expect -> DOMAIN calls] :
             /\ \A i \in DOMAIN expect : calls[at[i]].call = expect[i]
             /\ \A i, j \in DOMAIN expect : i < j => at[i] < at[j]
    BY <1>6 DEF Embeds
  <2>2. \A i \in DOMAIN expect : at[i] \in 1 .. Len(calls)
    OBVIOUS
  <2>3. ASSUME NEW j \in DOMAIN expect, pos[j - 1] < at[j], pos[j - 1] \in Nat
        PROVE  at[j] \in Hits(expect, calls, j, pos[j - 1])
    BY <2>1, <2>2, <2>3 DEF Hits
  <2>. DEFINE Ahead(j) == \A i \in DOMAIN expect : i > j => pos[j] < at[i]
              Bad == {j \in 0 .. m : ~Ahead(j)}
  <2>4. Bad = {}
    <3>1. SUFFICES ASSUME Bad # {} PROVE FALSE
      OBVIOUS
    <3>2. Bad \in SUBSET Nat
      OBVIOUS
    <3>3. PICK j \in Bad : \A h \in Bad : j <= h
      BY <3>1, <3>2, LeastOf
    <3>4. j \in 0 .. m /\ ~Ahead(j)
      BY <3>3
    <3>5. j # 0
      BY <1>2, <2>2, <3>4
    <3>6. j \in 1 .. m /\ j - 1 \in 0 .. m /\ ~(j <= j - 1)
      BY <3>4, <3>5
    <3>7. Ahead(j - 1)
      BY <3>3, <3>6
    <3>8. pos[j] \in Nat /\ pos[j - 1] \in Nat
      BY <1>2, <3>4, <3>6
    <3>. DEFINE hits == Hits(expect, calls, j, pos[j - 1])
    <3>9. PICK i \in DOMAIN expect : i > j /\ ~(pos[j] < at[i])
      BY <3>4
    <3>10. i \in 1 .. m /\ i > j - 1 /\ at[i] \in Nat
      BY <1>1, <2>2, <3>9, <3>6
    <3>11. pos[j - 1] < at[i]
      BY <3>7, <3>10
    <3>12. hits # {}
      BY <1>2, <3>6, <3>9, <3>11
    <3>13. j \in DOMAIN expect
      BY <3>12 DEF Hits
    <3>14. at[j] \in Nat /\ at[j] < at[i]
      BY <2>1, <2>2, <3>13, <3>9
    <3>15. pos[j - 1] < at[j]
      BY <3>6, <3>7, <3>13
    <3>16. at[j] \in hits
      BY <2>3, <3>13, <3>15, <3>8
    <3>17. pos[j] <= at[j]
      BY <1>2, <3>6, <3>16
    <3>. QED
      BY <3>8, <3>9, <3>10, <3>14, <3>17
  <2>5. ASSUME NEW j \in DOMAIN expect PROVE Hits(expect, calls, j, pos[j - 1]) # {}
    <3>1. j - 1 \in 0 .. m /\ j > j - 1
      BY <1>1
    <3>2. Ahead(j - 1) /\ pos[j - 1] \in Nat
      BY <1>2, <2>4, <3>1
    <3>. QED
      BY <2>3, <3>1, <3>2
  <2>. QED
    BY <1>3, <2>5
<1>. QED
  BY <1>5, <1>6

-----------------------------------------------------------------------------
(* The length of a function on 1 .. k. *)
LEMMA LengthOf ==
    ASSUME NEW k \in Nat, NEW f, f = [i \in 1 .. k |-> f[i]]
    PROVE  Len(f) = k /\ f \in Seq({f[i] : i \in 1 .. k})
<1>1. f \in [1 .. k -> {f[i] : i \in 1 .. k}]
  OBVIOUS
<1>2. f \in Seq({f[i] : i \in 1 .. k})
  BY <1>1
<1>3. DOMAIN f = 1 .. k
  BY <1>1
<1>. QED
  BY <1>2, <1>3

(* The trace of a recorded session has a step for each of its actions.     *)
LEMMA TraceForm ==
    ASSUME NEW s \in Sessions
    PROVE  LET t == TraceOf(s)
           IN  /\ Len(s.calls) \in Nat /\ DOMAIN s.calls = 1 .. Len(s.calls)
               /\ DOMAIN t.steps = DOMAIN s.calls /\ Len(t.steps) = Len(s.calls)
               /\ t.final = s.answer
               /\ \A a \in DOMAIN s.calls :
                     /\ t.steps[a].call = s.calls[a] /\ s.calls[a] \in Call
                     /\ t.steps[a].status = StepStatus(s.log, a)
                     /\ t.steps[a].result \in Nat \cup {None}
                     /\ t.steps[a].error \in BOOLEAN
<1>1. s.calls \in Seq(Call)
  BY SessionsAssumption
<1>2. Len(s.calls) \in Nat /\ DOMAIN s.calls = 1 .. Len(s.calls) /\ \A a \in DOMAIN s.calls : s.calls[a] \in Call
  BY <1>1
<1>. DEFINE t == TraceOf(s)
<1>3. t.steps = [a \in DOMAIN s.calls |-> StepOf(s.log, s.calls[a], a)] /\ t.final = s.answer
  BY DEF TraceOf
<1>. HIDE DEF t
<1>4. DOMAIN t.steps = DOMAIN s.calls /\ Len(t.steps) = Len(s.calls)
  <2>1. DOMAIN t.steps = 1 .. Len(s.calls) /\ t.steps = [i \in 1 .. Len(s.calls) |-> t.steps[i]]
    BY <1>2, <1>3
  <2>. QED
    BY <1>2, <2>1, LengthOf
<1>5. ASSUME NEW a \in DOMAIN s.calls
      PROVE  /\ t.steps[a].call = s.calls[a]
             /\ t.steps[a].status = StepStatus(s.log, a)
             /\ t.steps[a].result \in Nat \cup {None}
             /\ t.steps[a].error \in BOOLEAN
  <2>1. t.steps[a] = StepOf(s.log, s.calls[a], a) /\ a \in Nat
    BY <1>2, <1>3
  <2>2. t.steps[a].call = s.calls[a] /\ t.steps[a].status = StepStatus(s.log, a)
    BY <2>1 DEF StepOf
  <2>3. t.steps[a].result = IF Happened(s.log, a) THEN a ELSE None
    BY <2>1 DEF StepOf
  <2>4. t.steps[a].error = \E k \in {"failed", "denied", "rejected", "deviation"} : Has(s.log, a, k)
    BY <2>1 DEF StepOf
  <2>. QED
    BY <2>1, <2>2, <2>3, <2>4
<1>. QED
  BY <1>2, <1>3, <1>4, <1>5 DEF t

(* What a generated test is.                                               *)
Expected(t) == Restrict(t.steps, {i \in DOMAIN t.steps : t.steps[i].status = "ok" /\ ~t.steps[i].call.read})

(* What a generated test holds of a trace. *)
LEMMA TestForm ==
    ASSUME NEW t, NEW found, NEW x \in generate(t, found)
    PROVE  x.cassette = cassette_for(t) /\ DOMAIN x.expect \subseteq DOMAIN t.steps
<1>1. CASE \E f \in found : x = regression_test(t, f)
  <2>1. PICK f \in found : x = regression_test(t, f)
    BY <1>1
  <2>2. x.cassette = cassette_for(t) /\ x.expect = <<>>
    BY <2>1 DEF regression_test, Test
  <2>. QED
    BY <2>2
<1>2. CASE x \in golden_test(t)
  <2>1. x = [Test(t, "golden", None) EXCEPT !.expect = CallsOf(Expected(t)), !.final = t.final]
    BY <1>2 DEF golden_test, Expected
  <2>2. x.cassette = cassette_for(t) /\ x.expect = CallsOf(Expected(t))
    BY <2>1 DEF Test
  <2>3. DOMAIN CallsOf(Expected(t)) \subseteq DOMAIN t.steps
    BY DEF CallsOf, Expected, Restrict
  <2>. QED
    BY <2>2, <2>3
<1>. QED
  BY <1>1, <1>2 DEF generate

(* A golden test has the recorded mutating calls and the recorded answer.  *)
LEMMA GoldenForm ==
    ASSUME NEW t, NEW found, NEW x \in generate(t, found), x.kind = "golden"
    PROVE  /\ x.expect = CallsOf(Expected(t)) /\ x.forbid = {} /\ x.max_calls = MaxCalls(t)
           /\ x.max_repeats = None /\ x.final = t.final /\ x.must_pass_judge = FALSE
<1>1. \A f \in found : regression_test(t, f).kind = "regression"
  BY DEF regression_test, Test
<1>2. x \in golden_test(t)
  BY <1>1 DEF generate
<1>3. x = [Test(t, "golden", None) EXCEPT !.expect = CallsOf(Expected(t)), !.final = t.final]
  BY <1>2 DEF golden_test, Expected
<1>. QED
  BY <1>3 DEF Test

(* A regression test is made of a finding. *)
LEMMA RegressionForm ==
    ASSUME NEW t, NEW found, NEW x \in generate(t, found), x.kind = "regression"
    PROVE  \E f \in found : x = regression_test(t, f)
<1>1. \A y \in golden_test(t) : y.kind = "golden"
  BY DEF golden_test, Test
<1>. QED
  BY <1>1 DEF generate

-----------------------------------------------------------------------------
(* The inductive invariant.  A test that is run comes from the trace of    *)
(* what was recorded; the calls of the run are a sequence.                 *)
Served == [call : Call, result : Nat \cup {None}, error : BOOLEAN]

Shape ==
    /\ phase \in {"none", "recorded", "generated", "running", "done"}
    /\ phase # "none" => session \in Sessions
    /\ phase \in {"generated", "running", "done"} =>
          \E kind \in Judges : \E found \in Judgements(kind, trace) : suite = generate(trace, found)
    /\ phase \in {"running", "done"} => test \in suite /\ tools \in [Call -> SUBSET DOMAIN test.cassette]
    /\ run \in [calls : Seq(Served), final : Answer, raised : BOOLEAN]
    /\ phase \in {"none", "recorded", "generated"} => run = NoRun

(* As long as the agent does what was recorded, each call has its recorded *)
(* responses from here on before it, if there are any.                     *)
Replayable == \A i \in DOMAIN trace.steps : trace.steps[i].status \in REPLAYABLE

Ahead(c) == {i \in DOMAIN trace.steps : trace.steps[i].call = c /\ i > Len(run.calls)}

InStep ==
    phase \in {"running", "done"} /\ Replayable /\ Follows =>
       /\ \A i \in DOMAIN run.calls : run.calls[i].result = trace.steps[i].result
       /\ \A c \in Call : Ahead(c) # {} => tools[c] = Ahead(c)

TInv == Shape /\ InStep

(* The test of a run, once it is started. *)
LEMMA Running ==
    ASSUME Shape, phase \in {"running", "done"}
    PROVE  /\ session \in Sessions
           /\ \E kind \in Judges : \E found \in Judgements(kind, trace) : test \in generate(trace, found)
           /\ test.cassette = cassette_for(trace)
           /\ DOMAIN test.cassette \subseteq DOMAIN trace.steps
           /\ \A i \in DOMAIN test.cassette : test.cassette[i] = trace.steps[i]
           /\ Replayable => DOMAIN test.cassette = DOMAIN trace.steps
<1>1. session \in Sessions /\ test \in suite
  BY DEF Shape
<1>2. PICK kind \in Judges : \E found \in Judgements(kind, trace) : suite = generate(trace, found)
  BY DEF Shape
<1>3. PICK found \in Judgements(kind, trace) : suite = generate(trace, found)
  BY <1>2
<1>4. test.cassette = cassette_for(trace)
  BY <1>1, <1>3, TestForm
<1>5. /\ DOMAIN cassette_for(trace) = {i \in DOMAIN trace.steps : trace.steps[i].status \in REPLAYABLE}
      /\ \A i \in DOMAIN cassette_for(trace) : cassette_for(trace)[i] = trace.steps[i]
  BY DEF cassette_for, Restrict
<1>. QED
  BY <1>1, <1>3, <1>4, <1>5 DEF Replayable

(* A run that has not started. *)
LEMMA EmptyRun == NoRun \in [calls : Seq(Served), final : Answer, raised : BOOLEAN] /\ DOMAIN NoRun.calls = {}
<1>1. <<>> \in Seq(Served) /\ None \in Answer
  BY DEF Answer
<1>. QED
  BY <1>1 DEF NoRun

(* The invariant holds at first. *)
LEMMA CliInitInv == CliInit => TInv
<1>. SUFFICES ASSUME CliInit PROVE TInv
  OBVIOUS
<1>1. phase \in {"none", "recorded"} /\ run = NoRun /\ (phase # "none" => session \in Sessions)
  BY DEF CliInit, Init
<1>. QED
  BY <1>1, EmptyRun DEF TInv, Shape, InStep

(* What reads only what a step leaves alone, keeps its value. *)
LEMMA SameTrace ==
    ASSUME UNCHANGED session
    PROVE  trace' = trace /\ Replayable' = Replayable
BY DEF trace, Replayable

(* A suite is made of the recording. *)
LEMMA GenerateStep == ASSUME TInv, Generate PROVE TInv'
<1>1. phase' = "generated" /\ UNCHANGED <<session, test, tools, run>> /\ session \in Sessions /\ run = NoRun
  BY DEF Generate, TInv, Shape
<1>2. \E kind \in Judges : \E found \in Judgements(kind, trace) : suite' = generate(trace, found)
  BY DEF Generate
<1>3. Shape'
  BY <1>1, <1>2, SameTrace, EmptyRun DEF Shape
<1>. QED
  BY <1>1, <1>3 DEF TInv, InStep

(* ReplayTools starts with every recorded response before it. *)
LEMMA StartStep == ASSUME TInv, StartTest PROVE TInv'
<1>1. /\ phase = "generated" /\ phase' = "running" /\ UNCHANGED <<session, suite, run>>
      /\ session \in Sessions /\ run = NoRun
  BY DEF StartTest, TInv, Shape
<1>2. test' \in suite /\ tools' = [c \in Call |-> {i \in DOMAIN test'.cassette : test'.cassette[i].call = c}]
  BY DEF StartTest
<1>3. \E kind \in Judges : \E found \in Judgements(kind, trace) : suite = generate(trace, found)
  BY <1>1 DEF TInv, Shape
<1>4. Shape'
  BY <1>1, <1>2, <1>3, SameTrace, EmptyRun DEF Shape
<1>5. InStep'
  <2>1. SUFFICES ASSUME Replayable'
                 PROVE  \A c \in Call : Ahead(c)' # {} => tools'[c] = Ahead(c)'
    BY <1>1, EmptyRun DEF InStep
  <2>2. Len(run'.calls) = 0
    BY <1>1 DEF NoRun
  <2>3. /\ DOMAIN test'.cassette = DOMAIN trace'.steps
        /\ \A i \in DOMAIN test'.cassette : test'.cassette[i] = trace'.steps[i]
    <3>1. PICK kind \in Judges : \E found \in Judgements(kind, trace) : suite = generate(trace, found)
      BY <1>3
    <3>2. PICK found \in Judgements(kind, trace) : suite = generate(trace, found)
      BY <3>1
    <3>3. test' \in generate(trace, found)
      BY <1>2, <3>2
    <3>4. test'.cassette = cassette_for(trace) /\ trace' = trace /\ Replayable
      BY <1>1, <2>1, <3>3, TestForm, SameTrace
    <3>5. /\ DOMAIN cassette_for(trace) = {i \in DOMAIN trace.steps : trace.steps[i].status \in REPLAYABLE}
          /\ \A i \in DOMAIN cassette_for(trace) : cassette_for(trace)[i] = trace.steps[i]
      BY DEF cassette_for, Restrict
    <3>. QED
      BY <3>4, <3>5 DEF Replayable
  <2>4. DOMAIN trace'.steps \subseteq 1 .. Len(session.calls) /\ Len(session.calls) \in Nat
    BY <1>1, TraceForm DEF trace
  <2>5. \A c : Ahead(c)' = {i \in DOMAIN trace'.steps : trace'.steps[i].call = c}
    BY <2>2, <2>4 DEF Ahead
  <2>. QED
    BY <1>2, <2>3, <2>5
<1>. QED
  BY <1>4, <1>5 DEF TInv

(* The next recorded call is served its recorded response, and what is     *)
(* left of its responses is what is recorded behind it.                    *)
LEMMA CallStep == ASSUME TInv, NEW c \in Call, AgentCalls(c) PROVE TInv'
<1>1. phase = "running" /\ UNCHANGED <<session, phase, suite, test>> /\ session \in Sessions
  BY DEF AgentCalls, TInv, Shape
<1>2. Shape /\ InStep /\ test \in suite /\ tools \in [Call -> SUBSET DOMAIN test.cassette]
      /\ run \in [calls : Seq(Served), final : Answer, raised : BOOLEAN]
  BY <1>1 DEF TInv, Shape
<1>. DEFINE queue == tools[c]
            len   == Len(run.calls)
            steps == trace.steps
<1>3. /\ DOMAIN steps = 1 .. Len(steps) /\ Len(steps) \in Nat
      /\ \A i \in DOMAIN steps : steps[i].call \in Call /\ steps[i].result \in Nat \cup {None} /\ steps[i].error \in BOOLEAN
  BY <1>1, TraceForm DEF trace
<1>4. /\ DOMAIN test.cassette \subseteq DOMAIN steps
      /\ \A i \in DOMAIN test.cassette : test.cassette[i] = steps[i]
  BY <1>1, <1>2, Running
<1>. HIDE DEF steps
<1>5. queue \subseteq DOMAIN test.cassette /\ queue \subseteq Nat /\ IsFiniteSet(queue)
  <2>1. queue \subseteq DOMAIN test.cassette
    BY <1>2
  <2>2. IsFiniteSet(1 .. Len(steps))
    BY <1>3, FS_Interval
  <2>. QED
    BY <1>3, <1>4, <2>1, <2>2, FS_Subset
<1>6. queue # {} => Min(queue) \in queue /\ \A i \in queue : Min(queue) <= i
  BY <1>5, LeastOf
<1>7. PICK served \in Served :
         /\ run' = [run EXCEPT !.calls = Append(@, served)] /\ served.call = c
         /\ queue # {} => served.result = steps[Min(queue)].result
  <2>1. CASE queue = {}
    <3>1. [call |-> c, result |-> None, error |-> TRUE] \in Served
      BY DEF Served
    <3>. QED
      BY <2>1, <3>1 DEF AgentCalls
  <2>2. CASE queue # {}
    <3>. DEFINE rec == test.cassette[Min(queue)]
    <3>1. rec = steps[Min(queue)] /\ rec.result \in Nat \cup {None} /\ rec.error \in BOOLEAN
      BY <1>3, <1>4, <1>5, <1>6, <2>2
    <3>2. [call |-> c, result |-> rec.result, error |-> rec.error] \in Served
      BY <3>1 DEF Served
    <3>3. run' = [run EXCEPT !.calls = Append(@, [call |-> c, result |-> rec.result, error |-> rec.error])]
      BY <2>2 DEF AgentCalls
    <3>. QED
      BY <3>1, <3>2, <3>3
  <2>. QED
    BY <2>1, <2>2
<1>8. tools' = IF queue # {} /\ Cardinality(queue) > 1 THEN [tools EXCEPT ![c] = @ \ {Min(queue)}] ELSE tools
  BY DEF AgentCalls
<1>9. /\ run' \in [calls : Seq(Served), final : Answer, raised : BOOLEAN]
      /\ run'.calls = Append(run.calls, served)
  BY <1>2, <1>7
<1>10. tools' \in [Call -> SUBSET DOMAIN test.cassette]
  BY <1>2, <1>8
<1>11. Shape'
  BY <1>1, <1>2, <1>9, <1>10, SameTrace DEF Shape
<1>12. /\ run.calls \in Seq(Served) /\ len \in Nat /\ DOMAIN run.calls = 1 .. len
       /\ Len(run'.calls) = len + 1 /\ DOMAIN run'.calls = 1 .. len + 1
       /\ run'.calls[len + 1] = served /\ \A i \in 1 .. len : run'.calls[i] = run.calls[i]
  BY <1>2, <1>9
<1>13. InStep'
  <2>1. SUFFICES ASSUME Replayable', Follows'
                 PROVE  /\ \A i \in DOMAIN run'.calls : run'.calls[i].result = trace'.steps[i].result
                        /\ \A d \in Call : Ahead(d)' # {} => tools'[d] = Ahead(d)'
    BY DEF InStep
  <2>2. trace' = trace /\ Replayable /\ trace'.steps = steps
    BY <1>1, <2>1, SameTrace DEF steps
  <2>3. \A i \in 1 .. len + 1 : i <= Len(steps) /\ run'.calls[i].call = steps[i].call
    BY <1>12, <2>1, <2>2 DEF Follows, steps
  <2>4. Follows
    <3>1. \A i \in 1 .. len : i \in 1 .. len + 1
      BY <1>12
    <3>. QED
      BY <1>12, <2>3, <3>1 DEF Follows, steps
  <2>5. len + 1 \in DOMAIN steps /\ steps[len + 1].call = c
    BY <1>3, <1>7, <1>12, <2>3
  <2>6. /\ \A i \in DOMAIN run.calls : run.calls[i].result = steps[i].result
        /\ \A d \in Call : Ahead(d) # {} => tools[d] = Ahead(d)
    BY <1>1, <1>2, <2>2, <2>4 DEF InStep, steps
  <2>7. /\ \A d : Ahead(d) = {i \in DOMAIN steps : steps[i].call = d /\ i > len}
        /\ \A d : Ahead(d)' = {i \in DOMAIN steps : steps[i].call = d /\ i > len + 1}
    BY <1>12, <2>2 DEF Ahead, steps
  <2>8. len + 1 \in Ahead(c) /\ \A i \in Ahead(c) : len + 1 <= i
    BY <1>3, <1>12, <2>5, <2>7
  <2>9. queue = Ahead(c)
    BY <2>6, <2>8
  <2>10. Min(queue) = len + 1
    <3>1. Min(queue) <= len + 1 /\ len + 1 <= Min(queue) /\ Min(queue) \in Nat
      BY <1>5, <1>6, <2>8, <2>9
    <3>. QED
      BY <1>12, <3>1
  <2>11. \A i \in DOMAIN run'.calls : run'.calls[i].result = steps[i].result
    <3>. TAKE i \in DOMAIN run'.calls
    <3>1. CASE i = len + 1
      BY <1>7, <1>12, <2>8, <2>9, <2>10, <3>1
    <3>2. CASE i # len + 1
      <4>1. i \in 1 .. len
        BY <1>12, <3>2
      <4>. QED
        BY <1>12, <2>6, <4>1
    <3>. QED
      BY <3>1, <3>2
  <2>12. ASSUME NEW d \in Call, Ahead(d)' # {} PROVE tools'[d] = Ahead(d)'
    <3>1. Ahead(d)' = Ahead(d) \ {len + 1}
      BY <1>3, <1>12, <2>7
    <3>2. CASE d # c
      <4>1. Ahead(d)' = Ahead(d)
        BY <2>5, <2>7, <3>1, <3>2
      <4>2. tools'[d] = tools[d]
        BY <1>2, <1>8, <3>2
      <4>. QED
        BY <2>6, <2>12, <4>1, <4>2
    <3>3. CASE d = c
      <4>1. PICK i \in Ahead(c) : i # len + 1
        BY <2>12, <3>1, <3>3
      <4>2. {i, len + 1} \subseteq queue /\ Cardinality({i, len + 1}) = 2
        <5>1. {i, len + 1} \subseteq queue
          BY <2>8, <2>9, <4>1
        <5>2. IsFiniteSet({len + 1}) /\ Cardinality({len + 1}) = 1 /\ i \notin {len + 1}
          BY <4>1, FS_Singleton
        <5>3. {i, len + 1} = {len + 1} \cup {i}
          OBVIOUS
        <5>4. Cardinality({len + 1} \cup {i}) = 2
          BY <5>2, FS_AddElement
        <5>. QED
          BY <5>1, <5>3, <5>4
      <4>3. Cardinality(queue) \in Nat /\ Cardinality({i, len + 1}) <= Cardinality(queue)
        BY <1>5, <4>2, FS_Subset, FS_CardinalityType
      <4>4. tools' = [tools EXCEPT ![c] = @ \ {Min(queue)}]
        BY <1>8, <2>8, <2>9, <4>2, <4>3
      <4>. QED
        BY <1>2, <2>9, <2>10, <3>1, <3>3, <4>4
    <3>. QED
      BY <3>2, <3>3
  <2>. QED
    BY <2>2, <2>11, <2>12
<1>. QED
  BY <1>11, <1>13 DEF TInv

(* The end of a run changes neither the calls nor what was served.         *)
LEMMA EndStep ==
    ASSUME TInv, (\E final \in Answer : AgentAnswers(final)) \/ AgentRaises
    PROVE  TInv'
<1>1. /\ phase = "running" /\ phase' = "done" /\ UNCHANGED <<session, suite, test, tools>>
      /\ run \in [calls : Seq(Served), final : Answer, raised : BOOLEAN]
  BY DEF AgentAnswers, AgentRaises, TInv, Shape
<1>2. run' \in [calls : Seq(Served), final : Answer, raised : BOOLEAN] /\ run'.calls = run.calls
  BY <1>1 DEF AgentAnswers, AgentRaises
<1>3. Shape'
  BY <1>1, <1>2, SameTrace DEF TInv, Shape
<1>4. Follows' = Follows /\ \A c : Ahead(c)' = Ahead(c)
  BY <1>1, <1>2, SameTrace DEF Follows, Ahead
<1>5. InStep'
  BY <1>1, <1>2, <1>4, SameTrace DEF TInv, InStep
<1>. QED
  BY <1>3, <1>5 DEF TInv

(* Every other step of the command line leaves the invariant alone. *)
LEMMA IdleStep == ASSUME TInv, UNCHANGED vars PROVE TInv'
<1>1. Shape'
  BY SameTrace DEF TInv, Shape, vars
<1>2. Follows' = Follows /\ \A c : Ahead(c)' = Ahead(c)
  BY SameTrace DEF Follows, Ahead, vars
<1>3. InStep'
  BY <1>2, SameTrace DEF TInv, InStep, vars
<1>. QED
  BY <1>1, <1>3 DEF TInv

(* So it always holds. *)
LEMMA TestgenInvariant == CliSpec => []TInv
<1>1. ASSUME TInv, [Next]_vars PROVE TInv'
  <2>1. CASE Generate
    BY <1>1, <2>1, GenerateStep
  <2>2. CASE StartTest
    BY <1>1, <2>2, StartStep
  <2>3. ASSUME NEW c \in Call, AgentCalls(c) PROVE TInv'
    BY <1>1, <2>3, CallStep
  <2>4. CASE (\E final \in Answer : AgentAnswers(final)) \/ AgentRaises
    BY <1>1, <2>4, EndStep
  <2>5. CASE UNCHANGED vars
    BY <1>1, <2>5, IdleStep
  <2>. QED
    BY <1>1, <2>1, <2>2, <2>3, <2>4, <2>5 DEF Next
<1>. QED
  BY <1>1, CliInitInv, CliStep, PTL DEF CliSpec

-----------------------------------------------------------------------------
(* A run's one pass over the calls (run_test) misses an expected call      *)
(* exactly if the expected calls are not all made in order: for every      *)
(* suite, every agent and runs of every length.                            *)
THEOREM ExpectedIsEmbedded == CliSpec => []ExpectedIffEmbedded
<1>1. ASSUME TInv PROVE ExpectedIffEmbedded
  <2>. SUFFICES ASSUME phase = "done" PROVE ("expected" \in Verdict) <=> ~Embeds(test.expect, run.calls)
    BY DEF ExpectedIffEmbedded
  <2>1. Shape
    BY <1>1 DEF TInv
  <2>2. PICK kind \in Judges : \E found \in Judgements(kind, trace) : test \in generate(trace, found)
    BY <2>1, Running
  <2>3. PICK found \in Judgements(kind, trace) : test \in generate(trace, found)
    BY <2>2
  <2>4. DOMAIN test.expect \subseteq DOMAIN trace.steps
    BY <2>3, TestForm
  <2>5. DOMAIN trace.steps = 1 .. Len(session.calls) /\ Len(session.calls) \in Nat
    BY <2>1, TraceForm DEF Shape, trace
  <2>6. run.calls \in Seq(Served)
    BY <2>1 DEF Shape
  <2>7. Len(run.calls) \in Nat /\ DOMAIN run.calls = 1 .. Len(run.calls)
    BY <2>6
  <2>8. DOMAIN test.expect \subseteq 1 .. Len(session.calls)
    BY <2>4, <2>5
  <2>9. Missing(test.expect, run.calls) <=> ~Embeds(test.expect, run.calls)
    BY <2>5, <2>7, <2>8, PassFindsEmbedding
  <2>10. ("expected" \in Verdict) <=> Missing(test.expect, run.calls)
    BY DEF Verdict, Failures
  <2>. QED
    BY <2>9, <2>10
<1>. QED
  BY <1>1, TestgenInvariant, PTL

(* While it does what was recorded, the agent is served what was recorded  *)
(* (ReplayTools.call): for sessions of every length in which every step    *)
(* can be served.                                                          *)
THEOREM RecordedIsServed == CliSpec => []ServedAsRecorded
<1>1. ASSUME TInv PROVE ServedAsRecorded
  <2>1. CASE phase \in {"running", "done"}
    BY <1>1, <2>1 DEF TInv, InStep, ServedAsRecorded, Replayable
  <2>2. CASE phase \in {"none", "recorded", "generated"}
    BY <1>1, <2>2, EmptyRun DEF TInv, Shape, ServedAsRecorded
  <2>. QED
    BY <1>1, <2>1, <2>2 DEF TInv, Shape
<1>. QED
  BY <1>1, TestgenInvariant, PTL

-----------------------------------------------------------------------------
(* A run that does what was recorded.                                      *)
LEMMA RecordedCalls ==
    ASSUME TInv, phase = "done", Repeated
    PROVE  /\ Len(trace.steps) \in Nat /\ DOMAIN trace.steps = 1 .. Len(trace.steps)
           /\ Len(run.calls) = Len(trace.steps) /\ DOMAIN run.calls = DOMAIN trace.steps
           /\ \A i \in DOMAIN trace.steps : run.calls[i].call = trace.steps[i].call
<1>1. session \in Sessions /\ run.calls \in Seq(Served)
  BY DEF TInv, Shape
<1>2. Len(trace.steps) \in Nat /\ DOMAIN trace.steps = 1 .. Len(trace.steps)
  BY <1>1, TraceForm DEF trace
<1>3. Len(run.calls) = Len(trace.steps) /\ DOMAIN run.calls = 1 .. Len(run.calls)
  BY <1>1 DEF Repeated
<1>. QED
  BY <1>2, <1>3 DEF Repeated, Follows

(* It passes the golden test of the recording.                             *)
LEMMA Accepted == ASSUME TInv PROVE GoldenAccepts
<1>. SUFFICES ASSUME phase = "done", test.kind = "golden", Repeated PROVE Verdict = {}
  BY DEF GoldenAccepts
<1>1. PICK kind \in Judges : \E found \in Judgements(kind, trace) : test \in generate(trace, found)
  BY Running DEF TInv
<1>2. PICK found \in Judgements(kind, trace) : test \in generate(trace, found)
  BY <1>1
<1>3. /\ test.expect = CallsOf(Expected(trace)) /\ test.forbid = {} /\ test.max_calls = MaxCalls(trace)
      /\ test.max_repeats = None /\ test.final = trace.final /\ test.must_pass_judge = FALSE
  BY <1>2, GoldenForm
<1>4. /\ Len(trace.steps) \in Nat /\ DOMAIN trace.steps = 1 .. Len(trace.steps)
      /\ Len(run.calls) = Len(trace.steps) /\ DOMAIN run.calls = DOMAIN trace.steps
      /\ \A i \in DOMAIN trace.steps : run.calls[i].call = trace.steps[i].call
  BY RecordedCalls
<1>5. run.final = trace.final /\ ~run.raised
  BY DEF Repeated
<1>6. ~Missing(test.expect, run.calls)
  <2>. DEFINE expect == test.expect
  <2>1. /\ DOMAIN expect \subseteq DOMAIN trace.steps
        /\ \A i \in DOMAIN expect : expect[i] = trace.steps[i].call
    BY <1>3 DEF CallsOf, Expected, Restrict
  <2>. HIDE DEF expect
  <2>. DEFINE at == [i \in DOMAIN expect |-> i]
  <2>2. at \in [DOMAIN expect -> DOMAIN run.calls]
    BY <1>4, <2>1
  <2>3. \A i \in DOMAIN expect : run.calls[at[i]].call = expect[i]
    BY <1>4, <2>1
  <2>4. \A i, j \in DOMAIN expect : i < j => at[i] < at[j]
    OBVIOUS
  <2>. HIDE DEF at
  <2>5. Embeds(expect, run.calls)
    BY <2>2, <2>3, <2>4 DEF Embeds
  <2>6. DOMAIN expect \subseteq 1 .. Len(trace.steps) /\ Len(run.calls) \in Nat /\ DOMAIN run.calls = 1 .. Len(run.calls)
    BY <1>4, <2>1
  <2>7. ~Missing(expect, run.calls)
    BY <1>4, <2>5, <2>6, PassFindsEmbedding
  <2>. QED
    BY <2>7 DEF expect
<1>7. ~TooMany(test, run.calls)
  <2>. DEFINE k == 2 * Len(trace.steps) + Slack
              S == {2 * Len(trace.steps), Len(trace.steps) + Slack}
  <2>1. k \in Nat /\ S \in SUBSET (0 .. k) /\ 2 * Len(trace.steps) \in S /\ S # {}
    BY <1>4, SlackAssumption
  <2>2. Max(S) \in S /\ \A y \in S : Max(S) >= y
    BY <2>1, GreatestOf
  <2>3. Max(S) >= 2 * Len(trace.steps) /\ Max(S) \in Nat
    BY <2>1, <2>2
  <2>4. MaxCalls(trace) = Max(S)
    BY DEF MaxCalls
  <2>. HIDE DEF S
  <2>. QED
    BY <1>3, <1>4, <2>3, <2>4 DEF TooMany
<1>8. ~TooOften(test, run.calls)
  BY <1>3 DEF TooOften
<1>. QED
  BY <1>3, <1>5, <1>6, <1>7, <1>8 DEF Verdict, Failures

(* A failing finding blames a step of the trace, or none.                  *)
LEMMA FindingForm ==
    ASSUME NEW t, NEW kind, NEW found \in Judgements(kind, t), NEW f \in found,
           Len(t.steps) \in Nat, DOMAIN t.steps = 1 .. Len(t.steps)
    PROVE  /\ f.step # 0 => f.step \in DOMAIN t.steps
           /\ f.step = 0 /\ f.rule # "llm" /\ f.rule # "labelled-failure" => t.final = "sorry"
           /\ f.rule = "loop" => Repeats(t.steps, f.step) = LoopThreshold
<1>1. found = Heuristic(t) \/ found \in Model(t)
  BY DEF Judgements
<1>2. CASE found \in Model(t)
  <2>1. PICK i \in 0 .. Len(t.steps) : f = Finding("llm", i)
    BY <1>2 DEF Model
  <2>. QED
    BY <2>1 DEF Finding
<1>3. CASE f \in Blamed(t)
  <2>1. PICK i \in DOMAIN t.steps : f = Finding("ledger", i)
    BY <1>3 DEF Blamed
  <2>. QED
    BY <2>1 DEF Finding
<1>4. CASE f \in Loops(t)
  <2>1. PICK i \in DOMAIN t.steps : f = Finding("loop", i) /\ Repeats(t.steps, i) = LoopThreshold
    BY <1>4 DEF Loops
  <2>2. f.rule = "loop" /\ f.step = i /\ i # 0
    BY <2>1 DEF Finding
  <2>. QED
    BY <2>1, <2>2
<1>5. CASE f \in EndedOnError(t)
  <2>1. PICK i \in DOMAIN t.steps : f = Finding("ended-on-error", i)
    BY <1>5 DEF EndedOnError
  <2>. QED
    BY <2>1 DEF Finding
<1>6. CASE f \in GaveUp(t)
  <2>1. f = Finding("gave-up", 0) /\ t.final = "sorry"
    BY <1>6 DEF GaveUp
  <2>. QED
    BY <2>1 DEF Finding
<1>7. CASE f = Finding("labelled-failure", 0)
  BY <1>7 DEF Finding
<1>. QED
  BY <1>1, <1>2, <1>3, <1>4, <1>5, <1>6, <1>7 DEF Heuristic

(* A run that does what was recorded fails the regression tests of the     *)
(* recording that can tell.                                                *)
LEMMA Rejected == ASSUME TInv PROVE RegressionRejects
<1>. SUFFICES ASSUME phase = "done", test.kind = "regression", Repeated, ~Toothless PROVE Verdict # {}
  BY DEF RegressionRejects
<1>1. PICK kind \in Judges : \E found \in Judgements(kind, trace) : test \in generate(trace, found)
  BY Running DEF TInv
<1>2. PICK found \in Judgements(kind, trace) : test \in generate(trace, found)
  BY <1>1
<1>3. PICK f \in found : test = regression_test(trace, f)
  BY <1>2, RegressionForm
<1>4. /\ Len(trace.steps) \in Nat /\ DOMAIN trace.steps = 1 .. Len(trace.steps)
      /\ Len(run.calls) = Len(trace.steps) /\ DOMAIN run.calls = DOMAIN trace.steps
      /\ \A i \in DOMAIN trace.steps : run.calls[i].call = trace.steps[i].call
  BY RecordedCalls
<1>5. run.final = trace.final
  BY DEF Repeated
<1>6. /\ f.step # 0 => f.step \in DOMAIN trace.steps
      /\ f.step = 0 /\ f.rule # "llm" /\ f.rule # "labelled-failure" => trace.final = "sorry"
      /\ f.rule = "loop" => Repeats(trace.steps, f.step) = LoopThreshold
  BY <1>4, FindingForm
<1>7. test.rule = f.rule
  BY <1>3 DEF regression_test, Test
<1>8. CASE f.step = 0
  <2>1. test.must_pass_judge = TRUE
    BY <1>3, <1>8 DEF regression_test, Test
  <2>2. run.final = "sorry"
    BY <1>5, <1>6, <1>7, <1>8, <2>1 DEF Toothless
  <2>3. NewTrace(run).final = "sorry"
    BY <2>2 DEF NewTrace
  <2>4. GaveUp(NewTrace(run)) # {}
    BY <2>3 DEF GaveUp
  <2>5. Heuristic(NewTrace(run)) # {}
    BY <2>4 DEF Heuristic
  <2>6. "judge" \in Verdict
    BY <2>1, <2>5 DEF Verdict, Failures
  <2>. QED
    BY <2>6
<1>9. CASE f.step # 0 /\ f.rule = "loop"
  <2>1. test.max_repeats = 2
    BY <1>3, <1>9 DEF regression_test, Test
  <2>2. 2 # None
    BY NoneAssumption
  <2>3. \A j \in 1 .. f.step : j \in DOMAIN trace.steps
    BY <1>4, <1>6, <1>9
  <2>4. Repeats(run.calls, f.step) = Repeats(trace.steps, f.step)
    <3>1. \A j \in 1 .. f.step : run.calls[j].call = run.calls[f.step].call
                                   <=> trace.steps[j].call = trace.steps[f.step].call
      BY <1>4, <1>6, <1>9, <2>3
    <3>2. {j \in 1 .. f.step : run.calls[j].call = run.calls[f.step].call}
            = {j \in 1 .. f.step : trace.steps[j].call = trace.steps[f.step].call}
      BY <3>1
    <3>. QED
      BY <3>2 DEF Repeats
  <2>5. Repeats(run.calls, f.step) > 2
    BY <1>6, <1>9, <2>4, LoopAssumption
  <2>6. TooOften(test, run.calls)
    BY <1>4, <1>6, <1>9, <2>1, <2>2, <2>5 DEF TooOften
  <2>7. "repeats" \in Verdict
    BY <2>6 DEF Verdict, Failures
  <2>. QED
    BY <2>7
<1>10. CASE f.step # 0 /\ f.rule # "loop"
  <2>. DEFINE spec == trace.steps[f.step].call
  <2>1. test.forbid = {spec}
    BY <1>3, <1>10 DEF regression_test, Test
  <2>2. Forbids(spec, spec)
    BY <2>1 DEF Toothless
  <2>3. f.step \in DOMAIN run.calls /\ run.calls[f.step].call = spec
    BY <1>4, <1>6, <1>10
  <2>. HIDE DEF spec
  <2>4. \E s \in test.forbid, i \in DOMAIN run.calls : Forbids(s, run.calls[i].call)
    BY <2>1, <2>2, <2>3
  <2>5. "forbidden" \in Verdict
    BY <2>4 DEF Verdict, Failures
  <2>. QED
    BY <2>5
<1>. QED
  BY <1>8, <1>9, <1>10

(* A test accepts, or rejects, as its kind says, the run it was made from  *)
(* (generate, run_test): for sessions of every length and every judge.     *)
THEOREM RecordingIsDecided == CliSpec => []DecidesItsRecording
<1>1. TInv => DecidesItsRecording
  BY Accepted, Rejected DEF DecidesItsRecording
<1>. QED
  BY <1>1, TestgenInvariant, PTL

-----------------------------------------------------------------------------
(* What goes through the diagram of lifecycle.py.  The last entry that     *)
(* bears a status, and the one behind an entry that is not the last.       *)
LEMMA LastEntry ==
    ASSUME NEW log, Len(log) \in Nat, DOMAIN log = 1 .. Len(log), NEW a,
           NEW P \in SUBSET Positions(log, a, StatusKind), P # {}
    PROVE  Max(P) \in P /\ \A i \in P : i <= Max(P)
<1>1. P \in SUBSET (0 .. Len(log))
  BY DEF Positions
<1>2. Max(P) \in P /\ \A i \in P : Max(P) >= i
  BY <1>1, GreatestOf
<1>. QED
  BY <1>1, <1>2

StatusAt(log, i) == STATUS_BY_KIND[log[i].kind]

(* An entry that is not the last is followed by one along an edge. *)
LEMMA FollowedByEdge ==
    ASSUME NEW log, Len(log) \in Nat, DOMAIN log = 1 .. Len(log), NEW a, KeepsDiagram(log, a),
           NEW i \in Positions(log, a, StatusKind), i # Max(Positions(log, a, StatusKind))
    PROVE  \E j \in Positions(log, a, StatusKind) : j > i /\ <<StatusAt(log, i), StatusAt(log, j)>> \in StatusEdge
<1>. DEFINE P == Positions(log, a, StatusKind)
            After == {j \in P : j > i}
<1>1. P \subseteq 1 .. Len(log)
  BY DEF Positions
<1>2. Max(P) \in P /\ \A j \in P : j <= Max(P)
  BY LastEntry
<1>3. Max(P) \in After
  BY <1>1, <1>2
<1>4. After # {} /\ After \in SUBSET Nat
  BY <1>1, <1>3
<1>5. Min(After) \in After /\ \A j \in After : Min(After) <= j
  BY <1>4, LeastOf
<1>. DEFINE j == Min(After)
            Before == {h \in P : h < j}
<1>6. j \in P /\ j > i /\ i \in Before /\ \A h \in Before : h <= i
  <2>1. j \in P /\ j > i /\ i \in P
    BY <1>5
  <2>2. ASSUME NEW h \in Before PROVE h <= i
    <3>1. h \in Nat /\ h < j /\ h \in P /\ i \in Nat /\ j \in Nat
      BY <1>1, <2>1
    <3>2. ~(h > i)
      BY <1>5, <3>1
    <3>. QED
      BY <3>1, <3>2
  <2>. QED
    BY <2>1, <2>2
<1>7. Max(Before) = i
  <2>1. Before \in SUBSET Positions(log, a, StatusKind) /\ Before # {}
    BY <1>6
  <2>2. Max(Before) \in Before /\ \A h \in Before : h <= Max(Before)
    BY <2>1, LastEntry
  <2>3. Max(Before) <= i /\ i <= Max(Before) /\ i \in Nat /\ Max(Before) \in Nat
    BY <1>1, <1>6, <2>2
  <2>. QED
    BY <2>3
<1>8. StatusBefore(log, a, j) = StatusAt(log, i)
  BY <1>6, <1>7 DEF StatusBefore, StatusAt
<1>9. <<StatusBefore(log, a, j), StatusAt(log, j)>> \in StatusEdge
  BY <1>6 DEF KeepsDiagram, StatusAt
<1>. QED
  BY <1>6, <1>8, <1>9

(* Nothing follows an end of the diagram, and only an undo what failed.    *)
LEMMA EndIsLast ==
    ASSUME NEW log, Len(log) \in Nat, DOMAIN log = 1 .. Len(log), NEW a, KeepsDiagram(log, a),
           NEW i \in Positions(log, a, StatusKind)
    PROVE  /\ StatusAt(log, i) \in {"denied", "rejected", "discarded", "undone"} => StatusOf(log, a) = StatusAt(log, i)
           /\ StatusAt(log, i) \in {"failed", "committed"} =>
                 \/ StatusOf(log, a) = StatusAt(log, i)
                 \/ StatusOf(log, a) = "undone" /\ Has(log, a, "undone")
<1>. DEFINE P == Positions(log, a, StatusKind)
<1>1. P # {}
  OBVIOUS
<1>2. StatusOf(log, a) = StatusAt(log, Max(P))
  BY <1>1 DEF StatusOf, StatusAt
<1>. HIDE DEF P
<1>3. ASSUME NEW h \in P, StatusAt(log, h) \in {"denied", "rejected", "discarded", "undone"} PROVE h = Max(P)
  <2>. SUFFICES ASSUME h # Max(P) PROVE FALSE
    OBVIOUS
  <2>1. PICK j \in P : <<StatusAt(log, h), StatusAt(log, j)>> \in StatusEdge
    BY FollowedByEdge DEF P
  <2>. QED
    BY <1>3, <2>1 DEF StatusEdge
<1>4. ASSUME StatusAt(log, i) \in {"failed", "committed"}, i # Max(P)
      PROVE  StatusOf(log, a) = "undone" /\ Has(log, a, "undone")
  <2>1. PICK j \in P : <<StatusAt(log, i), StatusAt(log, j)>> \in StatusEdge
    BY <1>4, FollowedByEdge DEF P
  <2>2. StatusAt(log, j) = "undone"
    BY <1>4, <2>1 DEF StatusEdge
  <2>3. log[j].kind = "undone"
    <3>1. log[j].kind \in StatusKind
      BY DEF P, Positions
    <3>. QED
      BY <2>2, <3>1 DEF StatusAt, STATUS_BY_KIND, StatusKind
  <2>4. j \in Positions(log, a, {"undone"})
    BY <2>3 DEF P, Positions
  <2>. QED
    BY <1>2, <1>3, <2>2, <2>4 DEF Has
<1>. QED
  BY <1>2, <1>3, <1>4 DEF P

(* So what got into trouble is not a good step of the trace.               *)
LEMMA TroubleIsBad ==
    ASSUME TInv, phase = "generated", NEW a \in DOMAIN session.calls, Trouble(a)
    PROVE  StepStatus(session.log, a) \in BAD
<1>. DEFINE log == session.log
<1>1. Len(log) \in Nat /\ DOMAIN log = 1 .. Len(log) /\ KeepsDiagram(log, a)
  BY SessionsAssumption DEF TInv, Shape
<1>2. Trouble(a) <=> \/ \E k \in {"denied", "rejected", "discarded", "deviation"} : Has(log, a, k)
                     \/ Has(log, a, "failed") /\ ~Has(log, a, "undone")
                     \/ Has(log, a, "undone") /\ log[LastPos(log, a, "undone")].val # "session rollback"
  BY DEF Trouble
<1>. HIDE DEF log
<1>3. ASSUME NEW k \in {"denied", "rejected", "discarded", "failed", "undone"}, Has(log, a, k)
      PROVE  \E i \in Positions(log, a, StatusKind) : StatusAt(log, i) = k
  <2>1. PICK i \in Positions(log, a, {k}) : TRUE
    BY <1>3 DEF Has
  <2>2. i \in Positions(log, a, StatusKind) /\ log[i].kind = k
    BY DEF Positions, StatusKind
  <2>3. STATUS_BY_KIND[k] = k
    BY DEF STATUS_BY_KIND
  <2>. QED
    BY <2>2, <2>3 DEF StatusAt
<1>4. CASE \E k \in {"denied", "rejected", "discarded"} : Has(log, a, k)
  <2>1. StatusOf(log, a) \in {"denied", "rejected", "discarded"}
    BY <1>1, <1>3, <1>4, EndIsLast
  <2>. QED
    BY <2>1 DEF StepStatus, log, BAD, BLOCKED
<1>5. CASE Has(log, a, "failed") /\ ~Has(log, a, "undone")
  <2>1. PICK i \in Positions(log, a, StatusKind) : StatusAt(log, i) = "failed"
    BY <1>3, <1>5
  <2>2. StatusOf(log, a) = "failed"
    BY <1>1, <1>5, <2>1, EndIsLast
  <2>. QED
    BY <2>2 DEF StepStatus, log, BAD
<1>6. CASE Has(log, a, "undone") /\ log[LastPos(log, a, "undone")].val # "session rollback"
  <2>1. PICK i \in Positions(log, a, StatusKind) : StatusAt(log, i) = "undone"
    BY <1>3, <1>6
  <2>2. StatusOf(log, a) = "undone"
    BY <1>1, <2>1, EndIsLast
  <2>. QED
    BY <1>6, <2>2 DEF StepStatus, log, BAD, REVERSED
<1>7. CASE Has(log, a, "deviation")
  <2>1. PICK d \in Positions(log, a, {"deviation"}) : TRUE
    BY <1>7 DEF Has
  <2>2. StatusBefore(log, a, d) \in {"committed", "undone"}
    BY <1>1 DEF KeepsDiagram
  <2>. DEFINE Before == {j \in Positions(log, a, StatusKind) : j < d}
  <2>3. Before # {} /\ StatusBefore(log, a, d) = StatusAt(log, Max(Before))
    BY <2>2 DEF StatusBefore, StatusAt
  <2>4. Max(Before) \in Positions(log, a, StatusKind)
    BY <1>1, <2>3, LastEntry
  <2>5. StatusOf(log, a) \in {"committed", "undone"}
    BY <1>1, <2>2, <2>3, <2>4, EndIsLast
  <2>. QED
    BY <1>7, <2>5 DEF StepStatus, log, BAD, REVERSED
<1>. QED
  BY <1>2, <1>4, <1>5, <1>6, <1>7

(* Every call that was blocked, failed, was undone or deviated is          *)
(* forbidden by a test of the suite (from_ledger, HeuristicJudge,          *)
(* generate): for sessions of every length whose actions go through the    *)
(* diagram, whichever the judge.                                           *)
THEOREM EveryTroubleIsTested == CliSpec => []TroubleIsTested
<1>1. ASSUME TInv PROVE TroubleIsTested
  <2>. SUFFICES ASSUME phase = "generated", NEW a \in DOMAIN session.calls, Trouble(a)
                PROVE  \E t \in suite : session.calls[a] \in t.forbid
    BY DEF TroubleIsTested
  <2>1. session \in Sessions
    BY <1>1 DEF TInv, Shape
  <2>2. /\ a \in DOMAIN trace.steps /\ a \in Nat /\ a # 0
        /\ trace.steps[a].call = session.calls[a] /\ trace.steps[a].status = StepStatus(session.log, a)
    BY <2>1, TraceForm DEF trace
  <2>3. trace.steps[a].status \in BAD
    BY <1>1, <2>2, TroubleIsBad
  <2>. DEFINE f == Finding("ledger", a)
  <2>4. f \in Blamed(trace)
    BY <2>2, <2>3 DEF Blamed
  <2>5. f \in Heuristic(trace)
    BY <2>4 DEF Heuristic
  <2>6. \A kind : Judgements(kind, trace) = {Heuristic(trace)}
    BY <2>5 DEF Judgements
  <2>7. suite = generate(trace, Heuristic(trace))
    BY <1>1, <2>6 DEF TInv, Shape
  <2>8. regression_test(trace, f) \in suite
    BY <2>5, <2>7 DEF generate
  <2>9. f.step = a /\ f.rule = "ledger"
    BY DEF Finding
  <2>10. regression_test(trace, f).forbid = {trace.steps[a].call}
    BY <2>2, <2>9 DEF regression_test, Test
  <2>. QED
    BY <2>2, <2>8, <2>10
<1>. QED
  BY <1>1, TestgenInvariant, PTL
=============================================================================
