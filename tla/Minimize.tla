------------------------------ MODULE Minimize ------------------------------
(***************************************************************************)
(* Shrinking what fails (testgen/minimize.py): ddmin on the entries of a   *)
(* cassette, and the search for the shortest failing prefix of a trace.    *)
(* Every action but one is one run of the agent, or one question to the    *)
(* judge.                                                                  *)
(*                                                                         *)
(* A sub-list keeps its order, so a set of positions stands for it, and    *)
(* the prefix of length k is 1 .. k.  fails are the sub-lists with which   *)
(* the failure shows: any set of them, since nothing is known of the agent *)
(* or the judge but that they answer the same way twice.                   *)
(***************************************************************************)
EXTENDS Integers, FiniteSets

CONSTANT Size       \* entries of the cassette, or steps of the trace

ASSUME SizeAssumption == Size \in Nat

VARIABLES
    task,       \* "test": minimize_test; "trace": minimize_trace
    fails,
    pc,         \* what is asked next; "done", or "passes" if there is nothing to shrink
    items,      \* ddmin: what is left
    n,          \* ddmin: how many chunks it is divided into
    chunk,      \* ddmin: the chunk in hand
    lo, hi      \* bisection: the length sought is between them

shrinking == <<task, fails, pc, items, n, chunk, lo, hi>>

Prefix(k) == 1 .. k

ShrinkInit ==
    /\ \/ task = "test" /\ fails \in SUBSET SUBSET Prefix(Size)
       \/ task = "trace" /\ fails \in SUBSET {Prefix(k) : k \in 0 .. Size}
    /\ pc = "whole"
    /\ items = Prefix(Size) /\ n = 2 /\ chunk = 1
    /\ lo = 0 /\ hi = Size

(* The first run, of everything. *)
TryWhole ==
    /\ pc = "whole"
    /\ pc' = IF Prefix(Size) \notin fails THEN "passes"
             ELSE IF task = "test" THEN "empty" ELSE "middle"
    /\ UNCHANGED <<task, fails, items, n, chunk, lo, hi>>

-----------------------------------------------------------------------------
(* ddmin.  Chunks of equal size, the last one perhaps shorter.             *)
ChunkSize == (Cardinality(items) + n - 1) \div n
Rank(x)   == Cardinality({y \in items : y <= x})
Chunk(k)  == {x \in items : (k - 1) * ChunkSize < Rank(x) /\ Rank(x) <= k * ChunkSize}
Rest(k)   == items \ Chunk(k)
LastChunk == chunk * ChunkSize >= Cardinality(items)

(* Go on with fewer items, or be done when there is at most one. *)
Continue(left, parts) ==
    /\ items' = left /\ n' = parts /\ chunk' = 1
    /\ pc' = IF Cardinality(left) >= 2 THEN "chunk" ELSE "done"

TryEmpty ==
    /\ pc = "empty"
    /\ IF {} \in fails THEN Continue({}, n) ELSE Continue(items, n)
    /\ UNCHANGED <<task, fails, lo, hi>>

(* Faulty variant: no division into single items.                          *)
GiveUp ==
    IF ~LastChunk THEN chunk' = chunk + 1 /\ pc' = "chunk" /\ UNCHANGED <<items, n>>
    ELSE IF 2 * n >= Cardinality(items) THEN pc' = "done" /\ UNCHANGED <<items, n, chunk>>
    ELSE Continue(items, 2 * n)

(* No luck with a chunk: the next one, or smaller chunks, or the end.      *)
GoOn ==
    IF ~LastChunk THEN chunk' = chunk + 1 /\ pc' = "chunk" /\ UNCHANGED <<items, n>>
    ELSE IF n >= Cardinality(items) THEN pc' = "done" /\ UNCHANGED <<items, n, chunk>>
    ELSE Continue(items, IF 2 * n <= Cardinality(items) THEN 2 * n ELSE Cardinality(items))

TryChunk ==
    /\ pc = "chunk"
    /\ IF Chunk(chunk) \in fails THEN Continue(Chunk(chunk), 2)
       ELSE IF n > 2 THEN pc' = "rest" /\ UNCHANGED <<items, n, chunk>>
       ELSE GoOn
    /\ UNCHANGED <<task, fails, lo, hi>>

TryRest ==
    /\ pc = "rest"
    /\ IF Rest(chunk) \in fails THEN Continue(Rest(chunk), IF n - 1 >= 2 THEN n - 1 ELSE 2) ELSE GoOn
    /\ UNCHANGED <<task, fails, lo, hi>>

-----------------------------------------------------------------------------
(* minimize_trace. *)
Middle == (lo + hi) \div 2

(* Faulty variant: the search stands still when lo and hi are neighbours.  *)
TryMiddleAgain ==
    /\ pc = "middle" /\ lo < hi
    /\ IF Prefix(Middle) \in fails THEN hi' = Middle /\ UNCHANGED lo
                                   ELSE lo' = Middle /\ UNCHANGED hi
    /\ UNCHANGED <<task, fails, pc, items, n, chunk>>

TryMiddle ==
    /\ pc = "middle" /\ lo < hi
    /\ IF Prefix(Middle) \in fails THEN hi' = Middle /\ UNCHANGED lo
                                   ELSE lo' = Middle + 1 /\ UNCHANGED hi
    /\ UNCHANGED <<task, fails, pc, items, n, chunk>>

Found ==
    /\ pc = "middle" /\ lo >= hi
    /\ pc' = "done"
    /\ UNCHANGED <<task, fails, items, n, chunk, lo, hi>>

ShrinkNext == TryWhole \/ TryEmpty \/ TryChunk \/ TryRest \/ TryMiddle \/ Found

ShrinkSpec == ShrinkInit /\ [][ShrinkNext]_shrinking

-----------------------------------------------------------------------------
Result == IF task = "test" THEN items ELSE Prefix(hi)

(* What minimising returns still fails: "a minimised test must fail for    *)
(* the same reasons" (minimize.py:37), "prefix of length hi fails" (:102). *)
StillFails == pc = "done" => Result \in fails

(* "It keeps shrinking until removing any single remaining entry makes the *)
(* failure disappear" (minimize.py:11), for every agent.                   *)
OneMinimal == pc = "done" /\ task = "test" => \A x \in items : items \ {x} \notin fails

(* "The shortest prefix of a trace that the judge still flags" (SPEC.md    *)
(* 12.5): of a judge that flags every longer prefix once it flags one.     *)
Monotone == \A j, k \in 0 .. Size : j <= k /\ Prefix(j) \in fails => Prefix(k) \in fails
ShortestPrefix ==
    pc = "done" /\ task = "trace" /\ Monotone => \A k \in 0 .. hi - 1 : Prefix(k) \notin fails

(* What minimising promises of its result, in both of its forms.           *)
Minimized == StillFails /\ OneMinimal /\ ShortestPrefix

(* Minimising ends, if each run of the agent does.                         *)
MinimizeEnds == <>(pc \in {"done", "passes"})
=============================================================================
