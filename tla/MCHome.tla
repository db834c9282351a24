------------------------------- MODULE MCHome --------------------------------
(* Instances of Home: two processes, whose calls have the same snapshot.   *)
EXTENDS Home, TLC

Refs  == [proposed |-> None, prepared |-> "snap", committed |-> None, undone |-> None]
Alike == Permutations(Process)
=============================================================================
