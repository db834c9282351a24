---------------------------- MODULE MCLedgerStore -----------------------------
(* Instances of LedgerStore: an agent with two threads and an operator. *)
EXTENDS LedgerStoreProperties

CONSTANTS gateway, console,     \* processes
          t1, t2, c1            \* threads

Homes == [t \in Thread |-> IF t = c1 THEN console ELSE gateway]
Faults == [e \in Event |-> 1]
=============================================================================
