---------------------------- MODULE AppendOnlyLog ----------------------------
(***************************************************************************)
(* What the ledger's stores promise to the gateway: entries are added one  *)
(* at a time, at the end, and an entry whose append has returned stays     *)
(* where it is.  A store may break; then it answers nobody, and the log    *)
(* keeps every entry that had been confirmed in it.                        *)
(***************************************************************************)
EXTENDS SequencesExt

CONSTANT Payload    \* what is recorded; each at most once

VARIABLES
    log,        \* the payloads on record, in order
    confirmed,  \* the payloads whose append has returned
    broken      \* does reading the store raise

vars == <<log, confirmed, broken>>

Init ==
    /\ log = <<>>
    /\ confirmed = {}
    /\ broken = FALSE

Persist(v) ==
    /\ ~broken
    /\ v \notin ToSet(log)
    /\ log' = Append(log, v)
    /\ UNCHANGED <<confirmed, broken>>

(* Its caller learns that v is on record.  The append that breaks the      *)
(* store does not notice it.                                               *)
Confirm(v) ==
    /\ v \in ToSet(log) \/ broken
    /\ confirmed' = confirmed \cup {v}
    /\ UNCHANGED <<log, broken>>

(* A crash or a write cut short: the end of the log may be lost, as far as *)
(* nobody was told of it, and the store may be broken or mended.           *)
Lose ==
    /\ broken' \in BOOLEAN
    /\ \E n \in 0..Len(log) :
          /\ log' = SubSeq(log, 1, n)
          /\ \A i \in n+1..Len(log) : log[i] \notin confirmed
    /\ UNCHANGED confirmed

Next == (\E v \in Payload : Persist(v) \/ Confirm(v)) \/ Lose

Spec == Init /\ [][Next]_vars
=============================================================================
