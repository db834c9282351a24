------------------------------- MODULE Email --------------------------------
(***************************************************************************)
(* The hooks of the email adapter (adapters/email.py): what was sent.      *)
(* Nothing takes a message back, and there is no snapshot.                 *)
(***************************************************************************)
EXTENDS Sequences

CONSTANT None    \* no snapshot

(* Every message has an id of its own (_message), so one is never another. *)
Run(c, mail)              == [ok |-> TRUE, w |-> [sent |-> Append(mail.sent, c.to)], result |-> TRUE]
risk(c, mail)             == "irreversible"
Simulate(c, mail)         == [sent |-> TRUE]
Observe(c, result, mail)  == [sent |-> result]
CanSnapshot(c, mail)      == TRUE
Snapshot(c, mail)         == None
reversible(c)             == FALSE
=============================================================================
