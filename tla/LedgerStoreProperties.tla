------------------------ MODULE LedgerStoreProperties -------------------------
(***************************************************************************)
(* What the ledger on disk guarantees, and the log it implements.          *)
(***************************************************************************)
EXTENDS LedgerStore

(* Types of the variables. *)
TypeOK ==
    /\ backend \in Backends
    /\ disk \in Seq(Entry \cup {Garbage})
    /\ ended \in BOOLEAN
    /\ synced \in 0..Len(disk)
    /\ lock \in [Process -> Thread \cup {None}]
    /\ writer \in Thread \cup {None}
    /\ thread \in [Thread -> ThreadType]
    /\ used \subseteq Payload
    /\ returned \subseteq used
    /\ budget \in [Event -> Nat]

(* The entries of a file: its lines without a last one that cannot be      *)
(* parsed.  No other line can be such (DamageIsLast).                      *)
Clean(d) == IF d # <<>> /\ Last(d) = Garbage THEN Front(d) ELSE d

Payloads(d) == [i \in DOMAIN d |-> d[i].val]

(* Whatever the threads, processes and crashes do, the entries that can be *)
(* read form one chain: consecutive seq, each linked to the hash before    *)
(* it, intact and signed (ledger.py append and verify_chain).              *)
ChainNeverForks == VerifyChain(Clean(disk))

(* A transaction leaves no trace until it is done, so a SQLite ledger is   *)
(* never unreadable; in a JSONL file only the last line can be, and from   *)
(* then on nothing is appended behind it (store.py _read raises).          *)
DamageIsLast ==
    \A i \in DOMAIN disk : disk[i] = Garbage => backend = "jsonl" /\ i = Len(disk)

(* An entry whose append returned is never silently lost: it can be read,  *)
(* or reading the ledger raises (store.py append, fsync, synchronous=FULL). *)
NoSilentLoss ==
    \A v \in returned : v \in ToSet(Payloads(Clean(disk))) \/ ~Readable(disk)

(* What a reader was given stays in the ledger while its host is up: no    *)
(* row of a transaction that was rolled back, no line that is overwritten  *)
(* (store.py entries under the lock).  A file that has become unreadable   *)
(* takes back at most the one entry that lacked its newline.               *)
ReadsStay ==
    \A t \in Thread :
       LET a == thread[t].answer IN
       \/ IsPrefix(a, disk)
       \/ ~Readable(disk) /\ IsPrefix(Front(a), Clean(disk)) /\ a[Len(a)].val \notin returned

(* Changing the content of an entry, also with its hash made to fit,       *)
(* dropping an entry other than the last, or exchanging two of them is     *)
(* noticed by verify_chain (ledger.py: "editing, deleting or reordering    *)
(* anything breaks the chain from that point on").                         *)
TamperingShows ==
    Readable(disk) =>
       \A i \in DOMAIN disk :
          LET e == disk[i] IN
          /\ \A v \in Payload \ {e.val} :
                /\ ~VerifyChain([disk EXCEPT ![i].val = v])
                /\ ~VerifyChain([disk EXCEPT ![i].val = v, ![i].hash = Hash(e.prev, e.seq, v)])
          /\ i < Len(disk) => ~VerifyChain(RemoveAt(disk, i))
          /\ \A j \in DOMAIN disk \ {i} :
                ~VerifyChain([disk EXCEPT ![i] = disk[j], ![j] = e])

(* Somebody is in the middle of writing the last line. *)
BeingWritten == \E t \in Thread : At(t, "finish")

Log == INSTANCE AppendOnlyLog WITH log <- Payloads(Clean(disk)), confirmed <- returned,
                                   broken <- ~Readable(disk) /\ ~BeingWritten

(* The file, the locks and the transactions implement the atomic log that  *)
(* the gateway is modelled with.                                           *)
ImplementsLog == Log!Spec

(* Both locks come back, whatever fails: the lock of the process at the    *)
(* end of the with block, SQLite's write lock at COMMIT or ROLLBACK        *)
(* (store.py:71-90).  The one exception is an interrupt between BEGIN      *)
(* IMMEDIATE and the try block (store.py:78-79): that transaction stays    *)
(* open, and nobody appends again, until the process ends.                 *)
LocksComeBack ==
    \A t \in Thread :
       /\ lock[Home[t]] = t ~> lock[Home[t]] # t
       /\ writer = t ~> writer # t \/ budget["interrupt"] < Budget["interrupt"]
=============================================================================
