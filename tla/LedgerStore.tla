----------------------------- MODULE LedgerStore ------------------------------
(***************************************************************************)
(* The ledger on disk: ledger.py on SQLiteStore or JsonlStore (store.py).  *)
(* Threads of several processes append to one file and read it.  A process *)
(* has one connection and one lock for its threads; SQLite's write lock    *)
(* orders the processes, JSONL allows one process to write.                *)
(*                                                                         *)
(* The file is a sequence of lines (rows).  A JSONL line is written in two *)
(* steps; a write that is cut short, by an error or by a crash, leaves a   *)
(* line that cannot be parsed, or one that lacks only its newline, and the *)
(* next line is then written behind it.  SQLite (WAL, synchronous=FULL)    *)
(* makes a transaction visible and durable in one step.                    *)
(*                                                                         *)
(* A hash is what it commits to, so it is injective; a signature is the    *)
(* hash it signs, which only the key's holder can make.                    *)
(***************************************************************************)
EXTENDS SequencesExt

CONSTANTS
    Process,    \* processes with the store open
    Thread,     \* their threads
    Home,       \* the process of each thread
    Owner,      \* the process that writes when the store is JSONL
    Backends,   \* the backends considered
    Payload,    \* contents of entries; each is appended at most once
    None,       \* Python's None
    Garbage,    \* a line that json.loads refuses
    Budget      \* how many reads, faults, interrupts and crashes may occur

Event == {"read", "fault", "interrupt", "crash", "power"}

VARIABLES
    backend,    \* the store's class
    disk,       \* the lines of the file (the rows of the table)
    ended,      \* does the file end in a newline
    synced,     \* how many lines are on stable storage
    lock,       \* the store's RLock in each process: the thread that holds it
    writer,     \* the thread whose transaction is open: it has SQLite's write lock
    thread,     \* the method each thread is in, with its local variables
    used,       \* payloads handed to append
    returned,   \* payloads whose append has returned
    budget

vars == <<backend, disk, ended, synced, lock, writer, thread, used, returned, budget>>
file == <<disk, ended, synced>>

-----------------------------------------------------------------------------
(* Entries *)

GENESIS == <<>>
Hash(prev, seq, val) == Append(prev, <<seq, val>>)

HashType == Seq(Nat \X Payload)
Entry == [seq : Nat, val : Payload, prev : HashType, hash : HashType, sig : HashType]

ASSUME StoreAssumption ==
    /\ Home \in [Thread -> Process]
    /\ Owner \in Process
    /\ Backends \subseteq {"sqlite", "jsonl"}
    /\ Budget \in [Event -> Nat]
    /\ None \notin Thread \cup Payload
    /\ Garbage \notin Entry

LastHash(d) == IF d = <<>> THEN GENESIS ELSE d[Len(d)].hash

(* build(last) of Ledger.append: the entry after last, hashed and signed. *)
Built(d, v) ==
    LET seq == IF d = <<>> THEN 1 ELSE d[Len(d)].seq + 1
        h   == Hash(LastHash(d), seq, v)
    IN  [seq |-> seq, val |-> v, prev |-> LastHash(d), hash |-> h, sig |-> h]

(* Faulty variant of check_entry: the hash is not computed again. *)
OnlySigned(e) == e.sig = e.hash

(* check_entry. *)
Intact(e) == e.hash = Hash(e.prev, e.seq, e.val) /\ e.sig = e.hash

(* verify_chain finds no problem in the lines d. *)
VerifyChain(d) ==
    \A i \in DOMAIN d :
       /\ d[i].seq = i
       /\ d[i].prev = IF i = 1 THEN GENESIS ELSE d[i-1].hash
       /\ Intact(d[i])

(* JsonlStore._read gets through: every line is an entry. *)
Readable(d) == \A i \in DOMAIN d : d[i] # Garbage

-----------------------------------------------------------------------------
(* Threads.  line is the entry being written, then the line it makes;      *)
(* answer what the last read returned.                                     *)

Label == {"idle", "lock", "begin", "build", "insert", "commit", "rollback",
          "write", "finish", "fsync", "return", "fetch"}
ThreadType == [pc : Label, val : Payload \cup {None}, line : Entry \cup {None, Garbage},
               answer : Seq(Entry)]
IdleThread(answer) == [pc |-> "idle", val |-> None, line |-> None, answer |-> answer]

At(t, label) == thread[t].pc = label
Become(t, r) == thread' = [thread EXCEPT ![t] = r]
Goto(t, label) == Become(t, [thread[t] EXCEPT !.pc = label])

(* Leave the "with self._lock" block, and the method. *)
Leave(t, answer) ==
    /\ Become(t, IdleThread(answer))
    /\ lock' = [lock EXCEPT ![Home[t]] = None]
Raise(t) == Leave(t, <<>>)

Spend(e) == budget[e] > 0 /\ budget' = [budget EXCEPT ![e] = @ - 1]
Fault == Spend("fault")

Init ==
    /\ backend \in Backends
    /\ disk = <<>> /\ ended = TRUE /\ synced = 0
    /\ lock = [p \in Process |-> None]
    /\ writer = None
    /\ thread = [t \in Thread |-> IdleThread(<<>>)]
    /\ used = {} /\ returned = {}
    /\ budget = Budget

-----------------------------------------------------------------------------
(* append *)

(* Ledger.append is called; JSONL has a single writer. *)
CallAppend(t, v) ==
    /\ At(t, "idle")
    /\ v \notin used
    /\ backend = "jsonl" => Home[t] = Owner
    /\ used' = used \cup {v}
    /\ Become(t, [IdleThread(<<>>) EXCEPT !.pc = "lock", !.val = v])
    /\ UNCHANGED <<backend, file, lock, writer, returned, budget>>

(* A read fetches at once; SQLite begins a transaction before it builds. *)
AfterLock(t) ==
    IF thread[t].val = None THEN "fetch"
    ELSE IF backend = "sqlite" THEN "begin" ELSE "build"

(* Faulty variant: no lock in the process. *)
SkipLock(t) ==
    /\ At(t, "lock")
    /\ Goto(t, AfterLock(t))
    /\ UNCHANGED <<backend, file, lock, writer, used, returned, budget>>

(* with self._lock, of append and of entries. *)
TakeLock(t) ==
    /\ At(t, "lock")
    /\ lock[Home[t]] = None
    /\ lock' = [lock EXCEPT ![Home[t]] = t]
    /\ Goto(t, AfterLock(t))
    /\ UNCHANGED <<backend, file, writer, used, returned, budget>>

(* Faulty variant: BEGIN, which takes no write lock. *)
BeginDeferred(t) ==
    /\ At(t, "begin")
    /\ Goto(t, "build")
    /\ UNCHANGED <<backend, file, lock, writer, used, returned, budget>>

(* BEGIN IMMEDIATE; an interrupt that arrives before the try block that    *)
(* follows it leaves the transaction open for as long as the process lives. *)
BeginImmediate(t) ==
    /\ At(t, "begin")
    /\ writer = None
    /\ writer' = t
    /\ \/ Goto(t, "build") /\ UNCHANGED <<lock, budget>>
       \/ Raise(t) /\ Spend("interrupt")
    /\ UNCHANGED <<backend, file, used, returned>>

(* 30 seconds without the write lock: "database is locked"; or at once, if *)
(* this connection has a transaction open that was left behind.            *)
BusyTimeout(t) ==
    /\ At(t, "begin")
    /\ writer # None
    /\ Raise(t)
    /\ UNCHANGED <<backend, file, writer, used, returned, budget>>

(* Faulty variant: a line that cannot be parsed is passed over. *)
BuildOnReadable(t) ==
    /\ At(t, "build")
    /\ Become(t, [thread[t] EXCEPT
          !.line = Built(SelectSeq(disk, LAMBDA l : l # Garbage), thread[t].val),
          !.pc = IF backend = "sqlite" THEN "insert" ELSE "write"])
    /\ UNCHANGED <<backend, file, lock, writer, used, returned, budget>>

(* The last entry is read and the next one built from it; JSONL reads the  *)
(* whole file for that, and raises LedgerCorrupt at a line it cannot parse. *)
Build(t) ==
    /\ At(t, "build")
    /\ IF Readable(disk)
       THEN /\ Become(t, [thread[t] EXCEPT
                 !.line = Built(disk, thread[t].val),
                 !.pc = IF backend = "sqlite" THEN "insert" ELSE "write"])
            /\ UNCHANGED lock
       ELSE Raise(t)
    /\ UNCHANGED <<backend, file, writer, used, returned, budget>>

(* INSERT: seq is the primary key and hash is unique. *)
Insert(t) ==
    /\ At(t, "insert")
    /\ LET clash == \E i \in DOMAIN disk : \/ disk[i].seq = thread[t].line.seq
                                           \/ disk[i].hash = thread[t].line.hash
       IN  \/ ~clash /\ Goto(t, "commit") /\ UNCHANGED budget
           \/ clash  /\ Goto(t, "rollback") /\ UNCHANGED budget
           \/ Goto(t, "rollback") /\ Fault
    /\ UNCHANGED <<backend, file, lock, writer, used, returned>>

(* Faulty variant: a COMMIT that fails is not noticed. *)
CommitUnchecked(t) ==
    /\ At(t, "commit")
    /\ \/ disk' = Append(disk, thread[t].line) /\ synced' = Len(disk') /\ UNCHANGED budget
       \/ Fault /\ UNCHANGED <<disk, synced>>
    /\ writer' = None
    /\ Goto(t, "return")
    /\ UNCHANGED <<backend, ended, lock, used, returned>>

(* COMMIT: it is done; or it is done and the thread is interrupted before  *)
(* it leaves the try block; or it fails.                                   *)
Commit(t) ==
    /\ At(t, "commit")
    /\ \/ /\ disk' = Append(disk, thread[t].line)
          /\ synced' = Len(disk')
          /\ writer' = None
          /\ \/ Goto(t, "return") /\ UNCHANGED budget
             \/ Goto(t, "rollback") /\ Fault
       \/ Goto(t, "rollback") /\ Fault /\ UNCHANGED <<disk, synced, writer>>
    /\ UNCHANGED <<backend, ended, lock, used, returned>>

(* Faulty variant: the exception passes and the transaction stays open. *)
RollbackForgotten(t) ==
    /\ At(t, "rollback")
    /\ Raise(t)
    /\ UNCHANGED <<backend, file, writer, used, returned, budget>>

(* ROLLBACK, which itself raises when the transaction is over; raise.  (A  *)
(* second exception, before ROLLBACK has run, is left out.)                *)
Rollback(t) ==
    /\ At(t, "rollback")
    /\ writer' = IF writer = t THEN None ELSE writer
    /\ Raise(t)
    /\ UNCHANGED <<backend, file, used, returned, budget>>

(* The first bytes of a line reach the file: part of it, or all but the    *)
(* newline.  If the file does not end in a newline the line is written     *)
(* behind the last one, and together they are no entry.                    *)
WriteSome(t) ==
    /\ At(t, "write")
    /\ LET line == IF ended THEN thread[t].line ELSE Garbage
           before == IF ended THEN disk ELSE Front(disk)
       IN  /\ \E l \in {Garbage, line} : disk' = Append(before, l)
           /\ ended' = FALSE
           /\ \/ Become(t, [thread[t] EXCEPT !.pc = "finish", !.line = line]) /\ UNCHANGED <<lock, budget>>
              \/ Raise(t) /\ Fault
    /\ UNCHANGED <<backend, synced, writer, used, returned>>

(* The rest of it: fh.flush() has written the line. *)
WriteRest(t) ==
    /\ At(t, "finish")
    /\ disk' = Append(Front(disk), thread[t].line)
    /\ ended' = TRUE
    /\ Goto(t, "fsync")
    /\ UNCHANGED <<backend, synced, lock, writer, used, returned, budget>>

(* Faulty variant: the file is flushed but not synced. *)
SkipFsync(t) ==
    /\ At(t, "fsync")
    /\ Goto(t, "return")
    /\ UNCHANGED <<backend, file, lock, writer, used, returned, budget>>

Fsync(t) ==
    /\ At(t, "fsync")
    /\ \/ /\ synced' = Len(disk)
          /\ Goto(t, "return")
          /\ UNCHANGED <<lock, budget>>
       \/ Raise(t) /\ Fault /\ UNCHANGED synced
    /\ UNCHANGED <<backend, disk, ended, writer, used, returned>>

(* append returns the entry. *)
Return(t) ==
    /\ At(t, "return")
    /\ returned' = returned \cup {thread[t].val}
    /\ Leave(t, <<>>)
    /\ UNCHANGED <<backend, file, writer, used, budget>>

-----------------------------------------------------------------------------
(* entries, last *)

CallEntries(t) ==
    /\ At(t, "idle")
    /\ Spend("read")
    /\ Become(t, [IdleThread(<<>>) EXCEPT !.pc = "lock"])
    /\ UNCHANGED <<backend, file, lock, writer, used, returned>>

(* The rows a connection sees: those of its own open transaction, too. *)
Visible(p) ==
    LET open == {t \in Thread : Home[t] = p /\ At(t, "commit")}
    IN  IF open = {} THEN disk ELSE Append(disk, thread[CHOOSE t \in open : TRUE].line)

Fetch(t) ==
    /\ At(t, "fetch")
    /\ LET rows == Visible(Home[t]) IN
       IF Readable(rows) THEN Leave(t, rows) ELSE Raise(t)
    /\ UNCHANGED <<backend, file, writer, used, returned, budget>>

-----------------------------------------------------------------------------
(* Crashes *)

(* A process ends; what it has written to the file stays, a transaction of *)
(* its own does not.                                                       *)
ProcessCrash(p) ==
    /\ Spend("crash")
    /\ thread' = [t \in Thread |-> IF Home[t] = p THEN IdleThread(<<>>) ELSE thread[t]]
    /\ lock' = [lock EXCEPT ![p] = None]
    /\ writer' = IF writer # None /\ Home[writer] = p THEN None ELSE writer
    /\ UNCHANGED <<backend, file, used, returned>>

(* The host loses power: lines that were not synced are lost, all or some, *)
(* or the last one that is left is cut short.  (Bytes written behind a     *)
(* line that was synced without its newline are taken to stay.)            *)
PowerLoss ==
    /\ Spend("power")
    /\ \/ UNCHANGED <<disk, ended>>
       \/ \E n \in synced..Len(disk)-1 : disk' = SubSeq(disk, 1, n) /\ ended' = TRUE
       \/ \E n \in synced+1..Len(disk) :
             /\ \E l \in {Garbage, disk[n]} : disk' = Append(SubSeq(disk, 1, n-1), l)
             /\ ended' = FALSE
    /\ synced' = Len(disk')
    /\ thread' = [t \in Thread |-> IdleThread(<<>>)]
    /\ lock' = [p \in Process |-> None]
    /\ writer' = None
    /\ UNCHANGED <<backend, used, returned>>

-----------------------------------------------------------------------------
Step(t) ==
    \/ TakeLock(t) \/ BeginImmediate(t) \/ BusyTimeout(t) \/ Build(t) \/ Insert(t)
    \/ Commit(t) \/ Rollback(t) \/ WriteSome(t) \/ WriteRest(t) \/ Fsync(t)
    \/ Return(t) \/ Fetch(t)

Next ==
    \/ \E t \in Thread : Step(t) \/ CallEntries(t) \/ \E v \in Payload : CallAppend(t, v)
    \/ \E p \in Process : ProcessCrash(p)
    \/ PowerLoss

Spec == Init /\ [][Next]_vars

(* A thread in the middle of a method is scheduled again. *)
FairSpec == Spec /\ \A t \in Thread : WF_vars(Step(t))
=============================================================================
