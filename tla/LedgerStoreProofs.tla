-------------------------- MODULE LedgerStoreProofs ---------------------------
(***************************************************************************)
(* The ledger on disk, whatever the threads, the processes and the crashes *)
(* do: its chain never forks; what append and entries told somebody stays  *)
(* or the file is loudly damaged (KeptInv); tampering shows; and the file  *)
(* implements the append-only log (StoreIsLog).                            *)
(*                                                                         *)
(* The invariant that holds the chain together: a thread past the lock     *)
(* holds it; a SQLite thread that has built its entry has the write lock,  *)
(* and a JSONL thread is the owner's; so between the reading of the last   *)
(* entry and the writing of the next one nobody else touches the file, and *)
(* the entry in hand is the one that follows what is on disk.              *)
(***************************************************************************)
EXTENDS LedgerStoreProperties, TLAPS

Line == Entry \cup {Garbage}

(* Which locks a thread holds, and what it may be doing. *)
Holding(t) ==
    LET pc == thread[t].pc IN
    /\ pc \notin {"idle", "lock"} => lock[Home[t]] = t
    /\ pc \in {"begin", "insert", "commit", "rollback"} => backend = "sqlite"
    /\ pc \in {"write", "finish", "fsync"} => backend = "jsonl"
    /\ backend = "sqlite" /\ pc \in {"build", "insert", "commit"} => writer = t
    /\ backend = "jsonl" /\ pc \in {"build", "write", "finish", "fsync", "return"}
          => Home[t] = Owner
    /\ pc \notin {"idle", "lock", "fetch"} => thread[t].val \in Payload
    /\ pc = "lock" => thread[t].val \in used \cup {None}
    /\ pc = "lock" /\ backend = "jsonl" /\ thread[t].val # None => Home[t] = Owner
    /\ thread[t].val \in used \cup {None}

(* The line in hand follows what is on disk. *)
InHand(t) ==
    LET pc == thread[t].pc
        before == Front(disk)
    IN
    /\ pc \in {"insert", "commit", "write"} =>
          Readable(disk) /\ thread[t].line = Built(disk, thread[t].val)
    /\ pc = "finish" =>
          /\ disk # <<>>
          /\ Readable(before)
          /\ Last(disk) \in {Garbage, thread[t].line}
          /\ thread[t].line \in {Garbage, Built(before, thread[t].val)}

ChainInv ==
    /\ TypeOK
    /\ DamageIsLast
    /\ ChainNeverForks
    /\ backend = "sqlite" => ended /\ synced = Len(disk)
    /\ \A t \in Thread : Holding(t) /\ InHand(t)

-----------------------------------------------------------------------------
(* Chains *)

(* The entry that build() makes is an entry. *)
LEMMA BuiltType ==
    ASSUME NEW d \in Seq(Entry), NEW v \in Payload
    PROVE  Built(d, v) \in Entry
<1>. DEFINE last == d[Len(d)]
<1>1. d # <<>> => last \in Entry
  OBVIOUS
<1>2. LastHash(d) \in HashType
  BY <1>1 DEF LastHash, GENESIS, HashType, Entry
<1>. DEFINE seq == IF d = <<>> THEN 1 ELSE last.seq + 1
<1>3. seq \in Nat
  BY <1>1 DEF Entry
<1>4. Hash(LastHash(d), seq, v) \in HashType
  BY <1>2, <1>3 DEF Hash, HashType
<1>. QED
  BY <1>2, <1>3, <1>4 DEF Built, Entry

(* Appending it to a chain gives a chain. *)
LEMMA BuiltExtends ==
    ASSUME NEW d \in Seq(Entry), NEW v \in Payload, VerifyChain(d)
    PROVE  VerifyChain(Append(d, Built(d, v)))
<1>. DEFINE e == Built(d, v)  c == Append(d, e)
<1>1. e \in Entry
  BY BuiltType
<1>2. c \in Seq(Entry) /\ Len(c) = Len(d) + 1 /\ c[Len(c)] = e
      /\ \A i \in 1..Len(d) : c[i] = d[i]
  BY <1>1
<1>3. d # <<>> => Len(d) \in DOMAIN d /\ d[Len(d)].seq = Len(d)
  BY DEF VerifyChain
<1>4. /\ e.seq = Len(d) + 1
      /\ e.prev = IF d = <<>> THEN GENESIS ELSE d[Len(d)].hash
      /\ Intact(e)
  BY <1>3 DEF Built, Intact, LastHash
<1>. SUFFICES ASSUME NEW i \in DOMAIN c
              PROVE  /\ c[i].seq = i
                     /\ c[i].prev = IF i = 1 THEN GENESIS ELSE c[i-1].hash
                     /\ Intact(c[i])
  BY DEF VerifyChain
<1>5. CASE i \in 1..Len(d)
  <2>1. c[i] = d[i] /\ (i # 1 => c[i-1] = d[i-1])
    BY <1>2, <1>5
  <2>. QED
    BY <1>5, <2>1 DEF VerifyChain
<1>6. CASE i = Len(d) + 1
  <2>1. c[i] = e /\ (i # 1 => c[i-1] = d[Len(d)]) /\ (i = 1 <=> d = <<>>)
    BY <1>2, <1>6
  <2>. QED
    BY <1>4, <1>6, <2>1
<1>. QED
  BY <1>2, <1>5, <1>6

(* Prefixes, and what is in front of the last line. *)
LEMMA PrefixFacts ==
    ASSUME NEW S, NEW d \in Seq(S), NEW n \in 0..Len(d)
    PROVE  /\ SubSeq(d, 1, n) \in Seq(S) /\ Len(SubSeq(d, 1, n)) = n
           /\ \A i \in 1..n : SubSeq(d, 1, n)[i] = d[i]
OBVIOUS

(* The same of what is in front of the last line. *)
LEMMA FrontFacts ==
    ASSUME NEW S, NEW d \in Seq(S), d # <<>>
    PROVE  /\ Len(d) - 1 \in 0..Len(d) /\ Front(d) = SubSeq(d, 1, Len(d) - 1)
           /\ Front(d) \in Seq(S) /\ Len(Front(d)) = Len(d) - 1
           /\ \A i \in 1..Len(d)-1 : Front(d)[i] = d[i]
<1>1. Len(d) - 1 \in 0..Len(d)
  OBVIOUS
<1>. QED
  BY <1>1, PrefixFacts DEF Front

(* A prefix of a chain is a chain. *)
LEMMA PrefixVerifies ==
    ASSUME NEW S, NEW d \in Seq(S), NEW n \in 0..Len(d), VerifyChain(d)
    PROVE  VerifyChain(SubSeq(d, 1, n))
BY PrefixFacts DEF VerifyChain

(* A file that can be read is its own clean part. *)
LEMMA CleanReadable ==
    ASSUME NEW d \in Seq(Line), Readable(d)
    PROVE  Clean(d) = d /\ d \in Seq(Entry)
<1>1. d # <<>> => Last(d) # Garbage
  BY DEF Readable, Last
<1>. QED
  BY <1>1 DEF Clean, Readable, Line

(* What is in front of a last line. *)
LEMMA FrontAppend ==
    ASSUME NEW S, NEW d \in Seq(S), NEW l \in S
    PROVE  Front(Append(d, l)) = d /\ Last(Append(d, l)) = l /\ Append(d, l) # <<>>
BY DEF Front, Last

(* A readable file and one more line: if the line is broken or follows the *)
(* file, the damage is last and the chain does not fork.                   *)
LEMMA LineAdded ==
    ASSUME NEW d \in Seq(Entry), VerifyChain(d), NEW v \in Payload,
           NEW l \in {Garbage, Built(d, v)}
    PROVE  /\ Append(d, l) \in Seq(Line)
           /\ VerifyChain(Clean(Append(d, l)))
           /\ \A i \in DOMAIN Append(d, l) : Append(d, l)[i] = Garbage => i = Len(Append(d, l))
<1>1. Built(d, v) \in Entry /\ Built(d, v) # Garbage
  BY BuiltType, StoreAssumption
<1>2. d \in Seq(Line) /\ l \in Line
  BY <1>1 DEF Line
<1>3. Append(d, l) \in Seq(Line) /\ Len(Append(d, l)) = Len(d) + 1
      /\ \A i \in 1..Len(d) : Append(d, l)[i] = d[i]
  BY <1>2
<1>4. \A i \in 1..Len(d) : d[i] # Garbage
  BY StoreAssumption
<1>5. Clean(Append(d, l)) = IF l = Garbage THEN d ELSE Append(d, l)
  BY <1>2, FrontAppend DEF Clean
<1>6. VerifyChain(Clean(Append(d, l)))
  BY <1>5, BuiltExtends
<1>. QED
  BY <1>3, <1>4, <1>6

-----------------------------------------------------------------------------
(* Steps of one thread *)

(* Two threads that hold the lock of one process are the same; so are two  *)
(* that have built their entries, or are about to.                         *)
LEMMA OneAtATime ==
    ASSUME ChainInv, NEW t \in Thread, NEW u \in Thread,
           thread[t].pc \in {"insert", "commit", "write", "finish"},
           thread[u].pc \in {"insert", "commit", "write", "finish"}
    PROVE  t = u
<1>1. Holding(t) /\ Holding(u) /\ backend \in {"sqlite", "jsonl"}
  BY StoreAssumption DEF ChainInv, TypeOK
<1>2. CASE backend = "sqlite"
  <2>1. writer = t /\ writer = u
    BY <1>1, <1>2 DEF Holding
  <2>. QED
    BY <2>1
<1>3. CASE backend = "jsonl"
  <2>1. Home[t] = Owner /\ Home[u] = Owner /\ lock[Home[t]] = t /\ lock[Home[u]] = u
    BY <1>1, <1>3 DEF Holding
  <2>. QED
    BY <2>1
<1>. QED
  BY <1>1, <1>2, <1>3

(* The other threads stay as they are, and keep their locks. *)
OthersKeep(t) ==
    \A u \in Thread \ {t} :
       /\ thread'[u] = thread[u]
       /\ lock[Home[u]] = u => lock'[Home[u]] = u
       /\ writer = u => writer' = u

(* What is left of the types in a step. *)
RestTyped ==
    /\ backend' = backend
    /\ lock' \in [Process -> Thread \cup {None}]
    /\ writer' \in Thread \cup {None}
    /\ used \subseteq used' /\ used' \subseteq Payload /\ returned' \subseteq used'
    /\ budget' \in [Event -> Nat]

(* The file keeps its shape. *)
FileKept ==
    /\ disk' \in Seq(Line) /\ ended' \in BOOLEAN /\ synced' \in 0..Len(disk')
    /\ DamageIsLast' /\ ChainNeverForks'
    /\ backend = "sqlite" => ended' /\ synced' = Len(disk')

(* A step of one thread keeps the invariant if that thread does, and if    *)
(* the file changes only when the thread's turn has come.                  *)
LEMMA ThreadStep ==
    ASSUME ChainInv, NEW t \in Thread, NEW r \in ThreadType, Become(t, r),
           RestTyped, FileKept, OthersKeep(t),
           disk' = disk \/ thread[t].pc \in {"commit", "write", "finish"},
           Holding(t)', InHand(t)'
    PROVE  ChainInv'
<1>1. thread' \in [Thread -> ThreadType]
  BY DEF ChainInv, TypeOK, Become
<1>2. TypeOK'
  BY <1>1 DEF ChainInv, TypeOK, RestTyped, FileKept, Line
<1>3. ASSUME NEW u \in Thread \ {t}
      PROVE  Holding(u)' /\ InHand(u)'
  <2>1. Holding(u) /\ InHand(u)
    BY DEF ChainInv
  <2>2. thread'[u] = thread[u] /\ backend' = backend /\ used \subseteq used'
    BY DEF OthersKeep, RestTyped
  <2>3. Holding(u)'
    BY <2>1, <2>2 DEF Holding, OthersKeep
  <2>4. CASE disk' = disk
    BY <2>1, <2>2, <2>3, <2>4 DEF InHand
  <2>5. CASE thread[t].pc \in {"commit", "write", "finish"}
    <3>1. thread[u].pc \notin {"insert", "commit", "write", "finish"}
      BY <2>5, OneAtATime
    <3>. QED
      BY <2>2, <2>3, <3>1 DEF InHand
  <2>. QED
    BY <2>3, <2>4, <2>5
<1>4. backend' = "sqlite" => ended' /\ synced' = Len(disk')
  BY DEF RestTyped, FileKept
<1>. QED
  BY <1>2, <1>3, <1>4 DEF ChainInv, FileKept

(* An idle thread is typed. *)
LEMMA IdleType ==
    ASSUME NEW a \in Seq(Entry)
    PROVE  IdleThread(a) \in ThreadType /\ IdleThread(a).pc = "idle" /\ IdleThread(a).val = None
BY DEF IdleThread, ThreadType, Label

(* So is one that begins a method. *)
LEMMA BegunType ==
    ASSUME NEW v \in Payload
    PROVE  LET r == [IdleThread(<<>>) EXCEPT !.pc = "lock", !.val = v]
           IN  r \in ThreadType /\ r.pc = "lock" /\ r.val = v
<1>1. <<>> \in Seq(Entry)
  OBVIOUS
<1>2. IdleThread(<<>>) \in ThreadType
  BY <1>1, IdleType
<1>3. \A g \in ThreadType : LET r == [g EXCEPT !.pc = "lock", !.val = v]
                            IN  r \in ThreadType /\ r.pc = "lock" /\ r.val = v
  BY DEF ThreadType, Label
<1>. QED
  BY <1>2, <1>3

(* A file that is left alone keeps its shape. *)
LEMMA FileAlone ==
    ASSUME ChainInv, UNCHANGED <<disk, ended>>, backend' = backend, synced' \in 0..Len(disk),
           backend = "sqlite" => synced' = synced
    PROVE  FileKept
BY DEF ChainInv, TypeOK, FileKept, Line, DamageIsLast, ChainNeverForks

(* What the invariant says of one thread. *)
LEMMA ThreadFacts ==
    ASSUME ChainInv, NEW t \in Thread
    PROVE  /\ thread[t] \in ThreadType /\ thread \in [Thread -> ThreadType]
           /\ Holding(t) /\ InHand(t)
           /\ disk \in Seq(Line) /\ ended \in BOOLEAN /\ synced \in 0..Len(disk)
           /\ backend \in {"sqlite", "jsonl"} /\ writer \in Thread \cup {None}
           /\ lock \in [Process -> Thread \cup {None}] /\ Home[t] \in Process
           /\ used \subseteq Payload /\ returned \subseteq used /\ budget \in [Event -> Nat]
BY StoreAssumption DEF ChainInv, TypeOK, Line

(* Leaving the lock and the method keeps the invariant. *)
LEMMA LeaveStep ==
    ASSUME ChainInv, NEW t \in Thread, thread[t].pc \notin {"idle", "lock"},
           NEW a \in Seq(Entry), Leave(t, a), FileKept,
           disk' = disk \/ thread[t].pc \in {"commit", "write", "finish"},
           backend' = backend, used' = used, returned' \subseteq used,
           writer' \in Thread \cup {None}, \A u \in Thread \ {t} : writer = u => writer' = u,
           budget' \in [Event -> Nat]
    PROVE  ChainInv'
<1>1. lock[Home[t]] = t /\ lock \in [Process -> Thread \cup {None}] /\ Home[t] \in Process
  BY StoreAssumption DEF ChainInv, Holding, TypeOK
<1>2. lock' = [lock EXCEPT ![Home[t]] = None] /\ Become(t, IdleThread(a))
  BY DEF Leave
<1>3. RestTyped
  BY <1>1, <1>2 DEF RestTyped, ChainInv, TypeOK
<1>4. thread \in [Thread -> ThreadType]
  BY DEF ChainInv, TypeOK
<1>5. OthersKeep(t)
  BY <1>1, <1>2, <1>4 DEF OthersKeep, Become
<1>6. thread'[t] = IdleThread(a)
  BY <1>2, <1>4 DEF Become
<1>7. Holding(t)' /\ InHand(t)'
  BY <1>6, IdleType DEF Holding, InHand
<1>. QED
  BY <1>2, <1>3, <1>5, <1>7, IdleType, ThreadStep

(* So does raising out of it. *)
LEMMA RaiseStep ==
    ASSUME ChainInv, NEW t \in Thread, thread[t].pc \notin {"idle", "lock"}, Raise(t), FileKept,
           disk' = disk \/ thread[t].pc \in {"commit", "write", "finish"},
           backend' = backend, used' = used, returned' = returned,
           writer' \in Thread \cup {None}, \A u \in Thread \ {t} : writer = u => writer' = u,
           budget' \in [Event -> Nat]
    PROVE  ChainInv'
<1>1. <<>> \in Seq(Entry) /\ returned' \subseteq used
  BY ThreadFacts
<1>. QED
  BY <1>1, LeaveStep DEF Raise

(* Going on to another step, with the locks as they are or one more. *)
LEMMA OnStep ==
    ASSUME ChainInv, NEW t \in Thread, NEW r \in ThreadType, Become(t, r), FileKept,
           disk' = disk \/ thread[t].pc \in {"commit", "write", "finish"},
           lock' = lock, UNCHANGED <<backend, used, returned>>,
           writer' \in Thread \cup {None}, \A u \in Thread \ {t} : writer = u => writer' = u,
           budget' \in [Event -> Nat],
           Holding(t)', InHand(t)'
    PROVE  ChainInv'
<1>1. RestTyped
  BY DEF RestTyped, ChainInv, TypeOK
<1>2. OthersKeep(t)
  BY DEF OthersKeep, Become, ChainInv, TypeOK
<1>. QED
  BY <1>1, <1>2, ThreadStep

(* Spending keeps the budget typed. *)
LEMMA SpendTyped ==
    ASSUME ChainInv, NEW e \in Event, Spend(e)
    PROVE  budget' \in [Event -> Nat]
BY DEF ChainInv, TypeOK, Spend

-----------------------------------------------------------------------------
(* append *)

(* Beginning an append touches neither locks nor file. *)
LEMMA CallAppendStep ==
    ASSUME ChainInv, NEW t \in Thread, NEW v \in Payload, CallAppend(t, v)
    PROVE  ChainInv'
<1>. DEFINE r == [IdleThread(<<>>) EXCEPT !.pc = "lock", !.val = v]
<1>1. r \in ThreadType /\ r.pc = "lock" /\ r.val = v
  BY BegunType
<1>2. Become(t, r) /\ thread'[t] = r
  BY ThreadFacts DEF CallAppend, Become
<1>3. RestTyped /\ v \in used' /\ (backend = "jsonl" => Home[t] = Owner) /\ OthersKeep(t)
  BY ThreadFacts DEF CallAppend, RestTyped, OthersKeep, Become
<1>4. FileKept /\ disk' = disk
  BY ThreadFacts, FileAlone DEF CallAppend, file
<1>5. Holding(t)' /\ InHand(t)'
  <2>. HIDE DEF r
  <2>. QED
    BY <1>1, <1>2, <1>3 DEF Holding, InHand, RestTyped
<1>. QED
  BY <1>1, <1>2, <1>3, <1>4, <1>5, ThreadStep

(* A thread that takes the lock of its process holds it. *)
LEMMA TakeLockStep ==
    ASSUME ChainInv, NEW t \in Thread, TakeLock(t)
    PROVE  ChainInv'
<1>. DEFINE next == AfterLock(t)
            r == [thread[t] EXCEPT !.pc = next]
<1>1. /\ next \in Label /\ next \in {"fetch", "begin", "build"}
      /\ next = "begin" => backend = "sqlite" /\ thread[t].val # None
      /\ next = "build" => backend = "jsonl" /\ thread[t].val # None
  BY ThreadFacts DEF AfterLock, Label
<1>. HIDE DEF next
<1>2. r \in ThreadType /\ r.pc = next /\ r.val = thread[t].val
  BY <1>1, ThreadFacts DEF ThreadType
<1>3. Become(t, r) /\ thread'[t] = r
  BY ThreadFacts DEF TakeLock, Goto, Become, next
<1>4. RestTyped /\ lock' = [lock EXCEPT ![Home[t]] = t] /\ lock[Home[t]] = None /\ used' = used
  BY ThreadFacts DEF TakeLock, RestTyped
<1>5. OthersKeep(t)
  BY <1>4, ThreadFacts, StoreAssumption DEF OthersKeep, TakeLock, Goto, Become
<1>6. FileKept /\ disk' = disk
  BY ThreadFacts, FileAlone DEF TakeLock, file
<1>7. Holding(t)' /\ InHand(t)'
  <2>1. /\ lock'[Home[t]] = t /\ backend' = backend
        /\ thread[t].val \in used \cup {None} /\ used \subseteq Payload
        /\ backend = "jsonl" /\ thread[t].val # None => Home[t] = Owner
    BY <1>4, ThreadFacts DEF Holding, TakeLock, At
  <2>. HIDE DEF r
  <2>. QED
    BY <1>1, <1>2, <1>3, <1>4, <2>1 DEF Holding, InHand
<1>. QED
  BY <1>2, <1>3, <1>4, <1>5, <1>6, <1>7, ThreadStep

(* BEGIN IMMEDIATE gives the write lock when nobody has it; an interrupt   *)
(* right behind it leaves the transaction to an idle thread.               *)
LEMMA BeginImmediateStep ==
    ASSUME ChainInv, NEW t \in Thread, BeginImmediate(t)
    PROVE  ChainInv'
<1>. DEFINE r == [thread[t] EXCEPT !.pc = "build"]
<1>1. r \in ThreadType /\ r.pc = "build" /\ r.val = thread[t].val
  BY ThreadFacts DEF ThreadType, Label
<1>2. /\ thread[t].pc = "begin" /\ Holding(t)
      /\ writer = None /\ writer' = t /\ UNCHANGED <<backend, disk, ended, synced, used, returned>>
  BY ThreadFacts DEF BeginImmediate, At, file
<1>3. FileKept
  BY <1>2, ThreadFacts, FileAlone
<1>4. \A u \in Thread \ {t} : writer = u => writer' = u
  BY <1>2, StoreAssumption
<1>5. CASE Goto(t, "build") /\ UNCHANGED <<lock, budget>>
  <2>1. Become(t, r) /\ thread'[t] = r
    BY <1>5, ThreadFacts DEF Goto, Become
  <2>. HIDE DEF r
  <2>2. Holding(t)' /\ InHand(t)'
    BY <1>1, <1>2, <1>5, <2>1 DEF Holding, InHand
  <2>. QED
    BY <1>1, <1>2, <1>3, <1>4, <1>5, <2>1, <2>2, ThreadFacts, OnStep
<1>6. CASE Raise(t) /\ Spend("interrupt")
  <2>1. budget' \in [Event -> Nat]
    BY <1>6, SpendTyped DEF Event
  <2>. QED
    BY <1>2, <1>3, <1>4, <1>6, <2>1, ThreadFacts, RaiseStep
<1>. QED
  BY <1>5, <1>6 DEF BeginImmediate

(* A thread that gives up leaves everything as it was. *)
LEMMA BusyTimeoutStep ==
    ASSUME ChainInv, NEW t \in Thread, BusyTimeout(t)
    PROVE  ChainInv'
<1>1. FileKept
  BY ThreadFacts, FileAlone DEF BusyTimeout, file
<1>. QED
  BY <1>1, ThreadFacts, RaiseStep DEF BusyTimeout, At, file

(* The entry a thread builds is the one that follows the file. *)
LEMMA BuildStep ==
    ASSUME ChainInv, NEW t \in Thread, Build(t)
    PROVE  ChainInv'
<1>1. FileKept /\ disk' = disk
  BY ThreadFacts, FileAlone DEF Build, file
<1>2. CASE ~Readable(disk)
  BY <1>1, <1>2, ThreadFacts, RaiseStep DEF Build, At, file
<1>3. CASE Readable(disk)
  <2>. DEFINE e == Built(disk, thread[t].val)
              next == IF backend = "sqlite" THEN "insert" ELSE "write"
              r == [thread[t] EXCEPT !.line = e, !.pc = next]
  <2>1. thread[t].pc = "build" /\ thread[t].val \in Payload /\ Holding(t)
    BY ThreadFacts DEF Build, At, Holding
  <2>2. e \in Entry
    BY <1>3, <2>1, ThreadFacts, CleanReadable, BuiltType
  <2>3. /\ next \in Label
        /\ \/ backend = "sqlite" /\ next = "insert"
           \/ backend = "jsonl" /\ next = "write"
    BY ThreadFacts DEF Label
  <2>4. Become(t, r) /\ thread'[t] = r
    BY <1>3, ThreadFacts DEF Build, Become
  <2>. HIDE DEF e, next
  <2>5. r \in ThreadType /\ r.pc = next /\ r.val = thread[t].val /\ r.line = e
    BY <2>2, <2>3, ThreadFacts DEF ThreadType
  <2>6. lock' = lock /\ writer' = writer /\ UNCHANGED <<backend, used, returned, budget>>
    BY <1>3 DEF Build
  <2>. HIDE DEF r
  <2>7. Holding(t)'
    BY <2>1, <2>3, <2>4, <2>5, <2>6 DEF Holding
  <2>8. InHand(t)'
    BY <1>1, <1>3, <2>3, <2>4, <2>5 DEF InHand, e
  <2>. QED
    BY <1>1, <2>4, <2>5, <2>6, <2>7, <2>8, ThreadFacts, OnStep
<1>. QED
  BY <1>2, <1>3

(* An INSERT is seen by nobody else. *)
LEMMA InsertStep ==
    ASSUME ChainInv, NEW t \in Thread, Insert(t)
    PROVE  ChainInv'
<1>1. FileKept /\ disk' = disk
  BY ThreadFacts, FileAlone DEF Insert, file
<1>2. PICK next \in {"commit", "rollback"} : Goto(t, next)
  BY DEF Insert
<1>. DEFINE r == [thread[t] EXCEPT !.pc = next]
<1>3. r \in ThreadType /\ r.pc = next /\ r.val = thread[t].val /\ r.line = thread[t].line
  BY ThreadFacts DEF ThreadType, Label
<1>4. Become(t, r) /\ thread'[t] = r
  BY <1>2, ThreadFacts DEF Goto, Become
<1>5. lock' = lock /\ writer' = writer /\ UNCHANGED <<backend, used, returned>>
  BY DEF Insert
<1>6. budget' \in [Event -> Nat]
  BY SpendTyped, ThreadFacts DEF Insert, Fault, Event
<1>7. thread[t].pc = "insert" /\ Holding(t) /\ InHand(t)
  BY ThreadFacts DEF Insert, At
<1>. HIDE DEF r
<1>8. Holding(t)'
  BY <1>3, <1>4, <1>5, <1>7 DEF Holding
<1>9. InHand(t)'
  BY <1>1, <1>3, <1>4, <1>7 DEF InHand
<1>. QED
  BY <1>1, <1>3, <1>4, <1>5, <1>6, <1>8, <1>9, ThreadFacts, OnStep

(* A rollback gives both locks back. *)
LEMMA RollbackStep ==
    ASSUME ChainInv, NEW t \in Thread, Rollback(t)
    PROVE  ChainInv'
<1>1. FileKept
  BY ThreadFacts, FileAlone DEF Rollback, file
<1>2. thread[t].pc = "rollback" /\ writer' \in {writer, None} /\ (writer # t => writer' = writer)
  BY DEF Rollback, At
<1>. QED
  BY <1>1, <1>2, ThreadFacts, RaiseStep DEF Rollback, file

(* A returning append gives the lock back. *)
LEMMA ReturnStep ==
    ASSUME ChainInv, NEW t \in Thread, Return(t)
    PROVE  ChainInv'
<1>1. FileKept
  BY ThreadFacts, FileAlone DEF Return, file
<1>2. thread[t].val \in used
  BY ThreadFacts, StoreAssumption DEF Return, At, Holding
<1>3. returned' \subseteq used /\ <<>> \in Seq(Entry) /\ Leave(t, <<>>) /\ thread[t].pc = "return"
  BY <1>2, ThreadFacts DEF Return, At
<1>4. UNCHANGED <<backend, disk, writer, used, budget>>
  BY DEF Return, file
<1>. QED
  BY <1>1, <1>3, <1>4, ThreadFacts, LeaveStep

(* A thread about to change the file finds it readable, and a chain; what  *)
(* it has in hand is the entry built on it.                                *)
LEMMA ReadyToWrite ==
    ASSUME ChainInv, NEW t \in Thread, thread[t].pc \in {"insert", "commit", "write"}
    PROVE  /\ disk \in Seq(Entry) /\ VerifyChain(disk)
           /\ thread[t].val \in Payload
           /\ thread[t].line = Built(disk, thread[t].val)
<1>1. Readable(disk) /\ thread[t].line = Built(disk, thread[t].val) /\ thread[t].val \in Payload
  BY ThreadFacts DEF InHand, Holding
<1>2. disk \in Seq(Entry) /\ Clean(disk) = disk
  BY <1>1, ThreadFacts, CleanReadable
<1>. QED
  BY <1>1, <1>2 DEF ChainInv, ChainNeverForks

(* A COMMIT extends the chain by the entry built on it. *)
LEMMA CommitStep ==
    ASSUME ChainInv, NEW t \in Thread, Commit(t)
    PROVE  ChainInv'
<1>. DEFINE v == thread[t].val
            e == thread[t].line
<1>1. thread[t].pc = "commit" /\ Holding(t) /\ InHand(t) /\ backend = "sqlite"
  BY ThreadFacts DEF Commit, At, Holding
<1>2. disk \in Seq(Entry) /\ VerifyChain(disk) /\ v \in Payload /\ e = Built(disk, v)
  BY <1>1, ReadyToWrite
<1>3. e # Garbage
  BY <1>2, BuiltType, StoreAssumption
<1>4. /\ Append(disk, e) \in Seq(Line)
      /\ VerifyChain(Clean(Append(disk, e)))
      /\ \A i \in DOMAIN Append(disk, e) : Append(disk, e)[i] = Garbage => i = Len(Append(disk, e))
  BY <1>2, LineAdded
<1>5. \A i \in DOMAIN Append(disk, e) : Append(disk, e)[i] # Garbage
  BY <1>3, <1>4, ThreadFacts
<1>6. FileKept
  <2>1. CASE disk' = Append(disk, e) /\ synced' = Len(disk')
    <3>1. ended' = ended /\ ended \in BOOLEAN /\ ended /\ Len(disk') \in 0..Len(disk')
      BY <1>1, <1>4, <2>1, ThreadFacts DEF Commit, ChainInv
    <3>. QED
      BY <1>4, <1>5, <2>1, <3>1 DEF FileKept, DamageIsLast, ChainNeverForks
  <2>2. CASE UNCHANGED <<disk, synced>>
    BY <2>2, ThreadFacts, FileAlone DEF Commit
  <2>. QED
    BY <2>1, <2>2 DEF Commit
<1>7. PICK next \in {"return", "rollback"} : Goto(t, next)
  BY DEF Commit
<1>. DEFINE r == [thread[t] EXCEPT !.pc = next]
<1>8. r \in ThreadType /\ r.pc = next /\ r.val = v
  BY ThreadFacts DEF ThreadType, Label
<1>9. Become(t, r) /\ thread'[t] = r
  BY <1>7, ThreadFacts DEF Goto, Become
<1>10. /\ lock' = lock /\ UNCHANGED <<backend, used, returned>>
       /\ writer' \in {writer, None} /\ writer = t
  BY <1>1 DEF Commit, Holding
<1>11. budget' \in [Event -> Nat]
  BY SpendTyped, ThreadFacts DEF Commit, Fault, Event
<1>. HIDE DEF r
<1>12. Holding(t)' /\ InHand(t)'
  BY <1>1, <1>8, <1>9, <1>10 DEF Holding, InHand
<1>. QED
  BY <1>1, <1>6, <1>8, <1>9, <1>10, <1>11, <1>12, ThreadFacts, OnStep

(* A begun write leaves the chain, perhaps with a damaged last line. *)
LEMMA WriteSomeStep ==
    ASSUME ChainInv, NEW t \in Thread, WriteSome(t)
    PROVE  ChainInv'
<1>. DEFINE v == thread[t].val
            line == IF ended THEN thread[t].line ELSE Garbage
            before == IF ended THEN disk ELSE Front(disk)
<1>1. thread[t].pc = "write" /\ Holding(t) /\ InHand(t) /\ backend = "jsonl"
  BY ThreadFacts DEF WriteSome, At, Holding
<1>2. disk \in Seq(Entry) /\ VerifyChain(disk) /\ v \in Payload /\ thread[t].line = Built(disk, v)
  BY <1>1, ReadyToWrite
<1>3. before \in Seq(Entry) /\ VerifyChain(before)
  <2>1. CASE ended
    BY <1>2, <2>1
  <2>2. CASE ~ended /\ disk = <<>>
    <3>1. Front(disk) = <<>>
      BY <2>2 DEF Front
    <3>. QED
      BY <1>2, <2>2, <3>1
  <2>3. CASE ~ended /\ disk # <<>>
    <3>1. Len(disk) - 1 \in 0..Len(disk) /\ Front(disk) \in Seq(Entry)
      BY <1>2, <2>3 DEF Front
    <3>. QED
      BY <1>2, <2>3, <3>1, PrefixVerifies DEF Front
  <2>. QED
    BY <2>1, <2>2, <2>3
<1>4. line \in {Garbage, Built(before, v)}
  BY <1>2
<1>5. PICK l \in {Garbage, line} : disk' = Append(before, l)
  BY DEF WriteSome
<1>. HIDE DEF line, before
<1>6. /\ Append(before, l) \in Seq(Line)
      /\ VerifyChain(Clean(Append(before, l)))
      /\ \A i \in DOMAIN Append(before, l) : Append(before, l)[i] = Garbage => i = Len(Append(before, l))
  BY <1>2, <1>3, <1>4, <1>5, LineAdded
<1>7. synced' \in 0..Len(disk') /\ ended' = FALSE
  <2>1. synced' = synced /\ synced \in 0..Len(disk) /\ ended' = FALSE
    BY ThreadFacts DEF WriteSome
  <2>2. Len(disk') = Len(before) + 1 /\ Len(disk') \in Nat
    BY <1>3, <1>5, <1>6
  <2>3. Len(disk) <= Len(before) + 1
    BY <1>2 DEF before, Front
  <2>. QED
    BY <1>2, <1>3, <2>1, <2>2, <2>3
<1>8. FileKept
  BY <1>1, <1>5, <1>6, <1>7 DEF FileKept, DamageIsLast, ChainNeverForks, WriteSome
<1>9. UNCHANGED <<backend, writer, used, returned>>
  BY DEF WriteSome
<1>10. CASE Raise(t) /\ Fault
  <2>1. budget' \in [Event -> Nat]
    BY <1>10, SpendTyped DEF Fault, Event
  <2>. QED
    BY <1>1, <1>8, <1>9, <1>10, <2>1, ThreadFacts, RaiseStep
<1>11. CASE Become(t, [thread[t] EXCEPT !.pc = "finish", !.line = line]) /\ UNCHANGED <<lock, budget>>
  <2>. DEFINE r == [thread[t] EXCEPT !.pc = "finish", !.line = line]
  <2>1. line \in Entry \cup {Garbage}
    BY <1>2, <1>3, <1>4, BuiltType
  <2>2. r \in ThreadType /\ r.pc = "finish" /\ r.val = v /\ r.line = line
    BY <2>1, ThreadFacts DEF ThreadType, Label
  <2>3. Become(t, r) /\ thread'[t] = r
    BY <1>11, ThreadFacts DEF Become
  <2>. HIDE DEF r
  <2>4. Holding(t)'
    BY <1>1, <1>9, <1>11, <2>2, <2>3 DEF Holding
  <2>5. InHand(t)'
    <3>1. l \in Entry \cup {Garbage} /\ Front(disk') = before /\ Last(disk') = l /\ disk' # <<>>
      <4>1. before \in Seq(Line) /\ l \in Line
        BY <1>3, <1>5, <2>1 DEF Line
      <4>. QED
        BY <1>5, <4>1, FrontAppend DEF Line
    <3>2. Readable(before)
      BY <1>3, StoreAssumption DEF Readable
    <3>. QED
      BY <1>4, <1>5, <2>2, <2>3, <3>1, <3>2 DEF InHand
  <2>. QED
    BY <1>1, <1>8, <1>9, <1>11, <2>2, <2>3, <2>4, <2>5, ThreadFacts, OnStep
<1>. QED
  BY <1>10, <1>11 DEF WriteSome, line

(* A finished write leaves the same. *)
LEMMA WriteRestStep ==
    ASSUME ChainInv, NEW t \in Thread, WriteRest(t)
    PROVE  ChainInv'
<1>. DEFINE v == thread[t].val
            line == thread[t].line
            before == Front(disk)
            r == [thread[t] EXCEPT !.pc = "fsync"]
<1>1. thread[t].pc = "finish" /\ Holding(t) /\ backend = "jsonl" /\ v \in Payload
  BY ThreadFacts DEF WriteRest, At, Holding
<1>2. /\ disk # <<>> /\ Readable(before) /\ line \in {Garbage, Built(before, v)}
  BY <1>1, ThreadFacts DEF InHand
<1>3. before \in Seq(Line) /\ Len(disk) \in Nat \ {0} /\ Len(before) = Len(disk) - 1
  <2>1. disk \in Seq(Line) /\ Len(disk) \in Nat \ {0}
    BY <1>2, ThreadFacts
  <2>. QED
    BY <1>2, <2>1, FrontFacts
<1>4. before \in Seq(Entry)
  BY <1>2, <1>3, CleanReadable
<1>5. VerifyChain(before)
  <2>1. CASE Last(disk) = Garbage
    BY <1>2, <2>1 DEF ChainInv, ChainNeverForks, Clean
  <2>2. CASE Last(disk) # Garbage
    <3>1. VerifyChain(disk) /\ Len(disk) - 1 \in 0..Len(disk)
      BY <1>3, <2>2 DEF ChainInv, ChainNeverForks, Clean
    <3>. QED
      BY <3>1, ThreadFacts, PrefixVerifies DEF Front
  <2>. QED
    BY <2>1, <2>2
<1>. HIDE DEF before, line
<1>6. disk' = Append(before, line) /\ ended' = TRUE /\ synced' = synced
  BY DEF WriteRest, before, line
<1>7. /\ Append(before, line) \in Seq(Line)
      /\ VerifyChain(Clean(Append(before, line)))
      /\ \A i \in DOMAIN Append(before, line) :
            Append(before, line)[i] = Garbage => i = Len(Append(before, line))
  BY <1>1, <1>2, <1>4, <1>5, LineAdded
<1>8. Len(disk') = Len(disk)
  <2>1. line \in Line
    BY <1>1, <1>2, <1>4, BuiltType DEF Line
  <2>. QED
    BY <1>3, <1>6, <2>1
<1>9. FileKept
  BY <1>1, <1>6, <1>7, <1>8, ThreadFacts DEF FileKept, DamageIsLast, ChainNeverForks, WriteRest
<1>10. r \in ThreadType /\ r.pc = "fsync" /\ r.val = v
  BY ThreadFacts DEF ThreadType, Label
<1>11. Become(t, r) /\ thread'[t] = r
  BY ThreadFacts DEF WriteRest, Goto, Become
<1>12. lock' = lock /\ UNCHANGED <<backend, writer, used, returned, budget>>
  BY DEF WriteRest
<1>. HIDE DEF r
<1>13. Holding(t)' /\ InHand(t)'
  BY <1>1, <1>10, <1>11, <1>12 DEF Holding, InHand
<1>. QED
  BY <1>1, <1>9, <1>10, <1>11, <1>12, <1>13, ThreadFacts, OnStep

(* Syncing changes nothing that can be read. *)
LEMMA FsyncStep ==
    ASSUME ChainInv, NEW t \in Thread, Fsync(t)
    PROVE  ChainInv'
<1>1. thread[t].pc = "fsync" /\ Holding(t) /\ backend = "jsonl"
  BY ThreadFacts DEF Fsync, At, Holding
<1>2. UNCHANGED <<backend, disk, ended, writer, used, returned>>
  BY DEF Fsync
<1>3. FileKept
  <2>1. synced' \in 0..Len(disk)
    BY <1>2, ThreadFacts DEF Fsync
  <2>. QED
    BY <1>1, <1>2, <2>1, FileAlone
<1>4. CASE Raise(t) /\ Fault
  <2>1. budget' \in [Event -> Nat]
    BY <1>4, SpendTyped DEF Fault, Event
  <2>. QED
    BY <1>1, <1>2, <1>3, <1>4, <2>1, ThreadFacts, RaiseStep
<1>5. CASE Goto(t, "return") /\ UNCHANGED <<lock, budget>>
  <2>. DEFINE r == [thread[t] EXCEPT !.pc = "return"]
  <2>1. r \in ThreadType /\ r.pc = "return" /\ r.val = thread[t].val
    BY ThreadFacts DEF ThreadType, Label
  <2>2. Become(t, r) /\ thread'[t] = r
    BY <1>5, ThreadFacts DEF Goto, Become
  <2>. HIDE DEF r
  <2>3. Holding(t)' /\ InHand(t)'
    BY <1>1, <1>2, <1>5, <2>1, <2>2 DEF Holding, InHand
  <2>. QED
    BY <1>2, <1>3, <1>5, <2>1, <2>2, <2>3, ThreadFacts, OnStep
<1>. QED
  BY <1>4, <1>5 DEF Fsync

-----------------------------------------------------------------------------
(* Reading *)

(* Beginning a read touches neither locks nor file. *)
LEMMA CallEntriesStep ==
    ASSUME ChainInv, NEW t \in Thread, CallEntries(t)
    PROVE  ChainInv'
<1>. DEFINE r == [IdleThread(<<>>) EXCEPT !.pc = "lock"]
<1>1. r \in ThreadType /\ r.pc = "lock" /\ r.val = None
  <2>1. <<>> \in Seq(Entry)
    OBVIOUS
  <2>2. IdleThread(<<>>) \in ThreadType /\ IdleThread(<<>>).val = None
    BY <2>1, IdleType
  <2>3. \A g \in ThreadType : [g EXCEPT !.pc = "lock"] \in ThreadType
                              /\ [g EXCEPT !.pc = "lock"].pc = "lock"
                              /\ [g EXCEPT !.pc = "lock"].val = g.val
    BY DEF ThreadType, Label
  <2>. QED
    BY <2>2, <2>3
<1>2. Become(t, r) /\ thread'[t] = r
  BY ThreadFacts DEF CallEntries, Become
<1>3. lock' = lock /\ UNCHANGED <<backend, disk, writer, used, returned>>
  BY DEF CallEntries, file
<1>4. budget' \in [Event -> Nat]
  BY SpendTyped DEF CallEntries, Event
<1>5. FileKept
  BY ThreadFacts, FileAlone DEF CallEntries, file
<1>. HIDE DEF r
<1>6. Holding(t)' /\ InHand(t)'
  BY <1>1, <1>2 DEF Holding, InHand
<1>. QED
  BY <1>1, <1>2, <1>3, <1>4, <1>5, <1>6, ThreadFacts, OnStep

(* A reader holds the lock of its process, so no transaction is open on    *)
(* its connection.                                                         *)
LEMMA FetchStep ==
    ASSUME ChainInv, NEW t \in Thread, Fetch(t)
    PROVE  ChainInv'
<1>1. thread[t].pc = "fetch" /\ lock[Home[t]] = t
  BY ThreadFacts DEF Fetch, At, Holding
<1>2. \A u \in Thread : Home[u] = Home[t] => thread[u].pc # "commit"
  BY <1>1, ThreadFacts DEF Holding
<1>3. Visible(Home[t]) = disk
  BY <1>2 DEF Visible, At
<1>4. FileKept
  BY ThreadFacts, FileAlone DEF Fetch, file
<1>5. UNCHANGED <<backend, disk, writer, used, returned, budget>>
  BY DEF Fetch, file
<1>6. CASE Readable(disk)
  <2>1. Leave(t, disk)
    BY <1>3, <1>6 DEF Fetch
  <2>2. disk \in Seq(Entry) /\ returned' \subseteq used
    BY <1>5, <1>6, ThreadFacts, CleanReadable
  <2>. QED
    BY <1>1, <1>4, <1>5, <2>1, <2>2, ThreadFacts, LeaveStep
<1>7. CASE ~Readable(disk)
  <2>1. Raise(t)
    BY <1>3, <1>7 DEF Fetch
  <2>. QED
    BY <1>1, <1>4, <1>5, <2>1, ThreadFacts, RaiseStep
<1>. QED
  BY <1>6, <1>7

-----------------------------------------------------------------------------
(* Crashes *)

(* A crash of a process leaves the file, and no lock of its threads. *)
LEMMA ProcessCrashStep ==
    ASSUME ChainInv, NEW p \in Process, ProcessCrash(p)
    PROVE  ChainInv'
<1>. DEFINE idle == IdleThread(<<>>)
<1>1. idle \in ThreadType /\ idle.pc = "idle" /\ idle.val = None
  <2>1. <<>> \in Seq(Entry)
    OBVIOUS
  <2>. QED
    BY <2>1, IdleType
<1>2. thread' = [t \in Thread |-> IF Home[t] = p THEN idle ELSE thread[t]]
  BY DEF ProcessCrash
<1>. HIDE DEF idle
<1>3. budget' \in [Event -> Nat]
  BY SpendTyped DEF ProcessCrash, Event
<1>4. UNCHANGED <<backend, disk, ended, synced, used, returned>>
  BY DEF ProcessCrash, file
<1>5. lock' = [lock EXCEPT ![p] = None] /\ writer' \in {writer, None}
      /\ \A u \in Thread : writer = u /\ Home[u] # p => writer' = u
  BY DEF ProcessCrash
<1>6. TypeOK'
  BY <1>1, <1>2, <1>3, <1>4, <1>5 DEF ChainInv, TypeOK
<1>7. ASSUME NEW t \in Thread
      PROVE  Holding(t)' /\ InHand(t)'
  <2>1. CASE Home[t] = p
    <3>1. thread'[t] = idle
      BY <1>2, <2>1
    <3>. QED
      BY <1>1, <3>1 DEF Holding, InHand
  <2>2. CASE Home[t] # p
    <3>1. thread'[t] = thread[t] /\ lock'[Home[t]] = lock[Home[t]]
      BY <1>2, <1>5, <2>2, ThreadFacts
    <3>2. Holding(t)'
      BY <1>4, <1>5, <2>2, <3>1, ThreadFacts DEF Holding
    <3>3. InHand(t)'
      BY <1>4, <3>1, ThreadFacts DEF InHand
    <3>. QED
      BY <3>2, <3>3
  <2>. QED
    BY <2>1, <2>2
<1>. QED
  BY <1>4, <1>6, <1>7 DEF ChainInv, DamageIsLast, ChainNeverForks

(* A part of the file that lacks its last line is a chain of entries. *)
LEMMA PartIsChain ==
    ASSUME ChainInv, NEW n \in 0..Len(disk), n < Len(disk)
    PROVE  SubSeq(disk, 1, n) \in Seq(Entry) /\ VerifyChain(SubSeq(disk, 1, n))
<1>. DEFINE d == SubSeq(disk, 1, n)
<1>1. disk \in Seq(Line) /\ Len(disk) \in Nat
  BY DEF ChainInv, TypeOK, Line
<1>2. d \in Seq(Line) /\ Len(d) = n /\ \A i \in 1..n : d[i] = disk[i]
  BY <1>1, PrefixFacts
<1>. HIDE DEF d
<1>3. Readable(d)
  BY <1>1, <1>2 DEF ChainInv, DamageIsLast, Readable
<1>4. d \in Seq(Entry)
  BY <1>2, <1>3, CleanReadable
<1>5. CASE Last(disk) = Garbage
  <2>1. disk # <<>> /\ Len(disk) - 1 \in Nat /\ Clean(disk) = Front(disk)
    BY <1>1, <1>5 DEF Clean
  <2>2. Front(disk) \in Seq(Line) /\ Len(Front(disk)) = Len(disk) - 1
        /\ \A i \in 1..Len(disk)-1 : Front(disk)[i] = disk[i]
    BY <1>1, <2>1, FrontFacts
  <2>3. VerifyChain(Front(disk))
    BY <2>1 DEF ChainInv, ChainNeverForks
  <2>. QED
    <3>1. n <= Len(disk) - 1
      BY <1>1
    <3>2. \A m \in 1..n : d[m] = Front(disk)[m] /\ m \in DOMAIN Front(disk)
      BY <1>1, <1>2, <2>2, <3>1
    <3>3. VerifyChain(d)
      BY <1>2, <2>3, <3>2 DEF VerifyChain
    <3>. QED
      BY <1>4, <3>3 DEF d
<1>6. CASE Last(disk) # Garbage
  <2>1. VerifyChain(disk)
    BY <1>6 DEF ChainInv, ChainNeverForks, Clean
  <2>. QED
    BY <1>1, <1>4, <2>1, PrefixVerifies DEF d
<1>. QED
  BY <1>5, <1>6

(* What a power loss leaves of the file keeps its shape. *)
LEMMA PowerLossFile ==
    ASSUME ChainInv, PowerLoss
    PROVE  FileKept
<1>1. /\ disk \in Seq(Line) /\ Len(disk) \in Nat /\ synced \in 0..Len(disk) /\ ended \in BOOLEAN
      /\ backend = "sqlite" => ended /\ synced = Len(disk)
      /\ backend \in {"sqlite", "jsonl"}
  BY StoreAssumption DEF ChainInv, TypeOK, Line
<1>2. synced' = Len(disk') /\ backend' = backend
  BY DEF PowerLoss
<1>3. CASE UNCHANGED <<disk, ended>>
  BY <1>1, <1>2, <1>3, FileAlone
<1>4. ASSUME NEW n \in synced..Len(disk)-1, disk' = SubSeq(disk, 1, n), ended' = TRUE
      PROVE  FileKept
  <2>1. n \in 0..Len(disk) /\ n < Len(disk)
    BY <1>1
  <2>2. disk' \in Seq(Entry) /\ VerifyChain(disk')
    BY <1>4, <2>1, PartIsChain
  <2>3. disk' \in Seq(Line) /\ Readable(disk') /\ Len(disk') \in Nat
    BY <2>2, StoreAssumption DEF Line, Readable
  <2>4. Clean(disk') = disk'
    BY <2>3, CleanReadable
  <2>5. backend = "jsonl" /\ ended' = TRUE /\ synced' \in 0..Len(disk')
    BY <1>1, <1>2, <1>4, <2>3
  <2>. QED
    BY <1>2, <2>2, <2>3, <2>4, <2>5 DEF FileKept, DamageIsLast, ChainNeverForks, Readable
<1>5. ASSUME NEW n \in synced+1..Len(disk), NEW l \in {Garbage, disk[n]},
             disk' = Append(SubSeq(disk, 1, n-1), l), ended' = FALSE
      PROVE  FileKept
  <2>. DEFINE d == SubSeq(disk, 1, n-1)
  <2>1. n-1 \in 0..Len(disk) /\ n-1 < Len(disk) /\ n \in 1..Len(disk) /\ backend = "jsonl"
    BY <1>1
  <2>2. d \in Seq(Entry) /\ VerifyChain(d)
    BY <2>1, PartIsChain
  <2>3. d \in Seq(Line) /\ l \in Line /\ \A i \in DOMAIN d : d[i] # Garbage
    BY <1>1, <2>1, <2>2, StoreAssumption DEF Line
  <2>. HIDE DEF d
  <2>4. disk' = Append(d, l)
    BY <1>5 DEF d
  <2>5. disk' \in Seq(Line) /\ Len(disk') \in Nat
        /\ \A i \in DOMAIN disk' : disk'[i] = Garbage => i = Len(disk')
    BY <2>3, <2>4
  <2>6. ended' = FALSE /\ synced' \in 0..Len(disk') /\ backend' = "jsonl"
    BY <1>2, <1>5, <2>1, <2>5
  <2>7. DamageIsLast'
    BY <2>5, <2>6 DEF DamageIsLast
  <2>8. CASE l = Garbage
    <3>1. Clean(disk') = d
      BY <2>3, <2>4, <2>8, FrontAppend DEF Clean
    <3>. QED
      BY <2>1, <2>2, <2>5, <2>6, <2>7, <3>1 DEF FileKept, ChainNeverForks
  <2>9. CASE l # Garbage
    <3>1. Clean(disk') = disk'
      BY <2>3, <2>4, <2>9, FrontAppend DEF Clean
    <3>2. disk' = SubSeq(disk, 1, n)
      BY <1>1, <1>5, <2>1, <2>9
    <3>3. VerifyChain(disk')
      <4>1. CASE n = Len(disk)
        <5>1. disk' = disk
          BY <1>1, <3>2, <4>1
        <5>. QED
          BY <3>1, <5>1 DEF ChainInv, ChainNeverForks
      <4>2. CASE n < Len(disk)
        BY <1>1, <2>1, <3>2, <4>2, PartIsChain
      <4>. QED
        BY <1>1, <2>1, <4>1, <4>2
    <3>. QED
      BY <2>1, <2>5, <2>6, <2>7, <3>1, <3>3 DEF FileKept, ChainNeverForks
  <2>. QED
    BY <2>8, <2>9
<1>. QED
  BY <1>3, <1>4, <1>5 DEF PowerLoss

(* A power loss leaves no thread with a lock or an entry in hand. *)
LEMMA PowerLossStep ==
    ASSUME ChainInv, PowerLoss
    PROVE  ChainInv'
<1>. DEFINE idle == IdleThread(<<>>)
<1>1. idle \in ThreadType /\ idle.pc = "idle" /\ idle.val = None
  <2>1. <<>> \in Seq(Entry)
    OBVIOUS
  <2>. QED
    BY <2>1, IdleType
<1>. HIDE DEF idle
<1>2. thread' = [t \in Thread |-> idle]
  BY DEF PowerLoss, idle
<1>3. budget' \in [Event -> Nat]
  BY SpendTyped DEF PowerLoss, Event
<1>4. FileKept
  BY PowerLossFile
<1>5. UNCHANGED <<backend, used, returned>> /\ lock' = [p \in Process |-> None] /\ writer' = None
  BY DEF PowerLoss
<1>6. TypeOK'
  BY <1>1, <1>2, <1>3, <1>4, <1>5 DEF ChainInv, TypeOK, FileKept, Line
<1>7. ASSUME NEW t \in Thread
      PROVE  Holding(t)' /\ InHand(t)'
  BY <1>1, <1>2 DEF Holding, InHand
<1>. QED
  BY <1>4, <1>5, <1>6, <1>7 DEF ChainInv, FileKept

-----------------------------------------------------------------------------
(* A new store has an empty chain. *)
LEMMA InitChain == Init => ChainInv
<1>. SUFFICES ASSUME Init PROVE ChainInv
  OBVIOUS
<1>1. <<>> \in Seq(Entry) /\ <<>> \in Seq(Entry \cup {Garbage}) /\ Len(<<>>) = 0
  OBVIOUS
<1>2. \A t \in Thread : thread[t] = IdleThread(<<>>)
  BY DEF Init
<1>3. IdleThread(<<>>) \in ThreadType /\ IdleThread(<<>>).pc = "idle" /\ IdleThread(<<>>).val = None
  BY <1>1, IdleType
<1>4. TypeOK
  BY <1>1, <1>3, StoreAssumption DEF Init, TypeOK
<1>5. \A t \in Thread : Holding(t) /\ InHand(t)
  BY <1>2, <1>3 DEF Holding, InHand
<1>. QED
  BY <1>1, <1>4, <1>5 DEF Init, ChainInv, DamageIsLast, ChainNeverForks, Clean, VerifyChain

(* A step that changes nothing. *)
LEMMA StutterChain == ChainInv /\ UNCHANGED vars => ChainInv'
BY DEF ChainInv, TypeOK, DamageIsLast, ChainNeverForks, Holding, InHand, vars

(* Every step keeps the invariant. *)
LEMMA NextChain == ChainInv /\ [Next]_vars => ChainInv'
<1>. SUFFICES ASSUME ChainInv, Next PROVE ChainInv'
  BY StutterChain
<1>1. ASSUME NEW t \in Thread, Step(t) PROVE ChainInv'
  BY <1>1, TakeLockStep, BeginImmediateStep, BusyTimeoutStep, BuildStep, InsertStep, CommitStep,
     RollbackStep, WriteSomeStep, WriteRestStep, FsyncStep, ReturnStep, FetchStep DEF Step
<1>2. ASSUME NEW t \in Thread, CallEntries(t) PROVE ChainInv'
  BY <1>2, CallEntriesStep
<1>3. ASSUME NEW t \in Thread, NEW v \in Payload, CallAppend(t, v) PROVE ChainInv'
  BY <1>3, CallAppendStep
<1>4. ASSUME NEW p \in Process, ProcessCrash(p) PROVE ChainInv'
  BY <1>4, ProcessCrashStep
<1>5. CASE PowerLoss
  BY <1>5, PowerLossStep
<1>. QED
  BY <1>1, <1>2, <1>3, <1>4, <1>5 DEF Next

(* The chain of the ledger never forks: at all times the entries that can  *)
(* be read are what verify_chain accepts.                                  *)
THEOREM ChainHolds == Spec => []ChainNeverForks
<1>1. ChainInv => ChainNeverForks
  BY DEF ChainInv
<1>. QED
  BY <1>1, InitChain, NextChain, PTL DEF Spec

(* A SQLite ledger is always readable, a JSONL one but for its last line. *)
THEOREM DamageStaysLast == Spec => []DamageIsLast
<1>1. ChainInv => DamageIsLast
  BY DEF ChainInv
<1>. QED
  BY <1>1, InitChain, NextChain, PTL DEF Spec

(* The store's variables have their types. *)
THEOREM StoreTyped == Spec => []TypeOK
<1>1. ChainInv => TypeOK
  BY DEF ChainInv
<1>. QED
  BY <1>1, InitChain, NextChain, PTL DEF Spec

-----------------------------------------------------------------------------
(***************************************************************************)
(* What is kept.  An entry whose append has returned lies in the synced    *)
(* part of the file and is complete with its newline, or else the file has *)
(* become unreadable for good.  Payloads are apart: on disk and in hand    *)
(* each is found once, so an entry that a crash or a broken line takes     *)
(* away is nobody's any more, and its append never returns.                *)
(***************************************************************************)

OnDisk(v, i) == i \in DOMAIN disk /\ disk[i] # Garbage /\ disk[i].val = v

Kept(v) == \E i \in 1..synced : OnDisk(v, i) /\ (i = Len(disk) => ended)
Spoiled == disk # <<>> /\ synced = Len(disk) /\ disk[Len(disk)] = Garbage
Safe(v) == Kept(v) \/ Spoiled

(* What a thread on its way to return can rely on. *)
Written(t) ==
    LET f == thread[t] IN
    /\ f.pc = "finish" => ~ended /\ (f.line # Garbage => synced < Len(disk))
    /\ f.pc = "fsync" =>
          /\ ended
          /\ disk # <<>>
          /\ disk[Len(disk)] # Garbage => disk[Len(disk)].val = f.val
    /\ f.pc = "return" => Safe(f.val)

(* Whose a payload is. *)
Own(t) ==
    LET f == thread[t] IN
    f.val # None =>
       /\ f.val \notin returned
       /\ \A u \in Thread \ {t} : thread[u].val # f.val
       /\ \A i \in DOMAIN disk : OnDisk(f.val, i) =>
             /\ f.pc \in {"finish", "fsync", "return", "rollback"}
             /\ f.pc = "finish" => i = Len(disk)
Once ==
    /\ \A v \in Payload, i \in DOMAIN disk : OnDisk(v, i) => v \in used
    /\ \A v \in Payload, i, j \in DOMAIN disk : OnDisk(v, i) /\ OnDisk(v, j) => i = j

(* A last line without its newline has not been acknowledged. *)
Unended ==
    ~ended => /\ disk # <<>>
              /\ \A v \in Payload : OnDisk(v, Len(disk)) =>
                    /\ v \notin returned
                    /\ \A t \in Thread : thread[t].val = v => At(t, "finish")

(* What was read is still there, or its last entry was overwritten before  *)
(* its append returned.                                                    *)
Begins(a) == Len(a) <= Len(disk) /\ \A i \in 1..Len(a) : a[i] = disk[i]
Overwritten(a) ==
    /\ a # <<>> /\ disk # <<>> /\ disk[Len(disk)] = Garbage
    /\ Len(a) <= Len(disk) /\ \A i \in 1..Len(a)-1 : a[i] = disk[i]
    /\ a[Len(a)].val \in used \ returned
    /\ \A u \in Thread : /\ thread[u].val # a[Len(a)].val
                         /\ At(u, "finish") => thread[u].line = Garbage

Answered(t) == Begins(thread[t].answer) \/ Overwritten(thread[t].answer)

KeptInv ==
    /\ \A v \in returned : Safe(v)
    /\ \A t \in Thread : Written(t) /\ Own(t) /\ Answered(t)
    /\ Once /\ Unended

-----------------------------------------------------------------------------
(* Payloads that are on record have their type. *)
LEMMA OnDiskType ==
    ASSUME ChainInv, NEW v, NEW i, OnDisk(v, i)
    PROVE  v \in Payload /\ disk[i] \in Entry /\ i \in 1..Len(disk)
BY ThreadFacts DEF ChainInv, TypeOK, OnDisk, Entry, Line

(* A thread that writes in a file that does not end in a newline, or has   *)
(* written in it, is alone in it.                                          *)
LEMMA WritesAlone ==
    ASSUME ChainInv, NEW t \in Thread, NEW u \in Thread \ {t},
           thread[t].pc \in {"commit", "write", "finish", "fsync"}
    PROVE  thread[u].pc \notin {"insert", "commit", "write", "finish", "fsync"}
<1>1. Holding(t) /\ Holding(u) /\ backend \in {"sqlite", "jsonl"}
  BY ThreadFacts
<1>2. CASE backend = "sqlite"
  BY <1>1, <1>2 DEF Holding
<1>3. CASE backend = "jsonl"
  <2>1. Home[t] = Owner /\ lock[Home[t]] = t
    BY <1>1, <1>3 DEF Holding
  <2>. QED
    BY <1>1, <1>3, <2>1 DEF Holding
<1>. QED
  BY <1>1, <1>2, <1>3

-----------------------------------------------------------------------------
(* Steps that leave the lines of the file alone *)

Settled == {"finish", "fsync", "return", "rollback"}

(* What such a step may make of a thread. *)
GoesQuietly(u) ==
    LET f == thread[u]  g == thread'[u] IN
    \/ g = f
    \/ /\ g.pc # "finish"
       /\ \/ g.val = None
          \/ g.val = f.val /\ f.pc # "finish" /\ (f.pc \in Settled => g.pc \in Settled)
       /\ g.answer \in {<<>>, f.answer} \/ (Readable(disk) /\ g.answer = disk)
       /\ Written(u)'

(* It loses nothing. *)
LEMMA SafeStill ==
    ASSUME ChainInv, UNCHANGED <<disk, ended>>, synced' \in {synced, Len(disk)}, NEW v, Safe(v)
    PROVE  Safe(v)'
<1>1. synced \in 0..Len(disk) /\ Len(disk) \in Nat
  BY ThreadFacts DEF ChainInv, TypeOK
<1>2. CASE Spoiled
  BY <1>1, <1>2 DEF Safe, Spoiled
<1>3. CASE Kept(v)
  <2>1. PICK i \in 1..synced : OnDisk(v, i) /\ (i = Len(disk) => ended)
    BY <1>3 DEF Kept
  <2>2. i \in 1..synced'
    BY <1>1, <2>1
  <2>. QED
    BY <2>1, <2>2 DEF Safe, Kept, OnDisk
<1>. QED
  BY <1>2, <1>3 DEF Safe

(* It keeps the invariant. *)
LEMMA QuietKept ==
    ASSUME ChainInv, ChainInv', KeptInv,
           UNCHANGED <<disk, ended, used, returned>>,
           \/ synced' = synced
           \/ synced' = Len(disk) /\ \A u \in Thread : ~At(u, "finish"),
           \A u \in Thread : GoesQuietly(u)
    PROVE  KeptInv'
<1>1. \A v \in returned' : Safe(v)'
  BY SafeStill DEF KeptInv
<1>2. \A u \in Thread : \/ thread'[u].val = None
                        \/ /\ thread'[u].val = thread[u].val
                           /\ thread[u].pc = "finish" <=> thread'[u].pc = "finish"
                           /\ thread[u].pc \in Settled => thread'[u].pc \in Settled
  BY DEF GoesQuietly
<1>3. ASSUME NEW u \in Thread PROVE Written(u)'
  <2>1. CASE thread'[u] = thread[u]
    <3>1. Written(u)
      BY DEF KeptInv
    <3>2. PICK v : v = thread[u].val
      OBVIOUS
    <3>3. thread[u].pc = "return" => Safe(v)'
      BY <3>1, <3>2, SafeStill DEF Written
    <3>4. thread'[u].pc = "return" => Safe(thread[u].val)'
      BY <2>1, <3>2, <3>3 DEF Safe, Kept, Spoiled, OnDisk
    <3>. QED
      BY <2>1, <3>1, <3>4 DEF Written, At
  <2>. QED
    BY <2>1 DEF GoesQuietly
<1>4. ASSUME NEW u \in Thread PROVE Own(u)'
  BY <1>2 DEF KeptInv, Own, OnDisk, Settled
<1>5. Once'
  BY DEF KeptInv, Once, OnDisk
<1>6. Unended'
  BY <1>2, StoreAssumption DEF KeptInv, Unended, OnDisk, At
<1>7. ASSUME NEW a, Begins(a) \/ Overwritten(a)
      PROVE  Begins(a)' \/ Overwritten(a)'
  <2>1. CASE Begins(a)
    BY <2>1 DEF Begins
  <2>2. CASE Overwritten(a)
    <3>1. a[Len(a)].val \in Payload
      BY <2>2 DEF Overwritten, ChainInv, TypeOK
    <3>2. \A w \in Thread : /\ thread'[w].val # a[Len(a)].val
                            /\ thread'[w].pc = "finish" => thread'[w].line = Garbage
      BY <2>2, <3>1, StoreAssumption DEF Overwritten, GoesQuietly, At
    <3>. QED
      BY <2>2, <3>2 DEF Overwritten, At
  <2>. QED
    BY <1>7, <2>1, <2>2
<1>8. ASSUME NEW u \in Thread PROVE Answered(u)'
  <2>1. thread'[u].answer \in {<<>>, thread[u].answer, disk}
    BY DEF GoesQuietly
  <2>2. CASE thread'[u].answer = <<>> \/ thread'[u].answer = disk
    <3>1. Len(disk) \in Nat /\ disk' = disk
      BY ThreadFacts
    <3>. QED
      BY <2>2, <3>1 DEF Answered, Begins
  <2>3. CASE thread'[u].answer = thread[u].answer
    <3>1. PICK a : a = thread[u].answer
      OBVIOUS
    <3>2. Begins(a) \/ Overwritten(a)
      BY <3>1 DEF KeptInv, Answered
    <3>3. Begins(a)' \/ Overwritten(a)'
      BY <1>7, <3>2
    <3>. QED
      BY <2>3, <3>1, <3>3 DEF Answered, Begins, Overwritten, At
  <2>. QED
    BY <2>1, <2>2, <2>3
<1>. QED
  BY <1>1, <1>3, <1>4, <1>5, <1>6, <1>8 DEF KeptInv

(* A step of one thread does if that thread goes quietly, *)
LEMMA QuietOne ==
    ASSUME ChainInv, ChainInv', KeptInv, NEW t \in Thread, NEW r, Become(t, r),
           UNCHANGED <<disk, ended, used, returned>>,
           \/ synced' = synced
           \/ synced' = Len(disk) /\ \A u \in Thread : ~At(u, "finish"),
           GoesQuietly(t)
    PROVE  KeptInv'
<1>1. \A u \in Thread : GoesQuietly(u)
  BY ThreadFacts DEF GoesQuietly, Become
<1>. QED
  BY <1>1, QuietKept

(* as it does when it raises, *)
LEMMA RaisesQuietly ==
    ASSUME ChainInv, NEW t \in Thread, Raise(t)
    PROVE  GoesQuietly(t) /\ Become(t, IdleThread(<<>>))
<1>1. thread'[t] = IdleThread(<<>>)
  BY ThreadFacts DEF Raise, Leave, Become
<1>2. IdleThread(<<>>).pc = "idle" /\ IdleThread(<<>>).val = None /\ IdleThread(<<>>).answer = <<>>
  BY DEF IdleThread
<1>. QED
  BY <1>1, <1>2 DEF GoesQuietly, Raise, Leave, Written

(* and when it goes on to where it need not have written. *)
LEMMA GoesOnQuietly ==
    ASSUME ChainInv, NEW t \in Thread, NEW l \in Label \ {"finish", "fsync", "return"}, Goto(t, l),
           thread[t].pc \notin Settled \/ (thread[t].pc # "finish" /\ l \in Settled)
    PROVE  GoesQuietly(t) /\ Become(t, [thread[t] EXCEPT !.pc = l])
<1>. DEFINE r == [thread[t] EXCEPT !.pc = l]
<1>1. thread'[t] = r
  BY ThreadFacts DEF Goto, Become
<1>2. r.pc = l /\ r.val = thread[t].val /\ r.answer = thread[t].answer
  BY ThreadFacts DEF ThreadType
<1>. HIDE DEF r
<1>3. Written(t)'
  BY <1>1, <1>2 DEF Written
<1>. QED
  BY <1>1, <1>2, <1>3 DEF GoesQuietly, Goto, Settled, r

(* Locks, transactions and reads leave the lines alone. *)
LEMMA QuietSteps ==
    ASSUME ChainInv, ChainInv', KeptInv, NEW t \in Thread,
           \/ TakeLock(t) \/ BeginImmediate(t) \/ BusyTimeout(t) \/ Build(t) \/ Insert(t)
           \/ Rollback(t) \/ CallEntries(t) \/ Fetch(t)
           \/ Commit(t) /\ UNCHANGED <<disk, synced>>
    PROVE  KeptInv'
<1>1. UNCHANGED <<disk, ended, synced, used, returned>>
  BY DEF TakeLock, BeginImmediate, BusyTimeout, Build, Insert, Rollback, CallEntries, Fetch, Commit,
     file
<1>2. CASE Raise(t)
  BY <1>1, <1>2, RaisesQuietly, QuietOne
<1>3. ASSUME NEW l \in Label \ {"finish", "fsync", "return"}, Goto(t, l), thread[t].pc \notin Settled
      PROVE  KeptInv'
  BY <1>1, <1>3, GoesOnQuietly, QuietOne
<1>4. CASE TakeLock(t)
  BY <1>3, <1>4 DEF TakeLock, AfterLock, At, Settled, Label
<1>5. CASE BeginImmediate(t)
  BY <1>2, <1>3, <1>5 DEF BeginImmediate, At, Settled, Label
<1>6. CASE BusyTimeout(t) \/ Rollback(t)
  BY <1>2, <1>6 DEF BusyTimeout, Rollback
<1>7. CASE Build(t) /\ ~Raise(t)
  <2>. DEFINE e == Built(disk, thread[t].val)
              l == IF backend = "sqlite" THEN "insert" ELSE "write"
              r == [thread[t] EXCEPT !.line = e, !.pc = l]
  <2>1. Become(t, r) /\ thread[t].pc = "build" /\ thread'[t] = r
    BY <1>7, ThreadFacts DEF Build, At, Become
  <2>2. l \in {"insert", "write"}
    OBVIOUS
  <2>. HIDE DEF l, e
  <2>3. r.pc = l /\ r.val = thread[t].val /\ r.answer = thread[t].answer
    BY ThreadFacts DEF ThreadType
  <2>. HIDE DEF r
  <2>4. Written(t)'
    BY <2>1, <2>2, <2>3 DEF Written
  <2>5. GoesQuietly(t)
    BY <2>1, <2>2, <2>3, <2>4 DEF GoesQuietly, Settled
  <2>. QED
    BY <1>1, <2>1, <2>5, QuietOne
<1>8. CASE Insert(t)
  <2>1. PICK l \in {"commit", "rollback"} : Goto(t, l)
    BY <1>8 DEF Insert
  <2>. QED
    BY <1>3, <1>8, <2>1 DEF Insert, At, Settled, Label
<1>9. CASE CallEntries(t)
  <2>. DEFINE r == [IdleThread(<<>>) EXCEPT !.pc = "lock"]
  <2>1. Become(t, r) /\ thread'[t] = r
    BY <1>9, ThreadFacts DEF CallEntries, Become
  <2>2. r.pc = "lock" /\ r.val = None /\ r.answer = <<>>
    BY DEF IdleThread
  <2>. HIDE DEF r
  <2>3. GoesQuietly(t)
    BY <2>1, <2>2 DEF GoesQuietly, Written
  <2>. QED
    BY <1>1, <2>1, <2>3, QuietOne
<1>10. CASE Fetch(t) /\ ~Raise(t)
  <2>1. Visible(Home[t]) = disk
    <3>1. thread[t].pc = "fetch" /\ lock[Home[t]] = t
      BY <1>10, ThreadFacts DEF Fetch, At, Holding
    <3>. QED
      BY <3>1, ThreadFacts DEF Holding, Visible, At
  <2>2. Leave(t, disk) /\ Readable(disk)
    BY <1>10, <2>1 DEF Fetch
  <2>3. Become(t, IdleThread(disk)) /\ thread'[t] = IdleThread(disk)
    BY <2>2, ThreadFacts DEF Leave, Become
  <2>4. /\ IdleThread(disk).pc = "idle" /\ IdleThread(disk).val = None
        /\ IdleThread(disk).answer = disk
    BY DEF IdleThread
  <2>5. GoesQuietly(t)
    BY <2>2, <2>3, <2>4 DEF GoesQuietly, Written
  <2>. QED
    BY <1>1, <2>3, <2>5, QuietOne
<1>11. CASE Commit(t) /\ UNCHANGED <<disk, synced>>
  <2>1. Len(disk) \in Nat /\ disk \in Seq(Line)
    BY ThreadFacts
  <2>2. thread[t].pc = "commit" /\ Goto(t, "rollback")
    <3>1. disk # Append(disk, thread[t].line)
      <4>1. thread[t].line \in Line
        BY ReadyToWrite, BuiltType, <1>11 DEF Commit, At, Line
      <4>. QED
        BY <2>1, <4>1
    <3>. QED
      BY <1>11, <3>1 DEF Commit, At
  <2>. QED
    BY <1>3, <2>2 DEF Settled, Label
<1>. QED
  BY <1>2, <1>4, <1>5, <1>6, <1>7, <1>8, <1>9, <1>10, <1>11

(* A line that has been synced is safe. *)
LEMMA FsyncKept ==
    ASSUME ChainInv, ChainInv', KeptInv, NEW t \in Thread, Fsync(t)
    PROVE  KeptInv'
<1>1. /\ thread[t].pc = "fsync" /\ Written(t) /\ thread[t].val \in Payload
      /\ UNCHANGED <<disk, ended, used, returned>>
  BY ThreadFacts DEF Fsync, At, KeptInv, Holding
<1>2. CASE Raise(t) /\ synced' = synced
  BY <1>1, <1>2, RaisesQuietly, QuietOne
<1>3. CASE synced' = Len(disk) /\ Goto(t, "return")
  <2>. DEFINE r == [thread[t] EXCEPT !.pc = "return"]
  <2>1. r.pc = "return" /\ r.val = thread[t].val /\ r.answer = thread[t].answer
    BY ThreadFacts DEF ThreadType
  <2>2. Become(t, r) /\ thread'[t] = r
    BY <1>3, ThreadFacts DEF Goto, Become
  <2>. HIDE DEF r
  <2>3. PICK v : v = thread[t].val
    OBVIOUS
  <2>4. Safe(v)'
    <3>1. ended /\ disk # <<>> /\ Len(disk) \in DOMAIN disk /\ Len(disk) \in 1..Len(disk)
      BY <1>1, ThreadFacts DEF Written
    <3>2. CASE disk[Len(disk)] = Garbage
      BY <1>1, <1>3, <3>1, <3>2 DEF Safe, Spoiled
    <3>3. CASE disk[Len(disk)] # Garbage
      <4>1. disk[Len(disk)].val = v
        BY <1>1, <2>3, <3>3 DEF Written
      <4>. QED
        BY <1>1, <1>3, <3>1, <3>3, <4>1 DEF Safe, Kept, OnDisk
    <3>. QED
      BY <3>2, <3>3
  <2>5. Written(t)'
    BY <2>1, <2>2, <2>3, <2>4 DEF Written, Safe, Kept, Spoiled, OnDisk
  <2>6. GoesQuietly(t)
    BY <1>1, <2>1, <2>2, <2>5 DEF GoesQuietly, Settled
  <2>7. \A u \in Thread : ~At(u, "finish")
    BY <1>1, WritesAlone DEF At
  <2>. QED
    BY <1>1, <1>3, <2>2, <2>6, <2>7, QuietOne
<1>. QED
  BY <1>2, <1>3 DEF Fsync

(* What a process that crashes had in hand is nobody's. *)
LEMMA CrashKept ==
    ASSUME ChainInv, ChainInv', KeptInv, NEW p \in Process, ProcessCrash(p)
    PROVE  KeptInv'
<1>1. IdleThread(<<>>).pc = "idle" /\ IdleThread(<<>>).val = None /\ IdleThread(<<>>).answer = <<>>
  BY DEF IdleThread
<1>2. ASSUME NEW u \in Thread PROVE GoesQuietly(u)
  <2>1. thread'[u] = IF Home[u] = p THEN IdleThread(<<>>) ELSE thread[u]
    BY DEF ProcessCrash
  <2>. QED
    BY <1>1, <2>1 DEF GoesQuietly, Written
<1>3. UNCHANGED <<disk, ended, synced, used, returned>>
  BY DEF ProcessCrash, file
<1>. QED
  BY <1>2, <1>3, QuietKept

(* A payload that is handed to append is new. *)
LEMMA CallAppendKept ==
    ASSUME ChainInv, ChainInv', KeptInv, NEW t \in Thread, NEW v \in Payload, CallAppend(t, v)
    PROVE  KeptInv'
<1>. DEFINE r == [IdleThread(<<>>) EXCEPT !.pc = "lock", !.val = v]
<1>1. r.pc = "lock" /\ r.val = v /\ r.answer = <<>>
  BY DEF IdleThread
<1>2. thread' = [thread EXCEPT ![t] = r] /\ thread'[t] = r
  BY ThreadFacts DEF CallAppend, Become
<1>. HIDE DEF r
<1>3. \A u \in Thread \ {t} : thread'[u] = thread[u]
  BY <1>2, ThreadFacts
<1>4. /\ UNCHANGED <<disk, ended, synced, returned>> /\ v \notin used /\ used' = used \cup {v}
      /\ returned \subseteq used /\ v # None
  BY ThreadFacts, StoreAssumption DEF CallAppend, file
<1>5. \A u \in Thread : thread[u].val \in used \cup {None}
  BY ThreadFacts DEF Holding
<1>6. \A w : Safe(w) => Safe(w)'
  BY <1>4 DEF Safe, Kept, Spoiled, OnDisk
<1>7. ASSUME NEW u \in Thread PROVE Written(u)'
  <2>1. CASE u = t
    BY <1>1, <1>2, <2>1 DEF Written
  <2>2. CASE u # t
    <3>1. Written(u) /\ thread'[u] = thread[u]
      BY <1>3, <2>2 DEF KeptInv
    <3>. QED
      BY <1>4, <3>1 DEF Written, Safe, Kept, Spoiled, OnDisk
  <2>. QED
    BY <2>1, <2>2
<1>8. Once' /\ \A i \in DOMAIN disk : ~OnDisk(v, i)
  BY <1>4 DEF KeptInv, Once, OnDisk
<1>9. ASSUME NEW u \in Thread PROVE Own(u)'
  <2>1. CASE u = t
    BY <1>1, <1>2, <1>3, <1>4, <1>5, <1>8, <2>1 DEF Own, OnDisk
  <2>2. CASE u # t
    <3>1. Own(u) /\ thread'[u] = thread[u] /\ thread[u].val # v
      BY <1>3, <1>4, <1>5, <2>2 DEF KeptInv
    <3>. QED
      BY <1>1, <1>2, <1>3, <1>4, <2>2, <3>1 DEF Own, OnDisk
  <2>. QED
    BY <2>1, <2>2
<1>10. Unended'
  BY <1>1, <1>2, <1>3, <1>4, <1>8 DEF KeptInv, Unended, OnDisk, At
<1>11. ASSUME NEW u \in Thread PROVE Answered(u)'
  <2>1. CASE u = t
    BY <1>1, <1>2, <1>4, <2>1, ThreadFacts DEF Answered, Begins
  <2>2. CASE u # t
    <3>1. Answered(u) /\ thread'[u] = thread[u]
      BY <1>3, <2>2 DEF KeptInv
    <3>2. CASE Begins(thread[u].answer)
      BY <1>4, <3>1, <3>2 DEF Answered, Begins
    <3>3. CASE Overwritten(thread[u].answer)
      <4>1. \A w \in Thread : /\ thread'[w].val # thread[u].answer[Len(thread[u].answer)].val
                              /\ thread'[w].pc = "finish" => thread'[w].line = Garbage
        BY <1>1, <1>2, <1>3, <1>4, <3>3 DEF Overwritten, At
      <4>. QED
        BY <1>4, <3>1, <3>3, <4>1 DEF Answered, Overwritten, At
    <3>. QED
      BY <3>1, <3>2, <3>3 DEF Answered
  <2>. QED
    BY <2>1, <2>2
<1>. QED
  BY <1>4, <1>6, <1>7, <1>8, <1>9, <1>10, <1>11 DEF KeptInv

(* Only what is safe is returned. *)
LEMMA ReturnKept ==
    ASSUME ChainInv, ChainInv', KeptInv, NEW t \in Thread, Return(t)
    PROVE  KeptInv'
<1>1. PICK v : v = thread[t].val
  OBVIOUS
<1>2. thread[t].pc = "return" /\ v \in Payload /\ v # None /\ Own(t) /\ Safe(v)
  BY <1>1, ThreadFacts, StoreAssumption DEF Return, At, Holding, KeptInv, Written
<1>3. UNCHANGED <<disk, ended, synced, used>> /\ returned' = returned \cup {v}
  BY <1>1 DEF Return, file
<1>4. thread'[t] = IdleThread(<<>>) /\ \A u \in Thread \ {t} : thread'[u] = thread[u]
  BY ThreadFacts DEF Return, Leave, Become
<1>5. IdleThread(<<>>).pc = "idle" /\ IdleThread(<<>>).val = None /\ IdleThread(<<>>).answer = <<>>
  BY DEF IdleThread
<1>6. \A w : Safe(w) => Safe(w)'
  BY <1>3 DEF Safe, Kept, Spoiled, OnDisk
<1>7. \A w \in returned' : Safe(w)'
  BY <1>2, <1>3, <1>6 DEF KeptInv
<1>8. \A u \in Thread \ {t} : thread[u].val # v
  BY <1>1, <1>2 DEF Own
<1>9. ASSUME NEW u \in Thread PROVE Written(u)'
  <2>1. CASE u = t
    BY <1>4, <1>5, <2>1 DEF Written
  <2>2. CASE u # t
    <3>1. Written(u) /\ thread'[u] = thread[u]
      BY <1>4, <2>2 DEF KeptInv
    <3>. QED
      BY <1>3, <3>1 DEF Written, Safe, Kept, Spoiled, OnDisk
  <2>. QED
    BY <2>1, <2>2
<1>10. ASSUME NEW u \in Thread PROVE Own(u)'
  <2>1. CASE u = t
    BY <1>4, <1>5, <2>1 DEF Own
  <2>2. CASE u # t
    <3>1. Own(u) /\ thread'[u] = thread[u] /\ thread[u].val # v
      BY <1>4, <1>8, <2>2 DEF KeptInv
    <3>. QED
      BY <1>3, <1>4, <1>5, <2>2, <3>1 DEF Own, OnDisk
  <2>. QED
    BY <2>1, <2>2
<1>11. Once'
  BY <1>3 DEF KeptInv, Once, OnDisk
<1>12. Unended'
  <2>1. ~ended => ~OnDisk(v, Len(disk))
    BY <1>1, <1>2 DEF KeptInv, Unended, At
  <2>. QED
    BY <1>3, <1>4, <1>5, <2>1, StoreAssumption DEF KeptInv, Unended, OnDisk, At
<1>13. ASSUME NEW u \in Thread PROVE Answered(u)'
  <2>1. CASE u = t
    BY <1>3, <1>4, <1>5, <2>1, ThreadFacts DEF Answered, Begins
  <2>2. CASE u # t
    <3>1. Answered(u) /\ thread'[u] = thread[u]
      BY <1>4, <2>2 DEF KeptInv
    <3>2. CASE Begins(thread[u].answer)
      BY <1>3, <3>1, <3>2 DEF Answered, Begins
    <3>3. CASE Overwritten(thread[u].answer)
      <4>. DEFINE w == thread[u].answer[Len(thread[u].answer)].val
      <4>1. w # v /\ w \in used \ returned /\ w # None
        BY <1>1, <3>3, ThreadFacts, StoreAssumption DEF Overwritten
      <4>2. \A x \in Thread : /\ thread'[x].val # w
                              /\ thread'[x].pc = "finish" => thread'[x].line = Garbage
        BY <1>4, <1>5, <3>3, <4>1 DEF Overwritten, At
      <4>. QED
        BY <1>3, <3>1, <3>3, <4>1, <4>2 DEF Answered, Overwritten, At
    <3>. QED
      BY <3>1, <3>2, <3>3 DEF Answered
  <2>. QED
    BY <2>1, <2>2
<1>. QED
  BY <1>7, <1>9, <1>10, <1>11, <1>12, <1>13 DEF KeptInv

-----------------------------------------------------------------------------
(* Steps that write a line *)

(* Line l becomes the last one, after the first m, which stay.  A last     *)
(* line that it replaces had no newline.                                   *)
Puts(m, l) ==
    /\ m \in Nat /\ Len(disk') = m + 1 /\ disk'[m + 1] = l
    /\ \A i \in 1..m : i \in DOMAIN disk /\ disk'[i] = disk[i]
    /\ Len(disk) = m \/ (Len(disk) = m + 1 /\ ~ended)
    /\ synced' \in 0..Len(disk') /\ synced' >= synced
    /\ UNCHANGED <<used, returned>>

(* What t has in hand is in l, or lost. *)
Writes(t, m, l) ==
    /\ l # Garbage => /\ l.val = thread[t].val /\ thread[t].val \in Payload
                      /\ \A i \in 1..m : ~OnDisk(thread[t].val, i)
    /\ \A u \in Thread \ {t} : /\ thread'[u] = thread[u]
                               /\ thread[u].pc \notin {"finish", "fsync"}
    /\ thread'[t].answer \in {<<>>, thread[t].answer}
    /\ \/ thread'[t].val = None
       \/ thread'[t].val = thread[t].val /\ thread'[t].pc \in Settled
    /\ thread'[t].val # None /\ l # Garbage /\ ~ended' => thread'[t].pc = "finish"
    /\ thread[t].pc = "finish" => thread'[t].pc # "finish"

(* What is more than the log had: not yet on record, and put there by the  *)
(* thread that writes, into a file that can be read.                       *)
Grows(m, l) ==
    l # Garbage => /\ l.val \in Payload /\ \A i \in 1..m : ~OnDisk(l.val, i)
                   /\ Readable(disk) \/ BeingWritten
                   /\ Len(disk) = m \/ disk[m + 1] \in {Garbage, l}

(* What the file was spoiled by stays, and nothing else is lost. *)
LEMMA SafeWriting ==
    ASSUME ChainInv, NEW m, NEW l, Puts(m, l), Spoiled => Spoiled', NEW v, Safe(v)
    PROVE  Safe(v)'
<1>1. synced \in 0..Len(disk) /\ Len(disk) \in Nat
  BY ThreadFacts DEF ChainInv, TypeOK
<1>2. CASE Spoiled
  BY <1>2 DEF Safe
<1>3. CASE Kept(v)
  <2>1. PICK i : i \in 1..synced /\ OnDisk(v, i) /\ (i = Len(disk) => ended)
    BY <1>3 DEF Kept
  <2>2. i \in 1..m /\ disk'[i] = disk[i] /\ i \in DOMAIN disk
    <3>1. m \in Nat /\ (Len(disk) = m \/ (Len(disk) = m + 1 /\ ~ended))
      BY DEF Puts
    <3>2. i \in 1..Len(disk)
      BY <1>1, <2>1
    <3>3. i \in 1..m
      BY <2>1, <3>1, <3>2
    <3>. QED
      BY <3>3 DEF Puts
  <2>3. i \in 1..synced' /\ i # Len(disk')
    <3>1. m \in Nat /\ Len(disk') = m + 1 /\ synced' \in 0..Len(disk') /\ synced' >= synced
      BY DEF Puts
    <3>. QED
      BY <1>1, <2>1, <2>2, <3>1
  <2>. QED
    <3>1. i \in DOMAIN disk'
      BY <2>2, <2>3 DEF Puts
    <3>. QED
      BY <2>1, <2>2, <2>3, <3>1 DEF Safe, Kept, OnDisk
<1>. QED
  BY <1>2, <1>3 DEF Safe

(* On record after it is what was and stays, or what t had in hand. *)
LEMMA OnRecordThen ==
    ASSUME ChainInv, ChainInv', NEW t \in Thread, NEW m, NEW l, Puts(m, l), Writes(t, m, l),
           NEW v, NEW i, OnDisk(v, i)'
    PROVE  \/ i \in 1..m /\ OnDisk(v, i)
           \/ i = m + 1 /\ l # Garbage /\ v = thread[t].val
<1>1. Len(disk') \in Nat /\ DOMAIN disk' = 1..Len(disk')
  BY DEF ChainInv, TypeOK
<1>2. i \in 1..Len(disk') /\ disk'[i] # Garbage /\ disk'[i].val = v
  BY <1>1 DEF OnDisk
<1>3. CASE i \in 1..m
  BY <1>2, <1>3 DEF Puts, OnDisk
<1>4. CASE i = m + 1
  BY <1>2, <1>4 DEF Puts, Writes
<1>. QED
  BY <1>2, <1>3, <1>4 DEF Puts

(* Answers stay, or lose their last entry to a line that cannot be parsed. *)
LEMMA AnswersThen ==
    ASSUME ChainInv, ChainInv', KeptInv, NEW t \in Thread, NEW m, NEW l, Puts(m, l),
           Writes(t, m, l), Len(disk) = m + 1 => l \in {Garbage, disk[m + 1]} \/ disk[m + 1] = Garbage,
           Len(disk) = m + 1 /\ l = Garbage /\ disk[m + 1] # Garbage => ~At(t, "finish"),
           Len(disk) = m + 1 /\ thread'[t].pc = "finish" => thread'[t].line = Garbage,
           disk # <<>> /\ disk[Len(disk)] = Garbage => Len(disk) = m + 1 /\ At(t, "finish"),
           At(t, "finish") => l = thread[t].line,
           NEW u \in Thread, NEW a, a = thread[u].answer
    PROVE  (Begins(a) \/ Overwritten(a))'
<1>1. a \in Seq(Entry) /\ Len(a) \in Nat /\ Len(disk) \in Nat
  BY ThreadFacts DEF ThreadType
<1>2. Begins(a) \/ Overwritten(a)
  BY DEF KeptInv, Answered
<1>3. m \in Nat /\ Len(disk') = m + 1 /\ disk'[m + 1] = l /\ \A i \in 1..m : disk'[i] = disk[i]
  BY DEF Puts
<1>4. CASE Begins(a) /\ Len(a) <= m
  <2>1. \A i \in 1..Len(a) : i \in 1..m
    BY <1>1, <1>3, <1>4
  <2>. QED
    BY <1>1, <1>3, <1>4, <2>1 DEF Begins
<1>5. CASE Begins(a) /\ ~(Len(a) <= m)
  <2>1. Len(a) = m + 1 /\ Len(disk) = m + 1 /\ ~ended
    BY <1>1, <1>3, <1>5 DEF Begins, Puts
  <2>2. a[m + 1] = disk[m + 1] /\ a[m + 1] \in Entry /\ disk[m + 1] # Garbage
    BY <1>1, <1>3, <1>5, <2>1, StoreAssumption DEF Begins
  <2>3. \A i \in 1..m : a[i] = disk'[i]
    BY <1>1, <1>3, <1>5, <2>1 DEF Begins
  <2>4. CASE l = disk[m + 1]
    <3>1. \A i \in 1..(m + 1) : a[i] = disk'[i]
      BY <1>3, <2>2, <2>3, <2>4
    <3>. QED
      BY <1>3, <2>1, <3>1 DEF Begins
  <2>5. CASE l # disk[m + 1]
    <3>. DEFINE v == a[m + 1].val
    <3>1. l = Garbage /\ v \in Payload
      BY <2>1, <2>2, <2>5 DEF Entry
    <3>2. OnDisk(v, Len(disk))
      <4>1. Len(disk) \in DOMAIN disk
        BY <1>1, <1>3, <2>1, ThreadFacts
      <4>. QED
        BY <2>1, <2>2, <4>1 DEF OnDisk
    <3>3. v \notin returned /\ v \in used
          /\ \A w \in Thread : thread[w].val = v => At(w, "finish")
      BY <2>1, <3>1, <3>2 DEF KeptInv, Unended, Once, OnDisk
    <3>4. \A w \in Thread : ~At(w, "finish")
      BY <2>1, <2>2, <3>1 DEF Writes, At
    <3>5. v # None
      BY <3>1, StoreAssumption
    <3>6. \A w \in Thread : /\ thread'[w].val # v
                            /\ thread'[w].pc = "finish" => thread'[w].line = Garbage
      BY <2>1, <3>3, <3>4, <3>5 DEF Writes, At
    <3>7. used' = used /\ returned' = returned
      BY DEF Puts
    <3>8. a # <<>> /\ disk' # <<>>
      BY <1>3, <2>1
    <3>. HIDE DEF v
    <3>9. a[Len(a)].val = v
      BY <2>1 DEF v
    <3>. QED
      BY <1>3, <2>1, <2>3, <3>1, <3>3, <3>6, <3>7, <3>8, <3>9 DEF Overwritten, At
  <2>. QED
    BY <2>4, <2>5
<1>6. CASE Overwritten(a)
  <2>1. disk # <<>> /\ disk[Len(disk)] = Garbage /\ Len(disk) = m + 1
    BY <1>6 DEF Overwritten
  <2>2. l = Garbage
    BY <1>6 DEF Overwritten
  <2>3. a[Len(a)].val \in used \ returned /\ a[Len(a)].val # None
    BY <1>6, ThreadFacts, StoreAssumption DEF Overwritten
  <2>4. \A w \in Thread : /\ thread'[w].val # a[Len(a)].val
                          /\ thread'[w].pc = "finish" => thread'[w].line = Garbage
    BY <1>6, <2>1, <2>3 DEF Overwritten, Writes, At
  <2>5. used' = used /\ returned' = returned /\ disk' # <<>>
    BY <1>3 DEF Puts
  <2>6. Len(a) <= m + 1 /\ \A i \in 1..Len(a)-1 : a[i] = disk'[i]
    BY <1>1, <1>3, <1>6, <2>1 DEF Overwritten
  <2>. QED
    BY <1>3, <1>6, <2>2, <2>3, <2>4, <2>5, <2>6 DEF Overwritten, At
<1>. QED
  BY <1>2, <1>4, <1>5, <1>6

(* So writing a line keeps the invariant. *)
LEMMA WritingKept ==
    ASSUME ChainInv, ChainInv', KeptInv, NEW t \in Thread, NEW m, NEW l, Puts(m, l),
           Writes(t, m, l), thread[t].pc \in {"commit", "write", "finish"},
           Len(disk) = m + 1 => l \in {Garbage, disk[m + 1]} \/ disk[m + 1] = Garbage,
           Len(disk) = m + 1 /\ l = Garbage /\ disk[m + 1] # Garbage => ~At(t, "finish"),
           Len(disk) = m + 1 /\ thread'[t].pc = "finish" => thread'[t].line = Garbage,
           disk # <<>> /\ disk[Len(disk)] = Garbage => Len(disk) = m + 1 /\ At(t, "finish"),
           At(t, "finish") => l = thread[t].line,
           Spoiled => Spoiled', Written(t)'
    PROVE  KeptInv'
<1>1. \A v : Safe(v) => Safe(v)'
  BY SafeWriting
<1>2. m \in Nat /\ Len(disk') = m + 1 /\ disk'[m + 1] = l /\ used' = used /\ returned' = returned
  BY DEF Puts
<1>3. \A v, i : OnDisk(v, i)' => \/ i \in 1..m /\ OnDisk(v, i)
                                 \/ i = m + 1 /\ l # Garbage /\ v = thread[t].val
  BY OnRecordThen
<1>4. \A i \in 1..m : l # Garbage => ~OnDisk(thread[t].val, i)
  BY DEF Writes
<1>5. \A u \in Thread \ {t} : thread'[u] = thread[u] /\ thread[u].pc \notin {"finish", "fsync"}
  BY DEF Writes
<1>6. thread[t].val \in Payload /\ thread[t].val # None /\ thread[t].val \in used /\ Own(t)
  BY ThreadFacts, StoreAssumption DEF Holding, KeptInv
<1>7. ASSUME NEW u \in Thread PROVE Written(u)'
  <2>1. CASE u # t
    <3>1. Written(u) /\ thread'[u] = thread[u] /\ thread[u].pc \notin {"finish", "fsync"}
      BY <1>5, <2>1 DEF KeptInv
    <3>2. PICK v : v = thread[u].val
      OBVIOUS
    <3>3. thread[u].pc = "return" => Safe(v)'
      BY <1>1, <3>1, <3>2 DEF Written
    <3>4. thread'[u].pc = "return" => Safe(thread[u].val)'
      BY <3>1, <3>2, <3>3 DEF Safe, Kept, Spoiled, OnDisk
    <3>. QED
      BY <3>1, <3>4 DEF Written
  <2>. QED
    BY <2>1
<1>8. Once'
  <2>1. \A v \in Payload, i \in DOMAIN disk' : OnDisk(v, i)' => v \in used
    <3>. SUFFICES ASSUME NEW v \in Payload, NEW i, OnDisk(v, i)' PROVE v \in used
      OBVIOUS
    <3>1. CASE i \in 1..m /\ OnDisk(v, i)
      BY <3>1 DEF KeptInv, Once, OnDisk
    <3>. QED
      BY <1>3, <1>6, <3>1
  <2>2. ASSUME NEW v \in Payload, NEW i, NEW j, OnDisk(v, i)', OnDisk(v, j)' PROVE i = j
    <3>1. CASE i \in 1..m /\ OnDisk(v, i) /\ j \in 1..m /\ OnDisk(v, j)
      BY <3>1 DEF KeptInv, Once, OnDisk
    <3>. QED
      BY <1>3, <1>4, <2>2, <3>1
  <2>. QED
    BY <1>2, <2>1, <2>2 DEF Once
<1>9. ASSUME NEW u \in Thread, u # t PROVE Own(u)'
  <2>1. Own(u) /\ thread'[u] = thread[u]
    BY <1>5, <1>9 DEF KeptInv
  <2>. SUFFICES ASSUME thread[u].val # None
                PROVE  /\ \A w \in Thread \ {u} : thread'[w].val # thread[u].val
                       /\ \A i : OnDisk(thread[u].val, i)' => thread[u].pc \in Settled
    BY <1>2, <1>5, <1>9, <2>1 DEF Own, Settled, OnDisk
  <2>2. \A w \in Thread \ {u} : thread[w].val # thread[u].val
    BY <2>1 DEF Own
  <2>3. \A w \in Thread \ {u} : thread'[w].val # thread[u].val
    BY <1>5, <2>2 DEF Writes
  <2>4. PICK v : v = thread[u].val
    OBVIOUS
  <2>5. ASSUME NEW i, OnDisk(v, i)' PROVE thread[u].pc \in Settled
    <3>1. v # thread[t].val
      BY <1>9, <2>2, <2>4
    <3>2. OnDisk(v, i)
      BY <1>3, <2>5, <3>1
    <3>. QED
      BY <2>1, <2>4, <3>2 DEF Own, Settled, OnDisk
  <2>6. \A i : OnDisk(thread[u].val, i)' => thread[u].pc \in Settled
    BY <2>1, <2>4, <2>5 DEF OnDisk
  <2>. QED
    BY <2>3, <2>6
<1>10. Own(t)'
  <2>1. CASE thread'[t].val = None
    BY <2>1 DEF Own
  <2>2. CASE thread'[t].val = thread[t].val /\ thread'[t].pc \in Settled
    <3>1. PICK v : v = thread[t].val
      OBVIOUS
    <3>2. v \notin returned' /\ \A w \in Thread \ {t} : thread'[w].val # v
      BY <1>2, <1>5, <1>6, <3>1 DEF Own
    <3>3. ASSUME NEW i, OnDisk(v, i)', thread'[t].pc = "finish" PROVE i = m + 1
      <4>1. thread[t].pc \notin Settled
        BY <3>3 DEF Writes, Settled
      <4>2. ~OnDisk(v, i)
        BY <1>6, <3>1, <4>1 DEF Own, Settled, OnDisk
      <4>. QED
        BY <1>3, <3>3, <4>2
    <3>4. \A i : OnDisk(v, i)' /\ thread'[t].pc = "finish" => i = m + 1
      BY <3>3
    <3>. QED
      BY <1>2, <2>2, <3>1, <3>2, <3>4 DEF Own, Settled, OnDisk
  <2>. QED
    BY <2>1, <2>2 DEF Writes
<1>11. Unended'
  <2>. SUFFICES ASSUME ~ended', NEW v \in Payload, OnDisk(v, m + 1)'
                PROVE  v \notin returned /\ \A u \in Thread : thread'[u].val = v => thread'[u].pc = "finish"
    BY <1>2 DEF Unended, At, OnDisk
  <2>1. v = thread[t].val /\ l # Garbage
    BY <1>2, <1>3
  <2>2. v \notin returned /\ \A u \in Thread \ {t} : thread[u].val # v
    BY <1>6, <2>1 DEF Own
  <2>. QED
    BY <1>5, <1>6, <2>1, <2>2 DEF Writes
<1>12. ASSUME NEW u \in Thread PROVE Answered(u)'
  <2>1. PICK a : a = thread[u].answer
    OBVIOUS
  <2>2. (Begins(a) \/ Overwritten(a))'
    BY <2>1, AnswersThen
  <2>3. thread'[u].answer \in {<<>>, a}
    BY <2>1 DEF Writes
  <2>4. CASE thread'[u].answer = <<>>
    BY <1>2, <2>4 DEF Answered, Begins
  <2>5. CASE thread'[u].answer = a
    BY <2>2, <2>5 DEF Answered, Begins, Overwritten, At
  <2>. QED
    BY <2>3, <2>4, <2>5
<1>. QED
  BY <1>1, <1>2, <1>7, <1>8, <1>9, <1>10, <1>11, <1>12 DEF KeptInv

(* What a thread that is about to write has in hand is its payload, and no *)
(* line has it yet.                                                        *)
LEMMA NotYetOnDisk ==
    ASSUME ChainInv, KeptInv, NEW t \in Thread, thread[t].pc \in {"commit", "write"}
    PROVE  /\ thread[t].line.val = thread[t].val /\ thread[t].val \in Payload
           /\ \A i \in DOMAIN disk : ~OnDisk(thread[t].val, i)
           /\ thread[t].line # Garbage
           /\ Readable(disk) /\ ~Spoiled /\ ~(disk # <<>> /\ disk[Len(disk)] = Garbage)
<1>1. /\ disk \in Seq(Entry) /\ thread[t].val \in Payload
      /\ thread[t].line = Built(disk, thread[t].val)
  BY ReadyToWrite
<1>2. thread[t].line.val = thread[t].val
  BY <1>1 DEF Built
<1>3. thread[t].line # Garbage
  BY <1>1, BuiltType, StoreAssumption
<1>4. Own(t) /\ thread[t].val # None
  BY <1>1, StoreAssumption DEF KeptInv
<1>5. \A i \in DOMAIN disk : ~OnDisk(thread[t].val, i)
  BY <1>4 DEF Own
<1>6. \A i \in DOMAIN disk : disk[i] # Garbage
  BY <1>1, StoreAssumption
<1>7. disk # <<>> => Len(disk) \in DOMAIN disk
  BY <1>1
<1>. QED
  BY <1>1, <1>2, <1>3, <1>5, <1>6, <1>7 DEF Readable, Spoiled

(* A commit puts the entry behind the others, synced. *)
LEMMA CommitKept ==
    ASSUME ChainInv, ChainInv', KeptInv, NEW t \in Thread, Commit(t)
    PROVE  /\ KeptInv'
           /\ disk' = disk \/ \E m, l : Puts(m, l) /\ Grows(m, l)
<1>1. CASE UNCHANGED <<disk, synced>>
  BY <1>1, QuietSteps
<1>2. CASE disk' = Append(disk, thread[t].line) /\ synced' = Len(disk')
  <2>. DEFINE m == Len(disk)  l == thread[t].line
  <2>1. thread[t].pc = "commit" /\ backend = "sqlite" /\ ended /\ ended' = ended
        /\ used' = used /\ returned' = returned
    BY ThreadFacts DEF Commit, At, Holding, ChainInv
  <2>2. /\ l.val = thread[t].val /\ thread[t].val \in Payload /\ l # Garbage
        /\ \A i \in DOMAIN disk : ~OnDisk(thread[t].val, i)
        /\ ~Spoiled /\ ~(disk # <<>> /\ disk[Len(disk)] = Garbage)
    BY <2>1, NotYetOnDisk
  <2>3. disk \in Seq(Line) /\ m \in Nat /\ synced \in 0..m /\ DOMAIN disk = 1..m /\ l \in Line
    BY <2>1, ReadyToWrite, BuiltType, ThreadFacts DEF Line
  <2>4. Len(disk') = m + 1 /\ disk'[m + 1] = l /\ \A i \in 1..m : disk'[i] = disk[i]
    BY <1>2, <2>3
  <2>5. PICK n \in {"return", "rollback"} : Goto(t, n)
    BY DEF Commit
  <2>. DEFINE r == [thread[t] EXCEPT !.pc = n]
  <2>6. r.pc = n /\ r.val = thread[t].val /\ r.answer = thread[t].answer
    BY ThreadFacts DEF ThreadType
  <2>7. thread'[t] = r /\ \A u \in Thread \ {t} : thread'[u] = thread[u]
    BY <2>5, ThreadFacts DEF Goto, Become
  <2>. HIDE DEF r, m, l
  <2>8. Puts(m, l)
    BY <1>2, <2>1, <2>3, <2>4 DEF Puts, m
  <2>9. Writes(t, m, l)
    <3>1. \A u \in Thread \ {t} : thread[u].pc \notin {"finish", "fsync"}
      BY <2>1, WritesAlone
    <3>2. \A i \in 1..m : ~OnDisk(thread[t].val, i)
      BY <2>2, <2>3
    <3>. QED
      BY <2>1, <2>2, <2>6, <2>7, <3>1, <3>2 DEF Writes, Settled
  <2>10. Written(t)'
    <3>1. PICK v : v = thread[t].val
      OBVIOUS
    <3>2. Kept(v)'
      <4>1. m + 1 \in DOMAIN disk'
        BY <1>2, <2>3 DEF m, l
      <4>2. synced' = m + 1 /\ m + 1 \in 1..synced' /\ ended'
        BY <1>2, <2>1, <2>3, <2>4
      <4>. QED
        BY <2>2, <2>4, <3>1, <4>1, <4>2 DEF Kept, OnDisk
    <3>. QED
      BY <2>5, <2>6, <2>7, <3>1, <3>2 DEF Written, Safe, Kept, OnDisk
  <2>11. Len(disk) = m
    BY DEF m
  <2>12. KeptInv'
    BY <2>1, <2>2, <2>3, <2>8, <2>9, <2>10, <2>11, WritingKept DEF At
  <2>13. Grows(m, l)
    <3>1. Readable(disk)
      BY <2>1, NotYetOnDisk
    <3>. QED
      BY <2>2, <2>3, <2>11, <3>1 DEF Grows
  <2>. QED
    BY <2>8, <2>12, <2>13
<1>. QED
  BY <1>1, <1>2 DEF Commit

(* The first bytes of a line go behind the others, or spoil one that       *)
(* lacked its newline.                                                     *)
LEMMA WriteSomeKept ==
    ASSUME ChainInv, ChainInv', KeptInv, NEW t \in Thread, WriteSome(t)
    PROVE  /\ KeptInv'
           /\ \E m, l : Puts(m, l) /\ Grows(m, l)
<1>. DEFINE line == IF ended THEN thread[t].line ELSE Garbage
            before == IF ended THEN disk ELSE Front(disk)
            m == Len(before)
<1>1. thread[t].pc = "write" /\ ended' = FALSE /\ synced' = synced
      /\ used' = used /\ returned' = returned
  BY DEF WriteSome, At
<1>2. /\ thread[t].line.val = thread[t].val /\ thread[t].val \in Payload
      /\ \A i \in DOMAIN disk : ~OnDisk(thread[t].val, i)
      /\ ~Spoiled /\ ~(disk # <<>> /\ disk[Len(disk)] = Garbage)
  BY <1>1, NotYetOnDisk
<1>3. disk \in Seq(Line) /\ Len(disk) \in Nat /\ synced \in 0..Len(disk) /\ thread[t].line \in Line
  BY <1>1, ReadyToWrite, BuiltType, ThreadFacts DEF Line
<1>4. /\ before \in Seq(Line) /\ m \in Nat /\ \A i \in 1..m : i \in DOMAIN disk /\ before[i] = disk[i]
      /\ \/ ended /\ Len(disk) = m
         \/ ~ended /\ Len(disk) = m + 1
  <2>1. CASE ended
    BY <1>3, <2>1
  <2>2. CASE ~ended
    <3>1. disk # <<>>
      BY <2>2 DEF KeptInv, Unended
    <3>2. Len(disk) - 1 \in 0..Len(disk) /\ Front(disk) \in Seq(Line)
          /\ Len(Front(disk)) = Len(disk) - 1
          /\ \A i \in 1..Len(disk)-1 : Front(disk)[i] = disk[i]
      BY <1>3, <3>1, FrontFacts
    <3>3. before = Front(disk) /\ m = Len(disk) - 1
      BY <2>2, <3>2
    <3>4. Len(disk) = m + 1 /\ m \in Nat
      BY <1>3, <3>2, <3>3
    <3>5. \A i \in 1..m : i \in DOMAIN disk /\ before[i] = disk[i]
      BY <1>3, <3>2, <3>3, <3>4
    <3>. HIDE DEF before, m
    <3>. QED
      BY <2>2, <3>2, <3>3, <3>4, <3>5
  <2>. QED
    BY <2>1, <2>2
<1>5. PICK l \in {Garbage, line} : disk' = Append(before, l)
  BY DEF WriteSome
<1>6. line # Garbage => ended /\ line = thread[t].line
  OBVIOUS
<1>7. line \in Line
  BY <1>3 DEF Line
<1>8. \/ /\ Become(t, [thread[t] EXCEPT !.pc = "finish", !.line = line])
      \/ Raise(t)
  BY DEF WriteSome
<1>. HIDE DEF line, before, m
<1>9. Len(disk') = m + 1 /\ disk'[m + 1] = l /\ \A i \in 1..m : disk'[i] = before[i]
  BY <1>4, <1>5, <1>7 DEF m, Line
<1>10. Puts(m, l)
  BY <1>1, <1>3, <1>4, <1>9 DEF Puts
<1>11. \A u \in Thread \ {t} : thread'[u] = thread[u] /\ thread[u].pc \notin {"finish", "fsync"}
  BY <1>1, <1>8, ThreadFacts, WritesAlone DEF Become, Raise, Leave
<1>12. \/ thread'[t].pc = "finish" /\ thread'[t].val = thread[t].val
          /\ thread'[t].answer = thread[t].answer /\ thread'[t].line = line
       \/ thread'[t].pc = "idle" /\ thread'[t].val = None /\ thread'[t].answer = <<>>
  <2>1. CASE Raise(t)
    <3>1. thread'[t] = IdleThread(<<>>)
      BY <2>1, ThreadFacts DEF Raise, Leave, Become
    <3>. QED
      BY <3>1 DEF IdleThread
  <2>2. CASE Become(t, [thread[t] EXCEPT !.pc = "finish", !.line = line])
    BY <2>2, ThreadFacts DEF Become, ThreadType
  <2>. QED
    BY <1>8, <2>1, <2>2
<1>13. Writes(t, m, l)
  <2>1. \A i \in 1..m : ~OnDisk(thread[t].val, i)
    BY <1>2, <1>4
  <2>2. l # Garbage => l.val = thread[t].val
    BY <1>2, <1>5, <1>6
  <2>. QED
    BY <1>1, <1>2, <1>11, <1>12, <2>1, <2>2 DEF Writes, Settled
<1>14. Written(t)'
  <2>1. line # Garbage => synced' < Len(disk')
    BY <1>1, <1>3, <1>4, <1>6, <1>9
  <2>. QED
    BY <1>1, <1>12, <2>1 DEF Written
<1>15. Len(disk) = m + 1 => l = Garbage /\ line = Garbage
  BY <1>4, <1>5, <1>6
<1>16. KeptInv'
  BY <1>1, <1>2, <1>3, <1>10, <1>12, <1>13, <1>14, <1>15, WritingKept DEF At
<1>17. Grows(m, l)
  <2>1. Readable(disk)
    BY <1>1, NotYetOnDisk
  <2>2. l # Garbage => l.val \in Payload /\ \A i \in 1..m : ~OnDisk(l.val, i)
    BY <1>2, <1>4, <1>5, <1>6
  <2>. QED
    BY <1>4, <1>15, <2>1, <2>2 DEF Grows
<1>. QED
  BY <1>10, <1>16, <1>17

(* The rest of a line replaces the part of it that was there. *)
LEMMA WriteRestKept ==
    ASSUME ChainInv, ChainInv', KeptInv, NEW t \in Thread, WriteRest(t)
    PROVE  /\ KeptInv'
           /\ \E m, l : Puts(m, l) /\ Grows(m, l)
<1>. DEFINE before == Front(disk)  m == Len(disk) - 1  l == thread[t].line
<1>1. /\ thread[t].pc = "finish" /\ ended' = TRUE /\ synced' = synced
      /\ used' = used /\ returned' = returned /\ thread[t].val \in Payload
  BY ThreadFacts DEF WriteRest, At, Holding
<1>2. /\ disk # <<>> /\ Readable(before) /\ Last(disk) \in {Garbage, l}
      /\ l \in {Garbage, Built(before, thread[t].val)}
  BY <1>1, ThreadFacts DEF InHand
<1>3. disk \in Seq(Line) /\ Len(disk) \in Nat /\ synced \in 0..Len(disk) /\ DOMAIN disk = 1..Len(disk)
  BY ThreadFacts
<1>4. /\ before \in Seq(Line) /\ m \in Nat /\ Len(before) = m /\ Len(disk) = m + 1
      /\ \A i \in 1..m : i \in DOMAIN disk /\ before[i] = disk[i]
  <2>1. before \in Seq(Line) /\ Len(disk) - 1 \in 0..Len(disk) /\ Len(before) = Len(disk) - 1
        /\ \A i \in 1..Len(disk)-1 : before[i] = disk[i]
    BY <1>2, <1>3, FrontFacts
  <2>. QED
    BY <1>3, <2>1
<1>5. before \in Seq(Entry)
  BY <1>2, <1>4, CleanReadable
<1>6. l \in Line /\ (l # Garbage => l.val = thread[t].val)
  <2>1. Built(before, thread[t].val) \in Entry /\ Built(before, thread[t].val).val = thread[t].val
    BY <1>1, <1>5, BuiltType DEF Built
  <2>. QED
    BY <1>2, <2>1 DEF Line
<1>7. Written(t) /\ Own(t) /\ thread[t].val # None
  BY <1>1, StoreAssumption DEF KeptInv
<1>8. disk' = Append(before, l)
  BY DEF WriteRest
<1>9. thread'[t] = [thread[t] EXCEPT !.pc = "fsync"] /\ \A u \in Thread \ {t} : thread'[u] = thread[u]
  BY ThreadFacts DEF WriteRest, Goto, Become
<1>. HIDE DEF before, m, l
<1>10. Len(disk') = m + 1 /\ disk'[m + 1] = l /\ \A i \in 1..m : disk'[i] = before[i]
  BY <1>4, <1>6, <1>8
<1>11. ~ended
  BY <1>1, <1>7 DEF Written
<1>12. Puts(m, l)
  BY <1>1, <1>3, <1>4, <1>10, <1>11 DEF Puts
<1>13. thread'[t].pc = "fsync" /\ thread'[t].val = thread[t].val /\ thread'[t].answer = thread[t].answer
  BY <1>9, ThreadFacts DEF ThreadType
<1>14. Writes(t, m, l)
  <2>1. \A i \in 1..m : ~OnDisk(thread[t].val, i)
    BY <1>1, <1>4, <1>7 DEF Own
  <2>2. \A u \in Thread \ {t} : thread[u].pc \notin {"finish", "fsync"}
    BY <1>1, WritesAlone
  <2>. QED
    BY <1>1, <1>6, <1>9, <1>13, <2>1, <2>2 DEF Writes, Settled
<1>15. Written(t)'
  <2>1. disk' # <<>> /\ disk'[Len(disk')] = l
    BY <1>4, <1>10
  <2>. QED
    BY <1>1, <1>6, <1>13, <2>1 DEF Written
<1>16. Spoiled => Spoiled'
  <2>. SUFFICES ASSUME Spoiled PROVE Spoiled'
    OBVIOUS
  <2>1. l = Garbage
    BY <1>1, <1>3, <1>7 DEF Spoiled, Written, l
  <2>. QED
    BY <1>1, <1>4, <1>10, <2>1 DEF Spoiled
<1>17. disk[m + 1] \in {Garbage, l}
  BY <1>2, <1>4 DEF Last
<1>18. KeptInv'
  BY <1>1, <1>4, <1>12, <1>13, <1>14, <1>15, <1>16, <1>17, WritingKept DEF At, l
<1>19. Grows(m, l)
  <2>1. BeingWritten
    BY <1>1 DEF BeingWritten, At
  <2>2. \A i \in 1..m : ~OnDisk(thread[t].val, i)
    BY <1>1, <1>4, <1>7 DEF Own
  <2>. QED
    BY <1>1, <1>6, <1>17, <2>1, <2>2 DEF Grows
<1>. QED
  BY <1>12, <1>18, <1>19

-----------------------------------------------------------------------------
(* Losing power *)

(* What is left of the file, first: nothing that was synced goes. *)
LEMMA PowerLossLeaves ==
    ASSUME ChainInv, PowerLoss
    PROVE  /\ synced \in 0..Len(disk) /\ Len(disk) \in Nat
           /\ \/ UNCHANGED <<disk, ended>>
              \/ \E n \in synced..Len(disk)-1 :
                    /\ Len(disk') = n /\ ended' = TRUE
                    /\ \A i \in 1..n : disk'[i] = disk[i]
              \/ \E n \in synced+1..Len(disk) :
                    /\ Len(disk') = n /\ ended' = FALSE
                    /\ \A i \in 1..n-1 : disk'[i] = disk[i]
                    /\ disk'[n] \in {Garbage, disk[n]}
<1>1. disk \in Seq(Line) /\ Len(disk) \in Nat /\ synced \in 0..Len(disk)
  BY DEF ChainInv, TypeOK, Line
<1>2. ASSUME NEW n \in synced..Len(disk)-1, disk' = SubSeq(disk, 1, n)
      PROVE  Len(disk') = n /\ \A i \in 1..n : disk'[i] = disk[i]
  <2>1. n \in 0..Len(disk)
    BY <1>1
  <2>. QED
    BY <1>1, <1>2, <2>1, PrefixFacts
<1>3. ASSUME NEW n \in synced+1..Len(disk), NEW l \in {Garbage, disk[n]},
             disk' = Append(SubSeq(disk, 1, n-1), l)
      PROVE  Len(disk') = n /\ disk'[n] = l /\ \A i \in 1..n-1 : disk'[i] = disk[i]
  <2>1. n - 1 \in 0..Len(disk) /\ n \in 1..Len(disk)
    BY <1>1
  <2>2. l \in Line
    BY <1>1, <2>1 DEF Line
  <2>. DEFINE d == SubSeq(disk, 1, n-1)
  <2>3. d \in Seq(Line) /\ Len(d) = n - 1 /\ \A i \in 1..n-1 : d[i] = disk[i]
    BY <1>1, <2>1, PrefixFacts
  <2>4. disk' = Append(d, l)
    BY <1>3
  <2>. HIDE DEF d
  <2>. QED
    BY <2>1, <2>2, <2>3, <2>4
<1>. QED
  BY <1>1, <1>2, <1>3 DEF PowerLoss

(* Nobody has anything in hand, and what was returned had been synced. *)
LEMMA PowerLossKept ==
    ASSUME ChainInv, ChainInv', KeptInv, PowerLoss
    PROVE  KeptInv'
<1>1. synced' = Len(disk') /\ UNCHANGED <<used, returned>>
  BY DEF PowerLoss
<1>2. \A t \in Thread : thread'[t] = IdleThread(<<>>)
  BY DEF PowerLoss
<1>3. IdleThread(<<>>).pc = "idle" /\ IdleThread(<<>>).val = None /\ IdleThread(<<>>).answer = <<>>
  BY DEF IdleThread
<1>4. Len(disk) \in Nat /\ synced \in 0..Len(disk) /\ Len(disk') \in Nat
  BY DEF ChainInv, TypeOK
<1>5. DOMAIN disk = 1..Len(disk) /\ DOMAIN disk' = 1..Len(disk')
  BY DEF ChainInv, TypeOK
<1>6. \A t \in Thread : Written(t)' /\ Own(t)'
  BY <1>2, <1>3 DEF Written, Own
<1>7. ASSUME NEW t \in Thread PROVE Answered(t)'
  <2>1. thread'[t].answer = <<>>
    BY <1>2, <1>3
  <2>. QED
    BY <1>4, <2>1 DEF Answered, Begins
<1>8. \A v, i : OnDisk(v, i)' => OnDisk(v, i)
  <2>1. CASE UNCHANGED <<disk, ended>>
    BY <2>1 DEF OnDisk
  <2>2. CASE ~UNCHANGED <<disk, ended>>
    <3>1. ASSUME NEW i \in 1..Len(disk'), disk'[i] # Garbage PROVE i \in 1..Len(disk) /\ disk'[i] = disk[i]
      <4>1. ASSUME NEW n \in synced..Len(disk)-1, Len(disk') = n, \A j \in 1..n : disk'[j] = disk[j]
            PROVE  i \in 1..Len(disk) /\ disk'[i] = disk[i]
        BY <1>4, <3>1, <4>1
      <4>2. ASSUME NEW n \in synced+1..Len(disk), Len(disk') = n,
                   \A j \in 1..n-1 : disk'[j] = disk[j], disk'[n] \in {Garbage, disk[n]}
            PROVE  i \in 1..Len(disk) /\ disk'[i] = disk[i]
        <5>1. i \in 1..Len(disk) /\ (i = n \/ i \in 1..n-1)
          BY <1>4, <3>1, <4>2
        <5>. QED
          BY <3>1, <4>2, <5>1
      <4>. QED
        BY <2>2, <4>1, <4>2, PowerLossLeaves
    <3>. QED
      BY <1>5, <3>1 DEF OnDisk
  <2>. QED
    BY <2>1, <2>2
<1>9. Once'
  BY <1>1, <1>8 DEF KeptInv, Once, OnDisk
<1>10. ASSUME NEW v, Safe(v) PROVE Safe(v)'
  <2>1. CASE UNCHANGED <<disk, ended>>
    BY <1>1, <1>10, <2>1, SafeStill
  <2>2. CASE ~UNCHANGED <<disk, ended>>
    <3>1. synced < Len(disk)
      <4>1. \/ \E n \in synced..Len(disk)-1 : Len(disk') = n
            \/ \E n \in synced+1..Len(disk) : Len(disk') = n
        BY <2>2, PowerLossLeaves
      <4>. QED
        BY <1>4, <4>1
    <3>2. synced # Len(disk)
      BY <1>4, <3>1
    <3>3. Kept(v)
      BY <1>10, <3>2 DEF Safe, Spoiled
    <3>4. PICK i : i \in 1..synced /\ OnDisk(v, i)
      BY <3>3 DEF Kept
    <3>5. /\ i \in 1..Len(disk') /\ disk'[i] = disk[i]
          /\ ended' \/ i < Len(disk')
      <4>1. ASSUME NEW n \in synced..Len(disk)-1, Len(disk') = n, ended' = TRUE,
                   \A j \in 1..n : disk'[j] = disk[j]
            PROVE  i \in 1..Len(disk') /\ disk'[i] = disk[i] /\ (ended' \/ i < Len(disk'))
        BY <1>4, <3>1, <3>4, <4>1
      <4>2. ASSUME NEW n \in synced+1..Len(disk), Len(disk') = n, \A j \in 1..n-1 : disk'[j] = disk[j]
            PROVE  i \in 1..Len(disk') /\ disk'[i] = disk[i] /\ (ended' \/ i < Len(disk'))
        <5>1. i \in 1..n-1 /\ i \in 1..Len(disk') /\ i < Len(disk')
          BY <1>4, <3>1, <3>4, <4>2
        <5>. QED
          BY <4>2, <5>1
      <4>. QED
        BY <2>2, <4>1, <4>2, PowerLossLeaves
    <3>6. OnDisk(v, i)'
      BY <1>5, <3>4, <3>5 DEF OnDisk
    <3>7. i \in 1..synced' /\ (i = Len(disk') => ended')
      BY <1>1, <1>4, <3>5
    <3>. QED
      BY <3>6, <3>7 DEF Safe, Kept
  <2>. QED
    BY <2>1, <2>2
<1>11. Unended'
  <2>. SUFFICES ASSUME ~ended'
                PROVE  /\ disk' # <<>>
                       /\ \A v \in Payload : OnDisk(v, Len(disk))' => v \notin returned
    BY <1>1, <1>2, <1>3, StoreAssumption DEF Unended, At, OnDisk
  <2>1. CASE UNCHANGED <<disk, ended>>
    BY <2>1 DEF KeptInv, Unended, OnDisk
  <2>2. CASE ~UNCHANGED <<disk, ended>>
    <3>1. PICK n \in synced+1..Len(disk) : Len(disk') = n
      BY <2>2, PowerLossLeaves
    <3>2. n # 0 /\ synced < n /\ synced # Len(disk)
      BY <1>4, <3>1
    <3>3. disk' # <<>>
      BY <3>1, <3>2
    <3>4. ASSUME NEW v \in Payload, OnDisk(v, n)', v \in returned PROVE FALSE
      <4>1. Safe(v) /\ ~Spoiled /\ OnDisk(v, n)
        BY <1>8, <3>2, <3>4 DEF KeptInv, Spoiled
      <4>2. PICK i : i \in 1..synced /\ OnDisk(v, i)
        BY <4>1 DEF Safe, Kept
      <4>3. i = n
        BY <4>1, <4>2 DEF KeptInv, Once, OnDisk
      <4>. QED
        BY <1>4, <3>2, <4>2, <4>3
    <3>. QED
      BY <3>1, <3>3, <3>4 DEF OnDisk
  <2>. QED
    BY <2>1, <2>2
<1>. QED
  BY <1>1, <1>6, <1>7, <1>9, <1>10, <1>11 DEF KeptInv

-----------------------------------------------------------------------------
(* A new store has nothing to lose. *)
LEMMA InitKept == Init => KeptInv
<1>. SUFFICES ASSUME Init PROVE KeptInv
  OBVIOUS
<1>1. disk = <<>> /\ DOMAIN disk = {} /\ Len(disk) = 0 /\ ended /\ returned = {}
  BY DEF Init
<1>2. \A t \in Thread : thread[t] = IdleThread(<<>>)
  BY DEF Init
<1>3. IdleThread(<<>>).pc = "idle" /\ IdleThread(<<>>).val = None /\ IdleThread(<<>>).answer = <<>>
  BY DEF IdleThread
<1>4. \A t \in Thread : Written(t) /\ Own(t) /\ Answered(t)
  BY <1>1, <1>2, <1>3 DEF Written, Own, Answered, Begins
<1>. QED
  BY <1>1, <1>4 DEF KeptInv, Once, Unended, OnDisk

(* Every step keeps the invariant. *)
LEMMA NextKept == ChainInv /\ ChainInv' /\ KeptInv /\ [Next]_vars => KeptInv'
<1>. SUFFICES ASSUME ChainInv, ChainInv', KeptInv, [Next]_vars PROVE KeptInv'
  OBVIOUS
<1>1. CASE UNCHANGED vars
  <2>1. UNCHANGED <<disk, ended, synced, used, returned>> /\ \A u \in Thread : GoesQuietly(u)
    BY <1>1 DEF vars, GoesQuietly
  <2>. QED
    BY <2>1, QuietKept
<1>2. ASSUME NEW t \in Thread, Step(t) PROVE KeptInv'
  BY <1>2, QuietSteps, CommitKept, WriteSomeKept, WriteRestKept, FsyncKept, ReturnKept DEF Step
<1>3. ASSUME NEW t \in Thread, CallEntries(t) PROVE KeptInv'
  BY <1>3, QuietSteps
<1>4. ASSUME NEW t \in Thread, NEW v \in Payload, CallAppend(t, v) PROVE KeptInv'
  BY <1>4, CallAppendKept
<1>5. ASSUME NEW p \in Process, ProcessCrash(p) PROVE KeptInv'
  BY <1>5, CrashKept
<1>6. CASE PowerLoss
  BY <1>6, PowerLossKept
<1>. QED
  BY <1>1, <1>2, <1>3, <1>4, <1>5, <1>6 DEF Next

(* The invariant that the theorems on the store start from. *)
LEMMA Keeping == Spec => [](ChainInv /\ KeptInv)
<1>1. Init => ChainInv /\ KeptInv
  BY InitChain, InitKept
<1>2. ChainInv /\ KeptInv /\ [Next]_vars => (ChainInv /\ KeptInv)'
  BY NextChain, NextKept
<1>. QED
  BY <1>1, <1>2, PTL DEF Spec

-----------------------------------------------------------------------------
(* What can be read *)

(* The clean part of a file whose damage is last. *)
LEMMA CleanFacts ==
    ASSUME NEW d \in Seq(Line), \A i \in DOMAIN d : d[i] = Garbage => i = Len(d)
    PROVE  /\ Clean(d) \in Seq(Entry)
           /\ Len(Clean(d)) = IF Readable(d) THEN Len(d) ELSE Len(d) - 1
           /\ \A i \in 1..Len(Clean(d)) : Clean(d)[i] = d[i]
           /\ ~Readable(d) => d # <<>> /\ d[Len(d)] = Garbage
<1>1. CASE Readable(d)
  BY <1>1, CleanReadable
<1>2. CASE ~Readable(d)
  <2>1. d # <<>> /\ d[Len(d)] = Garbage
    BY <1>2 DEF Readable
  <2>2. Clean(d) = Front(d)
    BY <2>1 DEF Clean, Last
  <2>3. /\ Front(d) \in Seq(Line) /\ Len(Front(d)) = Len(d) - 1
        /\ \A i \in 1..Len(d)-1 : Front(d)[i] = d[i]
    BY <2>1, FrontFacts
  <2>4. ASSUME NEW i \in 1..Len(Front(d)) PROVE Front(d)[i] \in Entry
    <3>1. i \in DOMAIN d /\ i # Len(d) /\ Front(d)[i] = d[i]
      BY <2>1, <2>3
    <3>. QED
      BY <3>1 DEF Line
  <2>5. Front(d) \in Seq(Entry)
    BY <2>3, <2>4
  <2>. QED
    BY <1>2, <2>1, <2>2, <2>3, <2>5
<1>. QED
  BY <1>1, <1>2

(* The same of the file on disk. *)
LEMMA DiskFacts ==
    ASSUME ChainInv
    PROVE  /\ disk \in Seq(Line) /\ Len(disk) \in Nat
           /\ Clean(disk) \in Seq(Entry) /\ Len(Clean(disk)) \in Nat
           /\ Len(Clean(disk)) = IF Readable(disk) THEN Len(disk) ELSE Len(disk) - 1
           /\ \A i \in 1..Len(Clean(disk)) : Clean(disk)[i] = disk[i]
           /\ ~Readable(disk) => disk # <<>> /\ disk[Len(disk)] = Garbage
           /\ \A i \in 1..Len(disk) : disk[i] # Garbage => i \in 1..Len(Clean(disk))
<1>1. disk \in Seq(Line) /\ Len(disk) \in Nat
  BY DEF ChainInv, TypeOK, Line
<1>2. \A i \in DOMAIN disk : disk[i] = Garbage => i = Len(disk)
  BY DEF ChainInv, DamageIsLast
<1>3. /\ Clean(disk) \in Seq(Entry) /\ Len(Clean(disk)) \in Nat
      /\ Len(Clean(disk)) = IF Readable(disk) THEN Len(disk) ELSE Len(disk) - 1
      /\ \A i \in 1..Len(Clean(disk)) : Clean(disk)[i] = disk[i]
      /\ ~Readable(disk) => disk # <<>> /\ disk[Len(disk)] = Garbage
  BY <1>1, <1>2, CleanFacts
<1>4. ASSUME NEW i \in 1..Len(disk), disk[i] # Garbage PROVE i \in 1..Len(Clean(disk))
  BY <1>1, <1>3, <1>4
<1>. QED
  BY <1>1, <1>3, <1>4

(* What is on disk can be read. *)
LEMMA OnDiskIsRead ==
    ASSUME ChainInv, NEW v
    PROVE  (\E i : OnDisk(v, i)) <=> v \in ToSet(Payloads(Clean(disk)))
<1>. DEFINE c == Clean(disk)
<1>1. DOMAIN c = 1..Len(c) /\ DOMAIN disk = 1..Len(disk)
  BY DiskFacts
<1>2. \A i \in 1..Len(c) : i \in 1..Len(disk) /\ c[i] = disk[i] /\ disk[i] # Garbage
  <2>1. ASSUME NEW i \in 1..Len(c) PROVE i \in 1..Len(disk) /\ c[i] = disk[i] /\ c[i] \in Entry
    BY DiskFacts
  <2>. QED
    BY <2>1, StoreAssumption
<1>3. \A i \in 1..Len(disk) : disk[i] # Garbage => i \in 1..Len(c)
  BY DiskFacts
<1>4. ToSet(Payloads(c)) = {c[i].val : i \in 1..Len(c)}
  BY <1>1 DEF ToSet, Payloads
<1>. HIDE DEF c
<1>5. (\E i : OnDisk(v, i)) <=> v \in ToSet(Payloads(c))
  BY <1>1, <1>2, <1>3, <1>4 DEF OnDisk
<1>. QED
  BY <1>5 DEF c

(* An entry whose append has returned can be read, or the ledger cannot. *)
THEOREM NothingLost == Spec => []NoSilentLoss
<1>1. ASSUME ChainInv, KeptInv PROVE NoSilentLoss
  <2>. SUFFICES ASSUME NEW v \in returned, Readable(disk)
                PROVE  v \in ToSet(Payloads(Clean(disk)))
    BY DEF NoSilentLoss
  <2>1. Safe(v)
    BY <1>1 DEF KeptInv
  <2>2. ~Spoiled
    BY <1>1, DiskFacts DEF Readable, Spoiled
  <2>3. \E i : OnDisk(v, i)
    BY <2>1, <2>2 DEF Safe, Kept
  <2>. QED
    BY <1>1, <2>3, OnDiskIsRead
<1>. QED
  BY <1>1, Keeping, PTL

(* A sequence that another begins with is its prefix. *)
LEMMA PrefixIf ==
    ASSUME NEW S, NEW a \in Seq(S), NEW d \in Seq(S), Len(a) <= Len(d),
           \A i \in 1..Len(a) : a[i] = d[i]
    PROVE  IsPrefix(a, d)
<1>1. Len(a) \in 0..Len(a) /\ Len(a) \in 0..Len(d)
  OBVIOUS
<1>2. SubSeq(a, 1, Len(a)) \in Seq(S) /\ Len(SubSeq(a, 1, Len(a))) = Len(a)
      /\ \A i \in 1..Len(a) : SubSeq(a, 1, Len(a))[i] = a[i]
  BY <1>1, PrefixFacts
<1>3. SubSeq(d, 1, Len(a)) \in Seq(S) /\ Len(SubSeq(d, 1, Len(a))) = Len(a)
      /\ \A i \in 1..Len(a) : SubSeq(d, 1, Len(a))[i] = d[i]
  BY <1>1, PrefixFacts
<1>4. SubSeq(a, 1, Len(a)) = SubSeq(d, 1, Len(a))
  BY <1>2, <1>3
<1>. QED
  BY <1>4 DEF IsPrefix

(* What a reader was given stays. *)
THEOREM AnswersStay == Spec => []ReadsStay
<1>1. ASSUME ChainInv, KeptInv PROVE ReadsStay
  <2>. SUFFICES ASSUME NEW t \in Thread
                PROVE  LET a == thread[t].answer IN
                       \/ IsPrefix(a, disk)
                       \/ /\ ~Readable(disk) /\ IsPrefix(Front(a), Clean(disk))
                          /\ a[Len(a)].val \notin returned
    BY DEF ReadsStay
  <2>1. PICK a : a = thread[t].answer
    OBVIOUS
  <2>2. a \in Seq(Entry) /\ a \in Seq(Line) /\ Len(a) \in Nat
    BY <1>1, <2>1, ThreadFacts DEF ThreadType, Line
  <2>3. Begins(a) \/ Overwritten(a)
    BY <1>1, <2>1 DEF KeptInv, Answered
  <2>4. CASE Begins(a)
    <3>1. IsPrefix(a, disk)
      BY <1>1, <2>2, <2>4, DiskFacts, PrefixIf DEF Begins
    <3>. QED
      BY <2>1, <3>1
  <2>5. CASE Overwritten(a)
    <3>1. /\ a # <<>> /\ disk # <<>> /\ disk[Len(disk)] = Garbage /\ Len(a) <= Len(disk)
          /\ \A i \in 1..Len(a)-1 : a[i] = disk[i]
          /\ a[Len(a)].val \notin returned
      BY <2>5 DEF Overwritten
    <3>2. ~Readable(disk)
      BY <1>1, <3>1, DiskFacts DEF Readable
    <3>3. /\ Front(a) \in Seq(Entry) /\ Len(Front(a)) = Len(a) - 1
          /\ \A i \in 1..Len(a)-1 : Front(a)[i] = a[i]
      BY <2>2, <3>1, FrontFacts
    <3>4. Clean(disk) \in Seq(Entry) /\ Len(Clean(disk)) = Len(disk) - 1 /\ Len(disk) \in Nat
          /\ \A i \in 1..Len(Clean(disk)) : Clean(disk)[i] = disk[i]
      BY <1>1, <3>2, DiskFacts
    <3>5. Len(Front(a)) <= Len(Clean(disk))
      BY <2>2, <3>1, <3>3, <3>4
    <3>6. \A i \in 1..Len(Front(a)) : Front(a)[i] = Clean(disk)[i]
      <4>1. ASSUME NEW i \in 1..Len(Front(a)) PROVE i \in 1..Len(a)-1 /\ i \in 1..Len(Clean(disk))
        BY <2>2, <3>1, <3>3, <3>4
      <4>. QED
        BY <3>1, <3>3, <3>4, <4>1
    <3>7. IsPrefix(Front(a), Clean(disk))
      BY <3>3, <3>4, <3>5, <3>6, PrefixIf
    <3>. QED
      BY <2>1, <3>1, <3>2, <3>7
  <2>. QED
    BY <2>3, <2>4, <2>5
<1>. QED
  BY <1>1, Keeping, PTL

-----------------------------------------------------------------------------
(* Tampering *)

(* A hash commits to the contents. *)
LEMMA HashCommits ==
    ASSUME NEW e \in Entry, NEW v \in Payload \ {e.val}
    PROVE  Hash(e.prev, e.seq, v) # Hash(e.prev, e.seq, e.val)
<1>1. e.prev \in Seq(Nat \X Payload)
  BY DEF Entry, HashType
<1>2. <<e.seq, v>> \in Nat \X Payload /\ <<e.seq, e.val>> \in Nat \X Payload
  BY DEF Entry
<1>3. \A x, y \in Nat \X Payload : Append(e.prev, x) = Append(e.prev, y) => x = y
  <2>. SUFFICES ASSUME NEW x \in Nat \X Payload, NEW y \in Nat \X Payload,
                       Append(e.prev, x) = Append(e.prev, y)
                PROVE  x = y
    OBVIOUS
  <2>1. Append(e.prev, x)[Len(e.prev)+1] = x /\ Append(e.prev, y)[Len(e.prev)+1] = y
    BY <1>1
  <2>. QED
    BY <2>1
<1>4. <<e.seq, v>> # <<e.seq, e.val>>
  OBVIOUS
<1>. QED
  BY <1>2, <1>3, <1>4 DEF Hash

(* What verify_chain accepts it does not accept with one entry's contents  *)
(* changed, an inner entry gone, or two entries exchanged.                 *)
LEMMA TamperingFails ==
    ASSUME NEW d \in Seq(Entry), VerifyChain(d), NEW i \in DOMAIN d
    PROVE  /\ \A v \in Payload \ {d[i].val} :
                 /\ ~VerifyChain([d EXCEPT ![i].val = v])
                 /\ ~VerifyChain([d EXCEPT ![i].val = v,
                                           ![i].hash = Hash(d[i].prev, d[i].seq, v)])
           /\ i < Len(d) => ~VerifyChain(RemoveAt(d, i))
           /\ \A j \in DOMAIN d \ {i} : ~VerifyChain([d EXCEPT ![i] = d[j], ![j] = d[i]])
<1>. DEFINE e == d[i]
<1>1. e \in Entry /\ i \in 1..Len(d) /\ Len(d) \in Nat /\ DOMAIN d = 1..Len(d)
  OBVIOUS
<1>2. \A j \in 1..Len(d) : d[j].seq = j
  BY DEF VerifyChain
<1>3. e.hash = Hash(e.prev, e.seq, e.val) /\ e.sig = e.hash
  BY DEF VerifyChain, Intact
<1>4. ASSUME NEW v \in Payload \ {e.val}
      PROVE  /\ ~VerifyChain([d EXCEPT ![i].val = v])
             /\ ~VerifyChain([d EXCEPT ![i].val = v, ![i].hash = Hash(e.prev, e.seq, v)])
  <2>1. Hash(e.prev, e.seq, v) # e.hash
    BY <1>1, <1>3, HashCommits
  <2>2. PICK f : f = [e EXCEPT !.val = v]
    OBVIOUS
  <2>3. ~Intact(f)
    <3>1. f.prev = e.prev /\ f.seq = e.seq /\ f.val = v /\ f.hash = e.hash
      BY <1>1, <2>2 DEF Entry
    <3>. QED
      BY <2>1, <3>1 DEF Intact
  <2>4. PICK g : g = [e EXCEPT !.val = v, !.hash = Hash(e.prev, e.seq, v)]
    OBVIOUS
  <2>5. ~Intact(g)
    <3>1. g.sig = e.sig /\ g.hash = Hash(e.prev, e.seq, v)
      BY <1>1, <2>4 DEF Entry
    <3>. QED
      BY <1>3, <2>1, <3>1 DEF Intact
  <2>6. [d EXCEPT ![i].val = v] = [d EXCEPT ![i] = f]
    BY <2>2
  <2>7. [d EXCEPT ![i].val = v, ![i].hash = Hash(e.prev, e.seq, v)] = [d EXCEPT ![i] = g]
    BY <1>1, <2>4
  <2>8. \A h : DOMAIN [d EXCEPT ![i] = h] = 1..Len(d) /\ [d EXCEPT ![i] = h][i] = h
    BY <1>1
  <2>9. \A h : ~Intact(h) => ~VerifyChain([d EXCEPT ![i] = h])
    BY <1>1, <2>8 DEF VerifyChain
  <2>. QED
    BY <2>3, <2>5, <2>6, <2>7, <2>9
<1>5. ASSUME i < Len(d) PROVE ~VerifyChain(RemoveAt(d, i))
  <2>. DEFINE a == SubSeq(d, 1, i-1)  b == SubSeq(d, i+1, Len(d))
  <2>1. a \in Seq(Entry) /\ Len(a) = i - 1
    <3>1. i - 1 \in 0..Len(d)
      BY <1>1
    <3>. QED
      BY <3>1, PrefixFacts
  <2>2. b \in Seq(Entry) /\ Len(b) = Len(d) - i /\ b[1] = d[i+1]
    BY <1>1, <1>5
  <2>3. RemoveAt(d, i) = a \o b
    BY DEF RemoveAt
  <2>. HIDE DEF a, b
  <2>4. i \in DOMAIN (a \o b) /\ (a \o b)[i] = b[1]
    BY <1>1, <1>5, <2>1, <2>2
  <2>5. d[i+1].seq = i + 1
    BY <1>1, <1>2, <1>5
  <2>. QED
    BY <1>1, <2>2, <2>3, <2>4, <2>5 DEF VerifyChain
<1>6. ASSUME NEW j \in DOMAIN d \ {i}
      PROVE  ~VerifyChain([d EXCEPT ![i] = d[j], ![j] = e])
  <2>. DEFINE c == [d EXCEPT ![i] = d[j], ![j] = e]
  <2>1. i \in DOMAIN c /\ c[i] = d[j]
    OBVIOUS
  <2>2. d[j].seq = j /\ j # i
    BY <1>1, <1>2
  <2>. QED
    BY <2>1, <2>2 DEF VerifyChain
<1>. QED
  BY <1>4, <1>5, <1>6

(* What was done to the ledger behind its back, verify_chain notices. *)
THEOREM TamperingIsSeen == Spec => []TamperingShows
<1>1. ASSUME ChainInv PROVE TamperingShows
  <2>. SUFFICES ASSUME Readable(disk) PROVE TamperingShows
    BY DEF TamperingShows
  <2>1. disk \in Seq(Entry) /\ VerifyChain(disk)
    BY <1>1, DiskFacts, CleanReadable DEF ChainInv, ChainNeverForks
  <2>. QED
    BY <2>1, TamperingFails DEF TamperingShows
<1>. QED
  BY <1>1, Keeping, PTL

-----------------------------------------------------------------------------
(***************************************************************************)
(* The file implements the log.  A step that leaves the lines alone is a   *)
(* Lose that loses nothing, or the return of what is safe; a line that is  *)
(* written is a Persist, or spoils a last line that nobody was told of; a  *)
(* power loss takes what was not synced.                                   *)
(***************************************************************************)

(* Payloads of entries. *)
LEMMA PayloadsFacts ==
    ASSUME NEW c \in Seq(Entry)
    PROVE  /\ Payloads(c) \in Seq(Payload) /\ Len(Payloads(c)) = Len(c)
           /\ \A i \in 1..Len(c) : Payloads(c)[i] = c[i].val
<1>1. DOMAIN c = 1..Len(c) /\ Len(c) \in Nat
  OBVIOUS
<1>2. \A i \in 1..Len(c) : c[i].val \in Payload
  <2>1. \A i \in 1..Len(c) : c[i] \in Entry
    OBVIOUS
  <2>2. \A e \in Entry : e.val \in Payload
    BY DEF Entry
  <2>. QED
    BY <2>1, <2>2
<1>3. Payloads(c) = [i \in 1..Len(c) |-> c[i].val]
  BY <1>1 DEF Payloads
<1>. QED
  BY <1>1, <1>2, <1>3

(* The log of a file whose damage is last: what its entries carry. *)
LEMMA LogFacts ==
    ASSUME NEW d \in Seq(Line), \A i \in DOMAIN d : d[i] = Garbage => i = Len(d)
    PROVE  /\ Payloads(Clean(d)) \in Seq(Payload)
           /\ Len(Payloads(Clean(d))) = IF Readable(d) THEN Len(d) ELSE Len(d) - 1
           /\ Len(Payloads(Clean(d))) \in Nat /\ Len(d) \in Nat
           /\ Len(Payloads(Clean(d))) <= Len(d)
           /\ \A i \in 1..Len(d) :
                 /\ d[i] # Garbage <=> i \in 1..Len(Payloads(Clean(d)))
                 /\ d[i] # Garbage => Payloads(Clean(d))[i] = d[i].val
<1>. DEFINE c == Clean(d)
<1>1. /\ c \in Seq(Entry) /\ Len(c) = IF Readable(d) THEN Len(d) ELSE Len(d) - 1
      /\ \A i \in 1..Len(c) : c[i] = d[i]
      /\ ~Readable(d) => d # <<>> /\ d[Len(d)] = Garbage
  BY CleanFacts
<1>. HIDE DEF c
<1>2. Len(d) \in Nat /\ Len(c) \in Nat /\ Len(c) <= Len(d)
  BY <1>1
<1>3. Payloads(c) \in Seq(Payload) /\ Len(Payloads(c)) = Len(c)
      /\ \A i \in 1..Len(c) : Payloads(c)[i] = c[i].val
  BY <1>1, PayloadsFacts
<1>4. ASSUME NEW i \in 1..Len(d) PROVE d[i] # Garbage <=> i \in 1..Len(c)
  <2>1. CASE i \in 1..Len(c)
    BY <1>1, <2>1, StoreAssumption
  <2>2. CASE i \notin 1..Len(c)
    BY <1>1, <1>2, <2>2
  <2>. QED
    BY <2>1, <2>2
<1>5. \A i \in 1..Len(d) : d[i] # Garbage => Payloads(c)[i] = d[i].val
  BY <1>1, <1>3, <1>4
<1>. QED
  BY <1>1, <1>2, <1>3, <1>4, <1>5 DEF c

(* Losing the end of the log, as far as nobody was told of it. *)
LEMMA Loses ==
    ASSUME ChainInv, ChainInv', returned' = returned,
           \A i \in 1..Len(disk') : disk'[i] # Garbage => i \in 1..Len(disk) /\ disk'[i] = disk[i],
           \A i \in 1..Len(disk) : disk[i] # Garbage /\ disk[i].val \in returned
              => i \in 1..Len(disk') /\ disk'[i] # Garbage
    PROVE  Log!Next
<1>. DEFINE k == Payloads(Clean(disk))  n == Len(k')
<1>1. k \in Seq(Payload) /\ Len(k) \in Nat /\ Len(k) <= Len(disk) /\ Len(disk) \in Nat
      /\ \A i \in 1..Len(disk) : /\ disk[i] # Garbage <=> i \in 1..Len(k)
                                 /\ disk[i] # Garbage => k[i] = disk[i].val
  BY LogFacts DEF ChainInv, TypeOK, DamageIsLast, Line
<1>2. k' \in Seq(Payload) /\ n \in Nat /\ n <= Len(disk') /\ Len(disk') \in Nat
      /\ \A i \in 1..Len(disk') : /\ disk'[i] # Garbage <=> i \in 1..n
                                  /\ disk'[i] # Garbage => k'[i] = disk'[i].val
  <2>1. disk' \in Seq(Line) /\ \A i \in DOMAIN disk' : disk'[i] = Garbage => i = Len(disk')
    BY DEF ChainInv, TypeOK, DamageIsLast, Line
  <2>. QED
    BY <2>1, LogFacts
<1>. HIDE DEF k, n
<1>3. \A i \in 1..n : i \in 1..Len(k) /\ k'[i] = k[i]
  <2>. SUFFICES ASSUME NEW i \in 1..n PROVE i \in 1..Len(k) /\ k'[i] = k[i]
    OBVIOUS
  <2>1. i \in 1..Len(disk')
    BY <1>2
  <2>2. i \in 1..Len(disk) /\ disk'[i] = disk[i] /\ disk'[i] # Garbage /\ k'[i] = disk'[i].val
    BY <1>2, <2>1
  <2>. QED
    BY <1>1, <2>2
<1>4. n \in 0..Len(k)
  <2>1. n = 0 \/ n \in 1..Len(k)
    BY <1>2, <1>3
  <2>. QED
    BY <1>1, <2>1
<1>5. k' = SubSeq(k, 1, n)
  <2>1. SubSeq(k, 1, n) \in Seq(Payload) /\ Len(SubSeq(k, 1, n)) = n
        /\ \A i \in 1..n : SubSeq(k, 1, n)[i] = k[i]
    BY <1>1, <1>4, PrefixFacts
  <2>. QED
    BY <1>2, <1>3, <2>1 DEF n
<1>6. \A i \in n+1..Len(k) : k[i] \notin returned
  <2>. SUFFICES ASSUME NEW i \in n+1..Len(k), k[i] \in returned PROVE FALSE
    OBVIOUS
  <2>1. i \in 1..Len(disk) /\ i \in 1..Len(k) /\ i \notin 1..n
    BY <1>1, <1>2
  <2>2. disk[i] # Garbage /\ disk[i].val \in returned
    BY <1>1, <2>1
  <2>. QED
    BY <1>2, <2>1, <2>2
<1>7. Log!Lose
  BY <1>4, <1>5, <1>6 DEF Log!Lose, k
<1>. QED
  BY <1>7 DEF Log!Next

(* The file as it is. *)
LEMMA StaysOrLoses ==
    ASSUME ChainInv, ChainInv', UNCHANGED <<disk, returned>>
    PROVE  Log!Next
<1>1. \A i \in 1..Len(disk) : i \in 1..Len(disk') /\ disk'[i] = disk[i]
  OBVIOUS
<1>. QED
  BY <1>1, Loses

(* A line that is written. *)
LEMMA GrowsOrLoses ==
    ASSUME ChainInv, ChainInv', KeptInv, NEW m, NEW l, Puts(m, l), Grows(m, l)
    PROVE  Log!Next
<1>1. /\ m \in Nat /\ Len(disk') = m + 1 /\ disk'[m + 1] = l
      /\ \A i \in 1..m : i \in DOMAIN disk /\ disk'[i] = disk[i]
      /\ Len(disk) = m \/ (Len(disk) = m + 1 /\ ~ended)
      /\ returned' = returned
  BY DEF Puts
<1>2. \A i \in 1..m : disk[i] # Garbage
  <2>1. \A i \in DOMAIN disk' : disk'[i] = Garbage => i = Len(disk')
    BY DEF ChainInv, DamageIsLast
  <2>2. DOMAIN disk' = 1..Len(disk')
    BY DEF ChainInv, TypeOK
  <2>3. ASSUME NEW i \in 1..m PROVE i \in 1..Len(disk') /\ i # Len(disk')
    BY <1>1
  <2>. QED
    BY <1>1, <2>1, <2>2, <2>3
<1>3. CASE l = Garbage \/ (Len(disk) = m + 1 /\ disk[m + 1] # Garbage)
  <2>1. CASE l # Garbage
    <3>1. Len(disk) = m + 1 /\ disk[m + 1] = l
      BY <1>1, <1>3, <2>1 DEF Grows
    <3>2. ASSUME NEW i \in 1..m+1 PROVE disk'[i] = disk[i]
      <4>1. i \in 1..m \/ i = m + 1
        BY <1>1
      <4>. QED
        BY <1>1, <3>1, <4>1
    <3>. QED
      BY <1>1, <3>1, <3>2, Loses
  <2>2. CASE l = Garbage
    <3>1. ASSUME NEW i \in 1..Len(disk'), disk'[i] # Garbage
          PROVE  i \in 1..Len(disk) /\ disk'[i] = disk[i]
      <4>1. i \in 1..m
        <5>1. i # m + 1
          BY <1>1, <2>2, <3>1
        <5>. QED
          BY <1>1, <5>1
      <4>2. i \in 1..Len(disk)
        BY <1>1, <4>1
      <4>. QED
        BY <1>1, <4>1, <4>2
    <3>2. ASSUME NEW i \in 1..Len(disk), disk[i] # Garbage, disk[i].val \in returned
          PROVE  i \in 1..Len(disk') /\ disk'[i] # Garbage
      <4>1. i # Len(disk) \/ ended
        <5>1. CASE ended
          BY <5>1
        <5>2. CASE ~ended
          <6>1. i \in DOMAIN disk
            BY DEF ChainInv, TypeOK
          <6>2. OnDisk(disk[i].val, i) /\ disk[i].val \in Payload
            BY <3>2, <6>1 DEF OnDisk, ChainInv, TypeOK
          <6>3. PICK v : v = disk[i].val
            OBVIOUS
          <6>4. ~OnDisk(v, Len(disk))
            BY <3>2, <5>2, <6>2, <6>3 DEF KeptInv, Unended
          <6>. QED
            BY <6>2, <6>3, <6>4
        <5>. QED
          BY <5>1, <5>2
      <4>2. i \in 1..m
        BY <1>1, <4>1
      <4>3. i \in 1..Len(disk')
        BY <1>1, <4>2
      <4>. QED
        BY <1>1, <1>2, <4>2, <4>3
    <3>. QED
      BY <1>1, <3>1, <3>2, Loses
  <2>. QED
    BY <2>1, <2>2
<1>4. CASE l # Garbage /\ ~(Len(disk) = m + 1 /\ disk[m + 1] # Garbage)
  <2>. DEFINE k == Payloads(Clean(disk))
  <2>1. /\ disk \in Seq(Line) /\ disk' \in Seq(Line)
        /\ \A i \in DOMAIN disk : disk[i] = Garbage => i = Len(disk)
        /\ \A i \in DOMAIN disk' : disk'[i] = Garbage => i = Len(disk')
    BY DEF ChainInv, TypeOK, DamageIsLast, Line
  <2>2. k \in Seq(Payload) /\ Len(k) \in Nat /\ Len(k) <= Len(disk) /\ Len(disk) \in Nat
        /\ \A i \in 1..Len(disk) : /\ disk[i] # Garbage <=> i \in 1..Len(k)
                                   /\ disk[i] # Garbage => k[i] = disk[i].val
    BY <2>1, LogFacts
  <2>3. k' \in Seq(Payload) /\ Len(k') \in Nat /\ Len(k') <= Len(disk')
        /\ \A i \in 1..Len(disk') : /\ disk'[i] # Garbage <=> i \in 1..Len(k')
                                    /\ disk'[i] # Garbage => k'[i] = disk'[i].val
    BY <2>1, LogFacts
  <2>4. l.val \in Payload /\ (\A i \in 1..m : ~OnDisk(l.val, i)) /\ (Readable(disk) \/ BeingWritten)
    BY <1>4 DEF Grows
  <2>5. DOMAIN disk = 1..Len(disk)
    BY <2>1
  <2>. HIDE DEF k
  <2>6. Len(k) = m
    <3>1. m \in 0..Len(disk)
      BY <1>1
    <3>2. \A i \in 1..m : i \in 1..Len(k)
      BY <1>1, <1>2, <2>2, <3>1
    <3>3. m + 1 \notin 1..Len(k)
      <4>1. CASE Len(disk) = m
        <5>1. m \in Nat
          BY <1>1
        <5>2. Len(k) \in Nat /\ Len(k) <= Len(disk)
          BY <2>2
        <5>3. Len(k) <= m
          BY <4>1, <5>2
        <5>. QED
          BY <5>1, <5>2, <5>3
      <4>2. CASE Len(disk) = m + 1
        <5>1. m + 1 \in 1..Len(disk) /\ disk[m + 1] = Garbage
          BY <1>1, <1>4, <4>2
        <5>. QED
          BY <2>2, <5>1
      <4>. QED
        BY <1>1, <4>1, <4>2
    <3>4. m = 0 \/ m \in 1..Len(k)
      BY <1>1, <3>2
    <3>. QED
      BY <1>1, <2>2, <3>3, <3>4
  <2>7. Len(k') = m + 1 /\ k'[m + 1] = l.val
    <3>1. m + 1 \in 1..Len(disk')
      BY <1>1
    <3>2. m + 1 \in 1..Len(k') /\ k'[m + 1] = l.val
      BY <1>1, <1>4, <2>3, <3>1
    <3>. QED
      BY <1>1, <2>3, <3>2
  <2>8. \A i \in 1..m : k'[i] = k[i]
    <3>1. ASSUME NEW i \in 1..m PROVE i \in 1..Len(disk) /\ i \in 1..Len(disk')
      BY <1>1
    <3>. QED
      BY <1>1, <1>2, <2>2, <2>3, <3>1
  <2>9. k' = Append(k, l.val)
    BY <1>1, <2>2, <2>3, <2>4, <2>6, <2>7, <2>8
  <2>10. l.val \notin ToSet(k)
    <3>1. ASSUME NEW i \in 1..m PROVE k[i] # l.val
      <4>1. i \in 1..Len(disk) /\ disk[i] # Garbage /\ ~OnDisk(l.val, i)
        BY <1>1, <1>2, <2>4, <3>1
      <4>. QED
        BY <2>2, <2>5, <4>1 DEF OnDisk
    <3>2. DOMAIN k = 1..m
      BY <2>2, <2>6
    <3>. QED
      BY <3>1, <3>2 DEF ToSet
  <2>11. Readable(disk')
    <3>1. DOMAIN disk' = 1..Len(disk')
      BY <2>1
    <3>2. ASSUME NEW i \in 1..m+1 PROVE disk'[i] # Garbage
      <4>1. i \in 1..m \/ i = m + 1
        BY <1>1
      <4>. QED
        BY <1>1, <1>2, <1>4, <4>1
    <3>. QED
      BY <1>1, <3>1, <3>2 DEF Readable
  <2>12. Log!Persist(l.val)
    BY <1>1, <2>4, <2>9, <2>10, <2>11 DEF Log!Persist, Log!ToSet, ToSet, k
  <2>. QED
    BY <2>4, <2>12 DEF Log!Next
<1>. QED
  BY <1>3, <1>4

(* The return of an append. *)
LEMMA ReturnConfirms ==
    ASSUME ChainInv, ChainInv', KeptInv, NEW t \in Thread, Return(t)
    PROVE  Log!Next
<1>1. PICK v : v = thread[t].val
  OBVIOUS
<1>2. thread[t].pc = "return" /\ v \in Payload /\ Safe(v)
  BY <1>1, ThreadFacts DEF Return, At, Holding, KeptInv, Written
<1>3. disk' = disk /\ returned' = returned \cup {v}
  BY <1>1 DEF Return, file
<1>4. thread'[t].pc = "idle" /\ \A u \in Thread \ {t} : thread'[u] = thread[u]
  <2>1. thread'[t] = IdleThread(<<>>) /\ \A u \in Thread \ {t} : thread'[u] = thread[u]
    BY ThreadFacts DEF Return, Leave, Become
  <2>. QED
    BY <2>1 DEF IdleThread
<1>5. BeingWritten' <=> BeingWritten
  BY <1>2, <1>4 DEF BeingWritten, At
<1>6. v \in ToSet(Payloads(Clean(disk))) \/ (~Readable(disk) /\ ~BeingWritten)
  <2>1. CASE Kept(v)
    <3>1. \E i : OnDisk(v, i)
      BY <2>1 DEF Kept
    <3>. QED
      BY <3>1, OnDiskIsRead
  <2>2. CASE Spoiled /\ Readable(disk)
    BY <2>2, DiskFacts DEF Spoiled, Readable
  <2>3. CASE Spoiled /\ ~Readable(disk)
    <3>1. backend = "jsonl"
      BY <2>3 DEF ChainInv, DamageIsLast, Readable
    <3>2. Home[t] = Owner /\ lock[Home[t]] = t
      BY <1>2, <3>1, ThreadFacts DEF Holding
    <3>3. ASSUME NEW u \in Thread, At(u, "finish") PROVE FALSE
      <4>1. Home[u] = Owner /\ lock[Home[u]] = u
        BY <3>1, <3>3, ThreadFacts DEF Holding, At
      <4>2. u = t
        BY <3>2, <4>1
      <4>. QED
        BY <1>2, <3>3, <4>2 DEF At
    <3>. QED
      BY <2>3, <3>3 DEF BeingWritten
  <2>. QED
    BY <1>2, <2>1, <2>2, <2>3 DEF Safe
<1>7. Log!Confirm(v)
  BY <1>3, <1>5, <1>6 DEF Log!Confirm, Log!ToSet, ToSet, Readable
<1>. QED
  BY <1>2, <1>7 DEF Log!Next

(* A power loss. *)
LEMMA PowerLossLoses ==
    ASSUME ChainInv, ChainInv', KeptInv, PowerLoss
    PROVE  Log!Next
<1>1. returned' = returned /\ Len(disk) \in Nat /\ synced \in 0..Len(disk) /\ Len(disk') \in Nat
  BY DEF PowerLoss, ChainInv, TypeOK
<1>2. CASE disk' = disk
  BY <1>1, <1>2, StaysOrLoses
<1>3. CASE disk' # disk
  <2>1. PICK n \in 0..Len(disk) :
           /\ Len(disk') = n /\ n >= synced /\ synced < Len(disk)
           /\ \/ \A i \in 1..n : disk'[i] = disk[i]
              \/ /\ n > synced /\ disk'[n] \in {Garbage, disk[n]}
                 /\ \A i \in 1..n-1 : disk'[i] = disk[i]
    <3>1. CASE \E n \in synced..Len(disk)-1 : /\ Len(disk') = n
                                              /\ \A i \in 1..n : disk'[i] = disk[i]
      <4>1. PICK n \in synced..Len(disk)-1 : /\ Len(disk') = n
                                             /\ \A i \in 1..n : disk'[i] = disk[i]
        BY <3>1
      <4>2. n \in 0..Len(disk) /\ n >= synced /\ synced < Len(disk)
        BY <1>1
      <4>. QED
        BY <4>1, <4>2
    <3>2. CASE \E n \in synced+1..Len(disk) : /\ Len(disk') = n
                                              /\ \A i \in 1..n-1 : disk'[i] = disk[i]
                                              /\ disk'[n] \in {Garbage, disk[n]}
      <4>1. PICK n \in synced+1..Len(disk) : /\ Len(disk') = n
                                             /\ \A i \in 1..n-1 : disk'[i] = disk[i]
                                             /\ disk'[n] \in {Garbage, disk[n]}
        BY <3>2
      <4>2. n \in 0..Len(disk) /\ n >= synced /\ synced < Len(disk) /\ n > synced
        BY <1>1
      <4>. QED
        BY <4>1, <4>2
    <3>. QED
      BY <1>3, <3>1, <3>2, PowerLossLeaves
  <2>2. ASSUME NEW i \in 1..Len(disk'), disk'[i] # Garbage
        PROVE  i \in 1..Len(disk) /\ disk'[i] = disk[i]
    <3>1. i \in 1..n /\ i \in 1..Len(disk)
      BY <1>1, <2>1
    <3>2. i = n \/ i \in 1..n-1
      BY <2>1, <3>1
    <3>. QED
      BY <2>1, <2>2, <3>1, <3>2
  <2>3. ~Spoiled
    BY <1>1, <2>1 DEF Spoiled
  <2>4. ASSUME NEW i \in 1..Len(disk), disk[i] # Garbage, disk[i].val \in returned
        PROVE  i \in 1..Len(disk') /\ disk'[i] # Garbage
    <3>1. PICK v : v = disk[i].val
      OBVIOUS
    <3>2. OnDisk(v, i)
      BY <2>4, <3>1 DEF OnDisk, ChainInv, TypeOK
    <3>3. PICK j : j \in 1..synced /\ OnDisk(v, j)
      BY <2>3, <2>4, <3>1 DEF KeptInv, Safe, Kept
    <3>4. v \in Payload
      BY <3>2, OnDiskType
    <3>5. i = j
      BY <3>2, <3>3, <3>4 DEF KeptInv, Once, OnDisk
    <3>6. i \in 1..n /\ (n > synced => i \in 1..n-1)
      BY <1>1, <2>1, <3>3, <3>5
    <3>7. disk'[i] = disk[i]
      BY <2>1, <3>6
    <3>. QED
      BY <2>1, <2>4, <3>6, <3>7
  <2>. QED
    BY <1>1, <2>2, <2>4, Loses
<1>. QED
  BY <1>2, <1>3

(* Every step is one of the log. *)
LEMMA NextIsLog ==
    ASSUME ChainInv, ChainInv', KeptInv, [Next]_vars
    PROVE  Log!Next
<1>1. CASE UNCHANGED vars
  BY <1>1, StaysOrLoses DEF vars
<1>2. ASSUME NEW t \in Thread, Step(t) PROVE Log!Next
  <2>1. CASE UNCHANGED <<disk, returned>>
    BY <2>1, StaysOrLoses
  <2>2. CASE Commit(t) /\ disk' # disk
    BY <2>2, CommitKept, GrowsOrLoses
  <2>3. CASE WriteSome(t)
    BY <2>3, WriteSomeKept, GrowsOrLoses
  <2>4. CASE WriteRest(t)
    BY <2>4, WriteRestKept, GrowsOrLoses
  <2>5. CASE Return(t)
    BY <2>5, ReturnConfirms
  <2>6. CASE Commit(t) /\ disk' = disk
    BY <2>1, <2>6 DEF Commit
  <2>. QED
    BY <1>2, <2>1, <2>2, <2>3, <2>4, <2>5, <2>6
       DEF Step, TakeLock, BeginImmediate, BusyTimeout, Build, Insert, Rollback, Fsync, Fetch, file
<1>3. ASSUME NEW t \in Thread, CallEntries(t) PROVE Log!Next
  BY <1>3, StaysOrLoses DEF CallEntries, file
<1>4. ASSUME NEW t \in Thread, NEW v \in Payload, CallAppend(t, v) PROVE Log!Next
  BY <1>4, StaysOrLoses DEF CallAppend, file
<1>5. ASSUME NEW p \in Process, ProcessCrash(p) PROVE Log!Next
  BY <1>5, StaysOrLoses DEF ProcessCrash, file
<1>6. CASE PowerLoss
  BY <1>6, PowerLossLoses
<1>. QED
  BY <1>1, <1>2, <1>3, <1>4, <1>5, <1>6 DEF Next

(* The store implements the log that the gateway is modelled with: entries *)
(* are added at the end, and one whose append returned stays.              *)
THEOREM StoreIsLog == Spec => ImplementsLog
<1>1. ASSUME Init PROVE Log!Init
  <2>1. disk = <<>> /\ returned = {} /\ Readable(disk)
    BY <1>1 DEF Init, Readable
  <2>2. Clean(disk) = <<>>
    BY <2>1 DEF Clean
  <2>3. Payloads(<<>>) = <<>>
    <3>1. <<>> \in Seq(Entry) /\ Len(<<>>) = 0
      OBVIOUS
    <3>2. Payloads(<<>>) \in Seq(Payload) /\ Len(Payloads(<<>>)) = 0
      BY <3>1, PayloadsFacts
    <3>. QED
      BY <3>2
  <2>. QED
    BY <2>1, <2>2, <2>3 DEF Log!Init
<1>2. ASSUME ChainInv, ChainInv', KeptInv, [Next]_vars PROVE [Log!Next]_Log!vars
  BY <1>2, NextIsLog
<1>. QED
  BY <1>1, <1>2, Keeping, PTL DEF Spec, ImplementsLog, Log!Spec
=============================================================================
