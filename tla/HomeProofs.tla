----------------------------- MODULE HomeProofs -----------------------------
(***************************************************************************)
(* A home directory, for any number of processes, references and crashes:  *)
(* one key signs, what an entry refers to is stored, the proofs made of    *)
(* its ledger are accepted, and what is accepted, after any number of      *)
(* edits, is the ledger's.                                                 *)
(***************************************************************************)
EXTENDS Home, SequenceTheorems, FiniteSetTheorems, WellFoundedInduction, TLAPS

Kinds   == {"proposed", "prepared", "committed", "undone"}
Waiting == {"down", "read", "create", "write key"}
Working == {"ready", "open", "write", "replace", "append"}
Key     == Process \cup {None, Empty}

ProcType  == [at : Waiting \cup Working, key : Key, kind : Kinds \cup {None}, fd : Nat]
EntryType == [seq : Nat, kind : Kinds, act : Process, val : {"allow", None}, ref : Ref \cup {None}, key : Key,
              prev : Int, hash : Nat, genuine : BOOLEAN]

Typed ==
    /\ keyfile \in Key
    /\ proc \in [Process -> ProcType]
    /\ path \in [Ref -> Nat] /\ tmp \in [Ref -> Nat]
    /\ inode \in Seq({"part", "full"})
    /\ ledger \in Seq(EntryType)
    /\ \A p \in Process : proc[p].at \in Working \ {"ready"} => proc[p].kind \in Kinds
    /\ \A p \in Process : proc[p].at \in {"open", "write", "replace"} => RefOf[proc[p].kind] \in Ref

(* There is at most one key ever: whoever creates the file writes it, and  *)
(* nobody gets on before.                                                  *)
Keyed ==
    /\ \A p \in Process : proc[p].at \in Waiting => proc[p].key = None
    /\ \A p \in Process : proc[p].at \in Working => proc[p].key = keyfile /\ keyfile \in Process
    /\ \A p \in Process : proc[p].at = "read" => keyfile # None
    /\ \A p \in Process : proc[p].at = "write key" => keyfile = Empty
    /\ \A p, q \in Process : proc[p].at = "write key" /\ proc[q].at = "write key" => p = q
    /\ \A i \in 1 .. Len(ledger) : ledger[i].key = keyfile
    /\ Len(ledger) # 0 => keyfile \in Process

(* The inode under a .tmp name has no other name; who stores a blob finds  *)
(* its own inode there, or none, or one that was opened meanwhile; what it *)
(* has written is whole; and so is what is under a blob's own name.        *)
Stored ==
    /\ \A r \in Ref : path[r] \in 0 .. Len(inode) /\ tmp[r] \in 0 .. Len(inode)
    /\ \A p \in Process : proc[p].at \in {"write", "replace"} => proc[p].fd \in 1 .. Len(inode)
    /\ \A r, s \in Ref : tmp[r] # 0 => tmp[r] # path[s] /\ (tmp[r] = tmp[s] => r = s)
    /\ \A p \in Process, r \in Ref : Storing(p, r) => tmp[r] \in {0, proc[p].fd} \cup shared
    /\ \A p \in Process, r \in Ref :
          Storing(p, r) /\ proc[p].at = "replace" /\ tmp[r] = proc[p].fd
             => tmp[r] \in shared \/ inode[proc[p].fd] = "full"
    /\ \A r \in Ref : path[r] # 0 => path[r] \in shared \/ inode[path[r]] = "full"

(* Nothing is referred to before it is stored. *)
Referred ==
    /\ \A p \in Process : proc[p].at = "append" /\ RefOf[proc[p].kind] # None => path[RefOf[proc[p].kind]] # 0
    /\ \A i \in 1 .. Len(ledger) : ledger[i].ref # None => path[ledger[i].ref] # 0

(* A step of the auditor, an edit, or none.                                *)
Rest == UNCHANGED <<algorithm, keyfile, proc, files, ledger>>

-----------------------------------------------------------------------------
(* What is appended next is one of the kinds of entries.                   *)
LEMMA FollowingKinds == \A p : Following(p) \subseteq Kinds
BY DEF Following, Kinds

(* An entry refers to a blob or to nothing.                                *)
LEMMA EntryRefs ==
    ASSUME Typed
    PROVE  \A i \in 1 .. Len(ledger) : ledger[i].ref \in Ref \cup {None}
<1>1. \A i \in 1 .. Len(ledger) : ledger[i] \in EntryType
  <2>1. ledger \in Seq(EntryType)
    BY DEF Typed
  <2>. QED
    BY <2>1
<1>. QED
  BY <1>1 DEF EntryType

(* Nobody runs, and there are no files.                                    *)
LEMMA TypedInit == Init => Typed
BY HomeAssumption DEF Init, Typed, Key, ProcType, Down, Waiting, Working, Kinds

(* The auditor and the editor touch nothing that is typed here.            *)
LEMMA TypedRest == ASSUME Typed, Rest PROVE Typed'
BY DEF Typed, Rest, files

(* A step of one process, typed by what it makes of its record.            *)
LEMMA TypedMove ==
    ASSUME Typed, NEW p \in Process, NEW rec \in ProcType, proc' = [proc EXCEPT ![p] = rec],
           rec.at \in Working \ {"ready"} => rec.kind \in Kinds,
           rec.at \in {"open", "write", "replace"} => RefOf[rec.kind] \in Ref,
           keyfile' \in Key, path' \in [Ref -> Nat], tmp' \in [Ref -> Nat],
           inode' \in Seq({"part", "full"}), ledger' \in Seq(EntryType)
    PROVE  Typed'
<1>1. proc' \in [Process -> ProcType]
  BY DEF Typed
<1>2. \A q \in Process : proc'[q] = IF q = p THEN rec ELSE proc[q]
  BY DEF Typed
<1>3. \A q \in Process : proc'[q].at \in Working \ {"ready"} => proc'[q].kind \in Kinds
  BY <1>2 DEF Typed
<1>4. \A q \in Process : proc'[q].at \in {"open", "write", "replace"} => RefOf[proc'[q].kind] \in Ref
  BY <1>2 DEF Typed
<1>. QED
  BY <1>1, <1>3, <1>4 DEF Typed

(* An inode that is written, or emptied, is an inode. *)
LEMMA InodeWritten ==
    ASSUME NEW i, NEW x \in {"part", "full"}, inode \in Seq({"part", "full"})
    PROVE  [inode EXCEPT ![i] = x] \in Seq({"part", "full"}) /\ Len([inode EXCEPT ![i] = x]) = Len(inode)
<1>1. CASE i \in 1 .. Len(inode)
  BY <1>1, ExceptSeq
<1>2. CASE i \notin 1 .. Len(inode)
  <2>1. [inode EXCEPT ![i] = x] = inode
    BY <1>2
  <2>. QED
    BY <2>1
<1>. QED
  BY <1>1, <1>2

(* What is left of a process that is idle, or down. *)
LEMMA Still == Down \in ProcType /\ \A key \in Key : Idle(key) \in ProcType
BY DEF Down, Idle, ProcType, Waiting, Working, Kinds, Key

(* Every step of a process keeps the types.                                *)
LEMMA TypedStep ==
    ASSUME Typed, NEW p \in Process, ProcessStep(p) \/ Crash(p)
    PROVE  Typed'
<1>0. /\ proc[p] \in ProcType /\ keyfile \in Key /\ proc[p].key \in Key
      /\ path \in [Ref -> Nat] /\ tmp \in [Ref -> Nat] /\ inode \in Seq({"part", "full"})
      /\ ledger \in Seq(EntryType)
  BY DEF Typed, ProcType
<1>. USE DEF At, Become, Goto, files
<1>a. ASSUME Become(p, Down) \/ Become(p, Idle(proc[p].key)) \/ Become(p, Idle(keyfile)) \/ Become(p, Idle(p)),
             keyfile' \in Key, UNCHANGED files, ledger' \in Seq(EntryType)
      PROVE  Typed'
  <2>1. PICK rec \in {Down, Idle(proc[p].key), Idle(keyfile), Idle(p)} : proc' = [proc EXCEPT ![p] = rec]
    BY <1>a
  <2>2. rec \in ProcType
    BY <1>0, Still DEF Key
  <2>3. rec.at \in {"down", "ready"}
    BY DEF Down, Idle
  <2>. QED
    BY <1>0, <1>a, <2>1, <2>2, <2>3, TypedMove DEF Working
<1>b. ASSUME NEW at \in Waiting, Goto(p, at), keyfile' \in Key, UNCHANGED <<files, ledger>>
      PROVE  Typed'
  <2>. DEFINE rec == [proc[p] EXCEPT !.at = at]
  <2>1. rec \in ProcType /\ rec.at = at
    BY <1>0 DEF ProcType
  <2>2. at \notin Working
    BY DEF Working, Waiting
  <2>3. at \notin Working \ {"ready"} /\ at \notin {"open", "write", "replace"}
    BY <2>2 DEF Working
  <2>. HIDE DEF rec
  <2>4. proc' = [proc EXCEPT ![p] = rec]
    BY <1>b DEF rec
  <2>. QED
    BY <1>0, <1>b, <2>1, <2>3, <2>4, TypedMove
<1>1. CASE LookForKey(p)
  BY <1>0, <1>1, <1>b DEF LookForKey, Waiting
<1>2. CASE ReadKey(p)
  BY <1>0, <1>2, <1>a DEF ReadKey
<1>3. CASE CreateKey(p)
  BY <1>0, <1>3, <1>a, <1>b DEF CreateKey, Waiting, Key
<1>4. CASE WriteKey(p)
  BY <1>0, <1>4, <1>a DEF WriteKey, Key
<1>5. CASE Put(p)
  <2>1. PICK kind \in Following(p) :
           proc' = [proc EXCEPT ![p] = [proc[p] EXCEPT !.kind = kind, !.at =
             IF RefOf[kind] = None THEN "append" ELSE IF path[RefOf[kind]] # 0 THEN "append" ELSE "open"]]
    BY <1>5 DEF Put
  <2>2. kind \in Kinds /\ RefOf[kind] \in Ref \cup {None}
    BY FollowingKinds, HomeAssumption DEF Kinds
  <2>3. PICK at \in {"append", "open"} :
           /\ proc' = [proc EXCEPT ![p] = [proc[p] EXCEPT !.kind = kind, !.at = at]]
           /\ at = "open" => RefOf[kind] # None
    BY <2>1
  <2>. DEFINE rec == [proc[p] EXCEPT !.kind = kind, !.at = at]
  <2>4. rec \in ProcType /\ rec.kind = kind /\ rec.at = at
    BY <1>0, <2>2 DEF ProcType, Working
  <2>. HIDE DEF rec
  <2>5. proc' = [proc EXCEPT ![p] = rec]
    BY <2>3 DEF rec
  <2>. QED
    BY <1>0, <1>5, <2>2, <2>3, <2>4, <2>5, TypedMove DEF Put
<1>6. CASE OpenTmp(p)
  <2>. DEFINE r == RefOf[proc[p].kind]
              i == IF tmp[r] = 0 THEN Len(inode) + 1 ELSE tmp[r]
              rec == [proc[p] EXCEPT !.at = "write", !.fd = i]
  <2>1. proc[p].at = "open" /\ proc[p].kind \in Kinds /\ r \in Ref
    BY <1>6 DEF OpenTmp, Typed, Working
  <2>2. i \in Nat
    BY <1>0, <2>1
  <2>3. inode' \in Seq({"part", "full"})
    BY <1>0, <1>6, <2>1, InodeWritten DEF OpenTmp
  <2>4. rec \in ProcType /\ rec.kind = proc[p].kind /\ rec.at = "write"
    BY <1>0, <2>2 DEF ProcType, Working
  <2>5. proc' = [proc EXCEPT ![p] = rec] /\ tmp' = [tmp EXCEPT ![r] = i] /\ UNCHANGED <<keyfile, path, ledger>>
    BY <1>6 DEF OpenTmp
  <2>6. tmp' \in [Ref -> Nat]
    BY <1>0, <2>2, <2>5
  <2>. HIDE DEF rec, i
  <2>. QED
    BY <1>0, <2>1, <2>3, <2>4, <2>5, <2>6, TypedMove
<1>7. CASE WriteTmp(p)
  <2>. DEFINE rec == [proc[p] EXCEPT !.at = "replace"]
  <2>1. proc[p].at = "write" /\ proc[p].kind \in Kinds /\ RefOf[proc[p].kind] \in Ref
    BY <1>7 DEF WriteTmp, Typed, Working
  <2>2. inode' = [inode EXCEPT ![proc[p].fd] = "full"] /\ UNCHANGED <<keyfile, path, tmp, ledger>>
        /\ proc' = [proc EXCEPT ![p] = rec]
    BY <1>7 DEF WriteTmp
  <2>3. rec \in ProcType /\ rec.kind = proc[p].kind /\ rec.at = "replace"
    BY <1>0 DEF ProcType, Working
  <2>. HIDE DEF rec
  <2>4. inode' \in Seq({"part", "full"})
    BY <1>0, <2>2, InodeWritten
  <2>. QED
    BY <1>0, <2>1, <2>2, <2>3, <2>4, TypedMove
<1>8. CASE Replace(p)
  <2>. DEFINE r == RefOf[proc[p].kind]
              rec == [proc[p] EXCEPT !.at = "append", !.fd = 0]
  <2>1. proc[p].at = "replace" /\ proc[p].kind \in Kinds /\ r \in Ref
    BY <1>8 DEF Replace, Typed, Working
  <2>2. CASE tmp[r] = 0
    BY <1>0, <1>8, <1>a, <2>2 DEF Replace
  <2>3. CASE tmp[r] # 0
    <3>1. rec \in ProcType /\ rec.kind = proc[p].kind /\ rec.at = "append"
      BY <1>0 DEF ProcType, Working
    <3>2. /\ proc' = [proc EXCEPT ![p] = rec] /\ UNCHANGED <<keyfile, inode, ledger>>
          /\ path' = [path EXCEPT ![r] = tmp[r]] /\ tmp' = [tmp EXCEPT ![r] = 0]
      BY <1>8, <2>3 DEF Replace
    <3>3. path' \in [Ref -> Nat] /\ tmp' \in [Ref -> Nat]
      BY <1>0, <2>1, <3>2
    <3>. HIDE DEF rec
    <3>. QED
      BY <1>0, <2>1, <3>1, <3>2, <3>3, TypedMove
  <2>. QED
    BY <2>2, <2>3
<1>9. CASE AppendEntry(p)
  <2>. DEFINE e == Entry(Len(ledger) + 1, proc[p].kind, p, IF proc[p].kind = "proposed" THEN "allow" ELSE None,
                         RefOf[proc[p].kind], proc[p].key)
  <2>1. proc[p].at = "append" /\ proc[p].kind \in Kinds
    BY <1>9 DEF AppendEntry, Typed, Working
  <2>2. RefOf[proc[p].kind] \in Ref \cup {None} /\ Len(ledger) \in Nat
    BY <1>0, <2>1, HomeAssumption DEF Kinds
  <2>3. e \in EntryType
    BY <1>0, <2>1, <2>2 DEF Entry, EntryType
  <2>4. ledger' = Append(ledger, e)
    BY <1>9 DEF AppendEntry
  <2>. HIDE DEF e
  <2>5. ledger' \in Seq(EntryType)
    BY <1>0, <2>3, <2>4
  <2>. QED
    BY <1>0, <1>9, <2>5, <1>a DEF AppendEntry
<1>10. CASE Crash(p)
  BY <1>0, <1>10, <1>a DEF Crash
<1>. QED
  BY <1>1, <1>2, <1>3, <1>4, <1>5, <1>6, <1>7, <1>8, <1>9, <1>10 DEF ProcessStep

-----------------------------------------------------------------------------
(* The key. *)
LEMMA KeyedInit == Init => Keyed
<1>. SUFFICES ASSUME Init PROVE Keyed
  OBVIOUS
<1>1. \A p \in Process : proc[p].at = "down" /\ proc[p].key = None
  BY DEF Init, Down
<1>2. "down" \notin Working
  BY DEF Working
<1>3. Len(ledger) = 0 /\ 1 .. Len(ledger) = {}
  BY DEF Init
<1>. QED
  BY <1>1, <1>2, <1>3 DEF Keyed

(* The auditor and the editor leave the key alone.                         *)
LEMMA KeyedRest == ASSUME Keyed, Rest PROVE Keyed'
BY DEF Keyed, Rest, files

(* A step of one process that neither creates nor writes the key.          *)
LEMMA KeyedMove ==
    ASSUME Typed, Keyed, NEW p \in Process, UNCHANGED <<keyfile, ledger>>,
           NEW rec, proc' = [proc EXCEPT ![p] = rec],
           rec.at \in Waiting => rec.key = None,
           rec.at \in Working => rec.key = keyfile /\ keyfile \in Process,
           rec.at = "read" => keyfile # None,
           rec.at # "write key"
    PROVE  Keyed'
<1>1. \A q \in Process : proc'[q] = IF q = p THEN rec ELSE proc[q]
  BY DEF Typed
<1>2. \A q \in Process : proc'[q].at \in Waiting => proc'[q].key = None
  BY <1>1 DEF Keyed
<1>3. \A q \in Process : proc'[q].at \in Working => proc'[q].key = keyfile /\ keyfile \in Process
  BY <1>1 DEF Keyed
<1>4. \A q \in Process : /\ proc'[q].at = "read" => keyfile # None
                         /\ proc'[q].at = "write key" => q # p /\ proc[q].at = "write key"
  BY <1>1 DEF Keyed
<1>. QED
  BY <1>2, <1>3, <1>4 DEF Keyed

(* Working on, a process keeps its key. *)
LEMMA KeyKept ==
    ASSUME Typed, Keyed, NEW p \in Process, proc[p].at \in Working, UNCHANGED <<keyfile, ledger>>,
           NEW rec, rec.at \in Working, rec.key = proc[p].key, proc' = [proc EXCEPT ![p] = rec]
    PROVE  Keyed'
<1>1. rec.at \notin Waiting /\ rec.at # "read" /\ rec.at # "write key"
  BY DEF Working, Waiting
<1>2. rec.key = keyfile /\ keyfile \in Process
  BY DEF Keyed
<1>. QED
  BY <1>1, <1>2, KeyedMove

(* Every step of a process keeps the key.                                  *)
LEMMA KeyedStep ==
    ASSUME Typed, Keyed, algorithm = "ed25519", NEW p \in Process, ProcessStep(p) \/ Crash(p)
    PROVE  Keyed'
<1>. USE HomeAssumption DEF At, Become, Goto, Idle, Down, files
<1>0. \A q \in Process : proc[q] \in ProcType
  BY DEF Typed
<1>a. ASSUME NEW rec, proc' = [proc EXCEPT ![p] = rec]
      PROVE  \A q \in Process : proc'[q] = IF q = p THEN rec ELSE proc[q]
  BY <1>a DEF Typed
<1>b. keyfile \in Key
  BY DEF Typed
<1>c. Down.at = "down" /\ Down.key = None /\ Down.at \notin Working
  BY DEF Working
<1>1. CASE LookForKey(p)
  <2>. DEFINE rec == [proc[p] EXCEPT !.at = IF keyfile = None THEN "create" ELSE "read"]
  <2>1. rec.key = proc[p].key /\ rec.at = IF keyfile = None THEN "create" ELSE "read"
    BY <1>0 DEF ProcType
  <2>2. proc' = [proc EXCEPT ![p] = rec] /\ proc[p].at = "down" /\ UNCHANGED <<keyfile, ledger>>
    BY <1>1 DEF LookForKey
  <2>. HIDE DEF rec
  <2>3. rec.key = None /\ rec.at \notin Working /\ rec.at # "write key" /\ (rec.at = "read" => keyfile # None)
    BY <2>1, <2>2 DEF Keyed, Waiting, Working
  <2>. QED
    BY <2>2, <2>3, KeyedMove
<1>2. CASE ReadKey(p)
  <2>. DEFINE rec == IF keyfile = Empty THEN Down ELSE Idle(keyfile)
  <2>1. proc' = [proc EXCEPT ![p] = rec] /\ proc[p].at = "read" /\ UNCHANGED <<keyfile, ledger>>
    BY <1>2 DEF ReadKey
  <2>2. keyfile # Empty => keyfile \in Process
    BY <1>b, <2>1 DEF Keyed, Key
  <2>3. (rec.at = "down" /\ rec.key = None) \/ (rec.at = "ready" /\ rec.key = keyfile /\ keyfile \in Process)
    BY <2>2
  <2>. HIDE DEF rec
  <2>4. /\ rec.at \in Waiting => rec.key = None
        /\ rec.at \in Working => rec.key = keyfile /\ keyfile \in Process
        /\ rec.at # "read" /\ rec.at # "write key"
    BY <2>3 DEF Waiting, Working
  <2>. QED
    BY <2>1, <2>4, KeyedMove
<1>3. CASE CreateKey(p)
  <2>1. CASE keyfile = None
    <3>. DEFINE rec == [proc[p] EXCEPT !.at = "write key"]
    <3>1. proc' = [proc EXCEPT ![p] = rec] /\ proc[p].at = "create" /\ keyfile' = Empty /\ UNCHANGED ledger
      BY <1>3, <2>1 DEF CreateKey
    <3>2. rec.at = "write key" /\ rec.key = proc[p].key
      BY <1>0 DEF ProcType
    <3>. HIDE DEF rec
    <3>3. \A q \in Process : proc'[q] = IF q = p THEN rec ELSE proc[q]
      BY <1>a, <3>1
    <3>4. Len(ledger) = 0 \/ keyfile \in Process
      BY DEF Keyed
    <3>5. 1 .. Len(ledger) = {} /\ Len(ledger) = 0
      BY <2>1, <3>4
    <3>6. \A q \in Process : proc[q].at \in Waiting /\ proc[q].at # "read" /\ proc[q].at # "write key"
      BY <1>0, <2>1 DEF Keyed, ProcType
    <3>7. \A q \in Process : proc'[q].at \in Waiting /\ proc'[q].key = None
      <4>1. \A q \in Process : proc[q].key = None
        BY <3>6 DEF Keyed
      <4>2. rec.at \in Waiting
        BY <3>2 DEF Waiting
      <4>. QED
        BY <3>2, <3>3, <3>6, <4>1, <4>2
    <3>8. \A q \in Process : proc'[q].at \notin Working
      BY <3>7 DEF Waiting, Working
    <3>9. \A q \in Process : proc'[q].at # "read" /\ (proc'[q].at = "write key" => q = p)
      BY <3>2, <3>3, <3>6
    <3>. QED
      BY <3>1, <3>5, <3>7, <3>8, <3>9 DEF Keyed
  <2>2. CASE keyfile # None
    <3>1. proc' = [proc EXCEPT ![p] = Down] /\ UNCHANGED <<keyfile, ledger>>
      BY <1>3, <2>2 DEF CreateKey
    <3>. QED
      BY <3>1, <1>c, KeyedMove
  <2>. QED
    BY <2>1, <2>2
<1>4. CASE WriteKey(p)
  <2>1. /\ proc' = [proc EXCEPT ![p] = Idle(p)] /\ proc[p].at = "write key" /\ keyfile' = p
        /\ UNCHANGED ledger /\ keyfile = Empty
    BY <1>4 DEF WriteKey, Keyed
  <2>2. \A q \in Process : proc'[q] = IF q = p THEN Idle(p) ELSE proc[q]
    BY <1>a, <2>1
  <2>3. \A q \in Process : proc[q].at \in Waiting /\ (proc[q].at = "write key" => q = p)
    BY <1>0, <2>1 DEF Keyed, ProcType
  <2>4. Idle(p).at = "ready" /\ Idle(p).key = p /\ "ready" \notin Waiting /\ "ready" \in Working
    BY DEF Waiting, Working
  <2>5. 1 .. Len(ledger) = {} /\ Len(ledger) = 0
    <3>1. Len(ledger) = 0
      BY <2>1 DEF Keyed
    <3>. QED
      BY <3>1
  <2>6. \A q \in Process : q # p => proc[q].at \notin Working
    BY <2>3 DEF Waiting, Working
  <2>. HIDE DEF Idle
  <2>7. \A q \in Process : \/ q = p /\ proc'[q].at = "ready" /\ proc'[q].key = p
                           \/ q # p /\ proc'[q] = proc[q] /\ proc[q].at \notin Working \cup {"write key"}
    BY <2>2, <2>3, <2>4, <2>6
  <2>8. \A q \in Process : /\ proc'[q].at \in Waiting => proc'[q].key = None
                           /\ proc'[q].at \in Working => proc'[q].key = keyfile'
                           /\ proc'[q].at # "write key"
    BY <2>1, <2>4, <2>7 DEF Keyed
  <2>9. keyfile' \in Process /\ keyfile' # None /\ Len(ledger') = 0 /\ 1 .. Len(ledger') = {}
    BY <2>1, <2>5
  <2>. QED
    BY <2>8, <2>9 DEF Keyed
<1>5. CASE Put(p)
  <2>1. PICK kind \in Following(p) :
           proc' = [proc EXCEPT ![p] = [proc[p] EXCEPT !.kind = kind, !.at =
             IF RefOf[kind] = None THEN "append" ELSE IF path[RefOf[kind]] # 0 THEN "append" ELSE "open"]]
    BY <1>5 DEF Put
  <2>. DEFINE rec == [proc[p] EXCEPT !.kind = kind, !.at =
                        IF RefOf[kind] = None THEN "append" ELSE IF path[RefOf[kind]] # 0 THEN "append" ELSE "open"]
  <2>2. rec.at \in Working /\ rec.key = proc[p].key
    BY <1>0 DEF ProcType, Working
  <2>3. proc[p].at \in Working /\ UNCHANGED <<keyfile, ledger>>
    BY <1>5 DEF Put, Working
  <2>. QED
    BY <2>1, <2>2, <2>3, KeyKept
<1>6. CASE OpenTmp(p)
  <2>. DEFINE i == IF tmp[RefOf[proc[p].kind]] = 0 THEN Len(inode) + 1 ELSE tmp[RefOf[proc[p].kind]]
              rec == [proc[p] EXCEPT !.at = "write", !.fd = i]
  <2>1. rec.at \in Working /\ rec.key = proc[p].key
    BY <1>0 DEF ProcType, Working
  <2>2. proc[p].at \in Working /\ UNCHANGED <<keyfile, ledger>> /\ proc' = [proc EXCEPT ![p] = rec]
    BY <1>6 DEF OpenTmp, Working
  <2>. QED
    BY <2>1, <2>2, KeyKept
<1>7. CASE WriteTmp(p)
  <2>. DEFINE rec == [proc[p] EXCEPT !.at = "replace"]
  <2>1. rec.at \in Working /\ rec.key = proc[p].key
    BY <1>0 DEF ProcType, Working
  <2>2. proc[p].at \in Working /\ UNCHANGED <<keyfile, ledger>> /\ proc' = [proc EXCEPT ![p] = rec]
    BY <1>7 DEF WriteTmp, Working
  <2>. QED
    BY <2>1, <2>2, KeyKept
<1>8. CASE Replace(p)
  <2>. DEFINE rec == IF tmp[RefOf[proc[p].kind]] = 0 THEN Idle(proc[p].key)
                     ELSE [proc[p] EXCEPT !.at = "append", !.fd = 0]
  <2>1. rec.at \in Working /\ rec.key = proc[p].key
    BY <1>0 DEF ProcType, Working
  <2>2. proc[p].at \in Working /\ UNCHANGED <<keyfile, ledger>> /\ proc' = [proc EXCEPT ![p] = rec]
    BY <1>8 DEF Replace, Working
  <2>. QED
    BY <2>1, <2>2, KeyKept
<1>9. CASE AppendEntry(p)
  <2>1. proc[p].at \in Working /\ proc' = [proc EXCEPT ![p] = Idle(proc[p].key)] /\ UNCHANGED keyfile
    BY <1>9 DEF AppendEntry, Working
  <2>2. proc[p].key = keyfile /\ keyfile \in Process
    BY <2>1 DEF Keyed
  <2>3. \A i \in 1 .. Len(ledger') : ledger'[i].key = keyfile
    <3>. DEFINE e == Entry(Len(ledger) + 1, proc[p].kind, p, IF proc[p].kind = "proposed" THEN "allow" ELSE None,
                           RefOf[proc[p].kind], proc[p].key)
    <3>1. ledger' = Append(ledger, e) /\ e.key = keyfile
      BY <1>9, <2>2 DEF AppendEntry, Entry
    <3>. HIDE DEF e
    <3>2. ledger \in Seq(EntryType) /\ \A i \in 1 .. Len(ledger) : ledger[i].key = keyfile
      BY DEF Typed, Keyed
    <3>. QED
      BY <3>1, <3>2
  <2>4. \A q \in Process :
           \/ proc'[q] = proc[q]
           \/ q = p /\ proc'[q].at = "ready" /\ proc'[q].key = keyfile
    BY <2>1, <2>2 DEF Typed
  <2>5. "ready" \notin Waiting /\ "ready" \in Working
    BY DEF Waiting, Working
  <2>6. \A q \in Process : /\ proc'[q].at \in Waiting => proc'[q].key = None
                           /\ proc'[q].at \in Working => proc'[q].key = keyfile
                           /\ proc'[q].at = "read" => keyfile # None
                           /\ proc'[q].at = "write key" => keyfile = Empty /\ proc[q].at = "write key"
    BY <2>2, <2>4, <2>5 DEF Keyed
  <2>7. \A q, r \in Process : proc'[q].at = "write key" /\ proc'[r].at = "write key" => q = r
    BY <2>6 DEF Keyed
  <2>. QED
    BY <2>1, <2>2, <2>3, <2>6, <2>7 DEF Keyed
<1>10. CASE Crash(p)
  <2>1. proc' = [proc EXCEPT ![p] = Down] /\ UNCHANGED <<keyfile, ledger>>
    BY <1>10 DEF Crash
  <2>. QED
    BY <2>1, <1>c, KeyedMove
<1>. QED
  BY <1>1, <1>2, <1>3, <1>4, <1>5, <1>6, <1>7, <1>8, <1>9, <1>10 DEF ProcessStep

-----------------------------------------------------------------------------
(* The blobs. *)
LEMMA StoredInit == Init => Stored /\ Referred
<1>. SUFFICES ASSUME Init PROVE Stored /\ Referred
  OBVIOUS
<1>1. \A p \in Process : proc[p].at = "down"
  BY DEF Init, Down
<1>2. Len(ledger) = 0 /\ 1 .. Len(ledger) = {} /\ Len(inode) = 0
  BY DEF Init
<1>3. \A r \in Ref : path[r] = 0 /\ tmp[r] = 0
  BY DEF Init
<1>. QED
  BY <1>1, <1>2, <1>3 DEF Stored, Referred, Storing

(* The auditor and the editor leave the blobs alone.                       *)
LEMMA StoredRest == ASSUME Stored, Referred, Rest PROVE Stored' /\ Referred'
BY DEF Stored, Referred, Storing, Rest, files

(* A step of one process that stores nothing then, and leaves the files.   *)
LEMMA StoredMove ==
    ASSUME Typed, Stored, NEW p \in Process, NEW rec, proc' = [proc EXCEPT ![p] = rec], UNCHANGED files,
           rec.at \notin {"write", "replace"}
    PROVE  Stored'
<1>1. \A q \in Process : proc'[q] = IF q = p THEN rec ELSE proc[q]
  BY DEF Typed
<1>2. \A q \in Process, r \in Ref : Storing(q, r)' => q # p /\ Storing(q, r)
  BY <1>1 DEF Storing
<1>. QED
  BY <1>1, <1>2 DEF Stored, files

(* A step that appends nothing, and lets a process append only what it may. *)
LEMMA ReferredMove ==
    ASSUME Typed, Referred, NEW p \in Process, NEW rec, proc' = [proc EXCEPT ![p] = rec],
           UNCHANGED <<path, ledger>>,
           rec.at = "append" /\ RefOf[rec.kind] # None => path[RefOf[rec.kind]] # 0
    PROVE  Referred'
<1>1. \A q \in Process : proc'[q] = IF q = p THEN rec ELSE proc[q]
  BY DEF Typed
<1>. QED
  BY <1>1 DEF Referred

(* Opening the .tmp file takes a new inode or shares, and empties, one.    *)
LEMMA OpenStored ==
    ASSUME Typed, Stored, Referred, NEW p \in Process, OpenTmp(p)
    PROVE  Stored' /\ Referred'
<1>. DEFINE r == RefOf[proc[p].kind]
            i == IF tmp[r] = 0 THEN Len(inode) + 1 ELSE tmp[r]
            rec == [proc[p] EXCEPT !.at = "write", !.fd = i]
<1>1. /\ proc[p].at = "open" /\ r \in Ref /\ proc[p] \in ProcType
      /\ path \in [Ref -> Nat] /\ tmp \in [Ref -> Nat] /\ inode \in Seq({"part", "full"})
  BY DEF OpenTmp, At, Typed
<1>2. /\ proc' = [proc EXCEPT ![p] = rec] /\ tmp' = [tmp EXCEPT ![r] = i] /\ UNCHANGED <<path, ledger>>
      /\ inode' = IF tmp[r] = 0 THEN Append(inode, "part") ELSE [inode EXCEPT ![i] = "part"]
      /\ shared' = IF \E q \in Process : Storing(q, r) THEN shared \cup {i} ELSE shared
  BY DEF OpenTmp, Become
<1>3. rec.at = "write" /\ rec.fd = i /\ rec.kind = proc[p].kind
  BY <1>1 DEF ProcType
<1>4. Len(inode) \in Nat /\ i \in 1 .. Len(inode)' /\ Len(inode)' >= Len(inode) /\ Len(inode)' \in Nat
  <2>1. CASE tmp[r] = 0
    BY <1>1, <1>2, <2>1
  <2>2. CASE tmp[r] # 0
    <3>1. Len(inode)' = Len(inode)
      BY <1>1, <1>2, <2>2, InodeWritten
    <3>2. tmp[r] \in 0 .. Len(inode) /\ Len(inode) \in Nat
      BY <1>1 DEF Stored
    <3>. QED
      BY <2>2, <3>1, <3>2
  <2>. QED
    BY <2>1, <2>2
<1>5. \A j \in 1 .. Len(inode) : inode'[j] = inode[j] \/ j = i
  BY <1>1, <1>2, <1>4
<1>. HIDE DEF rec
<1>6. \A q \in Process : proc'[q] = IF q = p THEN rec ELSE proc[q]
  BY <1>2 DEF Typed
<1>7. \A s \in Ref : tmp'[s] = IF s = r THEN i ELSE tmp[s]
  BY <1>1, <1>2
<1>8. \A s \in Ref : s # r => tmp[s] # i
  BY <1>1, <1>4 DEF Stored
<1>9. \A s \in Ref : path[s] # i
  BY <1>1, <1>4 DEF Stored
<1>. HIDE DEF i
<1>10. \A q \in Process, s \in Ref :
          Storing(q, s)' => (q = p /\ s = r) \/ (q # p /\ Storing(q, s))
  <2>. SUFFICES ASSUME NEW q \in Process, NEW s \in Ref, Storing(q, s)'
                PROVE  (q = p /\ s = r) \/ (q # p /\ Storing(q, s))
    OBVIOUS
  <2>1. proc'[q].at \in {"write", "replace"} /\ RefOf[proc'[q].kind] = s
    BY DEF Storing
  <2>2. CASE q = p
    BY <1>3, <1>6, <2>1, <2>2
  <2>3. CASE q # p
    BY <1>6, <2>1, <2>3 DEF Storing
  <2>. QED
    BY <2>2, <2>3
<1>11. shared \subseteq shared' /\ \A q \in Process : Storing(q, r) => i \in shared'
  BY <1>2
<1>12. \A s \in Ref : path'[s] \in 0 .. Len(inode)' /\ tmp'[s] \in 0 .. Len(inode)'
  <2>1. \A s \in Ref : path[s] \in 0 .. Len(inode) /\ tmp[s] \in 0 .. Len(inode)
    BY DEF Stored
  <2>. QED
    BY <1>2, <1>4, <1>7, <2>1
<1>13. \A q \in Process : proc'[q].at \in {"write", "replace"} => proc'[q].fd \in 1 .. Len(inode)'
  <2>1. \A q \in Process : proc[q].at \in {"write", "replace"} => proc[q].fd \in 1 .. Len(inode)
    BY DEF Stored
  <2>. QED
    BY <1>3, <1>4, <1>6, <2>1
<1>14. \A s, t \in Ref : tmp'[s] # 0 => tmp'[s] # path'[t] /\ (tmp'[s] = tmp'[t] => s = t)
  BY <1>2, <1>7, <1>8, <1>9 DEF Stored
<1>15. \A q \in Process, s \in Ref : Storing(q, s)' => tmp'[s] \in {0, proc'[q].fd} \cup shared'
  BY <1>3, <1>6, <1>7, <1>10, <1>11 DEF Stored
<1>16. \A q \in Process, s \in Ref :
          Storing(q, s)' /\ proc'[q].at = "replace" /\ tmp'[s] = proc'[q].fd
             => tmp'[s] \in shared' \/ inode'[proc'[q].fd] = "full"
  <2>. SUFFICES ASSUME NEW q \in Process, NEW s \in Ref, Storing(q, s)', proc'[q].at = "replace",
                       tmp'[s] = proc'[q].fd
                PROVE  tmp'[s] \in shared' \/ inode'[proc'[q].fd] = "full"
    OBVIOUS
  <2>1. q # p /\ proc'[q] = proc[q] /\ Storing(q, s) /\ proc[q].at = "replace"
    BY <1>3, <1>6, <1>10
  <2>2. CASE s = r
    BY <1>7, <1>11, <2>1, <2>2
  <2>3. CASE s # r
    <3>1. tmp[s] = proc[q].fd /\ tmp[s] # i /\ proc[q].fd \in 1 .. Len(inode)
      BY <1>7, <1>8, <2>1, <2>3 DEF Stored
    <3>2. inode'[proc[q].fd] = inode[proc[q].fd]
      BY <1>5, <3>1
    <3>3. tmp[s] \in shared \/ inode[proc[q].fd] = "full"
      BY <2>1, <3>1 DEF Stored
    <3>. QED
      BY <1>7, <1>11, <2>1, <2>3, <3>2, <3>3
  <2>. QED
    BY <2>2, <2>3
<1>17. \A s \in Ref : path'[s] # 0 => path'[s] \in shared' \/ inode'[path'[s]] = "full"
  <2>. SUFFICES ASSUME NEW s \in Ref, path[s] # 0 PROVE path[s] \in shared' \/ inode'[path[s]] = "full"
    BY <1>2
  <2>1. path[s] \in 1 .. Len(inode)
    BY <1>1, <1>4 DEF Stored
  <2>2. inode'[path[s]] = inode[path[s]]
    BY <1>5, <1>9, <2>1
  <2>. QED
    BY <1>11, <2>2 DEF Stored
<1>18. Stored'
  BY <1>12, <1>13, <1>14, <1>15, <1>16, <1>17 DEF Stored
<1>19. Referred'
  BY <1>2, <1>3, ReferredMove
<1>. QED
  BY <1>18, <1>19

(* Writing makes whole what is open, whatever name it has by now.          *)
LEMMA WriteStored ==
    ASSUME Typed, Stored, Referred, NEW p \in Process, WriteTmp(p)
    PROVE  Stored' /\ Referred'
<1>. DEFINE rec == [proc[p] EXCEPT !.at = "replace"]
            i == proc[p].fd
<1>1. /\ proc[p].at = "write" /\ proc[p] \in ProcType /\ inode \in Seq({"part", "full"})
      /\ proc' = [proc EXCEPT ![p] = rec] /\ UNCHANGED <<path, tmp, shared, ledger>>
      /\ inode' = [inode EXCEPT ![i] = "full"]
  BY DEF WriteTmp, At, Goto, Become, Typed
<1>2. rec.at = "replace" /\ rec.fd = i /\ rec.kind = proc[p].kind
  BY <1>1 DEF ProcType
<1>. HIDE DEF rec
<1>3. i \in 1 .. Len(inode) /\ Len(inode)' = Len(inode)
  BY <1>1, InodeWritten DEF Stored
<1>4. \A j \in 1 .. Len(inode) : inode'[j] = IF j = i THEN "full" ELSE inode[j]
  BY <1>1
<1>5. \A q \in Process : proc'[q] = IF q = p THEN rec ELSE proc[q]
  BY <1>1 DEF Typed
<1>6. \A q \in Process : /\ proc'[q].fd = proc[q].fd /\ proc'[q].kind = proc[q].kind
                         /\ proc'[q].at \in {"write", "replace"} <=> proc[q].at \in {"write", "replace"}
                         /\ q # p => proc'[q].at = proc[q].at
  BY <1>1, <1>2, <1>5
<1>7. \A q \in Process, s \in Ref : Storing(q, s)' <=> Storing(q, s)
  BY <1>6 DEF Storing
<1>8. \A q \in Process, s \in Ref :
          Storing(q, s) /\ proc'[q].at = "replace" /\ tmp[s] = proc[q].fd
             => tmp[s] \in shared \/ inode'[proc[q].fd] = "full"
  <2>. SUFFICES ASSUME NEW q \in Process, NEW s \in Ref, Storing(q, s), proc'[q].at = "replace", tmp[s] = proc[q].fd,
                       tmp[s] \notin shared
                PROVE  inode'[proc[q].fd] = "full"
    OBVIOUS
  <2>1. CASE q = p
    BY <1>3, <1>4, <2>1
  <2>2. CASE q # p
    <3>1. proc[q].fd \in 1 .. Len(inode) /\ inode[proc[q].fd] = "full"
      BY <1>6, <2>2 DEF Stored, Storing
    <3>. QED
      BY <1>4, <3>1
  <2>. QED
    BY <2>1, <2>2
<1>9. \A s \in Ref : path[s] # 0 => path[s] \in shared \/ inode'[path[s]] = "full"
  <2>. SUFFICES ASSUME NEW s \in Ref, path[s] # 0, path[s] \notin shared PROVE inode'[path[s]] = "full"
    OBVIOUS
  <2>1. path[s] \in 0 .. Len(inode) /\ inode[path[s]] = "full"
    BY DEF Stored
  <2>2. path[s] \in 1 .. Len(inode)
    BY <1>1, <2>1
  <2>. QED
    BY <1>4, <2>1, <2>2
<1>10. Stored'
  BY <1>1, <1>3, <1>6, <1>7, <1>8, <1>9 DEF Stored
<1>11. Referred'
  BY <1>1, <1>2, ReferredMove
<1>. QED
  BY <1>10, <1>11

(* Renaming: what gets the name is whole, or was shared.                   *)
LEMMA ReplaceStored ==
    ASSUME Typed, Stored, Referred, NEW p \in Process, Replace(p)
    PROVE  Stored' /\ Referred'
<1>. DEFINE r == RefOf[proc[p].kind]
            rec == [proc[p] EXCEPT !.at = "append", !.fd = 0]
<1>1. /\ proc[p].at = "replace" /\ r \in Ref /\ proc[p] \in ProcType
      /\ path \in [Ref -> Nat] /\ tmp \in [Ref -> Nat] /\ UNCHANGED <<inode, shared, ledger>>
      /\ \A i \in 1 .. Len(ledger) : ledger[i].ref \in Ref \cup {None}
  BY EntryRefs DEF Replace, At, Typed
<1>2. CASE tmp[r] = 0
  <2>1. proc' = [proc EXCEPT ![p] = Idle(proc[p].key)] /\ UNCHANGED <<path, tmp>>
    BY <1>2 DEF Replace, Become
  <2>2. Idle(proc[p].key).at = "ready"
    BY DEF Idle
  <2>. QED
    BY <1>1, <2>1, <2>2, StoredMove, ReferredMove DEF files
<1>3. CASE tmp[r] # 0
  <2>1. /\ proc' = [proc EXCEPT ![p] = rec]
        /\ path' = [path EXCEPT ![r] = tmp[r]] /\ tmp' = [tmp EXCEPT ![r] = 0]
    BY <1>3 DEF Replace, Become
  <2>2. rec.at = "append" /\ rec.kind = proc[p].kind
    BY <1>1 DEF ProcType
  <2>. HIDE DEF rec
  <2>3. \A q \in Process : proc'[q] = IF q = p THEN rec ELSE proc[q]
    BY <2>1 DEF Typed
  <2>4. \A s \in Ref : path'[s] = (IF s = r THEN tmp[r] ELSE path[s]) /\ tmp'[s] = IF s = r THEN 0 ELSE tmp[s]
    BY <1>1, <2>1
  <2>5. \A q \in Process, s \in Ref : Storing(q, s)' => q # p /\ Storing(q, s)
    BY <2>2, <2>3 DEF Storing
  <2>6. tmp[r] \in shared \/ inode[tmp[r]] = "full"
    <3>1. Storing(p, r)
      BY <1>1 DEF Storing
    <3>2. tmp[r] \in {0, proc[p].fd} \cup shared
      BY <1>1, <3>1 DEF Stored
    <3>3. tmp[r] = proc[p].fd => tmp[r] \in shared \/ inode[proc[p].fd] = "full"
      BY <1>1, <3>1 DEF Stored
    <3>. QED
      BY <1>3, <3>2, <3>3
  <2>7. /\ \A s \in Ref : path'[s] \in 0 .. Len(inode) /\ tmp'[s] \in 0 .. Len(inode)
        /\ \A s \in Ref : path'[s] # 0 => path'[s] \in shared \/ inode[path'[s]] = "full"
    <3>1. Len(inode) \in Nat /\ \A s \in Ref : path[s] \in 0 .. Len(inode) /\ tmp[s] \in 0 .. Len(inode)
      BY DEF Stored, Typed
    <3>. QED
      BY <1>1, <2>4, <2>6, <3>1 DEF Stored
  <2>8. \A s, t \in Ref : tmp'[s] # 0 => tmp'[s] # path'[t] /\ (tmp'[s] = tmp'[t] => s = t)
    BY <1>1, <2>4 DEF Stored
  <2>9. \A q \in Process, s \in Ref :
           Storing(q, s)' => /\ tmp'[s] \in {0, proc'[q].fd} \cup shared
                             /\ proc'[q].at = "replace" /\ tmp'[s] = proc'[q].fd
                                   => tmp'[s] \in shared \/ inode[proc'[q].fd] = "full"
    <3>. SUFFICES ASSUME NEW q \in Process, NEW s \in Ref, Storing(q, s)'
                  PROVE  /\ tmp'[s] \in {0, proc'[q].fd} \cup shared
                         /\ proc'[q].at = "replace" /\ tmp'[s] = proc'[q].fd
                               => tmp'[s] \in shared \/ inode[proc'[q].fd] = "full"
      OBVIOUS
    <3>1. proc'[q] = proc[q] /\ Storing(q, s)
      BY <2>3, <2>5
    <3>2. CASE s # r
      BY <2>4, <3>1, <3>2 DEF Stored
    <3>3. CASE s = r
      <4>1. proc[q].fd \in 1 .. Len(inode) /\ Len(inode) \in Nat
        BY <3>1 DEF Stored, Storing, Typed
      <4>. QED
        BY <2>4, <3>1, <3>3, <4>1
    <3>. QED
      BY <3>2, <3>3
  <2>10. \A q \in Process : proc'[q].at \in {"write", "replace"} => proc'[q].fd \in 1 .. Len(inode)
    BY <2>2, <2>3 DEF Stored
  <2>11. Stored'
    BY <1>1, <2>7, <2>8, <2>9, <2>10 DEF Stored
  <2>12. Referred'
    <3>1. \A s \in Ref : path[s] # 0 => path'[s] # 0
      BY <1>3, <2>4
    <3>2. \A q \in Process : proc'[q].at = "append" => proc'[q].kind \in Kinds
      BY <1>1, <2>2, <2>3 DEF Typed, Working
    <3>3. \A kind \in Kinds : RefOf[kind] \in Ref \cup {None}
      BY HomeAssumption DEF Kinds
    <3>4. \A q \in Process : proc'[q].at = "append" /\ RefOf[proc'[q].kind] # None => path'[RefOf[proc'[q].kind]] # 0
      BY <1>3, <2>2, <2>3, <2>4, <3>1, <3>2, <3>3 DEF Referred
    <3>. QED
      BY <1>1, <3>1, <3>4 DEF Referred
  <2>. QED
    BY <2>11, <2>12
<1>. QED
  BY <1>2, <1>3

(* Every step of a process keeps the blobs and what refers to them.        *)
LEMMA StoredStep ==
    ASSUME Typed, Stored, Referred, NEW p \in Process, ProcessStep(p) \/ Crash(p)
    PROVE  Stored' /\ Referred'
<1>. USE DEF At, Become, Goto
<1>0. proc[p] \in ProcType
  BY DEF Typed
<1>a. ASSUME NEW rec, proc' = [proc EXCEPT ![p] = rec], UNCHANGED <<files, ledger>>,
             rec.at \in Waiting \cup {"ready"}
      PROVE  Stored' /\ Referred'
  <2>1. rec.at \notin {"write", "replace"} /\ rec.at # "append"
    BY <1>a DEF Waiting
  <2>. QED
    BY <1>a, <2>1, StoredMove, ReferredMove DEF files
<1>b. Down.at = "down" /\ \A key : Idle(key).at = "ready"
  BY DEF Down, Idle
<1>c. \A at : [proc[p] EXCEPT !.at = at].at = at
  BY <1>0 DEF ProcType
<1>1. CASE LookForKey(p)
  BY <1>1, <1>a, <1>c DEF LookForKey, Waiting
<1>2. CASE ReadKey(p)
  BY <1>2, <1>a, <1>b DEF ReadKey, Waiting
<1>3. CASE CreateKey(p)
  BY <1>3, <1>a, <1>b, <1>c DEF CreateKey, Waiting
<1>4. CASE WriteKey(p)
  BY <1>4, <1>a, <1>b DEF WriteKey
<1>5. CASE Put(p)
  <2>1. PICK kind \in Following(p) :
           proc' = [proc EXCEPT ![p] = [proc[p] EXCEPT !.kind = kind, !.at =
             IF RefOf[kind] = None THEN "append" ELSE IF path[RefOf[kind]] # 0 THEN "append" ELSE "open"]]
    BY <1>5 DEF Put
  <2>. DEFINE rec == [proc[p] EXCEPT !.kind = kind, !.at =
                        IF RefOf[kind] = None THEN "append" ELSE IF path[RefOf[kind]] # 0 THEN "append" ELSE "open"]
  <2>2. /\ rec.kind = kind /\ rec.at \notin {"write", "replace"}
        /\ rec.at = "append" /\ RefOf[kind] # None => path[RefOf[kind]] # 0
    BY <1>0 DEF ProcType
  <2>3. proc' = [proc EXCEPT ![p] = rec] /\ UNCHANGED <<files, ledger>>
    BY <1>5, <2>1 DEF Put
  <2>. HIDE DEF rec
  <2>. QED
    BY <2>2, <2>3, StoredMove, ReferredMove DEF files
<1>6. CASE OpenTmp(p)
  BY <1>6, OpenStored
<1>7. CASE WriteTmp(p)
  BY <1>7, WriteStored
<1>8. CASE Replace(p)
  BY <1>8, ReplaceStored
<1>9. CASE AppendEntry(p)
  <2>. DEFINE e == Entry(Len(ledger) + 1, proc[p].kind, p, IF proc[p].kind = "proposed" THEN "allow" ELSE None,
                         RefOf[proc[p].kind], proc[p].key)
  <2>1. /\ proc' = [proc EXCEPT ![p] = Idle(proc[p].key)] /\ UNCHANGED files /\ ledger' = Append(ledger, e)
        /\ e.ref = RefOf[proc[p].kind] /\ proc[p].at = "append" /\ ledger \in Seq(EntryType)
    BY <1>9 DEF AppendEntry, Entry, Typed
  <2>2. e.ref # None => path[e.ref] # 0
    BY <2>1 DEF Referred
  <2>. HIDE DEF e
  <2>3. \A i \in 1 .. Len(ledger') : ledger'[i].ref # None => path[ledger'[i].ref] # 0
    BY <2>1, <2>2 DEF Referred
  <2>4. \A q \in Process : proc'[q] = IF q = p THEN Idle(proc[p].key) ELSE proc[q]
    BY <2>1 DEF Typed
  <2>5. Referred'
    BY <1>b, <2>1, <2>3, <2>4 DEF Referred, files
  <2>6. Stored'
    BY <1>b, <2>1, StoredMove
  <2>. QED
    BY <2>5, <2>6
<1>10. CASE Crash(p)
  BY <1>10, <1>a, <1>b DEF Crash, Waiting
<1>. QED
  BY <1>1, <1>2, <1>3, <1>4, <1>5, <1>6, <1>7, <1>8, <1>9, <1>10 DEF ProcessStep

-----------------------------------------------------------------------------
IInv == Typed /\ (algorithm = "ed25519" => Keyed) /\ Stored /\ Referred

(* Types, key, blobs and references together are inductive.                *)
LEMMA Invariant == Spec => []IInv
<1>1. Init => IInv
  BY TypedInit, KeyedInit, StoredInit DEF IInv
<1>2. ASSUME IInv, [Next]_vars PROVE IInv'
  <2>1. CASE \E p \in Process : (ProcessStep(p) \/ Crash(p)) /\ UNCHANGED algorithm
    BY <1>2, <2>1, TypedStep, KeyedStep, StoredStep DEF IInv
  <2>2. CASE Rest
    <3>1. UNCHANGED algorithm
      BY <2>2 DEF Rest
    <3>. QED
      BY <1>2, <2>2, <3>1, TypedRest, KeyedRest, StoredRest DEF IInv
  <2>. QED
    BY <1>2, <2>1, <2>2 DEF Next, vars, Edit, Rest, files
<1>. QED
  BY <1>1, <1>2, PTL DEF Spec

(* However many processes start at once on a new home, and wherever they   *)
(* are killed, all that run and all that was ever signed have the one key  *)
(* on disk: O_EXCL lets one create it, and an empty key is refused         *)
(* (signing.py, _read_or_create and Ed25519Signer).                        *)
THEOREM OneKeyForAll == Spec => []OneKey
<1>1. IInv => OneKey
  <2>. SUFFICES ASSUME Typed, Keyed PROVE OneKey
    BY DEF IInv, OneKey
  <2>1. \A p \in Ready : proc[p].at \in Working
    BY DEF Ready, Keyed, Typed, ProcType
  <2>2. ledger \in Seq(EntryType)
    BY DEF Typed
  <2>3. DOMAIN ledger = 1 .. Len(ledger) /\ (ledger # <<>> => Len(ledger) # 0)
    BY <2>2
  <2>. QED
    BY <2>1, <2>3 DEF OneKey, Keyed, Ready
<1>. QED
  BY <1>1, Invariant, PTL

(* What an entry refers to is in the blob store, whole, unless two         *)
(* processes were storing it at once (store.py, BlobStore.put, called      *)
(* before the entry is appended, core.py).                                 *)
THEOREM BlobsFirst == Spec => []RefsResolve
<1>1. IInv => RefsResolve
  <2>. SUFFICES ASSUME Typed, Stored, Referred PROVE RefsResolve
    BY DEF IInv
  <2>1. ledger \in Seq(EntryType)
    BY DEF Typed
  <2>2. \A i \in DOMAIN ledger : i \in 1 .. Len(ledger) /\ ledger[i].ref \in Ref \cup {None}
    BY <2>1, EntryRefs
  <2>. QED
    BY <2>2 DEF RefsResolve, Stored, Referred
<1>. QED
  BY <1>1, Invariant, PTL

-----------------------------------------------------------------------------
(* A set of naturals has a least element. *)
LEMMA LeastNatural ==
    ASSUME NEW S \in SUBSET Nat, S # {}
    PROVE  \E x \in S : \A y \in S : x <= y
<1>1. PICK x \in S : \A y \in S : ~(<<y, x>> \in OpToRel(<, Nat))
  BY NatLessThanWellFounded, WFMin
<1>2. OpToRel(<, Nat) = {ss \in Nat \X Nat : ss[1] < ss[2]}
  BY DEF OpToRel
<1>3. ASSUME NEW y \in S PROVE x <= y
  <2>1. <<y, x>> \in Nat \X Nat /\ <<y, x>>[1] = y /\ <<y, x>>[2] = x
    OBVIOUS
  <2>2. ~(y < x)
    BY <1>1, <1>2, <2>1
  <2>. QED
    BY <2>2
<1>. QED
  BY <1>3

(* Each number up to how many there are is the rank of one of them. *)
LEMMA NthIsThere ==
    ASSUME NEW m \in Nat, NEW S \in SUBSET (1 .. m), NEW k \in 1 .. Cardinality(S)
    PROVE  Nth(S, k) \in S /\ Cardinality({j \in S : j <= Nth(S, k)}) = k
<1>. DEFINE Upto(x) == {y \in S : y <= x}
            n == Cardinality(S)
            rank == [x \in S |-> Cardinality(Upto(x))]
<1>1. IsFiniteSet(S) /\ n \in Nat /\ \A x \in S : x \in Int
  <2>1. IsFiniteSet(1 .. m)
    BY FS_Interval
  <2>2. IsFiniteSet(S)
    BY <2>1, FS_Subset
  <2>. QED
    BY <2>2, FS_CardinalityType
<1>2. \A x : IsFiniteSet(Upto(x)) /\ Cardinality(Upto(x)) \in Nat /\ Cardinality(Upto(x)) <= n
  BY <1>1, FS_Subset, FS_CardinalityType
<1>3. ASSUME NEW x \in S PROVE Cardinality(Upto(x)) \in 1 .. n
  <2>1. x \in Upto(x)
    BY <1>1
  <2>2. Cardinality(Upto(x)) # 0
    BY <1>2, <2>1, FS_EmptySet
  <2>. QED
    BY <1>1, <1>2, <2>2
<1>4. ASSUME NEW x \in S, NEW y \in S, x < y PROVE Cardinality(Upto(x)) # Cardinality(Upto(y))
  <2>1. y \in Upto(y) /\ y \notin Upto(x)
    BY <1>1, <1>4
  <2>2. Upto(x) \subseteq Upto(y)
    <3>1. \A z \in S : z \in Int /\ (z <= x => z <= y)
      BY <1>1, <1>4
    <3>. QED
      BY <3>1
  <2>. QED
    BY <1>2, <2>1, <2>2, FS_Subset
<1>5. rank \in Injection(S, 1 .. n)
  <2>1. rank \in [S -> 1 .. n]
    BY <1>3
  <2>2. ASSUME NEW x \in S, NEW y \in S, rank[x] = rank[y] PROVE x = y
    <3>1. x \in Int /\ y \in Int /\ ~(x < y) /\ ~(y < x)
      BY <1>1, <1>4, <2>2
    <3>. QED
      BY <3>1
  <2>. QED
    BY <2>1, <2>2 DEF Injection, IsInjective
<1>6. IsFiniteSet(1 .. n) /\ Cardinality(1 .. n) = n
  BY <1>1, FS_Interval
<1>7. rank \in Surjection(S, 1 .. n)
  BY <1>5, <1>6, FS_Injection
<1>8. PICK x \in S : rank[x] = k
  BY <1>7 DEF Surjection
<1>9. Cardinality(Upto(x)) = k
  BY <1>8
<1>. QED
  BY <1>9 DEF Nth

(* A greater rank is a later place. *)
LEMMA NthRises ==
    ASSUME NEW m \in Nat, NEW S \in SUBSET (1 .. m),
           NEW k \in 1 .. Cardinality(S), NEW l \in 1 .. Cardinality(S), k < l
    PROVE  Nth(S, k) < Nth(S, l)
<1>. DEFINE A == {j \in S : j <= Nth(S, k)}  B == {j \in S : j <= Nth(S, l)}
<1>1. Nth(S, k) \in S /\ Nth(S, l) \in S /\ Cardinality(A) = k /\ Cardinality(B) = l
  BY NthIsThere
<1>2. IsFiniteSet(S) /\ \A x \in S : x \in Int
  <2>1. IsFiniteSet(1 .. m)
    BY FS_Interval
  <2>2. IsFiniteSet(S)
    BY <2>1, FS_Subset
  <2>. QED
    BY <2>2
<1>a. Nth(S, k) \in Int /\ Nth(S, l) \in Int
  BY <1>1, <1>2
<1>3. SUFFICES ASSUME Nth(S, l) <= Nth(S, k) PROVE FALSE
  BY <1>a
<1>4. B \subseteq A
  <2>1. \A z \in S : z <= Nth(S, l) => z <= Nth(S, k)
    BY <1>a, <1>2, <1>3
  <2>. QED
    BY <2>1
<1>5. IsFiniteSet(A)
  BY <1>2, FS_Subset
<1>6. l <= k
  BY <1>1, <1>4, <1>5, FS_Subset
<1>. QED
  BY <1>6

(* An action's entries are entries of the ledger, in its order. *)
LEMMA ForAction ==
    ASSUME NEW T, NEW l \in Seq(T), NEW a
    PROVE  LET es == for_action(l, a)
               own == {i \in DOMAIN l : l[i].act = a}
           IN  /\ es \in Seq(T)
               /\ \A k \in 1 .. Len(es) : es[k] = l[Nth(own, k)] /\ Nth(own, k) \in own
               /\ \A j, k \in 1 .. Len(es) : j < k => Nth(own, j) < Nth(own, k)
<1>. DEFINE own == {i \in DOMAIN l : l[i].act = a}
            n == Cardinality(own)
            es == [k \in 1 .. n |-> l[Nth(own, k)]]
<1>1. Len(l) \in Nat /\ own \in SUBSET (1 .. Len(l)) /\ DOMAIN l = 1 .. Len(l)
  OBVIOUS
<1>2. n \in Nat
  <2>1. IsFiniteSet(1 .. Len(l))
    BY <1>1, FS_Interval
  <2>2. IsFiniteSet(own)
    BY <1>1, <2>1, FS_Subset
  <2>. QED
    BY <2>2, FS_CardinalityType
<1>3. \A k \in 1 .. n : Nth(own, k) \in own
  BY <1>1, NthIsThere
<1>4. \A k \in 1 .. n : l[Nth(own, k)] \in T
  BY <1>1, <1>3
<1>. HIDE DEF own
<1>5. es \in Seq(T) /\ Len(es) = n
  BY <1>2, <1>4
<1>6. \A j, k \in 1 .. n : j < k => Nth(own, j) < Nth(own, k)
  BY <1>1, NthRises
<1>7. for_action(l, a) = es
  BY DEF for_action, own
<1>8. \A k \in 1 .. n : es[k] = l[Nth(own, k)]
  OBVIOUS
<1>. HIDE DEF es, n
<1>9. /\ es \in Seq(T)
      /\ \A k \in 1 .. Len(es) : es[k] = l[Nth(own, k)] /\ Nth(own, k) \in own
      /\ \A j, k \in 1 .. Len(es) : j < k => Nth(own, j) < Nth(own, k)
  BY <1>3, <1>5, <1>6, <1>8
<1>. QED
  BY <1>7, <1>9 DEF own

-----------------------------------------------------------------------------
(***************************************************************************)
(* Proofs.  Every entry has its place in the ledger as its number, and     *)
(* only the entries of the ledger are genuine.  So whatever is made of a   *)
(* document without the key, what in it passes check_entry is an entry of  *)
(* the ledger, and the numbers say which (Page).  While a proof is being   *)
(* read, what was read stays in the ledger, in its order (Reading).        *)
(***************************************************************************)

Numbered ==
    \A i \in 1 .. Len(ledger) :
       ledger[i].seq = i /\ ledger[i].prev = i - 1 /\ ledger[i].hash = i /\ ledger[i].genuine

Recorded(e) == \E j \in 1 .. Len(ledger) : e = ledger[j]
Page        == {e \in EntryType : e.genuine => Recorded(e)}

EntriesRead ==
    LET es == audit.entries IN
    /\ es \in Seq(EntryType) /\ es # <<>>
    /\ \A i \in 1 .. Len(es) : es[i].act = audit.action /\ Recorded(es[i])
    /\ \A i, j \in 1 .. Len(es) : i < j => es[i].seq < es[j].seq
    /\ algorithm = "ed25519" => audit.key = es[1].key
HeadRead ==
    /\ Recorded(audit.head)
    /\ \A i \in 1 .. Len(audit.entries) : audit.entries[i].seq <= audit.head.seq

Document ==
    /\ DOMAIN proof = {"action", "key", "entries", "head", "segment", "claims"}
    /\ proof.entries \in Seq(Page) /\ proof.head \in Page
    /\ proof.segment = None \/ proof.segment \in Seq(Page)
Honest ==
    \E segment \in {None, Segment(ledger, audit.entries, audit.head)} :
       proof = build_proof(audit.action, audit.key, audit.entries, audit.head, segment)

Reading ==
    /\ edits \in Nat
    /\ DOMAIN audit = {"at", "action", "key", "entries", "head"}
    /\ audit.at \in {"start", "head", "segment", "built"}
    /\ audit.at # "start" => EntriesRead
    /\ audit.at \in {"segment", "built"} => HeadRead
    /\ audit.at = "built" => Document /\ (edits = 0 => Honest)

(* An entry that is recorded has the type of one, and its number tells     *)
(* where it is.                                                            *)
LEMMA RecordedEntry ==
    ASSUME Typed, Numbered, NEW e, Recorded(e)
    PROVE  /\ e \in EntryType /\ e \in Page /\ e.genuine /\ e.hash = e.seq
           /\ e.seq \in 1 .. Len(ledger) /\ e = ledger[e.seq]
<1>1. PICK j \in 1 .. Len(ledger) : e = ledger[j]
  BY DEF Recorded
<1>2. ledger \in Seq(EntryType)
  BY DEF Typed
<1>3. ledger[j] \in EntryType
  BY <1>2
<1>. QED
  BY <1>1, <1>3 DEF Numbered, Page

(* A step of a process adds at most one entry, with its number.            *)
LEMMA LedgerStep ==
    ASSUME Typed, Numbered, NEW p \in Process, ProcessStep(p) \/ Crash(p)
    PROVE  /\ Numbered'
           /\ Len(ledger) <= Len(ledger') /\ Len(ledger) \in Nat /\ Len(ledger') \in Nat
           /\ \A i \in 1 .. Len(ledger) : ledger'[i] = ledger[i]
<1>1. ledger \in Seq(EntryType)
  BY DEF Typed
<1>2. CASE ledger' = ledger
  BY <1>1, <1>2 DEF Numbered
<1>3. CASE AppendEntry(p)
  <2>. DEFINE e == Entry(Len(ledger) + 1, proc[p].kind, p, IF proc[p].kind = "proposed" THEN "allow" ELSE None,
                         RefOf[proc[p].kind], proc[p].key)
  <2>1. ledger' = Append(ledger, e)
    BY <1>3 DEF AppendEntry
  <2>2. e.seq = Len(ledger) + 1 /\ e.prev = e.seq - 1 /\ e.hash = e.seq /\ e.genuine
    BY DEF Entry
  <2>. HIDE DEF e
  <2>3. /\ Len(ledger') = Len(ledger) + 1 /\ Len(ledger) \in Nat
        /\ \A i \in 1 .. Len(ledger) : ledger'[i] = ledger[i]
        /\ ledger'[Len(ledger) + 1] = e
    BY <1>1, <2>1
  <2>4. \A i \in 1 .. Len(ledger') : i \in 1 .. Len(ledger) \/ i = Len(ledger) + 1
    BY <2>3
  <2>5. Numbered'
    BY <2>2, <2>3, <2>4 DEF Numbered
  <2>. QED
    BY <2>3, <2>5
<1>. QED
  BY <1>2, <1>3 DEF ProcessStep, LookForKey, ReadKey, CreateKey, WriteKey, Put, OpenTmp, WriteTmp, Replace, Crash

(* What is read of a ledger by a stretch of its numbers.                   *)
LEMMA Stretch ==
    ASSUME NEW T, NEW l \in Seq(T), NEW a \in 1 .. Len(l), NEW b \in 1 .. Len(l), a <= b
    PROVE  /\ SubSeq(l, a, b) \in Seq(T) /\ Len(SubSeq(l, a, b)) = b - a + 1
           /\ DOMAIN SubSeq(l, a, b) = 1 .. b - a + 1
           /\ \A i \in 1 .. b - a + 1 : SubSeq(l, a, b)[i] = l[a + i - 1] /\ a + i - 1 \in 1 .. Len(l)
<1>1. \A i \in a .. b : l[i] \in T
  OBVIOUS
<1>2. /\ SubSeq(l, a, b) \in Seq(T)
      /\ Len(SubSeq(l, a, b)) = b - a + 1
      /\ \A i \in 1 .. b - a + 1 : SubSeq(l, a, b)[i] = l[a + i - 1]
  BY <1>1, SubSeqProperties
<1>3. \A i \in 1 .. b - a + 1 : a + i - 1 \in 1 .. Len(l)
  OBVIOUS
<1>. QED
  BY <1>2, <1>3

(* What was read stays in the ledger.                                      *)
LEMMA ReadingGrows ==
    ASSUME Typed, Numbered, Reading, audit.at # "built", NEW p \in Process, ProcessStep(p) \/ Crash(p),
           UNCHANGED <<algorithm, audit, proof, edits>>
    PROVE  Reading'
<1>1. \A e : Recorded(e) => Recorded(e)'
  BY LedgerStep DEF Recorded
<1>2. EntriesRead => EntriesRead'
  BY <1>1 DEF EntriesRead
<1>3. HeadRead => HeadRead'
  BY <1>1 DEF HeadRead
<1>. QED
  BY <1>2, <1>3 DEF Reading

(* The entries of the action, read by a process that runs.                 *)
LEMMA ReadEntriesStep ==
    ASSUME Typed, Numbered, algorithm = "ed25519" => Keyed, Reading, ReadEntries,
           UNCHANGED <<algorithm, keyfile, proc, files, ledger, crashes, edits>>
    PROVE  Reading'
<1>1. PICK p \in Process, a \in Process :
         /\ At(p, "ready")
         /\ for_action(ledger, a) # <<>>
         /\ audit' = [audit EXCEPT !.at = "head", !.action = a, !.key = proc[p].key, !.entries = for_action(ledger, a)]
  BY DEF ReadEntries
<1>. DEFINE own == {i \in DOMAIN ledger : ledger[i].act = a}
<1>0. PICK es : es = for_action(ledger, a)
  OBVIOUS
<1>2. ledger \in Seq(EntryType) /\ DOMAIN ledger = 1 .. Len(ledger)
  BY DEF Typed
<1>3. /\ es \in Seq(EntryType)
      /\ \A k \in 1 .. Len(es) : es[k] = ledger[Nth(own, k)] /\ Nth(own, k) \in own
      /\ \A j, k \in 1 .. Len(es) : j < k => Nth(own, j) < Nth(own, k)
  BY <1>0, <1>2, ForAction
<1>4. \A k \in 1 .. Len(es) : /\ Nth(own, k) \in 1 .. Len(ledger) /\ es[k].seq = Nth(own, k)
                              /\ es[k].act = a /\ Recorded(es[k])
  BY <1>2, <1>3 DEF Numbered, Recorded
<1>5. /\ audit'.at = "head" /\ audit'.action = a /\ audit'.key = proc[p].key /\ audit'.entries = es
      /\ DOMAIN audit' = DOMAIN audit
  BY <1>0, <1>1 DEF Reading
<1>6. algorithm = "ed25519" => proc[p].key = es[1].key
  <2>. SUFFICES ASSUME Keyed PROVE proc[p].key = es[1].key
    OBVIOUS
  <2>1. proc[p].key = keyfile
    BY <1>1 DEF Keyed, At, Working
  <2>2. 1 \in 1 .. Len(es)
    BY <1>0, <1>1, <1>3
  <2>3. es[1].key = keyfile
    <3>1. es[1] = ledger[Nth(own, 1)] /\ Nth(own, 1) \in 1 .. Len(ledger)
      BY <1>3, <1>4, <2>2
    <3>. QED
      BY <3>1 DEF Keyed
  <2>. QED
    BY <2>1, <2>3
<1>7. \A e : Recorded(e)' <=> Recorded(e)
  BY DEF Recorded
<1>8. es # <<>>
  BY <1>0, <1>1
<1>. HIDE DEF own
<1>9. EntriesRead'
  <2>1. \A i \in 1 .. Len(es) : es[i].act = a /\ Recorded(es[i])'
    BY <1>4, <1>7
  <2>2. \A i, j \in 1 .. Len(es) : i < j => es[i].seq < es[j].seq
    <3>1. \A i \in 1 .. Len(es) : es[i].seq = Nth(own, i)
      BY <1>4
    <3>. QED
      BY <1>3, <3>1
  <2>. QED
    BY <1>3, <1>5, <1>6, <1>8, <2>1, <2>2 DEF EntriesRead
<1>. QED
  BY <1>5, <1>9 DEF Reading

(* The head is read later, so it is no older than the entries.             *)
LEMMA ReadHeadStep ==
    ASSUME Typed, Numbered, Reading, ReadHead,
           UNCHANGED <<algorithm, keyfile, proc, files, ledger, crashes, edits>>
    PROVE  Reading'
<1>. DEFINE h == ledger[Len(ledger)]
<1>1. EntriesRead /\ audit' = [audit EXCEPT !.at = "segment", !.head = h] /\ audit.at = "head"
  BY DEF ReadHead, head, Reading
<1>2. /\ audit'.at = "segment" /\ audit'.head = h /\ audit'.entries = audit.entries
      /\ audit'.action = audit.action /\ audit'.key = audit.key /\ DOMAIN audit' = DOMAIN audit
  BY <1>1 DEF Reading
<1>3. \A e : Recorded(e)' <=> Recorded(e)
  BY DEF Recorded
<1>4. EntriesRead'
  BY <1>1, <1>2, <1>3 DEF EntriesRead
<1>5. ledger \in Seq(EntryType) /\ Len(ledger) \in Nat
  BY DEF Typed
<1>6. \A i \in 1 .. Len(audit.entries) : audit.entries[i].seq \in 1 .. Len(ledger)
  BY <1>1, RecordedEntry DEF EntriesRead
<1>7. 1 \in 1 .. Len(audit.entries)
  BY <1>1 DEF EntriesRead
<1>8. Len(ledger) \in 1 .. Len(ledger)
  BY <1>5, <1>6, <1>7
<1>9. h.seq = Len(ledger) /\ Recorded(h)
  BY <1>8 DEF Numbered, Recorded
<1>10. HeadRead'
  BY <1>2, <1>3, <1>5, <1>6, <1>9 DEF HeadRead
<1>. QED
  BY <1>2, <1>4, <1>10 DEF Reading

(* Pages are the pages there are. *)
LEMMA Pages ==
    ASSUME Typed, Numbered, NEW es \in Seq(EntryType), \A i \in 1 .. Len(es) : Recorded(es[i])
    PROVE  es \in Seq(Page)
<1>1. \A i \in 1 .. Len(es) : es[i] \in Page
  BY RecordedEntry
<1>. QED
  BY <1>1

(* The segment is a stretch of the ledger from the action's first entry.   *)
LEMMA SegmentIsStretch ==
    ASSUME Typed, Numbered, EntriesRead, HeadRead
    PROVE  LET a == audit.entries[1].seq  b == audit.head.seq
           IN  a \in 1 .. Len(ledger) /\ b \in 1 .. Len(ledger) /\ a <= b
<1>1. 1 \in 1 .. Len(audit.entries)
  BY DEF EntriesRead
<1>2. Recorded(audit.entries[1]) /\ Recorded(audit.head) /\ audit.entries[1].seq <= audit.head.seq
  BY <1>1 DEF EntriesRead, HeadRead
<1>. QED
  BY <1>2, RecordedEntry

(* What is built is made of recorded entries.                              *)
LEMMA BuildProofStep ==
    ASSUME Typed, Numbered, Reading, BuildProof,
           UNCHANGED <<algorithm, keyfile, proc, files, ledger, crashes, edits>>
    PROVE  Reading'
<1>1. EntriesRead /\ HeadRead /\ audit.at = "segment" /\ audit' = [audit EXCEPT !.at = "built"]
  BY DEF BuildProof, Reading
<1>2. /\ audit'.at = "built" /\ audit'.head = audit.head /\ audit'.entries = audit.entries
      /\ audit'.action = audit.action /\ audit'.key = audit.key /\ DOMAIN audit' = DOMAIN audit
  BY <1>1 DEF Reading
<1>3. \A e : Recorded(e)' <=> Recorded(e)
  BY DEF Recorded
<1>4. EntriesRead' /\ HeadRead'
  BY <1>1, <1>2, <1>3 DEF EntriesRead, HeadRead
<1>5. PICK segment \in {None, Segment(ledger, audit.entries, audit.head)} :
         proof' = build_proof(audit.action, audit.key, audit.entries, audit.head, segment)
  BY DEF BuildProof
<1>6. Honest'
  BY <1>2, <1>5 DEF Honest
<1>7. Page' = Page
  BY <1>3 DEF Page
<1>8. audit.entries \in Seq(Page) /\ audit.head \in Page
  BY <1>1, Pages, RecordedEntry DEF EntriesRead, HeadRead
<1>9. segment = None \/ segment \in Seq(Page)
  <2>. SUFFICES ASSUME segment = SubSeq(ledger, audit.entries[1].seq, audit.head.seq) PROVE segment \in Seq(Page)
    BY <1>5 DEF Segment
  <2>1. ledger \in Seq(EntryType)
    BY DEF Typed
  <2>2. ledger \in Seq(Page)
    BY <2>1, Pages DEF Recorded
  <2>. QED
    BY <1>1, <2>2, SegmentIsStretch, Stretch
<1>10. Document'
  BY <1>5, <1>7, <1>8, <1>9 DEF Document, build_proof
<1>. QED
  BY <1>2, <1>4, <1>6, <1>10 DEF Reading

(* An edit makes pages of pages.                                           *)
LEMMA ChangedPages ==
    ASSUME Typed, Numbered, NEW es \in Seq(Page), NEW fs \in Changed(es)
    PROVE  fs \in Seq(Page)
<1>0. DOMAIN es = 1 .. Len(es) /\ \A i \in 1 .. Len(es) : es[i] \in Page
  OBVIOUS
<1>1. ASSUME NEW i \in DOMAIN es, fs = RemoveAt(es, i) PROVE fs \in Seq(Page)
  <2>1. SubSeq(es, 1, i - 1) \in Seq(Page) /\ SubSeq(es, i + 1, Len(es)) \in Seq(Page)
    BY <1>0, SubSeqProperties
  <2>. QED
    BY <1>1, <2>1 DEF RemoveAt
<1>2. ASSUME NEW i \in DOMAIN es, fs \in Altered(es, i) PROVE fs \in Seq(Page)
  <2>1. ASSUME NEW e \in Page PROVE [es EXCEPT ![i] = e] \in Seq(Page)
    BY <1>0, ExceptSeq
  <2>2. Forged(es[i]) \in Page
    <3>1. es[i] \in EntryType
      BY <1>0 DEF Page
    <3>2. Forged(es[i]) \in EntryType /\ ~Forged(es[i]).genuine
      BY <3>1 DEF Forged, EntryType
    <3>. QED
      BY <3>2 DEF Page
  <2>3. \A j \in DOMAIN ledger : ledger[j] \in Page
    <3>1. DOMAIN ledger = 1 .. Len(ledger)
      BY DEF Typed
    <3>. QED
      BY <3>1, RecordedEntry DEF Recorded
  <2>4. fs = [es EXCEPT ![i] = Forged(es[i])] \/ \E j \in DOMAIN ledger : fs = [es EXCEPT ![i] = ledger[j]]
    BY <1>2 DEF Altered
  <2>. QED
    BY <2>1, <2>2, <2>3, <2>4
<1>. QED
  BY <1>1, <1>2 DEF Changed

(* So whatever was edited, it is made of pages still.                      *)
LEMMA EditStep ==
    ASSUME Typed, Numbered, Reading, Edit
    PROVE  Reading'
<1>1. /\ audit.at = "built" /\ edits \in Nat /\ edits' = edits + 1 /\ audit' = audit /\ ledger' = ledger
      /\ algorithm' = algorithm /\ EntriesRead /\ HeadRead /\ Document /\ proof' \in Edits
  BY DEF Edit, Reading
<1>2. \A e : Recorded(e)' <=> Recorded(e)
  BY <1>1 DEF Recorded
<1>3. EntriesRead' /\ HeadRead' /\ Page' = Page
  BY <1>1, <1>2 DEF EntriesRead, HeadRead, Page
<1>. DEFINE Fields == {"action", "key", "entries", "head", "segment", "claims"}
<1>4. /\ DOMAIN proof = Fields /\ proof.entries \in Seq(Page) /\ proof.head \in Page
      /\ proof.segment = None \/ proof.segment \in Seq(Page)
  BY <1>1 DEF Document
<1>5. /\ DOMAIN proof' = Fields /\ proof'.entries \in Seq(Page) /\ proof'.head \in Page
      /\ proof'.segment = None \/ proof'.segment \in Seq(Page)
  <2>1. CASE \E es \in Changed(proof.entries) : proof' = [proof EXCEPT !.entries = es]
    BY <1>4, <2>1, ChangedPages
  <2>2. CASE \E es \in Changed(proof.entries) :
               proof' = [proof EXCEPT !.entries = es, !.claims = Claims(es, proof.action)]
    BY <1>4, <2>2, ChangedPages
  <2>3. CASE \E a \in Process : proof' = [proof EXCEPT !.action = a]
    BY <1>4, <2>3
  <2>4. CASE \E h \in {ledger[j] : j \in DOMAIN ledger} \cup {Forged(proof.head)} :
               proof' = [proof EXCEPT !.head = h]
    <3>1. PICK h \in {ledger[j] : j \in DOMAIN ledger} \cup {Forged(proof.head)} :
             proof' = [proof EXCEPT !.head = h]
      BY <2>4
    <3>2. h \in Page
      <4>1. CASE h = Forged(proof.head)
        <5>1. proof.head \in EntryType
          BY <1>4 DEF Page
        <5>2. h \in EntryType /\ ~h.genuine
          BY <4>1, <5>1 DEF Forged, EntryType
        <5>. QED
          BY <5>2 DEF Page
      <4>2. CASE \E j \in DOMAIN ledger : h = ledger[j]
        <5>1. DOMAIN ledger = 1 .. Len(ledger)
          BY DEF Typed
        <5>. QED
          BY <4>2, <5>1, RecordedEntry DEF Recorded
      <4>. QED
        BY <4>1, <4>2
    <3>. QED
      BY <1>4, <3>1, <3>2
  <2>5. CASE proof.segment # None /\ \E es \in Changed(proof.segment) : proof' = [proof EXCEPT !.segment = es]
    BY <1>4, <2>5, ChangedPages
  <2>6. CASE proof' = [proof EXCEPT !.key = None]
    BY <1>4, <2>6
  <2>7. CASE \E x : proof' = [proof EXCEPT !.claims = x]
    BY <1>4, <2>7
  <2>. QED
    BY <1>1, <2>1, <2>2, <2>3, <2>4, <2>5, <2>6, <2>7 DEF Edits
<1>6. Document'
  BY <1>3, <1>5 DEF Document
<1>. QED
  BY <1>1, <1>3, <1>6 DEF Reading

-----------------------------------------------------------------------------
(* A contiguous segment counts up from its first number.                   *)
LEMMA CountsUp ==
    ASSUME NEW sg \in Seq(EntryType), Contiguous(sg)
    PROVE  \A k \in 1 .. Len(sg) : sg[k].seq = sg[1].seq + k - 1
<1>. DEFINE Bad == {k \in 1 .. Len(sg) : sg[k].seq # sg[1].seq + k - 1}
<1>0. \A k \in 1 .. Len(sg) : sg[k] \in EntryType
  OBVIOUS
<1>1. \A k \in 1 .. Len(sg) : sg[k].seq \in Nat
  BY <1>0 DEF EntryType
<1>2. Bad = {}
  <2>. SUFFICES ASSUME Bad # {} PROVE FALSE
    OBVIOUS
  <2>1. Bad \in SUBSET Nat
    OBVIOUS
  <2>2. PICK x \in Bad : \A y \in Bad : x <= y
    BY <2>1, LeastNatural
  <2>3. x \in 1 .. Len(sg) /\ sg[x].seq # sg[1].seq + x - 1
    OBVIOUS
  <2>4. x # 1
    BY <1>1, <2>3
  <2>5. x - 1 \in 1 .. Len(sg) - 1 /\ x - 1 \in 1 .. Len(sg) /\ x - 1 + 1 = x /\ ~(x <= x - 1)
    BY <2>3, <2>4
  <2>6. x - 1 \notin Bad
    BY <2>2, <2>5
  <2>7. sg[x - 1].seq = sg[1].seq + (x - 1) - 1
    BY <2>5, <2>6
  <2>8. sg[x].seq = sg[x - 1].seq + 1
    BY <2>5 DEF Contiguous
  <2>9. sg[1].seq \in Int /\ sg[x - 1].seq \in Int /\ sg[x].seq \in Int /\ x \in Int
    <3>1. 1 \in 1 .. Len(sg) /\ x \in Int
      BY <2>3
    <3>. QED
      BY <1>1, <2>3, <2>5, <3>1
  <2>10. \A f, d, e, k \in Int : d = f + (k - 1) - 1 /\ e = d + 1 => e = f + k - 1
    OBVIOUS
  <2>11. sg[x].seq = sg[1].seq + x - 1
    BY <2>7, <2>8, <2>9, <2>10
  <2>. QED
    BY <2>3, <2>11
<1>. QED
  BY <1>2

(* Neighbours in order: all in order.                                      *)
LEMMA AllInOrder ==
    ASSUME NEW es \in Seq(EntryType), InOrder(es)
    PROVE  \A i, j \in 1 .. Len(es) : i < j => es[i].seq < es[j].seq
<1>. TAKE i \in 1 .. Len(es)
<1>. DEFINE Bad == {j \in 1 .. Len(es) : i < j /\ ~(es[i].seq < es[j].seq)}
<1>0. \A k \in 1 .. Len(es) : es[k] \in EntryType
  OBVIOUS
<1>1. \A k \in 1 .. Len(es) : es[k].seq \in Nat
  BY <1>0 DEF EntryType
<1>2. Bad = {}
  <2>. SUFFICES ASSUME Bad # {} PROVE FALSE
    OBVIOUS
  <2>1. Bad \in SUBSET Nat
    OBVIOUS
  <2>2. PICK x \in Bad : \A y \in Bad : x <= y
    BY <2>1, LeastNatural
  <2>3. x \in 1 .. Len(es) /\ i < x /\ ~(es[i].seq < es[x].seq)
    OBVIOUS
  <2>4. x - 1 \in 1 .. Len(es) - 1 /\ x - 1 \in 1 .. Len(es) /\ x - 1 + 1 = x /\ ~(x <= x - 1) /\ i <= x - 1
    BY <2>3
  <2>5. es[x - 1].seq < es[x].seq
    BY <2>4 DEF InOrder
  <2>6. x - 1 \notin Bad
    BY <2>2, <2>4
  <2>7. i = x - 1 \/ es[i].seq < es[x - 1].seq
    BY <2>4, <2>6
  <2>8. es[i].seq \in Nat /\ es[x].seq \in Nat /\ es[x - 1].seq \in Nat
    BY <1>1, <2>3, <2>4
  <2>. QED
    BY <2>3, <2>5, <2>7, <2>8
<1>. QED
  BY <1>2

(* by_seq, where no number occurs twice.                                   *)
LEMMA BySeqFinds ==
    ASSUME NEW sg, NEW m \in Nat, DOMAIN sg = 1 .. m, NEW k \in 1 .. m,
           \A i \in 1 .. m : sg[i].seq = sg[k].seq => i = k
    PROVE  BySeq(sg, sg[k].seq) = sg[k]
<1>1. {i \in DOMAIN sg : sg[i].seq = sg[k].seq} = {k}
  OBVIOUS
<1>2. Max({k}) = k
  BY DEF Max
<1>. QED
  BY <1>1, <1>2 DEF BySeq

AuditInv == IInv /\ Numbered /\ Reading

(* The numbers and what is read of them are inductive, too.                *)
LEMMA Auditing == Spec => []AuditInv
<1>1. Init => Numbered /\ Reading
  BY DEF Init, Numbered, Reading
<1>2. ASSUME IInv, Numbered, Reading, [Next]_vars PROVE Numbered' /\ Reading'
  <2>0. Typed /\ (algorithm = "ed25519" => Keyed)
    BY <1>2 DEF IInv
  <2>1. CASE /\ audit.at # "built"
             /\ \E p \in Process : ProcessStep(p) \/ Crash(p)
             /\ UNCHANGED <<algorithm, audit, proof, edits>>
    BY <1>2, <2>0, <2>1, LedgerStep, ReadingGrows
  <2>2. ASSUME UNCHANGED ledger PROVE Numbered'
    BY <1>2, <2>2 DEF Numbered
  <2>3. CASE /\ ReadEntries \/ ReadHead \/ BuildProof
             /\ UNCHANGED <<algorithm, keyfile, proc, files, ledger, crashes, edits>>
    BY <1>2, <2>0, <2>2, <2>3, ReadEntriesStep, ReadHeadStep, BuildProofStep
  <2>4. CASE Edit
    BY <1>2, <2>0, <2>2, <2>4, EditStep DEF Edit
  <2>5. CASE UNCHANGED vars
    <3>1. \A e : Recorded(e)' <=> Recorded(e)
      BY <2>5 DEF Recorded, vars
    <3>2. Page' = Page /\ (EntriesRead' <=> EntriesRead) /\ (HeadRead' <=> HeadRead)
      BY <2>5, <3>1 DEF Page, EntriesRead, HeadRead, vars
    <3>3. (Document' <=> Document) /\ (Honest' <=> Honest)
      BY <2>5, <3>2 DEF Document, Honest, vars
    <3>. QED
      BY <1>2, <2>2, <2>5, <3>2, <3>3 DEF Reading, vars
  <2>. QED
    BY <1>2, <2>1, <2>3, <2>4, <2>5 DEF Next
<1>. QED
  BY <1>1, <1>2, Invariant, PTL DEF Spec, AuditInv

(* "verify(action_id) -> proof" (proof.py): whatever is appended between   *)
(* the three reads of build_proof, verify_proof accepts what it made.      *)
THEOREM HonestIsAccepted == Spec => []HonestProofAccepted
<1>1. ASSUME AuditInv, audit.at = "built", edits = 0, algorithm = "ed25519" PROVE verify_proof(proof, keyfile)
  <2>. DEFINE es == audit.entries  h == audit.head  stretch == SubSeq(ledger, es[1].seq, h.seq)
  <2>0. Typed /\ Keyed /\ Numbered /\ EntriesRead /\ HeadRead /\ Honest
    BY <1>1 DEF AuditInv, IInv, Reading
  <2>1. PICK segment \in {None, stretch} : proof = build_proof(audit.action, audit.key, es, h, segment)
    BY <2>0 DEF Honest, Segment
  <2>2. /\ proof.action = audit.action /\ proof.key = audit.key /\ proof.entries = es /\ proof.head = h
        /\ proof.segment = segment /\ proof.claims = Claims(es, audit.action)
    BY <2>1 DEF build_proof
  <2>3. ASSUME NEW e, Recorded(e)
        PROVE  check_entry(e, keyfile) /\ e.seq \in 1 .. Len(ledger) /\ e = ledger[e.seq] /\ e.hash = e.seq
    <3>1. e.genuine /\ e.seq \in 1 .. Len(ledger) /\ e = ledger[e.seq] /\ e.hash = e.seq
      BY <2>0, <2>3, RecordedEntry
    <3>2. ledger[e.seq].key = keyfile
      BY <2>0, <3>1 DEF Keyed
    <3>. QED
      BY <3>1, <3>2 DEF check_entry
  <2>4. /\ es \in Seq(EntryType) /\ es # <<>> /\ DOMAIN es = 1 .. Len(es) /\ 1 \in 1 .. Len(es)
        /\ Len(es) \in Nat /\ Len(es) \in 1 .. Len(es)
    BY <2>0 DEF EntriesRead
  <2>5. /\ \A i \in 1 .. Len(es) : /\ check_entry(es[i], keyfile) /\ es[i].act = audit.action
                                   /\ es[i].seq \in 1 .. Len(ledger) /\ es[i] = ledger[es[i].seq]
                                   /\ es[i].seq <= h.seq
        /\ check_entry(h, keyfile) /\ h.seq \in 1 .. Len(ledger) /\ h.hash = h.seq
    BY <2>0, <2>3 DEF EntriesRead, HeadRead
  <2>6. audit.key = keyfile
    BY <1>1, <2>0, <2>4, <2>5 DEF EntriesRead, check_entry
  <2>7. InOrder(es)
    <3>1. \A i \in 1 .. Len(es) - 1 : i \in 1 .. Len(es) /\ i + 1 \in 1 .. Len(es) /\ i < i + 1
      BY <2>4
    <3>. QED
      BY <2>0, <3>1 DEF InOrder, EntriesRead
  <2>8. h.seq >= es[Len(es)].seq
    BY <2>4, <2>5
  <2>9. SegmentHolds(stretch, es, h, keyfile)
    <3>1. PICK a \in 1 .. Len(ledger), b \in 1 .. Len(ledger) : a = es[1].seq /\ b = h.seq /\ a <= b
      BY <2>0, SegmentIsStretch
    <3>2. ledger \in Seq(EntryType) /\ Len(ledger) \in Nat
      BY <2>0 DEF Typed
    <3>. DEFINE n == b - a + 1
    <3>3. /\ Len(stretch) = n /\ DOMAIN stretch = 1 .. n /\ n \in Nat /\ n >= 1
          /\ \A i \in 1 .. n : stretch[i] = ledger[a + i - 1] /\ a + i - 1 \in 1 .. Len(ledger)
      <4>1. /\ Len(SubSeq(ledger, a, b)) = n /\ DOMAIN SubSeq(ledger, a, b) = 1 .. n
            /\ \A i \in 1 .. n : /\ SubSeq(ledger, a, b)[i] = ledger[a + i - 1]
                                 /\ a + i - 1 \in 1 .. Len(ledger)
        <5>1. a <= b
          BY <3>1
        <5>. QED
          BY <3>2, <5>1, Stretch
      <4>2. n \in Nat /\ n >= 1
        BY <3>1
      <4>. QED
        BY <3>1, <4>1, <4>2
    <3>. HIDE DEF stretch
    <3>4. \A i \in 1 .. n : /\ stretch[i].seq = a + i - 1 /\ stretch[i].prev = a + i - 2
                            /\ stretch[i].hash = a + i - 1 /\ check_entry(stretch[i], keyfile)
      <4>. TAKE i \in 1 .. n
      <4>1. /\ ledger[a + i - 1].seq = a + i - 1 /\ ledger[a + i - 1].prev = a + i - 1 - 1
            /\ ledger[a + i - 1].hash = a + i - 1
        <5>1. PICK j \in 1 .. Len(ledger) : j = a + i - 1
          BY <3>3
        <5>2. ledger[j].seq = j /\ ledger[j].prev = j - 1 /\ ledger[j].hash = j
          BY <2>0 DEF Numbered
        <5>. QED
          BY <5>1, <5>2
      <4>2. Recorded(stretch[i])
        BY <3>3 DEF Recorded
      <4>. QED
        BY <2>3, <3>1, <3>3, <4>1, <4>2
    <3>. HIDE DEF n
    <3>5. Contiguous(stretch)
      <4>1. \A i \in 1 .. n - 1 : i \in 1 .. n /\ i + 1 \in 1 .. n
        BY <3>3
      <4>2. \A i \in 1 .. n - 1 : a + (i + 1) - 1 = a + i - 1 + 1 /\ a + (i + 1) - 2 = a + i - 1
        <5>. TAKE i \in 1 .. n - 1
        <5>1. i \in Int /\ a \in Int
          BY <3>1, <3>3
        <5>. QED
          BY <5>1
      <4>3. \A i \in 1 .. n - 1 : /\ stretch[i + 1].seq = stretch[i].seq + 1
                                   /\ stretch[i + 1].prev = stretch[i].hash
        <5>. TAKE i \in 1 .. n - 1
        <5>1. /\ stretch[i + 1].seq = a + (i + 1) - 1 /\ stretch[i + 1].prev = a + (i + 1) - 2
              /\ stretch[i].seq = a + i - 1 /\ stretch[i].hash = a + i - 1
          BY <3>4, <4>1
        <5>. QED
          BY <4>2, <5>1
      <4>4. Len(stretch) = n
        BY <3>3
      <4>. QED
        BY <4>3, <4>4 DEF Contiguous
    <3>6. ASSUME NEW i \in 1 .. Len(es)
          PROVE  /\ \E j \in DOMAIN stretch : stretch[j].seq = es[i].seq
                 /\ BySeq(stretch, es[i].seq).hash = es[i].hash
      <4>1. a <= es[i].seq /\ es[i].seq <= h.seq /\ es[i].seq \in Nat /\ h.seq \in Nat
        <5>1. i = 1 \/ 1 < i
          OBVIOUS
        <5>2. 1 < i => es[1].seq < es[i].seq
          BY <2>0, <2>4 DEF EntriesRead
        <5>. QED
          BY <2>5, <3>1, <5>1, <5>2
      <4>. DEFINE k == es[i].seq - a + 1
      <4>2. k \in 1 .. n /\ a + k - 1 = es[i].seq
        <5>1. \A x, y, z \in Int : x <= y /\ y <= z => y - x + 1 \in 1 .. z - x + 1 /\ x + (y - x + 1) - 1 = y
          OBVIOUS
        <5>2. a \in Int /\ b \in Int /\ es[i].seq \in Int /\ a <= es[i].seq /\ es[i].seq <= b
          BY <3>1, <4>1
        <5>. QED
          BY <3>1, <5>1, <5>2 DEF n
      <4>3. stretch[k] = ledger[es[i].seq] /\ stretch[k].seq = es[i].seq
        BY <3>3, <3>4, <4>2
      <4>. HIDE DEF k
      <4>4. \A j \in 1 .. n : stretch[j].seq = stretch[k].seq => j = k
        <5>. TAKE j \in 1 .. n
        <5>1. stretch[j].seq = a + j - 1 /\ stretch[k].seq = a + k - 1
          BY <3>4, <4>2
        <5>2. a \in Int /\ j \in Int /\ k \in Int
          BY <3>1, <4>2
        <5>. QED
          BY <5>1, <5>2
      <4>5. BySeq(stretch, es[i].seq) = stretch[k]
        BY <3>3, <4>2, <4>3, <4>4, BySeqFinds
      <4>. QED
        BY <2>5, <3>3, <4>2, <4>3, <4>5
    <3>7. stretch # <<>> /\ stretch[Len(stretch)].hash = h.hash
      <4>1. n \in 1 .. n /\ a + n - 1 = h.seq
        BY <3>1, <3>3 DEF n
      <4>. QED
        BY <2>5, <3>3, <3>4, <4>1
    <3>. QED
      BY <2>4, <3>3, <3>4, <3>5, <3>6, <3>7 DEF SegmentHolds
  <2>. HIDE DEF stretch
  <2>. QED
    BY <2>1, <2>2, <2>4, <2>5, <2>6, <2>7, <2>8, <2>9 DEF verify_proof
<1>. QED
  BY <1>1, Auditing, PTL DEF HonestProofAccepted

(* "Lets a verifier confirm nothing was spliced in or out" (proof.py),     *)
(* after any number of edits by somebody without the key: of a proof that  *)
(* verify_proof accepts, the entries and the head are the ledger's, in its *)
(* order, and the segment is the ledger up to the head, without a gap.     *)
THEOREM AcceptedIsTrue == Spec => []AcceptedIsHistory
<1>1. ASSUME AuditInv, audit.at = "built", algorithm = "ed25519", verify_proof(proof, keyfile)
      PROVE  LET es == proof.entries
                 sg == proof.segment
             IN  /\ \A i \in DOMAIN es : es[i].act = proof.action /\ es[i] = ledger[es[i].seq]
                 /\ \A i, j \in DOMAIN es : i < j => es[i].seq < es[j].seq
                 /\ proof.head = ledger[proof.head.seq] /\ \A i \in DOMAIN es : es[i].seq <= proof.head.seq
                 /\ sg # None => sg = SubSeq(ledger, sg[1].seq, proof.head.seq) /\ \A i \in DOMAIN es : Contains(sg, es[i])
  <2>. DEFINE es == proof.entries  sg == proof.segment  h == proof.head
  <2>0. Typed /\ Numbered /\ Document
    BY <1>1 DEF AuditInv, IInv, Reading
  <2>1. ASSUME NEW e \in Page, check_entry(e, keyfile)
        PROVE  e \in EntryType /\ e = ledger[e.seq] /\ e.seq \in 1 .. Len(ledger) /\ e.hash = e.seq
    BY <2>0, <2>1, RecordedEntry DEF check_entry, Page
  <2>2. /\ es \in Seq(Page) /\ h \in Page /\ (sg = None \/ sg \in Seq(Page))
        /\ DOMAIN es = 1 .. Len(es) /\ Len(es) \in Nat
    BY <2>0 DEF Document
  <2>3. /\ es # <<>> /\ InOrder(es) /\ check_entry(h, keyfile) /\ h.seq >= es[Len(es)].seq
        /\ \A i \in DOMAIN es : check_entry(es[i], keyfile) /\ es[i].act = proof.action
        /\ sg # None => SegmentHolds(sg, es, h, keyfile)
    BY <1>1 DEF verify_proof
  <2>4. \A i \in 1 .. Len(es) : /\ es[i] \in Page /\ es[i] \in EntryType /\ es[i] = ledger[es[i].seq]
                                /\ es[i].seq \in 1 .. Len(ledger) /\ es[i].hash = es[i].seq
    BY <2>1, <2>2, <2>3
  <2>5. h = ledger[h.seq] /\ h.seq \in 1 .. Len(ledger) /\ h.hash = h.seq
    BY <2>1, <2>2, <2>3
  <2>6. \A i, j \in 1 .. Len(es) : i < j => es[i].seq < es[j].seq
    <3>1. es \in Seq(EntryType)
      BY <2>2, <2>4
    <3>. QED
      BY <2>3, <3>1, AllInOrder
  <2>7. \A i \in 1 .. Len(es) : es[i].seq <= h.seq
    <3>. TAKE i \in 1 .. Len(es)
    <3>1. Len(es) \in 1 .. Len(es) /\ (i = Len(es) \/ i < Len(es))
      BY <2>2
    <3>2. i < Len(es) => es[i].seq < es[Len(es)].seq
      BY <2>6, <3>1
    <3>3. es[i].seq \in Nat /\ es[Len(es)].seq \in Nat /\ h.seq \in Nat
      BY <2>4, <2>5, <3>1
    <3>. QED
      BY <2>3, <3>1, <3>2, <3>3
  <2>8. ASSUME sg # None
        PROVE  sg = SubSeq(ledger, sg[1].seq, h.seq) /\ \A i \in 1 .. Len(es) : Contains(sg, es[i])
    <3>1. sg \in Seq(Page) /\ DOMAIN sg = 1 .. Len(sg) /\ Len(sg) \in Nat
      BY <2>2, <2>8
    <3>2. /\ Contiguous(sg) /\ sg # <<>> /\ sg[Len(sg)].hash = h.hash
          /\ \A i \in 1 .. Len(sg) : check_entry(sg[i], keyfile)
          /\ \A i \in 1 .. Len(es) : \E j \in 1 .. Len(sg) : sg[j].seq = es[i].seq
      BY <2>2, <2>3, <2>8, <3>1 DEF SegmentHolds
    <3>3. \A i \in 1 .. Len(sg) : /\ sg[i] \in EntryType /\ sg[i] = ledger[sg[i].seq]
                                  /\ sg[i].seq \in 1 .. Len(ledger) /\ sg[i].hash = sg[i].seq
      <4>1. \A i \in 1 .. Len(sg) : sg[i] \in Page
        BY <3>1
      <4>. QED
        BY <2>1, <3>2, <4>1
    <3>4. sg \in Seq(EntryType)
      BY <3>1, <3>3
    <3>5. \A i \in 1 .. Len(sg) : sg[i].seq = sg[1].seq + i - 1
      BY <3>2, <3>4, CountsUp
    <3>6. 1 \in 1 .. Len(sg) /\ Len(sg) \in 1 .. Len(sg)
      BY <3>1, <3>2
    <3>. DEFINE a == sg[1].seq
    <3>7. a \in 1 .. Len(ledger) /\ h.seq = a + Len(sg) - 1 /\ a <= h.seq /\ Len(sg) = h.seq - a + 1
      <4>1. a \in 1 .. Len(ledger) /\ a \in Nat
        BY <3>3, <3>6
      <4>2. sg[Len(sg)].seq = h.seq
        BY <2>5, <3>2, <3>3, <3>6
      <4>3. h.seq = a + Len(sg) - 1
        BY <3>5, <3>6, <4>2
      <4>. QED
        BY <3>1, <3>6, <4>1, <4>3
    <3>8. sg = SubSeq(ledger, a, h.seq)
      <4>1. ledger \in Seq(EntryType)
        BY <2>0 DEF Typed
      <4>2. PICK b \in 1 .. Len(ledger), c \in 1 .. Len(ledger) : b = a /\ c = h.seq /\ b <= c
        BY <2>5, <3>7
      <4>3. PICK st : st = SubSeq(ledger, b, c)
        OBVIOUS
      <4>4. /\ SubSeq(ledger, b, c) \in Seq(EntryType) /\ Len(SubSeq(ledger, b, c)) = c - b + 1
            /\ \A i \in 1 .. c - b + 1 : SubSeq(ledger, b, c)[i] = ledger[b + i - 1]
        <5>1. b <= c
          BY <4>2
        <5>. QED
          BY <4>1, <5>1, Stretch
      <4>5. /\ st \in Seq(EntryType) /\ Len(st) = c - b + 1
            /\ \A i \in 1 .. c - b + 1 : st[i] = ledger[b + i - 1]
        BY <4>3, <4>4
      <4>6. Len(st) = Len(sg) /\ \A i \in 1 .. Len(sg) : st[i] = sg[i]
        BY <3>3, <3>5, <3>7, <4>2, <4>5
      <4>7. st = sg
        BY <3>4, <4>5, <4>6, SeqEqual
      <4>. QED
        BY <4>2, <4>3, <4>7
    <3>9. \A i \in 1 .. Len(es) : Contains(sg, es[i])
      <4>. TAKE i \in 1 .. Len(es)
      <4>1. PICK j \in 1 .. Len(sg) : sg[j].seq = es[i].seq
        BY <3>2
      <4>2. sg[j] = es[i]
        BY <2>4, <3>3, <4>1
      <4>. QED
        BY <4>2 DEF Contains
    <3>. QED
      BY <3>8, <3>9
  <2>. QED
    BY <2>2, <2>3, <2>4, <2>5, <2>6, <2>7, <2>8
<1>. QED
  BY <1>1, Auditing, PTL DEF AcceptedIsHistory
=============================================================================
