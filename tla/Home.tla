-------------------------------- MODULE Home --------------------------------
(***************************************************************************)
(* A home directory shared by processes: each loads or creates the signing *)
(* key when it starts (signing.py), then takes an action through its       *)
(* entries, storing what an entry refers to (BlobStore in store.py) before *)
(* it appends the entry.  An auditor builds a proof while they go on, and  *)
(* somebody edits it.  A process may be killed at any point and started    *)
(* again.  Appending is one step (LedgerStore, ImplementsLog).             *)
(*                                                                         *)
(* A file is a name for an inode, and a process writes into the inode it   *)
(* opened, whatever its name is by then.                                   *)
(***************************************************************************)
EXTENDS Proof, SequencesExt

CONSTANTS
    Process,            \* each with one action of the same name
    Ref,                \* the blobs' references
    RefOf,              \* kind of entry |-> what it refers to, or None
    Algorithms,         \* the signing algorithms considered
    Empty,              \* what is read from a key file that was not written yet
    CrashMax, EditMax   \* bounds: processes killed, edits of a proof

ASSUME HomeAssumption ==
    /\ None \notin Process /\ Empty \notin Process /\ None # Empty /\ None \notin Ref
    /\ RefOf \in [{"proposed", "prepared", "committed", "undone"} -> Ref \cup {None}]

VARIABLES
    algorithm,
    keyfile,    \* None: there is none; Empty; or the key
    proc,       \* a process: where it is, its key, the entry to append, the inode it has open
    path, tmp,  \* ref |-> the inode of the blob and of its .tmp file, 0 for none
    inode,      \* what is in the inodes: "part" or "full"
    shared,     \* history: inodes opened by one process while another was storing the same blob
    ledger,
    audit,      \* the auditor: where it is and what it has read
    proof,
    crashes, edits

vars  == <<algorithm, keyfile, proc, path, tmp, inode, shared, ledger, audit, proof, crashes, edits>>
files == <<path, tmp, inode, shared>>

Idle(key) == [at |-> "ready", key |-> key, kind |-> None, fd |-> 0]
Down      == [at |-> "down", key |-> None, kind |-> None, fd |-> 0]

Init ==
    /\ algorithm \in Algorithms
    /\ keyfile = None
    /\ proc = [p \in Process |-> Down]
    /\ path = [r \in Ref |-> 0] /\ tmp = [r \in Ref |-> 0] /\ inode = <<>> /\ shared = {}
    /\ ledger = <<>>
    /\ audit = [at |-> "start", action |-> None, key |-> None, entries |-> <<>>, head |-> None]
    /\ proof = None
    /\ crashes = 0 /\ edits = 0

At(p, label)   == proc[p].at = label
Become(p, r)   == proc' = [proc EXCEPT ![p] = r]
Goto(p, label) == Become(p, [proc[p] EXCEPT !.at = label])

-----------------------------------------------------------------------------
(* load_signer, _read_or_create.                                           *)
LookForKey(p) ==
    /\ At(p, "down")
    /\ Goto(p, IF keyfile = None THEN "create" ELSE "read")
    /\ UNCHANGED <<keyfile, files, ledger>>

(* An Ed25519 key of no bytes is refused, an HMAC key is not.              *)
ReadKey(p) ==
    /\ At(p, "read")
    /\ IF keyfile = Empty /\ algorithm = "ed25519" THEN Become(p, Down) ELSE Become(p, Idle(keyfile))
    /\ UNCHANGED <<keyfile, files, ledger>>

(* Faulty variant: O_TRUNC for O_EXCL. *)
CreateKeyAnyway(p) ==
    /\ At(p, "create")
    /\ keyfile' = Empty /\ Goto(p, "write key")
    /\ UNCHANGED <<files, ledger>>

(* O_CREAT | O_EXCL: it fails when somebody else was faster.               *)
CreateKey(p) ==
    /\ At(p, "create")
    /\ IF keyfile = None THEN keyfile' = Empty /\ Goto(p, "write key")
       ELSE Become(p, Down) /\ UNCHANGED keyfile
    /\ UNCHANGED <<files, ledger>>

(* The key a process makes is its own: secrets never coincide.             *)
WriteKey(p) ==
    /\ At(p, "write key")
    /\ keyfile' = p
    /\ Become(p, Idle(p))
    /\ UNCHANGED <<files, ledger>>

-----------------------------------------------------------------------------
(* The next entry of its action, as the ledger has it.                     *)
Following(p) ==
    CASE StatusOf(ledger, p) = "unknown"   -> {"proposed"}
      [] StatusOf(ledger, p) = "proposed"  -> {"prepared"}
      [] StatusOf(ledger, p) = "in_flight" -> {"committed", "undone"}
      [] StatusOf(ledger, p) = "committed" -> {"undone"}
      [] OTHER                             -> {}

(* Faulty variant: a blob somebody is about to store is taken for stored.  *)
PutWhenUnheardOf(p) ==
    /\ At(p, "ready")
    /\ \E kind \in Following(p) :
          Become(p, [proc[p] EXCEPT !.kind = kind, !.at =
             IF RefOf[kind] = None THEN "append"
             ELSE IF path[RefOf[kind]] # 0 \/ tmp[RefOf[kind]] # 0 THEN "append" ELSE "open"])
    /\ UNCHANGED <<keyfile, files, ledger>>

(* BlobStore.put: is it there already?                                     *)
Put(p) ==
    /\ At(p, "ready")
    /\ \E kind \in Following(p) :
          Become(p, [proc[p] EXCEPT !.kind = kind, !.at =
             IF RefOf[kind] = None THEN "append" ELSE IF path[RefOf[kind]] # 0 THEN "append" ELSE "open"])
    /\ UNCHANGED <<keyfile, files, ledger>>

Storing(p, r) == proc[p].at \in {"write", "replace"} /\ RefOf[proc[p].kind] = r

(* write_bytes opens the .tmp file, which empties it if it is there.       *)
OpenTmp(p) ==
    LET r == RefOf[proc[p].kind]
        i == IF tmp[r] = 0 THEN Len(inode) + 1 ELSE tmp[r]
    IN  /\ At(p, "open")
        /\ tmp' = [tmp EXCEPT ![r] = i]
        /\ inode' = IF tmp[r] = 0 THEN Append(inode, "part") ELSE [inode EXCEPT ![i] = "part"]
        /\ shared' = IF \E q \in Process : Storing(q, r) THEN shared \cup {i} ELSE shared
        /\ Become(p, [proc[p] EXCEPT !.at = "write", !.fd = i])
        /\ UNCHANGED <<keyfile, path, ledger>>

(* fd is kept until the blob is published, or is not.                      *)
WriteTmp(p) ==
    /\ At(p, "write")
    /\ inode' = [inode EXCEPT ![proc[p].fd] = "full"]
    /\ Goto(p, "replace")
    /\ UNCHANGED <<keyfile, path, tmp, shared, ledger>>

(* os.replace: whatever the .tmp file is by now; it fails if it is gone.   *)
Replace(p) ==
    LET r == RefOf[proc[p].kind]
    IN  /\ At(p, "replace")
        /\ IF tmp[r] = 0 THEN Become(p, Idle(proc[p].key)) /\ UNCHANGED <<path, tmp>>
           ELSE /\ path' = [path EXCEPT ![r] = tmp[r]]
                /\ tmp' = [tmp EXCEPT ![r] = 0]
                /\ Become(p, [proc[p] EXCEPT !.at = "append", !.fd = 0])
        /\ UNCHANGED <<keyfile, inode, shared, ledger>>

(* The entry, signed. *)
AppendEntry(p) ==
    LET kind == proc[p].kind
    IN  /\ At(p, "append")
        /\ ledger' = Append(ledger, Entry(Len(ledger) + 1, kind, p, IF kind = "proposed" THEN "allow" ELSE None,
                                          RefOf[kind], proc[p].key))
        /\ Become(p, Idle(proc[p].key))
        /\ UNCHANGED <<keyfile, files>>

Crash(p) ==
    /\ ~At(p, "down") /\ crashes < CrashMax
    /\ Become(p, Down)
    /\ UNCHANGED <<keyfile, files, ledger>>

-----------------------------------------------------------------------------
(* build_proof, in a process that has the key: three reads.                *)
ReadEntries ==
    /\ audit.at = "start"
    /\ \E p \in Process, a \in Process :
          /\ At(p, "ready")
          /\ for_action(ledger, a) # <<>>
          /\ audit' = [audit EXCEPT !.at = "head", !.action = a, !.key = proc[p].key, !.entries = for_action(ledger, a)]
    /\ UNCHANGED proof

ReadHead ==
    /\ audit.at = "head"
    /\ audit' = [audit EXCEPT !.at = "segment", !.head = head(ledger)]
    /\ UNCHANGED proof

BuildProof ==
    /\ audit.at = "segment"
    /\ \E segment \in {None, Segment(ledger, audit.entries, audit.head)} :
          proof' = build_proof(audit.action, audit.key, audit.entries, audit.head, segment)
    /\ audit' = [audit EXCEPT !.at = "built"]

(* One change to the document by somebody without the key: entries are     *)
(* left out, altered or replaced by others of the ledger; the key or a     *)
(* claim is left out.  The processes rest: they only add to the ledger.    *)
Forged(e)      == [e EXCEPT !.genuine = FALSE]
Altered(es, i) == {[es EXCEPT ![i] = Forged(es[i])]} \cup {[es EXCEPT ![i] = ledger[j]] : j \in DOMAIN ledger}
Changed(es)    == {RemoveAt(es, i) : i \in DOMAIN es} \cup UNION {Altered(es, i) : i \in DOMAIN es}

Edits ==
    {[proof EXCEPT !.entries = es] : es \in Changed(proof.entries)}
      \cup {[proof EXCEPT !.entries = es, !.claims = Claims(es, proof.action)] : es \in Changed(proof.entries)}
      \cup {[proof EXCEPT !.action = a] : a \in Process}
      \cup {[proof EXCEPT !.key = None]}
      \cup {[proof EXCEPT !.claims = Restrict(proof.claims, DOMAIN proof.claims \ {c})] : c \in DOMAIN proof.claims}
      \cup {[proof EXCEPT !.head = h] : h \in {ledger[j] : j \in DOMAIN ledger} \cup {Forged(proof.head)}}
      \cup IF proof.segment = None THEN {} ELSE {[proof EXCEPT !.segment = es] : es \in Changed(proof.segment)}

Edit ==
    /\ audit.at = "built" /\ edits < EditMax
    /\ \A p \in Process : At(p, "ready")
    /\ edits' = edits + 1
    /\ proof' \in Edits
    /\ UNCHANGED <<algorithm, keyfile, proc, files, ledger, audit, crashes>>

-----------------------------------------------------------------------------
(* When the proof is there, the processes are let stand still: the ledger  *)
(* only grows.                                                             *)
ProcessStep(p) ==
    \/ LookForKey(p) \/ ReadKey(p) \/ CreateKey(p) \/ WriteKey(p)
    \/ Put(p) \/ OpenTmp(p) \/ WriteTmp(p) \/ Replace(p) \/ AppendEntry(p)

Next ==
    \/ /\ audit.at # "built"
       /\ \E p \in Process : \/ ProcessStep(p) /\ UNCHANGED crashes
                             \/ Crash(p) /\ crashes' = crashes + 1
       /\ UNCHANGED <<algorithm, audit, proof, edits>>
    \/ /\ ReadEntries \/ ReadHead \/ BuildProof
       /\ UNCHANGED <<algorithm, keyfile, proc, files, ledger, crashes, edits>>
    \/ Edit

Spec == Init /\ [][Next]_vars

-----------------------------------------------------------------------------
Ready == {p \in Process : proc[p].key # None}

(* "Load the local signing key, generating one on first use" (signing.py:  *)
(* 114): however many start at once and wherever they are killed, all that *)
(* run, and all entries, have the one key that is on disk.  An HMAC signer *)
(* may have read the empty file.                                           *)
OneKey ==
    algorithm = "ed25519" =>
       /\ \A p \in Ready : proc[p].key = keyfile
       /\ \A i \in DOMAIN ledger : ledger[i].key = keyfile
       /\ ledger # <<>> => keyfile \in Process

(* What an entry refers to was stored before the entry was written         *)
(* (core.py:341): it can be read back, unless two processes stored it at   *)
(* once and shared the .tmp file.                                          *)
RefsResolve ==
    \A i \in DOMAIN ledger :
       LET r == ledger[i].ref IN r # None => path[r] # 0 /\ (inode[path[r]] = "full" \/ path[r] \in shared)

(* "verify(action_id) -> proof" (proof.py:1): what build_proof makes of    *)
(* three reads, whatever is appended between them, its own check accepts.  *)
HonestProofAccepted ==
    audit.at = "built" /\ edits = 0 /\ algorithm = "ed25519" => verify_proof(proof, keyfile)

(* "Lets a verifier confirm nothing was spliced in or out" (proof.py:8):   *)
(* of an accepted proof, the entries are entries of its action in the      *)
(* order of the ledger, the head is in the ledger behind them, and the     *)
(* segment is the ledger, without a gap, up to the head with all of them   *)
(* in it.  Entries of the action may be missing.                           *)
AcceptedIsHistory ==
    audit.at = "built" /\ algorithm = "ed25519" /\ verify_proof(proof, keyfile) =>
       LET es == proof.entries
           sg == proof.segment
       IN  /\ \A i \in DOMAIN es : es[i].act = proof.action /\ es[i] = ledger[es[i].seq]
           /\ \A i, j \in DOMAIN es : i < j => es[i].seq < es[j].seq
           /\ proof.head = ledger[proof.head.seq] /\ \A i \in DOMAIN es : es[i].seq <= proof.head.seq
           /\ sg # None => sg = SubSeq(ledger, sg[1].seq, proof.head.seq) /\ \A i \in DOMAIN es : Contains(sg, es[i])
=============================================================================
