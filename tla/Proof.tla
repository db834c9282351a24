------------------------------- MODULE Proof --------------------------------
(***************************************************************************)
(* Proofs (proof.py) and checking them offline.  Of an entry's hash only   *)
(* its place in the chain is kept: hash is the place an entry claims, prev *)
(* that of the one before; genuine says that the content, the hash and the *)
(* signature fit each other (check_entry), which only who has the key can  *)
(* bring about.                                                            *)
(***************************************************************************)
EXTENDS Lifecycle

CONSTANT None

Entry(seq, kind, act, val, ref, key) ==
    [seq |-> seq, kind |-> kind, act |-> act, val |-> val, ref |-> ref, key |-> key,
     prev |-> seq - 1, hash |-> seq, genuine |-> TRUE]

(* The claims: what summarize makes of the entries.                        *)
Claims(entries, act) ==
    [status |-> StatusOf(entries, act), happened |-> Happened(entries, act), authorized |-> Authorized(entries, act)]

(* What build_proof reads, in the order it reads it: the entries of the    *)
(* action, the last entry, and the entries from the first of the action's  *)
(* on up to that last one.  An entry's number is its place in the ledger.  *)
Nth(S, k) == CHOOSE i \in S : Cardinality({j \in S : j <= i}) = k

for_action(ledger, act) ==
    LET own == {i \in DOMAIN ledger : ledger[i].act = act}
    IN  [k \in 1 .. Cardinality(own) |-> ledger[Nth(own, k)]]

head(ledger) == ledger[Len(ledger)]

(* Faulty variant: whatever is there by then. *)
SegmentToEnd(ledger, entries, h) == SubSeq(ledger, entries[1].seq, Len(ledger))

Segment(ledger, entries, h) == SubSeq(ledger, entries[1].seq, h.seq)

build_proof(act, key, entries, h, segment) ==
    [action |-> act, key |-> key, entries |-> entries, head |-> h, segment |-> segment,
     claims |-> Claims(entries, act)]

-----------------------------------------------------------------------------
check_entry(e, key) == e.genuine /\ e.key = key

InOrder(entries) == \A i \in 1 .. Len(entries) - 1 : entries[i].seq < entries[i + 1].seq

Contiguous(segment) ==
    \A i \in 1 .. Len(segment) - 1 :
       segment[i + 1].seq = segment[i].seq + 1 /\ segment[i + 1].prev = segment[i].hash

(* by_seq: of the segment's entries with this number, the last one. *)
BySeq(segment, seq) == segment[Max({i \in DOMAIN segment : segment[i].seq = seq})]

(* Faulty variant: the entries are not looked for in the segment. *)
SegmentAlone(segment, entries, h, key) ==
    /\ Contiguous(segment)
    /\ \A i \in DOMAIN segment : check_entry(segment[i], key)
    /\ segment # <<>> /\ segment[Len(segment)].hash = h.hash

SegmentHolds(segment, entries, h, key) ==
    /\ Contiguous(segment)
    /\ \A i \in DOMAIN segment : check_entry(segment[i], key)
    /\ \A i \in DOMAIN entries :
          /\ \E j \in DOMAIN segment : segment[j].seq = entries[i].seq
          /\ BySeq(segment, entries[i].seq).hash = entries[i].hash
    /\ segment # <<>> /\ segment[Len(segment)].hash = h.hash

(* Nothing is wrong with the proof for somebody who trusts the key pinned. *)
(* The key and the claims that the proof states are compared; it need not  *)
(* state them.                                                             *)
verify_proof(proof, pinned) ==
    /\ proof.key \in {None, pinned}
    /\ proof.entries # <<>>
    /\ \A i \in DOMAIN proof.entries :
          check_entry(proof.entries[i], pinned) /\ proof.entries[i].act = proof.action
    /\ InOrder(proof.entries)
    /\ check_entry(proof.head, pinned)
    /\ proof.head.seq >= proof.entries[Len(proof.entries)].seq
    /\ proof.segment # None => SegmentHolds(proof.segment, proof.entries, proof.head, pinned)
    /\ \A field \in DOMAIN proof.claims : proof.claims[field] = Claims(proof.entries, proof.action)[field]
=============================================================================
