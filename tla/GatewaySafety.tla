---------------------------- MODULE GatewaySafety ----------------------------
(***************************************************************************)
(* What a team relies on when it lets an agent run, as theorems of Gateway *)
(* for any number of processes, sessions, actions and crashes: nothing is  *)
(* prepared without sanction, nothing irreversible without consent; the    *)
(* last word on what ran is not a no; an outcome other than the previewed  *)
(* one is reported; the policy's limit on destructive actions is exceeded  *)
(* by no more than the callers that overlap; an action keeps to its        *)
(* diagram, and a rollback names what it could not undo and puts back what *)
(* was there, as long as nobody else works on the same; and what an undo   *)
(* replaces is what a run of its action has left.                          *)
(*                                                                         *)
(* Each follows from an invariant that relates a frame to the entries of   *)
(* the action it has in hand: AuthInv, WordInv, PreviewInv, BlastInv,      *)
(* StatusInv, DiagramInv, TodoInv, BackInv, TurnInv.  A step is taken from *)
(* the table of GatewayProofs, and adds one entry at most.                 *)
(***************************************************************************)
EXTENDS GatewayProofs, GatewayTurns

-----------------------------------------------------------------------------
(* Authority, in the ledger and in the frames. *)

Only(log, a, kinds) == \A i \in DOMAIN log : log[i].act = a => log[i].kind \in kinds

(* The labels of a call before its operation has run, those at which an    *)
(* action has been prepared, and what a call owns: an action nobody else   *)
(* can know of, because no entry tells its id yet.                         *)
Fresh == {"ensure", "decide", "read", "propose", "deny", "simulate", "escalate", "authorize",
          "snapshot", "prepare"}
Late == {"run", "fail", "observe", "commit", "account", "deviate", "check", "inverse",
         "undone", "undo_failed"}
Owns(f) == f.job = "call" /\ f.pc \in Fresh
Releases(f) == f.job = "release" /\ f.pc \in {"gate", "ensure", "release", "snapshot", "prepare"}

(* The entries an action in hand may have when its call is at this label. *)
SoFar(pc) ==
    CASE pc \in {"ensure", "decide", "read", "propose"} -> {}
      [] pc \in {"deny", "simulate"} -> {"proposed"}
      [] pc = "escalate"  -> {"proposed", "simulated"}
      [] pc = "authorize" -> {"proposed", "simulated", "escalated"}
      [] OTHER            -> {"proposed", "simulated", "escalated", "approved"}

NeedsConsent(a) ==
    policy.approve_irreversible_destructive /\ Op[a].risk >= DESTRUCTIVE /\ ~Op[a].reversible
ReleasedSinceHeld(log, a) ==
    \A j \in Positions(log, a, {"held"}) : \E k \in Positions(log, a, {"released"}) : j < k
Cleared(log, a) ==
    /\ Consented(log, a) \/ AutoAllowed(log, a)
    /\ ReleasedSinceHeld(log, a)
    /\ NeedsConsent(a) => Consented(log, a)

FrameAuth(log, f) ==
    /\ f.pc \in Fresh \ {"ensure", "snapshot", "prepare"} => f.job = "call"
    /\ f.pc \in {"gate", "release"} => f.job = "release"
    /\ f.pc \in {"ensure", "snapshot", "prepare"} => f.job \in {"call", "release"}
    /\ Owns(f) =>
          /\ Only(log, f.act, SoFar(f.pc))
          /\ f.pc \in {"propose", "simulate", "deny", "authorize"} /\ NeedsConsent(f.act)
                => f.verdict \in {"approve", "hold", "deny"}
          /\ f.pc = "simulate" =>
                \E i \in Positions(log, f.act, {"proposed"}) : log[i].val = f.verdict
    /\ f.pc \in {"snapshot", "prepare"} => Cleared(log, f.act)
    /\ Releases(f) \/ f.pc = "discard" => Has(log, f.act, "held")
    /\ f.pc \in Late => Has(log, f.act, "prepared")

Closing == {"denied", "rejected"}
PreparedCleared ==
    \A i \in DOMAIN ledger :
       ledger[i].kind = "prepared" => Cleared(Before(i), ledger[i].act)
ClosedStays ==
    \A i, j \in DOMAIN ledger :
       ledger[i].act = ledger[j].act /\ ledger[i].kind \in Closing
          => ledger[j].kind \notin {"held", "prepared"}
GivenOut ==
    /\ \A i \in DOMAIN ledger : ledger[i].act # None => ledger[i].act \in used
    /\ \A p \in Proc : Owns(frame[p]) => frame[p].act \in used
    /\ \A p, q \in Proc : p # q /\ Owns(frame[p]) /\ Owns(frame[q]) => frame[p].act # frame[q].act

AuthInv ==
    /\ PreparedCleared /\ ClosedStays /\ GivenOut
    /\ \A p \in Proc : FrameAuth(ledger, frame[p])

-----------------------------------------------------------------------------
(* What an entry adds to a log. *)

(* The positions of an action's entries after one more entry. *)
LEMMA PositionsAfter ==
    ASSUME NEW e, ExtendedByOne(e), NEW a, NEW kinds
    PROVE  Positions(ledger', a, kinds) =
              Positions(ledger, a, kinds)
                 \cup (IF e.act = a /\ e.kind \in kinds THEN {Len(ledger) + 1} ELSE {})
BY DEF ExtendedByOne, Positions

(* They stay what they are if the entry is none of them. *)
LEMMA PositionsSame ==
    ASSUME NEW e, ExtendedByOne(e), NEW a, NEW kinds, e.act = a => e.kind \notin kinds
    PROVE  Positions(ledger', a, kinds) = Positions(ledger, a, kinds)
<1>1. Positions(ledger', a, kinds) =
         Positions(ledger, a, kinds)
            \cup (IF e.act = a /\ e.kind \in kinds THEN {Len(ledger) + 1} ELSE {})
  BY PositionsAfter
<1>. QED
  BY <1>1

(* What a ledger has it keeps, and it has what is appended. *)
LEMMA HasAfter ==
    ASSUME NEW e, ExtendedByOne(e), NEW a, NEW kind
    PROVE  Has(ledger', a, kind) <=> Has(ledger, a, kind) \/ (e.act = a /\ e.kind = kind)
<1>1. Positions(ledger', a, {kind}) =
         Positions(ledger, a, {kind})
            \cup (IF e.act = a /\ e.kind \in {kind} THEN {Len(ledger) + 1} ELSE {})
  BY PositionsAfter
<1>. QED
  BY <1>1 DEF Has

(* The kinds an action is limited to, and one more. *)
LEMMA OnlyAfter ==
    ASSUME NEW e, ExtendedByOne(e), NEW a, NEW K, NEW L, Only(ledger, a, K), K \subseteq L,
           e.act = a => e.kind \in L
    PROVE  Only(ledger', a, L)
BY DEF ExtendedByOne, Only

(* Limited to some kinds, an action has no entry of another. *)
LEMMA OnlyHas ==
    ASSUME NEW log, NEW a, NEW K, Only(log, a, K), NEW kind, kind \notin K
    PROVE  ~Has(log, a, kind) /\ Positions(log, a, {kind}) = {}
BY DEF Only, Has, Positions

(* Before an entry there is what there was, before the new one all of it. *)
LEMMA BeforeAfter ==
    ASSUME TypeInv, NEW e, Log(e)
    PROVE  /\ \A i \in DOMAIN ledger : Before(i)' = Before(i)
           /\ SubSeq(ledger', 1, Len(ledger)) = ledger
<1>. DEFINE n == Len(ledger)
<1>1. ledger \in Seq(EntryType \cup {e}) /\ e \in EntryType \cup {e} /\ ledger' = Append(ledger, e)
  BY DEF TypeInv, TypeOK, Log
<1>2. n \in Nat /\ DOMAIN ledger = 1 .. n /\ Len(ledger') = n + 1
  BY <1>1
<1>3. \A k \in DOMAIN ledger : ledger'[k] = ledger[k]
  BY <1>1
<1>4. ASSUME NEW m \in 0 .. n PROVE SubSeq(ledger', 1, m) = SubSeq(ledger, 1, m)
  <2>1. SubSeq(ledger', 1, m) = [k \in 1 .. m |-> ledger'[k]]
    BY <1>1, <1>2
  <2>2. SubSeq(ledger, 1, m) = [k \in 1 .. m |-> ledger[k]]
    BY <1>1, <1>2
  <2>3. \A k \in 1 .. m : ledger'[k] = ledger[k]
    BY <1>2, <1>3
  <2>. QED
    BY <2>1, <2>2, <2>3
<1>5. SubSeq(ledger, 1, n) = ledger
  BY <1>1, <1>2
<1>6. SubSeq(ledger', 1, n) = ledger
  BY <1>2, <1>4, <1>5
<1>7. ASSUME NEW i \in DOMAIN ledger PROVE Before(i)' = Before(i)
  <2>1. i - 1 \in 0 .. n
    BY <1>2
  <2>. QED
    BY <1>4, <2>1 DEF Before
<1>. QED
  BY <1>6, <1>7

(* What clears an action clears it still, unless it is escalated or held. *)
LEMMA ClearedKept ==
    ASSUME TypeInv, NEW e, ExtendedByOne(e), NEW a, Cleared(ledger, a),
           e.act = a => e.kind \notin {"escalated", "held"}
    PROVE  Cleared(ledger', a)
<1>1. Consented(ledger, a) => Consented(ledger', a)
  BY HasAfter DEF Consented
<1>2. AutoAllowed(ledger, a) => AutoAllowed(ledger', a)
  <2>. SUFFICES ASSUME AutoAllowed(ledger, a) PROVE AutoAllowed(ledger', a)
    OBVIOUS
  <2>1. ~Has(ledger', a, "escalated")
    BY HasAfter DEF AutoAllowed
  <2>2. PICK i \in Positions(ledger, a, {"proposed"}) : Authorizes(ledger[i])
    BY DEF AutoAllowed
  <2>3. i \in Positions(ledger', a, {"proposed"})
    BY PositionsAfter
  <2>4. ledger'[i] = ledger[i]
    BY DEF ExtendedByOne, Positions
  <2>. QED
    BY <2>1, <2>2, <2>3, <2>4 DEF AutoAllowed
<1>3. ReleasedSinceHeld(ledger', a)
  <2>1. Positions(ledger', a, {"held"}) = Positions(ledger, a, {"held"})
    BY PositionsSame
  <2>2. Positions(ledger, a, {"released"}) \subseteq Positions(ledger', a, {"released"})
    BY PositionsAfter
  <2>. QED
    BY <2>1, <2>2 DEF Cleared, ReleasedSinceHeld
<1>. QED
  BY <1>1, <1>2, <1>3 DEF Cleared

(* An action is cleared by the policy's word when it is proposed, *)
LEMMA ClearedByPolicy ==
    ASSUME NEW log, NEW a, NEW K, Only(log, a, K), "held" \notin K, "escalated" \notin K,
           ~NeedsConsent(a),
           NEW i \in Positions(log, a, {"proposed"}), log[i].val \in {"allow", "simulate"}
    PROVE  Cleared(log, a)
<1>1. ~Has(log, a, "escalated") /\ Positions(log, a, {"held"}) = {}
  BY OnlyHas
<1>2. Authorizes(log[i])
  BY DEF Authorizes, Positions
<1>. QED
  BY <1>1, <1>2 DEF Cleared, AutoAllowed, ReleasedSinceHeld

(* by an approval before it is ever held, *)
LEMMA ClearedByApproval ==
    ASSUME NEW log, NEW a, NEW K, Only(log, a, K), "held" \notin K, Has(log, a, "approved")
    PROVE  Cleared(log, a)
<1>1. Positions(log, a, {"held"}) = {}
  BY OnlyHas
<1>. QED
  BY <1>1 DEF Cleared, Consented, ReleasedSinceHeld

(* and by a release. *)
LEMMA ClearedByRelease ==
    ASSUME NEW e, ExtendedByOne(e), e.kind = "released"
    PROVE  Cleared(ledger', e.act)
<1>1. Len(ledger) + 1 \in Positions(ledger', e.act, {"released"})
  BY PositionsAfter
<1>2. Positions(ledger', e.act, {"held"}) = Positions(ledger, e.act, {"held"})
  BY PositionsSame
<1>3. \A j \in Positions(ledger, e.act, {"held"}) : j < Len(ledger) + 1
  BY DEF ExtendedByOne, Positions
<1>4. Consented(ledger', e.act)
  BY <1>1 DEF Consented, Has
<1>. QED
  BY <1>1, <1>2, <1>3, <1>4 DEF Cleared, ReleasedSinceHeld

(* Who needs consent is never let through by the policy. *)
LEMMA ConsentIsAsked ==
    ASSUME TypeInv, NEW a \in Action, NeedsConsent(a), NEW st
    PROVE  Decide(policy, Op[a], st) \in {"approve", "hold", "deny"}
<1>1. /\ policy \in PolicyType(STRING) /\ Op[a].name \in STRING /\ Op[a].risk \in Risk
  BY GatewayAssumption DEF OpType
<1>. DEFINE v == BaseVerdict(policy, Op[a].name, Op[a].risk)
<1>2. v \in Verdict
  BY <1>1, BaseVerdictType
<1>3. Escalate(v) \in {"approve", "hold", "deny"}
  BY <1>2, EscalateIsStricter
<1>4. Op[a].risk # READ /\ MustEscalate(policy, Op[a], st, v)
  BY DEF NeedsConsent, MustEscalate, READ, DESTRUCTIVE
<1>. QED
  BY <1>3, <1>4 DEF Decide

(* The last entry that counts says held: there is such an entry. *)
LEMMA HeldHas ==
    ASSUME TypeInv, NEW a, StatusOf(ledger, a) = "held"
    PROVE  Has(ledger, a, "held")
<1>. DEFINE P == Positions(ledger, a, StatusKind)
<1>1. P \in SUBSET (0 .. Len(ledger)) /\ Len(ledger) \in Nat
  BY PositionsType DEF TypeInv, TypeOK
<1>2. P # {}
  BY DEF StatusOf
<1>3. Max(P) \in P
  BY <1>1, <1>2, MaxOfBounded
<1>4. STATUS_BY_KIND[ledger[Max(P)].kind] = "held"
  BY <1>2 DEF StatusOf
<1>5. ledger[Max(P)].kind \in StatusKind
  BY <1>3 DEF Positions
<1>6. ledger[Max(P)].kind = "held"
  BY <1>4, <1>5 DEF STATUS_BY_KIND, StatusKind
<1>. QED
  BY <1>3, <1>6 DEF Has, Positions

-----------------------------------------------------------------------------
(* What a step appends fits the ledger it is appended to. *)

Fits(e) ==
    /\ e.kind = "prepared" => Cleared(ledger, e.act)
    /\ e.kind \in Closing => ~Has(ledger, e.act, "held") /\ ~Has(ledger, e.act, "prepared")
    /\ e.kind \in {"held", "prepared"} => \A k \in Closing : ~Has(ledger, e.act, k)
    /\ e.act \in used

(* An entry is about an action its process owns, or about one the ledger   *)
(* knows as held or prepared.                                              *)
KnownTo(f, e) ==
    /\ e.act = f.act /\ e.act \in Action
    /\ \/ Owns(f)
       \/ /\ e.kind \notin {"escalated", "held"}
          /\ Has(ledger, e.act, "held") \/ Has(ledger, e.act, "prepared")

(* Who has nothing in its ledger but these kinds was neither parked, run   *)
(* nor turned down.                                                        *)
LEMMA OwnedIsFresh ==
    ASSUME NEW p \in Proc, FrameAuth(ledger, frame[p]), Owns(frame[p])
    PROVE  \A k \in {"held", "prepared", "denied", "rejected", "released", "read"} :
              ~Has(ledger, frame[p].act, k)
<1>1. Only(ledger, frame[p].act, {"proposed", "simulated", "escalated", "approved"})
  BY DEF FrameAuth, SoFar, Only
<1>. QED
  BY <1>1 DEF Only, Has, Positions

(* A held or a prepared action is not a closed one. *)
LEMMA OpenIsNotClosed ==
    ASSUME ClosedStays, NEW a, Has(ledger, a, "held") \/ Has(ledger, a, "prepared")
    PROVE  \A k \in Closing : ~Has(ledger, a, k)
BY DEF ClosedStays, Has, Positions, Closing

(* Whose action has an entry has been given out. *)
LEMMA EntryIsUsed ==
    ASSUME GivenOut, NEW a, a # None, NEW kind, Has(ledger, a, kind)
    PROVE  a \in used
BY DEF GivenOut, Has, Positions

(* So do the entries of any step. *)
LEMMA OwnEntryFits ==
    ASSUME TypeInv, AuthInv, NEW p \in Proc, OwnEntry(p)
    PROVE  \E e : Log(e) /\ Fits(e) /\ KnownTo(frame[p], e)
<1>. DEFINE a == frame[p].act
<1>1. PICK w \in Writes : At(p, w[1]) /\ \E v : Log(Entry(w[2], a, v))
  BY DEF OwnEntry
<1>2. PICK v : Log(Entry(w[2], a, v))
  BY <1>1
<1>. DEFINE e == Entry(w[2], a, v)
<1>3. e.act = a /\ e.kind = w[2] /\ Log(e)
  BY <1>2 DEF Entry
<1>4. a \in Action /\ a # None
  BY <1>1, InHand, WritesKinds, GatewayAssumption DEF At
<1>5. FrameAuth(ledger, frame[p]) /\ ClosedStays /\ GivenOut
  BY DEF AuthInv
<1>. HIDE DEF e
<1>6. CASE Owns(frame[p])
  <2>1. \A k \in {"held", "prepared", "denied", "rejected"} : ~Has(ledger, a, k)
    BY <1>5, <1>6, OwnedIsFresh
  <2>2. a \in used
    BY <1>5, <1>6 DEF GivenOut
  <2>3. w[2] = "prepared" => frame[p].pc = "prepare"
    BY <1>1 DEF Writes, Closer, At
  <2>4. w[2] = "prepared" => Cleared(ledger, a)
    BY <1>5, <2>3 DEF FrameAuth
  <2>. QED
    BY <1>3, <1>4, <1>6, <2>1, <2>2, <2>4 DEF Fits, KnownTo, Closing
<1>7. CASE ~Owns(frame[p])
  <2>1. frame[p].pc \in Late \cup {"discard", "release", "snapshot", "prepare"} \cup
           {"read", "deny", "authorize", "propose", "simulate", "escalate"}
    BY <1>1 DEF Writes, Closer, At, Late
  <2>2. \/ frame[p].pc \in Late \/ frame[p].pc = "discard" \/ Releases(frame[p])
    BY <1>5, <1>7, <2>1 DEF FrameAuth, Owns, Releases, Fresh
  <2>3. Has(ledger, a, "held") \/ Has(ledger, a, "prepared")
    BY <1>5, <2>2 DEF FrameAuth
  <2>4. w[2] \notin {"escalated", "held", "denied", "rejected"}
    BY <1>1, <2>2 DEF Writes, Closer, At, Late, Releases
  <2>5. \A k \in Closing : ~Has(ledger, a, k)
    BY <1>4, <1>5, <2>3, OpenIsNotClosed
  <2>6. a \in used
    BY <1>4, <1>5, <2>3, EntryIsUsed
  <2>7. w[2] = "prepared" => frame[p].pc = "prepare"
    BY <1>1 DEF Writes, Closer, At
  <2>8. w[2] = "prepared" => Cleared(ledger, a)
    BY <1>5, <2>7 DEF FrameAuth
  <2>. QED
    BY <1>3, <1>4, <2>3, <2>4, <2>5, <2>6, <2>8 DEF Fits, KnownTo, Closing
<1>. QED
  BY <1>6, <1>7

(* The ledger stays in order. *)
LEMMA LedgerAuthAfter ==
    ASSUME TypeInv, PreparedCleared, ClosedStays, GivenOut, used \subseteq used',
           NEW e, Log(e), Fits(e) \/ (e.act = None /\ e.kind \in {"halted", "resumed", "rollback"})
    PROVE  /\ PreparedCleared' /\ ClosedStays'
           /\ \A i \in DOMAIN ledger' : ledger'[i].act # None => ledger'[i].act \in used'
<1>. DEFINE n == Len(ledger) + 1
<1>1. ExtendedByOne(e)
  BY AppendsOne
<1>2. /\ \A i \in DOMAIN ledger : ledger'[i] = ledger[i]
      /\ ledger'[n] = e /\ Len(ledger) \in Nat
      /\ \A i \in DOMAIN ledger' : i \in DOMAIN ledger \/ i = n
  BY <1>1 DEF ExtendedByOne
<1>3. (\A i \in DOMAIN ledger : Before(i)' = Before(i)) /\ SubSeq(ledger', 1, Len(ledger)) = ledger
  BY BeforeAfter
<1>4. PreparedCleared'
  <2>. SUFFICES ASSUME NEW i \in DOMAIN ledger', ledger'[i].kind = "prepared"
                PROVE  Cleared(Before(i)', ledger'[i].act)
    BY DEF PreparedCleared
  <2>1. CASE i \in DOMAIN ledger
    BY <1>2, <1>3, <2>1 DEF PreparedCleared
  <2>2. CASE i = n
    <3>1. Before(i)' = ledger
      BY <1>2, <1>3, <2>2 DEF Before
    <3>. QED
      BY <1>2, <2>2, <3>1 DEF Fits
  <2>. QED
    BY <1>2, <2>1, <2>2
<1>5. ClosedStays'
  <2>. SUFFICES ASSUME NEW i \in DOMAIN ledger', NEW j \in DOMAIN ledger',
                       ledger'[i].act = ledger'[j].act,
                       ledger'[i].kind \in Closing
                PROVE  ledger'[j].kind \notin {"held", "prepared"}
    BY DEF ClosedStays
  <2>1. CASE i \in DOMAIN ledger /\ j \in DOMAIN ledger
    BY <1>2, <2>1 DEF ClosedStays
  <2>2. CASE i \in DOMAIN ledger /\ j = n
    <3>1. Has(ledger, e.act, ledger[i].kind)
      BY <1>2, <2>2 DEF Has, Positions
    <3>. QED
      BY <1>2, <2>2, <3>1 DEF Fits, Closing
  <2>3. CASE i = n /\ j \in DOMAIN ledger
    <3>1. Has(ledger, e.act, ledger[j].kind)
      BY <1>2, <2>3 DEF Has, Positions
    <3>. QED
      BY <1>2, <2>3, <3>1 DEF Fits, Closing
  <2>4. CASE i = n /\ j = n
    BY <1>2, <2>4 DEF Closing
  <2>. QED
    BY <1>2, <2>1, <2>2, <2>3, <2>4
<1>6. ASSUME NEW i \in DOMAIN ledger', ledger'[i].act # None PROVE ledger'[i].act \in used'
  BY <1>2, <1>6 DEF GivenOut, Fits
<1>. QED
  BY <1>4, <1>5, <1>6

(* What another process has in hand is not disturbed by the new entry. *)
LEMMA OthersKeepAuth ==
    ASSUME TypeInv, AuthInv, NEW p \in Proc, NEW q \in Proc, p # q,
           NEW e, Log(e), KnownTo(frame[p], e) \/ (e.act = None /\ e.kind \in {"halted", "resumed", "rollback"})
    PROVE  FrameAuth(ledger', frame[q])
<1>. DEFINE f == frame[q]
<1>1. ExtendedByOne(e)
  BY AppendsOne
<1>2. FrameAuth(ledger, f)
  BY DEF AuthInv
<1>3. Owns(f) => e.act # f.act
  <2>. SUFFICES ASSUME Owns(f) PROVE e.act # f.act
    OBVIOUS
  <2>1. f.act \in Action /\ f.act # None
    <3>1. f.pc \notin NoAction
      BY DEF Owns, Fresh, NoAction
    <3>. QED
      BY <3>1, InHand, GatewayAssumption
  <2>2. ~Has(ledger, f.act, "held") /\ ~Has(ledger, f.act, "prepared")
    BY <1>2, OwnedIsFresh
  <2>. QED
    BY <2>1, <2>2 DEF KnownTo, AuthInv, GivenOut
<1>4. Owns(f) \/ Releases(f) => (e.act = f.act => e.kind \notin {"escalated", "held"})
  <2>. SUFFICES ASSUME Releases(f), e.act = f.act, e.kind \in {"escalated", "held"} PROVE FALSE
    BY <1>3
  <2>1. Has(ledger, f.act, "held")
    BY <1>2 DEF FrameAuth
  <2>2. Owns(frame[p]) /\ frame[p].act = f.act
    BY DEF KnownTo
  <2>3. FrameAuth(ledger, frame[p])
    BY DEF AuthInv
  <2>. QED
    BY <2>1, <2>2, <2>3, OwnedIsFresh
<1>5. Owns(f) => Only(ledger', f.act, SoFar(f.pc))
  BY <1>1, <1>2, <1>3, OnlyAfter DEF FrameAuth
<1>6. Owns(f) /\ f.pc = "simulate" =>
         \E i \in Positions(ledger', f.act, {"proposed"}) : ledger'[i].val = f.verdict
  <2>. SUFFICES ASSUME Owns(f), f.pc = "simulate"
                PROVE  \E i \in Positions(ledger', f.act, {"proposed"}) : ledger'[i].val = f.verdict
    OBVIOUS
  <2>1. PICK i \in Positions(ledger, f.act, {"proposed"}) : ledger[i].val = f.verdict
    BY <1>2 DEF FrameAuth
  <2>2. i \in Positions(ledger', f.act, {"proposed"}) /\ ledger'[i] = ledger[i]
    BY <1>1 DEF ExtendedByOne, Positions
  <2>. QED
    BY <2>1, <2>2
<1>7. f.pc \in {"snapshot", "prepare"} => Cleared(ledger', f.act)
  <2>. SUFFICES ASSUME f.pc \in {"snapshot", "prepare"} PROVE Cleared(ledger', f.act)
    OBVIOUS
  <2>1. Owns(f) \/ Releases(f)
    BY <1>2 DEF FrameAuth, Owns, Releases, Fresh
  <2>2. Cleared(ledger, f.act)
    BY <1>2 DEF FrameAuth
  <2>. QED
    BY <1>1, <1>4, <2>1, <2>2, ClearedKept
<1>8. \A k : Has(ledger, f.act, k) => Has(ledger', f.act, k)
  BY <1>1, HasAfter
<1>. QED
  BY <1>2, <1>5, <1>6, <1>7, <1>8 DEF FrameAuth

-----------------------------------------------------------------------------
(* What a process has in hand after its own step. *)

(* Nothing, *)
LEMMA OutAuth ==
    ASSUME NEW p \in Proc, Out(p)
    PROVE  FrameAuth(ledger', frame'[p]) /\ ~Owns(frame'[p])
<1>1. frame'[p].pc \in NoAction
  BY DEF Out
<1>2. frame'[p].pc \notin Fresh \cup Late \cup {"gate", "release", "discard"}
  BY <1>1 DEF NoAction, Fresh, Late
<1>3. frame'[p].pc \notin {"ensure", "snapshot", "prepare", "simulate"}
  BY <1>2 DEF Fresh
<1>. HIDE DEF NoAction
<1>. QED
  BY <1>2, <1>3 DEF FrameAuth, Owns, Releases, Fresh

(* a parked action, *)
LEMMA PicksUpAuth ==
    ASSUME TypeInv, NEW p \in Proc, NEW a \in Action, PicksUp(p, a)
    PROVE  FrameAuth(ledger', frame'[p]) /\ ~Owns(frame'[p])
<1>1. Has(ledger, a, "held") /\ ledger' = ledger /\ frame'[p].act = a
  BY HeldHas DEF PicksUp, Still
<1>2. \/ frame'[p].pc = "gate" /\ frame'[p].job = "release"
      \/ frame'[p].pc = "discard" /\ frame'[p].job = "discard"
  BY DEF PicksUp
<1>. QED
  BY <1>1, <1>2 DEF FrameAuth, Owns, Releases, Fresh, Late

(* a new action, *)
LEMMA CallsAuth ==
    ASSUME TypeInv, AuthInv, NEW p \in Proc, NEW a \in Action, Calls(p, a)
    PROVE  FrameAuth(ledger', frame'[p]) /\ a \in used'
<1>1. ledger' = ledger /\ frame'[p].pc = "ensure" /\ frame'[p].job = "call" /\ frame'[p].act = a
  BY DEF Calls
<1>2. Only(ledger, a, {})
  <2>1. a # None /\ a \notin used
    BY GatewayAssumption DEF Calls
  <2>. QED
    BY <2>1 DEF AuthInv, GivenOut, Only
<1>. QED
  BY <1>1, <1>2 DEF FrameAuth, Owns, Releases, Fresh, Late, SoFar, Calls

(* or the same action: the silent steps, *)
LEMMA SilentAuth ==
    ASSUME TypeInv, LoggedInv, AuthInv, NEW p \in Proc,
           \/ TurnsToUndo(p) \/ Jumps(p) \/ PassesKillSwitch(p) \/ Reads(p)
           \/ Accounts(p) \/ LoadsForUndo(p)
    PROVE  /\ FrameAuth(ledger', frame'[p])
           /\ Owns(frame'[p]) => Owns(frame[p]) /\ frame'[p].act = frame[p].act
<1>. DEFINE f == frame[p]  g == frame'[p]
<1>0. FrameAuth(ledger, f)
  BY DEF AuthInv
<1>1. CASE TurnsToUndo(p)
  BY <1>1 DEF TurnsToUndo, FrameAuth, Owns, Releases, Fresh, Late
<1>2. CASE Jumps(p)
  <2>1. /\ ledger' = ledger /\ g.job = f.job /\ g.act = f.act
        /\ <<f.pc, g.pc>> \in Jump
    BY <1>2 DEF Jumps, Goes, KeepsHand, Still, At, Jump
  <2>2. CASE f.pc = "gate"
    <3>1. g.pc = "ensure" /\ f.job = "release"
      BY <1>0, <2>1, <2>2 DEF Jump, FrameAuth
    <3>. QED
      BY <1>0, <2>1, <2>2, <3>1 DEF FrameAuth, Owns, Releases, Fresh, Late
  <2>3. CASE f.pc # "gate"
    <3>1. f.pc \in Late /\ g.pc \in Late
      BY <2>1, <2>3 DEF Jump, Late
    <3>. QED
      BY <1>0, <2>1, <3>1 DEF FrameAuth, Owns, Releases, Fresh, Late
  <2>. QED
    BY <2>2, <2>3
<1>3. CASE PassesKillSwitch(p)
  <2>1. /\ ledger' = ledger /\ g.job = f.job /\ g.act = f.act /\ f.pc = "ensure"
        /\ f.job \in {"call", "release"}
        /\ g.pc = IF f.job = "call" THEN "decide" ELSE "release"
    BY <1>0, <1>3 DEF PassesKillSwitch, Goes, KeepsHand, Still, At, FrameAuth
  <2>. QED
    BY <1>0, <2>1 DEF FrameAuth, Owns, Releases, Fresh, Late, SoFar
<1>4. CASE Reads(p)
  <2>1. /\ ledger' = ledger /\ g.job = f.job /\ g.act = f.act /\ g.verdict = f.verdict
        /\ \/ f.pc = "snapshot" /\ g.pc = "prepare"
           \/ f.pc = "observe" /\ g.pc = "commit"
    BY <1>4 DEF Reads, KeepsHand, Still, At
  <2>. QED
    BY <1>0, <2>1 DEF FrameAuth, Owns, Releases, Fresh, Late, SoFar
<1>5. CASE Accounts(p)
  <2>1. CASE OutToWork(p)
    BY <2>1, OutAuth DEF OutToWork
  <2>2. CASE Goes(p, "account", "deviate")
    <3>1. ledger' = ledger /\ g.job = f.job /\ g.act = f.act /\ f.pc = "account" /\ g.pc = "deviate"
      BY <1>5, <2>2 DEF Accounts, Goes, KeepsHand, At
    <3>. QED
      BY <1>0, <3>1 DEF FrameAuth, Owns, Releases, Fresh, Late
  <2>. QED
    BY <1>5, <2>1, <2>2 DEF Accounts
<1>6. CASE LoadsForUndo(p)
  <2>1. /\ ledger' = ledger /\ g.act = f.act /\ g.pc \in {"check", "inverse"}
        /\ UndoAnswer(ledger, f.act) = "go"
    BY <1>6 DEF LoadsForUndo, KeepsHand, Still
  <2>2. Has(ledger, f.act, "prepared")
    BY <2>1, UndoablePrepared
  <2>. QED
    BY <2>1, <2>2 DEF FrameAuth, Owns, Releases, Fresh, Late
<1>. QED
  BY <1>1, <1>2, <1>3, <1>4, <1>5, <1>6

(* the decision, *)
LEMMA DecidesAuth ==
    ASSUME TypeInv, AuthInv, NEW p \in Proc, Decides(p)
    PROVE  /\ FrameAuth(ledger', frame'[p])
           /\ Owns(frame'[p]) => Owns(frame[p]) /\ frame'[p].act = frame[p].act
<1>. DEFINE f == frame[p]  g == frame'[p]
<1>0. FrameAuth(ledger, f)
  BY DEF AuthInv
<1>1. /\ f.pc = "decide" /\ ledger' = ledger /\ g.job = f.job /\ g.act = f.act
      /\ g.pc \in {"read", "propose"}
  BY DEF Decides, KeepsHand, Still, At
<1>2. f.job = "call"
  BY <1>0, <1>1 DEF FrameAuth, Fresh
<1>3. Only(ledger, f.act, {})
  BY <1>0, <1>1, <1>2 DEF FrameAuth, Owns, Fresh, SoFar
<1>4. NeedsConsent(f.act) => g.verdict \in {"approve", "hold", "deny"}
  <2>1. f.act \in Action
    BY <1>1, InHand DEF NoAction
  <2>. QED
    BY <2>1, ConsentIsAsked DEF Decides
<1>. QED
  BY <1>0, <1>1, <1>2, <1>3, <1>4 DEF FrameAuth, Owns, Releases, Fresh, Late, SoFar

(* the proposal, *)
LEMMA ProposesAuth ==
    ASSUME TypeInv, AuthInv, NEW p \in Proc, Proposes(p)
    PROVE  /\ FrameAuth(ledger', frame'[p])
           /\ Owns(frame'[p]) => Owns(frame[p]) /\ frame'[p].act = frame[p].act
<1>. DEFINE f == frame[p]  g == frame'[p]  a == frame[p].act  e == Entry("proposed", a, f.verdict)
            n == Len(ledger) + 1
<1>0. FrameAuth(ledger, f)
  BY DEF AuthInv
<1>1. /\ f.pc = "propose" /\ g.job = f.job /\ g.act = a /\ g.verdict = f.verdict
      /\ \/ g.pc = "deny"     /\ f.verdict = "deny"
         \/ g.pc = "snapshot" /\ f.verdict = "allow"
         \/ g.pc = "simulate" /\ f.verdict \notin {"deny", "allow"}
  BY DEF Proposes, Goes, KeepsHand, At
<1>2. f.job = "call" /\ Owns(f)
  BY <1>0, <1>1 DEF FrameAuth, Fresh, Owns
<1>3. ExtendedByOne(e) /\ e.act = a /\ e.kind = "proposed" /\ e.val = f.verdict
  BY AppendsOne DEF Proposes, Adds, Entry
<1>4. Only(ledger, a, {}) /\ (NeedsConsent(a) => f.verdict \in {"approve", "hold", "deny"})
  BY <1>0, <1>1, <1>2 DEF FrameAuth, SoFar
<1>. HIDE DEF e
<1>5. Only(ledger', a, {"proposed"})
  BY <1>3, <1>4, OnlyAfter
<1>6. n \in Positions(ledger', a, {"proposed"}) /\ ledger'[n].val = f.verdict
  BY <1>3 DEF ExtendedByOne, Positions
<1>7. g.pc = "snapshot" => Cleared(ledger', a)
  BY <1>1, <1>4, <1>5, <1>6, ClearedByPolicy
<1>8. \A K : "proposed" \in K => Only(ledger', a, K)
  BY <1>5 DEF Only
<1>. HIDE DEF n
<1>. QED
  BY <1>1, <1>2, <1>4, <1>6, <1>7, <1>8 DEF FrameAuth, Owns, Releases, Fresh, Late, SoFar

(* the preview, *)
LEMMA SimulatesAuth ==
    ASSUME TypeInv, AuthInv, NEW p \in Proc, Simulates(p)
    PROVE  /\ FrameAuth(ledger', frame'[p])
           /\ Owns(frame'[p]) => Owns(frame[p]) /\ frame'[p].act = frame[p].act
<1>. DEFINE f == frame[p]  g == frame'[p]  a == frame[p].act
            e == Entry("simulated", a, frame'[p].predicted)
<1>0. FrameAuth(ledger, f)
  BY DEF AuthInv
<1>1. /\ f.pc = "simulate" /\ g.job = f.job /\ g.act = a /\ g.verdict = f.verdict
      /\ \/ g.pc = "authorize"
         \/ g.pc \in {"escalate", "snapshot"} /\ f.verdict = "simulate"
  BY DEF Simulates, KeepsHand, At
<1>2. f.job = "call" /\ Owns(f)
  BY <1>0, <1>1 DEF FrameAuth, Fresh, Owns
<1>3. ExtendedByOne(e) /\ e.act = a /\ e.kind = "simulated"
  BY AppendsOne DEF Simulates, Adds, Entry
<1>4. Only(ledger, a, {"proposed"}) /\ (NeedsConsent(a) => f.verdict \in {"approve", "hold", "deny"})
  BY <1>0, <1>1, <1>2 DEF FrameAuth, SoFar
<1>. HIDE DEF e
<1>5. Only(ledger', a, {"proposed", "simulated"})
  BY <1>3, <1>4, OnlyAfter
<1>6. PICK i \in Positions(ledger, a, {"proposed"}) : ledger[i].val = f.verdict
  BY <1>0, <1>1, <1>2 DEF FrameAuth
<1>7. i \in Positions(ledger', a, {"proposed"}) /\ ledger'[i].val = f.verdict
  BY <1>3, <1>6 DEF ExtendedByOne, Positions
<1>8. g.pc = "snapshot" => Cleared(ledger', a)
  BY <1>1, <1>4, <1>5, <1>7, ClearedByPolicy
<1>9. \A K : {"proposed", "simulated"} \subseteq K => Only(ledger', a, K)
  BY <1>5 DEF Only
<1>10. Only(ledger', a, SoFar(g.pc))
  BY <1>1, <1>9 DEF SoFar
<1>. QED
  BY <1>1, <1>2, <1>4, <1>8, <1>10 DEF FrameAuth, Owns, Releases, Fresh, Late

(* the escalation and the approval, *)
LEMMA ApprovesAuth ==
    ASSUME TypeInv, AuthInv, NEW p \in Proc, Escalates(p) \/ IsApproved(p)
    PROVE  /\ FrameAuth(ledger', frame'[p])
           /\ Owns(frame'[p]) => Owns(frame[p]) /\ frame'[p].act = frame[p].act
<1>. DEFINE f == frame[p]  g == frame'[p]  a == frame[p].act
<1>0. FrameAuth(ledger, f)
  BY DEF AuthInv
<1>1. CASE Escalates(p)
  <2>. DEFINE e == Entry("escalated", a, "approve")
  <2>1. /\ f.pc = "escalate" /\ g.job = f.job /\ g.act = a /\ g.verdict = "approve"
        /\ g.pc = "authorize"
    BY <1>1 DEF Escalates, KeepsHand, At
  <2>2. f.job = "call" /\ Owns(f)
    BY <1>0, <2>1 DEF FrameAuth, Fresh, Owns
  <2>3. ExtendedByOne(e) /\ e.act = a /\ e.kind = "escalated"
    BY <1>1, AppendsOne DEF Escalates, Adds, Entry
  <2>4. Only(ledger, a, {"proposed", "simulated"})
    BY <1>0, <2>1, <2>2 DEF FrameAuth, SoFar
  <2>. HIDE DEF e
  <2>5. Only(ledger', a, {"proposed", "simulated", "escalated"})
    BY <2>3, <2>4, OnlyAfter
  <2>. QED
    BY <2>1, <2>2, <2>5 DEF FrameAuth, Owns, Releases, Fresh, Late, SoFar
<1>2. CASE IsApproved(p)
  <2>. DEFINE e == Entry("approved", a, None)
           K == {"proposed", "simulated", "escalated", "approved"}
  <2>1. f.pc = "authorize" /\ g.job = f.job /\ g.act = a /\ g.pc = "snapshot"
    BY <1>2 DEF IsApproved, Goes, KeepsHand, At
  <2>2. f.job = "call" /\ Owns(f)
    BY <1>0, <2>1 DEF FrameAuth, Fresh, Owns
  <2>3. ExtendedByOne(e) /\ e.act = a /\ e.kind = "approved"
    BY <1>2, AppendsOne DEF IsApproved, Adds, Entry
  <2>4. Only(ledger, a, {"proposed", "simulated", "escalated"})
    BY <1>0, <2>1, <2>2 DEF FrameAuth, SoFar
  <2>. HIDE DEF e
  <2>5. Only(ledger', a, K)
    BY <2>3, <2>4, OnlyAfter
  <2>6. Has(ledger', a, "approved")
    BY <2>3, HasAfter
  <2>7. Cleared(ledger', a)
    BY <2>5, <2>6, ClearedByApproval
  <2>. QED
    BY <2>1, <2>2, <2>5, <2>7 DEF FrameAuth, Owns, Releases, Fresh, Late, SoFar
<1>. QED
  BY <1>1, <1>2

(* the release and the rest of the pipeline. *)
LEMMA CommitsAuth ==
    ASSUME TypeInv, AuthInv, NEW p \in Proc,
           IsReleased(p) \/ Prepares(p) \/ Commits(p) \/ ReportsDeviation(p)
    PROVE  FrameAuth(ledger', frame'[p]) /\ ~Owns(frame'[p])
<1>. DEFINE f == frame[p]  g == frame'[p]  a == frame[p].act
<1>0. FrameAuth(ledger, f)
  BY DEF AuthInv
<1>1. CASE IsReleased(p)
  <2>. DEFINE e == Entry("released", a, None)
  <2>1. f.pc = "release" /\ g.job = f.job /\ g.act = a /\ g.pc = "snapshot"
    BY <1>1 DEF IsReleased, Goes, KeepsHand, At
  <2>2. f.job = "release" /\ Has(ledger, a, "held")
    BY <1>0, <2>1 DEF FrameAuth, Releases
  <2>3. ExtendedByOne(e) /\ e.act = a /\ e.kind = "released"
    BY <1>1, AppendsOne DEF IsReleased, Adds, Entry
  <2>. HIDE DEF e
  <2>4. Cleared(ledger', a)
    BY <2>3, ClearedByRelease
  <2>5. Has(ledger', a, "held")
    BY <2>2, <2>3, HasAfter
  <2>. QED
    BY <2>1, <2>2, <2>4, <2>5 DEF FrameAuth, Owns, Releases, Fresh, Late
<1>2. CASE Prepares(p)
  <2>. DEFINE e == Entry("prepared", a, f.reg)
  <2>1. g.act = a /\ g.pc = "run"
    BY <1>2 DEF Prepares, Goes, KeepsHand
  <2>2. ExtendedByOne(e) /\ e.act = a /\ e.kind = "prepared"
    BY <1>2, AppendsOne DEF Prepares, Adds, Entry
  <2>. HIDE DEF e
  <2>3. Has(ledger', a, "prepared")
    BY <2>2, HasAfter
  <2>. QED
    BY <2>1, <2>3 DEF FrameAuth, Owns, Releases, Fresh, Late
<1>3. ASSUME Commits(p) \/ ReportsDeviation(p)
      PROVE  FrameAuth(ledger', g) /\ ~Owns(g)
  <2>1. f.pc \in {"commit", "deviate"} /\ g.act = a /\ g.pc \in {"account", "undo", "halt"}
    BY <1>3 DEF Commits, ReportsDeviation, Goes, KeepsHand, At
  <2>2. PICK e : Log(e)
    BY <1>3 DEF Commits, ReportsDeviation, Adds
  <2>3. Has(ledger, a, "prepared")
    BY <1>0, <2>1 DEF FrameAuth, Late
  <2>4. Has(ledger', a, "prepared")
    <3>1. ExtendedByOne(e)
      BY <2>2, AppendsOne
    <3>. QED
      BY <2>3, <3>1, HasAfter
  <2>. QED
    BY <2>1, <2>4 DEF FrameAuth, Owns, Releases, Fresh, Late
<1>. QED
  BY <1>1, <1>2, <1>3

(* Ids are only ever added. *)
LEMMA UsedGrows ==
    ASSUME NEW p \in Proc, Step(p)
    PROVE  used \subseteq used' /\ (used' = used \/ OutStep(p) \/ \E a \in Action : Calls(p, a))
BY DEF Step, OutStep, SilentStep, LoggedMove, Stops, Refused, Marks, KillsAll, ResumesAll, Unlinks,
   Closes, Calls, PicksUp, TurnsToUndo, Jumps, PassesKillSwitch, Reads, Decides, Accounts,
   LoadsForUndo, Proposes, Simulates, Escalates, IsApproved, IsReleased, Prepares, Commits,
   ReportsDeviation, Adds, Still

(* In sum: what p has in hand after its step is in order, and it owns an   *)
(* action it owned before or a new one.                                    *)
LEMMA HandAuth ==
    ASSUME TypeInv, LoggedInv, AuthInv, NEW p \in Proc, Step(p)
    PROVE  /\ FrameAuth(ledger', frame'[p])
           /\ Owns(frame'[p]) => \/ Owns(frame[p]) /\ frame'[p].act = frame[p].act
                                 \/ \E a \in Action : Calls(p, a)
<1>1. CASE OutStep(p)
  <2>1. Out(p)
    BY <1>1 DEF OutStep, Stops, Refused, Marks, KillsAll, ResumesAll, Unlinks, Closes, OutToWork
  <2>. QED
    BY <2>1, OutAuth
<1>2. CASE SilentStep(p)
  BY <1>2, PicksUpAuth, CallsAuth, SilentAuth, DecidesAuth DEF SilentStep
<1>3. CASE LoggedMove(p)
  BY <1>3, ProposesAuth, SimulatesAuth, ApprovesAuth, CommitsAuth DEF LoggedMove
<1>. QED
  BY <1>1, <1>2, <1>3 DEF Step

(* A step of a process preserves AuthInv. *)
LEMMA AuthStep ==
    ASSUME TypeInv, LoggedInv, AuthInv, NEW p \in Proc, Step(p)
    PROVE  AuthInv'
<1>0. used \subseteq used' /\ Same(p)
  BY UsedGrows, OthersSame
<1>1. \/ ledger' = ledger
      \/ \E e : /\ Log(e)
                /\ \/ Fits(e) /\ KnownTo(frame[p], e)
                   \/ e.act = None /\ e.kind \in {"halted", "resumed", "rollback"}
  <2>1. CASE OwnMark(p)
    <3>1. PICK kind, s : kind \in {"halted", "resumed", "rollback"} /\ Log(Mark(kind, s))
      BY <2>1 DEF OwnMark
    <3>2. Mark(kind, s).act = None /\ Mark(kind, s).kind = kind
      BY DEF Mark
    <3>. QED
      BY <3>1, <3>2
  <2>. QED
    BY <2>1, StepAppends, OwnEntryFits
<1>2. /\ PreparedCleared' /\ ClosedStays'
      /\ \A i \in DOMAIN ledger' : ledger'[i].act # None => ledger'[i].act \in used'
      /\ \A q \in Proc : q # p => FrameAuth(ledger', frame[q])
  <2>1. CASE ledger' = ledger
    BY <1>0, <2>1 DEF AuthInv, PreparedCleared, ClosedStays, GivenOut, Before
  <2>2. ASSUME NEW e, Log(e),
               \/ Fits(e) /\ KnownTo(frame[p], e)
               \/ e.act = None /\ e.kind \in {"halted", "resumed", "rollback"}
        PROVE  /\ PreparedCleared' /\ ClosedStays'
               /\ \A i \in DOMAIN ledger' : ledger'[i].act # None => ledger'[i].act \in used'
               /\ \A q \in Proc : q # p => FrameAuth(ledger', frame[q])
    <3>1. /\ PreparedCleared' /\ ClosedStays'
          /\ \A i \in DOMAIN ledger' : ledger'[i].act # None => ledger'[i].act \in used'
      BY <1>0, <2>2, LedgerAuthAfter DEF AuthInv
    <3>2. \A q \in Proc : q # p => FrameAuth(ledger', frame[q])
      BY <2>2, OthersKeepAuth
    <3>. QED
      BY <3>1, <3>2
  <2>. QED
    BY <1>1, <2>1, <2>2
<1>3. \A q \in Proc : FrameAuth(ledger', frame'[q])
  BY <1>0, <1>2, HandAuth DEF Same
<1>4. \A q \in Proc : q # p /\ Owns(frame'[q]) => Owns(frame[q]) /\ frame'[q].act = frame[q].act
  BY <1>0 DEF Same
<1>5. CASE \E a \in Action : Calls(p, a)
  <2>1. PICK a \in Action : Calls(p, a)
    BY <1>5
  <2>2. frame'[p].act = a /\ a \in used' /\ a \notin used
    BY <2>1 DEF Calls
  <2>3. \A q \in Proc : q # p /\ Owns(frame'[q]) => frame'[q].act \in used
    BY <1>4 DEF AuthInv, GivenOut
  <2>4. \A q, r \in Proc : q # r /\ Owns(frame'[q]) /\ Owns(frame'[r]) => frame'[q].act # frame'[r].act
    BY <1>4, <2>2, <2>3 DEF AuthInv, GivenOut
  <2>5. GivenOut'
    BY <1>0, <1>2, <2>2, <2>3, <2>4 DEF GivenOut
  <2>. QED
    BY <1>2, <1>3, <2>5 DEF AuthInv
<1>6. CASE ~\E a \in Action : Calls(p, a)
  <2>1. \A q \in Proc : Owns(frame'[q]) => Owns(frame[q]) /\ frame'[q].act = frame[q].act
    BY <1>4, <1>6, HandAuth
  <2>2. GivenOut'
    BY <1>0, <1>2, <2>1 DEF AuthInv, GivenOut
  <2>. QED
    BY <1>2, <1>3, <2>2 DEF AuthInv
<1>. QED
  BY <1>5, <1>6

(* So do the environment and a step that changes nothing. *)
LEMMA AuthElse ==
    ASSUME AuthInv, Environment \/ UNCHANGED vars
    PROVE  AuthInv'
<1>1. ledger' = ledger /\ used' = used
  BY DEF Environment, OutsideWrite, Crash, vars
<1>2. \A q \in Proc : frame'[q] = frame[q] \/ frame'[q].pc = "idle"
  <2>1. IdleFrame(None, 0).pc = "idle"
    BY DEF IdleFrame
  <2>. QED
    BY <2>1 DEF Environment, OutsideWrite, Crash, vars
<1>3. \A q \in Proc : FrameAuth(ledger', frame'[q]) /\ (Owns(frame'[q]) => frame'[q] = frame[q])
  BY <1>1, <1>2 DEF AuthInv, FrameAuth, Owns, Releases, Fresh, Late
<1>4. PreparedCleared' /\ ClosedStays'
  BY <1>1 DEF AuthInv, PreparedCleared, ClosedStays, Before
<1>5. GivenOut'
  BY <1>1, <1>3 DEF AuthInv, GivenOut
<1>. QED
  BY <1>3, <1>4, <1>5 DEF AuthInv

(* It holds at the start, *)
LEMMA AuthInit == Init => AuthInv
<1>. SUFFICES ASSUME Init PROVE AuthInv
  OBVIOUS
<1>1. DOMAIN ledger = {}
  BY DEF Init
<1>2. \A p \in Proc : frame[p].pc = "idle"
  BY DEF Init, IdleFrame
<1>3. \A p \in Proc : FrameAuth(ledger, frame[p]) /\ ~Owns(frame[p])
  BY <1>2 DEF FrameAuth, Owns, Releases, Fresh, Late
<1>. QED
  BY <1>1, <1>3 DEF AuthInv, PreparedCleared, ClosedStays, GivenOut

(* and ever after. *)
LEMMA Authority == Spec => [](TypeInv /\ LoggedInv /\ AuthInv)
<1>1. TypeInv /\ LoggedInv /\ AuthInv /\ [Next]_vars => AuthInv'
  <2>. SUFFICES ASSUME TypeInv, LoggedInv, AuthInv, [Next]_vars PROVE AuthInv'
    OBVIOUS
  <2>1. ASSUME NEW p \in Proc, Begin(p) \/ Continue(p) PROVE AuthInv'
    BY <2>1, Steps, AuthStep
  <2>. QED
    BY <2>1, AuthElse DEF Next
<1>. QED
  BY <1>1, AuthInit, Logged, PTL DEF Spec

(* Whoever calls, releases, undoes or crashes, an operation is prepared    *)
(* only with the policy's word, an approval or a release before it, never  *)
(* after a denial or a rejection, and never while a hold stands            *)
(* (core.py _execute, release, _commit).                                   *)
THEOREM PreparedIsSanctioned == Spec => []Sanctioned
<1>1. AuthInv => Sanctioned
  <2>. SUFFICES ASSUME AuthInv, NEW i \in PreparedPos
                PROVE  /\ \/ Consented(Before(i), ledger[i].act)
                          \/ AutoAllowed(Before(i), ledger[i].act)
                       /\ ~Has(ledger, ledger[i].act, "denied")
                       /\ ~Has(ledger, ledger[i].act, "rejected")
                       /\ ReleasedSinceHeld(Before(i), ledger[i].act)
    BY DEF Sanctioned, ReleasedSinceHeld
  <2>1. i \in DOMAIN ledger /\ ledger[i].kind = "prepared"
    BY DEF PreparedPos
  <2>2. Cleared(Before(i), ledger[i].act)
    BY <2>1 DEF AuthInv, PreparedCleared
  <2>3. Has(ledger, ledger[i].act, "prepared")
    BY <2>1 DEF Has, Positions
  <2>4. ~Has(ledger, ledger[i].act, "denied") /\ ~Has(ledger, ledger[i].act, "rejected")
    BY <2>3, OpenIsNotClosed DEF AuthInv, Closing
  <2>. QED
    BY <2>2, <2>4 DEF Cleared
<1>. QED
  BY <1>1, Authority, PTL

(* Destructive work without an inverse is prepared only after a person's   *)
(* approval or release, whatever the rules of the policy say (policy.py    *)
(* decide).                                                                *)
THEOREM IrreversibleIsConsented == Spec => []ConsentForIrreversible
<1>1. AuthInv => ConsentForIrreversible
  BY DEF AuthInv, PreparedCleared, Cleared, NeedsConsent, ConsentForIrreversible, PreparedPos
<1>. QED
  BY <1>1, Authority, PTL

-----------------------------------------------------------------------------
(***************************************************************************)
(* HappenedAuthorized: the last word on an action that ran is not a no.    *)
(* Two operators can break it, one discarding what the other has released; *)
(* so the hypothesis is that a single process works the outbox.            *)
(***************************************************************************)

Operator(p) == May[p] \cap {"release", "discard"} # {}
OneOperator == \A p, q \in Proc : Operator(p) /\ Operator(q) => p = q

(* What a held action has in the ledger until the operator resolves it. *)
Unresolved == {"proposed", "simulated", "escalated", "held"}
Resolves(f) == f.pc = "discard" \/ (f.job = "release" /\ f.pc \in {"gate", "ensure", "release"})

HeldLast ==
    \A i, j \in DOMAIN ledger :
       ledger[j].kind = "held" /\ ledger[i].act = ledger[j].act
          => /\ ledger[i].kind # "approved"
             /\ i < j => ledger[i].kind \in {"proposed", "simulated", "escalated"}
NotedLate ==
    \A i \in DOMAIN ledger :
       ledger[i].act # None =>
          /\ ledger[i].kind \notin {"halted", "resumed", "rollback"}
          /\ ledger[i].kind \in {"deviation", "undo_failed"} => Has(ledger, ledger[i].act, "prepared")
ReadAlone == \A a \in Action : Has(ledger, a, "read") => Only(ledger, a, {"read"})
LedgerWord ==
    /\ HeldLast /\ NotedLate /\ ReadAlone
    /\ \A a \in Action : Has(ledger, a, "prepared") => Authorized(ledger, a)

FrameWord(log, p, f) ==
    /\ Resolves(f) => Operator(p) /\ Only(log, f.act, Unresolved)
    /\ f.job = "release" /\ f.pc \in {"snapshot", "prepare"} => Has(log, f.act, "released")
    /\ f.pc \in {"snapshot", "prepare"} => Authorized(log, f.act)
    /\ f.pc = "simulate" /\ f.verdict \in {"allow", "simulate"} => Authorized(log, f.act)

WordInv == LedgerWord /\ \A p \in Proc : FrameWord(ledger, p, frame[p])

(* An entry that says nothing on authority, or says yes, takes none back. *)
LEMMA AuthorizedKept ==
    ASSUME TypeInv, NEW e, ExtendedByOne(e), NEW a, Authorized(ledger, a),
           e.act = a => e.kind \notin AuthorityKind
    PROVE  Authorized(ledger', a)
<1>. DEFINE P == Positions(ledger, a, AuthorityKind)
<1>1. Positions(ledger', a, AuthorityKind) = P
  BY PositionsSame
<1>2. P \in SUBSET (0 .. Len(ledger)) /\ P \subseteq DOMAIN ledger /\ Len(ledger) \in Nat
  BY PositionsType DEF TypeInv, TypeOK
<1>3. P # {} /\ Authorizes(ledger[Max(P)])
  BY DEF Authorized
<1>4. Max(P) \in DOMAIN ledger
  BY <1>2, <1>3, MaxOfBounded
<1>5. ledger'[Max(P)] = ledger[Max(P)]
  BY <1>4 DEF ExtendedByOne
<1>. QED
  BY <1>1, <1>3, <1>5 DEF Authorized

(* The last word decides. *)
LEMMA AuthorizedByLast ==
    ASSUME TypeInv, NEW e, ExtendedByOne(e), e.kind \in AuthorityKind, Authorizes(e)
    PROVE  Authorized(ledger', e.act)
<1>. DEFINE P == Positions(ledger, e.act, AuthorityKind)
            Q == Positions(ledger', e.act, AuthorityKind)
            n == Len(ledger) + 1
<1>1. P \in SUBSET (0 .. Len(ledger)) /\ Len(ledger) \in Nat
  BY PositionsType DEF TypeInv, TypeOK
<1>2. Q = P \cup (IF e.act = e.act /\ e.kind \in AuthorityKind THEN {n} ELSE {})
  BY PositionsAfter
<1>3. Q = P \cup {n}
  BY <1>2
<1>4. n \in Nat /\ Q \in SUBSET (0 .. n) /\ n \in Q /\ \A i \in Q : i <= n
  BY <1>1, <1>3
<1>. HIDE DEF P, Q, n
<1>5. Max(Q) \in Q /\ Max(Q) >= n
  BY <1>4, MaxOfBounded
<1>6. Max(Q) = n
  <2>. DEFINE m == Max(Q)
  <2>1. m \in Q /\ m >= n
    BY <1>5
  <2>. HIDE DEF m
  <2>2. m = n
    BY <1>4, <2>1
  <2>. QED
    BY <2>2 DEF m
<1>7. ledger'[n] = e
  BY DEF ExtendedByOne, n
<1>. QED
  BY <1>4, <1>6, <1>7 DEF Authorized, Q

(* A held action that nobody has resolved has nothing else in the ledger. *)
LEMMA HeldIsUnresolved ==
    ASSUME TypeInv, LedgerWord, NEW a \in Action, StatusOf(ledger, a) = "held"
    PROVE  Only(ledger, a, Unresolved)
<1>. DEFINE P == Positions(ledger, a, StatusKind)  m == Max(P)
<1>1. /\ P \in SUBSET (0 .. Len(ledger)) /\ Len(ledger) \in Nat /\ P \subseteq DOMAIN ledger
      /\ DOMAIN ledger = 1 .. Len(ledger)
  BY PositionsType DEF TypeInv, TypeOK
<1>2. P # {}
  BY DEF StatusOf
<1>3. m \in P /\ \A y \in P : m >= y
  BY <1>1, <1>2, MaxOfBounded
<1>4. ledger[m].kind = "held" /\ ledger[m].act = a /\ m \in DOMAIN ledger
  <2>1. STATUS_BY_KIND[ledger[m].kind] = "held"
    BY <1>2 DEF StatusOf
  <2>2. ledger[m].kind \in StatusKind /\ ledger[m].act = a /\ m \in DOMAIN ledger
    BY <1>3 DEF Positions
  <2>. QED
    BY <2>1, <2>2 DEF STATUS_BY_KIND, StatusKind
<1>5. \A i \in DOMAIN ledger : ledger[i].act = a /\ ledger[i].kind \in StatusKind => i < m \/ i = m
  <2>. SUFFICES ASSUME NEW i \in DOMAIN ledger, ledger[i].act = a, ledger[i].kind \in StatusKind
                PROVE  i < m \/ i = m
    OBVIOUS
  <2>1. i \in P
    BY DEF Positions
  <2>2. m >= i /\ m \in Nat /\ i \in Nat
    BY <1>1, <1>3, <2>1
  <2>. HIDE DEF m
  <2>. QED
    BY <2>2
<1>. HIDE DEF P, m
<1>6. ~Has(ledger, a, "prepared")
  <2>. SUFFICES ASSUME NEW i \in DOMAIN ledger, ledger[i].act = a, ledger[i].kind = "prepared"
                PROVE  FALSE
    BY DEF Has, Positions
  <2>1. i < m \/ i = m
    BY <1>5 DEF StatusKind
  <2>. QED
    BY <1>4, <2>1 DEF LedgerWord, HeldLast
<1>7. ASSUME NEW i \in DOMAIN ledger, ledger[i].act = a PROVE ledger[i].kind \in Unresolved
  <2>1. CASE ledger[i].kind \in StatusKind
    BY <1>4, <1>5, <1>7, <2>1 DEF LedgerWord, HeldLast, Unresolved
  <2>2. CASE ledger[i].kind \notin StatusKind
    <3>1. a # None
      BY GatewayAssumption
    <3>2. ledger[i].kind \in EntryKind
      <4>1. ledger \in Seq(EntryType)
        BY DEF TypeInv, TypeOK
      <4>2. ledger[i] \in EntryType
        BY <4>1, ElementOf
      <4>. QED
        BY <4>2 DEF EntryType
    <3>3. ledger[i].kind \notin {"halted", "resumed", "rollback", "deviation", "undo_failed", "approved"}
      BY <1>4, <1>6, <1>7, <3>1 DEF LedgerWord, HeldLast, NotedLate
    <3>. QED
      BY <2>2, <3>2, <3>3 DEF EntryKind, Unresolved
  <2>. QED
    BY <2>1, <2>2
<1>. QED
  BY <1>7 DEF Only

(* An entry of a step about the action in hand, in full. *)
Appends(p, e) ==
    /\ Log(e) /\ ExtendedByOne(e)
    /\ <<frame[p].pc, e.kind>> \in Writes
    /\ e.act = frame[p].act /\ e.act \in Action

(* A step that logs its own entry is one of these. *)
LEMMA OwnEntryAppends ==
    ASSUME TypeInv, NEW p \in Proc, OwnEntry(p)
    PROVE  \E e : Appends(p, e)
<1>1. PICK w \in Writes : At(p, w[1]) /\ \E v : Log(Entry(w[2], frame[p].act, v))
  BY DEF OwnEntry
<1>2. PICK v : Log(Entry(w[2], frame[p].act, v))
  BY <1>1
<1>. DEFINE e == Entry(w[2], frame[p].act, v)
<1>3. e.act = frame[p].act /\ e.kind = w[2]
  BY DEF Entry
<1>4. frame[p].act \in Action
  BY <1>1, InHand, WritesKinds DEF At
<1>5. w = <<w[1], w[2]>>
  BY DEF Writes, Closer
<1>6. ExtendedByOne(e)
  BY <1>2, AppendsOne
<1>7. <<frame[p].pc, e.kind>> \in Writes
  BY <1>1, <1>3, <1>5 DEF At
<1>. QED
  BY <1>2, <1>3, <1>4, <1>6, <1>7 DEF Appends

(* Who writes about an action that is not its own. *)
LEMMA NotOwner ==
    ASSUME AuthInv, NEW p \in Proc, NEW e, Appends(p, e), ~Owns(frame[p])
    PROVE  LET f == frame[p] IN
           \/ /\ f.pc \in Late /\ Has(ledger, e.act, "prepared")
              /\ e.kind \in {"failed", "deviation", "undone", "undo_failed", "committed"}
           \/ /\ Has(ledger, e.act, "held")
              /\ \/ f.pc = "discard" /\ e.kind = "discarded"
                 \/ f.job = "release" /\ f.pc = "release" /\ e.kind = "released"
                 \/ f.job = "release" /\ f.pc = "snapshot" /\ e.kind = "failed"
                 \/ f.job = "release" /\ f.pc = "prepare" /\ e.kind = "prepared"
<1>. DEFINE f == frame[p]
<1>1. FrameAuth(ledger, f) /\ <<f.pc, e.kind>> \in Writes /\ e.act = f.act
  BY DEF AuthInv, Appends
<1>2. \/ f.pc \in Late /\ e.kind \in {"failed", "deviation", "undone", "undo_failed", "committed"}
      \/ f.pc = "discard" /\ e.kind = "discarded"
      \/ f.pc = "release" /\ e.kind = "released"
      \/ f.pc = "snapshot" /\ e.kind = "failed"
      \/ f.pc = "prepare" /\ e.kind = "prepared"
      \/ f.pc \in Fresh \ {"ensure", "snapshot", "prepare"}
  BY <1>1 DEF Writes, Closer, Late, Fresh
<1>3. f.pc \notin Fresh \ {"ensure", "snapshot", "prepare"}
  BY <1>1 DEF FrameAuth, Owns
<1>4. f.pc \in {"release", "snapshot", "prepare"} => Releases(f)
  BY <1>1 DEF FrameAuth, Owns, Releases, Fresh
<1>. QED
  BY <1>1, <1>2, <1>3, <1>4 DEF FrameAuth, Releases

(* What owners write is about nobody else's action. *)
LEMMA OwnerAlone ==
    ASSUME TypeInv, AuthInv, NEW p \in Proc, Owns(frame[p]),
           NEW q \in Proc, q # p,
           Owns(frame[q]) \/ Releases(frame[q]) \/ frame[q].pc = "discard" \/ frame[q].pc \in Late
    PROVE  frame[q].act # frame[p].act
<1>1. FrameAuth(ledger, frame[q]) /\ FrameAuth(ledger, frame[p])
  BY DEF AuthInv
<1>2. ~Has(ledger, frame[p].act, "held") /\ ~Has(ledger, frame[p].act, "prepared")
  BY <1>1, OwnedIsFresh
<1>. QED
  BY <1>1, <1>2 DEF FrameAuth, AuthInv, GivenOut

(* Nobody takes back the authority of an action that is prepared or about  *)
(* to be.                                                                  *)
LEMMA AuthorizedStays ==
    ASSUME TypeInv, AuthInv, WordInv, NEW p \in Proc, NEW e, Appends(p, e), NEW a,
           \/ Has(ledger, a, "prepared")
           \/ \E q \in Proc \ {p} : /\ frame[q].act = a
                                    /\ frame[q].pc \in {"simulate", "snapshot", "prepare"},
           Authorized(ledger, a)
    PROVE  Authorized(ledger', a)
<1>0. ExtendedByOne(e) /\ e.act = frame[p].act
  BY DEF Appends
<1>1. CASE e.act # a \/ e.kind \notin AuthorityKind
  BY <1>0, <1>1, AuthorizedKept
<1>2. CASE e.act = a /\ e.kind \in AuthorityKind
  <2>1. ~Owns(frame[p])
    <3>. SUFFICES ASSUME Owns(frame[p]) PROVE FALSE
      OBVIOUS
    <3>1. CASE Has(ledger, a, "prepared")
      BY <1>0, <1>2, <3>1, OwnedIsFresh DEF AuthInv
    <3>2. ASSUME NEW q \in Proc \ {p}, frame[q].act = a,
                 frame[q].pc \in {"simulate", "snapshot", "prepare"}
          PROVE  FALSE
      <4>1. Owns(frame[q]) \/ Releases(frame[q])
        <5>1. FrameAuth(ledger, frame[q])
          BY DEF AuthInv
        <5>. QED
          BY <3>2, <5>1 DEF FrameAuth, Owns, Releases, Fresh
      <4>. QED
        BY <1>0, <1>2, <3>2, <4>1, OwnerAlone
    <3>. QED
      BY <3>1, <3>2
  <2>2. \/ e.kind = "released"
        \/ e.kind = "discarded" /\ frame[p].pc = "discard" /\ Has(ledger, a, "held")
    BY <1>2, <2>1, NotOwner DEF AuthorityKind
  <2>3. CASE e.kind = "released"
    BY <1>0, <1>2, <2>3, AuthorizedByLast DEF Authorizes
  <2>4. CASE e.kind = "discarded" /\ frame[p].pc = "discard" /\ Has(ledger, a, "held")
    <3>1. Only(ledger, a, Unresolved)
      BY <1>0, <1>2, <2>4 DEF WordInv, FrameWord, Resolves
    <3>2. ~Has(ledger, a, "prepared") /\ ~Has(ledger, a, "released")
      BY <3>1 DEF Unresolved, Only, Has, Positions
    <3>3. PICK q \in Proc \ {p} : /\ frame[q].act = a
                                  /\ frame[q].pc \in {"simulate", "snapshot", "prepare"}
      BY <3>2
    <3>4. FrameAuth(ledger, frame[q]) /\ FrameWord(ledger, q, frame[q])
      BY DEF AuthInv, WordInv
    <3>5. Owns(frame[q])
      BY <3>2, <3>3, <3>4 DEF FrameAuth, FrameWord, Owns, Fresh
    <3>. QED
      BY <2>4, <3>3, <3>4, <3>5, OwnedIsFresh
  <2>. QED
    BY <2>2, <2>3, <2>4
<1>. QED
  BY <1>1, <1>2

(* The ledger's own part of the invariant after an entry about an action, *)
LEMMA LedgerWordAfter ==
    ASSUME TypeInv, AuthInv, WordInv, NEW p \in Proc, NEW e, Appends(p, e)
    PROVE  LedgerWord'
<1>. DEFINE f == frame[p]  n == Len(ledger) + 1
<1>1. /\ \A i \in DOMAIN ledger : i \in DOMAIN ledger' /\ ledger'[i] = ledger[i] /\ i < n /\ i \in Nat
      /\ ledger'[n] = e /\ e.act = f.act /\ e.act \in Action
      /\ \A i \in DOMAIN ledger' : i \in DOMAIN ledger \/ i = n
      /\ n \in Nat /\ ExtendedByOne(e)
  BY DEF Appends, ExtendedByOne
<1>2. FrameAuth(ledger, f) /\ <<f.pc, e.kind>> \in Writes
  BY DEF AuthInv, Appends
<1>3. \A a, k : Has(ledger', a, k) <=> Has(ledger, a, k) \/ (e.act = a /\ e.kind = k)
  BY <1>1, HasAfter
<1>. HIDE DEF n
<1>4. HeldLast'
  <2>. SUFFICES ASSUME NEW i \in DOMAIN ledger', NEW j \in DOMAIN ledger',
                       ledger'[j].kind = "held", ledger'[i].act = ledger'[j].act
                PROVE  /\ ledger'[i].kind # "approved"
                       /\ i < j => ledger'[i].kind \in {"proposed", "simulated", "escalated"}
    BY DEF HeldLast
  <2>1. CASE i \in DOMAIN ledger /\ j \in DOMAIN ledger
    BY <1>1, <2>1 DEF WordInv, LedgerWord, HeldLast
  <2>2. CASE i \in DOMAIN ledger /\ j = n
    <3>1. f.pc = "authorize"
      BY <1>1, <1>2, <2>2 DEF Writes, Closer
    <3>2. Only(ledger, f.act, {"proposed", "simulated", "escalated"})
      BY <1>2, <3>1 DEF FrameAuth, Owns, Fresh, SoFar
    <3>. QED
      BY <1>1, <2>2, <3>2 DEF Only
  <2>3. CASE i = n /\ j \in DOMAIN ledger
    <3>1. Has(ledger, e.act, "held")
      BY <1>1, <2>3 DEF Has, Positions
    <3>2. e.kind # "approved"
      <4>1. e.kind = "approved" => Owns(f)
        BY <1>2 DEF Writes, Closer, FrameAuth, Owns, Fresh
      <4>. QED
        BY <1>1, <1>2, <3>1, <4>1, OwnedIsFresh
    <3>3. ~(i < j)
      BY <1>1, <2>3
    <3>. QED
      BY <1>1, <2>3, <3>2, <3>3
  <2>4. CASE i = n /\ j = n
    BY <1>1, <2>4
  <2>. QED
    BY <1>1, <2>1, <2>2, <2>3, <2>4
<1>5. NotedLate'
  <2>1. e.kind \notin {"halted", "resumed", "rollback"}
    BY <1>2 DEF Writes, Closer
  <2>2. e.kind \in {"deviation", "undo_failed"} => Has(ledger, e.act, "prepared")
    <3>1. e.kind \in {"deviation", "undo_failed"} => f.pc \in Late
      BY <1>2 DEF Writes, Closer, Late
    <3>. QED
      BY <1>1, <1>2, <3>1 DEF FrameAuth
  <2>3. ASSUME NEW i \in DOMAIN ledger', ledger'[i].act # None
        PROVE  /\ ledger'[i].kind \notin {"halted", "resumed", "rollback"}
               /\ ledger'[i].kind \in {"deviation", "undo_failed"} => Has(ledger', ledger'[i].act, "prepared")
    <3>1. CASE i \in DOMAIN ledger
      BY <1>1, <1>3, <2>3, <3>1 DEF WordInv, LedgerWord, NotedLate
    <3>2. CASE i = n
      BY <1>1, <1>3, <2>1, <2>2, <3>2
    <3>. QED
      BY <1>1, <3>1, <3>2
  <2>. QED
    BY <2>3 DEF NotedLate
<1>6. ReadAlone'
  <2>. SUFFICES ASSUME NEW a \in Action, Has(ledger', a, "read") PROVE Only(ledger', a, {"read"})
    BY DEF ReadAlone
  <2>1. CASE Has(ledger, a, "read")
    <3>1. Only(ledger, a, {"read"})
      BY <2>1 DEF WordInv, LedgerWord, ReadAlone
    <3>2. e.act # a
      <4>1. CASE Owns(f)
        BY <1>1, <1>2, <2>1, <4>1, OwnedIsFresh
      <4>2. CASE ~Owns(f)
        <5>1. ~Has(ledger, a, "held") /\ ~Has(ledger, a, "prepared")
          BY <3>1 DEF Only, Has, Positions
        <5>. QED
          BY <4>2, <5>1, NotOwner
      <4>. QED
        BY <4>1, <4>2
    <3>. QED
      BY <1>1, <3>1, <3>2, OnlyAfter
  <2>2. CASE e.act = a /\ e.kind = "read"
    <3>1. f.pc = "read"
      BY <1>2, <2>2 DEF Writes, Closer
    <3>2. Only(ledger, a, {})
      BY <1>1, <1>2, <2>2, <3>1 DEF FrameAuth, Owns, Fresh, SoFar
    <3>. QED
      BY <1>1, <2>2, <3>2, OnlyAfter
  <2>. QED
    BY <1>3, <2>1, <2>2
<1>7. ASSUME NEW a \in Action, Has(ledger', a, "prepared") PROVE Authorized(ledger', a)
  <2>1. CASE Has(ledger, a, "prepared")
    BY <2>1, AuthorizedStays DEF WordInv, LedgerWord
  <2>2. CASE e.act = a /\ e.kind = "prepared"
    <3>1. f.pc = "prepare"
      BY <1>2, <2>2 DEF Writes, Closer
    <3>2. Authorized(ledger, a)
      BY <1>1, <2>2, <3>1 DEF WordInv, FrameWord
    <3>. QED
      BY <1>1, <2>2, <3>2, AuthorizedKept DEF AuthorityKind
  <2>. QED
    BY <1>3, <1>7, <2>1, <2>2
<1>. QED
  BY <1>4, <1>5, <1>6, <1>7 DEF LedgerWord

(* after a mark, *)
LEMMA LedgerWordMark ==
    ASSUME TypeInv, LedgerWord, NEW e, Log(e), e.act = None,
           e.kind \in {"halted", "resumed", "rollback"}
    PROVE  LedgerWord'
<1>. DEFINE n == Len(ledger) + 1
<1>0. ExtendedByOne(e)
  BY AppendsOne
<1>1. /\ \A i \in DOMAIN ledger : i \in DOMAIN ledger' /\ ledger'[i] = ledger[i] /\ i < n /\ i \in Nat
      /\ ledger'[n] = e
      /\ \A i \in DOMAIN ledger' : i \in DOMAIN ledger \/ i = n
      /\ n \in Nat
  BY <1>0 DEF ExtendedByOne
<1>2. \A a \in Action : a # None
  BY GatewayAssumption
<1>3. \A a, k : Has(ledger, a, k) => Has(ledger', a, k)
  BY <1>0, HasAfter
<1>4. \A a \in Action : \A k : Has(ledger', a, k) => Has(ledger, a, k)
  BY <1>0, <1>2, HasAfter
<1>. HIDE DEF n
<1>5. HeldLast'
  <2>. SUFFICES ASSUME NEW i \in DOMAIN ledger', NEW j \in DOMAIN ledger',
                       ledger'[j].kind = "held", ledger'[i].act = ledger'[j].act
                PROVE  /\ ledger'[i].kind # "approved"
                       /\ i < j => ledger'[i].kind \in {"proposed", "simulated", "escalated"}
    BY DEF HeldLast
  <2>1. j \in DOMAIN ledger
    BY <1>1
  <2>2. CASE i \in DOMAIN ledger
    BY <1>1, <2>1, <2>2 DEF LedgerWord, HeldLast
  <2>3. CASE i = n
    <3>1. ~(i < j)
      BY <1>1, <2>1, <2>3
    <3>. QED
      BY <1>1, <2>3, <3>1
  <2>. QED
    BY <1>1, <2>2, <2>3
<1>6. NotedLate'
  BY <1>1, <1>3 DEF LedgerWord, NotedLate
<1>7. ASSUME NEW a \in Action, Has(ledger', a, "read") PROVE Only(ledger', a, {"read"})
  BY <1>0, <1>2, <1>4, <1>7, OnlyAfter DEF LedgerWord, ReadAlone
<1>8. ASSUME NEW a \in Action, Has(ledger', a, "prepared") PROVE Authorized(ledger', a)
  BY <1>0, <1>2, <1>4, <1>8, AuthorizedKept DEF LedgerWord
<1>. QED
  BY <1>5, <1>6, <1>7, <1>8 DEF LedgerWord, ReadAlone

(* and what the other processes rely on. *)
LEMMA OthersKeepWord ==
    ASSUME TypeInv, AuthInv, WordInv, OneOperator, NEW p \in Proc, NEW e, Appends(p, e),
           NEW q \in Proc, q # p
    PROVE  FrameWord(ledger', q, frame[q])
<1>. DEFINE f == frame[q]
<1>1. FrameWord(ledger, q, f) /\ FrameAuth(ledger, f) /\ ExtendedByOne(e) /\ e.act = frame[p].act
  BY DEF WordInv, AuthInv, Appends
<1>2. Resolves(f) => Only(ledger', f.act, Unresolved)
  <2>. SUFFICES ASSUME Resolves(f) PROVE Only(ledger', f.act, Unresolved)
    OBVIOUS
  <2>1. Only(ledger, f.act, Unresolved) /\ Operator(q) /\ (f.pc = "discard" \/ Releases(f))
    BY <1>1 DEF FrameWord, Resolves, Releases
  <2>2. ~Has(ledger, f.act, "prepared") /\ ~Has(ledger, f.act, "released")
    BY <2>1 DEF Unresolved, Only, Has, Positions
  <2>3. e.act # f.act
    <3>. SUFFICES ASSUME e.act = f.act PROVE FALSE
      OBVIOUS
    <3>1. ~Owns(frame[p])
      BY <1>1, <2>1, OwnerAlone
    <3>2. \/ Resolves(frame[p])
          \/ frame[p].job = "release" /\ frame[p].pc \in {"snapshot", "prepare"}
      BY <2>2, <3>1, NotOwner DEF Resolves
    <3>3. FrameWord(ledger, p, frame[p])
      BY DEF WordInv
    <3>. QED
      BY <1>1, <2>1, <2>2, <3>2, <3>3 DEF FrameWord, OneOperator
  <2>. QED
    BY <1>1, <2>1, <2>3, OnlyAfter
<1>3. \A k : Has(ledger, f.act, k) => Has(ledger', f.act, k)
  BY <1>1, HasAfter
<1>4. f.pc \in {"simulate", "snapshot", "prepare"} /\ Authorized(ledger, f.act)
         => Authorized(ledger', f.act)
  BY AuthorizedStays
<1>. QED
  BY <1>1, <1>2, <1>3, <1>4 DEF FrameWord

(* What p itself relies on after its step: the silent ones, *)
LEMMA SilentWord ==
    ASSUME TypeInv, AuthInv, WordInv, NEW p \in Proc, OutStep(p) \/ SilentStep(p)
    PROVE  FrameWord(ledger', p, frame'[p])
<1>. DEFINE f == frame[p]  g == frame'[p]
<1>0. FrameAuth(ledger, f) /\ FrameWord(ledger, p, f)
  BY DEF AuthInv, WordInv
<1>1. CASE OutStep(p)
  <2>1. g.pc \in NoAction
    BY <1>1 DEF OutStep, Stops, Refused, Marks, KillsAll, ResumesAll, Unlinks, Closes, OutToWork, Out
  <2>. QED
    BY <2>1 DEF FrameWord, Resolves, NoAction
<1>2. ASSUME NEW a \in Action, PicksUp(p, a) PROVE FrameWord(ledger', p, g)
  <2>1. /\ StatusOf(ledger, a) = "held" /\ g.act = a /\ ledger' = ledger
        /\ g.pc \in {"gate", "discard"} /\ Operator(p)
    BY <1>2 DEF PicksUp, Still, Operator
  <2>2. Only(ledger, a, Unresolved)
    BY <2>1, HeldIsUnresolved DEF WordInv
  <2>. QED
    BY <2>1, <2>2 DEF FrameWord
<1>3. CASE Jumps(p)
  <2>1. /\ ledger' = ledger /\ g.job = f.job /\ g.act = f.act /\ <<f.pc, g.pc>> \in Jump
    BY <1>3 DEF Jumps, Goes, KeepsHand, Still, At, Jump
  <2>2. CASE f.pc = "gate"
    <3>1. g.pc = "ensure" /\ f.job = "release"
      BY <1>0, <2>1, <2>2 DEF Jump, FrameAuth
    <3>. QED
      BY <1>0, <2>1, <2>2, <3>1 DEF FrameWord, Resolves
  <2>3. CASE f.pc # "gate"
    <3>1. g.pc \notin {"discard", "gate", "ensure", "release", "simulate", "snapshot", "prepare"}
      BY <2>1, <2>3 DEF Jump
    <3>. QED
      BY <3>1 DEF FrameWord, Resolves
  <2>. QED
    BY <2>2, <2>3
<1>4. CASE PassesKillSwitch(p)
  <2>1. /\ ledger' = ledger /\ g.job = f.job /\ g.act = f.act /\ f.pc = "ensure"
        /\ f.job \in {"call", "release"}
        /\ g.pc = IF f.job = "call" THEN "decide" ELSE "release"
    BY <1>0, <1>4 DEF PassesKillSwitch, Goes, KeepsHand, Still, At, FrameAuth
  <2>. QED
    BY <1>0, <2>1 DEF FrameWord, Resolves
<1>5. CASE Reads(p)
  <2>1. /\ ledger' = ledger /\ g.job = f.job /\ g.act = f.act
        /\ \/ f.pc = "snapshot" /\ g.pc = "prepare"
           \/ f.pc = "observe" /\ g.pc = "commit"
    BY <1>5 DEF Reads, KeepsHand, Still, At
  <2>. QED
    BY <1>0, <2>1 DEF FrameWord, Resolves
<1>6. ASSUME \/ \E a \in Action : Calls(p, a)
             \/ TurnsToUndo(p) \/ Decides(p) \/ Accounts(p) \/ LoadsForUndo(p)
      PROVE  FrameWord(ledger', p, g)
  <2>1. \/ g.pc \notin {"discard", "gate", "ensure", "release", "simulate", "snapshot", "prepare"}
        \/ g.pc = "ensure" /\ g.job = "call"
    BY <1>6 DEF Calls, TurnsToUndo, Decides, Accounts, LoadsForUndo, Goes, OutToWork, Out, NoAction
  <2>. QED
    BY <2>1 DEF FrameWord, Resolves
<1>. QED
  BY <1>1, <1>2, <1>3, <1>4, <1>5, <1>6 DEF SilentStep

(* and those that log as they go on. *)
LEMMA LoggedWord ==
    ASSUME TypeInv, AuthInv, WordInv, NEW p \in Proc, LoggedMove(p)
    PROVE  FrameWord(ledger', p, frame'[p])
<1>. DEFINE f == frame[p]  g == frame'[p]
<1>0. FrameAuth(ledger, f) /\ FrameWord(ledger, p, f)
  BY DEF AuthInv, WordInv
<1>1. CASE Proposes(p)
  <2>. DEFINE e == Entry("proposed", f.act, f.verdict)
  <2>1. /\ f.pc = "propose" /\ g.act = f.act /\ g.job = f.job /\ g.verdict = f.verdict
        /\ \/ g.pc = "deny"     /\ f.verdict = "deny"
           \/ g.pc = "snapshot" /\ f.verdict = "allow"
           \/ g.pc = "simulate" /\ f.verdict \notin {"deny", "allow"}
    BY <1>1 DEF Proposes, Goes, KeepsHand, At
  <2>2. f.job = "call"
    BY <1>0, <2>1 DEF FrameAuth, Fresh
  <2>3. e.act = f.act /\ e.kind = "proposed" /\ e.val = f.verdict
    BY DEF Entry
  <2>4. ExtendedByOne(e)
    BY <1>1, AppendsOne DEF Proposes, Adds
  <2>. HIDE DEF e
  <2>5. f.verdict \in {"allow", "simulate"} => Authorized(ledger', f.act)
    BY <2>3, <2>4, AuthorizedByLast DEF AuthorityKind, Authorizes
  <2>. QED
    BY <2>1, <2>2, <2>5 DEF FrameWord, Resolves
<1>2. CASE Simulates(p)
  <2>. DEFINE e == Entry("simulated", f.act, g.predicted)
  <2>1. /\ f.pc = "simulate" /\ g.act = f.act /\ g.job = f.job
        /\ \/ g.pc = "authorize"
           \/ g.pc \in {"escalate", "snapshot"} /\ f.verdict = "simulate"
    BY <1>2 DEF Simulates, KeepsHand, At
  <2>2. f.job = "call"
    BY <1>0, <2>1 DEF FrameAuth, Fresh
  <2>3. e.act = f.act /\ e.kind = "simulated"
    BY DEF Entry
  <2>4. ExtendedByOne(e)
    BY <1>2, AppendsOne DEF Simulates, Adds
  <2>. HIDE DEF e
  <2>5. f.verdict = "simulate" => Authorized(ledger', f.act)
    BY <1>0, <2>1, <2>3, <2>4, AuthorizedKept DEF FrameWord, AuthorityKind
  <2>. QED
    BY <2>1, <2>2, <2>5 DEF FrameWord, Resolves
<1>3. CASE IsApproved(p)
  <2>. DEFINE e == Entry("approved", f.act, None)
  <2>1. f.pc = "authorize" /\ g.act = f.act /\ g.job = f.job /\ g.pc = "snapshot"
    BY <1>3 DEF IsApproved, Goes, KeepsHand, At
  <2>2. f.job = "call"
    BY <1>0, <2>1 DEF FrameAuth, Fresh
  <2>3. e.act = f.act /\ e.kind = "approved"
    BY DEF Entry
  <2>4. ExtendedByOne(e)
    BY <1>3, AppendsOne DEF IsApproved, Adds
  <2>. HIDE DEF e
  <2>5. Authorized(ledger', f.act)
    BY <2>3, <2>4, AuthorizedByLast DEF AuthorityKind, Authorizes
  <2>. QED
    BY <2>1, <2>2, <2>5 DEF FrameWord, Resolves
<1>4. CASE IsReleased(p)
  <2>. DEFINE e == Entry("released", f.act, None)
  <2>1. g.act = f.act /\ g.pc = "snapshot"
    BY <1>4 DEF IsReleased, Goes, KeepsHand
  <2>2. e.act = f.act /\ e.kind = "released"
    BY DEF Entry
  <2>3. ExtendedByOne(e)
    BY <1>4, AppendsOne DEF IsReleased, Adds
  <2>. HIDE DEF e
  <2>4. Authorized(ledger', f.act) /\ Has(ledger', f.act, "released")
    BY <2>2, <2>3, AuthorizedByLast, HasAfter DEF AuthorityKind, Authorizes
  <2>. QED
    BY <2>1, <2>4 DEF FrameWord, Resolves
<1>5. ASSUME Escalates(p) \/ Prepares(p) \/ Commits(p) \/ ReportsDeviation(p)
      PROVE  FrameWord(ledger', p, g)
  <2>1. g.pc \notin {"discard", "gate", "ensure", "release", "simulate", "snapshot", "prepare"}
    BY <1>5 DEF Escalates, Prepares, Commits, ReportsDeviation, Goes
  <2>. QED
    BY <2>1 DEF FrameWord, Resolves
<1>. QED
  BY <1>1, <1>2, <1>3, <1>4, <1>5 DEF LoggedMove

(* A step of a process preserves the invariant when there is one operator. *)
LEMMA WordStep ==
    ASSUME OneOperator, TypeInv, AuthInv, WordInv, NEW p \in Proc, Step(p)
    PROVE  WordInv'
<1>1. Same(p)
  BY OthersSame
<1>2. FrameWord(ledger', p, frame'[p])
  BY SilentWord, LoggedWord DEF Step
<1>3. LedgerWord' /\ \A q \in Proc \ {p} : FrameWord(ledger', q, frame[q])
  <2>1. CASE ledger' = ledger
    BY <2>1 DEF WordInv, LedgerWord, HeldLast, NotedLate, ReadAlone
  <2>2. CASE OwnEntry(p)
    <3>1. PICK e : Appends(p, e)
      BY <2>2, OwnEntryAppends
    <3>. QED
      BY <3>1, LedgerWordAfter, OthersKeepWord
  <2>3. CASE OwnMark(p)
    <3>1. PICK kind, s : kind \in {"halted", "resumed", "rollback"} /\ Log(Mark(kind, s))
      BY <2>3 DEF OwnMark
    <3>. DEFINE e == Mark(kind, s)
    <3>2. Log(e) /\ e.act = None /\ e.kind \in {"halted", "resumed", "rollback"}
      BY <3>1 DEF Mark
    <3>. HIDE DEF e
    <3>3. LedgerWord'
      BY <3>2, LedgerWordMark DEF WordInv
    <3>4. ASSUME NEW q \in Proc \ {p} PROVE FrameWord(ledger', q, frame[q])
      <4>. DEFINE f == frame[q]
      <4>1. FrameWord(ledger, q, f) /\ ExtendedByOne(e)
        BY <3>2, AppendsOne DEF WordInv
      <4>2. f.pc \notin NoAction => f.act # None
        BY InHand, GatewayAssumption
      <4>3. Resolves(f) \/ f.pc \in {"simulate", "snapshot", "prepare"} => f.act # None
        BY <4>2 DEF Resolves, NoAction
      <4>4. Resolves(f) => Only(ledger', f.act, Unresolved)
        BY <3>2, <4>1, <4>3, OnlyAfter DEF FrameWord
      <4>5. \A k : Has(ledger, f.act, k) => Has(ledger', f.act, k)
        BY <4>1, HasAfter
      <4>6. f.pc \in {"simulate", "snapshot", "prepare"} /\ Authorized(ledger, f.act)
               => Authorized(ledger', f.act)
        BY <3>2, <4>1, AuthorizedKept DEF AuthorityKind
      <4>. QED
        BY <4>1, <4>4, <4>5, <4>6 DEF FrameWord
    <3>. QED
      BY <3>3, <3>4
  <2>. QED
    BY <2>1, <2>2, <2>3, StepAppends
<1>. QED
  BY <1>1, <1>2, <1>3 DEF WordInv, Same

(* So do the environment and a step that changes nothing. *)
LEMMA WordElse ==
    ASSUME WordInv, Environment \/ UNCHANGED vars
    PROVE  WordInv'
<1>1. ledger' = ledger
  BY DEF Environment, OutsideWrite, Crash, vars
<1>2. \A q \in Proc : frame'[q] = frame[q] \/ frame'[q].pc = "idle"
  <2>1. IdleFrame(None, 0).pc = "idle"
    BY DEF IdleFrame
  <2>. QED
    BY <2>1 DEF Environment, OutsideWrite, Crash, vars
<1>3. \A q \in Proc : FrameWord(ledger', q, frame'[q])
  BY <1>1, <1>2 DEF WordInv, FrameWord, Resolves
<1>. QED
  BY <1>1, <1>3 DEF WordInv, LedgerWord, HeldLast, NotedLate, ReadAlone

(* It holds at the start. *)
LEMMA WordInit == Init => WordInv
<1>. SUFFICES ASSUME Init PROVE WordInv
  OBVIOUS
<1>1. DOMAIN ledger = {}
  BY DEF Init
<1>2. \A p \in Proc : frame[p].pc = "idle"
  BY DEF Init, IdleFrame
<1>. QED
  BY <1>1, <1>2 DEF WordInv, LedgerWord, HeldLast, NotedLate, ReadAlone, FrameWord, Resolves,
     Has, Positions

(* With one operator at the outbox, the entries of an action that happened *)
(* say that it was authorized, whatever comes later (lifecycle.py          *)
(* summarize, the folds a proof of an action is read with).                *)
THEOREM HappenedIsAuthorized == OneOperator => (Spec => []HappenedAuthorized)
<1>. SUFFICES ASSUME OneOperator PROVE Spec => []HappenedAuthorized
  OBVIOUS
<1>1. TypeInv /\ AuthInv /\ WordInv /\ [Next]_vars => WordInv'
  <2>. SUFFICES ASSUME TypeInv, AuthInv, WordInv, [Next]_vars PROVE WordInv'
    OBVIOUS
  <2>1. ASSUME NEW p \in Proc, Begin(p) \/ Continue(p) PROVE WordInv'
    BY <2>1, Steps, WordStep
  <2>. QED
    BY <2>1, WordElse DEF Next
<1>2. TypeInv /\ LoggedInv /\ WordInv => HappenedAuthorized
  <2>. SUFFICES ASSUME TypeInv, LoggedInv, WordInv, NEW a \in used, Happened(ledger, a)
                PROVE  Authorized(ledger, a)
    BY DEF HappenedAuthorized
  <2>1. a \in Action
    BY DEF TypeInv, TypeOK
  <2>2. CASE Has(ledger, a, "committed")
    <3>1. Has(ledger, a, "prepared")
      BY <2>2 DEF LoggedInv, EntryLogged, Has, Positions
    <3>. QED
      BY <2>1, <3>1 DEF WordInv, LedgerWord
  <2>3. CASE Has(ledger, a, "read")
    <3>. DEFINE P == Positions(ledger, a, AuthorityKind)
    <3>1. Only(ledger, a, {"read"})
      BY <2>1, <2>3 DEF WordInv, LedgerWord, ReadAlone
    <3>2. P # {}
      BY <2>3 DEF Has, Positions, AuthorityKind
    <3>3. P \in SUBSET (0 .. Len(ledger)) /\ Len(ledger) \in Nat
      BY PositionsType DEF TypeInv, TypeOK
    <3>4. Max(P) \in P
      BY <3>2, <3>3, MaxOfBounded
    <3>5. ledger[Max(P)].kind = "read"
      BY <3>1, <3>4 DEF Positions, Only
    <3>. QED
      BY <3>2, <3>5 DEF Authorized, Authorizes
  <2>. QED
    BY <2>2, <2>3 DEF Happened
<1>. QED
  BY <1>1, <1>2, WordInit, Authority, PTL DEF Spec

-----------------------------------------------------------------------------
(***************************************************************************)
(* NoSilentDeviation: the frame of a call carries the preview that the     *)
(* ledger holds, also when the call was parked in between, so what commits *)
(* is compared with what was shown.                                        *)
(***************************************************************************)

SimulatedOnce ==
    \A i, j \in DOMAIN ledger :
       /\ ledger[i].kind = "simulated" /\ ledger[j].kind = "simulated"
       /\ ledger[i].act = ledger[j].act
       => i = j

Previewed(f) ==
    \/ f.pc \in {"escalate", "authorize", "gate", "release", "snapshot", "prepare", "run",
                 "observe", "commit", "account", "deviate"}
    \/ f.pc = "ensure" /\ f.job = "release"
Unpreviewed(f) ==
    \/ f.pc = "idle"
    \/ f.job = "call" /\ f.pc \in {"ensure", "decide", "read", "propose", "deny", "simulate"}
FramePreview(log, f) ==
    /\ Previewed(f) => f.predicted = EntryValue(log, f.act, "simulated")
    /\ Unpreviewed(f) => f.predicted = None

Differs(predicted, observed) == predicted # None /\ observed \in Value /\ predicted # observed
(* A commit that differs from its preview is reported, or about to be. *)
Reported(e) ==
    e.kind = "committed" /\ Differs(EntryValue(ledger, e.act, "simulated"), e.val)
       => \/ Has(ledger, e.act, "deviation")
          \/ \E p \in Proc : /\ frame[p].act = e.act /\ frame[p].reg = e.val
                             /\ frame[p].pc \in {"account", "deviate"}

PreviewInv ==
    /\ Spent
    /\ SimulatedOnce
    /\ \A p \in Proc : FramePreview(ledger, frame[p])
    /\ Untouched({"crash", "interrupt"}) => \A i \in DOMAIN ledger : Reported(ledger[i])

(* What the last entry of a kind says changes only with such an entry, *)
LEMMA EntryValueSame ==
    ASSUME TypeInv, NEW e, ExtendedByOne(e), NEW a, NEW kind, e.act = a => e.kind # kind
    PROVE  EntryValue(ledger', a, kind) = EntryValue(ledger, a, kind)
<1>1. Positions(ledger', a, {kind}) = Positions(ledger, a, {kind})
  BY PositionsSame
<1>2. LastPos(ledger', a, kind) = LastPos(ledger, a, kind)
  BY <1>1 DEF LastPos
<1>3. LastPos(ledger, a, kind) = 0 \/ LastPos(ledger, a, kind) \in DOMAIN ledger
  BY LastPosType DEF TypeInv, TypeOK
<1>4. CASE LastPos(ledger, a, kind) = 0
  BY <1>2, <1>4 DEF EntryValue
<1>5. CASE LastPos(ledger, a, kind) \in DOMAIN ledger
  <2>1. ledger'[LastPos(ledger, a, kind)] = ledger[LastPos(ledger, a, kind)]
    BY <1>5 DEF ExtendedByOne
  <2>. QED
    BY <1>2, <2>1 DEF EntryValue
<1>. QED
  BY <1>3, <1>4, <1>5

(* A position after all others is the last. *)
LEMMA MaxAdded ==
    ASSUME NEW n \in Nat, NEW P \in SUBSET (0 .. n)
    PROVE  Max(P \cup {n + 1}) = n + 1
<1>. DEFINE Q == P \cup {n + 1}  m == Max(Q)
<1>1. Q \in SUBSET (0 .. (n + 1)) /\ Q # {} /\ n + 1 \in Nat /\ n + 1 \in Q
  OBVIOUS
<1>2. \A i \in Q : i \in Nat /\ i <= n + 1
  BY <1>1
<1>. HIDE DEF Q
<1>3. m \in Q /\ m >= n + 1
  BY <1>1, MaxOfBounded
<1>. HIDE DEF m
<1>4. m = n + 1
  BY <1>1, <1>2, <1>3
<1>. QED
  BY <1>4 DEF m, Q

(* and is then what that entry says. *)
LEMMA EntryValueNew ==
    ASSUME TypeInv, NEW e, ExtendedByOne(e)
    PROVE  EntryValue(ledger', e.act, e.kind) = e.val
<1>. DEFINE P == Positions(ledger, e.act, {e.kind})
            Q == Positions(ledger', e.act, {e.kind})
            n == Len(ledger)
<1>1. P \in SUBSET (0 .. n) /\ n \in Nat
  BY PositionsType DEF TypeInv, TypeOK
<1>2. Q = P \cup (IF e.act = e.act /\ e.kind \in {e.kind} THEN {n + 1} ELSE {})
  BY PositionsAfter
<1>3. Q = P \cup {n + 1}
  BY <1>2
<1>4. ledger'[n + 1] = e
  BY DEF ExtendedByOne
<1>. HIDE DEF P, Q, n
<1>5. Max(Q) = n + 1
  BY <1>1, <1>3, MaxAdded
<1>6. LastPos(ledger', e.act, e.kind) = n + 1
  BY <1>3, <1>5 DEF LastPos, Q
<1>. QED
  BY <1>1, <1>4, <1>6 DEF EntryValue

(* Of a single entry the first position and the last are the same. *)
LEMMA PreviewIsFirst ==
    ASSUME TypeInv, SimulatedOnce, NEW a
    PROVE  LET i == FirstPos(ledger, a, "simulated")
           IN  EntryValue(ledger, a, "simulated") = IF i = 0 THEN None ELSE ledger[i].val
<1>. DEFINE i == FirstPos(ledger, a, "simulated")  j == LastPos(ledger, a, "simulated")
<1>1. /\ i = 0 <=> ~Has(ledger, a, "simulated")
      /\ i # 0 => i \in DOMAIN ledger /\ ledger[i].act = a /\ ledger[i].kind = "simulated"
  BY FirstPosType DEF TypeInv, TypeOK
<1>2. /\ j = 0 <=> ~Has(ledger, a, "simulated")
      /\ j # 0 => j \in DOMAIN ledger /\ ledger[j].act = a /\ ledger[j].kind = "simulated"
  BY LastPosType DEF TypeInv, TypeOK
<1>. HIDE DEF i
<1>3. i = j
  BY <1>1, <1>2 DEF SimulatedOnce
<1>. QED
  BY <1>3 DEF EntryValue, i

(* Only a simulation logs a preview, and only a commit a commit. *)
LEMMA WhoLogs ==
    ASSUME NEW p \in Proc, Step(p)
    PROVE  \/ ledger' = ledger
           \/ \E e : /\ Log(e)
                     /\ e.kind = "simulated" => Simulates(p)
                     /\ e.kind = "committed" => Commits(p)
<1>. DEFINE Fitting(e) == /\ Log(e)
                          /\ e.kind = "simulated" => Simulates(p)
                          /\ e.kind = "committed" => Commits(p)
<1>1. ASSUME NEW kind, NEW a, NEW v, Adds(kind, a, v),
             kind = "simulated" => Simulates(p), kind = "committed" => Commits(p)
      PROVE  \E e : Fitting(e)
  BY <1>1 DEF Adds, Entry
<1>2. CASE OutStep(p)
  <2>1. ASSUME NEW c \in Closer, Closes(p, c[1], c[2]) PROVE \E e : Fitting(e)
    <3>1. c[2] \notin {"simulated", "committed"}
      BY DEF Closer
    <3>. QED
      BY <1>1, <2>1, <3>1 DEF Closes
  <2>2. CASE Marks(p)
    <3>1. PICK kind, s : kind \in {"halted", "resumed", "rollback"} /\ Log(Mark(kind, s))
      BY <2>2 DEF Marks
    <3>2. Mark(kind, s).kind = kind
      BY DEF Mark
    <3>. QED
      BY <3>1, <3>2
  <2>. QED
    BY <1>2, <2>1, <2>2 DEF OutStep, Stops, Refused, KillsAll, ResumesAll, Unlinks, Still
<1>3. CASE SilentStep(p)
  BY <1>3 DEF SilentStep, Calls, PicksUp, TurnsToUndo, Jumps, PassesKillSwitch, Reads, Decides,
     Accounts, LoadsForUndo, Still
<1>4. CASE LoggedMove(p)
  <2>1. CASE Simulates(p)
    BY <1>1, <2>1 DEF Simulates
  <2>2. CASE Commits(p)
    BY <1>1, <2>2 DEF Commits
  <2>3. CASE Proposes(p) \/ Escalates(p) \/ IsApproved(p) \/ IsReleased(p) \/ Prepares(p)
    BY <1>1, <2>3 DEF Proposes, Escalates, IsApproved, IsReleased, Prepares
  <2>4. CASE ReportsDeviation(p)
    BY <1>1, <2>4 DEF ReportsDeviation
  <2>. QED
    BY <1>4, <2>1, <2>2, <2>3, <2>4 DEF LoggedMove
<1>. QED
  BY <1>2, <1>3, <1>4 DEF Step

(* A preview is logged by the owner of an action that has none. *)
LEMMA SimulatesOwn ==
    ASSUME TypeInv, AuthInv, NEW p \in Proc, Simulates(p)
    PROVE  /\ Owns(frame[p])
           /\ ~Has(ledger, frame[p].act, "simulated") /\ ~Has(ledger, frame[p].act, "prepared")
           /\ \E e : /\ ExtendedByOne(e) /\ e.kind = "simulated"
                     /\ e.act = frame[p].act /\ e.val = frame'[p].predicted
<1>1. FrameAuth(ledger, frame[p]) /\ frame[p].pc = "simulate"
  BY DEF AuthInv, Simulates, At
<1>2. Owns(frame[p]) /\ Only(ledger, frame[p].act, {"proposed"})
  BY <1>1 DEF FrameAuth, Owns, Fresh, SoFar
<1>3. ~Has(ledger, frame[p].act, "simulated") /\ ~Has(ledger, frame[p].act, "prepared")
  BY <1>2 DEF Only, Has, Positions
<1>. DEFINE e == Entry("simulated", frame[p].act, frame'[p].predicted)
<1>4. ExtendedByOne(e)
  BY AppendsOne DEF Simulates, Adds
<1>5. e.kind = "simulated" /\ e.act = frame[p].act /\ e.val = frame'[p].predicted
  BY DEF Entry
<1>. QED
  BY <1>2, <1>3, <1>4, <1>5

(* Of every other action the preview stays what it is. *)
LEMMA PreviewStays ==
    ASSUME TypeInv, AuthInv, NEW p \in Proc, Step(p), NEW a, Simulates(p) => a # frame[p].act
    PROVE  EntryValue(ledger', a, "simulated") = EntryValue(ledger, a, "simulated")
<1>1. CASE Simulates(p)
  <2>1. PICK e : ExtendedByOne(e) /\ e.act = frame[p].act
    BY <1>1, SimulatesOwn
  <2>. QED
    BY <1>1, <2>1, EntryValueSame
<1>2. ASSUME NEW e, Log(e), e.kind # "simulated"
      PROVE  EntryValue(ledger', a, "simulated") = EntryValue(ledger, a, "simulated")
  <2>1. ExtendedByOne(e)
    BY <1>2, AppendsOne
  <2>. QED
    BY <1>2, <2>1, EntryValueSame
<1>3. CASE ledger' = ledger
  BY <1>3
<1>. QED
  BY <1>1, <1>2, <1>3, WhoLogs

(* No action gets a second preview. *)
LEMMA SimulatedOnceStep ==
    ASSUME TypeInv, AuthInv, SimulatedOnce, NEW p \in Proc, Step(p)
    PROVE  SimulatedOnce'
<1>1. CASE ledger' = ledger
  BY <1>1 DEF SimulatedOnce
<1>2. ASSUME NEW e, Log(e), e.kind = "simulated" => Simulates(p) PROVE SimulatedOnce'
  <2>1. ExtendedByOne(e)
    BY <1>2, AppendsOne
  <2>2. e.kind = "simulated" => ~Has(ledger, e.act, "simulated")
    <3>. SUFFICES ASSUME e.kind = "simulated" PROVE ~Has(ledger, e.act, "simulated")
      OBVIOUS
    <3>1. PICK d : ExtendedByOne(d) /\ d.act = frame[p].act
      BY <1>2, SimulatesOwn
    <3>2. d = e
      BY <2>1, <3>1 DEF ExtendedByOne
    <3>. QED
      BY <1>2, <3>1, <3>2, SimulatesOwn
  <2>3. \A i \in DOMAIN ledger : ledger[i].kind = "simulated" => Has(ledger, ledger[i].act, "simulated")
    BY DEF Has, Positions
  <2>. QED
    BY <2>1, <2>2, <2>3 DEF ExtendedByOne, SimulatedOnce
<1>. QED
  BY <1>1, <1>2, WhoLogs

(* The others carry the preview that the ledger still holds. *)
LEMMA OthersKeepPreview ==
    ASSUME TypeInv, AuthInv, NEW p \in Proc, Step(p), NEW q \in Proc, q # p,
           FramePreview(ledger, frame[q])
    PROVE  FramePreview(ledger', frame[q])
<1>. DEFINE f == frame[q]
<1>. SUFFICES ASSUME Previewed(f)
              PROVE  EntryValue(ledger', f.act, "simulated") = EntryValue(ledger, f.act, "simulated")
  BY DEF FramePreview
<1>1. Owns(f) \/ Releases(f) \/ f.pc \in Late
  <2>1. FrameAuth(ledger, f)
    BY DEF AuthInv
  <2>. QED
    BY <2>1 DEF Previewed, FrameAuth, Owns, Releases, Fresh, Late
<1>2. Simulates(p) => f.act # frame[p].act
  BY <1>1, SimulatesOwn, OwnerAlone
<1>. QED
  BY <1>2, PreviewStays

(* And so does p after a silent step *)
LEMMA SilentPreview ==
    ASSUME TypeInv, AuthInv, SimulatedOnce, NEW p \in Proc, FramePreview(ledger, frame[p]),
           OutStep(p) \/ SilentStep(p)
    PROVE  FramePreview(ledger, frame'[p])
<1>. DEFINE f == frame[p]  g == frame'[p]
<1>0. FrameAuth(ledger, f)
  BY DEF AuthInv
<1>1. ASSUME Out(p) PROVE FramePreview(ledger, g)
  <2>1. ~Previewed(g) /\ (Unpreviewed(g) => g.pc = "idle")
    BY <1>1 DEF Out, NoAction, Previewed, Unpreviewed
  <2>2. g.pc = "idle" => g.predicted = None
    BY <1>1 DEF Out, FramePreview, Unpreviewed
  <2>. QED
    BY <2>1, <2>2 DEF FramePreview
<1>2. CASE OutStep(p)
  BY <1>1, <1>2 DEF OutStep, Stops, Refused, Marks, KillsAll, ResumesAll, Unlinks, Closes, OutToWork
<1>3. ASSUME NEW a \in Action, Calls(p, a) PROVE FramePreview(ledger, g)
  <2>1. g.predicted = None /\ g.pc = "ensure" /\ g.job = "call"
    BY <1>3 DEF Calls, At, FramePreview, Unpreviewed
  <2>. QED
    BY <2>1 DEF FramePreview, Previewed
<1>4. ASSUME NEW a \in Action, PicksUp(p, a) PROVE FramePreview(ledger, g)
  <2>1. CASE g.pc = "gate"
    <3>1. g.act = a /\ g.job = "release"
      BY <1>4, <2>1 DEF PicksUp
    <3>2. g.predicted = EntryValue(ledger, a, "simulated")
      BY <1>4, <2>1, PreviewIsFirst DEF PicksUp
    <3>. QED
      BY <2>1, <3>1, <3>2 DEF FramePreview, Unpreviewed
  <2>2. CASE g.pc # "gate"
    <3>1. g.pc = "discard"
      BY <1>4, <2>2 DEF PicksUp
    <3>. QED
      BY <3>1 DEF FramePreview, Previewed, Unpreviewed
  <2>. QED
    BY <2>1, <2>2
<1>5. CASE Jumps(p)
  <2>1. /\ g.job = f.job /\ g.act = f.act /\ g.predicted = f.predicted /\ <<f.pc, g.pc>> \in Jump
    BY <1>5 DEF Jumps, Goes, KeepsHand, At, Jump
  <2>2. Previewed(g) => Previewed(f)
    BY <2>1 DEF Jump, Previewed
  <2>3. ~Unpreviewed(g)
    BY <1>0, <2>1 DEF Jump, Unpreviewed, FrameAuth
  <2>. QED
    BY <2>1, <2>2, <2>3 DEF FramePreview
<1>6. CASE PassesKillSwitch(p)
  <2>1. /\ g.job = f.job /\ g.act = f.act /\ f.pc = "ensure" /\ g.predicted = f.predicted
        /\ f.job \in {"call", "release"}
        /\ g.pc = IF f.job = "call" THEN "decide" ELSE "release"
    BY <1>0, <1>6 DEF PassesKillSwitch, Goes, KeepsHand, At, FrameAuth
  <2>. QED
    BY <2>1 DEF FramePreview, Previewed, Unpreviewed
<1>7. CASE Reads(p)
  <2>1. /\ g.job = f.job /\ g.act = f.act /\ g.predicted = f.predicted
        /\ \/ f.pc = "snapshot" /\ g.pc = "prepare"
           \/ f.pc = "observe" /\ g.pc = "commit"
    BY <1>7 DEF Reads, KeepsHand, At
  <2>. QED
    BY <2>1 DEF FramePreview, Previewed, Unpreviewed
<1>8. CASE Decides(p)
  <2>1. /\ f.pc = "decide" /\ g.pc \in {"read", "propose"} /\ f.job = "call" /\ g.job = f.job
        /\ g.predicted = f.predicted
    BY <1>0, <1>8 DEF Decides, KeepsHand, At, FrameAuth, Fresh
  <2>. QED
    BY <2>1 DEF FramePreview, Previewed, Unpreviewed
<1>9. CASE Accounts(p)
  <2>1. CASE Goes(p, "account", "deviate")
    BY <2>1 DEF Goes, KeepsHand, At, FramePreview, Previewed, Unpreviewed
  <2>. QED
    BY <1>1, <1>9, <2>1 DEF Accounts, OutToWork
<1>10. CASE TurnsToUndo(p) \/ LoadsForUndo(p)
  BY <1>10 DEF TurnsToUndo, LoadsForUndo, FramePreview, Previewed, Unpreviewed
<1>. QED
  BY <1>2, <1>3, <1>4, <1>5, <1>6, <1>7, <1>8, <1>9, <1>10 DEF SilentStep

(* or one that is logged. *)
LEMMA LoggedPreview ==
    ASSUME TypeInv, AuthInv, NEW p \in Proc, FramePreview(ledger, frame[p]), LoggedMove(p)
    PROVE  FramePreview(ledger', frame'[p])
<1>. DEFINE f == frame[p]  g == frame'[p]
<1>0. FrameAuth(ledger, f)
  BY DEF AuthInv
<1>1. CASE Simulates(p)
  <2>1. PICK e : /\ ExtendedByOne(e) /\ e.kind = "simulated"
                 /\ e.act = f.act /\ e.val = g.predicted
    BY <1>1, SimulatesOwn
  <2>2. g.predicted = EntryValue(ledger', f.act, "simulated")
    BY <2>1, EntryValueNew
  <2>3. g.act = f.act /\ g.pc \in {"authorize", "escalate", "snapshot"}
    BY <1>1 DEF Simulates, KeepsHand
  <2>. QED
    BY <2>2, <2>3 DEF FramePreview, Unpreviewed
<1>2. CASE ~Simulates(p)
  <2>1. \A a : EntryValue(ledger', a, "simulated") = EntryValue(ledger, a, "simulated")
    BY <1>2, PreviewStays DEF Step
  <2>2. FramePreview(ledger, g)
    <3>1. CASE Proposes(p)
      <4>1. /\ f.pc = "propose" /\ g.job = f.job /\ g.act = f.act /\ g.predicted = f.predicted
            /\ g.pc \in {"deny", "snapshot", "simulate"}
        BY <3>1 DEF Proposes, Goes, KeepsHand, At
      <4>2. f.job = "call" /\ Only(ledger, f.act, {}) /\ f.predicted = None
        BY <1>0, <4>1 DEF FrameAuth, Fresh, Owns, SoFar, FramePreview, Unpreviewed
      <4>3. EntryValue(ledger, f.act, "simulated") = None
        BY <4>2, OnlyHas DEF EntryValue, LastPos
      <4>. QED
        BY <4>1, <4>2, <4>3 DEF FramePreview
    <3>2. CASE Escalates(p)
      <4>1. f.pc = "escalate" /\ g.act = f.act /\ g.predicted = f.predicted /\ g.pc = "authorize"
        BY <3>2 DEF Escalates, KeepsHand, At
      <4>. QED
        BY <4>1 DEF FramePreview, Previewed, Unpreviewed
    <3>3. CASE IsApproved(p) \/ IsReleased(p) \/ Prepares(p) \/ Commits(p)
      <4>1. /\ f.pc \in {"authorize", "release", "prepare", "commit"}
            /\ g.act = f.act /\ g.predicted = f.predicted
            /\ g.pc \in {"snapshot", "run", "account"}
        BY <3>3 DEF IsApproved, IsReleased, Prepares, Commits, Goes, KeepsHand, At
      <4>. QED
        BY <4>1 DEF FramePreview, Previewed, Unpreviewed
    <3>4. CASE ReportsDeviation(p)
      BY <3>4 DEF ReportsDeviation, Goes, FramePreview, Previewed, Unpreviewed
    <3>. QED
      BY <1>2, <3>1, <3>2, <3>3, <3>4 DEF LoggedMove
  <2>. QED
    BY <2>1, <2>2 DEF FramePreview
<1>. QED
  BY <1>1, <1>2

(* What happens leaves its mark on the budget. *)
LEMMA SpendTouches ==
    ASSUME TypeInv, Spent, NEW x \in Event, Spend(x)
    PROVE  budget'[x] # Budget[x]
<1>1. budget \in [Event -> Nat] /\ Budget[x] \in Nat
  BY GatewayAssumption DEF TypeInv, TypeOK
<1>2. budget[x] <= Budget[x]
  BY DEF Spent
<1>3. budget'[x] = budget[x] - 1 /\ budget[x] \in Nat
  BY <1>1 DEF Spend
<1>. QED
  BY <1>1, <1>2, <1>3

(* Where nothing was cut short until now, nothing is in this step either. *)
LEMMA UncutBefore ==
    ASSUME TypeInv, [Next]_vars, Spent, Untouched({"crash", "interrupt"})'
    PROVE  Untouched({"crash", "interrupt"}) /\ ~CutShort /\ ~Crash
<1>1. ASSUME NEW x \in {"crash", "interrupt"} PROVE x \in Event /\ Untouched({x}) /\ ~Spend(x)
  <2>1. x \in Event
    BY DEF Event
  <2>2. budget'[x] = Budget[x]
    BY DEF Untouched
  <2>3. Untouched({x})'
    BY <2>2 DEF Untouched
  <2>. QED
    BY <2>1, <2>2, <2>3, UntouchedBefore, SpendTouches
<1>2. Untouched({"crash", "interrupt"})
  BY <1>1 DEF Untouched
<1>. QED
  BY <1>1, <1>2 DEF CutShort, Crash

(* A commit that is not the one previewed is noted by the process that     *)
(* made it before that process turns to anything else.                     *)
LEMMA ReportedStep ==
    ASSUME TypeInv, LoggedInv, AuthInv, NEW p \in Proc, Step(p), ~CutShort,
           FramePreview(ledger, frame[p]), NEW i \in DOMAIN ledger, Reported(ledger[i])
    PROVE  Reported(ledger[i])'
<1>. DEFINE e == ledger[i]  f == frame[p]
<1>1. ledger'[i] = e /\ (\A k : Has(ledger, e.act, k) => Has(ledger', e.act, k))
  <2>1. ASSUME NEW d, Log(d)
        PROVE  ledger'[i] = e /\ (\A k : Has(ledger, e.act, k) => Has(ledger', e.act, k))
    <3>1. ExtendedByOne(d)
      BY <2>1, AppendsOne
    <3>2. ledger'[i] = e
      BY <3>1 DEF ExtendedByOne
    <3>. QED
      BY <3>1, <3>2, HasAfter
  <2>2. CASE ledger' = ledger
    BY <2>2
  <2>. QED
    BY <2>1, <2>2, WhoLogs
<1>. SUFFICES ASSUME e.kind = "committed",
                     Differs(EntryValue(ledger', e.act, "simulated"), e.val)
              PROVE  \/ Has(ledger', e.act, "deviation")
                     \/ \E q \in Proc : /\ frame'[q].act = e.act /\ frame'[q].reg = e.val
                                        /\ frame'[q].pc \in {"account", "deviate"}
  BY <1>1 DEF Reported
<1>2. EntryValue(ledger', e.act, "simulated") = EntryValue(ledger, e.act, "simulated")
  <2>1. Has(ledger, e.act, "prepared")
    BY DEF LoggedInv, EntryLogged
  <2>2. Simulates(p) => e.act # f.act
    BY <2>1, SimulatesOwn
  <2>. QED
    BY <2>2, PreviewStays
<1>3. \/ Has(ledger, e.act, "deviation")
      \/ \E q \in Proc : /\ frame[q].act = e.act /\ frame[q].reg = e.val
                         /\ frame[q].pc \in {"account", "deviate"}
  BY <1>2 DEF Reported
<1>4. CASE Has(ledger, e.act, "deviation")
  BY <1>1, <1>4
<1>5. ASSUME NEW q \in Proc, q # p, frame[q].act = e.act, frame[q].reg = e.val,
             frame[q].pc \in {"account", "deviate"}
      PROVE  /\ frame'[q].act = e.act /\ frame'[q].reg = e.val
             /\ frame'[q].pc \in {"account", "deviate"}
  BY <1>5, OthersSame DEF Same
<1>6. CASE f.act = e.act /\ f.reg = e.val /\ f.pc = "account"
  <2>1. Deviates(f)
    <3>1. f.predicted = EntryValue(ledger, e.act, "simulated")
      BY <1>6 DEF FramePreview, Previewed
    <3>2. f.predicted # None /\ f.reg \in Value /\ f.predicted # f.reg
      BY <1>2, <1>6, <3>1 DEF Differs
    <3>. QED
      BY <3>2, GatewayAssumption DEF Deviates
  <2>2. Accounts(p)
    <3>1. ~OutStep(p)
      BY <1>6 DEF OutStep, Stops, Refused, Marks, KillsAll, ResumesAll, Unlinks, Closes, Closer, At
    <3>2. ~LoggedMove(p)
      BY <1>6 DEF LoggedMove, Proposes, Simulates, Escalates, IsApproved, IsReleased, Prepares,
         Commits, ReportsDeviation, Goes, At
    <3>3. SilentStep(p) => Accounts(p)
      BY <1>6 DEF SilentStep, Calls, PicksUp, TurnsToUndo, Jumps, Jump, PassesKillSwitch, Reads,
         Decides, LoadsForUndo, Goes, At
    <3>. QED
      BY <3>1, <3>2, <3>3 DEF Step
  <2>3. Goes(p, "account", "deviate")
    BY <2>1, <2>2 DEF Accounts
  <2>. QED
    BY <1>6, <2>3 DEF Goes, KeepsHand
<1>7. CASE f.act = e.act /\ f.pc = "deviate"
  <2>1. Adds("deviation", f.act, None)
    <3>1. OutStep(p) => Adds("deviation", f.act, None)
      BY <1>7 DEF OutStep, Stops, Refused, Marks, KillsAll, ResumesAll, Unlinks, Closes, Closer, At
    <3>2. ~SilentStep(p)
      BY <1>7 DEF SilentStep, Calls, PicksUp, TurnsToUndo, Jumps, Jump, PassesKillSwitch, Reads,
         Decides, Accounts, LoadsForUndo, Goes, At
    <3>3. LoggedMove(p) => Adds("deviation", f.act, None)
      BY <1>7 DEF LoggedMove, Proposes, Simulates, Escalates, IsApproved, IsReleased, Prepares,
         Commits, ReportsDeviation, Goes, At
    <3>. QED
      BY <3>1, <3>2, <3>3 DEF Step
  <2>. DEFINE d == Entry("deviation", f.act, None)
  <2>2. ExtendedByOne(d)
    BY <2>1, AppendsOne DEF Adds
  <2>3. d.act = f.act /\ d.kind = "deviation"
    BY DEF Entry
  <2>. HIDE DEF d
  <2>4. Has(ledger', f.act, "deviation")
    BY <2>2, <2>3, HasAfter
  <2>. QED
    BY <1>7, <2>4
<1>. QED
  BY <1>3, <1>4, <1>5, <1>6, <1>7

(* A new commit is one its process is about to compare. *)
LEMMA ReportedNew ==
    ASSUME TypeInv, NEW p \in Proc, Step(p), NEW i \in DOMAIN ledger', i \notin DOMAIN ledger
    PROVE  Reported(ledger[i])'
<1>1. PICK e : Log(e) /\ (e.kind = "committed" => Commits(p))
  BY WhoLogs
<1>2. ledger'[i] = e
  BY <1>1, AppendsOne DEF ExtendedByOne
<1>3. e.kind = "committed" =>
         /\ frame'[p].act = e.act /\ frame'[p].reg = e.val
         /\ frame'[p].pc \in {"account", "deviate"}
  <2>. SUFFICES ASSUME e.kind = "committed"
                PROVE  /\ frame'[p].act = e.act /\ frame'[p].reg = e.val
                       /\ frame'[p].pc \in {"account", "deviate"}
    OBVIOUS
  <2>. DEFINE d == Entry("committed", frame[p].act, frame[p].reg)
  <2>1. Commits(p) /\ Log(d)
    BY <1>1 DEF Commits, Adds
  <2>2. d = e
    <3>1. ExtendedByOne(d) /\ ExtendedByOne(e)
      BY <1>1, <2>1, AppendsOne
    <3>. QED
      BY <3>1 DEF ExtendedByOne
  <2>3. d.act = frame[p].act /\ d.val = frame[p].reg
    BY DEF Entry
  <2>. QED
    BY <2>1, <2>2, <2>3 DEF Commits, Goes, KeepsHand
<1>. QED
  BY <1>2, <1>3 DEF Reported

(* A step of a process preserves the invariant, *)
LEMMA PreviewStep ==
    ASSUME TypeInv, LoggedInv, AuthInv, PreviewInv, [Next]_vars, NEW p \in Proc, Step(p)
    PROVE  PreviewInv'
<1>0. SimulatedOnce /\ Spent /\ \A q \in Proc : FramePreview(ledger, frame[q])
  BY DEF PreviewInv
<1>1. Spent' /\ SimulatedOnce'
  BY <1>0, SpentNext, SimulatedOnceStep
<1>2. ASSUME NEW q \in Proc PROVE FramePreview(ledger', frame'[q])
  <2>1. CASE q # p
    BY <1>0, <2>1, OthersKeepPreview, OthersSame DEF Same
  <2>2. CASE q = p /\ LoggedMove(p)
    BY <1>0, <2>2, LoggedPreview
  <2>3. CASE q = p /\ ~LoggedMove(p)
    <3>1. FramePreview(ledger, frame'[p])
      BY <1>0, <2>3, SilentPreview DEF Step
    <3>2. \A a : EntryValue(ledger', a, "simulated") = EntryValue(ledger, a, "simulated")
      BY <2>3, PreviewStays DEF LoggedMove
    <3>. QED
      BY <2>3, <3>1, <3>2 DEF FramePreview
  <2>. QED
    BY <2>1, <2>2, <2>3
<1>3. ASSUME Untouched({"crash", "interrupt"})', NEW i \in DOMAIN ledger'
      PROVE  Reported(ledger[i])'
  <2>1. Untouched({"crash", "interrupt"}) /\ ~CutShort
    BY <1>0, <1>3, UncutBefore
  <2>2. CASE i \in DOMAIN ledger
    BY <1>0, <2>1, <2>2, ReportedStep DEF PreviewInv
  <2>3. CASE i \notin DOMAIN ledger
    BY <1>3, <2>3, ReportedNew
  <2>. QED
    BY <2>2, <2>3
<1>. QED
  BY <1>1, <1>2, <1>3 DEF PreviewInv

(* and so does the environment, whose crash is what the property exempts. *)
LEMMA PreviewElse ==
    ASSUME TypeInv, PreviewInv, [Next]_vars, Environment \/ UNCHANGED vars
    PROVE  PreviewInv'
<1>1. ledger' = ledger
  BY DEF Environment, OutsideWrite, Crash, vars
<1>2. CASE frame' = frame
  <2>1. Untouched({"crash", "interrupt"})' => Untouched({"crash", "interrupt"})
    BY UncutBefore DEF PreviewInv
  <2>2. Spent'
    BY SpentNext DEF PreviewInv
  <2>. QED
    BY <1>1, <1>2, <2>1, <2>2 DEF PreviewInv, SimulatedOnce, Reported
<1>3. CASE Crash
  <2>1. ~Untouched({"crash", "interrupt"})'
    BY <1>3, UncutBefore DEF PreviewInv
  <2>2. Spent'
    BY SpentNext DEF PreviewInv
  <2>3. IdleFrame(None, 0).pc = "idle" /\ IdleFrame(None, 0).predicted = None
    BY DEF IdleFrame
  <2>4. \A q \in Proc : FramePreview(ledger', frame'[q])
    BY <1>3, <2>3 DEF Crash, FramePreview, Previewed
  <2>. QED
    BY <1>1, <2>1, <2>2, <2>4 DEF PreviewInv, SimulatedOnce
<1>. QED
  BY <1>2, <1>3 DEF Environment, OutsideWrite, vars

(* It holds at the start. *)
LEMMA PreviewInit == Init => PreviewInv
<1>. SUFFICES ASSUME Init PROVE PreviewInv
  OBVIOUS
<1>1. DOMAIN ledger = {}
  BY DEF Init
<1>2. \A p \in Proc : frame[p].pc = "idle" /\ frame[p].predicted = None
  BY DEF Init, IdleFrame
<1>3. Spent
  BY GatewayAssumption DEF Init, Spent
<1>. QED
  BY <1>1, <1>2, <1>3 DEF PreviewInv, SimulatedOnce, FramePreview, Previewed

(* While the host stays up, an outcome that is not the one previewed gets  *)
(* its deviation entry, or the call or the release that committed it is    *)
(* about to log one, also when the action was parked in between (core.py   *)
(* release, _commit, _check_deviation).                                    *)
THEOREM DeviationsShow == Spec => []NoSilentDeviation
<1>1. TypeInv /\ LoggedInv /\ AuthInv /\ PreviewInv /\ [Next]_vars => PreviewInv'
  <2>. SUFFICES ASSUME TypeInv, LoggedInv, AuthInv, PreviewInv, [Next]_vars PROVE PreviewInv'
    OBVIOUS
  <2>1. ASSUME NEW p \in Proc, Begin(p) \/ Continue(p) PROVE PreviewInv'
    BY <2>1, Steps, PreviewStep
  <2>. QED
    BY <2>1, PreviewElse DEF Next
<1>2. TypeInv /\ PreviewInv => NoSilentDeviation
  <2>. SUFFICES ASSUME TypeInv, PreviewInv, Untouched({"crash", "interrupt"}), NEW a \in used,
                       EntryValue(ledger, a, "simulated") \in Value,
                       EntryValue(ledger, a, "committed") \in Value,
                       EntryValue(ledger, a, "simulated") # EntryValue(ledger, a, "committed")
                PROVE  \/ Has(ledger, a, "deviation")
                       \/ \E p \in Proc : frame[p].act = a /\ frame[p].pc \in {"account", "deviate"}
    BY DEF NoSilentDeviation
  <2>. DEFINE i == LastPos(ledger, a, "committed")
  <2>1. None \notin Value
    BY GatewayAssumption
  <2>2. i # 0 => i \in DOMAIN ledger /\ ledger[i].act = a /\ ledger[i].kind = "committed"
    BY LastPosType DEF TypeInv, TypeOK
  <2>3. i # 0 /\ ledger[i].val = EntryValue(ledger, a, "committed")
    BY <2>1 DEF EntryValue
  <2>4. Differs(EntryValue(ledger, a, "simulated"), ledger[i].val)
    BY <2>1, <2>3 DEF Differs
  <2>. HIDE DEF i
  <2>5. Reported(ledger[i])
    BY <2>2, <2>3 DEF PreviewInv
  <2>. QED
    BY <2>2, <2>3, <2>4, <2>5 DEF Reported
<1>. QED
  BY <1>1, <1>2, PreviewInit, Authority, PTL DEF Spec

-----------------------------------------------------------------------------
(***************************************************************************)
(* BlastRadiusBounded: the destructive actions on the policy's word that   *)
(* have been counted, and those that were let through and are not counted  *)
(* yet, stay within the limit and one more for each other caller.          *)
(***************************************************************************)

ByPolicy == {"allow", "simulate"}
Committing == {"snapshot", "prepare", "run", "observe", "commit", "account"}

FrameConsent(log, f) ==
    /\ f.pc = "simulate" => f.verdict \notin {"deny", "allow"}
    /\ f.pc = "authorize" => f.verdict \notin ByPolicy
    /\ f.pc \in Committing =>
          \/ f.job = "release" /\ Has(log, f.act, "released")
          \/ f.job = "call" /\ (f.verdict \in ByPolicy \/ Has(log, f.act, "approved"))

(* Destructive calls of s that the policy has let through. *)
OnItsWay(s) ==
    {p \in Proc : /\ frame[p].job = "call" /\ frame[p].verdict \in ByPolicy
                  /\ frame[p].pc \in {"propose", "simulate"} \cup Committing
                  /\ Op[frame[p].act].ses = s /\ Op[frame[p].act].risk >= DESTRUCTIVE}
(* Those that have committed, except where the count is still to come. *)
Finished(s) ==
    {a \in AutoCommitted(s) :
       ~\E p \in Proc : frame[p].job = "call" /\ frame[p].pc = "account" /\ frame[p].act = a}

Limited == policy.max_destructive # NoLimit /\ Untouched({"crash", "interrupt"})
WithinRadius(s) ==
    /\ Cardinality(Finished(s)) <= stats[s].destructive
    /\ Cardinality(Finished(s)) + Cardinality(OnItsWay(s))
          <= policy.max_destructive + Cardinality(Callers) - 1
BlastInv ==
    /\ \A p \in Proc : FrameConsent(ledger, frame[p])
    /\ Limited => \A s \in Session : WithinRadius(s)

(* What is reached from a finite set is finite, and no larger. *)
LEMMA ReachedIsSmaller ==
    ASSUME NEW S, IsFiniteSet(S), NEW T, NEW f, \A t \in T : \E x \in S : f[x] = t
    PROVE  IsFiniteSet(T) /\ Cardinality(T) <= Cardinality(S)
           /\ Cardinality(T) \in Nat /\ Cardinality(S) \in Nat
<1>. DEFINE U == {x \in S : f[x] \in T}
            g == [x \in U |-> f[x]]
<1>1. IsFiniteSet(U) /\ Cardinality(U) <= Cardinality(S)
  <2>1. U \in SUBSET S
    OBVIOUS
  <2>. QED
    BY <2>1, FS_Subset
<1>2. g \in Surjection(U, T)
  BY DEF Surjection
<1>3. IsFiniteSet(T) /\ Cardinality(T) <= Cardinality(U)
  BY <1>1, <1>2, FS_Surjection
<1>4. Cardinality(S) \in Nat /\ Cardinality(T) \in Nat /\ Cardinality(U) \in Nat
  BY <1>1, <1>3, FS_CardinalityType
<1>. QED
  BY <1>1, <1>3, <1>4

(* The sets that are counted are finite. *)
LEMMA BlastFinite ==
    ASSUME TypeInv, NEW s
    PROVE  /\ IsFiniteSet(AutoCommitted(s)) /\ IsFiniteSet(Finished(s))
           /\ IsFiniteSet(OnItsWay(s)) /\ IsFiniteSet(Callers)
           /\ Cardinality(AutoCommitted(s)) \in Nat /\ Cardinality(Finished(s)) \in Nat
           /\ Cardinality(OnItsWay(s)) \in Nat /\ Cardinality(Callers) \in Nat
<1>1. IsFiniteSet(AutoCommitted(s))
  <2>. DEFINE f == [i \in DOMAIN ledger |-> ledger[i].act]
  <2>1. IsFiniteSet(DOMAIN ledger)
    <3>1. DOMAIN ledger = 1 .. Len(ledger) /\ Len(ledger) \in Nat
      BY DEF TypeInv, TypeOK
    <3>. QED
      BY <3>1, FS_Interval
  <2>2. \A a \in AutoCommitted(s) : \E i \in DOMAIN ledger : f[i] = a
    BY DEF AutoCommitted, Has, Positions
  <2>. HIDE DEF f
  <2>. QED
    BY <2>1, <2>2, ReachedIsSmaller
<1>2. Finished(s) \subseteq AutoCommitted(s) /\ OnItsWay(s) \subseteq Proc /\ Callers \subseteq Proc
  BY DEF Finished, OnItsWay, Callers
<1>3. IsFiniteSet(Finished(s)) /\ IsFiniteSet(OnItsWay(s)) /\ IsFiniteSet(Callers)
  BY <1>1, <1>2, ProcAssumption, FS_Subset
<1>. QED
  BY <1>1, <1>3, FS_CardinalityType

(* Below the limit the policy's word lets a destructive action through, *)
(* never at it.                                                         *)
LEMMA LetThroughBelowLimit ==
    ASSUME NEW a \in Action, Op[a].risk >= DESTRUCTIVE, policy.max_destructive # NoLimit,
           NEW st \in Stats, Decide(policy, Op[a], st) \in ByPolicy
    PROVE  policy.max_destructive \in Nat /\ st.destructive < policy.max_destructive
<1>1. /\ policy \in PolicyType(STRING) /\ Op[a].name \in STRING /\ Op[a].risk \in Risk
  BY GatewayAssumption DEF OpType
<1>. DEFINE v == BaseVerdict(policy, Op[a].name, Op[a].risk)
<1>2. v \in Verdict
  BY <1>1, BaseVerdictType
<1>3. Escalate(v) \notin ByPolicy
  BY <1>2, EscalateIsStricter DEF ByPolicy
<1>4. Op[a].risk # READ
  BY DEF READ, DESTRUCTIVE
<1>5. ~Reached(policy.max_destructive, st.destructive)
  <2>1. ~MustEscalate(policy, Op[a], st, v)
    BY <1>3, <1>4 DEF Decide, ByPolicy
  <2>. QED
    BY <2>1 DEF MustEscalate
<1>6. policy.max_destructive \in Nat /\ st.destructive \in Nat
  BY <1>1 DEF PolicyType, Stats
<1>. QED
  BY <1>5, <1>6 DEF Reached

(* Consent in the frames: what other processes have in hand keeps it, *)
LEMMA OthersKeepConsent ==
    ASSUME TypeInv, NEW p \in Proc, Step(p), NEW f, FrameConsent(ledger, f)
    PROVE  FrameConsent(ledger', f)
<1>1. \A k : Has(ledger, f.act, k) => Has(ledger', f.act, k)
  <2>1. ASSUME NEW d, Log(d) PROVE \A k : Has(ledger, f.act, k) => Has(ledger', f.act, k)
    <3>1. ExtendedByOne(d)
      BY <2>1, AppendsOne
    <3>. QED
      BY <3>1, HasAfter
  <2>. QED
    BY <2>1, WhoLogs
<1>. QED
  BY <1>1 DEF FrameConsent

(* and p has it after its own step. *)
LEMMA OwnConsent ==
    ASSUME TypeInv, NEW p \in Proc, RightJob(p), FrameConsent(ledger, frame[p]), Step(p)
    PROVE  FrameConsent(ledger', frame'[p])
<1>. DEFINE f == frame[p]  g == frame'[p]
<1>0. FrameConsent(ledger', f)
  BY OthersKeepConsent
<1>1. ASSUME g.pc \notin {"simulate", "authorize"} \cup Committing PROVE FrameConsent(ledger', g)
  BY <1>1 DEF FrameConsent
<1>2. CASE OutStep(p)
  <2>1. g.pc \in NoAction
    BY <1>2 DEF OutStep, Stops, Refused, Marks, KillsAll, ResumesAll, Unlinks, Closes, OutToWork, Out
  <2>. QED
    BY <1>1, <2>1 DEF NoAction, Committing
<1>3. ASSUME f.pc \in Committing, g.act = f.act, g.job = f.job, g.verdict = f.verdict,
             g.pc \notin {"simulate", "authorize"}
      PROVE  FrameConsent(ledger', g)
  BY <1>0, <1>3 DEF FrameConsent
<1>4. CASE SilentStep(p)
  <2>1. CASE Jumps(p)
    <3>1. /\ g.act = f.act /\ g.job = f.job /\ g.verdict = f.verdict /\ <<f.pc, g.pc>> \in Jump
      BY <2>1 DEF Jumps, Goes, KeepsHand, At, Jump
    <3>2. CASE f.pc = "run"
      BY <1>3, <3>1, <3>2 DEF Jump, Committing
    <3>3. CASE f.pc # "run"
      BY <1>1, <3>1, <3>3 DEF Jump, Committing
    <3>. QED
      BY <3>2, <3>3
  <2>2. CASE Reads(p)
    BY <1>3, <2>2 DEF Reads, KeepsHand, At, Committing
  <2>3. CASE ~Jumps(p) /\ ~Reads(p)
    <3>1. g.pc \notin {"simulate", "authorize"} \cup Committing
      BY <1>4, <2>3 DEF SilentStep, Calls, PicksUp, TurnsToUndo, PassesKillSwitch, Decides,
         Accounts, LoadsForUndo, Goes, OutToWork, Out, NoAction, Committing
    <3>. QED
      BY <1>1, <3>1
  <2>. QED
    BY <2>1, <2>2, <2>3
<1>5. CASE LoggedMove(p)
  <2>1. CASE Proposes(p)
    <3>1. /\ f.pc = "propose" /\ g.verdict = f.verdict /\ g.job = f.job
          /\ \/ g.pc = "deny"
             \/ g.pc = "snapshot" /\ f.verdict = "allow"
             \/ g.pc = "simulate" /\ f.verdict \notin {"deny", "allow"}
      BY <2>1 DEF Proposes, Goes, KeepsHand, At
    <3>2. f.job = "call"
      BY <3>1 DEF RightJob, CallLabel
    <3>. QED
      BY <3>1, <3>2 DEF FrameConsent, Committing, ByPolicy
  <2>2. CASE Simulates(p)
    <3>1. /\ f.pc = "simulate" /\ g.verdict = f.verdict /\ g.job = f.job
          /\ \/ g.pc = "authorize" /\ f.verdict # "simulate"
             \/ g.pc \in {"escalate", "snapshot"} /\ f.verdict = "simulate"
      BY <2>2 DEF Simulates, KeepsHand, At
    <3>2. f.job = "call" /\ f.verdict # "allow"
      BY <3>1 DEF RightJob, CallLabel, FrameConsent
    <3>. QED
      BY <3>1, <3>2 DEF FrameConsent, Committing, ByPolicy
  <2>3. CASE Escalates(p)
    <3>1. g.pc = "authorize" /\ g.verdict = "approve"
      BY <2>3 DEF Escalates
    <3>. QED
      BY <3>1 DEF FrameConsent, Committing, ByPolicy
  <2>4. ASSUME NEW kind, Adds(kind, f.act, None) PROVE Has(ledger', f.act, kind)
    <3>. DEFINE e == Entry(kind, f.act, None)
    <3>1. ExtendedByOne(e)
      BY <2>4, AppendsOne DEF Adds
    <3>2. e.act = f.act /\ e.kind = kind
      BY DEF Entry
    <3>. HIDE DEF e
    <3>. QED
      BY <3>1, <3>2, HasAfter
  <2>5. CASE IsApproved(p)
    <3>1. f.pc = "authorize" /\ g.pc = "snapshot" /\ g.act = f.act /\ g.job = f.job
      BY <2>5 DEF IsApproved, Goes, KeepsHand, At
    <3>2. f.job = "call" /\ Has(ledger', f.act, "approved")
      BY <2>4, <2>5, <3>1 DEF IsApproved, RightJob, CallLabel
    <3>. QED
      BY <3>1, <3>2 DEF FrameConsent, Committing
  <2>6. CASE IsReleased(p)
    <3>1. f.pc = "release" /\ g.pc = "snapshot" /\ g.act = f.act /\ g.job = f.job
      BY <2>6 DEF IsReleased, Goes, KeepsHand, At
    <3>2. f.job = "release" /\ Has(ledger', f.act, "released")
      BY <2>4, <2>6, <3>1 DEF IsReleased, RightJob
    <3>. QED
      BY <3>1, <3>2 DEF FrameConsent, Committing
  <2>7. CASE Prepares(p) \/ Commits(p)
    <3>1. /\ f.pc \in Committing /\ g.act = f.act /\ g.job = f.job /\ g.verdict = f.verdict
          /\ g.pc \notin {"simulate", "authorize"}
      BY <2>7 DEF Prepares, Commits, Goes, KeepsHand, At, Committing
    <3>. QED
      BY <1>3, <3>1
  <2>8. CASE ReportsDeviation(p)
    BY <1>1, <2>8 DEF ReportsDeviation, Goes, Committing
  <2>. QED
    BY <1>5, <2>1, <2>2, <2>3, <2>5, <2>6, <2>7, <2>8 DEF LoggedMove
<1>. QED
  BY <1>2, <1>4, <1>5 DEF Step

(* A destructive call comes on its way by the decision, and leaves it when *)
(* it is counted.                                                          *)
LEMMA WayStep ==
    ASSUME NEW p \in Proc, RightJob(p), FrameConsent(ledger, frame[p]), Step(p), NEW s
    PROVE  \A q \in OnItsWay(s)' :
              \/ q = p /\ Decides(p)
              \/ q \in OnItsWay(s) /\ (q = p => ~Accounts(p))
<1>. DEFINE f == frame[p]  g == frame'[p]
<1>1. ASSUME NEW q \in OnItsWay(s)', q # p PROVE q \in OnItsWay(s)
  BY <1>1, OthersSame DEF Same, OnItsWay
<1>2. ASSUME p \in OnItsWay(s)', ~Decides(p) PROVE p \in OnItsWay(s) /\ ~Accounts(p)
  <2>1. /\ g.job = "call" /\ g.verdict \in ByPolicy
        /\ g.pc \in {"propose", "simulate"} \cup Committing
        /\ Op[g.act].ses = s /\ Op[g.act].risk >= DESTRUCTIVE
    BY <1>2 DEF OnItsWay
  <2>2. ~OutStep(p)
    BY <2>1 DEF OutStep, Stops, Refused, Marks, KillsAll, ResumesAll, Unlinks, Closes, OutToWork,
       Out, NoAction, Committing
  <2>3. ~Accounts(p)
    BY <2>1 DEF Accounts, Goes, OutToWork, Out, NoAction, Committing
  <2>4. CASE SilentStep(p)
    <3>1. Jumps(p) \/ Reads(p)
      BY <1>2, <2>1, <2>3, <2>4 DEF SilentStep, Calls, PicksUp, TurnsToUndo, PassesKillSwitch,
         LoadsForUndo, Goes, Committing
    <3>2. /\ g.act = f.act /\ g.job = f.job /\ g.verdict = f.verdict
          /\ \/ <<f.pc, g.pc>> \in Jump
             \/ f.pc \in {"snapshot", "observe"}
      BY <3>1 DEF Jumps, Reads, Goes, KeepsHand, At, Jump
    <3>3. f.pc \in Committing
      BY <2>1, <3>2 DEF Jump, Committing
    <3>. QED
      BY <2>1, <2>3, <3>2, <3>3 DEF OnItsWay
  <2>5. CASE LoggedMove(p)
    <3>1. /\ g.act = f.act /\ g.job = f.job
          /\ \/ f.pc \in {"propose", "simulate", "prepare", "commit"} /\ g.verdict = f.verdict
             \/ f.pc \in {"authorize", "release"} /\ g.verdict = f.verdict
      BY <2>1, <2>5 DEF LoggedMove, Proposes, Simulates, Escalates, IsApproved, IsReleased,
         Prepares, Commits, ReportsDeviation, Goes, KeepsHand, At, Committing
    <3>2. f.pc \notin {"authorize", "release"}
      BY <2>1, <3>1 DEF RightJob, FrameConsent
    <3>. QED
      BY <2>1, <2>3, <3>1, <3>2 DEF OnItsWay, Committing
  <2>. QED
    BY <2>2, <2>4, <2>5 DEF Step
<1>. QED
  BY <1>1, <1>2

(* Who has left the step of the counters is counted. *)
LEMMA LeavesAccount ==
    ASSUME NEW p \in Proc, Step(p), At(p, "account"), ~CutShort
    PROVE  Accounts(p)
<1>1. ~OutStep(p) \/ Stops(p) \/ Marks(p)
  BY DEF OutStep, Refused, KillsAll, ResumesAll, Unlinks, Closes, Closer, At
<1>2. ~Stops(p) /\ ~Marks(p)
  BY DEF Stops, Marks
<1>3. ~LoggedMove(p)
  BY DEF LoggedMove, Proposes, Simulates, Escalates, IsApproved, IsReleased, Prepares, Commits,
     ReportsDeviation, Goes, At
<1>4. SilentStep(p) => Accounts(p)
  BY DEF SilentStep, Calls, PicksUp, TurnsToUndo, Jumps, Jump, PassesKillSwitch, Reads, Decides,
     LoadsForUndo, Goes, At
<1>. QED
  BY <1>1, <1>2, <1>3, <1>4 DEF Step

(* An action is finished when a destructive call on its way is counted. *)
LEMMA FinishedStep ==
    ASSUME TypeInv, NEW p \in Proc, FrameConsent(ledger, frame[p]), Step(p), ~CutShort, NEW s
    PROVE  \A a \in Finished(s)' :
              \/ a \in Finished(s)
              \/ a = frame[p].act /\ Accounts(p) /\ p \in OnItsWay(s)
<1>. DEFINE f == frame[p]  g == frame'[p]
<1>. SUFFICES ASSUME NEW a \in Finished(s)', a \notin Finished(s)
              PROVE  a = f.act /\ Accounts(p) /\ p \in OnItsWay(s)
  OBVIOUS
<1>1. /\ a \in Action /\ Op[a].ses = s /\ Op[a].risk >= DESTRUCTIVE
      /\ Has(ledger', a, "committed") /\ ~Consented(ledger', a)
      /\ ~\E q \in Proc : frame'[q].job = "call" /\ frame'[q].pc = "account" /\ frame'[q].act = a
  BY DEF Finished, AutoCommitted
<1>2. /\ Has(ledger, a, "approved") => Has(ledger', a, "approved")
      /\ Has(ledger, a, "released") => Has(ledger', a, "released")
      /\ Has(ledger, a, "committed") \/ (Commits(p) /\ f.act = a)
  <2>1. ASSUME NEW e, Log(e), e.kind = "committed" => Commits(p)
        PROVE  /\ Has(ledger, a, "approved") => Has(ledger', a, "approved")
               /\ Has(ledger, a, "released") => Has(ledger', a, "released")
               /\ Has(ledger, a, "committed") \/ (Commits(p) /\ f.act = a)
    <3>1. ExtendedByOne(e)
      BY <2>1, AppendsOne
    <3>2. Commits(p) => e.act = f.act
      <4>. SUFFICES ASSUME Commits(p) PROVE e.act = f.act
        OBVIOUS
      <4>. DEFINE d == Entry("committed", f.act, f.reg)
      <4>1. ExtendedByOne(d)
        BY AppendsOne DEF Commits, Adds
      <4>2. d = e
        BY <3>1, <4>1 DEF ExtendedByOne
      <4>3. d.act = f.act
        BY DEF Entry
      <4>. QED
        BY <4>2, <4>3
    <3>. QED
      BY <1>1, <2>1, <3>1, <3>2, HasAfter
  <2>2. CASE ledger' = ledger
    BY <1>1, <2>2
  <2>. QED
    BY <2>1, <2>2, WhoLogs
<1>3. ~Has(ledger, a, "approved") /\ ~Has(ledger, a, "released")
  BY <1>1, <1>2 DEF Consented
<1>4. CASE Commits(p) /\ f.act = a
  <2>1. f.pc = "commit" /\ g.pc = "account" /\ g.act = a /\ g.job = f.job
    BY <1>4 DEF Commits, Goes, KeepsHand, At
  <2>2. f.job = "call"
    BY <1>3, <1>4, <2>1 DEF FrameConsent, Committing
  <2>. QED
    BY <1>1, <2>1, <2>2
<1>5. CASE Has(ledger, a, "committed")
  <2>1. a \in AutoCommitted(s)
    BY <1>1, <1>3, <1>5 DEF AutoCommitted, Consented
  <2>2. PICK q \in Proc : frame[q].job = "call" /\ frame[q].pc = "account" /\ frame[q].act = a
    BY <2>1 DEF Finished
  <2>3. q = p
    BY <1>1, <2>2, OthersSame DEF Same
  <2>4. f.verdict \in ByPolicy
    BY <1>3, <2>2, <2>3 DEF FrameConsent, Committing
  <2>5. p \in OnItsWay(s)
    BY <1>1, <2>2, <2>3, <2>4 DEF OnItsWay, Committing
  <2>. QED
    BY <2>2, <2>3, <2>5, LeavesAccount DEF At
<1>. QED
  BY <1>2, <1>4, <1>5

(* The counter never falls, and it rises with a destructive call. *)
LEMMA CounterStep ==
    ASSUME TypeInv, NEW p \in Proc, Step(p), NEW s \in Session
    PROVE  /\ stats[s].destructive \in Nat /\ stats'[s].destructive \in Nat
           /\ stats'[s].destructive >= stats[s].destructive
           /\ Accounts(p) /\ p \in OnItsWay(s)
                 => stats'[s].destructive = stats[s].destructive + 1
<1>. DEFINE a == frame[p].act
<1>1. stats \in [Session -> Stats]
  BY DEF TypeInv, TypeOK
<1>2. stats[s].destructive \in Nat
  BY <1>1 DEF Stats
<1>3. CASE Accounts(p) /\ frame[p].job = "call"
  <2>1. a \in Action
    BY <1>3, InHand DEF Accounts, At, NoAction
  <2>2. Op[a].ses \in Session
    BY <2>1, GatewayAssumption DEF OpType
  <2>3. stats' = [stats EXCEPT ![Op[a].ses] = Counted(@, Op[a].risk)]
    BY <1>3 DEF Accounts
  <2>4. CASE Op[a].ses = s
    <3>1. stats'[s] = Counted(stats[s], Op[a].risk)
      BY <1>1, <2>2, <2>3, <2>4
    <3>2. stats'[s].destructive = stats[s].destructive + (IF Op[a].risk >= DESTRUCTIVE THEN 1 ELSE 0)
      BY <3>1 DEF Counted
    <3>3. p \in OnItsWay(s) => Op[a].risk >= DESTRUCTIVE
      BY DEF OnItsWay
    <3>. QED
      BY <1>2, <3>2, <3>3
  <2>5. CASE Op[a].ses # s
    <3>1. stats'[s] = stats[s]
      BY <1>1, <2>3, <2>5
    <3>2. p \notin OnItsWay(s)
      BY <2>5 DEF OnItsWay
    <3>. QED
      BY <1>2, <3>1, <3>2
  <2>. QED
    BY <2>4, <2>5
<1>4. CASE ~(Accounts(p) /\ frame[p].job = "call")
  <2>1. stats' = stats
    BY <1>4 DEF Step, OutStep, SilentStep, LoggedMove, Stops, Refused, Marks, KillsAll, ResumesAll,
       Unlinks, Closes, Still, Adds, Calls, PicksUp, TurnsToUndo, Jumps, PassesKillSwitch, Reads,
       Decides, Accounts, LoadsForUndo, Proposes, Simulates, Escalates, IsApproved, IsReleased,
       Prepares, Commits, ReportsDeviation
  <2>2. p \in OnItsWay(s) => frame[p].job = "call"
    BY DEF OnItsWay
  <2>. QED
    BY <1>2, <1>4, <2>1, <2>2
<1>. QED
  BY <1>3, <1>4

(* The sum in numbers: a step that finishes one takes one off its way. *)
LEMMA SumKept ==
    ASSUME NEW S, NEW T, NEW P, NEW Q, IsFiniteSet(S), IsFiniteSet(P),
           NEW d \in Nat, NEW e \in Nat, NEW b \in Int,
           Cardinality(S) <= d, Cardinality(S) + Cardinality(P) <= b,
           \/ T \subseteq S /\ Q \subseteq P /\ e >= d
           \/ \E n, p : T \subseteq S \cup {n} /\ p \in P /\ Q \subseteq P \ {p} /\ e = d + 1
    PROVE  Cardinality(T) <= e /\ Cardinality(T) + Cardinality(Q) <= b
<1>1. Cardinality(S) \in Nat /\ Cardinality(P) \in Nat
  BY FS_CardinalityType
<1>2. CASE T \subseteq S /\ Q \subseteq P /\ e >= d
  <2>1. /\ Cardinality(T) <= Cardinality(S) /\ Cardinality(T) \in Nat
        /\ Cardinality(Q) <= Cardinality(P) /\ Cardinality(Q) \in Nat
    BY <1>2, FS_Subset, FS_CardinalityType
  <2>. QED
    BY <1>1, <1>2, <2>1
<1>3. ASSUME NEW n, NEW p, T \subseteq S \cup {n}, p \in P, Q \subseteq P \ {p}, e = d + 1
      PROVE  Cardinality(T) <= e /\ Cardinality(T) + Cardinality(Q) <= b
  <2>1. /\ Cardinality(T) <= Cardinality(S) + 1 /\ Cardinality(T) \in Nat
    <3>1. IsFiniteSet(S \cup {n})
          /\ (Cardinality(S \cup {n}) = Cardinality(S) \/ Cardinality(S \cup {n}) = Cardinality(S) + 1)
      BY FS_AddElement
    <3>2. /\ Cardinality(T) <= Cardinality(S \cup {n}) /\ Cardinality(T) \in Nat
      BY <1>3, <3>1, FS_Subset, FS_CardinalityType
    <3>. QED
      BY <1>1, <3>1, <3>2
  <2>2. Cardinality(Q) <= Cardinality(P) - 1 /\ Cardinality(Q) \in Nat
    <3>1. IsFiniteSet(P \ {p}) /\ Cardinality(P \ {p}) = Cardinality(P) - 1
      BY <1>3, FS_RemoveElement
    <3>. QED
      BY <1>3, <3>1, FS_Subset, FS_CardinalityType
  <2>. QED
    BY <1>1, <1>3, <2>1, <2>2
<1>. QED
  BY <1>2, <1>3

(* So the bound is kept, and a decision is made far enough below it. *)
LEMMA RadiusStep ==
    ASSUME TypeInv, TypeInv', \A q \in Proc : RightJob(q)', NEW p \in Proc, RightJob(p),
           FrameConsent(ledger, frame[p]), Step(p), ~CutShort, policy.max_destructive # NoLimit,
           NEW s \in Session, WithinRadius(s)
    PROVE  WithinRadius(s)'
<1>. DEFINE S == Finished(s)  T == Finished(s)'  P == OnItsWay(s)  Q == OnItsWay(s)'
            d == stats[s].destructive  e == stats'[s].destructive
            c == Cardinality(Callers)  m == policy.max_destructive
<1>1. /\ IsFiniteSet(S) /\ IsFiniteSet(P) /\ IsFiniteSet(Callers)
      /\ Cardinality(S) \in Nat /\ Cardinality(P) \in Nat /\ c \in Nat
  BY BlastFinite
<1>2. m \in Nat
  BY GatewayAssumption DEF PolicyType
<1>3. /\ d \in Nat /\ e \in Nat /\ e >= d
      /\ Accounts(p) /\ p \in P => e = d + 1
  BY CounterStep
<1>4. /\ \A q \in Q : (q = p /\ Decides(p)) \/ (q \in P /\ (q = p => ~Accounts(p)))
      /\ \A a \in T : a \in S \/ (a = frame[p].act /\ Accounts(p) /\ p \in P)
  <2>1. \A q \in Q : (q = p /\ Decides(p)) \/ (q \in P /\ (q = p => ~Accounts(p)))
    BY WayStep
  <2>2. \A a \in T : a \in S \/ (a = frame[p].act /\ Accounts(p) /\ p \in P)
    BY FinishedStep
  <2>. QED
    BY <2>1, <2>2
<1>5. Cardinality(S) <= d /\ Cardinality(S) + Cardinality(P) <= m + c - 1
  BY DEF WithinRadius
<1>6. Cardinality(T) <= e /\ Cardinality(T) + Cardinality(Q) <= m + c - 1
  <2>1. CASE Decides(p) /\ p \in Q
    <3>1. ~Accounts(p)
      BY <2>1 DEF Decides, Accounts, At
    <3>2. d < m
      <4>1. /\ frame'[p].verdict \in ByPolicy /\ Op[frame[p].act].ses = s
            /\ Op[frame[p].act].risk >= DESTRUCTIVE
        BY <2>1 DEF OnItsWay, Decides, KeepsHand
      <4>2. Decide(policy, Op[frame[p].act], stats[s]) \in ByPolicy
        BY <2>1, <4>1 DEF Decides
      <4>3. frame[p].act \in Action
        BY <2>1, InHand DEF Decides, At, NoAction
      <4>4. stats[s] \in Stats
        BY DEF TypeInv, TypeOK
      <4>. QED
        BY <4>1, <4>2, <4>3, <4>4, LetThroughBelowLimit
    <3>3. T \subseteq S /\ Q \subseteq Callers
      BY <1>4, <3>1 DEF OnItsWay, Callers, RightJob
    <3>. HIDE DEF S, T, P, Q, d, e, c, m
    <3>4. /\ Cardinality(T) <= Cardinality(S) /\ Cardinality(T) \in Nat
          /\ Cardinality(Q) <= Cardinality(Callers) /\ Cardinality(Q) \in Nat
      BY <1>1, <3>3, FS_Subset, FS_CardinalityType
    <3>5. Cardinality(Q) <= c
      BY <3>4 DEF c
    <3>. QED
      BY <1>1, <1>2, <1>3, <1>5, <3>2, <3>4, <3>5
  <2>2. CASE ~(Decides(p) /\ p \in Q)
    <3>1. \A q \in Q : q \in P /\ (q = p => ~Accounts(p))
      BY <1>4, <2>2
    <3>2. \/ T \subseteq S /\ Q \subseteq P /\ e >= d
          \/ \E n, q : T \subseteq S \cup {n} /\ q \in P /\ Q \subseteq P \ {q} /\ e = d + 1
      <4>1. CASE Accounts(p) /\ p \in P
        <5>1. T \subseteq S \cup {frame[p].act} /\ Q \subseteq P \ {p} /\ e = d + 1
          BY <1>3, <1>4, <3>1, <4>1
        <5>. HIDE DEF S, T, P, Q, d, e
        <5>. QED
          BY <4>1, <5>1
      <4>2. CASE ~(Accounts(p) /\ p \in P)
        BY <1>3, <1>4, <3>1, <4>2
      <4>. QED
        BY <4>1, <4>2
    <3>. DEFINE b == m + c - 1
    <3>3. b \in Int /\ Cardinality(S) + Cardinality(P) <= b
      BY <1>1, <1>2, <1>5
    <3>. HIDE DEF S, T, P, Q, d, e, c, m, b
    <3>4. Cardinality(T) <= e /\ Cardinality(T) + Cardinality(Q) <= b
      BY <1>1, <1>3, <1>5, <3>2, <3>3, SumKept
    <3>. QED
      BY <3>4 DEF b
  <2>. QED
    BY <2>1, <2>2
<1>. QED
  BY <1>6 DEF WithinRadius

(* What the processes do keeps the bound, *)
LEMMA BlastStep ==
    ASSUME TypeInv, TypeInv', HaltInv, BlastInv, [Next]_vars, NEW p \in Proc, Step(p)
    PROVE  BlastInv'
<1>1. RightJob(p) /\ FrameConsent(ledger, frame[p]) /\ Spent
  BY DEF HaltInv, BlastInv
<1>2. \A q \in Proc : FrameConsent(ledger', frame'[q])
  <2>1. ASSUME NEW q \in Proc, q # p PROVE FrameConsent(ledger', frame'[q])
    <3>1. frame'[q] = frame[q]
      BY <2>1, OthersSame DEF Same
    <3>2. FrameConsent(ledger, frame[q])
      BY DEF BlastInv
    <3>. QED
      BY <3>1, <3>2, OthersKeepConsent
  <2>2. FrameConsent(ledger', frame'[p])
    BY <1>1, OwnConsent
  <2>. QED
    BY <2>1, <2>2
<1>3. ASSUME Limited', NEW s \in Session PROVE WithinRadius(s)'
  <2>1. policy.max_destructive # NoLimit /\ Untouched({"crash", "interrupt"})'
    BY <1>3 DEF Limited
  <2>2. Untouched({"crash", "interrupt"}) /\ ~CutShort
    BY <1>1, <2>1, UncutBefore
  <2>3. WithinRadius(s)
    BY <2>1, <2>2 DEF BlastInv, Limited
  <2>4. \A q \in Proc : RightJob(q)'
    BY <1>1, RightJobs DEF HaltInv
  <2>. QED
    BY <1>1, <2>1, <2>2, <2>3, <2>4, RadiusStep
<1>. QED
  BY <1>2, <1>3 DEF BlastInv

(* and so does what happens around them. *)
LEMMA BlastElse ==
    ASSUME TypeInv, HaltInv, BlastInv, [Next]_vars, Environment \/ UNCHANGED vars
    PROVE  BlastInv'
<1>1. ledger' = ledger
  BY DEF Environment, OutsideWrite, Crash, vars
<1>2. CASE frame' = frame /\ stats' = stats
  <2>1. Untouched({"crash", "interrupt"})' => Untouched({"crash", "interrupt"})
    BY UncutBefore DEF HaltInv
  <2>2. Limited' => Limited
    BY <2>1 DEF Limited
  <2>. QED
    BY <1>1, <1>2, <2>2 DEF BlastInv, WithinRadius, Finished, AutoCommitted, OnItsWay
<1>3. CASE Crash
  <2>1. ~Limited'
    BY <1>3, UncutBefore DEF HaltInv, Limited
  <2>2. IdleFrame(None, 0).pc = "idle"
    BY DEF IdleFrame
  <2>3. \A q \in Proc : FrameConsent(ledger', frame'[q])
    BY <1>3, <2>2 DEF Crash, FrameConsent, Committing
  <2>. QED
    BY <2>1, <2>3 DEF BlastInv
<1>. QED
  BY <1>2, <1>3 DEF Environment, OutsideWrite, vars

(* The bound leaves room for one caller at the start. *)
LEMMA BlastInit == Init /\ TypeInv /\ Callers # {} => BlastInv
<1>. SUFFICES ASSUME Init, TypeInv, Callers # {} PROVE BlastInv
  OBVIOUS
<1>1. \A p \in Proc : frame[p].pc = "idle" /\ frame[p].job = "none"
  BY DEF Init, IdleFrame
<1>2. \A p \in Proc : FrameConsent(ledger, frame[p])
  BY <1>1 DEF FrameConsent, Committing
<1>3. ASSUME NEW s \in Session, Limited PROVE WithinRadius(s)
  <2>1. Finished(s) = {} /\ OnItsWay(s) = {}
    <3>1. DOMAIN ledger = {}
      BY DEF Init
    <3>2. Finished(s) = {}
      BY <3>1 DEF Finished, AutoCommitted, Has, Positions
    <3>3. OnItsWay(s) = {}
      BY <1>1 DEF OnItsWay
    <3>. QED
      BY <3>2, <3>3
  <2>2. Cardinality(Finished(s)) = 0 /\ Cardinality(OnItsWay(s)) = 0
    BY <2>1, FS_EmptySet
  <2>3. Cardinality(Callers) \in Nat /\ Cardinality(Callers) # 0
    BY BlastFinite, FS_EmptySet
  <2>4. stats[s].destructive \in Nat
    BY DEF TypeInv, TypeOK, Stats
  <2>5. policy.max_destructive \in Nat
    BY <1>3, GatewayAssumption DEF Limited, PolicyType
  <2>. QED
    BY <2>2, <2>3, <2>4, <2>5 DEF WithinRadius
<1>. QED
  BY <1>2, <1>3 DEF BlastInv

(* What has committed and is not finished is on its way. *)
LEMMA BlastIsBounded == TypeInv /\ BlastInv => BlastRadiusBounded
<1>. SUFFICES ASSUME TypeInv, BlastInv, Limited, NEW s \in Session
              PROVE  Cardinality(AutoCommitted(s)) <= policy.max_destructive + Cardinality(Callers) - 1
  BY DEF BlastRadiusBounded, Limited
<1>. DEFINE A == AutoCommitted(s)  F == Finished(s)  W == OnItsWay(s)  R == A \ F
            m == policy.max_destructive  c == Cardinality(Callers)
<1>1. /\ IsFiniteSet(A) /\ IsFiniteSet(F) /\ IsFiniteSet(W)
      /\ Cardinality(A) \in Nat /\ Cardinality(F) \in Nat /\ Cardinality(W) \in Nat /\ c \in Nat
  BY BlastFinite
<1>2. m \in Nat
  BY GatewayAssumption DEF Limited, PolicyType
<1>3. Cardinality(F) + Cardinality(W) <= m + c - 1
  BY DEF BlastInv, WithinRadius
<1>4. IsFiniteSet(R) /\ Cardinality(R) <= Cardinality(W) /\ Cardinality(R) \in Nat
  <2>. DEFINE f == [p \in Proc |-> frame[p].act]
  <2>1. \A a \in R : \E p \in W : f[p] = a
    <3>. SUFFICES ASSUME NEW a \in R PROVE \E p \in W : f[p] = a
      OBVIOUS
    <3>1. PICK p \in Proc : frame[p].job = "call" /\ frame[p].pc = "account" /\ frame[p].act = a
      BY DEF Finished
    <3>2. Op[a].ses = s /\ Op[a].risk >= DESTRUCTIVE /\ ~Has(ledger, a, "approved")
      BY DEF AutoCommitted, Consented
    <3>3. frame[p].verdict \in ByPolicy
      BY <3>1, <3>2 DEF BlastInv, FrameConsent, Committing
    <3>4. p \in W
      BY <3>1, <3>2, <3>3 DEF OnItsWay, Committing
    <3>. QED
      BY <3>1, <3>4
  <2>. HIDE DEF f, R, W
  <2>. QED
    BY <1>1, <2>1, ReachedIsSmaller
<1>5. A = F \cup R /\ F \cap R = {}
  BY DEF Finished
<1>6. Cardinality(A) = Cardinality(F) + Cardinality(R)
  <2>. HIDE DEF A, F, R
  <2>1. Cardinality(F \cup R) = Cardinality(F) + Cardinality(R) - Cardinality(F \cap R)
    BY <1>1, <1>4, FS_Union
  <2>2. Cardinality(F \cap R) = 0
    BY <1>5, FS_EmptySet
  <2>. QED
    BY <1>1, <1>4, <1>5, <2>1, <2>2
<1>. HIDE DEF A, F, R, W, m, c
<1>7. Cardinality(A) <= m + c - 1
  BY <1>1, <1>2, <1>3, <1>4, <1>6
<1>. QED
  BY <1>7 DEF A, m, c

(* While the host stays up, the destructive actions that committed on the  *)
(* policy's word exceed the limit of the policy by at most one for every   *)
(* other process that makes calls: the counters are read when a call is    *)
(* decided and written when it has committed (policy.py decide, core.py    *)
(* _execute, _commit).                                                     *)
THEOREM BlastRadius == Callers # {} => (Spec => []BlastRadiusBounded)
<1>. SUFFICES ASSUME Callers # {} PROVE Spec => []BlastRadiusBounded
  OBVIOUS
<1>1. Init /\ TypeInv => BlastInv
  BY BlastInit
<1>2. TypeInv /\ TypeInv' /\ HaltInv /\ BlastInv /\ [Next]_vars => BlastInv'
  <2>. SUFFICES ASSUME TypeInv, TypeInv', HaltInv, BlastInv, [Next]_vars PROVE BlastInv'
    OBVIOUS
  <2>1. ASSUME NEW p \in Proc, Begin(p) \/ Continue(p) PROVE BlastInv'
    <3>1. Step(p)
      BY <2>1, Steps
    <3>. QED
      BY <3>1, BlastStep
  <2>. QED
    BY <2>1, BlastElse DEF Next
<1>3. TypeInv /\ BlastInv => BlastRadiusBounded
  BY BlastIsBounded
<1>. QED
  BY <1>1, <1>2, <1>3, Halting, PTL DEF Spec

-----------------------------------------------------------------------------
(***************************************************************************)
(* LifecycleRespected.  A method checks the status of its action once and  *)
(* appends later, so the diagram is kept as long as no two of them are in  *)
(* the middle of the same action (two operators at one held action, two    *)
(* undos, or an undo of what still runs are what breaks it).  Then the     *)
(* label of a frame tells the status of its action: StatusInv.             *)
(***************************************************************************)

Midway(f) == f.pc \notin NoAction \cup {"account", "deviate", "halt", "undo"}
OneHand ==
    \A p, q \in Proc :
       p # q /\ Midway(frame[p]) /\ Midway(frame[q]) => frame[p].act # frame[q].act

StatusAt(f) ==
    CASE f.pc \in {"decide", "read", "propose"} -> {"unknown"}
      [] f.pc = "ensure" -> IF f.job = "call" THEN {"unknown"} ELSE {"held"}
      [] f.pc \in {"deny", "simulate", "escalate", "authorize"} -> {"proposed"}
      [] f.pc \in {"snapshot", "prepare"} -> {"proposed", "released"}
      [] f.pc \in {"run", "fail", "observe", "commit"} -> {"in_flight"}
      [] f.pc \in {"gate", "release", "discard"} -> {"held"}
      [] OTHER -> UNDOABLE
FrameStatus(log, f) == Midway(f) => StatusOf(log, f.act) \in StatusAt(f)
StatusInv == \A p \in Proc : FrameStatus(ledger, frame[p])

(* An entry that tells no status, or is about another action, leaves the   *)
(* status alone.                                                           *)
LEMMA StatusSame ==
    ASSUME TypeInv, NEW e, ExtendedByOne(e), NEW a, e.act = a => e.kind \notin StatusKind
    PROVE  /\ StatusOf(ledger', a) = StatusOf(ledger, a)
           /\ Positions(ledger', a, StatusKind) = Positions(ledger, a, StatusKind)
<1>. DEFINE P == Positions(ledger, a, StatusKind)
<1>1. Positions(ledger', a, StatusKind) = P
  BY PositionsSame
<1>2. CASE P = {}
  BY <1>1, <1>2 DEF StatusOf
<1>3. CASE P # {}
  <2>1. P \in SUBSET (0 .. Len(ledger)) /\ Len(ledger) \in Nat /\ P \subseteq DOMAIN ledger
    BY PositionsType DEF TypeInv, TypeOK
  <2>2. Max(P) \in DOMAIN ledger
    BY <1>3, <2>1, MaxOfBounded
  <2>3. ledger'[Max(P)] = ledger[Max(P)]
    BY <2>2 DEF ExtendedByOne
  <2>. HIDE DEF P
  <2>4. StatusOf(ledger, a) = STATUS_BY_KIND[ledger[Max(P)].kind]
    BY <1>3 DEF StatusOf, P
  <2>5. StatusOf(ledger', a) = STATUS_BY_KIND[ledger'[Max(P)].kind]
    BY <1>1, <1>3 DEF StatusOf, P
  <2>. QED
    BY <1>1, <2>3, <2>4, <2>5 DEF P
<1>. QED
  BY <1>2, <1>3

(* One that tells a status gives it. *)
LEMMA StatusNew ==
    ASSUME TypeInv, NEW e, ExtendedByOne(e), e.kind \in StatusKind
    PROVE  StatusOf(ledger', e.act) = STATUS_BY_KIND[e.kind]
<1>. DEFINE P == Positions(ledger, e.act, StatusKind)
            Q == Positions(ledger', e.act, StatusKind)
            n == Len(ledger)
<1>1. P \in SUBSET (0 .. n) /\ n \in Nat
  BY PositionsType DEF TypeInv, TypeOK
<1>2. Q = P \cup (IF e.act = e.act /\ e.kind \in StatusKind THEN {n + 1} ELSE {})
  BY PositionsAfter
<1>. HIDE DEF P, Q
<1>3. Q = P \cup {n + 1}
  BY <1>2
<1>4. Max(Q) = n + 1 /\ Q # {}
  BY <1>1, <1>3, MaxAdded
<1>5. ledger'[n + 1] = e
  BY DEF ExtendedByOne
<1>6. StatusOf(ledger', e.act) = STATUS_BY_KIND[ledger'[Max(Q)].kind]
  BY <1>4 DEF StatusOf, Q
<1>. QED
  BY <1>4, <1>5, <1>6

(* What no entry tells of is unknown. *)
LEMMA StatusUnknown ==
    ASSUME GivenOut, NEW a, a # None, a \notin used
    PROVE  StatusOf(ledger, a) = "unknown"
BY DEF GivenOut, StatusOf, Positions

(* The entry of a process in the middle of an action moves the action      *)
(* along an edge, or tells no status.                                      *)
LEMMA WriteIsEdge ==
    ASSUME NEW p \in Proc, RightJob(p), FrameStatus(ledger, frame[p]),
           NEW w \in Writes, At(p, w[1]), w[2] \in StatusKind
    PROVE  /\ Midway(frame[p])
           /\ <<StatusOf(ledger, frame[p].act), STATUS_BY_KIND[w[2]]>> \in StatusEdge
           /\ StatusOf(ledger, frame[p].act) # STATUS_BY_KIND[w[2]]
<1>. DEFINE f == frame[p]  st == StatusOf(ledger, f.act)
<1>. HIDE DEF st
<1>1. Midway(f) => st \in StatusAt(f)
  BY DEF FrameStatus, st
<1>2. f.pc = w[1]
  BY DEF At
<1>3. w \in {<<"read", "read">>, <<"deny", "denied">>, <<"authorize", "rejected">>,
             <<"authorize", "held">>, <<"snapshot", "failed">>, <<"fail", "failed">>,
             <<"discard", "discarded">>, <<"undone", "undone">>, <<"propose", "proposed">>,
             <<"release", "released">>, <<"prepare", "prepared">>, <<"commit", "committed">>}
  BY DEF Writes, Closer, StatusKind
<1>4. Midway(f)
  BY <1>2, <1>3 DEF Midway, NoAction
<1>5. CASE w[1] \in {"read", "propose"}
  <2>1. st = "unknown"
    BY <1>1, <1>2, <1>4, <1>5 DEF StatusAt
  <2>2. w[2] \in {"read", "proposed"}
    BY <1>3, <1>5
  <2>. QED
    BY <1>4, <2>1, <2>2 DEF STATUS_BY_KIND, StatusEdge, st
<1>6. CASE w[1] \in {"deny", "authorize"}
  <2>1. st = "proposed"
    BY <1>1, <1>2, <1>4, <1>6 DEF StatusAt
  <2>2. w[2] \in {"denied", "rejected", "held"}
    BY <1>3, <1>6
  <2>. QED
    BY <1>4, <2>1, <2>2 DEF STATUS_BY_KIND, StatusEdge, st
<1>7. CASE w[1] \in {"snapshot", "prepare"}
  <2>1. st \in {"proposed", "released"}
    BY <1>1, <1>2, <1>4, <1>7 DEF StatusAt
  <2>2. w[2] \in {"failed", "prepared"}
    BY <1>3, <1>7
  <2>. QED
    BY <1>4, <2>1, <2>2 DEF STATUS_BY_KIND, StatusEdge, st
<1>8. CASE w[1] \in {"fail", "commit"}
  <2>1. st = "in_flight"
    BY <1>1, <1>2, <1>4, <1>8 DEF StatusAt
  <2>2. w[2] \in {"failed", "committed"}
    BY <1>3, <1>8
  <2>. QED
    BY <1>4, <2>1, <2>2 DEF STATUS_BY_KIND, StatusEdge, st
<1>9. CASE w[1] \in {"release", "discard"}
  <2>1. st = "held"
    BY <1>1, <1>2, <1>4, <1>9 DEF StatusAt
  <2>2. w[2] \in {"released", "discarded"}
    BY <1>3, <1>9
  <2>. QED
    BY <1>4, <2>1, <2>2 DEF STATUS_BY_KIND, StatusEdge, st
<1>10. CASE w[1] = "undone"
  <2>1. st \in {"committed", "failed", "in_flight"}
    BY <1>1, <1>2, <1>4, <1>10 DEF StatusAt, UNDOABLE
  <2>2. w[2] = "undone"
    BY <1>3, <1>10
  <2>. QED
    BY <1>4, <2>1, <2>2 DEF STATUS_BY_KIND, StatusEdge, st
<1>. QED
  BY <1>3, <1>5, <1>6, <1>7, <1>8, <1>9, <1>10

(* So a step is one of the diagram. *)
LEMMA StepIsEdge ==
    ASSUME TypeInv, StatusInv, NEW p \in Proc, RightJob(p), Step(p)
    PROVE  LifecycleStep
<1>1. FrameStatus(ledger, frame[p])
  BY DEF StatusInv
<1>2. CASE ledger' = ledger
  BY <1>2 DEF LifecycleStep
<1>3. ASSUME NEW e, Log(e), e.act \in Action => e.kind \notin StatusKind PROVE LifecycleStep
  <2>1. ExtendedByOne(e)
    BY <1>3, AppendsOne
  <2>. QED
    BY <1>3, <2>1, StatusSame DEF LifecycleStep
<1>4. ASSUME NEW e, Log(e), e.kind \in StatusKind, e.act = frame[p].act,
             NEW w \in Writes, At(p, w[1]), w[2] = e.kind
      PROVE  LifecycleStep
  <2>1. ExtendedByOne(e)
    BY <1>4, AppendsOne
  <2>2. \A a \in Action \ {e.act} :
           /\ StatusOf(ledger', a) = StatusOf(ledger, a)
           /\ Positions(ledger', a, StatusKind) = Positions(ledger, a, StatusKind)
    BY <2>1, StatusSame
  <2>3. StatusOf(ledger', e.act) = STATUS_BY_KIND[e.kind]
    BY <1>4, <2>1, StatusNew
  <2>4. /\ <<StatusOf(ledger, e.act), STATUS_BY_KIND[e.kind]>> \in StatusEdge
        /\ StatusOf(ledger, e.act) # STATUS_BY_KIND[e.kind]
    BY <1>1, <1>4, WriteIsEdge
  <2>. QED
    BY <2>2, <2>3, <2>4 DEF LifecycleStep
<1>5. CASE OwnEntry(p)
  <2>1. PICK w \in Writes : At(p, w[1]) /\ \E v : Log(Entry(w[2], frame[p].act, v))
    BY <1>5 DEF OwnEntry
  <2>2. PICK v : Log(Entry(w[2], frame[p].act, v))
    BY <2>1
  <2>. DEFINE e == Entry(w[2], frame[p].act, v)
  <2>3. Log(e) /\ e.kind = w[2] /\ e.act = frame[p].act
    BY <2>2 DEF Entry
  <2>. HIDE DEF e
  <2>. QED
    BY <1>3, <1>4, <2>1, <2>3
<1>6. CASE OwnMark(p)
  <2>1. PICK kind, s : kind \in {"halted", "resumed", "rollback"} /\ Log(Mark(kind, s))
    BY <1>6 DEF OwnMark
  <2>. DEFINE e == Mark(kind, s)
  <2>2. Log(e) /\ e.kind \notin StatusKind
    BY <2>1 DEF Mark, StatusKind
  <2>. HIDE DEF e
  <2>. QED
    BY <1>3, <2>2
<1>. QED
  BY <1>2, <1>5, <1>6, StepAppends

(* Who is in the middle of another action sees its status unchanged. *)
LEMMA OthersKeepStatus ==
    ASSUME TypeInv, StatusInv, OneHand, NEW p \in Proc, RightJob(p), Step(p),
           NEW q \in Proc, q # p
    PROVE  FrameStatus(ledger', frame[q])
<1>. DEFINE f == frame[q]
<1>. SUFFICES ASSUME Midway(f) PROVE StatusOf(ledger', f.act) = StatusOf(ledger, f.act)
  BY DEF StatusInv, FrameStatus
<1>0. FrameStatus(ledger, frame[p])
  BY DEF StatusInv
<1>1. ASSUME NEW e, Log(e), e.act = f.act => e.kind \notin StatusKind
      PROVE  StatusOf(ledger', f.act) = StatusOf(ledger, f.act)
  BY <1>1, AppendsOne, StatusSame
<1>2. CASE OwnEntry(p)
  <2>1. PICK w \in Writes : At(p, w[1]) /\ \E v : Log(Entry(w[2], frame[p].act, v))
    BY <1>2 DEF OwnEntry
  <2>2. PICK v : Log(Entry(w[2], frame[p].act, v))
    BY <2>1
  <2>. DEFINE e == Entry(w[2], frame[p].act, v)
  <2>3. Log(e) /\ e.kind = w[2] /\ e.act = frame[p].act
    BY <2>2 DEF Entry
  <2>. HIDE DEF e
  <2>4. e.kind \in StatusKind => Midway(frame[p])
    BY <1>0, <2>1, <2>3, WriteIsEdge
  <2>5. e.kind \in StatusKind => e.act # f.act
    BY <2>3, <2>4 DEF OneHand
  <2>. QED
    BY <1>1, <2>3, <2>5
<1>3. CASE OwnMark(p)
  <2>1. PICK kind, s : kind \in {"halted", "resumed", "rollback"} /\ Log(Mark(kind, s))
    BY <1>3 DEF OwnMark
  <2>. DEFINE e == Mark(kind, s)
  <2>2. Log(e) /\ e.kind \notin StatusKind
    BY <2>1 DEF Mark, StatusKind
  <2>. HIDE DEF e
  <2>. QED
    BY <1>1, <2>2
<1>4. CASE ledger' = ledger
  BY <1>4
<1>. QED
  BY <1>2, <1>3, <1>4, StepAppends

(* The process's own label fits the status its step leaves. *)
LEMMA OwnStatus ==
    ASSUME TypeInv, GivenOut, NEW p \in Proc, RightJob(p), FrameStatus(ledger, frame[p]), Step(p)
    PROVE  FrameStatus(ledger', frame'[p])
<1>. DEFINE f == frame[p]  g == frame'[p]
<1>1. ASSUME g.pc \in NoAction \cup {"account", "deviate", "halt", "undo"}
      PROVE  FrameStatus(ledger', g)
  BY <1>1 DEF FrameStatus, Midway
<1>2. ASSUME ledger' = ledger, g.act = f.act, Midway(g) => Midway(f) /\ StatusAt(f) \subseteq StatusAt(g)
      PROVE  FrameStatus(ledger', g)
  BY <1>2 DEF FrameStatus
<1>3. CASE OutStep(p)
  <2>1. Out(p)
    BY <1>3 DEF OutStep, Stops, Refused, Marks, KillsAll, ResumesAll, Unlinks, Closes, OutToWork
  <2>. QED
    BY <1>1, <2>1 DEF Out
<1>4. CASE SilentStep(p)
  <2>1. ASSUME NEW a \in Action, Calls(p, a) PROVE FrameStatus(ledger', g)
    <3>1. StatusOf(ledger, a) = "unknown" /\ ledger' = ledger
      BY <2>1, StatusUnknown, GatewayAssumption DEF Calls
    <3>2. g.pc = "ensure" /\ g.job = "call" /\ g.act = a
      BY <2>1 DEF Calls
    <3>. QED
      BY <3>1, <3>2 DEF FrameStatus, StatusAt
  <2>2. ASSUME NEW a \in Action, PicksUp(p, a) PROVE FrameStatus(ledger', g)
    <3>1. g.pc \in {"gate", "discard"} /\ g.act = a /\ ledger' = ledger /\ StatusOf(ledger, a) = "held"
      BY <2>2 DEF PicksUp, Still
    <3>. QED
      BY <3>1 DEF FrameStatus, StatusAt
  <2>3. CASE TurnsToUndo(p)
    BY <1>1, <2>3 DEF TurnsToUndo
  <2>4. CASE Jumps(p)
    <3>2. /\ ledger' = ledger /\ g.act = f.act /\ g.job = f.job
          /\ \/ f.pc = "gate" /\ g.pc = "ensure"
             \/ f.pc = "run" /\ g.pc \in {"observe", "fail"}
             \/ f.pc \in {"check", "inverse"} /\ g.pc \in {"inverse", "undone", "undo_failed"}
      BY <2>4 DEF Jumps, Jump, Goes, KeepsHand, Still, At
    <3>3. CASE f.pc = "gate"
      <4>1. g.pc = "ensure" /\ g.job = "release"
        BY <3>2, <3>3 DEF RightJob
      <4>. QED
        BY <1>2, <3>2, <3>3, <4>1 DEF Midway, NoAction, StatusAt
    <3>4. CASE f.pc = "run"
      <4>1. g.pc \in {"observe", "fail"}
        BY <3>2, <3>4
      <4>. QED
        BY <1>2, <3>2, <3>4, <4>1 DEF Midway, NoAction, StatusAt
    <3>5. CASE f.pc \in {"check", "inverse"}
      <4>1. g.pc \in {"inverse", "undone", "undo_failed"}
        BY <3>2, <3>5
      <4>2. StatusAt(f) = UNDOABLE /\ StatusAt(g) = UNDOABLE
        BY <3>5, <4>1 DEF StatusAt
      <4>. QED
        BY <1>2, <3>2, <3>5, <4>1, <4>2 DEF Midway, NoAction
    <3>. QED
      BY <3>2, <3>3, <3>4, <3>5
  <2>5. CASE PassesKillSwitch(p)
    <3>1. /\ ledger' = ledger /\ g.act = f.act /\ f.pc = "ensure"
          /\ g.pc = IF f.job = "call" THEN "decide" ELSE "release"
      BY <2>5 DEF PassesKillSwitch, Goes, KeepsHand, Still, At
    <3>. QED
      BY <1>2, <3>1 DEF Midway, NoAction, StatusAt
  <2>6. CASE Reads(p)
    <3>1. /\ ledger' = ledger /\ g.act = f.act
          /\ \/ f.pc = "snapshot" /\ g.pc = "prepare"
             \/ f.pc = "observe" /\ g.pc = "commit"
      BY <2>6 DEF Reads, KeepsHand, Still, At
    <3>. QED
      BY <1>2, <3>1 DEF Midway, NoAction, StatusAt
  <2>7. CASE Decides(p)
    <3>1. ledger' = ledger /\ g.act = f.act /\ f.pc = "decide" /\ g.pc \in {"read", "propose"}
      BY <2>7 DEF Decides, KeepsHand, Still, At
    <3>. QED
      BY <1>2, <3>1 DEF Midway, NoAction, StatusAt
  <2>8. CASE Accounts(p)
    <3>1. g.pc = "deviate" \/ g.pc \in NoAction
      BY <2>8 DEF Accounts, Goes, OutToWork, Out, At
    <3>. QED
      BY <1>1, <3>1
  <2>9. CASE LoadsForUndo(p)
    <3>1. ledger' = ledger /\ g.act = f.act /\ g.pc \in {"check", "inverse"}
      BY <2>9 DEF LoadsForUndo, KeepsHand, Still
    <3>2. StatusOf(ledger, f.act) \in UNDOABLE
      BY <2>9 DEF LoadsForUndo, UndoAnswer
    <3>3. StatusAt(g) = UNDOABLE
      BY <3>1 DEF StatusAt
    <3>. QED
      BY <3>1, <3>2, <3>3 DEF FrameStatus
  <2>. QED
    BY <1>4, <2>1, <2>2, <2>3, <2>4, <2>5, <2>6, <2>7, <2>8, <2>9 DEF SilentStep
<1>5. CASE LoggedMove(p)
  <2>0. ASSUME NEW kind \in StatusKind, NEW v, Adds(kind, f.act, v), g.act = f.act,
               STATUS_BY_KIND[kind] \in StatusAt(g)
        PROVE  FrameStatus(ledger', g)
    <3>. DEFINE e == Entry(kind, f.act, v)
    <3>1. Log(e) /\ e.kind = kind /\ e.act = f.act
      BY <2>0 DEF Adds, Entry
    <3>. HIDE DEF e
    <3>. QED
      BY <2>0, <3>1, AppendsOne, StatusNew DEF FrameStatus
  <2>00. ASSUME NEW kind, kind \notin StatusKind, NEW v, Adds(kind, f.act, v), g.act = f.act,
                Midway(f), StatusAt(f) \subseteq StatusAt(g)
         PROVE  FrameStatus(ledger', g)
    <3>. DEFINE e == Entry(kind, f.act, v)
    <3>1. Log(e) /\ e.kind = kind
      BY <2>00 DEF Adds, Entry
    <3>. HIDE DEF e
    <3>2. StatusOf(ledger', f.act) = StatusOf(ledger, f.act)
      BY <2>00, <3>1, AppendsOne, StatusSame
    <3>. QED
      BY <2>00, <3>2 DEF FrameStatus
  <2>1. CASE Proposes(p)
    <3>1. Adds("proposed", f.act, f.verdict) /\ g.act = f.act /\ g.pc \in {"deny", "snapshot", "simulate"}
      BY <2>1 DEF Proposes, Goes, KeepsHand
    <3>2. STATUS_BY_KIND["proposed"] \in StatusAt(g) /\ "proposed" \in StatusKind
      BY <3>1 DEF STATUS_BY_KIND, StatusAt, StatusKind
    <3>. QED
      BY <2>0, <3>1, <3>2
  <2>2. CASE Simulates(p)
    <3>1. /\ Adds("simulated", f.act, g.predicted) /\ g.act = f.act
          /\ f.pc = "simulate" /\ g.pc \in {"authorize", "escalate", "snapshot"}
      BY <2>2 DEF Simulates, KeepsHand, At
    <3>2. Midway(f) /\ StatusAt(f) \subseteq StatusAt(g) /\ "simulated" \notin StatusKind
      BY <3>1 DEF Midway, NoAction, StatusAt, StatusKind
    <3>. QED
      BY <2>00, <3>1, <3>2
  <2>3. CASE Escalates(p)
    <3>1. Adds("escalated", f.act, "approve") /\ g.act = f.act /\ f.pc = "escalate" /\ g.pc = "authorize"
      BY <2>3 DEF Escalates, KeepsHand, At
    <3>2. Midway(f) /\ StatusAt(f) \subseteq StatusAt(g) /\ "escalated" \notin StatusKind
      BY <3>1 DEF Midway, NoAction, StatusAt, StatusKind
    <3>. QED
      BY <2>00, <3>1, <3>2
  <2>4. CASE IsApproved(p)
    <3>1. Adds("approved", f.act, None) /\ g.act = f.act /\ f.pc = "authorize" /\ g.pc = "snapshot"
      BY <2>4 DEF IsApproved, Goes, KeepsHand, At
    <3>2. Midway(f) /\ StatusAt(f) \subseteq StatusAt(g) /\ "approved" \notin StatusKind
      BY <3>1 DEF Midway, NoAction, StatusAt, StatusKind
    <3>. QED
      BY <2>00, <3>1, <3>2
  <2>5. CASE IsReleased(p)
    <3>1. Adds("released", f.act, None) /\ g.act = f.act /\ g.pc = "snapshot"
      BY <2>5 DEF IsReleased, Goes, KeepsHand
    <3>2. STATUS_BY_KIND["released"] \in StatusAt(g) /\ "released" \in StatusKind
      BY <3>1 DEF STATUS_BY_KIND, StatusAt, StatusKind
    <3>. QED
      BY <2>0, <3>1, <3>2
  <2>6. CASE Prepares(p)
    <3>1. Adds("prepared", f.act, f.reg) /\ g.act = f.act /\ g.pc = "run"
      BY <2>6 DEF Prepares, Goes, KeepsHand
    <3>2. STATUS_BY_KIND["prepared"] \in StatusAt(g) /\ "prepared" \in StatusKind
      BY <3>1 DEF STATUS_BY_KIND, StatusAt, StatusKind
    <3>. QED
      BY <2>0, <3>1, <3>2
  <2>7. CASE Commits(p)
    BY <1>1, <2>7 DEF Commits, Goes
  <2>8. CASE ReportsDeviation(p)
    BY <1>1, <2>8 DEF ReportsDeviation, Goes
  <2>. QED
    BY <1>5, <2>1, <2>2, <2>3, <2>4, <2>5, <2>6, <2>7, <2>8 DEF LoggedMove
<1>. QED
  BY <1>3, <1>4, <1>5 DEF Step

(* The environment and a step that changes nothing append nothing. *)
LEMMA StatusElse ==
    ASSUME StatusInv, Environment \/ UNCHANGED vars
    PROVE  StatusInv' /\ ledger' = ledger
<1>1. ledger' = ledger
  BY DEF Environment, OutsideWrite, Crash, vars
<1>2. \A q \in Proc : frame'[q] = frame[q] \/ frame'[q].pc = "idle"
  <2>1. IdleFrame(None, 0).pc = "idle"
    BY DEF IdleFrame
  <2>. QED
    BY <2>1 DEF Environment, OutsideWrite, Crash, vars
<1>. QED
  BY <1>1, <1>2 DEF StatusInv, FrameStatus, Midway, NoAction

(* An action is released or discarded while it is held. *)
LEMMA ResolvesHeld ==
    ASSUME TypeInv, StatusInv, NEW p \in Proc, RightJob(p), Step(p),
           ledger' # ledger, Appended.kind \in {"released", "discarded"}
    PROVE  StatusOf(ledger, Appended.act) = "held"
<1>1. \A e : Log(e) => e = Appended
  BY AppendsOne DEF ExtendedByOne, Appended
<1>2. ~OwnMark(p)
  <2>1. ASSUME NEW kind \in {"halted", "resumed", "rollback"}, NEW s, Log(Mark(kind, s)) PROVE FALSE
    BY <1>1, <2>1 DEF Mark
  <2>. QED
    BY <2>1 DEF OwnMark
<1>3. PICK w \in Writes : At(p, w[1]) /\ \E v : Log(Entry(w[2], frame[p].act, v))
  BY <1>2, StepAppends DEF OwnEntry
<1>4. Appended.kind = w[2] /\ Appended.act = frame[p].act
  BY <1>1, <1>3 DEF Entry
<1>5. w[1] \in {"release", "discard"}
  BY <1>4 DEF Writes, Closer
<1>6. frame[p].pc \in {"release", "discard"}
  BY <1>3, <1>5 DEF At
<1>7. Midway(frame[p]) /\ StatusAt(frame[p]) = {"held"}
  BY <1>6 DEF Midway, NoAction, StatusAt
<1>. QED
  BY <1>4, <1>7 DEF StatusInv, FrameStatus

(* The invariant of a step, and the diagram it keeps to. *)
LEMMA StatusStep ==
    ASSUME TypeInv, HaltInv, AuthInv, StatusInv, OneHand, [Next]_vars
    PROVE  /\ StatusInv' /\ [LifecycleStep]_ledger
           /\ ledger # ledger' /\ Appended.kind \in {"released", "discarded"}
                 => StatusOf(ledger, Appended.act) = "held"
<1>1. GivenOut /\ \A p \in Proc : RightJob(p)
  BY DEF AuthInv, HaltInv
<1>2. ASSUME NEW p \in Proc, Begin(p) \/ Continue(p)
      PROVE  /\ StatusInv' /\ LifecycleStep
             /\ ledger # ledger' /\ Appended.kind \in {"released", "discarded"}
                   => StatusOf(ledger, Appended.act) = "held"
  <2>1. Step(p)
    BY <1>2, Steps
  <2>2. FrameStatus(ledger', frame'[p])
    BY <1>1, <2>1, OwnStatus DEF StatusInv
  <2>3. \A q \in Proc : q # p => FrameStatus(ledger', frame'[q])
    BY <1>1, <2>1, OthersKeepStatus, OthersSame DEF Same
  <2>4. LifecycleStep
    BY <1>1, <2>1, StepIsEdge
  <2>5. ledger # ledger' /\ Appended.kind \in {"released", "discarded"}
           => StatusOf(ledger, Appended.act) = "held"
    BY <1>1, <2>1, ResolvesHeld
  <2>. QED
    BY <2>2, <2>3, <2>4, <2>5 DEF StatusInv
<1>. QED
  BY <1>2, StatusElse DEF Next

(* As long as no two methods are in the middle of the same action, every   *)
(* action goes through the diagram of lifecycle.py and is released, run    *)
(* and undone at most once, through crashes and failing hooks.             *)
THEOREM LifecycleKept == Spec /\ []OneHand => LifecycleRespected
<1>1. Init => StatusInv
  BY DEF Init, IdleFrame, StatusInv, FrameStatus, Midway, NoAction
<1>2. TypeInv /\ HaltInv /\ AuthInv /\ StatusInv /\ OneHand /\ [Next]_vars
         => StatusInv' /\ [LifecycleStep]_ledger
  BY StatusStep
<1>3. Spec => [](TypeInv /\ HaltInv /\ AuthInv)
  BY Halting, Authority, PTL
<1>. QED
  BY <1>1, <1>2, <1>3, PTL DEF Spec, LifecycleRespected

(* Then an action is released or discarded only while it is held, too: the *)
(* overlap of two operators is the only way to break it.                   *)
THEOREM HeldIsResolvedOnce == Spec /\ []OneHand => ResolvedWhileHeld
<1>1. Init => StatusInv
  BY DEF Init, IdleFrame, StatusInv, FrameStatus, Midway, NoAction
<1>2. TypeInv /\ HaltInv /\ AuthInv /\ StatusInv /\ OneHand /\ [Next]_vars
         => /\ StatusInv'
            /\ [ledger # ledger' /\ Appended.kind \in {"released", "discarded"}
                   => StatusOf(ledger, Appended.act) = "held"]_ledger
  BY StatusStep
<1>3. Spec => [](TypeInv /\ HaltInv /\ AuthInv)
  BY Halting, Authority, PTL
<1>. QED
  BY <1>1, <1>2, <1>3, PTL DEF Spec, ResolvedWhileHeld

-----------------------------------------------------------------------------
(***************************************************************************)
(* What a session leaves in the ledger goes through the diagram entry by   *)
(* entry: the premise under which Testgen takes recordings.  A deviation   *)
(* is logged by who committed, when nobody but an undo can have moved the  *)
(* action on.                                                              *)
(***************************************************************************)

AfterCommit(f) == f.pc \in {"account", "deviate"}
CommittedInv ==
    \A p \in Proc : AfterCommit(frame[p]) => StatusOf(ledger, frame[p].act) \in {"committed", "undone"}
DiagramInv == \A a \in Action : KeepsDiagram(ledger, a)

(* Once committed, an action is undone and no more. *)
LEMMA CommittedStays ==
    ASSUME LifecycleStep, NEW a \in Action, StatusOf(ledger, a) \in {"committed", "undone"}
    PROVE  StatusOf(ledger', a) \in {"committed", "undone"}
<1>. DEFINE old == StatusOf(ledger, a)
            new == StatusOf(ledger', a)
<1>1. old # new => <<old, new>> \in StatusEdge
  BY DEF LifecycleStep
<1>2. old \in {"committed", "undone"}
  OBVIOUS
<1>. HIDE DEF old, new
<1>3. old # new => new = "undone"
  BY <1>1, <1>2 DEF StatusEdge
<1>. QED
  BY <1>2, <1>3 DEF old, new

(* Only committing, and the counting after it, lead there. *)
LEMMA LeadsAfterCommit ==
    ASSUME NEW p \in Proc, Step(p), frame'[p].pc \in {"account", "deviate"}
    PROVE  Accounts(p) \/ Commits(p)
<1>. DEFINE g == frame'[p].pc
<1>1. g \notin NoAction
  BY DEF NoAction
<1>2. ~OutStep(p)
  BY <1>1 DEF OutStep, Stops, Refused, Marks, KillsAll, ResumesAll, Unlinks, Closes, OutToWork, Out
<1>3. ~(\E a \in Action : Calls(p, a) \/ PicksUp(p, a))
  BY DEF Calls, PicksUp
<1>4. ~TurnsToUndo(p) /\ ~Jumps(p) /\ ~Decides(p) /\ ~LoadsForUndo(p)
  BY DEF TurnsToUndo, Jumps, Jump, Goes, Decides, LoadsForUndo
<1>5. ~PassesKillSwitch(p) /\ ~Reads(p)
  BY DEF PassesKillSwitch, Goes, Reads
<1>6. ~Proposes(p) /\ ~Simulates(p) /\ ~Escalates(p) /\ ~IsApproved(p) /\ ~IsReleased(p) /\ ~Prepares(p)
  BY DEF Proposes, Simulates, Escalates, IsApproved, IsReleased, Prepares, Goes
<1>7. ~ReportsDeviation(p)
  BY DEF ReportsDeviation, Goes
<1>. QED
  BY <1>2, <1>3, <1>4, <1>5, <1>6, <1>7 DEF Step, SilentStep, LoggedMove

(* CommittedInv is kept by every step of the diagram. *)
LEMMA CommittedStep ==
    ASSUME TypeInv, HaltInv, AuthInv, StatusInv, OneHand, CommittedInv, [Next]_vars
    PROVE  CommittedInv'
<1>1. GivenOut /\ \A p \in Proc : RightJob(p)
  BY DEF AuthInv, HaltInv
<1>2. ASSUME NEW p \in Proc, Begin(p) \/ Continue(p) PROVE CommittedInv'
  <2>1. Step(p)
    BY <1>2, Steps
  <2>2. LifecycleStep
    BY <1>1, <2>1, StepIsEdge
  <2>. SUFFICES ASSUME NEW q \in Proc, AfterCommit(frame'[q])
                PROVE  StatusOf(ledger', frame'[q].act) \in {"committed", "undone"}
    BY DEF CommittedInv
  <2>3. ASSUME frame'[q].act = frame[q].act, AfterCommit(frame[q])
        PROVE  StatusOf(ledger', frame'[q].act) \in {"committed", "undone"}
    <3>1. frame[q].act \in Action
      BY <2>3, InHand DEF AfterCommit, NoAction
    <3>. QED
      BY <2>2, <2>3, <3>1, CommittedStays DEF CommittedInv
  <2>4. CASE q # p
    BY <2>1, <2>3, <2>4, OthersSame DEF Same
  <2>5. CASE q = p
    <3>. DEFINE f == frame[p]  g == frame'[p]
    <3>1. g.pc \in {"account", "deviate"}
      BY <2>5 DEF AfterCommit
    <3>2. CASE Accounts(p)
      <4>1. f.pc = "account" /\ g.act = f.act
        BY <3>1, <3>2 DEF Accounts, Goes, KeepsHand, OutToWork, Out, At, NoAction
      <4>. QED
        BY <2>3, <2>5, <4>1 DEF AfterCommit
    <3>3. CASE Commits(p)
      <4>. DEFINE e == Entry("committed", f.act, f.reg)
      <4>1. Log(e) /\ e.kind = "committed" /\ e.act = f.act /\ g.act = f.act
        BY <3>3 DEF Commits, Adds, Goes, KeepsHand, Entry
      <4>. HIDE DEF e
      <4>2. "committed" \in StatusKind /\ STATUS_BY_KIND["committed"] = "committed"
        BY DEF StatusKind, STATUS_BY_KIND
      <4>. QED
        BY <2>5, <4>1, <4>2, AppendsOne, StatusNew
    <3>4. Accounts(p) \/ Commits(p)
      BY <2>1, <3>1, LeadsAfterCommit
    <3>. QED
      BY <3>2, <3>3, <3>4
  <2>. QED
    BY <2>4, <2>5
<1>3. CASE Environment \/ UNCHANGED vars
  <2>1. ledger' = ledger
    BY <1>3, StatusElse
  <2>2. \A q \in Proc : frame'[q] = frame[q] \/ frame'[q].pc = "idle"
    <3>1. IdleFrame(None, 0).pc = "idle"
      BY DEF IdleFrame
    <3>. QED
      BY <1>3, <3>1 DEF Environment, OutsideWrite, Crash, vars
  <2>. QED
    BY <2>1, <2>2 DEF CommittedInv, AfterCommit
<1>. QED
  BY <1>2, <1>3 DEF Next

(* What stands in front of an entry that was there stays what it was.      *)
LEMMA BeforeStays ==
    ASSUME NEW e, ExtendedByOne(e), NEW a, NEW i \in DOMAIN ledger
    PROVE  StatusBefore(ledger', a, i) = StatusBefore(ledger, a, i)
<1>. DEFINE P == {j \in Positions(ledger, a, StatusKind) : j < i}
<1>1. {j \in Positions(ledger', a, StatusKind) : j < i} = P
  <2>1. Positions(ledger', a, StatusKind) =
           Positions(ledger, a, StatusKind)
              \cup (IF e.act = a /\ e.kind \in StatusKind THEN {Len(ledger) + 1} ELSE {})
    BY PositionsAfter
  <2>2. ~(Len(ledger) + 1 < i)
    BY DEF ExtendedByOne
  <2>. QED
    BY <2>1, <2>2
<1>2. P \in SUBSET (0 .. Len(ledger)) /\ P \subseteq DOMAIN ledger /\ Len(ledger) \in Nat
  BY DEF ExtendedByOne, Positions
<1>3. P # {} => ledger'[Max(P)] = ledger[Max(P)]
  <2>. SUFFICES ASSUME P # {} PROVE ledger'[Max(P)] = ledger[Max(P)]
    OBVIOUS
  <2>. HIDE DEF P
  <2>1. Max(P) \in P
    BY <1>2, MaxOfBounded
  <2>. QED
    BY <1>2, <2>1 DEF ExtendedByOne
<1>4. StatusBefore(ledger', a, i) = IF P = {} THEN "unknown" ELSE STATUS_BY_KIND[ledger'[Max(P)].kind]
  BY <1>1 DEF StatusBefore
<1>5. StatusBefore(ledger, a, i) = IF P = {} THEN "unknown" ELSE STATUS_BY_KIND[ledger[Max(P)].kind]
  BY DEF StatusBefore
<1>. QED
  BY <1>3, <1>4, <1>5

(* In front of the new entry is what the log told so far. *)
LEMMA BeforeNew ==
    ASSUME NEW e, ExtendedByOne(e), NEW a
    PROVE  StatusBefore(ledger', a, Len(ledger) + 1) = StatusOf(ledger, a)
<1>. DEFINE n == Len(ledger)
            P == Positions(ledger, a, StatusKind)
<1>1. {j \in Positions(ledger', a, StatusKind) : j < n + 1} = P
  <2>1. Positions(ledger', a, StatusKind) =
           P \cup (IF e.act = a /\ e.kind \in StatusKind THEN {n + 1} ELSE {})
    BY PositionsAfter
  <2>2. n \in Nat /\ P \subseteq 1 .. n
    BY DEF ExtendedByOne, Positions
  <2>3. \A j \in P : j \in Nat /\ j < n + 1
    BY <2>2
  <2>4. ~(n + 1 < n + 1)
    BY <2>2
  <2>. HIDE DEF P, n
  <2>. QED
    BY <2>1, <2>3, <2>4
<1>2. P \in SUBSET (0 .. n) /\ P \subseteq DOMAIN ledger /\ n \in Nat
  BY DEF ExtendedByOne, Positions
<1>3. P # {} => ledger'[Max(P)] = ledger[Max(P)]
  <2>. SUFFICES ASSUME P # {} PROVE ledger'[Max(P)] = ledger[Max(P)]
    OBVIOUS
  <2>. HIDE DEF P
  <2>1. Max(P) \in P
    BY <1>2, MaxOfBounded
  <2>. QED
    BY <1>2, <2>1 DEF ExtendedByOne
<1>4. StatusBefore(ledger', a, n + 1) = IF P = {} THEN "unknown" ELSE STATUS_BY_KIND[ledger'[Max(P)].kind]
  BY <1>1 DEF StatusBefore
<1>5. StatusOf(ledger, a) = IF P = {} THEN "unknown" ELSE STATUS_BY_KIND[ledger[Max(P)].kind]
  BY DEF StatusOf
<1>. QED
  BY <1>3, <1>4, <1>5

(* An entry that takes its action along an edge, or tells no status, keeps *)
(* the diagram.                                                            *)
LEMMA DiagramGrows ==
    ASSUME TypeInv, LifecycleStep, DiagramInv, NEW e, ExtendedByOne(e), NEW a \in Action,
           e.act = a /\ e.kind = "deviation" => StatusOf(ledger, a) \in {"committed", "undone"}
    PROVE  KeepsDiagram(ledger', a)
<1>. DEFINE n == Len(ledger)
<1>0. /\ n \in Nat /\ DOMAIN ledger = 1 .. n
      /\ \A i \in DOMAIN ledger : ledger'[i] = ledger[i]
      /\ ledger'[n + 1] = e
  BY DEF ExtendedByOne
<1>1. KeepsDiagram(ledger, a)
  BY DEF DiagramInv
<1>2. ASSUME NEW i \in Positions(ledger', a, StatusKind)
      PROVE  <<StatusBefore(ledger', a, i), STATUS_BY_KIND[ledger'[i].kind]>> \in StatusEdge
  <2>1. Positions(ledger', a, StatusKind) =
           Positions(ledger, a, StatusKind)
              \cup (IF e.act = a /\ e.kind \in StatusKind THEN {n + 1} ELSE {})
    BY PositionsAfter
  <2>2. CASE i \in Positions(ledger, a, StatusKind)
    <3>1. i \in DOMAIN ledger
      BY <2>2 DEF Positions
    <3>2. StatusBefore(ledger', a, i) = StatusBefore(ledger, a, i) /\ ledger'[i] = ledger[i]
      BY <1>0, <3>1, BeforeStays
    <3>3. <<StatusBefore(ledger, a, i), STATUS_BY_KIND[ledger[i].kind]>> \in StatusEdge
      BY <1>1, <2>2 DEF KeepsDiagram
    <3>. QED
      BY <3>2, <3>3
  <2>3. CASE i \notin Positions(ledger, a, StatusKind)
    <3>1. i = n + 1 /\ e.act = a /\ e.kind \in StatusKind
      BY <2>1, <2>3
    <3>2. StatusBefore(ledger', a, i) = StatusOf(ledger, a)
      BY <3>1, BeforeNew
    <3>3. StatusOf(ledger', a) = STATUS_BY_KIND[e.kind]
      BY <3>1, StatusNew
    <3>4. Positions(ledger', a, StatusKind) # Positions(ledger, a, StatusKind)
      BY <2>3
    <3>5. <<StatusOf(ledger, a), StatusOf(ledger', a)>> \in StatusEdge
      BY <3>4 DEF LifecycleStep
    <3>. QED
      BY <1>0, <3>1, <3>2, <3>3, <3>5
  <2>. QED
    BY <2>2, <2>3
<1>3. ASSUME NEW i \in Positions(ledger', a, {"deviation"})
      PROVE  StatusBefore(ledger', a, i) \in {"committed", "undone"}
  <2>1. Positions(ledger', a, {"deviation"}) =
           Positions(ledger, a, {"deviation"})
              \cup (IF e.act = a /\ e.kind \in {"deviation"} THEN {n + 1} ELSE {})
    BY PositionsAfter
  <2>2. CASE i \in Positions(ledger, a, {"deviation"})
    <3>1. i \in DOMAIN ledger
      BY <2>2 DEF Positions
    <3>2. StatusBefore(ledger', a, i) = StatusBefore(ledger, a, i)
      BY <3>1, BeforeStays
    <3>. QED
      BY <1>1, <2>2, <3>2 DEF KeepsDiagram
  <2>3. CASE i \notin Positions(ledger, a, {"deviation"})
    <3>1. i = n + 1 /\ e.act = a /\ e.kind = "deviation"
      BY <2>1, <2>3
    <3>. QED
      BY <3>1, BeforeNew
  <2>. QED
    BY <2>2, <2>3
<1>. QED
  BY <1>2, <1>3 DEF KeepsDiagram

(* So does every step. *)
LEMMA DiagramStep ==
    ASSUME TypeInv, HaltInv, AuthInv, StatusInv, OneHand, CommittedInv, DiagramInv, [Next]_vars
    PROVE  DiagramInv'
<1>1. GivenOut /\ \A p \in Proc : RightJob(p)
  BY DEF AuthInv, HaltInv
<1>2. CASE ledger' = ledger
  BY <1>2 DEF DiagramInv
<1>3. ASSUME NEW p \in Proc, Step(p), ledger' # ledger PROVE DiagramInv'
  <2>1. LifecycleStep
    BY <1>1, <1>3, StepIsEdge
  <2>2. ASSUME NEW e, Log(e),
               e.act \in Action /\ e.kind = "deviation" => StatusOf(ledger, e.act) \in {"committed", "undone"}
        PROVE  DiagramInv'
    <3>1. ExtendedByOne(e)
      BY <2>2, AppendsOne
    <3>2. \A a \in Action : KeepsDiagram(ledger', a)
      BY <2>1, <2>2, <3>1, DiagramGrows
    <3>. QED
      BY <3>2 DEF DiagramInv
  <2>3. CASE OwnEntry(p)
    <3>1. PICK w \in Writes : At(p, w[1]) /\ \E v : Log(Entry(w[2], frame[p].act, v))
      BY <2>3 DEF OwnEntry
    <3>2. PICK v : Log(Entry(w[2], frame[p].act, v))
      BY <3>1
    <3>. DEFINE e == Entry(w[2], frame[p].act, v)
    <3>3. Log(e) /\ e.kind = w[2] /\ e.act = frame[p].act
      BY <3>2 DEF Entry
    <3>. HIDE DEF e
    <3>4. w[2] = "deviation" => AfterCommit(frame[p])
      BY <3>1 DEF Writes, Closer, At, AfterCommit
    <3>. QED
      BY <2>2, <3>3, <3>4 DEF CommittedInv
  <2>4. CASE OwnMark(p)
    <3>1. PICK kind, s : kind \in {"halted", "resumed", "rollback"} /\ Log(Mark(kind, s))
      BY <2>4 DEF OwnMark
    <3>. DEFINE e == Mark(kind, s)
    <3>2. Log(e) /\ e.kind # "deviation"
      BY <3>1 DEF Mark
    <3>. HIDE DEF e
    <3>. QED
      BY <2>2, <3>2
  <2>. QED
    BY <1>3, <2>3, <2>4, StepAppends
<1>4. ASSUME NEW p \in Proc, Begin(p) \/ Continue(p) PROVE Step(p)
  BY <1>4, Steps
<1>. QED
  BY <1>2, <1>3, <1>4, StatusElse DEF Next

(* As long as no two methods are in the middle of the same action, what a  *)
(* gateway records of each action goes through the diagram of lifecycle.py *)
(* entry by entry: what Testgen assumes of the sessions it is given, and   *)
(* the importer's reading of them relies on.                               *)
THEOREM RecordingsKeepDiagram == Spec /\ []OneHand => [](\A a \in Action : KeepsDiagram(ledger, a))
<1>1. Init => StatusInv /\ CommittedInv /\ DiagramInv
  <2>1. Init => StatusInv /\ CommittedInv
    BY DEF Init, IdleFrame, StatusInv, FrameStatus, Midway, NoAction, CommittedInv, AfterCommit
  <2>2. Init => DiagramInv
    BY DEF Init, DiagramInv, KeepsDiagram, Positions
  <2>. QED
    BY <2>1, <2>2
<1>2. TypeInv /\ HaltInv /\ AuthInv /\ StatusInv /\ CommittedInv /\ DiagramInv /\ OneHand /\ [Next]_vars
         => StatusInv' /\ CommittedInv' /\ DiagramInv'
  BY StatusStep, CommittedStep, DiagramStep
<1>3. Spec => [](TypeInv /\ HaltInv /\ AuthInv)
  BY Halting, Authority, PTL
<1>4. DiagramInv <=> \A a \in Action : KeepsDiagram(ledger, a)
  BY DEF DiagramInv
<1>. QED
  BY <1>1, <1>2, <1>3, <1>4, PTL DEF Spec

-----------------------------------------------------------------------------
(***************************************************************************)
(* RollbackAccountsForAll.  rollback() reads the session's entries once,   *)
(* and undo() reads each action's again.  While nobody else works on the   *)
(* session, what can still be undone is on the work list, in hand, or in   *)
(* the report: TodoInv.                                                    *)
(***************************************************************************)

Undoing == {"undo", "check", "inverse", "undone", "undo_failed"}
Undisturbed ==
    \A p, q \in Proc :
       p # q /\ frame[p].ses # None /\ frame[q].pc \notin NoAction
          => Op[frame[q].act].ses # frame[p].ses

(* ToUndo, of a log. *)
Left(log, s, to) ==
    {a \in Action : /\ Op[a].ses = s
                    /\ FirstPos(log, a, "prepared") > to
                    /\ StatusOf(log, a) \in UNDOABLE}
Named(f) == f.todo \cup f.report.skipped \cup f.report.failed
               \cup (IF f.pc = "next" THEN {} ELSE {f.act})
Listed(log, f) ==
    f.ses # None /\ f.pc # "collect" =>
       f.pc \in Undoing \cup {"next"} /\ Left(log, f.ses, f.to) \subseteq Named(f)
TodoInv == \A p \in Proc : Listed(ledger, frame[p])

(* An entry of another session, of an undo or of no action adds nothing to *)
(* what a rollback has to undo, and "undone" takes its action away.        *)
LEMMA ToUndoAfter ==
    ASSUME TypeInv, NEW e, ExtendedByOne(e), NEW s, NEW to,
           e.act \in Action /\ Op[e.act].ses = s => e.kind \in {"undone", "undo_failed"}
    PROVE  /\ Left(ledger', s, to) \subseteq Left(ledger, s, to)
           /\ e.kind = "undone" => e.act \notin Left(ledger', s, to)
<1>1. ASSUME NEW a \in Action, Op[a].ses = s, e.act = a => e.kind # "undone"
      PROVE  /\ StatusOf(ledger', a) = StatusOf(ledger, a)
             /\ FirstPos(ledger', a, "prepared") = FirstPos(ledger, a, "prepared")
  <2>1. e.act = a => e.kind \notin StatusKind
    BY <1>1 DEF StatusKind
  <2>2. Positions(ledger', a, {"prepared"}) = Positions(ledger, a, {"prepared"})
    <3>1. e.act = a => e.kind \notin {"prepared"}
      BY <1>1
    <3>. QED
      BY <3>1, PositionsSame
  <2>. QED
    BY <2>1, <2>2, StatusSame DEF FirstPos
<1>2. ASSUME e.kind = "undone" PROVE StatusOf(ledger', e.act) \notin UNDOABLE
  <2>1. StatusOf(ledger', e.act) = STATUS_BY_KIND["undone"]
    BY <1>2, StatusNew DEF StatusKind
  <2>. QED
    BY <2>1 DEF STATUS_BY_KIND, UNDOABLE
<1>. QED
  BY <1>1, <1>2 DEF Left

(* A frame is a record. *)
LEMMA FrameRecord ==
    ASSUME TypeInv, NEW p \in Proc
    PROVE  frame[p] \in FrameType /\ frame \in [Proc -> FrameType]
BY DEF TypeInv, TypeOK

(* The step leaves the process out of a loop, with nothing new reported. *)
Outside(p) ==
    /\ frame'[p].ses = None \/ frame'[p].pc = "collect"
    /\ frame'[p].report \in {frame[p].report, EmptyReport}

(* What a method leaves behind when it is over is not in a loop, and       *)
(* nothing is reported yet.                                                *)
LEMMA EndsOutside ==
    ASSUME TypeInv, NEW p \in Proc, Return(p) \/ Raise(p)
    PROVE  Outside(p) /\ frame'[p].report = EmptyReport
<1>1. frame \in [Proc -> FrameType]
  BY FrameRecord
<1>2. \A s, n : IdleFrame(s, n).ses = None /\ IdleFrame(s, n).report = EmptyReport
  BY DEF IdleFrame
<1>3. \A f : Become(p, f) => frame'[p] = f
  BY <1>1 DEF Become
<1>4. CASE Return(p)
  BY <1>2, <1>3, <1>4 DEF Return, Outside
<1>5. CASE Raise(p) /\ frame[p].batch = None
  <2>1. Become(p, IdleFrame(None, 0))
    BY <1>5 DEF Raise
  <2>. QED
    BY <1>2, <1>3, <2>1 DEF Outside
<1>6. CASE Raise(p) /\ frame[p].batch # None
  <2>. DEFINE h == [RollbackTo(IdleFrame(None, 0), frame[p].batch, frame[p].cp) EXCEPT !.job = "batch"]
  <2>1. Become(p, h)
    BY <1>6 DEF Raise
  <2>2. h.pc = "collect" /\ h.report = EmptyReport
    BY DEF IdleFrame, RollbackTo
  <2>. HIDE DEF h
  <2>. QED
    BY <1>3, <2>1, <2>2 DEF Outside
<1>. QED
  BY <1>4, <1>5, <1>6

(* Nor does any other step lead into a loop but by its first read.         *)
LEMMA StaysOutside ==
    ASSUME TypeInv, NEW p \in Proc, frame[p].ses = None, Begin(p) \/ Continue(p)
    PROVE  Outside(p)
<1>1. frame \in [Proc -> FrameType] /\ frame[p] \in FrameType
  BY FrameRecord
<1>2. ASSUME NEW m, Goto(p, m) PROVE Outside(p)
  BY <1>1, <1>2 DEF Goto, Become, FrameType, Outside
<1>3. ASSUME NEW s, NEW n, Become(p, IdleFrame(s, n)) PROVE Outside(p)
  BY <1>1, <1>3 DEF Become, IdleFrame, Outside
<1>4. ASSUME NEW o, UndoEnds(p, o) PROVE Outside(p)
  <2>1. Return(p) \/ Raise(p)
    BY <1>4 DEF UndoEnds
  <2>. QED
    BY <2>1, EndsOutside
<1>a. \A rec : Become(p, rec) => frame'[p] = rec
  BY <1>1 DEF Become
<1>b. {"ses", "pc", "report"} \subseteq DOMAIN frame[p]
  BY <1>1 DEF FrameType
<1>5. /\ \A x, j, a, v : Become(p, [frame[p] EXCEPT !.pc = x, !.job = j, !.act = a, !.predicted = v])
                             => Outside(p)
      /\ \A x, j, a, v : Become(p, [frame[p] EXCEPT !.pc = x, !.job = j, !.act = a, !.force = v])
                             => Outside(p)
      /\ \A x, j, a : Become(p, [frame[p] EXCEPT !.pc = x, !.job = j, !.act = a])
                             => Outside(p)
      /\ \A x, j : Become(p, [frame[p] EXCEPT !.pc = x, !.job = j]) => Outside(p)
      /\ \A x, v : Become(p, [frame[p] EXCEPT !.verdict = v, !.pc = x]) => Outside(p)
      /\ \A x, v : Become(p, [frame[p] EXCEPT !.predicted = v, !.pc = x]) => Outside(p)
      /\ \A x, v : Become(p, [frame[p] EXCEPT !.pc = x, !.reg = v]) => Outside(p)
  BY <1>a, <1>b DEF Outside
<1>6. /\ \A s, n, j, v : Become(p, [RollbackTo(frame[p], s, n) EXCEPT !.job = j, !.force = v])
                             => Outside(p)
      /\ \A s, n, j : Become(p, [RollbackTo(frame[p], s, n) EXCEPT !.job = j])
                             => Outside(p)
  <2>1. ASSUME NEW s, NEW n
        PROVE  /\ {"pc", "report"} \subseteq DOMAIN RollbackTo(frame[p], s, n)
               /\ RollbackTo(frame[p], s, n).pc = "collect"
               /\ RollbackTo(frame[p], s, n).report = frame[p].report
    BY <1>b DEF RollbackTo
  <2>2. ASSUME NEW s, NEW n, NEW j, NEW v, Become(p, [RollbackTo(frame[p], s, n) EXCEPT !.job = j, !.force = v])
        PROVE  Outside(p)
    <3>1. frame'[p] = [RollbackTo(frame[p], s, n) EXCEPT !.job = j, !.force = v]
      BY <1>a, <2>2
    <3>. QED
      BY <2>1, <3>1 DEF Outside
  <2>3. ASSUME NEW s, NEW n, NEW j, Become(p, [RollbackTo(frame[p], s, n) EXCEPT !.job = j])
        PROVE  Outside(p)
    <3>1. frame'[p] = [RollbackTo(frame[p], s, n) EXCEPT !.job = j]
      BY <1>a, <2>3
    <3>. QED
      BY <2>1, <3>1 DEF Outside
  <2>. QED
    BY <2>2, <2>3
<1>7. CASE Begin(p)
  <2>1. ASSUME NEW a \in Action, NEW force \in BOOLEAN,
               Call(p, a) \/ Release(p, a) \/ Discard(p, a) \/ Undo(p, a, force)
        PROVE  Outside(p)
    <3>1. CASE Call(p, a)
      BY <1>5, <3>1, EndsOutside DEF Call
    <3>2. CASE Release(p, a)
      <4>1. PICK v : Become(p, [frame[p] EXCEPT !.pc = "gate", !.job = "release", !.act = a,
                                                !.predicted = v])
        BY <3>2 DEF Release
      <4>. QED
        BY <1>5, <4>1
    <3>3. CASE Discard(p, a)
      BY <1>5, <3>3 DEF Discard
    <3>4. CASE Undo(p, a, force)
      BY <1>5, <3>4 DEF Undo
    <3>. QED
      BY <2>1, <3>1, <3>2, <3>3, <3>4
  <2>2. ASSUME NEW s \in Session, NEW to, NEW force \in BOOLEAN,
               Rollback(p, s, to, force) \/ KillSession(p, s, force)
        PROVE  Outside(p)
    <3>1. CASE Rollback(p, s, to, force)
      <4>1. Become(p, [RollbackTo(frame[p], s, to) EXCEPT !.job = "rollback", !.force = force])
        BY <3>1 DEF Rollback
      <4>. QED
        BY <1>6, <4>1
    <3>2. CASE KillSession(p, s, force) /\ force
      <4>1. Become(p, [RollbackTo(frame[p], s, 0) EXCEPT !.job = "kill"])
        BY <3>2 DEF KillSession
      <4>. QED
        BY <1>6, <4>1
    <3>3. CASE KillSession(p, s, force) /\ ~force
      BY <3>3, EndsOutside DEF KillSession
    <3>. QED
      BY <2>2, <3>1, <3>2, <3>3
  <2>3. ASSUME NEW s \in Session, BeginBatch(p, s) \/ ResumeSession(p, s)
        PROVE  Outside(p)
    <3>1. CASE BeginBatch(p, s)
      BY <1>3, <3>1 DEF BeginBatch
    <3>2. CASE ResumeSession(p, s)
      <4>1. frame' = frame
        BY <3>2 DEF ResumeSession
      <4>. QED
        BY <4>1 DEF Outside
    <3>. QED
      BY <2>3, <3>1, <3>2
  <2>4. ASSUME EndBatch(p) \/ KillAll(p) \/ ResumeAll(p)
        PROVE  Outside(p)
    <3>1. CASE EndBatch(p)
      BY <1>3, <3>1, EndsOutside DEF EndBatch
    <3>2. CASE KillAll(p)
      BY <1>5, <3>2 DEF KillAll
    <3>3. CASE ResumeAll(p)
      <4>1. PICK x : Become(p, [frame[p] EXCEPT !.pc = x, !.job = "resume"])
        BY <3>3 DEF ResumeAll
      <4>. QED
        BY <1>5, <4>1
    <3>. QED
      BY <2>4, <3>1, <3>2, <3>3
  <2>. QED
    BY <1>7, <2>1, <2>2, <2>3, <2>4 DEF Begin
<1>8. CASE Continue(p)
  <2>1. ASSUME \/ EnsureRunning(p) \/ Read(p) \/ Propose(p) \/ DenyByPolicy(p) \/ Reject(p)
               \/ ApproverRaises(p) \/ Hold(p) \/ LogFailed(p) \/ Deviate(p)
        PROVE  Outside(p)
    BY <2>1, <1>2, EndsOutside DEF EnsureRunning, Read, Propose, DenyByPolicy, Reject,
       ApproverRaises, Hold, LogFailed, Deviate
  <2>2. ASSUME \/ CheckKillFile(p) \/ LogReleased(p) \/ LogDiscarded(p) \/ LogGlobalHalt(p)
               \/ UnlinkKillFile(p) \/ LogGlobalResume(p) \/ LogRollback(p) \/ Account(p)
               \/ Approve(p) \/ Prepare(p) \/ Commit(p) \/ Run(p) \/ Interrupted(p)
        PROVE  Outside(p)
    BY <2>2, <1>2, <1>4, EndsOutside DEF Interrupted, CheckKillFile, LogReleased, LogDiscarded,
       LogGlobalHalt, UnlinkKillFile, LogGlobalResume, LogRollback, Account, Approve, Prepare, Commit, Run
  <2>3. ASSUME \/ DecideVerdict(p) \/ Simulate(p) \/ EscalateToApproval(p)
               \/ TakeSnapshot(p) \/ Observe(p)
        PROVE  Outside(p)
    <3>1. CASE DecideVerdict(p)
      <4>1. PICK v, x : Become(p, [frame[p] EXCEPT !.verdict = v, !.pc = x])
        BY <3>1 DEF DecideVerdict
      <4>. QED
        BY <1>5, <4>1
    <3>2. CASE Simulate(p)
      <4>1. PICK v, x : Become(p, [frame[p] EXCEPT !.predicted = v, !.pc = x])
        BY <3>2 DEF Simulate
      <4>. QED
        BY <1>5, <4>1
    <3>3. CASE EscalateToApproval(p)
      BY <1>5, <3>3 DEF EscalateToApproval
    <3>4. CASE TakeSnapshot(p)
      <4>1. Raise(p) \/ \E v : Become(p, [frame[p] EXCEPT !.pc = "prepare", !.reg = v])
        BY <3>4 DEF TakeSnapshot
      <4>. QED
        BY <1>5, <4>1, EndsOutside
    <3>5. CASE Observe(p)
      <4>1. \E v : Become(p, [frame[p] EXCEPT !.pc = "commit", !.reg = v])
        BY <3>5 DEF Observe
      <4>. QED
        BY <1>5, <4>1
    <3>. QED
      BY <2>3, <3>1, <3>2, <3>3, <3>4, <3>5
  <2>4. ASSUME HaltOnDeviation(p) PROVE Outside(p)
    <3>1. Raise(p) \/ \E s : Become(p, [frame[p] EXCEPT !.pc = "collect", !.ses = s, !.to = 0])
      BY <2>4 DEF HaltOnDeviation, RollbackTo
    <3>2. ASSUME NEW s, Become(p, [frame[p] EXCEPT !.pc = "collect", !.ses = s, !.to = 0])
          PROVE  Outside(p)
      <4>1. frame'[p] = [frame[p] EXCEPT !.pc = "collect", !.ses = s, !.to = 0]
        BY <1>a, <3>2
      <4>. QED
        BY <1>b, <4>1 DEF Outside
    <3>. QED
      BY <3>1, <3>2, EndsOutside
  <2>5. ASSUME LoadForUndo(p) PROVE Outside(p)
    <3>1. (\E o : UndoEnds(p, o)) \/ \E n, x : Become(p, [frame[p] EXCEPT !.seen = n, !.pc = x])
      BY <2>5 DEF LoadForUndo
    <3>2. ASSUME NEW n, NEW x, Become(p, [frame[p] EXCEPT !.seen = n, !.pc = x]) PROVE Outside(p)
      <4>1. frame'[p] = [frame[p] EXCEPT !.seen = n, !.pc = x]
        BY <1>a, <3>2
      <4>. QED
        BY <1>b, <4>1 DEF Outside
    <3>. QED
      BY <1>4, <3>1, <3>2
  <2>6. ASSUME CheckConflict(p) \/ ApplyInverse(p) \/ LogUndone(p) \/ LogUndoFailed(p)
        PROVE  Outside(p)
    BY <2>6, <1>2, <1>4 DEF CheckConflict, ApplyInverse, LogUndone, LogUndoFailed
  <2>7. ASSUME CollectActions(p) \/ UndoNext(p)
        PROVE  Outside(p)
    <3>1. \/ \E x, t : Become(p, [frame[p] EXCEPT !.pc = x, !.act = None, !.reg = None, !.todo = t])
          \/ \E x, a, t : Become(p, [frame[p] EXCEPT !.pc = x, !.act = a, !.todo = t])
      BY <2>7 DEF CollectActions, UndoNext
    <3>2. ASSUME NEW x, NEW t, Become(p, [frame[p] EXCEPT !.pc = x, !.act = None, !.reg = None, !.todo = t])
          PROVE  Outside(p)
      <4>1. frame'[p] = [frame[p] EXCEPT !.pc = x, !.act = None, !.reg = None, !.todo = t]
        BY <1>a, <3>2
      <4>. QED
        BY <1>b, <4>1 DEF Outside
    <3>3. ASSUME NEW x, NEW a, NEW t, Become(p, [frame[p] EXCEPT !.pc = x, !.act = a, !.todo = t])
          PROVE  Outside(p)
      <4>1. frame'[p] = [frame[p] EXCEPT !.pc = x, !.act = a, !.todo = t]
        BY <1>a, <3>3
      <4>. QED
        BY <1>b, <4>1 DEF Outside
    <3>. QED
      BY <3>1, <3>2, <3>3
  <2>. QED
    BY <1>8, <2>1, <2>2, <2>3, <2>4, <2>5, <2>6, <2>7 DEF Continue
<1>. QED
  BY <1>7, <1>8

(* The steps of a loop. *)
LoopStep(p) ==
    \/ CollectActions(p) \/ UndoNext(p) \/ LogRollback(p) \/ LoadForUndo(p) \/ CheckConflict(p)
    \/ ApplyInverse(p) \/ LogUndone(p) \/ LogUndoFailed(p) \/ Interrupted(p)
(* At a label of the loop a process can take no other step. *)
LEMMA InLoop ==
    ASSUME NEW p \in Proc, frame[p].pc \in Undoing \cup {"next", "collect"}, Begin(p) \/ Continue(p)
    PROVE  LoopStep(p)
<1>1. frame[p].pc # "idle"
  BY DEF Undoing
<1>2. ~Begin(p)
  BY <1>1 DEF Begin, Call, Release, Discard, Undo, Rollback, BeginBatch, KillSession, ResumeSession,
     EndBatch, KillAll, ResumeAll, Idle, At
<1>3. Continue(p)
  BY <1>2
<1>4. ~(\/ EnsureRunning(p) \/ DecideVerdict(p) \/ Read(p) \/ Propose(p) \/ DenyByPolicy(p)
        \/ Simulate(p) \/ EscalateToApproval(p))
  BY DEF Undoing, At, EnsureRunning, DecideVerdict, Read, Propose, DenyByPolicy, Simulate,
     EscalateToApproval
<1>5. ~(\/ Approve(p) \/ Reject(p) \/ ApproverRaises(p) \/ Hold(p) \/ TakeSnapshot(p) \/ Prepare(p))
  BY DEF Undoing, At, Asked, Approve, Reject, ApproverRaises, Hold, TakeSnapshot, Prepare
<1>6. ~(\/ Run(p) \/ LogFailed(p) \/ Observe(p) \/ Commit(p) \/ Account(p) \/ Deviate(p)
        \/ HaltOnDeviation(p) \/ CheckKillFile(p) \/ LogReleased(p) \/ LogDiscarded(p)
        \/ LogGlobalHalt(p) \/ UnlinkKillFile(p) \/ LogGlobalResume(p))
  BY DEF Undoing, At, Run, LogFailed, Observe, Commit, Account, Deviate, HaltOnDeviation,
     CheckKillFile, LogReleased, LogDiscarded, LogGlobalHalt, UnlinkKillFile, LogGlobalResume
<1>. QED
  BY <1>3, <1>4, <1>5, <1>6 DEF Continue, LoopStep

(* In a loop, undo() files its outcome and goes back to the work list. *)
LEMMA UndoIsFiled ==
    ASSUME TypeInv, NEW p \in Proc, frame[p].ses # None,
           NEW outcome \in {"undone", "nothing", "skipped", "failed"}, UndoEnds(p, outcome)
    PROVE  LET f == frame[p]  g == frame'[p]
           IN  /\ g.pc = "next" /\ g.ses = f.ses /\ g.to = f.to
               /\ f.todo \cup f.report.skipped \cup f.report.failed \subseteq Named(g)
               /\ outcome \in {"skipped", "failed"} => f.act \in Named(g)
<1>. DEFINE f == frame[p]
            Filed(field) == IF outcome = field THEN f.report[field] \cup {f.act} ELSE f.report[field]
            r == [undone |-> Filed("undone"), skipped |-> Filed("skipped"), failed |-> Filed("failed")]
            h == [f EXCEPT !.pc = "next", !.act = None, !.reg = None, !.seen = 0, !.report = r]
<1>1. frame \in [Proc -> FrameType] /\ f \in FrameType
  BY FrameRecord
<1>2. frame'[p] = h
  BY <1>1 DEF UndoEnds, Become
<1>3. /\ h.pc = "next" /\ h.ses = f.ses /\ h.to = f.to /\ h.todo = f.todo
      /\ h.report.skipped = Filed("skipped") /\ h.report.failed = Filed("failed")
  BY <1>1 DEF FrameType
<1>4. Filed("skipped") = f.report.skipped \/ Filed("skipped") = f.report.skipped \cup {f.act}
  OBVIOUS
<1>5. Filed("failed") = f.report.failed \/ Filed("failed") = f.report.failed \cup {f.act}
  OBVIOUS
<1>6. outcome \in {"skipped", "failed"} => f.act \in Filed("skipped") \cup Filed("failed")
  OBVIOUS
<1>. HIDE DEF h, Filed
<1>. QED
  BY <1>2, <1>3, <1>4, <1>5, <1>6 DEF Named

(* A step of the loop keeps what is left on the list, in hand or reported. *)
LEMMA ListedOwn ==
    ASSUME TypeInv, NEW p \in Proc, Listed(ledger, frame[p]), frame[p].ses # None, LoopStep(p)
    PROVE  Listed(ledger', frame'[p])
<1>. DEFINE f == frame[p]  g == frame'[p]
<1>1. frame \in [Proc -> FrameType] /\ f \in FrameType
  BY FrameRecord
<1>2. ASSUME g.ses = None \/ g.pc = "collect" PROVE Listed(ledger', frame'[p])
  BY <1>2 DEF Listed
<1>3. ASSUME g.pc \in Undoing \cup {"next"}, Left(ledger', g.ses, g.to) \subseteq Named(g) PROVE Listed(ledger', frame'[p])
  BY <1>3 DEF Listed
<1>4. f.pc # "collect" => Left(ledger, f.ses, f.to) \subseteq Named(f)
  BY DEF Listed
<1>5. f.pc # "next" => Named(f) = f.todo \cup f.report.skipped \cup f.report.failed \cup {f.act}
  BY DEF Named
<1>6. ASSUME NEW m \in Undoing, Goto(p, m), ledger' = ledger, f.pc \in Undoing PROVE Listed(ledger', frame'[p])
  <2>1. /\ g.pc = m /\ g.ses = f.ses /\ g.to = f.to /\ g.todo = f.todo /\ g.report = f.report
        /\ g.act = f.act
    BY <1>1, <1>6 DEF Goto, Become, FrameType
  <2>2. Named(g) = Named(f)
    BY <1>6, <2>1 DEF Named, Undoing
  <2>3. Left(ledger', g.ses, g.to) = Left(ledger, f.ses, f.to)
    BY <1>6, <2>1
  <2>. QED
    BY <1>3, <1>4, <1>6, <2>1, <2>2, <2>3 DEF Undoing
<1>7. ASSUME NEW outcome \in {"undone", "nothing", "skipped", "failed"}, UndoEnds(p, outcome),
             f.pc \in Undoing,
             Left(ledger', f.ses, f.to) \subseteq Left(ledger, f.ses, f.to),
             outcome \in {"undone", "nothing"} => f.act \notin Left(ledger', f.ses, f.to)
      PROVE  Listed(ledger', frame'[p])
  <2>1. /\ g.pc = "next" /\ g.ses = f.ses /\ g.to = f.to
        /\ f.todo \cup f.report.skipped \cup f.report.failed \subseteq Named(g)
        /\ outcome \in {"skipped", "failed"} => f.act \in Named(g)
    BY <1>7, UndoIsFiled
  <2>2. Left(ledger', g.ses, g.to) = Left(ledger', f.ses, f.to)
    BY <2>1
  <2>3. Left(ledger', f.ses, f.to) \subseteq Named(f)
    BY <1>4, <1>7 DEF Undoing
  <2>4. Named(f) = f.todo \cup f.report.skipped \cup f.report.failed \cup {f.act}
    BY <1>5, <1>7 DEF Undoing
  <2>5. Left(ledger', f.ses, f.to) \subseteq Named(g)
    BY <1>7, <2>1, <2>3, <2>4
  <2>. QED
    BY <1>3, <2>1, <2>2, <2>5
<1>8. ledger' = ledger => Left(ledger', f.ses, f.to) = Left(ledger, f.ses, f.to)
  OBVIOUS
<1>9. CASE CollectActions(p)
  <2>1. /\ g.pc = "next" /\ g.ses = f.ses /\ g.to = f.to /\ g.todo = Left(ledger, f.ses, f.to)
        /\ ledger' = ledger
    BY <1>1, <1>9 DEF CollectActions, Become, FrameType, ToUndo, Left
  <2>2. Left(ledger', g.ses, g.to) = Left(ledger, f.ses, f.to)
    BY <2>1
  <2>. QED
    BY <1>3, <2>1, <2>2 DEF Named
<1>10. CASE UndoNext(p)
  <2>1. PICK a \in Newest(f.todo) : Become(p, [f EXCEPT !.pc = "undo", !.act = a, !.todo = @ \ {a}])
    BY <1>10 DEF UndoNext
  <2>2. /\ g.pc = "undo" /\ g.ses = f.ses /\ g.to = f.to /\ g.todo = f.todo \ {a} /\ g.act = a
        /\ g.report = f.report
    BY <1>1, <2>1 DEF Become, FrameType
  <2>3. ledger' = ledger /\ f.pc = "next"
    BY <1>10 DEF UndoNext, At
  <2>4. Named(f) \subseteq Named(g)
    BY <2>2, <2>3 DEF Named
  <2>5. Left(ledger', g.ses, g.to) = Left(ledger, f.ses, f.to)
    BY <2>2, <2>3
  <2>. QED
    BY <1>3, <1>4, <2>2, <2>3, <2>4, <2>5 DEF Undoing
<1>11. CASE LogRollback(p)
  BY <1>2, <1>11, EndsOutside DEF LogRollback, Outside
<1>12. CASE LoadForUndo(p)
  <2>. DEFINE answer == UndoAnswer(ledger, f.act)
  <2>1. f.pc = "undo" /\ ledger' = ledger
    BY <1>12 DEF LoadForUndo, At
  <2>2. answer \in {"nothing", "failed", "skipped", "go"}
    BY DEF UndoAnswer
  <2>3. CASE answer = "go"
    <3>1. /\ g.pc \in {"check", "inverse"} /\ g.ses = f.ses /\ g.to = f.to /\ g.todo = f.todo
          /\ g.report = f.report /\ g.act = f.act
      <4>1. PICK n, x : x \in {"check", "inverse"} /\ Become(p, [f EXCEPT !.seen = n, !.pc = x])
        BY <1>12, <2>3 DEF LoadForUndo
      <4>2. g = [f EXCEPT !.seen = n, !.pc = x]
        BY <1>1, <4>1 DEF Become
      <4>. QED
        BY <1>1, <4>1, <4>2 DEF FrameType
    <3>2. Named(g) = Named(f)
      BY <2>1, <3>1 DEF Named
    <3>3. Left(ledger', g.ses, g.to) = Left(ledger, f.ses, f.to)
      BY <2>1, <3>1
    <3>. QED
      BY <1>3, <1>4, <2>1, <3>1, <3>2, <3>3 DEF Undoing
  <2>4. CASE answer # "go"
    <3>1. UndoEnds(p, answer)
      BY <1>12, <2>4 DEF LoadForUndo
    <3>2. answer = "nothing" => StatusOf(ledger, f.act) \notin UNDOABLE
      BY DEF UndoAnswer, UNDOABLE
    <3>3. answer = "nothing" => f.act \notin Left(ledger, f.ses, f.to)
      BY <3>2 DEF Left
    <3>. HIDE DEF answer
    <3>. QED
      BY <1>7, <1>8, <2>1, <2>2, <2>4, <3>1, <3>3 DEF Undoing
  <2>. QED
    BY <2>3, <2>4
<1>13. CASE CheckConflict(p)
  <2>1. f.pc = "check" /\ ledger' = ledger
    BY <1>13 DEF CheckConflict, At
  <2>2. Goto(p, "inverse") \/ UndoEnds(p, "failed")
    BY <1>13 DEF CheckConflict
  <2>. QED
    BY <1>6, <1>7, <1>8, <2>1, <2>2 DEF Undoing
<1>14. CASE ApplyInverse(p)
  <2>1. f.pc = "inverse" /\ ledger' = ledger
    BY <1>14 DEF ApplyInverse, At
  <2>2. Goto(p, "undone") \/ Goto(p, "undo_failed")
    BY <1>14 DEF ApplyInverse
  <2>. QED
    BY <1>6, <2>1, <2>2 DEF Undoing
<1>15. CASE LogUndone(p)
  <2>. DEFINE e == Entry("undone", f.act, None)
  <2>1. f.pc = "undone" /\ UndoEnds(p, "undone") /\ Log(e) /\ e.kind = "undone" /\ e.act = f.act
    BY <1>15 DEF LogUndone, At, Entry
  <2>. HIDE DEF e
  <2>2. Left(ledger', f.ses, f.to) \subseteq Left(ledger, f.ses, f.to) /\ f.act \notin Left(ledger', f.ses, f.to)
    BY <2>1, AppendsOne, ToUndoAfter
  <2>. QED
    BY <1>7, <2>1, <2>2 DEF Undoing
<1>16. CASE LogUndoFailed(p)
  <2>. DEFINE e == Entry("undo_failed", f.act, None)
  <2>1. f.pc = "undo_failed" /\ UndoEnds(p, "failed") /\ Log(e) /\ e.kind = "undo_failed"
    BY <1>16 DEF LogUndoFailed, At, Entry
  <2>. HIDE DEF e
  <2>2. Left(ledger', f.ses, f.to) \subseteq Left(ledger, f.ses, f.to)
    BY <2>1, AppendsOne, ToUndoAfter
  <2>. QED
    BY <1>7, <2>1, <2>2 DEF Undoing
<1>17. CASE Interrupted(p)
  <2>1. CASE Raise(p)
    BY <1>2, <2>1, EndsOutside DEF Outside
  <2>2. CASE f.pc \in {"undo", "undone", "undo_failed"} /\ UndoEnds(p, "failed")
    BY <1>7, <1>8, <1>17, <2>2 DEF Interrupted, Undoing
  <2>. QED
    BY <1>17, <2>1, <2>2 DEF Interrupted
<1>. QED
  BY <1>9, <1>10, <1>11, <1>12, <1>13, <1>14, <1>15, <1>16, <1>17 DEF LoopStep

(* A step of another process, which works on another session, adds nothing. *)
LEMMA ListedOther ==
    ASSUME TypeInv, Undisturbed, NEW p \in Proc, NEW q \in Proc, q # p, Step(q), Listed(ledger, frame[p])
    PROVE  Listed(ledger', frame'[p])
<1>. DEFINE f == frame[p]
<1>1. frame'[p] = f
  BY OthersSame DEF Same
<1>. SUFFICES ASSUME f.ses # None PROVE Left(ledger', f.ses, f.to) \subseteq Left(ledger, f.ses, f.to)
  BY <1>1 DEF Listed, Named
<1>2. ASSUME NEW e, Log(e), e.act \notin Action \/ Op[e.act].ses # f.ses
      PROVE  Left(ledger', f.ses, f.to) \subseteq Left(ledger, f.ses, f.to)
  BY <1>2, AppendsOne, ToUndoAfter
<1>3. CASE ledger' = ledger
  BY <1>3
<1>4. CASE OwnEntry(q)
  <2>1. PICK w \in Writes : At(q, w[1]) /\ \E v : Log(Entry(w[2], frame[q].act, v))
    BY <1>4 DEF OwnEntry
  <2>2. PICK v : Log(Entry(w[2], frame[q].act, v))
    BY <2>1
  <2>. DEFINE e == Entry(w[2], frame[q].act, v)
  <2>3. Log(e) /\ e.act = frame[q].act
    BY <2>2 DEF Entry
  <2>. HIDE DEF e
  <2>4. Op[frame[q].act].ses # f.ses
    BY <2>1, WritesKinds DEF Undisturbed, At
  <2>. QED
    BY <1>2, <2>3, <2>4
<1>5. CASE OwnMark(q)
  <2>1. PICK kind, s : Log(Mark(kind, s))
    BY <1>5 DEF OwnMark
  <2>2. Mark(kind, s).act \notin Action
    BY GatewayAssumption DEF Mark
  <2>. QED
    BY <1>2, <2>1, <2>2
<1>. QED
  BY <1>3, <1>4, <1>5, StepAppends

(* The work list is kept by every step. *)
LEMMA TodoStep ==
    ASSUME TypeInv, Undisturbed, TodoInv, [Next]_vars
    PROVE  TodoInv'
<1>1. ASSUME NEW q \in Proc, Begin(q) \/ Continue(q), NEW p \in Proc PROVE Listed(ledger', frame'[p])
  <2>0. Listed(ledger, frame[p])
    BY DEF TodoInv
  <2>1. CASE p # q
    BY <1>1, <2>0, <2>1, Steps, ListedOther
  <2>2. CASE p = q /\ frame[p].ses = None
    BY <1>1, <2>2, StaysOutside DEF Listed, Outside
  <2>3. CASE p = q /\ frame[p].ses # None
    <3>1. frame[p].pc \in Undoing \cup {"next", "collect"}
      BY <2>0, <2>3 DEF Listed
    <3>. QED
      BY <1>1, <2>0, <2>3, <3>1, InLoop, ListedOwn
  <2>. QED
    BY <2>1, <2>2, <2>3
<1>2. ASSUME Environment \/ UNCHANGED vars, NEW p \in Proc PROVE Listed(ledger', frame'[p])
  <2>1. ledger' = ledger
    BY <1>2 DEF Environment, OutsideWrite, Crash, vars
  <2>2. frame'[p] = frame[p] \/ frame'[p].ses = None
    <3>1. IdleFrame(None, 0).ses = None
      BY DEF IdleFrame
    <3>. QED
      BY <1>2, <3>1 DEF Environment, OutsideWrite, Crash, vars
  <2>4. Listed(ledger, frame[p])
    BY DEF TodoInv
  <2>. QED
    BY <2>1, <2>2, <2>4 DEF Listed
<1>. QED
  BY <1>1, <1>2 DEF Next, TodoInv

(* When a rollback ends and nobody else has worked on its session, what    *)
(* can still be undone is named in its report, whatever its hooks did      *)
(* (core.py rollback).                                                     *)
THEOREM NothingIsForgotten == Spec /\ []Undisturbed => RollbackAccountsForAll
<1>1. Init => TodoInv
  BY DEF Init, IdleFrame, TodoInv, Listed
<1>2. TypeInv /\ TodoInv => \A p \in Proc : RollbackEnds(p) =>
         ToUndo(frame[p].ses, frame[p].to) \subseteq frame[p].report.skipped \cup frame[p].report.failed
  <2>. SUFFICES ASSUME TypeInv, TodoInv, NEW p \in Proc, RollbackEnds(p)
                PROVE  ToUndo(frame[p].ses, frame[p].to)
                          \subseteq frame[p].report.skipped \cup frame[p].report.failed
    OBVIOUS
  <2>1. frame[p].pc = "next" /\ frame[p].todo = {}
    BY DEF RollbackEnds, At
  <2>2. CASE frame[p].ses = None
    <3>1. \A a \in Action : Op[a].ses \in Session
      BY GatewayAssumption DEF OpType
    <3>. QED
      BY <2>2, <3>1, GatewayAssumption DEF ToUndo
  <2>3. CASE frame[p].ses # None
    BY <2>1, <2>3 DEF TodoInv, Listed, Named, ToUndo, Left, Undoing
  <2>. QED
    BY <2>2, <2>3
<1>3. TypeInv /\ Undisturbed /\ TodoInv /\ [Next]_vars => TodoInv'
  BY TodoStep
<1>4. Spec => []TypeInv
  BY Logged, PTL
<1>. QED
  BY <1>1, <1>2, <1>3, <1>4, PTL DEF Spec, RollbackAccountsForAll

-----------------------------------------------------------------------------
(***************************************************************************)
(* RollbackRestores.  rollback() undoes newest first, so what it has put   *)
(* back is, for each resource, the snapshot of the oldest action it has    *)
(* undone so far: BackInv, which follows the work list, the action in hand *)
(* and the report.  It needs every action to have one "prepared" entry     *)
(* (OnceInv), which holds what the snapshot hook returned (SnapshotInv),   *)
(* and nobody else to change the world in the meantime.                    *)
(***************************************************************************)

InTheLoop(f) == f.ses # None /\ f.pc # "collect"
(* While a process rolls back, only its own steps change the world. *)
LeavesWorldAlone ==
    \A p \in Proc : InTheLoop(frame[p]) /\ frame'[p] = frame[p] => world' = world
WorldLeftAlone == [][LeavesWorldAlone]_vars

PastPrepared == {"in_flight", "committed", "failed", "undone"}
OnceInv ==
    \A a \in Action :
       /\ Has(ledger, a, "prepared") => StatusOf(ledger, a) \in PastPrepared
       /\ \A i, j \in Positions(ledger, a, {"prepared"}) : i = j
SnapshotInv ==
    /\ \A i \in PreparedPos : Op[ledger[i].act].snapshot => ledger[i].val # None
    /\ \A p \in Proc : frame[p].pc = "prepare" /\ Op[frame[p].act].snapshot => frame[p].reg # None

PreparedAt(log, a) == FirstPos(log, a, "prepared")
Hand(f) == IF f.pc \in Undoing THEN {f.act} ELSE {}
Done(f) == f.report.undone \cup (IF f.pc = "undone" THEN {f.act} ELSE {})
(* On each resource, the oldest of S is the one whose snapshot is there. *)
PutBack(log, w, S) ==
    \A a \in S :
       (\A b \in S : Op[b].res = Op[a].res => Op[b].snapshot /\ PreparedAt(log, a) <= PreparedAt(log, b))
          => w[Op[a].res] = log[PreparedAt(log, a)].val
(* The work list is older than the action in hand, and that than those undone. *)
Ordered(log, f) ==
    /\ \A a \in f.todo, b \in Hand(f) \cup f.report.undone : PreparedAt(log, a) <= PreparedAt(log, b)
    /\ \A a \in Hand(f), b \in f.report.undone : PreparedAt(log, a) <= PreparedAt(log, b)
Known(log, f) ==
    \A a \in f.todo \cup Hand(f) \cup f.report.undone : a \in Action /\ PreparedAt(log, a) # 0
Loop(log, w, f) ==
    /\ f.pc \in Undoing \cup {"next"}
    /\ Known(log, f)
    /\ Ordered(log, f)
    /\ f.pc \in {"check", "inverse"} => PreparedAt(log, f.act) <= f.seen
    /\ f.report.failed = {} /\ f.pc # "undo_failed" => PutBack(log, w, Done(f))
Back(log, w, f) ==
    IF InTheLoop(f) THEN Loop(log, w, f) ELSE f.report.undone = {}
BackInv == \A p \in Proc : Back(ledger, world, frame[p])

(* What was prepared has left the part of the diagram that leads there. *)
LEMMA PastPreparedStays ==
    ASSUME LifecycleStep, NEW a \in Action, StatusOf(ledger, a) \in PastPrepared
    PROVE  /\ StatusOf(ledger', a) \in PastPrepared
           /\ StatusOf(ledger', a) = "in_flight" => StatusOf(ledger, a) = "in_flight"
<1>. DEFINE old == StatusOf(ledger, a)
            new == StatusOf(ledger', a)
<1>1. old # new => <<old, new>> \in StatusEdge
  BY DEF LifecycleStep
<1>2. old \in PastPrepared
  OBVIOUS
<1>. HIDE DEF old, new
<1>3. old # new => new \in PastPrepared \ {"in_flight"}
  BY <1>1, <1>2 DEF StatusEdge, PastPrepared
<1>. QED
  BY <1>2, <1>3 DEF old, new

(* A step logs one entry or none, and "prepared" only with the snapshot.   *)
LEMMA WhoPrepares ==
    ASSUME NEW p \in Proc, Step(p)
    PROVE  \/ ledger' = ledger
           \/ \E e : /\ Log(e)
                     /\ e.kind = "prepared" => /\ At(p, "prepare") /\ e.act = frame[p].act
                                               /\ e.val = frame[p].reg
<1>. DEFINE Fitting(e) == /\ Log(e)
                          /\ e.kind = "prepared" => /\ At(p, "prepare") /\ e.act = frame[p].act
                                                    /\ e.val = frame[p].reg
<1>1. ASSUME NEW kind, NEW a, NEW v, Adds(kind, a, v),
             kind = "prepared" => At(p, "prepare") /\ a = frame[p].act /\ v = frame[p].reg
      PROVE  \E e : Fitting(e)
  BY <1>1 DEF Adds, Entry
<1>2. CASE OutStep(p)
  <2>1. ASSUME NEW c \in Closer, Closes(p, c[1], c[2]) PROVE \E e : Fitting(e)
    <3>1. c[2] # "prepared"
      BY DEF Closer
    <3>. QED
      BY <1>1, <2>1, <3>1 DEF Closes
  <2>2. CASE Marks(p)
    <3>1. PICK kind, s : kind \in {"halted", "resumed", "rollback"} /\ Log(Mark(kind, s))
      BY <2>2 DEF Marks
    <3>2. Mark(kind, s).kind = kind
      BY DEF Mark
    <3>. QED
      BY <3>1, <3>2
  <2>. QED
    BY <1>2, <2>1, <2>2 DEF OutStep, Stops, Refused, KillsAll, ResumesAll, Unlinks, Still
<1>3. CASE SilentStep(p)
  BY <1>3 DEF SilentStep, Calls, PicksUp, TurnsToUndo, Jumps, PassesKillSwitch, Reads, Decides,
     Accounts, LoadsForUndo, Still
<1>4. CASE LoggedMove(p)
  <2>1. CASE Prepares(p)
    BY <1>1, <2>1 DEF Prepares, Goes
  <2>2. CASE Proposes(p) \/ Escalates(p) \/ IsApproved(p) \/ IsReleased(p) \/ Simulates(p) \/ Commits(p)
    BY <1>1, <2>2 DEF Proposes, Escalates, IsApproved, IsReleased, Simulates, Commits
  <2>3. CASE ReportsDeviation(p)
    BY <1>1, <2>3 DEF ReportsDeviation
  <2>. QED
    BY <1>4, <2>1, <2>2, <2>3 DEF LoggedMove
<1>. QED
  BY <1>2, <1>3, <1>4 DEF Step

(* No action is prepared twice, as long as no two methods are in the       *)
(* middle of the same action.                                              *)
LEMMA OnceStep ==
    ASSUME TypeInv, LifecycleStep, OnceInv, NEW e, ExtendedByOne(e)
    PROVE  OnceInv'
<1>. SUFFICES ASSUME NEW a \in Action
              PROVE  /\ Has(ledger', a, "prepared") => StatusOf(ledger', a) \in PastPrepared
                     /\ \A i, j \in Positions(ledger', a, {"prepared"}) : i = j
  BY DEF OnceInv
<1>1. /\ Has(ledger, a, "prepared") => StatusOf(ledger, a) \in PastPrepared
      /\ \A i, j \in Positions(ledger, a, {"prepared"}) : i = j
  BY DEF OnceInv
<1>2. CASE e.act = a /\ e.kind = "prepared"
  <2>1. StatusOf(ledger', a) = "in_flight"
    <3>1. "prepared" \in StatusKind /\ STATUS_BY_KIND["prepared"] = "in_flight"
      BY DEF StatusKind, STATUS_BY_KIND
    <3>. QED
      BY <1>2, <3>1, StatusNew
  <2>2. StatusOf(ledger, a) # "in_flight"
    <3>1. Len(ledger) + 1 \in Positions(ledger', a, StatusKind)
      BY <1>2 DEF ExtendedByOne, Positions, StatusKind
    <3>2. Len(ledger) + 1 \notin Positions(ledger, a, StatusKind)
      BY DEF ExtendedByOne, Positions
    <3>. QED
      BY <2>1, <3>1, <3>2 DEF LifecycleStep
  <2>3. ~Has(ledger, a, "prepared")
    BY <1>1, <2>1, <2>2, PastPreparedStays
  <2>4. Positions(ledger', a, {"prepared"}) = {Len(ledger) + 1}
    <3>1. Positions(ledger, a, {"prepared"}) = {}
      BY <2>3 DEF Has
    <3>. QED
      BY <1>2, <3>1, PositionsAfter
  <2>. QED
    BY <2>1, <2>4 DEF PastPrepared
<1>3. CASE ~(e.act = a /\ e.kind = "prepared")
  <2>1. Positions(ledger', a, {"prepared"}) = Positions(ledger, a, {"prepared"})
    BY <1>3, PositionsSame
  <2>2. StatusOf(ledger, a) \in PastPrepared => StatusOf(ledger', a) \in PastPrepared
    BY PastPreparedStays
  <2>. QED
    BY <1>1, <2>1, <2>2 DEF Has
<1>. QED
  BY <1>2, <1>3

(* The snapshot hook, if there is one, has run before "prepare". *)
LEMMA PreparesSnapshot ==
    ASSUME TypeInv, NEW p \in Proc, Begin(p) \/ Continue(p), frame'[p].pc = "prepare",
           Op[frame'[p].act].snapshot
    PROVE  frame'[p].reg # None
<1>1. Step(p)
  BY Steps
<1>2. At(p, "snapshot")
  <2>1. "prepare" \notin NoAction
    BY DEF NoAction
  <2>2. ~OutStep(p)
    BY <2>1 DEF OutStep, Stops, Refused, Marks, KillsAll, ResumesAll, Unlinks, Closes, OutToWork, Out
  <2>3. ~(\E a \in Action : Calls(p, a) \/ PicksUp(p, a))
    BY DEF Calls, PicksUp
  <2>4. ~TurnsToUndo(p) /\ ~Jumps(p) /\ ~Decides(p) /\ ~LoadsForUndo(p)
    BY DEF TurnsToUndo, Jumps, Jump, Goes, Decides, LoadsForUndo
  <2>5. ~PassesKillSwitch(p) /\ (Reads(p) => At(p, "snapshot"))
    BY DEF PassesKillSwitch, Goes, Reads
  <2>6. ~Proposes(p) /\ ~Simulates(p) /\ ~Escalates(p) /\ ~IsApproved(p) /\ ~IsReleased(p) /\ ~Prepares(p)
    BY DEF Proposes, Simulates, Escalates, IsApproved, IsReleased, Prepares, Goes
  <2>7. ~ReportsDeviation(p) /\ ~Commits(p) /\ ~Accounts(p)
    BY <2>1 DEF ReportsDeviation, Commits, Accounts, Goes, OutToWork, Out
  <2>. QED
    BY <1>1, <2>2, <2>3, <2>4, <2>5, <2>6, <2>7 DEF Step, SilentStep, LoggedMove
<1>3. TakeSnapshot(p)
  <2>1. frame[p].pc = "snapshot"
    BY <1>2 DEF At
  <2>2. ~Begin(p)
    BY <2>1 DEF Begin, Call, Release, Discard, Undo, Rollback, BeginBatch, KillSession, ResumeSession,
       EndBatch, KillAll, ResumeAll, Idle, At
  <2>3. ~(\/ EnsureRunning(p) \/ DecideVerdict(p) \/ Read(p) \/ Propose(p) \/ DenyByPolicy(p)
          \/ Simulate(p) \/ EscalateToApproval(p))
    BY <2>1 DEF At, EnsureRunning, DecideVerdict, Read, Propose, DenyByPolicy, Simulate,
       EscalateToApproval
  <2>4. ~(\/ Approve(p) \/ Reject(p) \/ ApproverRaises(p) \/ Hold(p) \/ Prepare(p))
    BY <2>1 DEF At, Asked, Approve, Reject, ApproverRaises, Hold, Prepare
  <2>5. ~(\/ Run(p) \/ LogFailed(p) \/ Observe(p) \/ Commit(p) \/ Account(p) \/ Deviate(p)
          \/ HaltOnDeviation(p) \/ CheckKillFile(p) \/ LogReleased(p) \/ LogDiscarded(p)
          \/ LogGlobalHalt(p) \/ UnlinkKillFile(p) \/ LogGlobalResume(p))
    BY <2>1 DEF At, Run, LogFailed, Observe, Commit, Account, Deviate, HaltOnDeviation,
       CheckKillFile, LogReleased, LogDiscarded, LogGlobalHalt, UnlinkKillFile, LogGlobalResume
  <2>6. ~(\/ LoadForUndo(p) \/ CheckConflict(p) \/ ApplyInverse(p) \/ LogUndone(p) \/ LogUndoFailed(p)
          \/ CollectActions(p) \/ UndoNext(p) \/ LogRollback(p))
    BY <2>1 DEF At, LoadForUndo, CheckConflict, ApplyInverse, LogUndone, LogUndoFailed,
       CollectActions, UndoNext, LogRollback
  <2>7. ~Interrupted(p)
    BY <2>1, ReturnOut DEF Interrupted
  <2>. QED
    BY <2>2, <2>3, <2>4, <2>5, <2>6, <2>7 DEF Continue
<1>. DEFINE a == frame[p].act
            v == IF Op[a].snapshot THEN StateOf(a) ELSE None
            h == [frame[p] EXCEPT !.pc = "prepare", !.reg = v]
<1>4. frame \in [Proc -> FrameType] /\ frame[p] \in FrameType
  BY FrameRecord
<1>5. CASE Become(p, h)
  <2>1. frame'[p].act = a /\ frame'[p].reg = v
    BY <1>4, <1>5 DEF Become, FrameType
  <2>2. v = StateOf(a)
    BY <2>1
  <2>3. Op[a] \in OpType
    BY <1>2, InHand DEF At, NoAction
  <2>4. StateOf(a) \in Value
    BY <2>3 DEF StateOf, TypeInv, TypeOK, OpType
  <2>. QED
    BY <2>1, <2>2, <2>4, GatewayAssumption
<1>6. CASE Raise(p)
  <2>1. \A f : Become(p, f) => frame'[p] = f
    BY <1>4 DEF Become
  <2>2. frame'[p].pc \in {"idle", "collect"}
    <3>1. CASE Become(p, IdleFrame(None, 0))
      BY <2>1, <3>1 DEF IdleFrame
    <3>2. ASSUME Become(p, [RollbackTo(IdleFrame(None, 0), frame[p].batch, frame[p].cp) EXCEPT !.job = "batch"])
          PROVE  frame'[p].pc = "collect"
      <4>. DEFINE c == [RollbackTo(IdleFrame(None, 0), frame[p].batch, frame[p].cp) EXCEPT !.job = "batch"]
      <4>1. c.pc = "collect"
        BY DEF RollbackTo, IdleFrame
      <4>2. frame'[p] = c
        BY <2>1, <3>2
      <4>. QED
        BY <4>1, <4>2
    <3>. QED
      BY <1>6, <3>1, <3>2 DEF Raise
  <2>. QED
    BY <2>2
<1>. QED
  BY <1>3, <1>5, <1>6 DEF TakeSnapshot

(* So the prepared entry holds the snapshot. *)
LEMMA SnapshotStep ==
    ASSUME TypeInv, SnapshotInv, [Next]_vars
    PROVE  SnapshotInv'
<1>1. ASSUME NEW p \in Proc, Begin(p) \/ Continue(p) PROVE SnapshotInv'
  <2>1. Step(p)
    BY <1>1, Steps
  <2>2. \A i \in PreparedPos' : Op[ledger'[i].act].snapshot => ledger'[i].val # None
    <3>1. CASE ledger' = ledger
      BY <3>1 DEF SnapshotInv, PreparedPos
    <3>2. ASSUME NEW e, Log(e),
                 e.kind = "prepared" => At(p, "prepare") /\ e.act = frame[p].act /\ e.val = frame[p].reg
          PROVE  \A i \in PreparedPos' : Op[ledger'[i].act].snapshot => ledger'[i].val # None
      <4>1. ExtendedByOne(e)
        BY <3>2, AppendsOne
      <4>2. ASSUME NEW i \in DOMAIN ledger, ledger'[i].kind = "prepared", Op[ledger'[i].act].snapshot
            PROVE  ledger'[i].val # None
        <5>1. ledger'[i] = ledger[i]
          BY <4>1 DEF ExtendedByOne
        <5>. QED
          BY <4>2, <5>1 DEF SnapshotInv, PreparedPos
      <4>3. e.kind = "prepared" /\ Op[e.act].snapshot => e.val # None
        BY <3>2 DEF SnapshotInv, At
      <4>4. \A i \in DOMAIN ledger' : i \in DOMAIN ledger \/ ledger'[i] = e
        BY <4>1 DEF ExtendedByOne
      <4>. QED
        BY <4>2, <4>3, <4>4 DEF PreparedPos
    <3>. QED
      BY <2>1, <3>1, <3>2, WhoPrepares
  <2>3. ASSUME NEW q \in Proc, frame'[q].pc = "prepare", Op[frame'[q].act].snapshot
        PROVE  frame'[q].reg # None
    <3>1. CASE q = p
      BY <1>1, <2>3, <3>1, PreparesSnapshot
    <3>2. CASE q # p
      BY <2>1, <2>3, <3>2, OthersSame DEF Same, SnapshotInv
    <3>. QED
      BY <3>1, <3>2
  <2>. QED
    BY <2>2, <2>3 DEF SnapshotInv
<1>2. CASE Environment \/ UNCHANGED vars
  <2>1. ledger' = ledger
    BY <1>2 DEF Environment, OutsideWrite, Crash, vars
  <2>2. \A q \in Proc : frame'[q] = frame[q] \/ frame'[q].pc = "idle"
    <3>1. IdleFrame(None, 0).pc = "idle"
      BY DEF IdleFrame
    <3>. QED
      BY <1>2, <3>1 DEF Environment, OutsideWrite, Crash, vars
  <2>. QED
    BY <2>1, <2>2 DEF SnapshotInv, PreparedPos
<1>. QED
  BY <1>1, <1>2 DEF Next

(* What a ledger says of an action once prepared it goes on saying. *)
Kept ==
    \A a \in Action : PreparedAt(ledger, a) # 0 =>
       /\ PreparedAt(ledger', a) = PreparedAt(ledger, a)
       /\ ledger'[PreparedAt(ledger, a)] = ledger[PreparedAt(ledger, a)]

LEMMA AppendKeeps ==
    ASSUME TypeInv, NEW e, ExtendedByOne(e)
    PROVE  Kept
<1>. SUFFICES ASSUME NEW a \in Action, PreparedAt(ledger, a) # 0
              PROVE  /\ PreparedAt(ledger', a) = PreparedAt(ledger, a)
                     /\ ledger'[PreparedAt(ledger, a)] = ledger[PreparedAt(ledger, a)]
  BY DEF Kept
<1>. DEFINE P == Positions(ledger, a, {"prepared"})
            Q == Positions(ledger', a, {"prepared"})
            n == Len(ledger)
<1>1. P \in SUBSET (0 .. n) /\ P \in SUBSET Nat /\ P \subseteq DOMAIN ledger /\ n \in Nat
  BY PositionsType DEF TypeInv, TypeOK
<1>2. P # {} /\ PreparedAt(ledger, a) = Min(P)
  BY DEF PreparedAt, FirstPos
<1>3. Q = P \/ Q = P \cup {n + 1}
  <2>1. Q = P \cup (IF e.act = a /\ e.kind \in {"prepared"} THEN {n + 1} ELSE {})
    BY PositionsAfter
  <2>. HIDE DEF P, Q
  <2>. QED
    BY <2>1
<1>4. Q # {} /\ PreparedAt(ledger', a) = Min(Q)
  BY <1>2, <1>3 DEF PreparedAt, FirstPos
<1>. HIDE DEF P, Q
<1>5. Min(P) \in P /\ \A y \in P : Min(P) <= y
  BY <1>1, <1>2, MinOfNaturals
<1>6. Q \in SUBSET Nat
  <2>1. n + 1 \in Nat
    BY <1>1
  <2>. QED
    BY <1>1, <1>3, <2>1
<1>7. Min(Q) \in Q /\ \A y \in Q : Min(Q) <= y
  BY <1>4, <1>6, MinOfNaturals
<1>8. Min(Q) = Min(P)
  <2>1. Min(P) \in Nat /\ Min(P) <= n /\ Min(Q) \in Nat
    <3>1. Min(P) \in 0 .. n
      BY <1>1, <1>5
    <3>2. Min(Q) \in Nat
      BY <1>6, <1>7
    <3>. QED
      BY <1>1, <3>1, <3>2
  <2>2. Min(P) \in Q
    BY <1>3, <1>5
  <2>3. Min(Q) <= Min(P)
    BY <1>7, <2>2
  <2>4. Min(Q) # n + 1
    BY <1>1, <2>1, <2>3
  <2>5. Min(Q) \in P
    BY <1>3, <1>7, <2>4
  <2>. QED
    BY <1>5, <2>1, <2>3, <2>5
<1>9. ledger'[Min(P)] = ledger[Min(P)]
  BY <1>1, <1>5 DEF ExtendedByOne
<1>. QED
  BY <1>2, <1>4, <1>8, <1>9

LEMMA StepKeeps ==
    ASSUME TypeInv, NEW p \in Proc, Step(p)
    PROVE  Kept
<1>1. CASE ledger' = ledger
  BY <1>1 DEF Kept
<1>2. ASSUME NEW e, Log(e) PROVE Kept
  BY <1>2, AppendsOne, AppendKeeps
<1>. QED
  BY <1>1, <1>2, WhoPrepares

(* So what is known of the work list, of its order and of what is back in  *)
(* place stays so.                                                         *)
LEMMA KnownKept ==
    ASSUME Kept, NEW f, Known(ledger, f)
    PROVE  /\ Known(ledger', f)
           /\ Ordered(ledger, f) => Ordered(ledger', f)
<1>1. \A a \in f.todo \cup Hand(f) \cup f.report.undone :
         /\ a \in Action /\ PreparedAt(ledger, a) # 0
         /\ PreparedAt(ledger', a) = PreparedAt(ledger, a)
  BY DEF Known, Kept
<1>2. Known(ledger', f)
  BY <1>1 DEF Known
<1>3. ASSUME Ordered(ledger, f) PROVE Ordered(ledger', f)
  BY <1>1, <1>3 DEF Ordered
<1>. QED
  BY <1>2, <1>3

LEMMA PutBackKept ==
    ASSUME Kept, NEW S \in SUBSET Action, \A a \in S : PreparedAt(ledger, a) # 0, NEW w,
           PutBack(ledger, w, S)
    PROVE  PutBack(ledger', w, S)
<1>1. \A a \in S : /\ PreparedAt(ledger', a) = PreparedAt(ledger, a)
                   /\ ledger'[PreparedAt(ledger, a)] = ledger[PreparedAt(ledger, a)]
  BY DEF Kept
<1>. QED
  BY <1>1 DEF PutBack

LEMMA DoneKnown ==
    ASSUME NEW log, NEW f, Known(log, f)
    PROVE  Done(f) \in SUBSET Action /\ \A a \in Done(f) : PreparedAt(log, a) # 0
<1>1. Done(f) \subseteq f.todo \cup Hand(f) \cup f.report.undone
  BY DEF Done, Hand, Undoing
<1>. QED
  BY <1>1 DEF Known

LEMMA LoopKept ==
    ASSUME Kept, world' = world, NEW f, Loop(ledger, world, f)
    PROVE  Loop(ledger', world', f)
<1>1. Known(ledger, f) /\ Ordered(ledger, f) /\ f.pc \in Undoing \cup {"next"}
  BY DEF Loop
<1>2. Known(ledger', f) /\ Ordered(ledger', f)
  BY <1>1, KnownKept
<1>3. f.pc \in {"check", "inverse"} => PreparedAt(ledger', f.act) <= f.seen
  <2>1. f.pc \in {"check", "inverse"} => PreparedAt(ledger, f.act) <= f.seen
    BY DEF Loop
  <2>2. f.pc \in {"check", "inverse"} => f.act \in Action /\ PreparedAt(ledger, f.act) # 0
    BY <1>1 DEF Known, Hand, Undoing
  <2>. QED
    BY <2>1, <2>2 DEF Kept
<1>4. ASSUME PutBack(ledger, world, Done(f)) PROVE PutBack(ledger', world', Done(f))
  BY <1>1, <1>4, DoneKnown, PutBackKept
<1>. QED
  BY <1>1, <1>2, <1>3, <1>4 DEF Loop

(* undo() restores what the prepared entry of its action holds. *)
LEMMA RestoresSnapshot ==
    ASSUME TypeInv, SnapshotInv, OnceInv, NEW p \in Proc, frame[p].pc = "inverse",
           frame[p].act \in Action, PreparedAt(ledger, frame[p].act) # 0,
           PreparedAt(ledger, frame[p].act) <= frame[p].seen, Op[frame[p].act].snapshot
    PROVE  Restored(p) = ledger[PreparedAt(ledger, frame[p].act)].val
<1>. DEFINE a == frame[p].act  k == PreparedAt(ledger, a)  log == Seen(p)
            i == LastPos(log, a, "prepared")  n == frame[p].seen
<1>1. log \in Seq(EntryType) /\ \A j \in DOMAIN log : j \in DOMAIN ledger /\ log[j] = ledger[j]
  BY SeenPrefix
<1>2. k \in DOMAIN ledger /\ ledger[k].act = a /\ ledger[k].kind = "prepared"
  BY FirstPosType DEF PreparedAt, TypeInv, TypeOK
<1>3. k \in DOMAIN log
  <2>1. ledger \in Seq(EntryType) /\ n \in Nat /\ n <= Len(ledger)
    BY DEF TypeInv, TypeOK, FrameType, FrameOK
  <2>2. log = SubSeq(ledger, 1, n)
    BY DEF Seen
  <2>. HIDE DEF log, n, k
  <2>3. DOMAIN log = 1 .. n /\ DOMAIN ledger = 1 .. Len(ledger)
    BY <2>1, <2>2
  <2>4. k <= n
    BY DEF k, n
  <2>5. k \in 1 .. Len(ledger)
    BY <1>2, <2>3
  <2>. QED
    BY <2>1, <2>3, <2>4, <2>5
<1>4. i # 0
  <2>1. k \in Positions(log, a, {"prepared"})
    BY <1>1, <1>2, <1>3 DEF Positions
  <2>2. Has(log, a, "prepared")
    BY <2>1 DEF Has
  <2>. HIDE DEF log, i
  <2>. QED
    BY <1>1, <2>2, LastPosType DEF i
<1>5. i \in DOMAIN log /\ log[i].act = a /\ log[i].kind = "prepared"
  <2>. HIDE DEF log
  <2>. QED
    BY <1>1, <1>4, LastPosType
<1>6. i = k
  <2>1. i \in Positions(ledger, a, {"prepared"}) /\ k \in Positions(ledger, a, {"prepared"})
    BY <1>1, <1>2, <1>5 DEF Positions
  <2>. QED
    BY <2>1 DEF OnceInv
<1>7. EntryValue(log, a, "prepared") = ledger[k].val
  <2>1. EntryValue(log, a, "prepared") = log[i].val
    BY <1>4 DEF EntryValue
  <2>. QED
    BY <1>1, <1>5, <1>6, <2>1
<1>8. ledger[k].val # None
  BY <1>2 DEF SnapshotInv, PreparedPos
<1>. QED
  BY <1>7, <1>8 DEF Restored

(* The place of an entry is a number. *)
LEMMA PreparedAtType ==
    ASSUME TypeInv, NEW a
    PROVE  PreparedAt(ledger, a) \in Nat /\ PreparedAt(ledger, a) <= Len(ledger)
<1>. DEFINE k == PreparedAt(ledger, a)
<1>1. k # 0 => k \in DOMAIN ledger
  BY FirstPosType DEF PreparedAt, TypeInv, TypeOK
<1>2. DOMAIN ledger = 1 .. Len(ledger) /\ Len(ledger) \in Nat
  BY DEF TypeInv, TypeOK
<1>. HIDE DEF k
<1>3. k = 0 \/ k \in 1 .. Len(ledger)
  BY <1>1, <1>2
<1>4. k \in Nat /\ k <= Len(ledger)
  BY <1>2, <1>3
<1>. QED
  BY <1>4 DEF k

(* The steps of a loop, one by one.  The work list is read: nothing is     *)
(* undone yet.                                                             *)
LEMMA BackCollects ==
    ASSUME TypeInv, NEW p \in Proc, Back(ledger, world, frame[p]), CollectActions(p)
    PROVE  Back(ledger', world', frame'[p])
<1>. DEFINE f == frame[p]  g == frame'[p]
<1>1. frame \in [Proc -> FrameType] /\ f \in FrameType
  BY FrameRecord
<1>2. /\ g.pc = "next" /\ g.report = f.report /\ g.todo = ToUndo(f.ses, f.to)
      /\ ledger' = ledger /\ world' = world /\ f.pc = "collect"
  BY <1>1 DEF CollectActions, At, Become, FrameType
<1>3. g.report.undone = {}
  BY <1>2 DEF Back, InTheLoop
<1>4. Hand(g) = {} /\ Done(g) = {}
  BY <1>2, <1>3 DEF Hand, Done, Undoing
<1>5. Known(ledger, g)
  <2>1. f.to \in Nat
    BY <1>1 DEF FrameType
  <2>2. \A a \in ToUndo(f.ses, f.to) : a \in Action /\ PreparedAt(ledger, a) # 0
    BY <2>1 DEF ToUndo, PreparedAt
  <2>. QED
    BY <1>2, <1>3, <1>4, <2>2 DEF Known
<1>6. Ordered(ledger, g)
  BY <1>3, <1>4 DEF Ordered
<1>7. PutBack(ledger, world, Done(g))
  BY <1>4 DEF PutBack
<1>8. Loop(ledger', world', g)
  BY <1>2, <1>5, <1>6, <1>7 DEF Loop
<1>. QED
  BY <1>3, <1>8 DEF Back

(* The newest of the list is taken in hand. *)
LEMMA BackTakes ==
    ASSUME TypeInv, NEW p \in Proc, InTheLoop(frame[p]), Loop(ledger, world, frame[p]), UndoNext(p)
    PROVE  Back(ledger', world', frame'[p])
<1>. DEFINE f == frame[p]  g == frame'[p]
<1>1. frame \in [Proc -> FrameType] /\ f \in FrameType
  BY FrameRecord
<1>2. PICK a \in Newest(f.todo) : Become(p, [f EXCEPT !.pc = "undo", !.act = a, !.todo = @ \ {a}])
  BY DEF UndoNext
<1>3. /\ g.pc = "undo" /\ g.act = a /\ g.todo = f.todo \ {a} /\ g.report = f.report /\ g.ses = f.ses
      /\ ledger' = ledger /\ world' = world /\ f.pc = "next"
  BY <1>1, <1>2 DEF UndoNext, At, Become, FrameType
<1>4. /\ Hand(f) = {} /\ Hand(g) = {a}
      /\ Done(f) = f.report.undone /\ Done(g) = f.report.undone
  BY <1>3 DEF Hand, Done, Undoing
<1>5. a \in f.todo /\ \A b \in f.todo : PreparedAt(ledger, b) <= PreparedAt(ledger, a)
  BY <1>2, PreparedAtType DEF Newest, PreparedAt
<1>6. Known(ledger, g)
  BY <1>3, <1>4, <1>5 DEF Loop, Known
<1>7. Ordered(ledger, g)
  BY <1>3, <1>4, <1>5 DEF Loop, Ordered
<1>8. g.report.failed = {} => PutBack(ledger, world, Done(g))
  BY <1>3, <1>4 DEF Loop
<1>9. Loop(ledger', world', g)
  BY <1>3, <1>6, <1>7, <1>8 DEF Loop, Undoing
<1>. QED
  BY <1>3, <1>9 DEF Back, InTheLoop

(* undo() is over and its outcome is filed: what was put back is reported. *)
LEMMA BackFiles ==
    ASSUME TypeInv, Kept, world' = world, NEW p \in Proc,
           InTheLoop(frame[p]), Loop(ledger, world, frame[p]), frame[p].pc \in Undoing,
           NEW outcome \in {"undone", "nothing", "skipped", "failed"}, UndoEnds(p, outcome),
           outcome = "undone" => frame[p].pc = "undone",
           frame[p].pc = "undone" => outcome \in {"undone", "failed"},
           frame[p].pc = "undo_failed" => outcome = "failed"
    PROVE  Back(ledger', world', frame'[p])
<1>. DEFINE f == frame[p]  g == frame'[p]
            Filed(field) == IF outcome = field THEN f.report[field] \cup {f.act} ELSE f.report[field]
            r == [undone |-> Filed("undone"), skipped |-> Filed("skipped"), failed |-> Filed("failed")]
            h == [f EXCEPT !.pc = "next", !.act = None, !.reg = None, !.seen = 0, !.report = r]
<1>1. frame \in [Proc -> FrameType] /\ f \in FrameType
  BY FrameRecord
<1>2. g = h
  BY <1>1 DEF UndoEnds, Become, InTheLoop
<1>3. /\ h.pc = "next" /\ h.ses = f.ses /\ h.todo = f.todo
      /\ h.report.undone = Filed("undone") /\ h.report.failed = Filed("failed")
  BY <1>1 DEF FrameType
<1>4. Filed("undone") = IF outcome = "undone" THEN f.report.undone \cup {f.act} ELSE f.report.undone
  OBVIOUS
<1>5. Filed("failed") = {} => outcome # "failed" /\ f.report.failed = {}
  OBVIOUS
<1>. HIDE DEF h, Filed
<1>6. /\ g.pc = "next" /\ g.ses = f.ses /\ g.todo = f.todo
      /\ g.report.undone \subseteq Done(f)
      /\ g.report.failed = {} => /\ f.pc # "undo_failed" /\ f.report.failed = {}
                                /\ g.report.undone = Done(f)
  BY <1>2, <1>3, <1>4, <1>5 DEF Done
<1>7. Hand(g) = {} /\ Done(g) = g.report.undone
  BY <1>6 DEF Hand, Undoing, Done
<1>8. Done(f) \subseteq Hand(f) \cup f.report.undone
  BY DEF Done, Hand, Undoing
<1>9. Known(ledger, g)
  BY <1>6, <1>7, <1>8 DEF Loop, Known
<1>10. Ordered(ledger, g)
  BY <1>6, <1>7, <1>8 DEF Loop, Ordered
<1>11. g.report.failed = {} => PutBack(ledger, world, Done(g))
  BY <1>6, <1>7 DEF Loop
<1>12. Loop(ledger, world, g)
  BY <1>6, <1>9, <1>10, <1>11 DEF Loop
<1>13. Loop(ledger', world', g)
  BY <1>12, LoopKept
<1>. QED
  BY <1>6, <1>13 DEF Back, InTheLoop

(* undo() goes on within the same action, the world as it was. *)
LEMMA BackGoesOn ==
    ASSUME TypeInv, ledger' = ledger, world' = world, NEW p \in Proc,
           InTheLoop(frame[p]), Loop(ledger, world, frame[p]), frame[p].pc \in {"undo", "check"},
           frame'[p].pc \in {"check", "inverse"},
           (frame'[p].seen = frame[p].seen /\ frame[p].pc = "check") \/ frame'[p].seen = Len(ledger),
           frame'[p].ses = frame[p].ses, frame'[p].act = frame[p].act,
           frame'[p].todo = frame[p].todo, frame'[p].report = frame[p].report
    PROVE  Back(ledger', world', frame'[p])
<1>. DEFINE f == frame[p]  g == frame'[p]
<1>1. Hand(g) = Hand(f) /\ Done(g) = Done(f)
  BY DEF Hand, Done, Undoing
<1>2. Known(ledger, g)
  BY <1>1 DEF Loop, Known
<1>3. Ordered(ledger, g)
  BY <1>1 DEF Loop, Ordered
<1>4. PreparedAt(ledger, g.act) <= g.seen
  BY PreparedAtType DEF Loop
<1>5. g.report.failed = {} => PutBack(ledger, world, Done(g))
  BY <1>1 DEF Loop
<1>6. Loop(ledger', world', g)
  BY <1>2, <1>3, <1>4, <1>5 DEF Loop, Undoing
<1>. QED
  BY <1>6 DEF Back, InTheLoop

(* The inverse puts back the snapshot of an action that is older than all  *)
(* those undone so far, or it fails.                                       *)
LEMMA BackApplies ==
    ASSUME TypeInv, SnapshotInv, OnceInv, NEW p \in Proc,
           InTheLoop(frame[p]), Loop(ledger, world, frame[p]), ApplyInverse(p)
    PROVE  Back(ledger', world', frame'[p])
<1>. DEFINE f == frame[p]  g == frame'[p]  a == f.act
<1>1. frame \in [Proc -> FrameType] /\ f \in FrameType
  BY FrameRecord
<1>2. f.pc = "inverse" /\ ledger' = ledger
  BY DEF ApplyInverse, At
<1>3. \/ Goto(p, "undone") /\ SetState(a, Restored(p))
      \/ Goto(p, "undo_failed")
  BY DEF ApplyInverse
<1>4. ASSUME NEW m, Goto(p, m)
      PROVE  /\ g.pc = m /\ g.ses = f.ses /\ g.act = a /\ g.todo = f.todo /\ g.report = f.report
             /\ g.seen = f.seen
  BY <1>1, <1>4 DEF Goto, Become, FrameType
<1>5. /\ g.pc \in {"undone", "undo_failed"}
      /\ g.ses = f.ses /\ g.act = a /\ g.todo = f.todo /\ g.report = f.report
  BY <1>3, <1>4
<1>6. Hand(g) = {a} /\ Hand(f) = {a} /\ Done(f) = f.report.undone
  BY <1>2, <1>5 DEF Hand, Undoing, Done
<1>7. Known(ledger', g)
  BY <1>2, <1>5, <1>6 DEF Loop, Known
<1>8. Ordered(ledger', g)
  BY <1>2, <1>5, <1>6 DEF Loop, Ordered
<1>9. ASSUME g.report.failed = {}, g.pc # "undo_failed" PROVE PutBack(ledger', world', Done(g))
  <2>1. g.pc = "undone" /\ SetState(a, Restored(p))
    BY <1>3, <1>4, <1>9
  <2>2. Done(g) = f.report.undone \cup {a}
    BY <1>5, <2>1 DEF Done
  <2>3. PutBack(ledger, world, f.report.undone)
    BY <1>2, <1>5, <1>6, <1>9 DEF Loop
  <2>4. a \in Action /\ PreparedAt(ledger, a) # 0 /\ PreparedAt(ledger, a) <= f.seen
    BY <1>2, <1>6 DEF Loop, Known
  <2>5. \A b \in f.report.undone : b \in Action /\ PreparedAt(ledger, a) <= PreparedAt(ledger, b)
    BY <1>6 DEF Loop, Known, Ordered
  <2>6. Op[a].res \in Resource /\ world \in [Resource -> Value]
    BY <2>4, GatewayAssumption DEF OpType, TypeInv, TypeOK
  <2>7. world' = [world EXCEPT ![Op[a].res] = Restored(p)]
    BY <2>1 DEF SetState
  <2>. SUFFICES ASSUME NEW b \in Done(g),
                       \A c \in Done(g) : Op[c].res = Op[b].res =>
                          Op[c].snapshot /\ PreparedAt(ledger, b) <= PreparedAt(ledger, c)
                PROVE  world'[Op[b].res] = ledger[PreparedAt(ledger, b)].val
    BY <1>2 DEF PutBack
  <2>8. CASE Op[b].res = Op[a].res
    <3>1. Op[a].snapshot /\ PreparedAt(ledger, b) <= PreparedAt(ledger, a)
      BY <2>2, <2>8
    <3>2. PreparedAt(ledger, b) = PreparedAt(ledger, a)
      BY <2>2, <2>5, <3>1, PreparedAtType
    <3>3. Restored(p) = ledger[PreparedAt(ledger, a)].val
      BY <1>2, <2>4, <3>1, RestoresSnapshot
    <3>4. world'[Op[a].res] = Restored(p)
      BY <2>6, <2>7
    <3>. QED
      BY <2>8, <3>2, <3>3, <3>4
  <2>9. CASE Op[b].res # Op[a].res
    <3>1. b \in f.report.undone
      BY <2>2, <2>9
    <3>2. world[Op[b].res] = ledger[PreparedAt(ledger, b)].val
      BY <2>2, <2>3, <3>1 DEF PutBack
    <3>3. Op[b].res \in Resource
      BY <2>5, <3>1, GatewayAssumption DEF OpType
    <3>4. world'[Op[b].res] = world[Op[b].res]
      BY <2>6, <2>7, <2>9, <3>3
    <3>. QED
      BY <3>2, <3>4
  <2>. QED
    BY <2>8, <2>9
<1>10. Loop(ledger', world', g)
  BY <1>5, <1>7, <1>8, <1>9 DEF Loop, Undoing
<1>. QED
  BY <1>5, <1>10 DEF Back, InTheLoop

(* A step of the loop. *)
LEMMA BackOwn ==
    ASSUME TypeInv, SnapshotInv, OnceInv, NEW p \in Proc, Kept,
           frame[p].ses # None, Back(ledger, world, frame[p]), LoopStep(p)
    PROVE  Back(ledger', world', frame'[p])
<1>. DEFINE f == frame[p]  g == frame'[p]
<1>1. frame \in [Proc -> FrameType] /\ f \in FrameType
  BY FrameRecord
<1>2. f.pc # "collect" => InTheLoop(f) /\ Loop(ledger, world, f)
  BY DEF Back, InTheLoop
<1>3. CASE CollectActions(p)
  BY <1>3, BackCollects
<1>4. CASE UndoNext(p)
  BY <1>2, <1>4, BackTakes DEF UndoNext, At
<1>5. CASE LogRollback(p)
  <2>1. Outside(p) /\ g.report = EmptyReport
    BY <1>5, EndsOutside DEF LogRollback
  <2>. QED
    BY <2>1 DEF Outside, Back, InTheLoop, EmptyReport
<1>6. ASSUME NEW outcome \in {"undone", "nothing", "skipped", "failed"}, UndoEnds(p, outcome), world' = world,
             f.pc \in Undoing,
             outcome = "undone" => f.pc = "undone",
             f.pc = "undone" => outcome \in {"undone", "failed"},
             f.pc = "undo_failed" => outcome = "failed"
      PROVE  Back(ledger', world', g)
  BY <1>2, <1>6, BackFiles DEF Undoing
<1>7. CASE LoadForUndo(p)
  <2>. DEFINE answer == UndoAnswer(ledger, f.act)
  <2>1. f.pc = "undo" /\ ledger' = ledger /\ world' = world
    BY <1>7 DEF LoadForUndo, At
  <2>2. answer \in {"nothing", "failed", "skipped", "go"}
    BY DEF UndoAnswer
  <2>3. CASE answer = "go"
    <3>1. PICK x : x \in {"check", "inverse"} /\ Become(p, [f EXCEPT !.seen = Len(ledger), !.pc = x])
      BY <1>7, <2>3 DEF LoadForUndo
    <3>2. g = [f EXCEPT !.seen = Len(ledger), !.pc = x]
      BY <1>1, <3>1 DEF Become
    <3>3. /\ g.pc \in {"check", "inverse"} /\ g.seen = Len(ledger)
          /\ g.ses = f.ses /\ g.act = f.act /\ g.todo = f.todo /\ g.report = f.report
      BY <1>1, <3>1, <3>2 DEF FrameType
    <3>. QED
      BY <1>2, <2>1, <3>3, BackGoesOn
  <2>4. CASE answer # "go"
    <3>1. UndoEnds(p, answer)
      BY <1>7, <2>4 DEF LoadForUndo
    <3>. HIDE DEF answer
    <3>2. answer \in {"nothing", "failed", "skipped"}
      BY <2>2, <2>4
    <3>. QED
      BY <1>6, <2>1, <3>1, <3>2 DEF Undoing
  <2>. QED
    BY <2>3, <2>4
<1>8. CASE CheckConflict(p)
  <2>1. f.pc = "check" /\ ledger' = ledger /\ world' = world
    BY <1>8 DEF CheckConflict, At
  <2>2. CASE Goto(p, "inverse")
    <3>1. /\ g.pc = "inverse" /\ g.seen = f.seen
          /\ g.ses = f.ses /\ g.act = f.act /\ g.todo = f.todo /\ g.report = f.report
      BY <1>1, <2>2 DEF Goto, Become, FrameType
    <3>. QED
      BY <1>2, <2>1, <3>1, BackGoesOn
  <2>3. CASE UndoEnds(p, "failed")
    BY <1>6, <2>1, <2>3 DEF Undoing
  <2>. QED
    BY <1>8, <2>2, <2>3 DEF CheckConflict
<1>9. CASE ApplyInverse(p)
  BY <1>2, <1>9, BackApplies DEF ApplyInverse, At
<1>10. CASE LogUndone(p)
  BY <1>6, <1>10 DEF LogUndone, At, Undoing
<1>11. CASE LogUndoFailed(p)
  BY <1>6, <1>11 DEF LogUndoFailed, At, Undoing
<1>12. CASE Interrupted(p)
  <2>1. CASE Raise(p)
    <3>1. Outside(p) /\ g.report = EmptyReport
      BY <2>1, EndsOutside
    <3>. QED
      BY <3>1 DEF Outside, Back, InTheLoop, EmptyReport
  <2>2. CASE f.pc \in {"undo", "undone", "undo_failed"} /\ UndoEnds(p, "failed")
    BY <1>6, <1>12, <2>2 DEF Interrupted, Undoing
  <2>. QED
    BY <1>12, <2>1, <2>2 DEF Interrupted
<1>. QED
  BY <1>3, <1>4, <1>5, <1>7, <1>8, <1>9, <1>10, <1>11, <1>12 DEF LoopStep

(* Nobody else disturbs a loop while the world is left alone. *)
LEMMA BackStep ==
    ASSUME TypeInv, SnapshotInv, OnceInv, BackInv, [Next]_vars,
           LeavesWorldAlone
    PROVE  BackInv'
<1>1. ASSUME NEW p \in Proc, frame'[p] = frame[p], Kept
      PROVE  Back(ledger', world', frame'[p])
  <2>1. Back(ledger, world, frame[p])
    BY DEF BackInv
  <2>2. CASE InTheLoop(frame[p])
    BY <1>1, <2>1, <2>2, LoopKept DEF Back, LeavesWorldAlone
  <2>3. CASE ~InTheLoop(frame[p])
    BY <1>1, <2>1, <2>3 DEF Back
  <2>. QED
    BY <2>2, <2>3
<1>2. ASSUME NEW q \in Proc, Begin(q) \/ Continue(q), NEW p \in Proc
      PROVE  Back(ledger', world', frame'[p])
  <2>0. Step(q) /\ Kept /\ Back(ledger, world, frame[p])
    BY <1>2, Steps, StepKeeps DEF BackInv
  <2>1. CASE p # q
    BY <1>1, <2>0, <2>1, OthersSame DEF Same
  <2>2. CASE p = q /\ frame[p].ses = None
    <3>1. frame[p].report.undone = {}
      BY <2>0, <2>2 DEF Back, InTheLoop
    <3>2. Outside(p)
      BY <1>2, <2>2, StaysOutside
    <3>3. frame'[p].report.undone = {} /\ ~InTheLoop(frame'[p])
      BY <3>1, <3>2 DEF Outside, InTheLoop, EmptyReport
    <3>. QED
      BY <3>3 DEF Back
  <2>3. CASE p = q /\ frame[p].ses # None
    <3>1. frame[p].pc \in Undoing \cup {"next", "collect"}
      BY <2>0, <2>3 DEF Back, Loop, InTheLoop
    <3>. QED
      BY <1>2, <2>0, <2>3, <3>1, InLoop, BackOwn
  <2>. QED
    BY <2>1, <2>2, <2>3
<1>3. ASSUME Environment \/ UNCHANGED vars, NEW p \in Proc
      PROVE  Back(ledger', world', frame'[p])
  <2>1. Kept
    <3>1. ledger' = ledger
      BY <1>3 DEF Environment, OutsideWrite, Crash, vars
    <3>. QED
      BY <3>1 DEF Kept
  <2>2. CASE frame'[p] = frame[p]
    BY <1>1, <2>1, <2>2
  <2>3. CASE frame'[p] = IdleFrame(None, 0)
    <3>1. IdleFrame(None, 0).ses = None /\ IdleFrame(None, 0).report.undone = {}
      BY DEF IdleFrame, EmptyReport
    <3>. QED
      BY <2>3, <3>1 DEF Back, InTheLoop
  <2>. QED
    BY <1>3, <2>2, <2>3 DEF Environment, OutsideWrite, Crash, vars
<1>. QED
  BY <1>2, <1>3 DEF Next, BackInv

(* OnceInv is kept by every step. *)
LEMMA OnceKept ==
    ASSUME TypeInv, HaltInv, AuthInv, StatusInv, OneHand, OnceInv, [Next]_vars
    PROVE  OnceInv'
<1>1. CASE ledger' = ledger
  BY <1>1 DEF OnceInv
<1>2. ASSUME NEW p \in Proc, Begin(p) \/ Continue(p) PROVE OnceInv'
  <2>1. Step(p) /\ GivenOut /\ \A q \in Proc : RightJob(q)
    BY <1>2, Steps DEF AuthInv, HaltInv
  <2>2. LifecycleStep
    BY <2>1, StepIsEdge
  <2>3. ASSUME NEW e, Log(e) PROVE OnceInv'
    BY <2>2, <2>3, AppendsOne, OnceStep
  <2>. QED
    BY <1>1, <2>1, <2>3, WhoPrepares
<1>3. CASE Environment \/ UNCHANGED vars
  BY <1>1, <1>3, StatusElse
<1>. QED
  BY <1>2, <1>3 DEF Next

(* When the loop ends without a failure, each resource holds what it held  *)
(* before the oldest of the undone actions.                                *)
LEMMA EndsRestored ==
    ASSUME TypeInv, BackInv, NEW p \in Proc, RollbackEnds(p), frame[p].report.failed = {},
           NEW r \in Resource
    PROVE  LET span == {i \in PreparedPos : /\ ledger[i].act \in frame[p].report.undone
                                            /\ Op[ledger[i].act].res = r}
           IN  span # {} /\ (\A i \in span : Op[ledger[i].act].snapshot)
                  => world[r] = ledger[Min(span)].val
<1>. DEFINE f == frame[p]
            U == f.report.undone
            span == {i \in PreparedPos : ledger[i].act \in U /\ Op[ledger[i].act].res = r}
<1>. SUFFICES ASSUME span # {}, \A i \in span : Op[ledger[i].act].snapshot
              PROVE  world[r] = ledger[Min(span)].val
  OBVIOUS
<1>1. f.pc = "next" /\ Back(ledger, world, f)
  BY DEF RollbackEnds, At, BackInv
<1>2. InTheLoop(f)
  BY <1>1 DEF Back
<1>3. Loop(ledger, world, f) /\ Done(f) = U
  BY <1>1, <1>2 DEF Back, Done
<1>4. PutBack(ledger, world, U) /\ Known(ledger, f)
  BY <1>1, <1>3 DEF Loop
<1>5. \A a \in U : PreparedAt(ledger, a) # 0
  BY <1>4 DEF Known
<1>6. \A i \in DOMAIN ledger : i \in Nat
  BY DEF TypeInv, TypeOK
<1>7. span \in SUBSET Nat
  BY <1>6 DEF PreparedPos
<1>8. Min(span) \in span /\ \A i \in span : Min(span) <= i
  <2>. HIDE DEF span
  <2>. QED
    BY <1>7, MinOfNaturals
<1>. DEFINE m == Min(span)  a == ledger[m].act
<1>9. m \in DOMAIN ledger /\ ledger[m].kind = "prepared" /\ a \in U /\ Op[a].res = r
  BY <1>8 DEF PreparedPos
<1>10. ASSUME NEW b \in U, Op[b].res = r
       PROVE  /\ PreparedAt(ledger, b) \in span
              /\ ledger[PreparedAt(ledger, b)].act = b
  <2>. DEFINE k == PreparedAt(ledger, b)
  <2>1. k \in DOMAIN ledger /\ ledger[k].act = b /\ ledger[k].kind = "prepared"
    BY <1>5, FirstPosType DEF PreparedAt, TypeInv, TypeOK
  <2>. HIDE DEF k
  <2>2. k \in span
    BY <1>10, <2>1 DEF PreparedPos
  <2>. QED
    BY <2>1, <2>2 DEF k
<1>11. PreparedAt(ledger, a) <= m
  <2>. DEFINE P == Positions(ledger, a, {"prepared"})
  <2>1. m \in P
    BY <1>9 DEF Positions
  <2>2. PreparedAt(ledger, a) = Min(P)
    BY <2>1 DEF PreparedAt, FirstPos
  <2>3. P \in SUBSET Nat
    BY <1>6 DEF Positions
  <2>. HIDE DEF P, m, a
  <2>. QED
    BY <2>1, <2>2, <2>3, MinOfNaturals
<1>. HIDE DEF span, U, m
<1>12. PreparedAt(ledger, a) = m
  <2>1. m <= PreparedAt(ledger, a)
    BY <1>8, <1>9, <1>10 DEF m
  <2>2. m \in Nat /\ PreparedAt(ledger, a) \in Nat
    BY <1>6, <1>9, PreparedAtType
  <2>. HIDE DEF a
  <2>. QED
    BY <1>11, <2>1, <2>2
<1>13. \A b \in U : Op[b].res = Op[a].res => Op[b].snapshot /\ PreparedAt(ledger, a) <= PreparedAt(ledger, b)
  BY <1>8, <1>9, <1>10, <1>12 DEF m
<1>14. world[Op[a].res] = ledger[PreparedAt(ledger, a)].val
  BY <1>4, <1>9, <1>13 DEF PutBack
<1>. QED
  BY <1>9, <1>12, <1>14 DEF m

(* A rollback puts back what it undoes, whatever the other processes do to *)
(* the ledger in the meantime: newest first, and each snapshot once.  What *)
(* is needed of the others is that they leave the world alone while it     *)
(* goes on, and that no two methods are in the middle of the same action.  *)
(* Neither the check for conflicts nor the absence of force is needed      *)
(* (core.py rollback, undo).                                               *)
THEOREM RollbackPutsBack == Spec /\ []OneHand /\ WorldLeftAlone => RollbackRestores
<1>1. Init => StatusInv /\ OnceInv /\ SnapshotInv /\ BackInv
  <2>. SUFFICES ASSUME Init PROVE StatusInv /\ OnceInv /\ SnapshotInv /\ BackInv
    OBVIOUS
  <2>1. StatusInv
    BY DEF Init, IdleFrame, StatusInv, FrameStatus, Midway, NoAction
  <2>2. OnceInv
    BY DEF Init, OnceInv, Has, Positions
  <2>3. SnapshotInv
    BY DEF Init, IdleFrame, SnapshotInv, PreparedPos
  <2>4. BackInv
    BY DEF Init, IdleFrame, BackInv, Back, InTheLoop, EmptyReport
  <2>. QED
    BY <2>1, <2>2, <2>3, <2>4
<1>2. ASSUME TypeInv, HaltInv, AuthInv, StatusInv, OneHand, OnceInv, SnapshotInv, BackInv,
             [Next]_vars, [LeavesWorldAlone]_vars
      PROVE  StatusInv' /\ OnceInv' /\ SnapshotInv' /\ BackInv'
  <2>1. LeavesWorldAlone
    BY <1>2 DEF LeavesWorldAlone, vars
  <2>2. StatusInv'
    BY <1>2, StatusStep
  <2>3. OnceInv'
    BY <1>2, OnceKept
  <2>4. SnapshotInv'
    BY <1>2, SnapshotStep
  <2>5. BackInv'
    BY <1>2, <2>1, BackStep
  <2>. QED
    BY <2>2, <2>3, <2>4, <2>5
<1>3. TypeInv /\ BackInv =>
        \A p \in Proc :
          /\ RollbackEnds(p)
          /\ frame[p].report.skipped = {} /\ frame[p].report.failed = {}
          /\ Untouched({"force"})
          => \A r \in Resource :
                LET span == {i \in PreparedPos : /\ ledger[i].act \in frame[p].report.undone
                                                 /\ Op[ledger[i].act].res = r}
                IN  span # {} /\ (\A i \in span : Op[ledger[i].act].snapshot)
                       => world[r] = ledger[Min(span)].val
  BY EndsRestored
<1>4. Spec => [](TypeInv /\ HaltInv /\ AuthInv)
  BY Halting, Authority, PTL
<1>. QED
  BY <1>1, <1>2, <1>3, <1>4, PTL DEF Spec, RollbackRestores, WorldLeftAlone

-----------------------------------------------------------------------------
(* What an undo replaces: NoSilentOverwrite as a theorem.  A state passes  *)
(* from the world into the register of a frame, from there into a          *)
(* "committed" entry, and is looked for in the world again by the check of *)
(* an undo.  On the way it is what a run has left, or else somebody came   *)
(* between while it was in the world only.                                 *)

Own(a, v) == v \in left[a] \/ a \in disturbed

EntryOwn(e) ==
    e.kind = "committed" /\ e.val \in Value =>
       e.act \in Action /\ Op[e.act].observe /\ Own(e.act, e.val)

Expected(p) == EntryValue(Seen(p), frame[p].act, "committed")

FrameOwn(p) ==
    LET a == frame[p].act IN
    /\ At(p, "observe") => Own(a, StateOf(a))
    /\ At(p, "commit") /\ frame[p].reg \in Value => Op[a].observe /\ Own(a, frame[p].reg)
    /\ At(p, "inverse") /\ ~frame[p].force /\ Expected(p) \in Value
          => StateOf(a) = Expected(p) \/ a \in disturbed

TurnInv ==
    /\ \A i \in DOMAIN ledger : EntryOwn(ledger[i])
    /\ \A p \in Proc : FrameOwn(p)

(* What an action left, and what disturbed it, stays so. *)
LEMMA OwnKept ==
    ASSUME Watch, NEW a \in Action, NEW v, Own(a, v)
    PROVE  v \in left'[a] \/ a \in disturbed'
BY DEF Watch, Own

(* While a process waits, the state it relies on stays, or it is disturbed. *)
LEMMA RelyKept ==
    ASSUME Watch, NEW p \in Proc, frame'[p] = frame[p], Relies(p)
    PROVE  \/ world'[Op[frame[p].act].res] = world[Op[frame[p].act].res]
           \/ frame[p].act \in disturbed'
BY DEF Watch, ComesBetween

(* What undo() has read stays what it was. *)
LEMMA SeenStays ==
    ASSUME TypeInv, NEW p \in Proc, frame[p].pc = "inverse", frame'[p] = frame[p],
           ledger' = ledger \/ \E e : Log(e)
    PROVE  Seen(p)' = Seen(p)
<1>. DEFINE n == frame[p].seen
<1>1. ledger \in Seq(EntryType) /\ n \in Nat /\ n <= Len(ledger)
  BY DEF TypeInv, TypeOK, FrameType, FrameOK
<1>2. Seen(p) = SubSeq(ledger, 1, n) /\ Seen(p)' = SubSeq(ledger', 1, n)
  BY DEF Seen
<1>3. ASSUME NEW e, Log(e) PROVE SubSeq(ledger', 1, n) = SubSeq(ledger, 1, n)
  <2>. DEFINE S == EntryType \cup {e}
  <2>1. ledger \in Seq(S) /\ e \in S
    BY <1>1
  <2>2. ledger' = Append(ledger, e)
    BY <1>3 DEF Log
  <2>. HIDE DEF n, S
  <2>. QED
    BY <1>1, <2>1, <2>2
<1>. QED
  BY <1>2, <1>3

(* A process that waits keeps what is known of its frame. *)
LEMMA WaitingOwn ==
    ASSUME TypeInv, Watch, NEW p \in Proc, FrameOwn(p), frame'[p] = frame[p],
           ledger' = ledger \/ \E e : Log(e)
    PROVE  FrameOwn(p)'
<1>. DEFINE a == frame[p].act
<1>1. frame[p].pc \in {"observe", "commit", "inverse"} => a \in Action
  BY InHand DEF NoAction
<1>2. CASE frame[p].pc = "observe"
  <2>1. Own(a, StateOf(a))
    BY <1>2 DEF FrameOwn, At
  <2>2. StateOf(a) \in left'[a] \/ a \in disturbed'
    BY <1>1, <1>2, <2>1, OwnKept
  <2>3. world'[Op[a].res] = world[Op[a].res] \/ a \in disturbed'
    BY <1>2, RelyKept DEF Relies
  <2>. QED
    BY <1>2, <2>2, <2>3 DEF FrameOwn, At, Own, StateOf
<1>3. CASE frame[p].pc = "commit"
  <2>1. frame[p].reg \in Value => Op[a].observe /\ Own(a, frame[p].reg)
    BY <1>3 DEF FrameOwn, At
  <2>2. frame[p].reg \in Value => frame[p].reg \in left'[a] \/ a \in disturbed'
    BY <1>1, <1>3, <2>1, OwnKept
  <2>. QED
    BY <1>3, <2>1, <2>2 DEF FrameOwn, At, Own
<1>4. CASE frame[p].pc = "inverse"
  <2>1. ~frame[p].force /\ Expected(p) \in Value => StateOf(a) = Expected(p) \/ a \in disturbed
    BY <1>4 DEF FrameOwn, At
  <2>2. world'[Op[a].res] = world[Op[a].res] \/ a \in disturbed'
    BY <1>4, RelyKept DEF Relies
  <2>3. disturbed \subseteq disturbed'
    BY DEF Watch
  <2>4. Expected(p)' = Expected(p)
    BY <1>4, SeenStays DEF Expected
  <2>. QED
    BY <1>4, <2>1, <2>2, <2>3, <2>4 DEF FrameOwn, At, StateOf
<1>. QED
  BY <1>2, <1>3, <1>4 DEF FrameOwn, At

(* Where the labels at which a state is relied on are reached from. *)
LEMMA WhoRelies ==
    ASSUME TypeInv, NEW p \in Proc, Begin(p) \/ Continue(p)
    PROVE  /\ frame'[p].pc = "observe" => Goes(p, "run", "observe")
           /\ frame'[p].pc = "commit" => At(p, "observe")
           /\ frame'[p].pc = "inverse" => At(p, "undo") \/ At(p, "check")
<1>. DEFINE g == frame'[p]
<1>. SUFFICES ASSUME g.pc \in {"observe", "commit", "inverse"}
              PROVE  \/ Goes(p, "run", "observe")
                     \/ g.pc = "commit" /\ At(p, "observe")
                     \/ g.pc = "inverse" /\ (At(p, "undo") \/ At(p, "check"))
  BY DEF Goes
<1>1. ~OutStep(p)
  BY DEF NoAction, OutStep, Stops, Refused, Marks, KillsAll, ResumesAll, Unlinks, Closes, OutToWork, Out
<1>2. ~(\E a \in Action : Calls(p, a) \/ PicksUp(p, a))
  BY DEF Calls, PicksUp
<1>3. ~TurnsToUndo(p) /\ ~PassesKillSwitch(p) /\ ~Decides(p) /\ ~Accounts(p)
  BY DEF NoAction, TurnsToUndo, PassesKillSwitch, Decides, Accounts, Goes, OutToWork, Out
<1>4. ~LoggedMove(p)
  BY DEF LoggedMove, Proposes, Simulates, Escalates, IsApproved, IsReleased, Prepares, Commits,
     ReportsDeviation, Goes
<1>5. CASE Jumps(p)
  <2>1. PICK j \in Jump : Goes(p, j[1], j[2])
    BY <1>5 DEF Jumps
  <2>. QED
    BY <2>1 DEF Jump, Goes
<1>6. CASE Reads(p)
  BY <1>6 DEF Reads
<1>7. CASE LoadsForUndo(p)
  BY <1>7 DEF LoadsForUndo
<1>. QED
  BY <1>1, <1>2, <1>3, <1>4, <1>5, <1>6, <1>7, Steps DEF Step, SilentStep

(* And by which step. *)
LEMMA HowRelies ==
    ASSUME TypeInv, NEW p \in Proc, Begin(p) \/ Continue(p)
    PROVE  /\ frame'[p].pc = "commit" => Observe(p)
           /\ frame'[p].pc = "inverse" => LoadForUndo(p) \/ CheckConflict(p)
<1>. SUFFICES ASSUME frame'[p].pc \in {"commit", "inverse"}
              PROVE  \/ frame'[p].pc = "commit" /\ Observe(p)
                     \/ frame'[p].pc = "inverse" /\ (LoadForUndo(p) \/ CheckConflict(p))
  OBVIOUS
<1>1. \/ frame'[p].pc = "commit" /\ frame[p].pc = "observe"
      \/ frame'[p].pc = "inverse" /\ frame[p].pc \in {"undo", "check"}
  BY WhoRelies DEF At
<1>2. ~Begin(p)
  BY <1>1 DEF Begin, Call, Release, Discard, Undo, Rollback, BeginBatch, KillSession, ResumeSession,
     EndBatch, KillAll, ResumeAll, Idle, At
<1>3. ~(\/ EnsureRunning(p) \/ DecideVerdict(p) \/ Read(p) \/ Propose(p) \/ DenyByPolicy(p)
        \/ Simulate(p) \/ EscalateToApproval(p))
  BY <1>1 DEF At, EnsureRunning, DecideVerdict, Read, Propose, DenyByPolicy, Simulate,
     EscalateToApproval
<1>4. ~(\/ Approve(p) \/ Reject(p) \/ ApproverRaises(p) \/ Hold(p) \/ TakeSnapshot(p) \/ Prepare(p))
  BY <1>1 DEF At, Asked, Approve, Reject, ApproverRaises, Hold, TakeSnapshot, Prepare
<1>5. ~(\/ Run(p) \/ LogFailed(p) \/ Commit(p) \/ Account(p) \/ Deviate(p)
        \/ HaltOnDeviation(p) \/ CheckKillFile(p) \/ LogReleased(p) \/ LogDiscarded(p)
        \/ LogGlobalHalt(p) \/ UnlinkKillFile(p) \/ LogGlobalResume(p))
  BY <1>1 DEF At, Run, LogFailed, Commit, Account, Deviate, HaltOnDeviation,
     CheckKillFile, LogReleased, LogDiscarded, LogGlobalHalt, UnlinkKillFile, LogGlobalResume
<1>6. ~(\/ ApplyInverse(p) \/ LogUndone(p) \/ LogUndoFailed(p)
        \/ CollectActions(p) \/ UndoNext(p) \/ LogRollback(p))
  BY <1>1 DEF At, ApplyInverse, LogUndone, LogUndoFailed, CollectActions, UndoNext, LogRollback
<1>7. ~Interrupted(p)
  <2>1. frame'[p].pc \notin NoAction
    BY DEF NoAction
  <2>. QED
    BY <2>1, ReturnOut, UndoEndsOut DEF Interrupted, OutToWork, Out
<1>8. /\ Observe(p) => frame[p].pc = "observe"
      /\ LoadForUndo(p) => frame[p].pc = "undo"
      /\ CheckConflict(p) => frame[p].pc = "check"
  BY DEF Observe, LoadForUndo, CheckConflict, At
<1>. QED
  BY <1>1, <1>2, <1>3, <1>4, <1>5, <1>6, <1>7, <1>8 DEF Continue

(* The process that moves has what it relies on from the step it takes. *)
LEMMA MovingOwn ==
    ASSUME TypeInv, TypeInv', TurnInv, Watch, NEW p \in Proc, Begin(p) \/ Continue(p)
    PROVE  FrameOwn(p)'
<1>. DEFINE f == frame[p]  a == frame[p].act  g == frame'[p]
<1>0. f \in FrameType /\ frame \in [Proc -> FrameType]
  BY FrameRecord
<1>1. CASE g.pc = "observe"
  <2>1. Goes(p, "run", "observe")
    BY <1>1, WhoRelies
  <2>2. g.act = a /\ At(p, "run") /\ a \in Action
    BY <2>1, InHand DEF Goes, KeepsHand, At, NoAction
  <2>3. Ran(p)
    BY <1>1, <2>2 DEF Ran
  <2>4. world'[Op[a].res] \in Leaves(a)
    BY <2>3 DEF Leaves
  <2>5. world'[Op[a].res] \in left'[a]
    BY <2>2, <2>4 DEF Watch
  <2>. QED
    BY <1>1, <2>2, <2>5 DEF FrameOwn, At, Own, StateOf
<1>2. CASE g.pc = "commit"
  <2>1. Observe(p) /\ f.pc = "observe"
    BY <1>2, HowRelies DEF Observe, At
  <2>2. a \in Action
    BY <2>1, InHand DEF NoAction
  <2>3. \/ g = [f EXCEPT !.pc = "commit", !.reg = IF Op[a].observe THEN StateOf(a) ELSE None]
        \/ g = [f EXCEPT !.pc = "commit", !.reg = ObsError]
    BY <1>0, <2>1 DEF Observe, Become
  <2>4. g.act = a /\ (g.reg \in Value => Op[a].observe /\ g.reg = StateOf(a))
    BY <1>0, <2>3, GatewayAssumption DEF FrameType
  <2>5. Own(a, StateOf(a))
    BY <2>1 DEF TurnInv, FrameOwn, At
  <2>6. StateOf(a) \in left'[a] \/ a \in disturbed'
    BY <2>2, <2>5, OwnKept
  <2>. QED
    BY <1>2, <2>4, <2>6 DEF FrameOwn, At, Own
<1>3. CASE g.pc = "inverse" /\ CheckConflict(p)
  <2>1. f.pc = "check" /\ "inverse" \notin NoAction
    BY <1>3 DEF CheckConflict, At, NoAction
  <2>2. PICK c \in {StateOf(a), ObsError} :
           IF c = Expected(p) THEN Goto(p, "inverse") ELSE UndoEnds(p, "failed")
    BY <1>3 DEF CheckConflict, Expected
  <2>3. c = Expected(p) /\ Goto(p, "inverse")
    BY <1>3, <2>1, <2>2, UndoEndsOut DEF OutToWork, Out
  <2>4. g = [f EXCEPT !.pc = "inverse"]
    BY <1>0, <2>3 DEF Goto, Become
  <2>5. g.act = a /\ g.seen = f.seen
    BY <1>0, <2>4 DEF FrameType
  <2>6. UNCHANGED <<ledger, world>>
    BY <1>3 DEF CheckConflict
  <2>7. Expected(p)' = Expected(p) /\ StateOf(a)' = StateOf(a)
    BY <2>5, <2>6 DEF Expected, Seen, StateOf
  <2>8. Expected(p) \in Value => StateOf(a) = Expected(p)
    BY <2>3, GatewayAssumption
  <2>. QED
    BY <1>3, <2>5, <2>6, <2>7, <2>8 DEF FrameOwn, At, StateOf
<1>4. CASE g.pc = "inverse" /\ LoadForUndo(p)
  <2>. DEFINE h == [f EXCEPT !.seen = Len(ledger),
                             !.pc = IF NeedsCheck(ledger, a) /\ ~f.force THEN "check" ELSE "inverse"]
  <2>1. "inverse" \notin NoAction
    BY DEF NoAction
  <2>2. Become(p, h)
    BY <1>4, <2>1, UndoEndsOut DEF LoadForUndo, OutToWork, Out
  <2>3. g = h
    BY <1>0, <2>2 DEF Become
  <2>4. /\ g.act = a /\ g.seen = Len(ledger) /\ g.force = f.force
        /\ ~NeedsCheck(ledger, a) \/ f.force
    BY <1>0, <1>4, <2>3 DEF FrameType
  <2>5. ledger \in Seq(EntryType) /\ ledger' = ledger
    BY <1>4 DEF LoadForUndo, TypeInv, TypeOK
  <2>6. Expected(p)' = EntryValue(ledger, a, "committed")
    <3>1. Seen(p)' = ledger
      BY <2>4, <2>5 DEF Seen
    <3>. QED
      BY <2>4, <3>1 DEF Expected
  <2>7. EntryValue(ledger, a, "committed") \in Value => Op[a].observe
    <3>1. \A i \in DOMAIN ledger : EntryOwn(ledger[i])
      BY DEF TurnInv
    <3>. QED
      BY <2>5, <3>1, EntryValueType, GatewayAssumption DEF EntryOwn
  <2>8. EntryValue(ledger, a, "committed") \in Value => f.force
    BY <2>4, <2>7, GatewayAssumption DEF NeedsCheck
  <2>. QED
    BY <1>4, <2>4, <2>6, <2>8 DEF FrameOwn, At
<1>. QED
  BY <1>1, <1>2, <1>3, <1>4, HowRelies DEF FrameOwn, At

(* An entry that is committed holds what its process has observed. *)
LEMMA EntriesOwn ==
    ASSUME TypeInv, TurnInv, Watch, ledger' = ledger \/ \E p \in Proc : Step(p)
    PROVE  \A i \in DOMAIN ledger' : EntryOwn(ledger[i])'
<1>1. ASSUME NEW i \in DOMAIN ledger, ledger'[i] = ledger[i] PROVE EntryOwn(ledger[i])'
  <2>. DEFINE e == ledger[i]
  <2>1. e.kind = "committed" /\ e.val \in Value =>
           e.act \in Action /\ Op[e.act].observe /\ Own(e.act, e.val)
    BY DEF TurnInv, EntryOwn
  <2>2. e.kind = "committed" /\ e.val \in Value =>
           e.val \in left'[e.act] \/ e.act \in disturbed'
    BY <2>1, OwnKept
  <2>. QED
    BY <1>1, <2>1, <2>2 DEF EntryOwn, Own
<1>2. CASE ledger' = ledger
  BY <1>1, <1>2
<1>3. ASSUME NEW p \in Proc, Step(p), NEW e, Log(e), e.kind = "committed" => Commits(p)
      PROVE  \A i \in DOMAIN ledger' : EntryOwn(ledger[i])'
  <2>. DEFINE a == frame[p].act  d == Entry("committed", a, frame[p].reg)
  <2>1. ExtendedByOne(e)
    BY <1>3, AppendsOne
  <2>2. ASSUME e.kind = "committed", e.val \in Value
        PROVE  e.act \in Action /\ Op[e.act].observe /\ (e.val \in left'[e.act] \/ e.act \in disturbed')
    <3>1. At(p, "commit") /\ Log(d)
      BY <1>3, <2>2 DEF Commits, Goes, Adds
    <3>2. ExtendedByOne(d)
      BY <3>1, AppendsOne
    <3>3. e = d
      BY <2>1, <3>2 DEF ExtendedByOne
    <3>4. e.act = a /\ e.val = frame[p].reg
      BY <3>3 DEF Entry
    <3>5. a \in Action
      BY <3>1, InHand DEF At, NoAction
    <3>6. Op[a].observe /\ Own(a, frame[p].reg)
      BY <2>2, <3>1, <3>4 DEF TurnInv, FrameOwn
    <3>7. frame[p].reg \in left'[a] \/ a \in disturbed'
      BY <3>5, <3>6, OwnKept
    <3>. QED
      BY <3>4, <3>5, <3>6, <3>7
  <2>3. ASSUME NEW i \in DOMAIN ledger', i \notin DOMAIN ledger PROVE EntryOwn(ledger[i])'
    <3>1. ledger'[i] = e
      BY <2>1, <2>3 DEF ExtendedByOne
    <3>. QED
      BY <2>2, <3>1 DEF EntryOwn, Own
  <2>. QED
    BY <1>1, <2>1, <2>3 DEF ExtendedByOne
<1>. QED
  BY <1>2, <1>3, WhoLogs

LEMMA TurnStep ==
    ASSUME TypeInv, TypeInv', TurnInv, [Next /\ Watch]_<<vars, turns>>
    PROVE  TurnInv'
<1>1. ASSUME Watch, NEW p \in Proc, Begin(p) \/ Continue(p) PROVE TurnInv'
  <2>1. Step(p)
    BY <1>1, Steps
  <2>2. \A i \in DOMAIN ledger' : EntryOwn(ledger[i])'
    BY <1>1, <2>1, EntriesOwn
  <2>3. ASSUME NEW q \in Proc, q # p PROVE FrameOwn(q)'
    <3>1. frame'[q] = frame[q]
      BY <2>1, <2>3, OthersSame DEF Same
    <3>2. ledger' = ledger \/ \E e : Log(e)
      BY <2>1, WhoLogs
    <3>3. FrameOwn(q)
      BY DEF TurnInv
    <3>. QED
      BY <1>1, <3>1, <3>2, <3>3, WaitingOwn
  <2>4. FrameOwn(p)'
    BY <1>1, MovingOwn
  <2>. QED
    BY <2>2, <2>3, <2>4 DEF TurnInv
<1>2. CASE Watch /\ Environment
  <2>1. ledger' = ledger
    BY <1>2 DEF Environment, OutsideWrite, Crash
  <2>2. \A i \in DOMAIN ledger' : EntryOwn(ledger[i])'
    BY <1>2, <2>1, EntriesOwn
  <2>3. ASSUME NEW q \in Proc PROVE FrameOwn(q)'
    <3>1. CASE frame'[q] = frame[q]
      BY <1>2, <2>1, <3>1, WaitingOwn DEF TurnInv
    <3>2. CASE frame'[q].pc = "idle"
      BY <3>2 DEF FrameOwn, At
    <3>3. frame'[q] = frame[q] \/ frame'[q].pc = "idle"
      <4>1. IdleFrame(None, 0).pc = "idle"
        BY DEF IdleFrame
      <4>. QED
        BY <1>2, <4>1 DEF Environment, OutsideWrite, Crash
    <3>. QED
      BY <3>1, <3>2, <3>3
  <2>. QED
    BY <2>2, <2>3 DEF TurnInv
<1>3. CASE UNCHANGED <<vars, turns>>
  <2>1. /\ ledger' = ledger /\ frame' = frame /\ world' = world
        /\ left' = left /\ disturbed' = disturbed
    BY <1>3 DEF vars, turns
  <2>2. \A i \in DOMAIN ledger : EntryOwn(ledger[i])' <=> EntryOwn(ledger[i])
    BY <2>1 DEF EntryOwn, Own
  <2>3. \A p \in Proc : FrameOwn(p)' <=> FrameOwn(p)
    BY <2>1 DEF FrameOwn, At, Own, StateOf, Expected, Seen
  <2>. QED
    BY <2>1, <2>2, <2>3 DEF TurnInv
<1>. QED
  BY <1>1, <1>2, <1>3 DEF Next

(* The inverse replaces what is expected, and that is what a run has left. *)
LEMMA ReplacesOwn ==
    ASSUME TypeInv, TurnInv, NEW p \in Proc, InverseStep(p), ~frame[p].force,
           Expected(p) \in Value, frame[p].act \notin disturbed
    PROVE  StateOf(frame[p].act) \in left[frame[p].act]
<1>. DEFINE a == frame[p].act
<1>1. frame[p].pc = "inverse"
  BY DEF InverseStep, At
<1>2. StateOf(a) = Expected(p)
  BY <1>1 DEF TurnInv, FrameOwn, At
<1>3. PICK i \in DOMAIN Seen(p) :
         Seen(p)[i].act = a /\ Seen(p)[i].kind = "committed" /\ Expected(p) = Seen(p)[i].val
  <2>1. Seen(p) \in Seq(EntryType)
    BY <1>1, SeenPrefix
  <2>. QED
    BY <2>1, EntryValueType, GatewayAssumption DEF Expected
<1>4. i \in DOMAIN ledger /\ Seen(p)[i] = ledger[i]
  BY <1>1, SeenPrefix
<1>. QED
  BY <1>2, <1>3, <1>4 DEF TurnInv, EntryOwn, Own

(* For any number of processes, sessions, actions and resources, and any   *)
(* operations: what the inverse of a committed action replaces, unforced,  *)
(* is what a run of that action has left, whatever fails, crashes or is    *)
(* cut short, but for changes that come in the two windows in which the    *)
(* code does not look (core.py:344-348, 438-444).                          *)
THEOREM NewerIsSpared == TurnsSpec => NoSilentOverwrite
<1>1. TurnsInit => Init /\ TurnInv
  <2>. SUFFICES ASSUME TurnsInit PROVE Init /\ TurnInv
    OBVIOUS
  <2>1. ledger = <<>> /\ \A p \in Proc : frame[p].pc = "idle"
    BY DEF TurnsInit, Init, IdleFrame
  <2>. QED
    BY <2>1 DEF TurnsInit, TurnInv, FrameOwn, At
<1>2. [Next /\ Watch]_<<vars, turns>> => [Next]_vars
  BY DEF vars, turns
<1>3. TypeInv /\ TypeInv' /\ TurnInv /\ [Next /\ Watch]_<<vars, turns>> => TurnInv'
  BY TurnStep
<1>4. TypeInv /\ TurnInv =>
        \A p \in Proc :
          LET a == frame[p].act IN
          /\ InverseStep(p) /\ ~frame[p].force
          /\ EntryValue(Seen(p), a, "committed") \in Value
          /\ a \notin disturbed
          => StateOf(a) \in left[a]
  BY ReplacesOwn DEF Expected
<1>5. Spec => []TypeInv
  BY TypeInvariant
<1>. QED
  BY <1>1, <1>2, <1>3, <1>4, <1>5, PTL DEF TurnsSpec, Spec, NoSilentOverwrite
=============================================================================
