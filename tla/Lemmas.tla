------------------------------- MODULE Lemmas -------------------------------
(***************************************************************************)
(* Facts about the operators the models are built from: Min and Max, the   *)
(* lookups of Lifecycle in any log, the decisions of any policy.           *)
(***************************************************************************)
EXTENDS Policy, Lifecycle, WellFoundedInduction, TLAPS

(* The members of a sequence. *)
LEMMA ElementOf ==
    ASSUME NEW S, NEW s \in Seq(S), NEW i \in DOMAIN s
    PROVE  s[i] \in S
OBVIOUS

(* A set of naturals has a least element, and Min finds it. *)
LEMMA MinOfNaturals ==
    ASSUME NEW S \in SUBSET Nat, S # {}
    PROVE  Min(S) \in S /\ \A y \in S : Min(S) <= y
<1>1. PICK x \in S : \A y \in S : ~(<<y, x>> \in OpToRel(<, Nat))
  BY NatLessThanWellFounded, WFMin
<1>2. OpToRel(<, Nat) = {ss \in Nat \X Nat : ss[1] < ss[2]}
  BY DEF OpToRel
<1>3. \A y \in S : ~(y < x)
  <2>. TAKE y \in S
  <2>1. <<y, x>> \in Nat \X Nat /\ <<y, x>>[1] = y /\ <<y, x>>[2] = x
    OBVIOUS
  <2>. QED
    BY <1>1, <1>2, <2>1
<1>4. \A y \in S : x <= y
  BY <1>3
<1>. QED
  BY <1>4 DEF Min

(* A bounded one has a greatest, and Max finds it. *)
LEMMA MaxOfBounded ==
    ASSUME NEW n \in Nat, NEW S \in SUBSET (0 .. n), S # {}
    PROVE  Max(S) \in S /\ \A y \in S : Max(S) >= y
<1>. DEFINE T == {k \in 0 .. n : n - k \in S}
<1>1. T \subseteq Nat
  OBVIOUS
<1>2. T # {}
  <2>1. PICK y \in S : TRUE
    OBVIOUS
  <2>2. n - y \in 0 .. n /\ n - (n - y) = y
    OBVIOUS
  <2>3. n - y \in T
    BY <2>2
  <2>. QED
    BY <2>3
<1>3. Min(T) \in T /\ \A k \in T : Min(T) <= k
  BY <1>1, <1>2, MinOfNaturals
<1>. DEFINE x == n - Min(T)
<1>4. x \in S
  BY <1>3
<1>5. \A y \in S : x >= y
  <2>. TAKE y \in S
  <2>1. n - (n - y) = y /\ n - y \in 0 .. n
    OBVIOUS
  <2>2. n - y \in T
    BY <2>1
  <2>3. Min(T) <= n - y
    BY <2>2, <1>3
  <2>. QED
    BY <2>3, <1>3
<1>. QED
  BY <1>4, <1>5 DEF Max

-----------------------------------------------------------------------------
(* Logs *)

(* The positions of an action's entries are positions of the log. *)
LEMMA PositionsType ==
    ASSUME NEW E, NEW log \in Seq(E), NEW a, NEW kinds
    PROVE  /\ Positions(log, a, kinds) \in SUBSET (0 .. Len(log))
           /\ Positions(log, a, kinds) \in SUBSET Nat
           /\ Positions(log, a, kinds) \subseteq DOMAIN log
           /\ Len(log) \in Nat
BY DEF Positions

(* A position of a log is not 0: 0 says that there is no such entry. *)
LEMMA NoEntryAtZero ==
    ASSUME NEW E, NEW log \in Seq(E), NEW i \in DOMAIN log
    PROVE  i # 0
OBVIOUS

(* FirstPos is 0, or the least position of an entry of the kind. *)
LEMMA FirstPosType ==
    ASSUME NEW E, NEW log \in Seq(E), NEW a, NEW kind
    PROVE  /\ FirstPos(log, a, kind) = 0 <=> ~Has(log, a, kind)
           /\ FirstPos(log, a, kind) # 0 => /\ FirstPos(log, a, kind) \in DOMAIN log
                                            /\ log[FirstPos(log, a, kind)].act = a
                                            /\ log[FirstPos(log, a, kind)].kind = kind
<1>. DEFINE P == Positions(log, a, {kind})
<1>1. P \in SUBSET Nat /\ P \subseteq DOMAIN log /\ DOMAIN log = 1 .. Len(log)
  BY PositionsType
<1>2. CASE P = {}
  BY <1>2 DEF FirstPos, Has
<1>3. CASE P # {}
  <2>1. Min(P) \in P
    BY <1>1, <1>3, MinOfNaturals
  <2>2. FirstPos(log, a, kind) = Min(P)
    BY <1>3 DEF FirstPos
  <2>3. Min(P) \in DOMAIN log
    BY <1>1, <2>1
  <2>4. Min(P) # 0
    BY <2>3, NoEntryAtZero
  <2>. QED
    BY <1>3, <2>1, <2>2, <2>3, <2>4 DEF Has, Positions
<1>. QED
  BY <1>2, <1>3

(* LastPos is 0, or the greatest position of an entry of the kind. *)
LEMMA LastPosType ==
    ASSUME NEW E, NEW log \in Seq(E), NEW a, NEW kind
    PROVE  /\ LastPos(log, a, kind) = 0 <=> ~Has(log, a, kind)
           /\ LastPos(log, a, kind) # 0 => /\ LastPos(log, a, kind) \in DOMAIN log
                                           /\ log[LastPos(log, a, kind)].act = a
                                           /\ log[LastPos(log, a, kind)].kind = kind
<1>. DEFINE P == Positions(log, a, {kind})
<1>1. P \in SUBSET (0 .. Len(log)) /\ P \subseteq DOMAIN log /\ DOMAIN log = 1 .. Len(log) /\ Len(log) \in Nat
  BY PositionsType
<1>2. CASE P = {}
  BY <1>2 DEF LastPos, Has
<1>3. CASE P # {}
  <2>1. Max(P) \in P
    BY <1>1, <1>3, MaxOfBounded
  <2>2. LastPos(log, a, kind) = Max(P)
    BY <1>3 DEF LastPos
  <2>3. Max(P) \in DOMAIN log
    BY <1>1, <2>1
  <2>4. Max(P) # 0
    BY <2>3, NoEntryAtZero
  <2>. QED
    BY <1>3, <2>1, <2>2, <2>3, <2>4 DEF Has, Positions
<1>. QED
  BY <1>2, <1>3

(* Appending leaves the entries there are in place and adds one. *)
LEMMA AppendEntry ==
    ASSUME NEW E, NEW log \in Seq(E), NEW e \in E
    PROVE  /\ Append(log, e) \in Seq(E)
           /\ Len(Append(log, e)) = Len(log) + 1 /\ Len(log) \in Nat
           /\ DOMAIN log = 1 .. Len(log)
           /\ DOMAIN Append(log, e) = 1 .. (Len(log) + 1)
           /\ \A i \in DOMAIN log : i \in DOMAIN Append(log, e) /\ Append(log, e)[i] = log[i]
           /\ Append(log, e)[Len(log) + 1] = e
           /\ \A i \in DOMAIN Append(log, e) : i \in DOMAIN log \/ i = Len(log) + 1
OBVIOUS

-----------------------------------------------------------------------------
(* Policies *)

(* The rules, or the defaults, give a verdict. *)
LEMMA BaseVerdictType ==
    ASSUME NEW N, NEW P \in PolicyType(N), NEW n \in N, NEW r \in Risk
    PROVE  BaseVerdict(P, n, r) \in Verdict
<1>. DEFINE hits == {i \in DOMAIN P.rules : Matches(P.rules[i], n, r)}
<1>1. P.rules \in Seq(Rule(N)) /\ P.defaults \in [Risk -> Verdict]
  BY DEF PolicyType
<1>2. CASE hits = {}
  BY <1>1, <1>2 DEF BaseVerdict
<1>3. CASE hits # {}
  <2>1. hits \in SUBSET Nat
    BY <1>1
  <2>2. Min(hits) \in hits
    BY <1>3, <2>1, MinOfNaturals
  <2>3. Min(hits) \in DOMAIN P.rules
    BY <2>2
  <2>4. P.rules[Min(hits)] \in Rule(N)
    BY <1>1, <2>3, ElementOf
  <2>. QED
    BY <1>3, <2>4 DEF BaseVerdict, Rule
<1>. QED
  BY <1>2, <1>3

(* The ranks of the verdicts, as numbers (model.py, _RANK). *)
LEMMA RankValues ==
    /\ Rank["allow"] = 0 /\ Rank["simulate"] = 1 /\ Rank["approve"] = 2
    /\ Rank["hold"] = 3 /\ Rank["deny"] = 4
BY DEF Rank, Verdict

(* escalate() gives a verdict that is as strict as its argument and as     *)
(* "approve".                                                              *)
LEMMA EscalateIsStricter ==
    ASSUME NEW v \in Verdict
    PROVE  /\ Escalate(v) \in {"approve", "hold", "deny"}
           /\ Rank[Escalate(v)] >= Rank[v]
BY RankValues DEF Escalate, Verdict

(* decide() returns a verdict, at least as strict as the rules' own. *)
LEMMA DecideType ==
    ASSUME NEW N, NEW P \in PolicyType(N), NEW o, o.name \in N, o.risk \in Risk, NEW st
    PROVE  /\ Decide(P, o, st) \in Verdict
           /\ Rank[Decide(P, o, st)] >= Rank[BaseVerdict(P, o.name, o.risk)]
<1>. DEFINE v == BaseVerdict(P, o.name, o.risk)
<1>1. v \in Verdict
  BY BaseVerdictType
<1>2. Rank[v] \in Nat
  BY <1>1, RankValues DEF Verdict
<1>3. Escalate(v) \in Verdict /\ Rank[Escalate(v)] >= Rank[v]
  BY <1>1, EscalateIsStricter DEF Verdict
<1>. QED
  BY <1>1, <1>2, <1>3 DEF Decide

(* Rules are tried from the front: the first decides if it matches, and if *)
(* it does not the policy answers as it would without it.                  *)
LEMMA FirstMatch ==
    ASSUME NEW N, NEW P \in PolicyType(N), P.rules # <<>>, NEW n \in N, NEW r \in Risk
    PROVE  BaseVerdict(P, n, r) =
              IF Matches(Head(P.rules), n, r)
              THEN Head(P.rules).verdict
              ELSE BaseVerdict([P EXCEPT !.rules = Tail(@)], n, r)
<1>. DEFINE R    == P.rules
            Q    == [P EXCEPT !.rules = Tail(@)]
            hits == {i \in DOMAIN R : Matches(R[i], n, r)}
            rest == {i \in DOMAIN Tail(R) : Matches(Tail(R)[i], n, r)}
<1>1. R \in Seq(Rule(N)) /\ Len(R) \in Nat /\ Len(R) >= 1 /\ DOMAIN R = 1 .. Len(R) /\ Head(R) = R[1]
  BY DEF PolicyType
<1>2. /\ Q.rules = Tail(R) /\ Q.defaults = P.defaults
      /\ DOMAIN Tail(R) = 1 .. (Len(R) - 1)
      /\ \A i \in 1 .. (Len(R) - 1) : Tail(R)[i] = R[i + 1]
  BY <1>1 DEF PolicyType
<1>3. hits \in SUBSET Nat /\ rest \in SUBSET Nat
  BY <1>1, <1>2
<1>4. CASE Matches(Head(R), n, r)
  <2>1. 1 \in hits
    BY <1>1, <1>4
  <2>2. Min(hits) \in hits /\ Min(hits) <= 1
    BY <1>3, <2>1, MinOfNaturals
  <2>3. Min(hits) = 1
    BY <2>2, <1>1
  <2>. QED
    BY <1>1, <1>4, <2>1, <2>3 DEF BaseVerdict
<1>5. CASE ~Matches(Head(R), n, r)
  <2>1. \A i \in hits : i - 1 \in rest
    BY <1>1, <1>2, <1>5
  <2>2. \A i \in rest : i + 1 \in hits
    BY <1>1, <1>2
  <2>3. CASE hits = {}
    <3>1. rest = {}
      BY <2>2, <2>3
    <3>. QED
      BY <1>2, <1>5, <2>3, <3>1 DEF BaseVerdict
  <2>4. CASE hits # {}
    <3>1. Min(hits) \in hits /\ \A y \in hits : Min(hits) <= y
      BY <1>3, <2>4, MinOfNaturals
    <3>2. rest # {}
      BY <2>1, <3>1
    <3>3. Min(rest) \in rest /\ \A y \in rest : Min(rest) <= y
      BY <1>3, <3>2, MinOfNaturals
    <3>4. Min(hits) - 1 \in rest /\ Min(rest) + 1 \in hits
      BY <2>1, <2>2, <3>1, <3>3
    <3>5. Min(rest) <= Min(hits) - 1 /\ Min(hits) <= Min(rest) + 1
      BY <3>1, <3>3, <3>4
    <3>6. Min(rest) \in Nat /\ Min(hits) \in Nat
      BY <1>3, <3>1, <3>3
    <3>7. Min(hits) = Min(rest) + 1
      <4>1. \A x, y \in Nat : y <= x - 1 /\ x <= y + 1 => x = y + 1
        OBVIOUS
      <4>. HIDE DEF hits, rest
      <4>. QED
        BY <3>5, <3>6, <4>1
    <3>8. Tail(R)[Min(rest)] = R[Min(hits)]
      BY <1>2, <3>3, <3>7
    <3>. QED
      BY <1>2, <1>5, <2>4, <3>2, <3>8 DEF BaseVerdict
  <2>. QED
    BY <2>3, <2>4
<1>. QED
  BY <1>4, <1>5
=============================================================================
