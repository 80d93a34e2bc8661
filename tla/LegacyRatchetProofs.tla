------------------------- MODULE LegacyRatchetProofs -------------------------
(* What the ratchet admits, for every list of findings and every change set.  *)
(* The ratchet is a fold, so its result is known by induction over the list;  *)
(* the induction is done on sets of naturals, by their least element.         *)
EXTENDS LegacyRatchet, FiniteSetTheorems, WellFoundedInduction, TLAPS

-----------------------------------------------------------------------------
(* Induction and folds.                                                       *)

(* Every set of naturals that is not empty has a least element.               *)
LEMMA LeastNatural ==
  ASSUME NEW S \in SUBSET Nat, S # {}
  PROVE  \E x \in S : \A y \in S : x <= y
<1>. DEFINE R == {ss \in Nat \X Nat : ss[1] < ss[2]}
<1>1. IsWellFoundedOn(R, Nat)
  BY NatLessThanWellFounded DEF OpToRel
<1>2. \E x \in S : \A y \in S : <<y, x>> \notin R
  <2>. HIDE DEF R
  <2>. QED  BY <1>1, WFMin
<1>3. \A x, y \in Nat : ~(x <= y) => <<y, x>> \in R
  OBVIOUS
<1>. QED  BY <1>2, <1>3

(* Induction for a set, which needs no operator to be instantiated: the least *)
(* natural outside the set would be 0 or a successor of one inside.           *)
LEMMA SetInduction ==
  ASSUME NEW S, 0 \in S, \A n \in Nat : n \in S => n + 1 \in S
  PROVE  \A n \in Nat : n \in S
<1>. SUFFICES ASSUME Nat \ S # {}  PROVE FALSE
  OBVIOUS
<1>1. PICK x \in Nat \ S : \A y \in Nat \ S : x <= y
  BY LeastNatural, Nat \ S \in SUBSET Nat
<1>2. x # 0 /\ x - 1 \in Nat /\ ~(x <= x - 1)
  OBVIOUS
<1>3. x - 1 \in S
  BY <1>1, <1>2
<1>. QED  BY <1>2, <1>3

(* Max, the index a fold takes last, is the greatest element.                 *)
LEMMA Greatest ==
  ASSUME NEW n \in Nat, NEW s \in SUBSET (1 .. n), s # {}
  PROVE  Max(s) \in s /\ \A y \in s : Max(s) >= y
<1>. DEFINE T == {n - x : x \in s}
<1>1. T \in SUBSET Nat /\ T # {}
  <2>1. \A x \in s : n - x \in Nat
    OBVIOUS
  <2>. QED  BY <2>1
<1>2. PICK t \in T : \A y \in T : t <= y
  <2>. HIDE DEF T
  <2>. QED  BY <1>1, LeastNatural
<1>3. PICK x \in s : t = n - x
  OBVIOUS
<1>4. ASSUME NEW y \in s  PROVE x >= y
  <2>1. n - y \in T
    OBVIOUS
  <2>2. n - x <= n - y
    BY <1>2, <1>3, <2>1
  <2>. QED  BY <2>2
<1>. QED  BY <1>4 DEF Max

(* So a fold over 1 .. k + 1 takes k + 1 after it has folded 1 .. k.          *)
LEMMA GreatestOfInterval ==
  ASSUME NEW k \in Nat
  PROVE  Max(1 .. k + 1) = k + 1 /\ (1 .. k + 1) \ {k + 1} = 1 .. k
<1>1. Max(1 .. k + 1) \in 1 .. k + 1 /\ \A y \in 1 .. k + 1 : Max(1 .. k + 1) >= y
  <2>1. k + 1 \in Nat /\ 1 .. k + 1 \in SUBSET (1 .. k + 1) /\ 1 .. k + 1 # {}
    OBVIOUS
  <2>. QED  BY <2>1, Greatest
<1>. QED  BY <1>1

(* A fold over the indices 1 .. n is a function on their sets (Folds.tla);    *)
(* it exists for every step on a set of states.                               *)
FoldFits(it, k, base, Step) ==
    /\ it[{}] = base
    /\ \A s \in SUBSET (1 .. k) : s # {} => it[s] = Step[<<it[s \ {Max(s)}], Max(s)>>]

(* There is such a function, whatever the step is.                            *)
LEMMA FoldExists ==
  ASSUME NEW n \in Nat, NEW State, NEW base \in State,
         NEW Step \in [State \X (1 .. n) -> State]
  PROVE  \E it \in [SUBSET (1 .. n) -> State] : FoldFits(it, n, base, Step)
<1>. DEFINE Has(k) == \E it \in [SUBSET (1 .. k) -> State] : FoldFits(it, k, base, Step)
            K == {k \in Nat : k <= n => Has(k)}
<1>1. Has(0)
  <2>1. 1 .. 0 = {}
    OBVIOUS
  <2>2. [s \in SUBSET (1 .. 0) |-> base] \in [SUBSET (1 .. 0) -> State]
    OBVIOUS
  <2>3. FoldFits([s \in SUBSET (1 .. 0) |-> base], 0, base, Step)
    BY <2>1 DEF FoldFits
  <2>. QED  BY <2>2, <2>3
<1>2. ASSUME NEW k \in Nat, k + 1 <= n, Has(k)
      PROVE  Has(k + 1)
  <2>1. PICK it \in [SUBSET (1 .. k) -> State] : FoldFits(it, k, base, Step)
    BY <1>2
  <2>. DEFINE next == [s \in SUBSET (1 .. k + 1) |->
                         IF k + 1 \in s THEN Step[<<it[s \ {k + 1}], k + 1>>] ELSE it[s]]
  <2>2. ASSUME NEW s \in SUBSET (1 .. k + 1)
        PROVE  next[s] \in State
    <3>1. CASE k + 1 \in s
      <4>1. s \ {k + 1} \in SUBSET (1 .. k)
        OBVIOUS
      <4>2. <<it[s \ {k + 1}], k + 1>> \in State \X (1 .. n)
        BY <1>2, <4>1
      <4>. QED  BY <3>1, <4>2
    <3>2. CASE k + 1 \notin s
      <4>1. s \in SUBSET (1 .. k)
        BY <3>2
      <4>. QED  BY <3>2, <4>1
    <3>. QED  BY <3>1, <3>2
  <2>3. ASSUME NEW s \in SUBSET (1 .. k + 1), s # {}
        PROVE  next[s] = Step[<<next[s \ {Max(s)}], Max(s)>>]
    <3>1. CASE k + 1 \in s
      <4>1. Max(s) = k + 1
        <5>1. k + 1 \in Nat
          OBVIOUS
        <5>2. Max(s) \in s /\ \A y \in s : Max(s) >= y
          BY Greatest, <2>3, <5>1
        <5>3. Max(s) \in 1 .. k + 1 /\ Max(s) >= k + 1
          BY <5>2, <3>1
        <5>. QED  BY <5>3
      <4>2. s \ {k + 1} \in SUBSET (1 .. k) /\ k + 1 \notin s \ {k + 1}
        OBVIOUS
      <4>3. next[s \ {k + 1}] = it[s \ {k + 1}]
        BY <4>2
      <4>. QED  BY <3>1, <4>1, <4>3
    <3>2. CASE k + 1 \notin s
      <4>1. s \in SUBSET (1 .. k)
        BY <3>2
      <4>2. next[s] = Step[<<it[s \ {Max(s)}], Max(s)>>]
        BY <2>1, <2>3, <3>2, <4>1 DEF FoldFits
      <4>3. k + 1 \notin s \ {Max(s)} /\ s \ {Max(s)} \in SUBSET (1 .. k + 1)
        BY <3>2
      <4>4. next[s \ {Max(s)}] = it[s \ {Max(s)}]
        BY <4>3
      <4>. QED  BY <4>2, <4>4
    <3>. QED  BY <3>1, <3>2
  <2>4. next[{}] = base
    <3>1. {} \in SUBSET (1 .. k + 1) /\ k + 1 \notin {}
      OBVIOUS
    <3>. QED  BY <2>1, <3>1 DEF FoldFits
  <2>5. FoldFits(next, k + 1, base, Step)
    <3>. HIDE DEF next
    <3>. QED  BY <2>3, <2>4 DEF FoldFits
  <2>6. next \in [SUBSET (1 .. k + 1) -> State]
    BY <2>2
  <2>. QED  BY <2>5, <2>6
<1>3. n \in K
  <2>. HIDE DEF Has
  <2>1. 0 \in K
    BY <1>1
  <2>2. ASSUME NEW k \in Nat, k \in K
        PROVE  k + 1 \in K
    BY <1>2, <2>2
  <2>. HIDE DEF K
  <2>. QED  BY <2>1, <2>2, SetInduction
<1>4. Has(n)
  <2>. HIDE DEF Has
  <2>. QED  BY <1>3
<1>. QED  BY <1>4

(* What holds of the start and is carried over every index holds of the fold. *)
LEMMA FoldInvariant ==
  ASSUME NEW n \in Nat, NEW it, NEW Good,
         it[{}] \in Good[0],
         \A k \in 1 .. n : it[1 .. k - 1] \in Good[k - 1] => it[1 .. k] \in Good[k]
  PROVE  it[1 .. n] \in Good[n]
<1>. DEFINE K == {k \in Nat : k <= n => it[1 .. k] \in Good[k]}
<1>1. 0 \in K
  <2>1. 1 .. 0 = {}
    OBVIOUS
  <2>. QED  BY <2>1
<1>2. ASSUME NEW k \in Nat, k \in K
      PROVE  k + 1 \in K
  <2>. SUFFICES ASSUME k + 1 <= n  PROVE it[1 .. k + 1] \in Good[k + 1]
    OBVIOUS
  <2>1. k + 1 \in 1 .. n /\ (k + 1) - 1 = k /\ k <= n
    OBVIOUS
  <2>2. it[1 .. k] \in Good[k]
    BY <1>2, <2>1
  <2>. QED  BY <2>1, <2>2
<1>3. n \in K
  <2>. HIDE DEF K
  <2>. QED  BY <1>1, <1>2, SetInduction
<1>. QED  BY <1>3

-----------------------------------------------------------------------------
(* The ratchet. A state of the matching has given every excused finding a     *)
(* baseline finding of its own that is no longer available.                   *)

Excuses(was, now, changes) ==
    /\ Eligible(now) /\ ~Attributable(now, changes)
    /\ Eligible(was) /\ Key(was, << >>) = Key(now, changes.lineage)
    /\ now.engine \in NumericEngines => now.actual <= was.actual

Matchings(Findings, baseline) ==
    [available : SUBSET DOMAIN baseline, retained : Seq(Findings),
     grandfathered : Seq(Findings \X Findings)]

OwnMatch(state, baseline, match) ==
    /\ match \in [DOMAIN state.grandfathered -> DOMAIN baseline \ state.available]
    /\ \A i, j \in DOMAIN state.grandfathered : match[i] = match[j] => i = j
    /\ \A i \in DOMAIN state.grandfathered : state.grandfathered[i][2] = baseline[match[i]]

Ratcheted(state, k, current, baseline, changes) ==
    /\ \A i \in state.available : Eligible(baseline[i])
    /\ Len(state.retained) + Len(state.grandfathered) = k
    /\ \A i \in DOMAIN state.retained : \E j \in 1 .. k : state.retained[i] = current[j]
    /\ \A i \in DOMAIN state.grandfathered :
          /\ \E j \in 1 .. k : state.grandfathered[i][1] = current[j]
          /\ Excuses(state.grandfathered[i][2], state.grandfathered[i][1], changes)
    /\ \A j \in 1 .. k :
          \/ \E i \in DOMAIN state.retained : state.retained[i] = current[j]
          \/ \E i \in DOMAIN state.grandfathered : state.grandfathered[i][1] = current[j]
    /\ \E match : OwnMatch(state, baseline, match)

Fits(state, finding, baseline, changes) ==
    {i \in state.available :
        /\ Key(baseline[i], << >>) = Key(finding, changes.lineage)
        /\ finding.engine \in NumericEngines => finding.actual <= baseline[i].actual}

(* What Append adds, and what it keeps.                                       *)
LEMMA Appended ==
  ASSUME NEW S, NEW s \in Seq(S), NEW x \in S
  PROVE  /\ Append(s, x) \in Seq(S) /\ Len(Append(s, x)) = Len(s) + 1 /\ Len(s) \in Nat
         /\ DOMAIN Append(s, x) = DOMAIN s \cup {Len(s) + 1} /\ Len(s) + 1 \notin DOMAIN s
         /\ Append(s, x)[Len(s) + 1] = x /\ \A i \in DOMAIN s : Append(s, x)[i] = s[i]
  OBVIOUS

(* Of the baseline findings that fit, one that is least bad can be chosen.    *)
LEMMA LeastFit ==
  ASSUME NEW Findings, \A f \in Findings : f.actual \in Nat,
         NEW baseline \in Seq(Findings), NEW fits \in SUBSET DOMAIN baseline, fits # {}
  PROVE  LET used == CHOOSE i \in fits : \A j \in fits : baseline[i].actual <= baseline[j].actual
         IN  used \in fits /\ \A j \in fits : baseline[used].actual <= baseline[j].actual
<1>. DEFINE Measures == {baseline[i].actual : i \in fits}
<1>1. \A i \in fits : baseline[i].actual \in Nat
  OBVIOUS
<1>2. Measures \in SUBSET Nat /\ Measures # {}
  BY <1>1
<1>3. PICK m \in Measures : \A x \in Measures : m <= x
  <2>. HIDE DEF Measures
  <2>. QED  BY <1>2, LeastNatural
<1>4. PICK i \in fits : baseline[i].actual = m
  OBVIOUS
<1>5. \A j \in fits : baseline[i].actual <= baseline[j].actual
  BY <1>3, <1>4
<1>. QED  BY <1>5

(* One finding keeps the matching what it is, whichever of its two ways it    *)
(* takes: retained, or excused by a baseline finding it uses up.              *)
LEMMA RatchetOneStep ==
  ASSUME NEW Findings, \A f \in Findings : f.actual \in Nat,
         NEW current \in Seq(Findings), NEW baseline \in Seq(Findings), NEW changes,
         NEW state \in Matchings(Findings, baseline), NEW k \in 1 .. Len(current)
  PROVE  LET next == RatchetOne(state, current[k], baseline, changes)
         IN  /\ next \in Matchings(Findings, baseline)
             /\ Ratcheted(state, k - 1, current, baseline, changes)
                  => Ratcheted(next, k, current, baseline, changes)
<1>. DEFINE finding == current[k]
            fits == Fits(state, finding, baseline, changes)
            used == CHOOSE i \in fits : \A j \in fits : baseline[i].actual <= baseline[j].actual
            next == RatchetOne(state, finding, baseline, changes)
            kept == ~Eligible(finding) \/ Attributable(finding, changes) \/ fits = {}
<1>1. finding \in Findings
  OBVIOUS
<1>2. CASE kept
  <2>1. next = [state EXCEPT !.retained = Append(@, finding)]
    BY <1>2 DEF RatchetOne, Fits
  <2>. HIDE DEF next, kept, fits, used
  <2>2. next \in Matchings(Findings, baseline)
    <3>1. Append(state.retained, finding) \in Seq(Findings)
      BY <1>1, Appended DEF Matchings
    <3>. HIDE DEF finding
    <3>2. next = [available |-> state.available, retained |-> Append(state.retained, finding),
                  grandfathered |-> state.grandfathered]
      BY <2>1 DEF Matchings
    <3>. QED  BY <3>1, <3>2 DEF Matchings
  <2>3. /\ next.available = state.available /\ next.grandfathered = state.grandfathered
        /\ next.retained = Append(state.retained, finding)
    BY <2>1 DEF Matchings
  <2>4. ASSUME Ratcheted(state, k - 1, current, baseline, changes)
        PROVE  Ratcheted(next, k, current, baseline, changes)
    <3>1. PICK match : OwnMatch(state, baseline, match)
      BY <2>4 DEF Ratcheted
    <3>2. OwnMatch(next, baseline, match)
      BY <3>1, <2>3 DEF OwnMatch
    <3>3. state.retained \in Seq(Findings) /\ state.grandfathered \in Seq(Findings \X Findings)
      BY DEF Matchings
    <3>4. Len(next.retained) + Len(next.grandfathered) = k
      <4>1. Len(next.retained) = Len(state.retained) + 1 /\ Len(state.retained) \in Nat
        BY <1>1, <2>3, <3>3, Appended
      <4>2. Len(state.grandfathered) \in Nat /\ k \in Int
        BY <3>3
      <4>3. Len(state.retained) + Len(state.grandfathered) = k - 1
        BY <2>4 DEF Ratcheted
      <4>4. Len(next.grandfathered) = Len(state.grandfathered)
        BY <2>3
      <4>5. \A a, b \in Nat, c \in Int : a + b = c - 1 => (a + 1) + b = c /\ a + (b + 1) = c
        OBVIOUS
      <4>6. (Len(state.retained) + 1) + Len(state.grandfathered) = k
        <5>. DEFINE a == Len(state.retained)
                    b == Len(state.grandfathered)
        <5>1. a \in Nat /\ b \in Nat /\ k \in Int /\ a + b = k - 1
          BY <4>1, <4>2, <4>3
        <5>. HIDE DEF a, b
        <5>2. (a + 1) + b = k
          BY <5>1
        <5>. QED  BY <5>2, Zenon DEF a, b
      <4>. QED  BY <4>1, <4>4, <4>6
    <3>5. \A i \in DOMAIN next.retained : \E j \in 1 .. k : next.retained[i] = current[j]
      <4>. SUFFICES ASSUME NEW i \in DOMAIN next.retained
                    PROVE  \E j \in 1 .. k : next.retained[i] = current[j]
        OBVIOUS
      <4>1. CASE i \in DOMAIN state.retained
        <5>1. PICK j \in 1 .. k - 1 : state.retained[i] = current[j]
          BY <2>4, <4>1 DEF Ratcheted
        <5>2. next.retained[i] = state.retained[i]
          BY <2>3, <3>3, <4>1
        <5>3. j \in 1 .. k
          OBVIOUS
        <5>. QED  BY <5>1, <5>2, <5>3
      <4>2. CASE i \notin DOMAIN state.retained
        <5>1. next.retained[i] = finding
          BY <2>3, <3>3, <4>2
        <5>. QED  BY <5>1
      <4>. QED  BY <4>1, <4>2
    <3>6. ASSUME NEW i \in DOMAIN next.grandfathered
          PROVE  /\ \E j \in 1 .. k : next.grandfathered[i][1] = current[j]
                 /\ Excuses(next.grandfathered[i][2], next.grandfathered[i][1], changes)
      <4>1. PICK j \in 1 .. k - 1 : state.grandfathered[i][1] = current[j]
        BY <2>3, <2>4 DEF Ratcheted
      <4>2. j \in 1 .. k
        OBVIOUS
      <4>. QED  BY <2>3, <2>4, <4>1, <4>2 DEF Ratcheted
    <3>7. \A i \in next.available : Eligible(baseline[i])
      BY <2>3, <2>4 DEF Ratcheted
    <3>8. ASSUME NEW j \in 1 .. k
          PROVE  \/ \E i \in DOMAIN next.retained : next.retained[i] = current[j]
                 \/ \E i \in DOMAIN next.grandfathered : next.grandfathered[i][1] = current[j]
      <4>0. /\ DOMAIN next.retained = DOMAIN state.retained \cup {Len(state.retained) + 1}
            /\ next.retained[Len(state.retained) + 1] = finding
            /\ \A i \in DOMAIN state.retained : next.retained[i] = state.retained[i]
        BY <1>1, <2>3, <3>3, Appended
      <4>1. CASE j = k
        BY <4>0, <4>1
      <4>2. CASE j # k
        <5>1. j \in 1 .. k - 1
          BY <4>2
        <5>2. CASE \E i \in DOMAIN state.retained : state.retained[i] = current[j]
          <6>1. PICK i \in DOMAIN state.retained : state.retained[i] = current[j]
            BY <5>2
          <6>. HIDE DEF finding
          <6>. QED  BY <4>0, <6>1
        <5>3. CASE \E i \in DOMAIN state.grandfathered : state.grandfathered[i][1] = current[j]
          BY <2>3, <5>3
        <5>. QED  BY <2>4, <5>1, <5>2, <5>3 DEF Ratcheted
      <4>. QED  BY <4>1, <4>2
    <3>. QED  BY <3>2, <3>4, <3>5, <3>6, <3>7, <3>8 DEF Ratcheted
  <2>. QED  BY <2>2, <2>4 DEF next
<1>3. CASE ~kept
  <2>1. next = [state EXCEPT !.available = @ \ {used},
                             !.grandfathered = Append(@, <<finding, baseline[used]>>)]
    BY <1>3 DEF RatchetOne, Fits
  <2>2. used \in fits
    <3>1. fits \in SUBSET DOMAIN baseline /\ fits # {}
      BY <1>3 DEF Matchings, Fits
    <3>. HIDE DEF fits
    <3>. QED  BY <3>1, LeastFit
  <2>3. /\ used \in state.available /\ used \in DOMAIN baseline
        /\ Key(baseline[used], << >>) = Key(finding, changes.lineage)
        /\ finding.engine \in NumericEngines => finding.actual <= baseline[used].actual
        /\ Eligible(finding) /\ ~Attributable(finding, changes)
    <3>. HIDE DEF used
    <3>. QED  BY <1>3, <2>2 DEF Fits, Matchings
  <2>. HIDE DEF next, kept, fits, used
  <2>4. baseline[used] \in Findings
    BY <2>3
  <2>. DEFINE pair == <<finding, baseline[used]>>
  <2>5. state.retained \in Seq(Findings) /\ state.grandfathered \in Seq(Findings \X Findings)
    BY DEF Matchings
  <2>6. pair \in Findings \X Findings
    BY <1>1, <2>4
  <2>7. /\ next.available = state.available \ {used} /\ next.retained = state.retained
        /\ next.grandfathered = Append(state.grandfathered, pair)
    BY <2>1 DEF Matchings
  <2>8. next \in Matchings(Findings, baseline)
    <3>1. Append(state.grandfathered, pair) \in Seq(Findings \X Findings)
      BY <2>5, <2>6, Appended
    <3>2. next = [available |-> state.available \ {used}, retained |-> state.retained,
                  grandfathered |-> Append(state.grandfathered, pair)]
      BY <2>1 DEF Matchings
    <3>. HIDE DEF pair, finding
    <3>. QED  BY <3>1, <3>2 DEF Matchings
  <2>9. ASSUME Ratcheted(state, k - 1, current, baseline, changes)
        PROVE  Ratcheted(next, k, current, baseline, changes)
    <3>. DEFINE last == Len(state.grandfathered) + 1
    <3>1. PICK match : OwnMatch(state, baseline, match)
      BY <2>9 DEF Ratcheted
    <3>2. /\ DOMAIN next.grandfathered = DOMAIN state.grandfathered \cup {last}
          /\ last \notin DOMAIN state.grandfathered
          /\ next.grandfathered[last] = pair
          /\ \A i \in DOMAIN state.grandfathered : next.grandfathered[i] = state.grandfathered[i]
      <4>. HIDE DEF pair
      <4>. QED  BY <2>5, <2>6, <2>7
    <3>3. \E m : OwnMatch(next, baseline, m)
      <4>. DEFINE m == [i \in DOMAIN next.grandfathered |-> IF i = last THEN used ELSE match[i]]
      <4>. HIDE DEF last
      <4>1. m[last] = used /\ \A i \in DOMAIN state.grandfathered : m[i] = match[i]
        BY <3>2
      <4>2. \A i \in DOMAIN state.grandfathered :
               match[i] \in DOMAIN baseline \ state.available /\ match[i] # used
        BY <2>3, <3>1 DEF OwnMatch
      <4>3. m \in [DOMAIN next.grandfathered -> DOMAIN baseline \ next.available]
        BY <2>3, <2>7, <3>2, <4>1, <4>2
      <4>4. \A i, j \in DOMAIN next.grandfathered : m[i] = m[j] => i = j
        BY <3>1, <3>2, <4>1, <4>2 DEF OwnMatch
      <4>5. \A i \in DOMAIN next.grandfathered : next.grandfathered[i][2] = baseline[m[i]]
        BY <3>1, <3>2, <4>1 DEF OwnMatch
      <4>. HIDE DEF m
      <4>. QED  BY <4>3, <4>4, <4>5 DEF OwnMatch
    <3>4. Len(next.retained) + Len(next.grandfathered) = k
      <4>1. /\ Len(next.grandfathered) = Len(state.grandfathered) + 1
            /\ Len(state.grandfathered) \in Nat
        BY <2>5, <2>6, <2>7, Appended
      <4>2. Len(state.retained) \in Nat /\ k \in Int
        BY <2>5
      <4>3. Len(state.retained) + Len(state.grandfathered) = k - 1
        BY <2>9 DEF Ratcheted
      <4>4. Len(next.retained) = Len(state.retained)
        BY <2>7
      <4>5. \A a, b \in Nat, c \in Int : a + b = c - 1 => (a + 1) + b = c /\ a + (b + 1) = c
        OBVIOUS
      <4>6. Len(state.retained) + (Len(state.grandfathered) + 1) = k
        <5>. DEFINE a == Len(state.retained)
                    b == Len(state.grandfathered)
        <5>1. a \in Nat /\ b \in Nat /\ k \in Int /\ a + b = k - 1
          BY <4>1, <4>2, <4>3
        <5>. HIDE DEF a, b
        <5>2. a + (b + 1) = k
          BY <5>1
        <5>. QED  BY <5>2, Zenon DEF a, b
      <4>. QED  BY <4>1, <4>4, <4>6
    <3>5. \A i \in DOMAIN next.retained : \E j \in 1 .. k : next.retained[i] = current[j]
      <4>1. \A j \in 1 .. k - 1 : j \in 1 .. k
        OBVIOUS
      <4>. QED  BY <2>7, <2>9, <4>1 DEF Ratcheted
    <3>6. ASSUME NEW i \in DOMAIN next.grandfathered
          PROVE  /\ \E j \in 1 .. k : next.grandfathered[i][1] = current[j]
                 /\ Excuses(next.grandfathered[i][2], next.grandfathered[i][1], changes)
      <4>1. CASE i = last
        <5>1. Excuses(baseline[used], finding, changes)
          BY <2>3, <2>9 DEF Excuses, Ratcheted
        <5>2. k \in 1 .. k
          OBVIOUS
        <5>. QED  BY <3>2, <4>1, <5>1, <5>2
      <4>2. CASE i # last
        <5>1. i \in DOMAIN state.grandfathered /\ next.grandfathered[i] = state.grandfathered[i]
          BY <3>2, <4>2
        <5>2. PICK j \in 1 .. k - 1 : state.grandfathered[i][1] = current[j]
          BY <2>9, <5>1 DEF Ratcheted
        <5>3. j \in 1 .. k
          OBVIOUS
        <5>. QED  BY <2>9, <5>1, <5>2, <5>3 DEF Ratcheted
      <4>. QED  BY <4>1, <4>2
    <3>7. \A i \in next.available : Eligible(baseline[i])
      BY <2>7, <2>9 DEF Ratcheted
    <3>8. ASSUME NEW j \in 1 .. k
          PROVE  \/ \E i \in DOMAIN next.retained : next.retained[i] = current[j]
                 \/ \E i \in DOMAIN next.grandfathered : next.grandfathered[i][1] = current[j]
      <4>1. CASE j = k
        <5>1. next.grandfathered[last][1] = current[j] /\ last \in DOMAIN next.grandfathered
          BY <3>2, <4>1
        <5>. QED  BY <5>1
      <4>2. CASE j # k
        <5>1. j \in 1 .. k - 1
          BY <4>2
        <5>2. CASE \E i \in DOMAIN state.retained : state.retained[i] = current[j]
          BY <2>7, <5>2
        <5>3. CASE \E i \in DOMAIN state.grandfathered : state.grandfathered[i][1] = current[j]
          <6>1. PICK i \in DOMAIN state.grandfathered : state.grandfathered[i][1] = current[j]
            BY <5>3
          <6>. HIDE DEF last
          <6>. QED  BY <3>2, <6>1
        <5>. QED  BY <2>9, <5>1, <5>2, <5>3 DEF Ratcheted
      <4>. QED  BY <4>1, <4>2
    <3>. QED  BY <3>3, <3>4, <3>5, <3>6, <3>7, <3>8 DEF Ratcheted
  <2>. QED  BY <2>8, <2>9 DEF next
<1>. QED  BY <1>2, <1>3

RatchetStart(baseline) ==
    [available |-> {i \in DOMAIN baseline : Eligible(baseline[i])}, retained |-> << >>, grandfathered |-> << >>]

(* The fold of the ratchet runs through its steps from the first finding on.  *)
LEMMA RatchetRuns ==
  ASSUME NEW Findings, \A f \in Findings : f.actual \in Nat,
         NEW current \in Seq(Findings), NEW baseline \in Seq(Findings), NEW changes
  PROVE  \E it : /\ it[{}] = RatchetStart(baseline)
                 /\ \A k \in 1 .. Len(current) :
                       it[1 .. k] = RatchetOne(it[1 .. k - 1], current[k], baseline, changes)
                 /\ ApplyLegacyRatchet(current, baseline, changes) = it[1 .. Len(current)]
<1>. DEFINE n == Len(current)
            State == Matchings(Findings, baseline)
            base == RatchetStart(baseline)
            Next(x, k) == RatchetOne(x, current[k], baseline, changes)
            Step == [p \in State \X (1 .. n) |-> Next(p[1], p[2])]
            Iterates(g) == g = [s \in SUBSET DOMAIN current |->
                                  IF s = {} THEN base ELSE Next(g[s \ {Max(s)}], Max(s))]
            it == CHOOSE g : Iterates(g)
<1>1. DOMAIN current = 1 .. n /\ n \in Nat
  OBVIOUS
<1>2. ASSUME NEW x \in State, NEW k \in 1 .. n
      PROVE  Next(x, k) \in State
  BY RatchetOneStep
<1>3. base \in State
  BY DEF Matchings, RatchetStart
<1>4. ApplyLegacyRatchet(current, baseline, changes) = it[DOMAIN current]
  BY Zenon DEF ApplyLegacyRatchet, FoldLeft, MapThenFoldSet, RatchetStart
<1>. HIDE DEF State, Next, base
<1>5. PICK g \in [SUBSET (1 .. n) -> State] : FoldFits(g, n, base, Step)
  <2>1. Step \in [State \X (1 .. n) -> State]
    BY <1>2
  <2>. HIDE DEF Step, n
  <2>. QED  BY <1>1, <1>3, <2>1, FoldExists
<1>6. Iterates(g)
  <2>1. g[{}] = base
    BY <1>5 DEF FoldFits
  <2>2. ASSUME NEW s \in SUBSET (1 .. n), s # {}
        PROVE  g[s] = Next(g[s \ {Max(s)}], Max(s))
    <3>1. Max(s) \in 1 .. n
      BY <1>1, <2>2, Greatest
    <3>2. g[s \ {Max(s)}] \in State
      OBVIOUS
    <3>3. g[s] = Step[<<g[s \ {Max(s)}], Max(s)>>]
      BY <1>5, <2>2 DEF FoldFits
    <3>. QED  BY <3>1, <3>2, <3>3
  <2>. QED  BY <1>1, <2>1, <2>2
<1>7. Iterates(it)
  <2>. HIDE DEF Iterates
  <2>. QED  BY <1>6
<1>. HIDE DEF it
<1>8. it[{}] = base
  BY <1>7
<1>9. ASSUME NEW k \in 1 .. n
      PROVE  it[1 .. k] = Next(it[1 .. k - 1], k)
  <2>1. Max(1 .. k) = k /\ (1 .. k) \ {k} = 1 .. k - 1
    <3>1. k - 1 \in Nat /\ (k - 1) + 1 = k
      OBVIOUS
    <3>. QED  BY <3>1, GreatestOfInterval
  <2>2. 1 .. k \subseteq 1 .. n /\ k \in 1 .. k
    BY <1>1
  <2>. QED  BY <1>1, <1>7, <2>1, <2>2
<1>. QED  BY <1>1, <1>4, <1>8, <1>9 DEF base, Next, n

(* So what every step keeps holds of the ratchet's result.                    *)
LEMMA RatchetFold ==
  ASSUME NEW Findings, \A f \in Findings : f.actual \in Nat,
         NEW current \in Seq(Findings), NEW baseline \in Seq(Findings), NEW changes
  PROVE  LET result == ApplyLegacyRatchet(current, baseline, changes)
         IN  /\ result \in Matchings(Findings, baseline)
             /\ Ratcheted(result, Len(current), current, baseline, changes)
<1>. DEFINE n == Len(current)
            State == Matchings(Findings, baseline)
            base == RatchetStart(baseline)
            Good == [k \in 0 .. n |->
                       {x \in State : Ratcheted(x, k, current, baseline, changes)}]
<1>1. n \in Nat
  OBVIOUS
<1>2. ASSUME NEW x \in State, NEW k \in 1 .. n
      PROVE  LET next == RatchetOne(x, current[k], baseline, changes)
             IN  /\ next \in State
                 /\ Ratcheted(x, k - 1, current, baseline, changes)
                      => Ratcheted(next, k, current, baseline, changes)
  BY RatchetOneStep
<1>3. base \in State /\ Ratcheted(base, 0, current, baseline, changes)
  <2>1. base \in State
    BY DEF Matchings, RatchetStart
  <2>2. OwnMatch(base, baseline, << >>)
    BY DEF OwnMatch, RatchetStart
  <2>3. Len(base.retained) + Len(base.grandfathered) = 0
    BY DEF RatchetStart
  <2>4. DOMAIN base.retained = {} /\ DOMAIN base.grandfathered = {}
    BY DEF RatchetStart
  <2>5. \A i \in base.available : Eligible(baseline[i])
    BY DEF RatchetStart
  <2>6. 1 .. 0 = {}
    OBVIOUS
  <2>. HIDE DEF base
  <2>. QED  BY <2>1, <2>2, <2>3, <2>4, <2>5, <2>6 DEF Ratcheted
<1>4. PICK it : /\ it[{}] = base
                /\ \A k \in 1 .. n : it[1 .. k] = RatchetOne(it[1 .. k - 1], current[k], baseline, changes)
                /\ ApplyLegacyRatchet(current, baseline, changes) = it[1 .. n]
  BY RatchetRuns
<1>. HIDE DEF State, base
<1>5. it[1 .. n] \in Good[n]
  <2>1. it[{}] \in Good[0]
    BY <1>1, <1>3, <1>4
  <2>2. ASSUME NEW k \in 1 .. n, it[1 .. k - 1] \in Good[k - 1]
        PROVE  it[1 .. k] \in Good[k]
    <3>1. k - 1 \in 0 .. n
      OBVIOUS
    <3>2. it[1 .. k - 1] \in State /\ Ratcheted(it[1 .. k - 1], k - 1, current, baseline, changes)
      BY <2>2, <3>1
    <3>. QED  BY <1>2, <1>4, <3>2
  <2>. HIDE DEF Good, n
  <2>. QED  BY <1>1, <2>1, <2>2, FoldInvariant
<1>6. it[1 .. n] \in State /\ Ratcheted(it[1 .. n], n, current, baseline, changes)
  BY <1>5
<1>. QED  BY <1>4, <1>6 DEF State

(* Grandfathering admits no new debt (adoption.rs), whatever was found before *)
(* and now: every current finding is retained or excused, none is counted     *)
(* twice; one that the change touched, or that has no identity, is retained;  *)
(* an excused one stands for a baseline finding of its own, of the same       *)
(* engine, name and files, that was at least as bad.                          *)
THEOREM RatchetAdmitsNoDebt ==
  ASSUME NEW Findings, \A f \in Findings : f.actual \in Nat,
         NEW current \in Seq(Findings), NEW baseline \in Seq(Findings), NEW changes
  PROVE  LET result == ApplyLegacyRatchet(current, baseline, changes)
             excused == result.grandfathered
         IN  /\ Len(result.retained) + Len(excused) = Len(current)
             /\ ToSet(result.retained) \subseteq ToSet(current)
             /\ \A f \in ToSet(current) :
                   \/ f \in ToSet(result.retained)
                   \/ \E i \in DOMAIN excused : excused[i][1] = f
             /\ \A f \in ToSet(current) :
                   Attributable(f, changes) \/ ~Eligible(f) => f \in ToSet(result.retained)
             /\ \A i \in DOMAIN excused : Excuses(excused[i][2], excused[i][1], changes)
             /\ \E own \in [DOMAIN excused -> DOMAIN baseline] :
                   /\ \A i, j \in DOMAIN excused : own[i] = own[j] => i = j
                   /\ \A i \in DOMAIN excused : excused[i][2] = baseline[own[i]]
<1>. DEFINE result == ApplyLegacyRatchet(current, baseline, changes)
            excused == result.grandfathered
            n == Len(current)
<1>1. /\ result \in Matchings(Findings, baseline)
      /\ Ratcheted(result, n, current, baseline, changes)
  BY RatchetFold
<1>2. ToSet(current) = {current[j] : j \in 1 .. n}
  BY DEF ToSet
<1>3. ToSet(result.retained) = {result.retained[i] : i \in DOMAIN result.retained}
  BY DEF ToSet
<1>. HIDE DEF result, n
<1>4. ToSet(result.retained) \subseteq ToSet(current)
  BY <1>1, <1>2, <1>3 DEF Ratcheted
<1>5. ASSUME NEW f \in ToSet(current)
      PROVE  f \in ToSet(result.retained) \/ \E i \in DOMAIN excused : excused[i][1] = f
  <2>1. PICK j \in 1 .. n : f = current[j]
    BY <1>2
  <2>. QED  BY <1>1, <1>3, <2>1 DEF Ratcheted
<1>6. \A i \in DOMAIN excused : Excuses(excused[i][2], excused[i][1], changes)
  BY <1>1 DEF Ratcheted
<1>7. \A f \in ToSet(current) :
         Attributable(f, changes) \/ ~Eligible(f) => f \in ToSet(result.retained)
  BY <1>5, <1>6 DEF Excuses
<1>8. PICK own : OwnMatch(result, baseline, own)
  BY <1>1 DEF Ratcheted
<1>9. own \in [DOMAIN excused -> DOMAIN baseline]
  BY <1>8 DEF OwnMatch
<1>10. Len(result.retained) + Len(excused) = n
  BY <1>1 DEF Ratcheted
<1>. QED  BY <1>4, <1>5, <1>6, <1>7, <1>8, <1>9, <1>10 DEF OwnMatch, result, n

(* In particular the debt of a measured engine never grows by grandfathering: *)
(* at no measure are there more excused findings than the baseline had.       *)
THEOREM DebtNeverGrows ==
  ASSUME NEW Findings, \A f \in Findings : f.actual \in Nat,
         NEW current \in Seq(Findings), NEW baseline \in Seq(Findings), NEW changes,
         NEW engine \in NumericEngines, NEW measure \in Nat
  PROVE  LET excused == ApplyLegacyRatchet(current, baseline, changes).grandfathered
         IN  Cardinality({i \in DOMAIN excused :
                 excused[i][1].engine = engine /\ excused[i][1].actual >= measure})
             <= Cardinality({i \in DOMAIN baseline :
                 baseline[i].engine = engine /\ baseline[i].actual >= measure})
<1>. DEFINE result == ApplyLegacyRatchet(current, baseline, changes)
            excused == result.grandfathered
            now == {i \in DOMAIN excused :
                      excused[i][1].engine = engine /\ excused[i][1].actual >= measure}
            before == {i \in DOMAIN baseline :
                      baseline[i].engine = engine /\ baseline[i].actual >= measure}
<1>1. /\ result \in Matchings(Findings, baseline)
      /\ Ratcheted(result, Len(current), current, baseline, changes)
  BY RatchetFold
<1>. HIDE DEF result
<1>2. excused \in Seq(Findings \X Findings)
  BY <1>1 DEF Matchings
<1>3. PICK own : OwnMatch(result, baseline, own)
  BY <1>1 DEF Ratcheted
<1>4. ASSUME NEW i \in now
      PROVE  own[i] \in before
  <2>1. own[i] \in DOMAIN baseline /\ excused[i][2] = baseline[own[i]]
    BY <1>3 DEF OwnMatch
  <2>2. Excuses(excused[i][2], excused[i][1], changes)
    BY <1>1 DEF Ratcheted
  <2>3. excused[i][1] \in Findings /\ excused[i][2] \in Findings
    BY <1>2
  <2>4. excused[i][2].engine = excused[i][1].engine
    BY <2>2 DEF Excuses, Key
  <2>5. excused[i][1].actual <= excused[i][2].actual
    BY <2>2 DEF Excuses
  <2>6. excused[i][1].actual \in Nat /\ excused[i][2].actual \in Nat
    BY <2>3
  <2>7. excused[i][2].actual >= measure
    BY <2>5, <2>6
  <2>. QED  BY <2>1, <2>4, <2>7
<1>5. [i \in now |-> own[i]] \in Injection(now, before)
  BY <1>3, <1>4 DEF OwnMatch, Injection, IsInjective
<1>6. IsFiniteSet(before)
  <2>1. DOMAIN baseline = 1 .. Len(baseline) /\ Len(baseline) \in Nat
    OBVIOUS
  <2>2. IsFiniteSet(DOMAIN baseline)
    BY <2>1, FS_Interval
  <2>. QED  BY <2>2, FS_Subset
<1>. HIDE DEF now, before
<1>7. Cardinality(now) <= Cardinality(before)
  BY <1>5, <1>6, FS_Injection
<1>. QED  BY <1>7 DEF now, before, result
=============================================================================
