----------------------------- MODULE Ranking_proofs -----------------------------
(***************************************************************************)
(* Whom the ranking puts first, for every roster.  Loads and debts are     *)
(* sums over sets: that a sum over a finite set is a number is shown here  *)
(* by a least counterexample among its subsets.                            *)
(***************************************************************************)
EXTENDS TimedFill_proofs

-----------------------------------------------------------------------------
(* Sums. *)

Picked(s) == CHOOSE x \in s : TRUE

(* The function by which MapThenFoldSet adds.                               *)
Adds(g, f, S) ==
  g = [s \in SUBSET S |->
         IF s = {} THEN 0
         ELSE f[Picked(s)] + g[s \ {Picked(s)}]]

LEMMA SmallestSubset ==
  ASSUME NEW S, IsFiniteSet(S), NEW T \in SUBSET (SUBSET S), T # {}
  PROVE  \E s \in T : \A r \in SUBSET s : r # s => r \notin T
<1>1. IsWellFoundedOn(StrictSubsetOrdering(S), SUBSET S)
  BY FS_StrictSubsetOrderingWellFounded, FS_FiniteSubsetsOfFinite
<1>2. PICK s \in T : \A r \in T : ~(<<r, s>> \in StrictSubsetOrdering(S))
  BY <1>1, WFMin
<1>3. ASSUME NEW r \in SUBSET s, r # s, r \in T
      PROVE  FALSE
  BY <1>2, <1>3 DEF StrictSubsetOrdering
<1> QED
  BY <1>3

LEMMA OneLess ==
  ASSUME NEW s, s # {}
  PROVE  Picked(s) \in s /\ s \ {Picked(s)} \in SUBSET s /\ s \ {Picked(s)} # s
<1>1. Picked(s) \in s
  BY DEF Picked
<1> QED
  BY <1>1

LEMMA AddsAt ==
  ASSUME NEW g, NEW f, NEW S, Adds(g, f, S), NEW s \in SUBSET S
  PROVE  g[s] = IF s = {} THEN 0 ELSE f[Picked(s)] + g[s \ {Picked(s)}]
BY DEF Adds

(* What is added does not depend on the set it is part of.                  *)
LEMMA AddsAlike ==
  ASSUME NEW f, NEW g, NEW h, NEW t, NEW u \in SUBSET t, IsFiniteSet(t),
         Adds(g, f, t), Adds(h, f, u)
  PROVE  g[u] = h[u]
<1> DEFINE T == {s \in SUBSET u : g[s] # h[s]}
<1>1. CASE T = {}
  BY <1>1
<1>2. CASE T # {}
  <2>1. IsFiniteSet(u)
    BY FS_Subset
  <2>2. T \in SUBSET (SUBSET u)
    OBVIOUS
  <2> HIDE DEF T
  <2>8. PICK s \in T : \A r \in SUBSET s : r # s => r \notin T
    BY <1>2, <2>1, <2>2, SmallestSubset
  <2>3. s \in SUBSET u /\ s \in SUBSET t /\ g[s] # h[s]
    BY DEF T
  <2>c. PICK c : c = Picked(s)
    OBVIOUS
  <2>4. /\ g[s] = IF s = {} THEN 0 ELSE f[c] + g[s \ {c}]
        /\ h[s] = IF s = {} THEN 0 ELSE f[c] + h[s \ {c}]
    BY <2>3, <2>c, AddsAt
  <2>5. s # {}
    BY <2>3, <2>4
  <2>6. s \ {c} \in SUBSET s /\ s \ {c} # s
    BY <2>5, <2>c, OneLess
  <2>7. g[s \ {c}] = h[s \ {c}]
    BY <2>3, <2>6, <2>8 DEF T
  <2> QED
    BY <2>3, <2>4, <2>5, <2>7
<1> QED
  BY <1>1, <1>2

LEMMA SumsExist ==
  ASSUME NEW S, IsFiniteSet(S), NEW f
  PROVE  \E g : Adds(g, f, S)
<1> DEFINE T == {s \in SUBSET S : ~\E g : Adds(g, f, s)}
<1>1. T \in SUBSET (SUBSET S)
  OBVIOUS
<1>2. SUFFICES ASSUME T # {} PROVE FALSE
  OBVIOUS
<1> HIDE DEF T
<1>3. PICK s \in T : \A r \in SUBSET s : r # s => r \notin T
  BY <1>1, <1>2, SmallestSubset
<1>4. s \in SUBSET S /\ ~\E g : Adds(g, f, s)
  BY DEF T
<1>5. \A r \in SUBSET s : r # s => \E g : Adds(g, f, r)
  BY <1>3, <1>4 DEF T
<1>6. PICK H : H = [r \in SUBSET s |-> CHOOSE g : Adds(g, f, r)]
  OBVIOUS
<1>7. \A r \in SUBSET s : r # s => Adds(H[r], f, r)
  BY <1>5, <1>6
<1>8. PICK h : h = [r \in SUBSET s |->
                      IF r = {} THEN 0 ELSE f[Picked(r)] + H[r \ {Picked(r)}][r \ {Picked(r)}]]
  OBVIOUS
<1>9. ASSUME NEW v \in SUBSET s, v # s
      PROVE  h[v] = H[v][v]
  <2>1. H[v][v] = IF v = {} THEN 0 ELSE f[Picked(v)] + H[v][v \ {Picked(v)}]
    <3>1. PICK g : g = H[v]
      OBVIOUS
    <3>2. Adds(g, f, v) /\ v \in SUBSET v
      BY <1>7, <1>9, <3>1
    <3>3. g[v] = IF v = {} THEN 0 ELSE f[Picked(v)] + g[v \ {Picked(v)}]
      BY <3>2, AddsAt
    <3> QED
      BY <3>1, <3>3
  <2>2. h[v] = IF v = {} THEN 0 ELSE f[Picked(v)] + H[v \ {Picked(v)}][v \ {Picked(v)}]
    BY <1>8
  <2>3. ASSUME v # {}
        PROVE  H[v][v \ {Picked(v)}] = H[v \ {Picked(v)}][v \ {Picked(v)}]
    <3>1. v \ {Picked(v)} \in SUBSET v /\ v \ {Picked(v)} # v
      BY <2>3, OneLess
    <3>2. v \ {Picked(v)} \in SUBSET s /\ v \ {Picked(v)} # s
      BY <3>1
    <3>3. Adds(H[v], f, v) /\ Adds(H[v \ {Picked(v)}], f, v \ {Picked(v)})
      BY <1>7, <1>9, <3>2
    <3>4. IsFiniteSet(v)
      BY <1>4, FS_Subset
    <3> QED
      BY <3>1, <3>3, <3>4, AddsAlike
  <2> QED
    BY <2>1, <2>2, <2>3
<1>10. ASSUME NEW r \in SUBSET s, r # {}
       PROVE  h[r \ {Picked(r)}] = H[r \ {Picked(r)}][r \ {Picked(r)}]
  <2>1. r \ {Picked(r)} \in SUBSET r /\ r \ {Picked(r)} # r
    BY <1>10, OneLess
  <2>2. r \ {Picked(r)} \in SUBSET s /\ r \ {Picked(r)} # s
    BY <2>1
  <2> QED
    BY <1>9, <2>2
<1>11. h = [r \in SUBSET s |-> IF r = {} THEN 0 ELSE f[Picked(r)] + h[r \ {Picked(r)}]]
  BY <1>8, <1>10
<1>12. Adds(h, f, s)
  BY <1>11 DEF Adds
<1> QED
  BY <1>4, <1>12

(* A sum of numbers is a number, of numbers from nought up one from nought  *)
(* up.                                                                      *)
LEMMA SumsAreNumbers ==
  ASSUME NEW S, IsFiniteSet(S), NEW f \in [S -> Int], NEW g, Adds(g, f, S)
  PROVE  /\ g[S] \in Int
         /\ (\A x \in S : f[x] >= 0) => g[S] >= 0
<1> DEFINE Number(s) == g[s] \in Int /\ ((\A x \in S : f[x] >= 0) => g[s] >= 0)
           T == {s \in SUBSET S : ~Number(s)}
<1>1. CASE T = {}
  BY <1>1
<1>2. CASE T # {}
  <2>0. T \in SUBSET (SUBSET S)
    OBVIOUS
  <2> HIDE DEF T
  <2>1. PICK s \in T : \A r \in SUBSET s : r # s => r \notin T
    BY <1>2, <2>0, SmallestSubset
  <2>2. s \in SUBSET S
    BY DEF T
  <2>6. ~Number(s)
    BY DEF T
  <2>c. PICK c : c = Picked(s)
    OBVIOUS
  <2>3. g[s] = IF s = {} THEN 0 ELSE f[c] + g[s \ {c}]
    <3>1. g[s] = IF s = {} THEN 0 ELSE f[Picked(s)] + g[s \ {Picked(s)}]
      BY <2>2, AddsAt
    <3> QED
      BY <2>c, <3>1
  <2>4. CASE s = {}
    BY <2>3, <2>4, <2>6
  <2>5. CASE s # {}
    <3>1. c \in s /\ s \ {c} \in SUBSET s /\ s \ {c} # s
      BY <2>5, <2>c, OneLess
    <3>2. s \ {c} \in SUBSET S /\ c \in S
      BY <2>2, <3>1
    <3>3. Number(s \ {c})
      BY <2>1, <3>1, <3>2 DEF T
    <3>4. f[c] \in Int /\ g[s] = f[c] + g[s \ {c}]
      BY <2>3, <2>5, <3>2
    <3> QED
      BY <2>6, <3>2, <3>3, <3>4
  <2> QED
    BY <2>4, <2>5
<1> QED
  BY <1>1, <1>2

-----------------------------------------------------------------------------
(* Loads and debts. *)

LEMMA ShiftsHaveLoads == \A d \in Duties : LoadOfShift(d) \in Int
<1>1. SUFFICES ASSUME NEW d \in Duties PROVE LoadOfShift(d) \in Int
  OBVIOUS
<1>2. Shift[d].start \in Int /\ Shift[d].end \in Int
  BY TimeAssumption
<1>3. UnsociableTicks(Shift[d], Org.zone) \in Nat
  <2> DEFINE ticks == {t \in Shift[d].start .. (Shift[d].end - 1) :
                         Unsociable(t - ((t - Shift[d].start) % Step), Org.zone)}
  <2>1. IsFiniteSet(Shift[d].start .. (Shift[d].end - 1))
    BY <1>2, FS_Interval
  <2>2. IsFiniteSet(ticks)
    BY <2>1, FS_Subset
  <2> HIDE DEF ticks
  <2>3. Cardinality(ticks) \in Nat
    BY <2>2, FS_CardinalityType
  <2> QED
    BY <2>3 DEF UnsociableTicks, ticks
<1>4. PICK n \in Nat : n = UnsociableTicks(Shift[d], Org.zone)
  BY <1>3
<1>5. LoadOfShift(d) = 2 * (Shift[d].end - Shift[d].start - n) + 3 * n
  BY <1>4 DEF LoadOfShift
<1> QED
  BY <1>2, <1>5

LEMMA LoadsAreNumbers ==
  ASSUME NEW p
  PROVE  WeightedLoad(p) \in Int
<1> DEFINE S == CarriedBy(p)
           f == [d \in S |-> LoadOfShift(d)]
           Summing(g) == g = [s \in SUBSET S |->
                                IF s = {} THEN 0
                                ELSE LoadOfShift(Picked(s))
                                       + g[s \ {Picked(s)}]]
<1>1. WeightedLoad(p) = (CHOOSE g : Summing(g))[S]
  BY Zenon DEF Picked, WeightedLoad, MapThenSumSet, MapThenFoldSet
<1>2. S \subseteq Duties /\ IsFiniteSet(S)
  <2>1. S \subseteq Duties
    BY DEF CarriedBy, DutiesOf
  <2> QED
    BY <2>1, RosterAssumption, FS_Subset
<1>3. f \in [S -> Int] /\ \A d \in S : f[d] = LoadOfShift(d)
  BY <1>2, ShiftsHaveLoads
<1> HIDE DEF f, S
<1>4. ASSUME NEW g
      PROVE  Adds(g, f, S) <=> Summing(g)
  <2>1. \A s \in SUBSET S : s # {} => f[Picked(s)] = LoadOfShift(Picked(s))
    BY <1>3, OneLess
  <2> QED
    BY <2>1 DEF Adds
<1>5. \E g : Summing(g)
  <2>1. \E g : Adds(g, f, S)
    BY <1>2, <1>3, SumsExist
  <2> HIDE DEF Summing
  <2> QED
    BY <1>4, <2>1
<1> HIDE DEF Summing
<1>6. Adds(CHOOSE g : Summing(g), f, S)
  BY <1>4, <1>5
<1> QED
  BY <1>1, <1>2, <1>3, <1>6, SumsAreNumbers

LEMMA CohortsAreFinite ==
  ASSUME NEW cohort \in SUBSET People
  PROVE  IsFiniteSet(cohort) /\ Cardinality(cohort) \in Nat
         /\ \A p \in cohort : Cardinality(cohort) >= 1
<1>1. IsFiniteSet(cohort)
  BY RosterAssumption, FS_Subset
<1>2. Cardinality(cohort) \in Nat
  BY <1>1, FS_CardinalityType
<1>3. cohort # {} => Cardinality(cohort) # 0
  BY <1>1, FS_EmptySet
<1> QED
  BY <1>1, <1>2, <1>3

(* Every debt is what the cohort has carried, less as often the person's    *)
(* own load as there are people in it.                                      *)
LEMMA DebtsAreNumbers ==
  ASSUME NEW cohort \in SUBSET People
  PROVE  \E total \in Int : \A p : Debt(p, cohort) = total - Cardinality(cohort) * WeightedLoad(p)
<1> DEFINE f == [q \in cohort |-> WeightedLoad(q)]
           Summing(g) == g = [s \in SUBSET cohort |->
                                IF s = {} THEN 0
                                ELSE WeightedLoad(Picked(s))
                                       + g[s \ {Picked(s)}]]
           total == (CHOOSE g : Summing(g))[cohort]
<1>1. \A p : Debt(p, cohort) = total - Cardinality(cohort) * WeightedLoad(p)
  BY Zenon DEF Picked, Debt, MapThenSumSet, MapThenFoldSet
<1>2. f \in [cohort -> Int] /\ \A q \in cohort : f[q] = WeightedLoad(q)
  BY LoadsAreNumbers
<1> HIDE DEF f
<1>3. ASSUME NEW g
      PROVE  Adds(g, f, cohort) <=> Summing(g)
  <2>1. \A s \in SUBSET cohort :
          s # {} => f[Picked(s)] = WeightedLoad(Picked(s))
    BY <1>2, OneLess
  <2> QED
    BY <2>1 DEF Adds
<1>4. \E g : Summing(g)
  BY <1>3, CohortsAreFinite, SumsExist
<1> HIDE DEF Summing
<1>5. Adds(CHOOSE g : Summing(g), f, cohort)
  BY <1>3, <1>4
<1>6. total \in Int
  BY <1>2, <1>5, CohortsAreFinite, SumsAreNumbers
<1> HIDE DEF total
<1> QED
  BY <1>1, <1>6

LEMMA ScaleIsPositive ==
  ASSUME NEW cohort \in SUBSET People
  PROVE  DebtScale(cohort) \in Nat
<1> DEFINE f == [q \in cohort |-> Magnitude(Debt(q, cohort))]
           Summing(g) == g = [s \in SUBSET cohort |->
                                IF s = {} THEN 0
                                ELSE Magnitude(Debt(Picked(s), cohort))
                                       + g[s \ {Picked(s)}]]
<1>1. DebtScale(cohort) = (CHOOSE g : Summing(g))[cohort]
  BY Zenon DEF Picked, DebtScale, MapThenSumSet, MapThenFoldSet
<1>2. PICK total \in Int :
        \A p : Debt(p, cohort) = total - Cardinality(cohort) * WeightedLoad(p)
  BY DebtsAreNumbers
<1>3. ASSUME NEW q \in cohort
      PROVE  Magnitude(Debt(q, cohort)) \in Nat
  <2>1. Cardinality(cohort) \in Int /\ WeightedLoad(q) \in Int
    BY CohortsAreFinite, LoadsAreNumbers
  <2>2. Debt(q, cohort) \in Int
    BY <1>2, <2>1
  <2> QED
    BY <2>2 DEF Magnitude
<1>4. /\ f \in [cohort -> Int]
      /\ \A q \in cohort : f[q] = Magnitude(Debt(q, cohort)) /\ f[q] >= 0
  BY <1>3
<1> HIDE DEF f
<1>5. ASSUME NEW g
      PROVE  Adds(g, f, cohort) <=> Summing(g)
  <2>1. \A s \in SUBSET cohort :
          s # {} => f[Picked(s)] = Magnitude(Debt(Picked(s), cohort))
    BY <1>4, OneLess
  <2> QED
    BY <2>1 DEF Adds
<1>6. \E g : Summing(g)
  BY <1>5, CohortsAreFinite, SumsExist
<1> HIDE DEF Summing
<1>7. Adds(CHOOSE g : Summing(g), f, cohort)
  BY <1>5, <1>6
<1>8. PICK g : g = (CHOOSE h : Summing(h))
  OBVIOUS
<1>9. g[cohort] \in Int /\ g[cohort] >= 0
  BY <1>4, <1>7, <1>8, CohortsAreFinite, SumsAreNumbers
<1> QED
  BY <1>1, <1>8, <1>9

-----------------------------------------------------------------------------
(* The parts of a score. *)

LEMMA DivKeepsOrder ==
  ASSUME NEW n \in Nat \ {0}, NEW x \in Int, NEW y \in Int, x <= y
  PROVE  x \div n <= y \div n
OBVIOUS

LEMMA TimesKeepsOrder ==
  ASSUME NEW n \in Nat, NEW x \in Int, NEW y \in Int, x <= y
  PROVE  n * x <= n * y
OBVIOUS

LEMMA PairMax ==
  ASSUME NEW m \in Int, NEW n \in Int
  PROVE  Max({m, n}) = IF m <= n THEN n ELSE m
<1> DEFINE most == IF m <= n THEN n ELSE m
<1>1. most \in {m, n} /\ \A x \in {m, n} : most >= x
  OBVIOUS
<1>2. \A y \in {m, n} : (\A x \in {m, n} : y >= x) => y = most
  OBVIOUS
<1> QED
  BY <1>1, <1>2 DEF Max

LEMMA ClampKeepsOrder ==
  ASSUME NEW x \in Int
  PROVE  /\ Clamp(x) \in Int
         /\ \A y \in Int : x <= y => Clamp(x) <= Clamp(y)
<1>1. \A y \in Int : Clamp(y) = IF y <= 0 THEN 0 ELSE IF y <= Unit THEN y ELSE Unit
  <2>1. ASSUME NEW y \in Int
        PROVE  Clamp(y) = IF y <= 0 THEN 0 ELSE IF y <= Unit THEN y ELSE Unit
    <3>1. PICK least \in Int : least = Min({Unit, y}) /\ least = IF Unit <= y THEN Unit ELSE y
      BY PairMin DEF Unit
    <3>2. Max({0, least}) = IF 0 <= least THEN least ELSE 0
      BY PairMax
    <3>3. Clamp(y) = IF 0 <= least THEN least ELSE 0
      BY <3>1, <3>2 DEF Clamp
    <3> QED
      BY <3>1, <3>3 DEF Unit
  <2> QED
    BY <2>1
<1> QED
  BY <1>1 DEF Unit

(* Who is owed more scores no less.                                         *)
LEMMA FairnessFollowsDebt ==
  ASSUME NEW cohort \in SUBSET People, NEW p \in cohort, NEW q \in cohort,
         WeightedLoad(p) < WeightedLoad(q)
  PROVE  /\ Debt(p, cohort) \in Int /\ Debt(q, cohort) \in Int
         /\ Debt(p, cohort) > Debt(q, cohort)
         /\ FairnessScore(p, cohort) \in Int /\ FairnessScore(q, cohort) \in Int
         /\ FairnessScore(p, cohort) >= FairnessScore(q, cohort)
<1>1. PICK n \in Nat : n = Cardinality(cohort) /\ n >= 1
  BY CohortsAreFinite
<1>2. PICK scale \in Nat : scale = DebtScale(cohort)
  BY ScaleIsPositive
<1>3. PICK a \in Int, b \in Int : a = Debt(p, cohort) /\ b = Debt(q, cohort) /\ a > b
  <2>1. PICK total \in Int :
          \A r : Debt(r, cohort) = total - Cardinality(cohort) * WeightedLoad(r)
    BY DebtsAreNumbers
  <2>2. PICK v \in Int, w \in Int : v = WeightedLoad(p) /\ w = WeightedLoad(q) /\ v < w
    BY LoadsAreNumbers
  <2>3. Debt(p, cohort) = total - n * v /\ Debt(q, cohort) = total - n * w
    BY <1>1, <2>1, <2>2
  <2>4. n * v \in Int /\ n * w \in Int /\ n * v < n * w
    <3>1. n * v <= n * (w - 1)
      BY <2>2, TimesKeepsOrder
    <3>2. n * (w - 1) = n * w - n
      OBVIOUS
    <3> QED
      BY <1>1, <3>1, <3>2
  <2> QED
    BY <2>3, <2>4
<1>4. /\ FairnessScore(p, cohort) = Normalised(a, n, scale)
      /\ FairnessScore(q, cohort) = Normalised(b, n, scale)
  BY <1>1, <1>2, <1>3 DEF FairnessScore
<1>5. CASE scale = 0
  <2>1. /\ Normalised(a, n, scale) = Unit \div 2
        /\ Normalised(b, n, scale) = Unit \div 2
    BY <1>5 DEF Normalised
  <2>2. Unit \div 2 \in Int
    BY DEF Unit
  <2> QED
    BY <1>3, <1>4, <2>1, <2>2
<1>6. CASE scale # 0
  <2>1. PICK m \in Nat : m = Unit * n
    BY DEF Unit
  <2>2. m * b <= m * a /\ m * a \in Int /\ m * b \in Int
    BY <1>3, TimesKeepsOrder
  <2>3. 2 * scale \in Nat \ {0}
    BY <1>6
  <2>4. PICK x \in Int, y \in Int :
          x = (m * a) \div (2 * scale) /\ y = (m * b) \div (2 * scale) /\ y <= x
    <3>1. (m * a) \div (2 * scale) \in Int /\ (m * b) \div (2 * scale) \in Int
      BY <2>2, <2>3, Quotient
    <3> QED
      BY <2>2, <2>3, <3>1, DivKeepsOrder
  <2>5. /\ Normalised(a, n, scale) = Clamp(Unit \div 2 + x)
        /\ Normalised(b, n, scale) = Clamp(Unit \div 2 + y)
    BY <1>6, <2>1, <2>4 DEF Normalised
  <2>6. PICK u \in Int, v \in Int : u = Unit \div 2 + x /\ v = Unit \div 2 + y /\ v <= u
    BY <2>4 DEF Unit
  <2>7. Clamp(u) \in Int /\ Clamp(v) \in Int /\ Clamp(v) <= Clamp(u)
    BY <2>6, ClampKeepsOrder
  <2> QED
    BY <1>3, <1>4, <2>5, <2>6, <2>7
<1> QED
  BY <1>5, <1>6

LEMMA ContactIsSomeTime ==
  ASSUME NEW p, NEW t \in Int
  PROVE  NextContactable(p, t) \in Int
<1> DEFINE met == {c \in t .. (t + SearchHorizon - 1) :
                     (c - t) % Step = 0 /\ ~InQuietHours(p, c)}
<1>1. SearchHorizon \in Int
  BY RosterAssumption
<1>2. met \subseteq t .. (t + SearchHorizon - 1) /\ met \subseteq Int
  OBVIOUS
<1>3. NextContactable(p, t) = IF ~person[p].quiet.enabled THEN t
                              ELSE IF met = {} THEN t + SearchHorizon ELSE Min(met)
  BY DEF NextContactable
<1> HIDE DEF met
<1>4. met # {} => Min(met) \in Int
  <2>1. t + SearchHorizon - 1 \in Int
    BY <1>1
  <2> QED
    BY <1>2, <2>1, LeastThere
<1> QED
  BY <1>1, <1>3, <1>4

LEMMA FitIsNumber ==
  ASSUME NEW p, NEW d
  PROVE  FitScore(p, d) \in Int
<1> DEFINE sameRole == {e \in DutiesOf(p) \ {d} : Shift[e].role = Shift[d].role}
           qualified == Shift[d].qualification \in person[p].quals \cup {None}
<1>1. sameRole \subseteq Duties
  BY DEF DutiesOf
<1>2. PICK n \in Nat : n = Cardinality(sameRole)
  BY <1>1, RosterAssumption, FS_Subset, FS_CardinalityType
<1>3. PICK m \in Int : m = Min({3, n})
  BY PairMin
<1>4. FitScore(p, d) = (IF qualified THEN (4 * Unit) \div 5 ELSE 0) + (m * Unit) \div 15
  BY <1>2, <1>3 DEF FitScore
<1>5. (4 * Unit) \div 5 \in Int /\ (m * Unit) \div 15 \in Int
  BY DEF Unit
<1> QED
  BY <1>4, <1>5

LEMMA ResponsivenessIsNumber ==
  ASSUME TimedInv, NEW p
  PROVE  ResponsivenessScore(p) \in Int
<1>1. IsFiniteSet(AskedInWindow(p))
  <2>1. AskedInWindow(p) \subseteq Written
    BY DEF AskedInWindow, EmailsTo, Written
  <2> QED
    BY <2>1, FS_Subset DEF TimedInv
<1>2. PICK asked \in Nat : asked = Cardinality(AskedInWindow(p))
  BY <1>1, FS_CardinalityType
<1>3. ASSUME NEW state
      PROVE  Answered(p, state) \in Nat
  <2>1. IsFiniteSet({a \in AskedInWindow(p) : ask[a].state = state})
    BY <1>1, FS_Subset
  <2> QED
    BY <2>1, FS_CardinalityType DEF Answered
<1>4. PICK accepts \in Nat, declines \in Nat :
        accepts = Answered(p, "accepted") /\ declines = Answered(p, "declined")
  BY <1>3
<1>5. \A n, m \in Nat : Shrunk(n, m) \in Int
  <2>1. ASSUME NEW n \in Nat, NEW m \in Nat
        PROVE  Shrunk(n, m) \in Int
    <3>1. Unit * (2 * n + 3) \in Int /\ 2 * m + 6 \in Nat \ {0}
      BY DEF Unit
    <3> QED
      BY <3>1, Quotient DEF Shrunk
  <2> QED
    BY <2>1
<1>6. PICK u \in Int, v \in Int :
        u = Shrunk(accepts, accepts + declines) /\ v = Shrunk(accepts + declines, asked)
  <2>1. accepts + declines \in Nat
    OBVIOUS
  <2> QED
    BY <1>5, <2>1
<1>7. ResponsivenessScore(p) = IF asked = 0 THEN Unit \div 2 ELSE (6 * u + 4 * v) \div 10
  BY <1>2, <1>4, <1>6 DEF ResponsivenessScore
<1> QED
  BY <1>7 DEF Unit

LEMMA NoticeIsNumber ==
  ASSUME TypeOK, NEW p, NEW d \in Duties
  PROVE  NoticeScore(p, d) \in Int
<1>1. PICK ahead \in Int : ahead = Unit * (Shift[d].start - NextContactable(p, now))
  <2>1. PICK contact \in Int : contact = NextContactable(p, now)
    BY ContactIsSomeTime DEF TypeOK
  <2>2. Shift[d].start \in Int
    BY TimeAssumption
  <2>3. Unit * (Shift[d].start - contact) \in Int
    BY <2>2 DEF Unit
  <2> QED
    BY <2>1, <2>3
<1>2. ahead \div NoticeSaturation \in Int
  BY RankingAssumption, Quotient
<1> QED
  BY <1>1, <1>2, ClampKeepsOrder DEF NoticeScore

LEMMA RestIsNumber ==
  ASSUME TimedInv, NEW p
  PROVE  RestScore(p) \in Int
<1> DEFINE asked == AskedInWindow(p)
           times == {ask[a].sent : a \in asked}
<1>1. CASE times = {}
  <2>1. LastAsked(p) = None
    BY <1>1 DEF LastAsked
  <2> QED
    BY <2>1 DEF RestScore, Unit
<1>2. CASE times # {}
  <2>1. LastAsked(p) = Max(times)
    BY <1>2 DEF LastAsked
  <2>2. asked \subseteq Written /\ asked \subseteq AskIds /\ asked # {}
    BY <1>2 DEF AskedInWindow, EmailsTo, Written
  <2>3. IsFiniteSet(asked)
    BY <2>2, FS_Subset DEF TimedInv
  <2>4. \A a \in asked : ask[a].sent \in Int
    BY <2>2 DEF TimedInv, TypeOK
  <2>5. PICK latest \in asked : \A a \in asked : ask[a].sent <= ask[latest].sent
    <3>1. [a \in asked |-> ask[a].sent] \in [asked -> Int]
      BY <2>4
    <3>2. PICK last \in asked :
            \A a \in asked : [b \in asked |-> ask[b].sent][a] <= [b \in asked |-> ask[b].sent][last]
      BY <2>2, <2>3, <3>1, Greatest
    <3> QED
      BY <3>2
  <2>6. ask[latest].sent \in times /\ \A t \in times : ask[latest].sent >= t
    BY <2>4, <2>5
  <2>7. Max(times) \in times
    BY <2>6 DEF Max
  <2>8. PICK rest \in Int : rest = Unit * (now - LastAsked(p))
    <3>1. PICK last \in Int : last = LastAsked(p)
      BY <2>1, <2>4, <2>7
    <3>2. Unit * (now - last) \in Int
      BY DEF TimedInv, TypeOK, Unit
    <3> QED
      BY <3>1, <3>2
  <2>9. rest \div RestSaturation \in Int
    BY RankingAssumption, Quotient
  <2> QED
    BY <2>8, <2>9, ClampKeepsOrder DEF RestScore, Unit
<1> QED
  BY <1>1, <1>2

(* With the rest equal or better, the lighter load comes first: it is owed   *)
(* more, so it scores no less, and a tie goes to the greater debt.          *)
LEMMA LighterComesFirst ==
  ASSUME TimedInv
  PROVE  LighterFirst
<1> DEFINE group(d) == Candidates(d, BestAvailableAction)
<1>1. ASSUME NEW d \in Duties, NEW cohort, cohort = group(d),
             NEW p \in cohort, NEW q \in cohort,
             WeightedLoad(p) < WeightedLoad(q),
             FitScore(p, d) >= FitScore(q, d),
             ResponsivenessScore(p) >= ResponsivenessScore(q),
             NoticeScore(p, d) >= NoticeScore(q, d),
             RestScore(p) >= RestScore(q)
      PROVE  Before(d, cohort, p, q)
  <2>1. cohort \in SUBSET People
    BY <1>1 DEF Candidates
  <2>2. PICK a \in Int, b \in Int, u \in Int, v \in Int :
          /\ a = Debt(p, cohort) /\ b = Debt(q, cohort) /\ a > b
          /\ u = FairnessScore(p, cohort) /\ v = FairnessScore(q, cohort) /\ u >= v
    BY <1>1, <2>1, FairnessFollowsDebt
  <2>3. /\ FitScore(p, d) \in Int /\ FitScore(q, d) \in Int
        /\ ResponsivenessScore(p) \in Int /\ ResponsivenessScore(q) \in Int
        /\ NoticeScore(p, d) \in Int /\ NoticeScore(q, d) \in Int
        /\ RestScore(p) \in Int /\ RestScore(q) \in Int
    BY FitIsNumber, ResponsivenessIsNumber, NoticeIsNumber, RestIsNumber DEF TimedInv
  <2>4. PICK x \in Int, y \in Int :
          x = Score(p, d, cohort) /\ y = Score(q, d, cohort) /\ x >= y
    BY <1>1, <2>2, <2>3 DEF Score
  <2>5. PICK m, n :
          /\ m = Merit(p, d, cohort) /\ n = Merit(q, d, cohort)
    OBVIOUS
  <2>6. /\ m[1] = x /\ m[2] = a /\ n[1] = y /\ n[2] = b /\ DOMAIN m = 1 .. 4
    BY <2>2, <2>4, <2>5 DEF Merit
  <2>7. CASE x > y
    <3>1. 1 \in DOMAIN m /\ m[1] > n[1] /\ \A j \in 1 .. (1 - 1) : m[j] = n[j]
      BY <2>6, <2>7
    <3> QED
      BY <2>5, <3>1 DEF Before, Outranks
  <2>8. CASE x = y
    <3>1. 2 \in DOMAIN m /\ m[2] > n[2] /\ \A j \in 1 .. (2 - 1) : m[j] = n[j]
      BY <2>2, <2>6, <2>8
    <3> QED
      BY <2>5, <3>1 DEF Before, Outranks
  <2> QED
    BY <2>4, <2>7, <2>8
<1> QED
  BY <1>1 DEF LighterFirst

(* With the rest equal or better, who has carried less is asked first, in   *)
(* every state and whatever the history (ranking.py, fairness.py).          *)
THEOREM TheLighterIsAsked == Spec => []LighterFirst
BY TimedInvariant, LighterComesFirst, PTL
=============================================================================
