-------------------------------- MODULE Ranking --------------------------------
(***************************************************************************)
(* Whom to ask first (core/ranking.py).  The five parts of a score lie     *)
(* between 0 and Unit; the program's fractions are rounded down to whole   *)
(* units here.                                                             *)
(***************************************************************************)
EXTENDS Eligibility, Sequences

CONSTANTS NoticeSaturation, RestSaturation

ASSUME RankingAssumption ==
  NoticeSaturation \in Nat \ {0} /\ RestSaturation \in Nat \ {0}

Unit == 12000   \* divisible by every constant fraction below

Clamp(x) == Max({0, Min({Unit, x})})

(* normalised_debt: half when everybody carries the same.                   *)
Normalised(debt, size, scale) ==
  IF scale = 0 THEN Unit \div 2
  ELSE Clamp(Unit \div 2 + (Unit * size * debt) \div (2 * scale))

LoadedFirst(p, cohort) ==                                            \* a mutant
  Normalised(-Debt(p, cohort), Cardinality(cohort), DebtScale(cohort))
FairnessScore(p, cohort) ==
  Normalised(Debt(p, cohort), Cardinality(cohort), DebtScale(cohort))

(* Four fifths for the qualification, one fifth for three past duties in    *)
(* the role.                                                                *)
FitScore(p, d) ==
  LET qualified == Shift[d].qualification \in person[p].quals \cup {None}
      sameRole == {e \in DutiesOf(p) \ {d} : Shift[e].role = Shift[d].role}
  IN (IF qualified THEN (4 * Unit) \div 5 ELSE 0)
       + (Min({3, Cardinality(sameRole)}) * Unit) \div 15

(* A rate drawn toward a half by three imagined trials (_shrink).           *)
Shrunk(successes, trials) == (Unit * (2 * successes + 3)) \div (2 * trials + 6)

ResponsivenessScore(p) ==
  LET asked == Cardinality(AskedInWindow(p))
      accepts == Answered(p, "accepted")
      responses == accepts + Answered(p, "declined")
  IN IF asked = 0 THEN Unit \div 2
     ELSE (6 * Shrunk(accepts, responses) + 4 * Shrunk(responses, asked)) \div 10

NoticeScore(p, d) ==
  Clamp((Unit * (Shift[d].start - NextContactable(p, now))) \div NoticeSaturation)

RestScore(p) ==
  IF LastAsked(p) = None THEN Unit
  ELSE Clamp((Unit * (now - LastAsked(p))) \div RestSaturation)

Score(p, d, cohort) ==
  45 * FairnessScore(p, cohort) + 20 * FitScore(p, d) + 20 * ResponsivenessScore(p)
    + 10 * NoticeScore(p, d) + 5 * RestScore(p)

(* Score, then debt, then who was asked longest ago, then the id.           *)
SinceAsked(p) == IF LastAsked(p) = None THEN now + 1 ELSE now - LastAsked(p)

Merit(p, d, cohort) ==
  <<Score(p, d, cohort), Debt(p, cohort), SinceAsked(p), -person[p].order>>

Outranks(m, n) == \E i \in DOMAIN m : m[i] > n[i] /\ \A j \in 1 .. (i - 1) : m[j] = n[j]

Before(d, cohort, p, q) == Outranks(Merit(p, d, cohort), Merit(q, d, cohort))

(* CandidateOrder.first, if there is anybody.                               *)
First(d, cohort) == {p \in cohort : \A q \in cohort \ {p} : Before(d, cohort, p, q)}
=============================================================================
