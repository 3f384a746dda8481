------------------------------- MODULE Coverage -------------------------------
(***************************************************************************)
(* How covered a duty is, and which duties are gaps (core/coverage.py).    *)
(* Cancelled duties are left out: nothing in the program cancels one.      *)
(***************************************************************************)
EXTENDS RosterState, Sequences, SequencesExt

Stale(d) == now - confirmedAt[d] > Org.staleAfter /\ Shift[d].start > now

StateWithStaleAsUnknown(d) ==                                        \* a mutant
  IF holder[d] \notin People \/ ~person[holder[d]].active THEN "uncovered"
  ELSE IF BlackedOut(holder[d], d) THEN "at_risk"
  ELSE IF confirmedAt[d] = None \/ Stale(d) THEN "unknown"
  ELSE "covered"

(* assess_duty: the first that applies.                                     *)
CoverageOf(d) ==
  IF holder[d] \notin People \/ ~person[holder[d]].active THEN "uncovered"
  ELSE IF BlackedOut(holder[d], d) THEN "at_risk"
  ELSE IF confirmedAt[d] = None THEN "unknown"
  ELSE IF Stale(d) THEN "at_risk"
  ELSE "covered"

NeedsFilling(d) == CoverageOf(d) \in {"uncovered", "unknown"}

(* assess_roster sorts by start and id: each duty comes after as many as     *)
(* are sooner.                                                              *)
Sooner(d, e) ==
  \/ Shift[d].start < Shift[e].start
  \/ Shift[d].start = Shift[e].start /\ Shift[d].order < Shift[e].order

SoonestFirst(set) ==
  [i \in 1 .. Cardinality(set) |->
     CHOOSE d \in set : Cardinality({e \in set : Sooner(e, d)}) = i - 1]

GapsAtAnyDistance(horizonDays) ==                                    \* a mutant
  SoonestFirst({d \in Duties : NeedsFilling(d) /\ Shift[d].start > now})

(* gaps(): future duties to fill whose distance in whole days is within the *)
(* horizon.                                                                 *)
Gaps(horizonDays) ==
  SoonestFirst({d \in Duties :
                  /\ NeedsFilling(d)
                  /\ Shift[d].start > now
                  /\ (Shift[d].start - now) \div Day <= horizonDays})
=============================================================================
