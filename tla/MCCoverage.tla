------------------------------ MODULE MCCoverage ------------------------------
(* Small rosters for checking CoverageService with TLC. *)
EXTENDS CoverageClaims, CoverageRefinement, CoverageInvariants, TLC

CONSTANTS p1, p2, d1, d2

(* Workers differ in nothing but their name.                                *)
Alike == Permutations(Workers)

(* Everybody's first duty is empty, or held by p1 and the others empty.     *)
Unfilled == [d \in Duties |-> None]
HeldByP1 == [d \in Duties |-> IF d = d1 THEN p1 ELSE None]

NoOverlap  == {}
AllOverlap == Duties \X Duties

(* The withdrawals that may arrive: of p1, worded in each of the texts.     *)
NoNotice   == {}
P1DropsD1  == {d1} \X {p1} \X Texts
AnyDropsD1 == {d1} \X People \X Texts
=============================================================================
