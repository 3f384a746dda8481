------------------------------- MODULE Fairness -------------------------------
(***************************************************************************)
(* What each person has carried and been asked (core/fairness.py), derived *)
(* from the roster.  Unsociable ticks weigh 3/2, so loads are in halves of *)
(* a tick; a debt is multiplied by the size of the cohort.                 *)
(***************************************************************************)
EXTENDS RosterState

CONSTANTS SociableStart, SociableEnd

(* unsociable_hours walks the window in steps; every step counts as a whole *)
(* by the local time at its beginning.                                      *)
Unsociable(t, zone) ==
  \/ ((t + zone) \div Day) % WeekDays >= WeekDays - Weekend
  \/ Local(t, zone) < SociableStart
  \/ Local(t, zone) >= SociableEnd

UnsociableTicks(window, zone) ==
  Cardinality({t \in window.start .. (window.end - 1) :
                 Unsociable(t - ((t - window.start) % Step), zone)})

(* A duty counts as carried once it has started, inside the load window.    *)
CarriedBy(p) ==
  {d \in DutiesOf(p) :
     /\ Shift[d].start <= now
     /\ Within(Shift[d].start, [start |-> now - Org.loadWindow, end |-> now])}

LoadOfShift(d) ==
  LET hours == Shift[d].end - Shift[d].start
      unsociable == UnsociableTicks(Shift[d], Org.zone)
  IN 2 * (hours - unsociable) + 3 * unsociable

WeightedLoad(p) == MapThenSumSet(LoadOfShift, CarriedBy(p))

(* The asks of the load window; drafts are not asks.                        *)
AskedInWindow(p) ==
  {a \in EmailsTo(p) :
     Within(ask[a].sent, [start |-> now - Org.loadWindow, end |-> now])}

Answered(p, state) == Cardinality({a \in AskedInWindow(p) : ask[a].state = state})

LastAsked(p) ==
  LET times == {ask[a].sent : a \in AskedInWindow(p)}
  IN IF times = {} THEN None ELSE Max(times)

(* Size of the cohort times the distance from its mean load.                *)
Debt(p, cohort) ==
  MapThenSumSet(WeightedLoad, cohort) - Cardinality(cohort) * WeightedLoad(p)

Magnitude(x) == IF x < 0 THEN -x ELSE x

DebtScale(cohort) == MapThenSumSet(LAMBDA q : Magnitude(Debt(q, cohort)), cohort)

(* Seven days back, both ends included, whatever became of the ask.         *)
AsksThisCalendarWeek(p) ==                                           \* a mutant
  Cardinality({a \in EmailsTo(p) : ask[a].sent >= now - (now % Week)})
AsksThisWeek(p) == Cardinality({a \in EmailsTo(p) : ask[a].sent >= now - Week})

BudgetLeft(p) == AsksThisWeek(p) < Org.weeklyAsks
=============================================================================
