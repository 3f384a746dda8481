------------------------------ MODULE RosterState ------------------------------
(***************************************************************************)
(* One organisation's roster at one instant (core/models.py), with time.   *)
(* A tick is the unit of time; Day, Step and the windows are in ticks.     *)
(* The duties are fixed; who is on them, what the roster says of a person, *)
(* the asks and the grants change.  Zones are offsets: changes of daylight *)
(* saving time are left out.                                               *)
(***************************************************************************)
EXTENDS Integers, FiniteSets, FiniteSetsExt

CONSTANTS
  People, Duties, None,
  Shift,          \* start, end, minNotice, role, qualification, order
  Org,            \* askWindow, urgentWindow, urgentThreshold, weeklyAsks,
                  \* loadWindow, staleAfter
  Day,            \* ticks in a day
  WeekDays,       \* days in a week, of which the last Weekend are free
  Weekend,
  Step,           \* the stride of both walks over time (a quarter of an hour)
  SearchHorizon   \* how far ahead next_contactable_moment looks

ASSUME RosterAssumption ==
  /\ None \notin People \cup (Duties \X People)
  /\ IsFiniteSet(People) /\ IsFiniteSet(Duties)
  /\ \A d, e \in Duties : Shift[d].order = Shift[e].order => d = e
  /\ Day \in Nat \ {0} /\ WeekDays \in Nat \ {0} /\ Weekend \in 0 .. WeekDays
  /\ Step \in Nat \ {0} /\ SearchHorizon \in Nat /\ SearchHorizon >= Day

(* Moments and spans of time are whole numbers of ticks.                    *)
ASSUME TimeAssumption ==
  /\ \A d \in Duties :
       /\ Shift[d].start \in Int /\ Shift[d].end \in Int /\ Shift[d].start < Shift[d].end
       /\ Shift[d].minNotice \in Int /\ Shift[d].order \in Int
  /\ Org.askWindow \in Int /\ Org.urgentWindow \in Int /\ Org.urgentThreshold \in Int
  /\ Org.weeklyAsks \in Nat

VARIABLES
  now,
  person,       \* active, optedIn, quals, blackouts, quiet, zone, order
  holder,       \* Duty.assigned_person_id
  confirmedAt,  \* Duty.confirmed_at (None: never)
  ask,          \* the ask row of each kind, duty and person
  gone,         \* <<duty, person>> with a withdrawal row
  grants        \* active grants, as [level, scope]

rosterVars == <<now, person, holder, confirmedAt, ask, gone, grants>>

Kinds  == {"email", "draft"}
AskIds == Kinds \X Duties \X People
NoAsk  == [state |-> "absent", sent |-> 0, expires |-> 0]

Week == WeekDays * Day

-----------------------------------------------------------------------------
(* Windows and quiet hours. *)

Overlap(a, b)   == a.start < b.end /\ b.start < a.end
Within(t, w)    == w.start <= t /\ t < w.end

Covers(quiet, time) ==
  /\ quiet.enabled
  /\ IF quiet.start <= quiet.end
       THEN quiet.start <= time /\ time < quiet.end
       ELSE time >= quiet.start \/ time < quiet.end

Local(t, zone) == (t + zone) % Day

InQuietHours(p, t) == Covers(person[p].quiet, Local(t, person[p].zone))

BlackedOut(p, d) == \E b \in person[p].blackouts : Overlap(b, Shift[d])

(* How long one ask stays open, by how soon the duty starts (window_for).   *)
AskWindowAt(d, t) ==
  IF Shift[d].start - t <= Org.urgentThreshold THEN Org.urgentWindow ELSE Org.askWindow

-----------------------------------------------------------------------------
(* Asks and grants. *)

IsOpen(a) == ask[a].state = "sent" /\ now < ask[a].expires

DutiesOf(p) == {d \in Duties : holder[d] = p}

EmailsTo(p) == {a \in AskIds : a[1] = "email" /\ a[3] = p /\ ask[a].state # "absent"}

(* A grant without a person_scope covers everyone, and actions that name    *)
(* nobody.                                                                  *)
Everyone == People \cup {None}

Covering(level, p) == \E g \in grants : g.level = level /\ p \in g.scope

Granted(level) == \E g \in grants : g.level = level
=============================================================================
