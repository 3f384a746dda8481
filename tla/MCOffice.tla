------------------------------- MODULE MCOffice -------------------------------
(***************************************************************************)
(* Office with two people and two duties.  p1 holds d1 and confirmed it;   *)
(* d2 is open.  A day is one tick: a brief looks one tick back.             *)
(***************************************************************************)
EXTENDS Office

CONSTANTS p1, p2, d1, d2, n1, n2, w1

Volunteer(order, from, to) ==
  [active |-> TRUE, optedIn |-> TRUE, quals |-> {}, blackouts |-> {},
   quiet |-> [start |-> from, end |-> to, enabled |-> from # to], zone |-> 0,
   order |-> order]

Awake == [start |-> 0, end |-> 0, enabled |-> FALSE]

MCPerson == p1 :> Volunteer(1, 0, 0) @@ p2 :> Volunteer(2, 0, 0)

OnShift(order, start) ==
  [start |-> start, end |-> start + 1, minNotice |-> 0, role |-> "bar",
   qualification |-> None, order |-> order]

MCShift == d1 :> OnShift(1, 1) @@ d2 :> OnShift(2, 2)

MCOrg == [askWindow |-> 1, urgentWindow |-> 1, urgentThreshold |-> 1, weeklyAsks |-> 1,
          loadWindow |-> 8, staleAfter |-> 8, zone |-> 0]

P1OnFirst == [d \in Duties |-> IF d = d1 THEN p1 ELSE None]
ForEveryone == {[level |-> l, scope |-> Everyone] : l \in {"draft", "send", "write"}}
SendAndWrite == {g \in ForEveryone : g.level # "draft"}

(* Both people go by one name, and nobody by the other.                     *)
MCName == [p \in People |-> n1]

PersonRow(named, email, optedIn) ==
  [named |-> named, email |-> email, optedIn |-> optedIn, active |-> "blank", quals |-> {}]
Twice == <<PersonRow(TRUE, p2, "no"), PersonRow(TRUE, p2, "yes")>>
Partly == <<PersonRow(FALSE, p1, "yes"), PersonRow(TRUE, None, "no"), PersonRow(TRUE, p1, "blank")>>
MCPeopleSheets == {Twice, Partly}

DutyRow(d, backwards, assignee) == [duty |-> d, backwards |-> backwards, assignee |-> assignee]
Weekly == <<DutyRow(d1, FALSE, p1), DutyRow(None, FALSE, p1), DutyRow(d2, TRUE, p1)>>
Named == <<DutyRow(d1, FALSE, n1), DutyRow(d2, FALSE, n2)>>
MCDutySheets == {Weekly, Named}
=============================================================================
