-------------------------------- MODULE MCWeek --------------------------------
(***************************************************************************)
(* TimedFill over two people, three duties and nine ticks.  A day has      *)
(* three ticks and the week two days.  p1 sleeps at the last tick of a day *)
(* and carries d1 at first; p2 may be asked at any hour, is not qualified  *)
(* for d1 and is busy during d3.  The grant to send to everyone comes and  *)
(* goes, the grant to send to p2 stays.                                    *)
(***************************************************************************)
EXTENDS TimedFill

CONSTANTS p1, p2, d1, d2, d3

Volunteer(order, quals, blackouts, from, to) ==
  [active |-> TRUE, optedIn |-> TRUE, quals |-> quals, blackouts |-> blackouts,
   quiet |-> [start |-> from, end |-> to, enabled |-> from # to], zone |-> 0,
   order |-> order]

MCPerson == p1 :> Volunteer(1, {"keys"}, {}, 2, 0)
              @@ p2 :> Volunteer(2, {}, {[start |-> 8, end |-> 9]}, 0, 0)

OnShift(order, start, end, notice, role, qualification) ==
  [start |-> start, end |-> end, minNotice |-> notice, role |-> role,
   qualification |-> qualification, order |-> order]

MCShift == d1 :> OnShift(1, 1, 3, 1, "door", "keys")
             @@ d2 :> OnShift(2, 5, 7, 2, "bar", None)
             @@ d3 :> OnShift(3, 8, 9, 0, "door", None)

MCOrg == [askWindow |-> 3, urgentWindow |-> 2, urgentThreshold |-> 5, weeklyAsks |-> 1,
          loadWindow |-> 9, staleAfter |-> 6, zone |-> 0]

Nobody == [d \in Duties |-> None]
P1OnFirst == [d \in Duties |-> IF d = d1 THEN p1 ELSE None]
ForEveryone == {[level |-> l, scope |-> Everyone] : l \in {"draft", "write"}}
AlwaysToP2 == ForEveryone \cup {[level |-> "send", scope |-> {p2}]}
ToEveryone == {[level |-> "send", scope |-> Everyone]}
=============================================================================
