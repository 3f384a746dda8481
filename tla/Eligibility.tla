------------------------------ MODULE Eligibility ------------------------------
(***************************************************************************)
(* Who can do a duty, and every reason why not (core/eligibility.py).      *)
(***************************************************************************)
EXTENDS Fairness

(* The first moment outside quiet hours that the walk in steps meets, or    *)
(* the end of the search.                                                   *)
NextContactableNow(p, t) == t                                        \* a mutant

NextContactable(p, t) ==
  LET met == {c \in t .. (t + SearchHorizon - 1) :
                (c - t) % Step = 0 /\ ~InQuietHours(p, c)}
  IN IF ~person[p].quiet.enabled THEN t
     ELSE IF met = {} THEN t + SearchHorizon ELSE Min(met)

NoticeDeadline(d) == Shift[d].start - Shift[d].minNotice

DoubleBooked(p, d) ==
  \E e \in DutiesOf(p) \ {d} : Overlap(Shift[e], Shift[d])

(* asks_for_person, for this duty: the states that close it for the person. *)
DeclinedThisDuty(p, d) ==
  \/ <<d, p>> \in gone
  \/ \E k \in Kinds : ask[<<k, d, p>>].state \in {"declined", "withdrawn"}

AlreadyAsked(p, d) ==
  \E k \in Kinds : ask[<<k, d, p>>].state \in {"sent", "expired"}

OpenAskElsewhere(p) == \E k \in Kinds, e \in Duties : IsOpen(<<k, e, p>>)

(* The reasons why not.  Of declined and already asked, evaluate names the  *)
(* one it meets first among the rows; here both are named.                  *)
Reasons(p, d, action) ==
  {r \in {"inactive", "already_assigned", "missing_qualification", "blackout",
          "double_booked", "insufficient_notice", "quiet_hours_block_notice",
          "declined_this_duty", "already_asked_this_duty", "open_ask_elsewhere",
          "ask_budget_exhausted", "not_opted_in"} :
     CASE r = "inactive"                -> ~person[p].active
       [] r = "already_assigned"        -> holder[d] = p
       [] r = "missing_qualification"   -> Shift[d].qualification \notin
                                             person[p].quals \cup {None}
       [] r = "blackout"                -> BlackedOut(p, d)
       [] r = "double_booked"           -> DoubleBooked(p, d)
       [] r = "insufficient_notice"     -> now > NoticeDeadline(d)
       [] r = "quiet_hours_block_notice" ->
            now <= NoticeDeadline(d) /\ NextContactable(p, now) > NoticeDeadline(d)
       [] r = "declined_this_duty"      -> DeclinedThisDuty(p, d)
       [] r = "already_asked_this_duty" -> AlreadyAsked(p, d)
       [] r = "open_ask_elsewhere"      -> OpenAskElsewhere(p)
       [] r = "ask_budget_exhausted"    -> ~BudgetLeft(p)
       [] r = "not_opted_in"            -> action = "send" /\ ~person[p].optedIn}

EligibleWithoutNotice(p, d, action) ==                               \* a mutant
  Reasons(p, d, action) \subseteq {"insufficient_notice"}
EligibleBeyondBudget(p, d, action) ==                                \* a mutant
  Reasons(p, d, action) \subseteq {"ask_budget_exhausted"}

Eligible(p, d, action) == Reasons(p, d, action) = {}

Candidates(d, action) == {p \in People : Eligible(p, d, action)}
=============================================================================
