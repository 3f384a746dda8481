------------------------------- MODULE TimedFill -------------------------------
(***************************************************************************)
(* The fill loop in time (core/fill.py): who is asked when, with the       *)
(* program's own rules for coverage, eligibility, ranking, permission and  *)
(* the ask budget.  One operation runs at a time, so each is one step, and *)
(* the clock stands still while a sweep lasts; CoverageService has their   *)
(* interleavings.                                                          *)
(***************************************************************************)
EXTENDS Coverage, Ranking, AuthorityGate

CONSTANTS
  HorizonDays, SweepLimit,
  InitialPerson, InitialHolder, InitiallyConfirmed,
  InitialGrants, Revocable,  \* grants, as [level, scope]
  Deliveries,                \* {"sent", "lost"} or a part of it
  MaxNow                     \* bound on the clock

ASSUME TimedAssumption ==
  /\ \A p, q \in People : InitialPerson[p].order = InitialPerson[q].order => p = q
  /\ \A p \in People :
       /\ InitialPerson[p].active \in BOOLEAN /\ InitialPerson[p].optedIn \in BOOLEAN
       /\ InitialPerson[p].zone \in Int /\ InitialPerson[p].order \in Int
       /\ InitialPerson[p].quiet.start \in 0 .. (Day - 1)
       /\ InitialPerson[p].quiet.end \in 0 .. (Day - 1)
  /\ InitialHolder \in [Duties -> People \cup {None}]
  /\ InitiallyConfirmed \subseteq Duties
  /\ \A g \in InitialGrants \cup Revocable : g.level \in {"draft", "send", "write"}
  /\ HorizonDays \in Nat /\ SweepLimit \in Nat /\ MaxNow \in Nat

VARIABLES
  queue,    \* the gaps the running sweep has yet to advance
  answering \* <<duty, person>> whose acceptance is being written, or None

vars == <<rosterVars, queue, answering>>

Init ==
  /\ now = 0
  /\ person = InitialPerson
  /\ holder = InitialHolder
  /\ confirmedAt = [d \in Duties |-> IF d \in InitiallyConfirmed THEN 0 ELSE None]
  /\ ask = [a \in AskIds |-> NoAsk]
  /\ gone = {}
  /\ grants = InitialGrants
  /\ queue = <<>>
  /\ answering = None

Idle == queue = <<>> /\ answering = None

-----------------------------------------------------------------------------
(* ask_next *)

BestAvailableAction == IF "send" \in GrantedLevels THEN "send" ELSE "draft"

Asking(class, d, p) ==
  [class |-> class, person |-> p, duty |-> d, withdrawal |-> FALSE,
   acceptance |-> None, evidence |-> FALSE, keyed |-> FALSE]

Assigning(d, p) ==
  [Asking("write", d, p) EXCEPT !.acceptance = <<"email", d, p>>, !.keyed = TRUE]

Withdrawing(d, p) ==
  [Asking("write", d, p) EXCEPT !.withdrawal = TRUE, !.evidence = TRUE, !.keyed = TRUE]

WaitingOn(d) == \E p \in People : IsOpen(<<"email", d, p>>)

ToBeAsked(d) == NeedsFilling(d) /\ ~WaitingOn(d)

(* Whom the ranking puts first, if there is anybody.                        *)
Foremost(d, cohort) == IF ToBeAsked(d) THEN First(d, cohort) ELSE {}
Chosen(d) == Foremost(d, Candidates(d, BestAvailableAction))

NewAskUntil(d, state, expires) == [state |-> state, sent |-> now, expires |-> expires]

NewAskWithoutEnd(d, state) == NewAskUntil(d, state, None)            \* a mutant
NewAsk(d, state) == NewAskUntil(d, state, now + AskWindowAt(d, now))

(* An idempotency key that is used makes the attempt a replay.              *)
PutOnce(a, row) == ask' = IF ask[a] = NoAsk THEN [ask EXCEPT ![a] = row] ELSE ask

SendAsk(d, p, delivery) ==
  /\ Allowed(Asking("send", d, p))
  /\ PutOnce(<<"email", d, p>>, NewAsk(d, IF delivery = "sent" THEN "sent" ELSE "withdrawn"))

(* Sending was refused, and not for the quiet hours: a draft, if permitted. *)
Draftable(d, p) ==
  Rule(Asking("send", d, p)) \notin Approvals \cup {"R7"} /\ Allowed(Asking("draft", d, p))

DraftAsk(d, p) == Draftable(d, p) /\ PutOnce(<<"draft", d, p>>, NewAsk(d, "sent"))

(* already_covered, waiting, no_candidates, deferred or blocked.            *)
AskNobody(d, chosen) ==
  /\ \A p \in chosen : ~Allowed(Asking("send", d, p)) /\ ~Draftable(d, p)
  /\ ask' = ask

AskNext(d, chosen) ==
  \/ AskNobody(d, chosen)
  \/ \E p \in chosen : DraftAsk(d, p) \/ \E delivery \in Deliveries : SendAsk(d, p, delivery)

(* One gap at a coordinator's request, or the next one of a sweep.          *)
AskOnRequest(d, chosen) ==
  /\ Idle
  /\ AskNext(d, chosen)
  /\ UNCHANGED <<now, person, holder, confirmedAt, gone, grants, queue, answering>>

AdvanceSweep(chosen) ==
  /\ queue # <<>>
  /\ AskNext(Head(queue), chosen)
  /\ queue' = Tail(queue)
  /\ UNCHANGED <<now, person, holder, confirmedAt, gone, grants, answering>>

(* expire_lapsed *)
Expired ==
  [a \in AskIds |->
     IF ask[a].state = "sent" /\ ~IsOpen(a)
       THEN [ask[a] EXCEPT !.state = "expired"] ELSE ask[a]]

(* sweep: expire_lapsed, then find_gaps()[:limit].                          *)
StartSweep ==
  /\ Idle
  /\ ask' = Expired
  /\ LET found == Gaps(HorizonDays)
     IN queue' = SubSeq(found, 1, Min({SweepLimit, Len(found)}))
  /\ UNCHANGED <<now, person, holder, confirmedAt, gone, grants, answering>>

-----------------------------------------------------------------------------
(* record_response and record_withdrawal *)

Verdict(d, p, accept) ==
  IF ~IsOpen(<<"email", d, p>>) THEN "expired"
  ELSE IF ~accept THEN "declined"
  ELSE IF holder[d] \notin {None, p} THEN "superseded"
  ELSE "accepted"

AcceptLate(d, p) ==                                                  \* a mutant
  /\ Idle
  /\ ask[<<"email", d, p>>].state = "sent"
  /\ ask' = [ask EXCEPT ![<<"email", d, p>>].state = "accepted"]
  /\ answering' = <<d, p>>
  /\ UNCHANGED <<now, person, holder, confirmedAt, gone, grants, queue>>

(* A refusal, or an answer that comes too late.                             *)
Decline(d, p, accept) ==
  /\ Idle
  /\ ask[<<"email", d, p>>].state = "sent"
  /\ Verdict(d, p, accept) # "accepted"
  /\ ask' = [ask EXCEPT ![<<"email", d, p>>].state = Verdict(d, p, accept)]
  /\ UNCHANGED <<now, person, holder, confirmedAt, gone, grants, queue, answering>>

Accept(d, p) ==
  /\ Idle
  /\ ask[<<"email", d, p>>].state = "sent"
  /\ Verdict(d, p, TRUE) = "accepted"
  /\ ask' = [ask EXCEPT ![<<"email", d, p>>].state = "accepted"]
  /\ answering' = <<d, p>>
  /\ UNCHANGED <<now, person, holder, confirmedAt, gone, grants, queue>>

(* The other open asks about a duty are closed.                             *)
Superseded(d) ==
  [a \in AskIds |->
     IF a[2] = d /\ ask[a].state = "sent"
       THEN [ask[a] EXCEPT !.state = "superseded"] ELSE ask[a]]

(* _write_assignment: on the roster if the gate allows it, or left to the   *)
(* coordinator.                                                             *)
WriteAssignment(d, p) ==
  /\ answering = <<d, p>>
  /\ IF Allowed(Assigning(d, p))
       THEN /\ holder' = [holder EXCEPT ![d] = p]
            /\ confirmedAt' = [confirmedAt EXCEPT ![d] = now]
            /\ ask' = Superseded(d)
       ELSE UNCHANGED <<holder, confirmedAt, ask>>
  /\ answering' = None
  /\ UNCHANGED <<now, person, gone, grants, queue>>

Withdraw(d, p) ==
  /\ Idle
  /\ Allowed(Withdrawing(d, p))
  /\ holder' = [holder EXCEPT ![d] = None]
  /\ confirmedAt' = [confirmedAt EXCEPT ![d] = None]
  /\ ask' = Superseded(d)
  /\ gone' = gone \cup {<<d, p>>}
  /\ UNCHANGED <<now, person, grants, queue, answering>>

-----------------------------------------------------------------------------
ToggleGrant(g) ==
  /\ Idle
  /\ g \in Revocable
  /\ grants' = IF g \in grants THEN grants \ {g} ELSE grants \cup {g}
  /\ UNCHANGED <<now, person, holder, confirmedAt, ask, gone, queue, answering>>

Tick ==
  /\ Idle
  /\ now < MaxNow
  /\ now' = now + 1
  /\ UNCHANGED <<person, holder, confirmedAt, ask, gone, grants, queue, answering>>

Next ==
  \/ StartSweep \/ Tick
  \/ AdvanceSweep(Chosen(Head(queue)))
  \/ \E g \in Revocable : ToggleGrant(g)
  \/ \E d \in Duties :
       \/ AskOnRequest(d, Chosen(d))
       \/ \E p \in People :
            \/ Accept(d, p) \/ WriteAssignment(d, p) \/ Withdraw(d, p)
            \/ \E accept \in BOOLEAN : Decline(d, p, accept)

Spec == Init /\ [][Next]_vars
-----------------------------------------------------------------------------
AskStates == {"absent", "sent", "accepted", "declined", "expired", "withdrawn",
              "superseded"}

(* Every variable has its type (core/models.py).                            *)
TypeOK ==
  /\ now \in Nat
  /\ \A p \in People : person[p].active \in BOOLEAN /\ person[p].optedIn \in BOOLEAN
  /\ holder \in [Duties -> People \cup {None}]
  /\ confirmedAt \in [Duties -> Nat \cup {None}]
  /\ ask \in [AskIds -> [state : AskStates, sent : Nat, expires : Int]]
  /\ gone \subseteq Duties \X People
  /\ \A g \in grants : g.level \in {"draft", "send", "write"}
  /\ queue \in Seq(Duties)
  /\ answering \in (Duties \X People) \cup {None}

Emailed(d, p) == ask[<<"email", d, p>>] # NoAsk
SentAt(d, p)  == ask[<<"email", d, p>>].sent

(* "Hard ceiling" (models.py, max_asks_per_person_per_week): in no seven    *)
(* days, wherever they begin, is anybody sent more asks than that.          *)
SlidingBudget ==
  \A p \in People, first \in 0 .. now :
    Cardinality({d \in Duties :
                   Emailed(d, p) /\ SentAt(d, p) \in first .. (first + Week)})
      <= Org.weeklyAsks

(* An ask leaves in time for the notice the duty needs, outside the quiet   *)
(* hours of whoever gets it, and never about a time they blacked out        *)
(* (eligibility.py, authority.py).                                          *)
AsksAreConsiderate ==
  \A d \in Duties, p \in People :
    Emailed(d, p) =>
      /\ SentAt(d, p) <= NoticeDeadline(d)
      /\ ~InQuietHours(p, SentAt(d, p))
      /\ ~BlackedOut(p, d)

(* Nobody is put on a duty that has begun, as long as the duty needs at     *)
(* least as much notice as an urgent ask stays open (fill.py looks at the   *)
(* ask's expiry alone).                                                     *)
JoinStep ==
  \A d \in Duties :
    /\ holder'[d] \notin {None, holder[d]}
    /\ Shift[d].minNotice >= Org.urgentWindow
    /\ Org.askWindow <= Org.urgentThreshold
    => now <= Shift[d].start
JoinsBeforeStart == [][JoinStep]_vars

(* Who may be ranked for a message may also be sent it: of all its rules    *)
(* the gate can only object to the hour or to the scope of the grant        *)
(* (eligibility.py and authority.py decide apart).                          *)
GateAgrees ==
  "send" \in GrantedLevels =>
    \A d \in Duties : \A p \in Candidates(d, "send") :
      Rule(Asking("send", d, p)) \in {"R6-opted-in", "R7", "R3-scope"}

(* "The ask will wait" (R7): whom the night defers can still be asked, in   *)
(* waking hours and before it is too late for the duty.                     *)
DeferralEnds ==
  \A d \in Duties : \A p \in Candidates(d, "send") :
    InQuietHours(p, now) =>
      \E t \in now .. NoticeDeadline(d) : ~InQuietHours(p, t)

(* With the rest equal or better, who has carried less is asked first       *)
(* (ranking.py).                                                            *)
LighterFirst ==
  \A d \in Duties :
    LET cohort == Candidates(d, BestAvailableAction)
    IN \A p, q \in cohort :
         /\ WeightedLoad(p) < WeightedLoad(q)
         /\ FitScore(p, d) >= FitScore(q, d)
         /\ ResponsivenessScore(p) >= ResponsivenessScore(q)
         /\ NoticeScore(p, d) >= NoticeScore(q, d)
         /\ RestScore(p) >= RestScore(q)
         => Before(d, cohort, p, q)

(* Time alone never makes a gap: a confirmation that grows old puts a duty  *)
(* at risk, it does not send Zamu looking for somebody else (coverage.py).  *)
TimeStep == now' # now => \A d \in Duties : NeedsFilling(d)' => NeedsFilling(d)
TimeMakesNoGap == [][TimeStep]_vars

(* A sweep asks nobody about a duty that is a day or more past its horizon, *)
(* which .days rounds down, or that has begun (coverage.py, gaps).          *)
SweepStep ==
  queue # <<>> /\ ask' # ask =>
    LET d == Head(queue)
    IN now < Shift[d].start /\ Shift[d].start < now + (HorizonDays + 1) * Day
SweepsWithinHorizon == [][SweepStep]_vars
=============================================================================
