----------------------------- MODULE HandoverBrief -----------------------------
(***************************************************************************)
(* The handover brief: what it holds (core/brief.py) and the daily job     *)
(* that sends it when it is worth sending (infra/scheduled.py).  Its       *)
(* window is the day before, whenever the last brief was.                  *)
(***************************************************************************)
EXTENDS Desk

VARIABLES
  told,       \* the receipts behind the lines of the briefs that arrived
  lastBrief,  \* when the job last ran (None: never)
  regular     \* never more than a day apart, and every brief sent arrived

briefVars == <<told, lastBrief, regular>>

WindowAfter(since) ==                                                \* a mutant
  {k \in DOMAIN receipts : receipts[k].at > since}
Window(since) == {k \in DOMAIN receipts : receipts[k].at >= since}

LastDay == Window(now - Day)

Filled ==
  {k \in LastDay :
     /\ receipts[k].class = "write"
     /\ receipts[k].result = "verified"
     /\ receipts[k].duty \in Duties
     /\ receipts[k].person \in People}

NotAllowed == {k \in LastDay : receipts[k].result = "blocked"}

(* Open asks, drafts included.                                              *)
AskedAbout(d) == \E k \in Kinds, p \in People : IsOpen(<<k, d, p>>)

(* Gaps with nobody left to ask by message.  A write that did not land      *)
(* needs two operations at once, which do not occur here.                   *)
NeedsDecision ==
  {d \in Duties :
     /\ Shift[d].start > now
     /\ CoverageOf(d) = "uncovered"
     /\ ~AskedAbout(d)
     /\ Candidates(d, "send") = {}}

NeedsHuman   == NeedsDecision # {} \/ NotAllowed # {}
WorthSending == NeedsHuman \/ Filled # {}

-----------------------------------------------------------------------------
BriefInit == told = {} /\ lastBrief = None /\ regular = TRUE

(* The job is scheduled, never twice in a tick.                             *)
Due == lastBrief # now

InTime == now - (IF lastBrief = None THEN 0 ELSE lastBrief) <= Day

(* run_brief: a brief that does not arrive is not sent again, and without a *)
(* recipient none is sent.                                                  *)
SendBrief(fate) ==
  /\ Due
  /\ WorthSending
  /\ told' = IF fate = "sent" THEN told \cup Filled \cup NotAllowed ELSE told
  /\ lastBrief' = now
  /\ regular' = (regular /\ InTime /\ fate = "sent")
  /\ UNCHANGED deskVars

SkipBrief ==
  /\ Due
  /\ ~WorthSending
  /\ lastBrief' = now
  /\ regular' = (regular /\ InTime)
  /\ UNCHANGED <<deskVars, told>>

BriefNext == SkipBrief \/ \E fate \in {"sent", "lost", "no_recipient"} : SendBrief(fate)

-----------------------------------------------------------------------------
BriefTypeOK ==
  /\ told \subseteq DOMAIN receipts
  /\ lastBrief \in 0 .. now \cup {None}
  /\ regular \in BOOLEAN

(* As long as the briefs are at most a day apart and arrive, no refusal and *)
(* no write to the roster falls between two of them ("what did you do, what *)
(* is still open, what needs me, and what were you not allowed to do").     *)
NothingBetweenBriefs ==
  regular /\ lastBrief # None =>
    \A k \in DOMAIN receipts :
      receipts[k].at < lastBrief /\ receipts[k].result \in {"blocked", "verified"}
      => k \in told

(* "Confirmed on the roster and verified by re-read" (_filled): who is      *)
(* listed on a filled duty was put on it.                                   *)
FilledMeansOnDuty ==
  \A k \in Filled :
    \E j \in DOMAIN receipts :
      /\ j = <<"assign", receipts[k].duty, receipts[k].person>>
      /\ receipts[j].result = "verified"
=============================================================================
