---------------------------- MODULE CoverageClaims ----------------------------
(***************************************************************************)
(* What the texts of the repository say of the fill loop, stated over      *)
(* CoverageService: some claims the code keeps under the conditions of     *)
(* their run, others it does not, and the README says which.               *)
(***************************************************************************)
EXTENDS CoverageService

(* "This exact action was already performed" (fill.py, Outcome.REPLAYED,    *)
(* and "was already taken off"): a withdrawal answered as a replay finds    *)
(* the person off the duty.                                                 *)
ReplayedStep ==
  \A w \in Workers :
    ReplayWithdrawal(w) => assigned[job[w].duty] # job[w].person
ReplayMeansPerformed == [][ReplayedStep]_vars

(* "was covered by someone else just before you answered" (fill.py): an     *)
(* acceptance is turned away only from a duty that no longer needs anybody. *)
TurnedAwayStep ==
  \A w \in Workers :
    ReadRosterForAnswer(w) /\ job'[w].verdict = "superseded"
      => ~NeedsFilling(job[w].duty)
TurnedAwayMeansCovered == [][TurnedAwayStep]_vars

(* "The very first thing Zamu does after Priya withdraws is email Priya     *)
(* about Priya's shift" is what the withdrawal row is there to prevent      *)
(* (fill.py): nobody is mailed about a duty they have withdrawn from.       *)
HasWithdrawn(d, p) ==
  \E text \in Texts : ledger[<<"withdraw", d, p, text>>] \notin {"absent", "blocked"}
InvitationStep ==
  \A d \in Duties, p \in People :
    inbox'[<<d, p>>] > inbox[<<d, p>>] => ~HasWithdrawn(d, p)
NotInvitedBack == [][InvitationStep]_vars

(* "confirmed on the roster" (fill.py): two people are not both told that   *)
(* they are on one duty, unless one of them has withdrawn from it.          *)
OnePersonConfirmed ==
  \A d \in Duties : \A p, q \in People :
    /\ ledger[Key("assign", d, p)] = "verified"
    /\ ledger[Key("assign", d, q)] = "verified"
    => p = q \/ HasWithdrawn(d, p) \/ HasWithdrawn(d, q)

(* "Email clients prefetch links and people double-tap.  Both must be       *)
(* harmless" (test_fill.py): an ask that was answered, has expired or was   *)
(* superseded keeps its state.                                              *)
FinalStep ==
  \A a \in AskIds : ask[a] \notin {"absent", "sent"} => ask'[a] = ask[a]
AnswersAreFinal == [][FinalStep]_vars

-----------------------------------------------------------------------------
(* Liveness: workers finish what they begin, asks lapse, and the schedule   *)
(* keeps starting sweeps whatever else the workers are asked to do.         *)

Working(w) ==
  \/ AskStep(w) \/ SweepStep(w) \/ ResponseStep(w) \/ WithdrawalStep(w)
  \/ SupersedeStep(w)
  \/ pc[w] = "sweep" /\ Choose(w)

Fairness ==
  /\ \A w \in Workers : WF_vars(Working(w)) /\ SF_vars(StartSweep(w))
  /\ \A a \in AskIds : WF_vars(Lapse(a))

FairSpec == Spec /\ Fairness

(* "Advance every open gap by one ask" (docs/deploying.md): a gap that      *)
(* somebody can still be asked about does not stay as it is for ever.       *)
Askable(d) == NeedsFilling(d) /\ ~OpenAskFor(d) /\ Shortlist(d) # {}
EveryGapAdvances == \A d \in Duties : Askable(d) ~> ~Askable(d)

(* It advances unless somebody stands in the way: a person whose ask was    *)
(* accepted, or closed for them, may be ranked first again with their key   *)
(* taken (eligibility.py).  Of all other gaps each sweep makes something,   *)
(* whatever is lost or withdrawn, while every action class is granted.      *)
InTheWay(d, p) == \E k \in Kinds : ask[<<k, d, p>>] \in {"accepted", "superseded"}
Unobstructed(d) == Askable(d) /\ \A p \in Shortlist(d) : ~InTheWay(d, p)
FreshGapsAdvance == \A d \in Duties : Unobstructed(d) ~> ~Unobstructed(d)

(* "Silence is an answer with a deadline" (fill.py, expire_lapsed): no ask  *)
(* stays open once it has lapsed.                                           *)
LapsedAsksClose ==
  \A a \in AskIds : (a \in lapsed /\ ask[a] = "sent") ~> ask[a] # "sent"
=============================================================================
