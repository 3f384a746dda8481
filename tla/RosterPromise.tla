---------------------------- MODULE RosterPromise ----------------------------
(***************************************************************************)
(* What Zamu promises the people on a roster, whatever its workers do:     *)
(* a person is invited to a duty at most once, can only agree to what they *)
(* were invited to, and one agreement puts them on the duty at most once;  *)
(* a duty loses its holder only after somebody withdrew from it.           *)
(***************************************************************************)
CONSTANTS People, Duties, None, InitialHolder

VARIABLES
  holder,  \* who is on each duty
  promise, \* how far each person has come with each duty
  leaving  \* <<duty, person>> whose withdrawal was taken on

vars == <<holder, promise, leaving>>

Pairs  == Duties \X People
Stages == {"none", "invited", "agreed", "spent"}

Init ==
  /\ holder = InitialHolder
  /\ promise = [dp \in Pairs |-> "none"]
  /\ leaving = {}

Advance(dp, from, to) ==
  /\ promise[dp] = from
  /\ promise' = [promise EXCEPT ![dp] = to]
  /\ UNCHANGED leaving

Invite(dp) == Advance(dp, "none", "invited") /\ UNCHANGED holder

Agree(dp) == Advance(dp, "invited", "agreed") /\ UNCHANGED holder

Join(dp) ==
  /\ Advance(dp, "agreed", "spent")
  /\ holder' = [holder EXCEPT ![dp[1]] = dp[2]]

(* An agreement that a dead worker had taken up is not acted on again.      *)
Lose(dp) == Advance(dp, "agreed", "spent") /\ UNCHANGED holder

GiveNotice(dp) ==
  /\ leaving' = leaving \cup {dp}
  /\ UNCHANGED <<holder, promise>>

Vacate(dp) ==
  /\ dp \in leaving
  /\ holder' = [holder EXCEPT ![dp[1]] = None]
  /\ UNCHANGED <<promise, leaving>>

Next ==
  \E dp \in Pairs :
    \/ Invite(dp) \/ Agree(dp) \/ Join(dp) \/ Lose(dp)
    \/ GiveNotice(dp) \/ Vacate(dp)

Spec == Init /\ [][Next]_vars
=============================================================================
