-------------------------- MODULE CoverageRefinement --------------------------
(***************************************************************************)
(* CoverageService implements RosterPromise, whatever the workers' order   *)
(* and wherever they die.                                                  *)
(***************************************************************************)
EXTENDS CoverageService

(* A worker has the receipt of an assignment and has yet to write it.       *)
AboutToAssign(w, d, p) ==
  pc[w] = "assign_write" /\ job[w].duty = d /\ job[w].person = p

(* The receipt is claimed and no worker is left that could still write.     *)
Spent(d, p) ==
  /\ ledger[Key("assign", d, p)] \notin {"absent", "blocked"}
  /\ \A w \in Workers : ~AboutToAssign(w, d, p)

Stage(d, p) ==
  IF Spent(d, p) THEN "spent"
  ELSE IF <<d, p>> \in yes THEN "agreed"
  ELSE IF inbox[<<d, p>>] > 0 THEN "invited"
  ELSE "none"

Promise == INSTANCE RosterPromise WITH
  holder  <- assigned,
  promise <- [dp \in Duties \X People |-> Stage(dp[1], dp[2])],
  leaving <- {dp \in Duties \X People :
                \E text \in Texts :
                  ledger[<<"withdraw", dp[1], dp[2], text>>] \notin {"absent", "blocked"}}

(* Every step of every worker of the fill loop is a step of the promise or  *)
(* leaves it alone (fill.py: _send_ask, record_response, record_withdrawal). *)
KeepsPromise == Promise!Spec
=============================================================================
