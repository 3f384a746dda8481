----------------------------- MODULE AuthorityGate -----------------------------
(***************************************************************************)
(* The policy gate (core/authority.py): the rule that decides a proposed   *)
(* action.  A rule list is read in order and the first refusal wins.  The  *)
(* action always names this roster's organisation, so R1 does not arise.   *)
(***************************************************************************)
EXTENDS Fairness, Sequences

(* A proposed action; fields that a class does not use are None or FALSE.   *)
Proposal == [class : {"read", "draft", "send", "write", "reassign"},
             person : People \cup {None}, duty : Duties \cup {None},
             withdrawal : BOOLEAN, acceptance : AskIds \cup {None},
             evidence : BOOLEAN, keyed : BOOLEAN]

Refusals == {"R0", "R3-scope", "R3-none", "R5", "R6-no-opt-in", "R7", "R8",
             "R10-no-acceptance", "R11", "R12", "R13"}
Approvals == {"R2", "R4", "R6-opted-in", "R10-accepted", "R13-self"}

FirstRefusal(rules, approval) ==
  LET broken == {i \in DOMAIN rules : rules[i][1]}
  IN IF broken = {} THEN approval ELSE rules[Min(broken)][2]

SendRule(a) ==
  IF a.person \notin People THEN "R5"
  ELSE FirstRefusal(<< <<~person[a.person].active, "R5">>,
                       <<~person[a.person].optedIn, "R6-no-opt-in">>,
                       <<InQuietHours(a.person, now), "R7">>,
                       <<~BudgetLeft(a.person), "R8">> >>, "R6-opted-in")

AssignRule(a) ==
  IF a.acceptance \notin AskIds THEN "R10-no-acceptance"
  ELSE FirstRefusal(<< <<ask[a.acceptance].state # "accepted", "R10-no-acceptance">>,
                       <<a.person \notin {None, a.acceptance[3]}, "R11">>,
                       <<a.duty \notin {None, a.acceptance[2]}, "R11">>,
                       <<~a.keyed, "R12">> >>, "R10-accepted")

WithdrawRuleForAnyone(a) ==                                          \* a mutant
  IF a.duty \notin Duties THEN "R13"
  ELSE FirstRefusal(<< <<holder[a.duty] = None, "R13">>,
                       <<~a.evidence, "R13">>,
                       <<~a.keyed, "R12">> >>, "R13-self")
WithdrawRule(a) ==
  IF a.duty \notin Duties THEN "R13"
  ELSE FirstRefusal(<< <<holder[a.duty] = None, "R13">>,
                       <<holder[a.duty] # a.person, "R13">>,
                       <<~a.evidence, "R13">>,
                       <<~a.keyed, "R12">> >>, "R13-self")

(* authorize.                                                               *)
Rule(a) ==
  IF a.class = "reassign" THEN "R0"
  ELSE IF a.class = "read" THEN "R2"
  ELSE IF ~Covering(a.class, a.person)
         THEN IF Granted(a.class) THEN "R3-scope" ELSE "R3-none"
  ELSE CASE a.class = "draft" -> "R4"
         [] a.class = "send"  -> SendRule(a)
         [] a.class = "write" -> IF a.withdrawal THEN WithdrawRule(a) ELSE AssignRule(a)

Allowed(a) == Rule(a) \in Approvals

(* granted_levels: the rungs that are lit, reading always.                  *)
GrantedLevels == {"read"} \cup {g.level : g \in {h \in grants : h.level # "reassign"}}
=============================================================================
