-------------------------- MODULE CoverageInvariants --------------------------
(***************************************************************************)
(* What a worker of CoverageService may rely on at each of its steps,      *)
(* whatever the others did meanwhile: the inductive invariant behind the   *)
(* theorems of CoverageService_proofs.                                     *)
(***************************************************************************)
EXTENDS CoverageService

(* Where a worker is at a duty and a person, and where at a withdrawal.     *)
Engaged    == Labels \ {"idle", "expire", "sweep"}
Vacating   == {"vacate_refuse", "vacate_begin", "vacate_write", "vacate_mark",
               "vacate_close", "depart"}
Responding == {"respond", "respond_put"}
Assigning  == {"assign", "assign_refuse", "assign_begin", "assign_write",
               "assign_mark", "assign_close"}

(* Where a worker has a receipt, not yet executed or executed.              *)
Opened   == {"draft_put", "draft_mark", "ask_put", "ask_send", "ask_mark",
             "assign_write", "assign_mark", "vacate_write", "vacate_mark"}
Executed == {"draft_close", "ask_undo", "ask_fail", "ask_close",
             "assign_close", "vacate_close"}

(* A worker that is at something knows what it is at.                       *)
JobShape ==
  \A w \in Workers :
    /\ pc[w] \in Engaged => job[w].duty \in Duties /\ job[w].person \in People
    /\ pc[w] \in Vacating => job[w].text \in Texts
    /\ pc[w] \in Responding =>
         job[w].verdict \in {"accepted", "declined", "expired", "superseded"}

(* A worker on its way to an assignment has the person's word for it.       *)
Consented ==
  \A w \in Workers :
    \/ pc[w] \in Assigning
    \/ pc[w] \in Responding /\ job[w].verdict = "accepted"
    => <<job[w].duty, job[w].person>> \in yes

(* The receipt a worker is working under.                                   *)
CurrentKey(w) ==
  CASE pc[w] \in {"draft_put", "draft_mark", "draft_close"} -> DraftKey(w)
    [] pc[w] \in {"ask_put", "ask_send", "ask_mark", "ask_undo", "ask_fail",
                  "ask_close"} -> AskKey(w)
    [] pc[w] \in {"assign_write", "assign_mark", "assign_close"} -> AssignKey(w)
    [] OTHER -> VacateKey(w)

(* It is as far as the worker is, and no two workers have the same one.     *)
Receipted ==
  /\ \A w \in Workers :
       /\ pc[w] \in Opened => ledger[CurrentKey(w)] = "open"
       /\ pc[w] \in Executed => ledger[CurrentKey(w)] = "executed"
  /\ \A v, w \in Workers :
       pc[v] \in Opened \cup Executed /\ pc[w] \in Opened \cup Executed
         /\ CurrentKey(v) = CurrentKey(w) => v = w

(* A message goes out once, under a receipt that is past the sending.       *)
Mailed ==
  \A d \in Duties, p \in People :
    /\ inbox[<<d, p>>] <= 1
    /\ inbox[<<d, p>>] = 1 =>
         /\ ledger[Key("ask", d, p)] # "absent"
         /\ \A w \in Workers :
              ~(pc[w] \in {"ask_put", "ask_send"} /\ AskKey(w) = Key("ask", d, p))

IInv == TypeOK /\ JobShape /\ Consented /\ Receipted /\ Mailed

(* On the way to closing an ask, the worker has done what its receipt will  *)
(* say: the message is out, or the row is no longer open.                   *)
Delivered ==
  \A w \in Workers :
    /\ pc[w] = "ask_close" \/ (pc[w] = "ask_mark" /\ job[w].verdict = "ok")
         => inbox[<<job[w].duty, job[w].person>>] = 1
    /\ pc[w] = "ask_fail" => ask[AskRow(w)] # "sent"
=============================================================================
