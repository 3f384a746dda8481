---------------------------- MODULE CoverageAlone ----------------------------
(***************************************************************************)
(* What the fill loop may rely on as long as one operation runs at a time: *)
(* what a worker read in a snapshot still stands when it acts on it.  The  *)
(* inductive invariants behind the theorems of CoverageAlone_proofs.       *)
(***************************************************************************)
EXTENDS CoverageInvariants, CoverageClaims

OneAtATime == \A v, w \in Workers : v = w
NobodyDies == MaxCrashes = 0

(* Where somebody has been chosen and the row is not written yet; and where *)
(* somebody's acceptance is on its way to the roster.                       *)
Choosing  == {"refuse", "draft_begin", "draft_put", "ask_begin", "ask_put"}
ToAssign  == {"assign", "assign_refuse", "assign_begin", "assign_write"}

Accepting(w) ==
  pc[w] \in ToAssign \/ (pc[w] \in Responding /\ job[w].verdict = "accepted")

(* A row is there only under a receipt, and an assignment is on record only *)
(* of an ask that was answered.                                             *)
RowsReceipted ==
  \A d \in Duties, p \in People :
    /\ ask[<<"email", d, p>>] # "absent" => ledger[Key("ask", d, p)] # "absent"
    /\ ask[<<"draft", d, p>>] # "absent" => ledger[Key("draft", d, p)] # "absent"
    /\ ledger[Key("assign", d, p)] # "absent"
         => ask[<<"email", d, p>>] \notin {"absent", "sent"}

(* The rows a worker is about to write are as it last saw or wrote them.    *)
RowsStand ==
  \A w \in Workers :
    /\ pc[w] = "draft_put" => ask[DraftRow(w)] = "absent"
    /\ pc[w] = "ask_put" => ask[AskRow(w)] = "absent"
    /\ pc[w] \in Responding \cup {"ask_send", "ask_mark", "ask_undo"}
         => ask[AskRow(w)] = "sent"
    /\ pc[w] \in ToAssign => ask[AskRow(w)] = "accepted"
    /\ pc[w] \in ToAssign \ {"assign_write"} => ledger[AssignKey(w)] = "absent"
    /\ pc[w] \in {"expire", "supersede"} => \A a \in job[w].asks : ask[a] = "sent"

(* Who was chosen may still be asked, as far as the rows say.               *)
ChoiceStands ==
  \A w \in Workers :
    pc[w] \in Choosing =>
      /\ ~OpenAskFor(job[w].duty)
      /\ ~OpenAskElsewhere(job[w].person)
      /\ ~DoubleBooked(job[w].duty, job[w].person)
      /\ AsksThisWeek(job[w].person) < WeeklyAsks

(* The holder of the duty is still the one the worker read.                 *)
HolderStands ==
  \A w \in Workers :
    /\ Accepting(w) /\ pc[w] # "respond" => assigned[job[w].duty] \in {None, job[w].person}
    /\ pc[w] \in {"vacate_begin", "vacate_write"} => assigned[job[w].duty] = job[w].person

(* An open ask is about a duty that its person could take, and who has      *)
(* accepted has no other open.                                              *)
Bookable ==
  /\ \A d \in Duties, p \in People : IsOpen(<<"email", d, p>>) => ~DoubleBooked(d, p)
  /\ \A w \in Workers :
       Accepting(w) =>
         /\ ~DoubleBooked(job[w].duty, job[w].person)
         /\ \A a \in AskIds : a[3] = job[w].person /\ IsOpen(a) => a = AskRow(w)

(* The asks of a week are counted, and whoever got one has a row for it.    *)
Asked(p) == {d \in Duties : ask[<<"email", d, p>>] # "absent"}
Counted ==
  /\ \A p \in People : IsFiniteSet(Asked(p)) /\ Cardinality(Asked(p)) <= WeeklyAsks
  /\ \A d \in Duties, p \in People :
       inbox[<<d, p>>] > 0 => ask[<<"email", d, p>>] # "absent"

(* As long as nobody dies, too: a withdrawal that was taken on is on record *)
(* or on its way there.                                                     *)
Leaver(w, d, p) ==
  /\ pc[w] \in {"vacate_write", "vacate_mark", "vacate_close", "others", "supersede",
                "depart"}
  /\ job[w].duty = d /\ job[w].person = p /\ job[w].text \in Texts
OnRecord ==
  /\ \A d \in Duties, p \in People :
       HasWithdrawn(d, p) => <<d, p>> \in gone \/ \E w \in Workers : Leaver(w, d, p)
  /\ \A w \in Workers :
       pc[w] \in Choosing \cup {"ask_send"} => <<job[w].duty, job[w].person>> \notin gone

(* And an acceptance is on the roster, refused by the gate, given up, or on *)
(* its way there.                                                           *)
Kept ==
  \A d \in Duties, p \in People :
    ask[<<"email", d, p>>] = "accepted" =>
      \/ assigned[d] = p
      \/ <<d, p>> \in gone
      \/ ledger[Key("assign", d, p)] = "blocked"
      \/ \E w \in Workers :
           \/ pc[w] \in ToAssign /\ job[w].duty = d /\ job[w].person = p
           \/ Leaver(w, d, p) /\ pc[w] # "vacate_write"

AloneInv ==
  /\ IInv
  /\ RowsReceipted /\ RowsStand
  /\ ChoiceStands /\ HolderStands /\ Bookable /\ Counted
  /\ OneOpenAskPerDuty /\ OneOpenAskPerPerson
=============================================================================
