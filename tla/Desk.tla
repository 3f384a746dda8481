--------------------------------- MODULE Desk ---------------------------------
(***************************************************************************)
(* The fill loop as the agent, the mail and the coordinator reach it: the  *)
(* operations of TimedFill with the receipts they leave (core/fill.py,     *)
(* core/ledger.py).  Of the receipts those are kept that the handover      *)
(* brief reads: refusals and writes to the roster.                         *)
(***************************************************************************)
EXTENDS TimedFill

CONSTANTS Words,    \* the ways to say that one cannot come
          MaxJobs   \* bound on the jobs

VARIABLES receipts, \* the receipt under each idempotency key
          jobs      \* runs, messages, imports, withdrawals by hand, changes of a grant

deskVars == <<vars, receipts, jobs>>

Begin == Idle /\ jobs < MaxJobs /\ jobs' = jobs + 1

Receipt(class, rule, result, d, p) ==
  [class |-> class, rule |-> rule, result |-> result, duty |-> d, person |-> p, at |-> now]

(* A key has one receipt, the first (record_blocked, begin).                *)
Record(key, receipt) ==
  IF key \in DOMAIN receipts THEN receipts
  ELSE [k \in DOMAIN receipts \cup {key} |-> IF k = key THEN receipt ELSE receipts[k]]

-----------------------------------------------------------------------------
(* ask_next, for one duty or in a sweep *)

NoteRefusal(d, chosen) ==
  \/ \E p \in chosen :
       /\ ~Allowed(Asking("send", d, p))
       /\ receipts' = Record(<<"blocked_send", d, p>>,
                             Receipt("send", Rule(Asking("send", d, p)), "blocked", d, p))
  \/ /\ \A p \in chosen : Allowed(Asking("send", d, p))
     /\ UNCHANGED receipts

AskAndNote(d, chosen) == AskOnRequest(d, chosen) /\ NoteRefusal(d, chosen) /\ UNCHANGED jobs

AskNextPerson(d) == AskAndNote(d, Chosen(d))

AdvanceAndNote(d, chosen) == AdvanceSweep(chosen) /\ NoteRefusal(d, chosen)

Sweep ==
  /\ \/ StartSweep /\ UNCHANGED receipts
     \/ queue # <<>> /\ AdvanceAndNote(Head(queue), Chosen(Head(queue)))
  /\ UNCHANGED jobs

(* expire_lapsed on its own, as a tool of the agent.                        *)
CloseLapsed ==
  /\ Idle
  /\ ask' = Expired
  /\ UNCHANGED <<now, person, holder, confirmedAt, gone, grants, queue, answering,
                 receipts, jobs>>

-----------------------------------------------------------------------------
(* record_response *)

Answer(d, p) ==
  /\ Accept(d, p) \/ \E accept \in BOOLEAN : Decline(d, p, accept)
  /\ UNCHANGED <<receipts, jobs>>

Assign(d, p) ==
  /\ WriteAssignment(d, p)
  /\ LET result == IF Allowed(Assigning(d, p)) THEN "verified" ELSE "blocked"
     IN receipts' = Record(<<"assign", d, p>>,
                           Receipt("write", Rule(Assigning(d, p)), result, d, p))
  /\ UNCHANGED jobs

-----------------------------------------------------------------------------
(* record_withdrawal: its key holds the wording (the first 120 characters). *)

WithdrawKey(d, p, w) == <<"withdraw", d, p, w>>

WithdrawOutcome(d, p, w) ==
  IF ~Allowed(Withdrawing(d, p)) THEN "blocked"
  ELSE IF WithdrawKey(d, p, w) \in DOMAIN receipts THEN "replayed"
  ELSE "withdrawn"

RefuseWithdrawal(d, p, w) ==
  /\ WithdrawOutcome(d, p, w) = "blocked"
  /\ receipts' = Record(WithdrawKey(d, p, w),
                        Receipt("write", Rule(Withdrawing(d, p)), "blocked", d, p))
  /\ UNCHANGED vars

ReplayWithdrawal(d, p, w) ==
  /\ WithdrawOutcome(d, p, w) = "replayed"
  /\ UNCHANGED <<vars, receipts>>

PerformWithdrawal(d, p, w) ==
  /\ WithdrawOutcome(d, p, w) = "withdrawn"
  /\ Withdraw(d, p)
  /\ receipts' = Record(WithdrawKey(d, p, w),
                        Receipt("write", Rule(Withdrawing(d, p)), "verified", d, p))

RecordWithdrawal(d, p, w) ==
  /\ Idle
  /\ \/ RefuseWithdrawal(d, p, w)
     \/ ReplayWithdrawal(d, p, w)
     \/ PerformWithdrawal(d, p, w)

-----------------------------------------------------------------------------
DeskInit == Init /\ receipts = <<>> /\ jobs = 0

DeskNext ==
  \/ Sweep
  \/ Tick /\ UNCHANGED <<receipts, jobs>>
  \/ Begin /\ (\E g \in Revocable : ToggleGrant(g)) /\ UNCHANGED receipts
  \/ \E d \in Duties, p \in People : Answer(d, p) \/ Assign(d, p)
  \/ Begin /\ \E d \in Duties, p \in People, w \in Words : RecordWithdrawal(d, p, w)
=============================================================================
