------------------------------ MODULE InboundMail ------------------------------
(***************************************************************************)
(* A volunteer's reply (infra/inbound.py).  A list of phrases reads it,    *)
(* and what it is read as happens later, on a roster read again.  Where a  *)
(* language model is configured, the model reads it with the tools of the  *)
(* agent in its hands.  The model is external and nothing is assumed of    *)
(* it: it may call any tool about any duty and any person, again and       *)
(* again, and stop when it likes.  Left out are calls that only read, and  *)
(* calls for a tool, person or duty that does not exist, of which at most  *)
(* the receipt of a refusal remains.  Mail from strangers and from         *)
(* inactive people is dropped.                                             *)
(***************************************************************************)
EXTENDS AgentRun

CONSTANT MaxCalls   \* bound on the calls of the model about one message

ASSUME CallsAssumption == MaxCalls \in Nat

VARIABLES
  mail,     \* the message being handled, or None
  verdict   \* whether the last message counts as handled

mailVars == <<mail, verdict>>

(* By the phrases the message is plainly a withdrawal, or it is not.        *)
Readers == {"plain", "unclear", "model"}

Withdrawal(d, p, w) == [tool |-> "record_withdrawal", duty |-> d, person |-> p, words |-> w]
NextAsk(d) == [tool |-> "ask_next_person", duty |-> d, person |-> None, words |-> None]
Closing == [tool |-> "expire_lapsed_asks", duty |-> None, person |-> None, words |-> None]

Withdrawals == {Withdrawal(d, p, w) : d \in Duties, p \in People, w \in Words}
ToolCalls == Withdrawals \cup {NextAsk(d) : d \in Duties} \cup {Closing}

(* next: the call that is to be carried out; named: the first withdrawal    *)
(* that was called for, carried out or not.                                 *)
Mail == [from : People, reader : Readers, words : Words,
         next : ToolCalls \cup {None}, named : Withdrawals \cup {None}, calls : 0 .. MaxCalls]

Upcoming(p) == {d \in DutiesOf(p) : Shift[d].start > now}

SoleUpcoming(p) == IF Cardinality(Upcoming(p)) = 1 THEN Upcoming(p) ELSE {}

MailInit == mail = None /\ verdict = FALSE

-----------------------------------------------------------------------------
(* The model is not asked about a sender without a duty to come.            *)
Receive ==
  /\ mail = None
  /\ Begin
  /\ \E p \in People, r \in Readers, w \in Words :
       /\ person[p].active
       /\ r = "model" => Upcoming(p) # {}
       /\ mail' = [from |-> p, reader |-> r, words |-> w,
                   next |-> None, named |-> None, calls |-> 0]
  /\ verdict' = FALSE
  /\ UNCHANGED <<vars, receipts, agentVars>>

ReadBy(readers) == mail # None /\ mail.reader \in readers /\ mail.next = None

FirstNamed(call) ==
  IF mail.named = None /\ call \in Withdrawals THEN call ELSE mail.named

Done(handled) ==
  /\ mail' = None
  /\ verdict' = handled
  /\ UNCHANGED agentVars

-----------------------------------------------------------------------------
(* The phrases: one duty or none, and in doubt the coordinator decides.     *)

ReadPhrases ==
  /\ ReadBy({"plain"})
  /\ \E d \in SoleUpcoming(mail.from) :
       LET call == Withdrawal(d, mail.from, mail.words)
       IN mail' = [mail EXCEPT !.next = call, !.named = call]
  /\ UNCHANGED <<deskVars, agentVars, verdict>>

Escalate ==
  /\ ReadBy({"plain", "unclear"})
  /\ mail.reader = "unclear" \/ SoleUpcoming(mail.from) = {}
  /\ Done(FALSE)
  /\ UNCHANGED deskVars

(* The outcome decides whether the message is handled.                      *)
Handled(call) ==
  WithdrawOutcome(call.duty, call.person, call.words) \in {"withdrawn", "replayed"}

ActOnPhrases ==
  /\ mail # None /\ mail.next # None /\ mail.reader = "plain"
  /\ RecordWithdrawal(mail.next.duty, mail.next.person, mail.next.words)
  /\ UNCHANGED jobs
  /\ Done(Handled(mail.next))

-----------------------------------------------------------------------------
(* The model: each call passes the hook, and is carried out later.  The     *)
(* model's own number of a call is never used twice.                        *)

MayCall == ReadBy({"model"}) /\ mail.calls < MaxCalls

CallTool(call) ==
  /\ MayCall
  /\ HookAllows(call.tool)
  /\ mail' = [mail EXCEPT !.next = call, !.named = FirstNamed(call), !.calls = @ + 1]
  /\ UNCHANGED <<deskVars, agentVars, verdict>>

CancelModel(call) ==
  /\ MayCall
  /\ ~HookAllows(call.tool)
  /\ CancelCall(Use(call.tool, call.duty), call.person, <<"mail", jobs, mail.calls>>)
  /\ mail' = [mail EXCEPT !.named = FirstNamed(call), !.calls = @ + 1]
  /\ UNCHANGED <<vars, jobs, agentVars, verdict>>

RunCall(call) ==
  CASE call.tool = "record_withdrawal" ->
         RecordWithdrawal(call.duty, call.person, call.words) /\ UNCHANGED jobs
    [] call.tool = "ask_next_person"    -> AskNextPerson(call.duty)
    [] call.tool = "expire_lapsed_asks" -> CloseLapsed

RunModelCall ==
  /\ mail # None /\ mail.next # None /\ mail.reader = "model"
  /\ RunCall(mail.next)
  /\ mail' = [mail EXCEPT !.next = None]
  /\ UNCHANGED <<agentVars, verdict>>

(* With the model it is enough that a withdrawal was called for.            *)
EndModel ==
  /\ ReadBy({"model"})
  /\ Done(mail.named # None)
  /\ UNCHANGED deskVars

MailNext ==
  \/ Receive \/ ReadPhrases \/ Escalate \/ ActOnPhrases \/ RunModelCall \/ EndModel
  \/ \E call \in ToolCalls : CallTool(call) \/ CancelModel(call)

-----------------------------------------------------------------------------
MailTypeOK ==
  /\ mail \in Mail \cup {None}
  /\ verdict \in BOOLEAN
=============================================================================
