--------------------------------- MODULE Office ---------------------------------
(***************************************************************************)
(* One organisation's desk with everything that works at it: the fill loop *)
(* in time, the agent, the mail, the daily brief and the coordinator with  *)
(* a spreadsheet, all over one store.                                      *)
(***************************************************************************)
EXTENDS InboundMail, HandoverBrief, RosterImport

officeVars == <<deskVars, agentVars, mailVars, briefVars, importVars>>

OfficeInit == DeskInit /\ AgentInit /\ MailInit /\ BriefInit /\ ImportInit

OfficeNext ==
  \/ DeskNext /\ UNCHANGED <<agentVars, mailVars, briefVars, importVars>>
  \/ AgentNext /\ UNCHANGED <<mailVars, briefVars, importVars>>
  \/ MailNext /\ UNCHANGED <<briefVars, importVars>>
  \/ BriefNext /\ UNCHANGED <<agentVars, mailVars, importVars>>
  \/ ImportNext /\ UNCHANGED <<agentVars, mailVars, briefVars>>

OfficeSpec == OfficeInit /\ [][OfficeNext]_officeVars
-----------------------------------------------------------------------------
(* Every variable has its type.                                             *)
OfficeTypeOK == TypeOK /\ AgentTypeOK /\ MailTypeOK /\ BriefTypeOK /\ ImportTypeOK

(* "Whatever the model concludes, it still has to get through the authority *)
(* hook" (inbound.py): whoever a message names, it puts nobody on a duty,   *)
(* and takes off a duty only the person that held it, with writing granted  *)
(* at that moment and a new receipt that says so; read by its phrases, only *)
(* its sender.  And a message is not called handled unless a receipt, of a  *)
(* withdrawal or of its refusal, is there for the person and the duty that  *)
(* were first named (a duty that does not exist has no receipt: the modules *)
(* know none such).                                                         *)
Released(d) ==
  /\ holder'[d] = None /\ "write" \in GrantedLevels
  /\ mail.reader = "model" \/ holder[d] = mail.from
  /\ \E w \in Words : LET key == WithdrawKey(d, holder[d], w)
                      IN /\ key \in DOMAIN receipts' \ DOMAIN receipts
                         /\ receipts'[key].result = "verified"
OnRecord(call, book) ==
  \E k \in DOMAIN book :
    /\ book[k].class = "write"
    /\ book[k].duty = call.duty /\ book[k].person = call.person
MailStep ==
  mail # None /\ mail' # mail =>
    /\ \A d \in Duties : holder'[d] # holder[d] => Released(d)
    /\ mail' = None /\ verdict' => OnRecord(mail.named, receipts')
MailIsGated == [][MailStep]_officeVars

(* Covered means that this holder said yes: a duty counts as confirmed by   *)
(* its first holder, or because its holder accepted an ask and the          *)
(* assignment was verified at that moment, never because a sheet says so    *)
(* ("honestly unknown rather than covered", importer.py).                   *)
ConfirmedByAnswer ==
  \A d \in Duties :
    confirmedAt[d] # None =>
      \/ d \in InitiallyConfirmed /\ holder[d] = InitialHolder[d] /\ confirmedAt[d] = 0
      \/ \E k \in DOMAIN receipts :
           /\ k = <<"assign", d, holder[d]>>
           /\ receipts[k].result = "verified" /\ receipts[k].at = confirmedAt[d]
=============================================================================
