------------------------- MODULE CoverageAlone_proofs -------------------------
(***************************************************************************)
(* What the fill loop keeps as long as one operation runs at a time, for   *)
(* every roster, every budget and every number of crashes: OneAtATime is   *)
(* the hypothesis of each theorem here, and a second worker breaks every   *)
(* one of them.                                                            *)
(***************************************************************************)
EXTENDS CoverageAlone, CoverageReceipts_proofs

Doing(w) ==
  \/ Choose(w) \/ AskStep(w) \/ SweepStep(w) \/ Request(w)
  \/ ResponseStep(w) \/ WithdrawalStep(w) \/ SupersedeStep(w) \/ Crash(w)

Calm ==
  /\ UNCHANGED <<store, inbox, yes, pc, job>>
  /\ lapsed \subseteq lapsed'

(* A step is the one worker's or leaves rows, mail and workers alone.       *)
LEMMA DoingOrCalm ==
  ASSUME [Next]_vars
  PROVE  Calm \/ \E w \in Workers : Doing(w)
<1>1. CASE UNCHANGED vars \/ Environment
  BY <1>1 DEF vars, store, world, Environment, Lapse, ToggleGrant, Dusk, Calm
<1> QED
  BY <1>1 DEF Next, Doing

-----------------------------------------------------------------------------
(* Where a step of the worker takes it, and by which action. *)

Arrived(w) ==
  /\ pc'[w] \in {"refuse", "ask_begin"} =>
       \E d \in Duties, p \in People : ChooseCandidate(w, d, p)
  /\ pc'[w] = "draft_begin" => RefuseSend(w)
  /\ pc'[w] = "draft_put" => BeginDraft(w)
  /\ pc'[w] = "ask_put" => BeginAsk(w)
  /\ pc'[w] = "ask_send" => PutAsk(w)
  /\ pc'[w] = "ask_mark" => \E delivery \in Deliveries : SendAsk(w, delivery)
  /\ pc'[w] = "ask_undo" => MarkAsk(w)
  /\ pc'[w] = "expire" => StartSweep(w) \/ \E a \in AskIds : ExpireLapsed(w, a)
  /\ pc'[w] \in Responding =>
       \/ ReadRosterForAnswer(w)
       \/ \E d \in Duties, p \in People, accept \in BOOLEAN : TapLink(w, d, p, accept)
  /\ pc'[w] = "assign" => PutAnswer(w)
  /\ pc'[w] \in {"assign_begin", "assign_refuse"} => AuthorizeAssignment(w)
  /\ pc'[w] = "assign_write" => BeginAssignment(w)
  /\ pc'[w] = "supersede" => ListOtherAsks(w) \/ \E a \in AskIds : SupersedeOtherAsk(w, a)
  /\ pc'[w] \in {"vacate_begin", "vacate_refuse"} =>
       \E d \in Duties, p \in People, text \in Texts : ReceiveNotice(w, d, p, text)
  /\ pc'[w] = "vacate_write" => BeginWithdrawal(w)

(* The labels at which no obligation of AloneInv begins.                    *)
Resting == Labels \ (Choosing \cup Responding \cup ToAssign \cup
             {"ask_send", "ask_mark", "ask_undo", "expire", "supersede", "vacate_begin",
              "vacate_refuse", "vacate_write"})

LEMMA Rests ==
  ASSUME NEW w, pc'[w] \in Resting
  PROVE  Arrived(w)
BY DEF Arrived, Resting, Choosing, Responding, ToAssign

LEMMA SettleRests ==
  ASSUME TypeOK, NEW w \in Workers, NEW gaps, Settle(w, gaps)
  PROVE  pc'[w] \in Resting
<1>1. \E label \in {"idle", "sweep"} : \E j : Go(w, label, j)
  BY SettleGo
<1> QED
  BY <1>1, GoMoves DEF Resting, Choosing, Responding, ToAssign, Labels

LEMMA AskArrives ==
  ASSUME TypeOK, NEW w \in Workers, AskStep(w)
  PROVE  Arrived(w)
<1> USE GoMoves DEF Goto
<1>1. CASE RefuseSend(w)
  <2>1. CASE job[w].verdict = "draft"
    BY <1>1, <2>1 DEF RefuseSend, Arrived, Responding
  <2>2. CASE job[w].verdict # "draft"
    BY <1>1, <2>2, SettleRests, Rests DEF RefuseSend
  <2> QED
    BY <2>1, <2>2
<1>2. CASE BeginDraft(w)
  <2>1. pc'[w] = "draft_put"
    BY <1>2 DEF BeginDraft, Begin
  <2> QED
    BY <1>2, <2>1 DEF Arrived, Responding
<1>3. CASE BeginAsk(w)
  <2>1. pc'[w] = "ask_put"
    BY <1>3 DEF BeginAsk, Begin
  <2> QED
    BY <1>3, <2>1 DEF Arrived, Responding
<1>4. CASE ReplayDraft(w) \/ ReplayAsk(w)
  BY <1>4, SettleRests, Rests DEF ReplayDraft, ReplayAsk, Replay
<1>5. CASE PutDraft(w) \/ MarkDraft(w) \/ UndoAsk(w)
  <2>1. pc'[w] \in {"draft_mark", "draft_close", "ask_fail"}
    BY <1>5 DEF PutDraft, MarkDraft, MarkExecuted, UndoAsk
  <2> QED
    BY <2>1, Rests DEF Resting, Choosing, Responding, ToAssign, Labels
<1>6. CASE CloseDraft(w) \/ FailAsk(w) \/ CloseAsk(w)
  BY <1>6, SettleRests, Rests DEF CloseDraft, FailAsk, CloseAsk
<1>7. CASE PutAsk(w)
  <2>1. pc'[w] = "ask_send"
    BY <1>7 DEF PutAsk
  <2> QED
    BY <1>7, <2>1 DEF Arrived, Responding
<1>8. CASE MarkAsk(w)
  <2>1. pc'[w] \in {"ask_close", "ask_undo"}
    BY <1>8 DEF MarkAsk, MarkExecuted
  <2> QED
    BY <1>8, <2>1 DEF Arrived, Responding
<1>9. CASE \E delivery \in Deliveries : SendAsk(w, delivery)
  <2>1. pc'[w] = "ask_mark"
    BY <1>9 DEF SendAsk
  <2> QED
    BY <1>9, <2>1 DEF Arrived, Responding
<1> QED
  BY <1>1, <1>2, <1>3, <1>4, <1>5, <1>6, <1>7, <1>8, <1>9 DEF AskStep

LEMMA ResponseArrives ==
  ASSUME TypeOK, NEW w \in Workers, ResponseStep(w)
  PROVE  Arrived(w)
<1> USE GoMoves DEF Goto
<1>1. CASE ReadRosterForAnswer(w)
  <2>1. pc'[w] = "respond_put"
    BY <1>1 DEF ReadRosterForAnswer
  <2> QED
    BY <1>1, <2>1 DEF Arrived, Responding
<1>2. CASE PutAnswer(w)
  <2>1. pc'[w] \in {"assign", "idle"}
    BY <1>2 DEF PutAnswer
  <2> QED
    BY <1>2, <2>1 DEF Arrived, Responding
<1>3. CASE AuthorizeAssignment(w)
  <2>1. pc'[w] \in {"assign_begin", "assign_refuse"}
    BY <1>3 DEF AuthorizeAssignment
  <2> QED
    BY <1>3, <2>1 DEF Arrived, Responding
<1>4. CASE BeginAssignment(w)
  <2>1. pc'[w] = "assign_write"
    BY <1>4 DEF BeginAssignment, Begin
  <2> QED
    BY <1>4, <2>1 DEF Arrived, Responding
<1>5. CASE ReplayAssignment(w)
  BY <1>5, SettleRests, Rests DEF ReplayAssignment, Replay
<1>6. CASE RefuseAssignment(w) \/ WriteAssignment(w) \/ MarkAssignment(w) \/ CloseAssignment(w)
  <2>1. pc'[w] \in {"idle", "assign_mark", "assign_close", "others"}
    BY <1>6 DEF RefuseAssignment, WriteAssignment, MarkAssignment, MarkExecuted,
       CloseAssignment
  <2> QED
    BY <2>1, Rests DEF Resting, Choosing, Responding, ToAssign, Labels
<1> QED
  BY <1>1, <1>2, <1>3, <1>4, <1>5, <1>6 DEF ResponseStep

LEMMA WithdrawalArrives ==
  ASSUME TypeOK, NEW w \in Workers, WithdrawalStep(w)
  PROVE  Arrived(w)
<1> USE GoMoves DEF Goto
<1>1. CASE BeginWithdrawal(w)
  <2>1. pc'[w] = "vacate_write"
    BY <1>1 DEF BeginWithdrawal, Begin
  <2> QED
    BY <1>1, <2>1 DEF Arrived, Responding
<1>2. CASE ReplayWithdrawal(w)
  BY <1>2, SettleRests, Rests DEF ReplayWithdrawal, Replay
<1>3. CASE \/ RefuseWithdrawal(w) \/ WriteVacancy(w) \/ MarkVacancy(w) \/ CloseVacancy(w)
           \/ RecordDeparture(w)
  <2>1. pc'[w] \in {"idle", "vacate_mark", "vacate_close", "others"}
    BY <1>3 DEF RefuseWithdrawal, WriteVacancy, MarkVacancy, MarkExecuted, CloseVacancy,
       RecordDeparture
  <2> QED
    BY <2>1, Rests DEF Resting, Choosing, Responding, ToAssign, Labels
<1> QED
  BY <1>1, <1>2, <1>3 DEF WithdrawalStep

LEMMA OtherArrives ==
  ASSUME TypeOK, NEW w \in Workers,
         Choose(w) \/ SweepStep(w) \/ Request(w) \/ SupersedeStep(w) \/ Crash(w)
  PROVE  Arrived(w)
<1> USE GoMoves DEF Goto
<1>1. ASSUME NEW d \in Duties, AskNobody(w, d)
      PROVE  Arrived(w)
  BY <1>1, SettleRests, Rests DEF AskNobody
<1>2. ASSUME NEW d \in Duties, NEW p \in People, ChooseCandidate(w, d, p)
      PROVE  Arrived(w)
  <2>1. pc'[w] \in {"refuse", "ask_begin"}
    BY <1>2 DEF ChooseCandidate
  <2> QED
    BY <1>2, <2>1 DEF Arrived, Responding
<1>3. CASE FindGaps(w)
  BY <1>3, SettleRests, Rests DEF FindGaps
<1>4. CASE StartSweep(w) \/ \E a \in AskIds : ExpireLapsed(w, a)
  <2>1. pc'[w] = "expire"
    BY <1>4 DEF StartSweep, ExpireLapsed
  <2> QED
    BY <1>4, <2>1 DEF Arrived, Responding
<1>5. ASSUME NEW d \in Duties, NEW p \in People, NEW accept \in BOOLEAN,
             TapLink(w, d, p, accept)
      PROVE  Arrived(w)
  <2>1. pc'[w] \in {"respond", "respond_put"}
    BY <1>5 DEF TapLink
  <2> QED
    BY <1>5, <2>1 DEF Arrived, Responding
<1>6. ASSUME NEW d \in Duties, NEW p \in People, NEW text \in Texts,
             ReceiveNotice(w, d, p, text)
      PROVE  Arrived(w)
  <2>1. pc'[w] \in {"vacate_begin", "vacate_refuse"}
    BY <1>6 DEF ReceiveNotice
  <2> QED
    BY <1>6, <2>1 DEF Arrived, Responding
<1>7. CASE ListOtherAsks(w) \/ \E a \in AskIds : SupersedeOtherAsk(w, a)
  <2>1. pc'[w] = "supersede"
    BY <1>7 DEF ListOtherAsks, SupersedeOtherAsk
  <2> QED
    BY <1>7, <2>1 DEF Arrived, Responding
<1>8. CASE EndSupersede(w) \/ Crash(w)
  <2>1. pc'[w] \in {"idle", "depart"}
    BY <1>8 DEF EndSupersede, Crash
  <2> QED
    BY <2>1, Rests DEF Resting, Choosing, Responding, ToAssign, Labels
<1> QED
  BY <1>1, <1>2, <1>3, <1>4, <1>5, <1>6, <1>7, <1>8
  DEF Choose, SweepStep, Request, SupersedeStep

LEMMA Arrives ==
  ASSUME TypeOK, NEW w \in Workers, Doing(w)
  PROVE  Arrived(w)
BY AskArrives, ResponseArrives, WithdrawalArrives, OtherArrives DEF Doing

-----------------------------------------------------------------------------
(* Which actions of the worker write what. *)

Wrote(w) ==
  /\ UNCHANGED lapsed
  /\ \/ UNCHANGED ask
     \/ PutDraft(w) \/ PutAsk(w) \/ UndoAsk(w) \/ PutAnswer(w)
     \/ \E a \in AskIds : ExpireLapsed(w, a) \/ SupersedeOtherAsk(w, a)
  /\ UNCHANGED assigned \/ WriteAssignment(w) \/ WriteVacancy(w)
  /\ UNCHANGED gone \/ RecordDeparture(w)
  /\ UNCHANGED inbox \/ \E delivery \in Deliveries : SendAsk(w, delivery)

LEMMA Writes ==
  ASSUME NEW w \in Workers, Doing(w)
  PROVE  Wrote(w)
<1> USE DEF Wrote
<1>1. CASE Choose(w) \/ StartSweep(w) \/ Crash(w)
  BY <1>1 DEF Choose, AskNobody, ChooseCandidate, StartSweep, Crash, store, world
<1>2. ASSUME NEW d \in Duties, NEW p \in People,
             \/ \E accept \in BOOLEAN : TapLink(w, d, p, accept)
             \/ \E text \in Texts : ReceiveNotice(w, d, p, text)
      PROVE  Wrote(w)
  BY <1>2 DEF TapLink, ReceiveNotice, store, world
<1>3. CASE SweepStep(w) \/ SupersedeStep(w)
  BY <1>3 DEF SweepStep, FindGaps, ExpireLapsed, SupersedeStep, ListOtherAsks,
     SupersedeOtherAsk, EndSupersede, store, world
<1>4. CASE ResponseStep(w)
  BY <1>4 DEF ResponseStep, ReadRosterForAnswer, PutAnswer, AuthorizeAssignment,
     RefuseAssignment, BeginAssignment, ReplayAssignment, WriteAssignment, MarkAssignment,
     CloseAssignment, Begin, Replay, MarkExecuted, store, world
<1>5. CASE WithdrawalStep(w)
  BY <1>5 DEF WithdrawalStep, RefuseWithdrawal, BeginWithdrawal, ReplayWithdrawal,
     WriteVacancy, MarkVacancy, CloseVacancy, RecordDeparture, Begin, Replay, MarkExecuted,
     store, world
<1>6. CASE AskStep(w)
  BY <1>6 DEF AskStep, RefuseSend, BeginDraft, ReplayDraft, PutDraft, MarkDraft, CloseDraft,
     BeginAsk, ReplayAsk, PutAsk, SendAsk, MarkAsk, UndoAsk, FailAsk, CloseAsk, Begin,
     Replay, MarkExecuted, store, world
<1> QED
  BY <1>1, <1>2, <1>3, <1>4, <1>5, <1>6 DEF Doing, Request

-----------------------------------------------------------------------------
(* How a step moves the rows: it opens one that was not there, or closes    *)
(* one that was open.                                                       *)

Final == {"accepted", "declined", "expired", "withdrawn", "superseded"}

Row(w, k) == <<k, job[w].duty, job[w].person>>

OpensRow(w, k) ==
  /\ pc[w] = (IF k = "email" THEN "ask_put" ELSE "draft_put")
  /\ job[w].duty \in Duties /\ job[w].person \in People
  /\ ask[Row(w, k)] = "absent"
  /\ PutAskRow(Row(w, k), "sent")
  /\ UNCHANGED <<assigned, gone, ledger, inbox>>

ClosesRow(w, a, s) ==
  /\ ask[a] = "sent"
  /\ PutAskRow(a, s)
  /\ s = "accepted" => PutAnswer(w) /\ a = AskRow(w) /\ job[w].verdict = "accepted"
  /\ UNCHANGED <<assigned, gone, ledger, inbox>>

RowMove(w) ==
  \/ UNCHANGED ask
  \/ \E k \in Kinds : OpensRow(w, k)
  \/ \E a \in AskIds, s \in Final : ClosesRow(w, a, s)

LEMMA RowMoves ==
  ASSUME IInv, RowsStand, NEW w \in Workers, Doing(w)
  PROVE  RowMove(w)
<1> USE DEF IInv
<1>1. pc[w] \in Engaged =>
        /\ job[w].duty \in Duties /\ job[w].person \in People
        /\ AskRow(w) \in AskIds
  BY DEF JobShape, AskRow, AskIds, Kinds
<1>2. CASE PutDraft(w)
  <2>1. OpensRow(w, "draft")
    BY <1>1, <1>2 DEF PutDraft, DraftRow, OpensRow, Row, RowsStand, Engaged, Labels, world
  <2> QED
    BY <2>1 DEF RowMove, Kinds
<1>3. CASE PutAsk(w)
  <2>1. OpensRow(w, "email")
    BY <1>1, <1>3 DEF PutAsk, AskRow, OpensRow, Row, RowsStand, Engaged, Labels, world
  <2> QED
    BY <2>1 DEF RowMove, Kinds
<1>4. CASE UndoAsk(w)
  <2>1. ClosesRow(w, AskRow(w), "withdrawn") /\ AskRow(w) \in AskIds
    BY <1>1, <1>4 DEF UndoAsk, ClosesRow, RowsStand, Engaged, Labels, world
  <2> QED
    BY <2>1 DEF RowMove, Final
<1>5. CASE PutAnswer(w)
  <2>1. ClosesRow(w, AskRow(w), job[w].verdict) /\ AskRow(w) \in AskIds
    BY <1>1, <1>5 DEF PutAnswer, ClosesRow, RowsStand, Responding, Engaged, Labels, world
  <2>2. job[w].verdict \in Final
    BY <1>5 DEF PutAnswer, JobShape, Responding, Final
  <2> QED
    BY <2>1, <2>2 DEF RowMove
<1>6. ASSUME NEW a \in AskIds, ExpireLapsed(w, a)
      PROVE  RowMove(w)
  <2>1. ClosesRow(w, a, "expired")
    BY <1>6 DEF ExpireLapsed, ClosesRow, RowsStand, world
  <2> QED
    BY <2>1 DEF RowMove, Final
<1>7. ASSUME NEW a \in AskIds, SupersedeOtherAsk(w, a)
      PROVE  RowMove(w)
  <2>1. ClosesRow(w, a, "superseded")
    BY <1>7 DEF SupersedeOtherAsk, ClosesRow, RowsStand, world
  <2> QED
    BY <2>1 DEF RowMove, Final
<1> QED
  BY <1>2, <1>3, <1>4, <1>5, <1>6, <1>7, Writes DEF Wrote, RowMove

(* A receipt for an assignment appears where the answer was just written.   *)
LEMMA AssignReceipts ==
  ASSUME IInv, NEW w \in Workers, Doing(w), NEW d \in Duties, NEW p \in People,
         ledger[Key("assign", d, p)] = "absent", ledger'[Key("assign", d, p)] # "absent"
  PROVE  /\ BeginAssignment(w) \/ RefuseAssignment(w)
         /\ job[w].duty = d /\ job[w].person = p
<1> DEFINE key == Key("assign", d, p)
<1> USE DEF IInv
<1>1. key \in Keys
  BY DEF Key, Keys
<1>2. CASE Choose(w) \/ SweepStep(w) \/ Request(w) \/ SupersedeStep(w) \/ Crash(w)
  BY <1>2, OtherReceipts
<1>3. \A k, r : k[1] # "assign" /\ ledger' = [ledger EXCEPT ![k] = r] => ledger'[key] = ledger[key]
  BY <1>1 DEF Key, TypeOK
<1>4. CASE AskStep(w)
  <2>1. \/ UNCHANGED ledger
        \/ \E k \in {AskKey(w), DraftKey(w), Key("blocked_send", job[w].duty, job[w].person)} :
             \E r : ledger' = [ledger EXCEPT ![k] = r]
    BY <1>4 DEF AskStep, RefuseSend, BeginDraft, ReplayDraft, PutDraft, MarkDraft,
       CloseDraft, BeginAsk, ReplayAsk, PutAsk, SendAsk, MarkAsk, UndoAsk, FailAsk, CloseAsk,
       Begin, Replay, MarkExecuted, CloseReceipt, RecordBlocked, store
  <2> QED
    BY <1>3, <2>1 DEF AskKey, DraftKey, Key
<1>5. CASE WithdrawalStep(w)
  <2>1. \/ UNCHANGED ledger
        \/ \E r : ledger' = [ledger EXCEPT ![VacateKey(w)] = r]
    BY <1>5 DEF WithdrawalStep, RefuseWithdrawal, BeginWithdrawal, ReplayWithdrawal,
       WriteVacancy, MarkVacancy, CloseVacancy, RecordDeparture, Begin, Replay, MarkExecuted,
       CloseReceipt, RecordBlocked, store
  <2> QED
    BY <1>3, <2>1 DEF VacateKey
<1>6. CASE ResponseStep(w)
  <2>1. \/ BeginAssignment(w) \/ RefuseAssignment(w) \/ MarkAssignment(w)
        \/ CloseAssignment(w)
    BY <1>6 DEF ResponseStep, ReadRosterForAnswer, PutAnswer, AuthorizeAssignment,
       ReplayAssignment, WriteAssignment, Replay, store
  <2>2. \A r : ledger' = [ledger EXCEPT ![AssignKey(w)] = r] =>
          job[w].duty = d /\ job[w].person = p
    BY <1>1 DEF AssignKey, Key
  <2>3. job[w].duty = d /\ job[w].person = p
    BY <2>1, <2>2 DEF BeginAssignment, Begin, RefuseAssignment, RecordBlocked,
       MarkAssignment, MarkExecuted, CloseAssignment, CloseReceipt
  <2>4. CASE MarkAssignment(w) \/ CloseAssignment(w)
    <3>1. ledger[AssignKey(w)] # "absent"
      BY <2>4 DEF MarkAssignment, MarkExecuted, CloseAssignment, Receipted, Opened, Executed,
         CurrentKey
    <3> QED
      BY <2>3, <3>1 DEF AssignKey
  <2> QED
    BY <2>1, <2>3, <2>4
<1> QED
  BY <1>2, <1>4, <1>5, <1>6 DEF Doing

-----------------------------------------------------------------------------
(* The invariant, conjunct by conjunct. *)

LEMMA CalmStep ==
  ASSUME AloneInv, Calm
  PROVE  /\ RowsReceipted' /\ RowsStand' /\ ChoiceStands' /\ HolderStands' /\ Bookable'
         /\ Counted' /\ OneOpenAskPerDuty' /\ OneOpenAskPerPerson'
<1> USE DEF AloneInv, Calm, store
<1>1. RowsReceipted'
  BY DEF RowsReceipted
<1>2. RowsStand'
  BY DEF RowsStand, DraftRow, AskRow, AssignKey
<1>3. \A a \in AskIds : IsOpen(a)' => IsOpen(a)
  BY DEF IsOpen
<1>4. \A d \in Duties, p \in People, k \in Kinds : <<k, d, p>> \in AskIds
  BY DEF AskIds, Kinds
<1>5. \A d \in Duties, p \in People : DoubleBooked(d, p)' <=> DoubleBooked(d, p)
  BY DEF DoubleBooked
<1>6. \A p \in People : AsksThisWeek(p)' = AsksThisWeek(p)
  BY DEF AsksThisWeek
<1>7. \A w \in Workers : pc[w] \in Choosing => pc[w] \in Engaged
  BY DEF Choosing, Engaged, Labels
<1>8. ChoiceStands'
  <2> SUFFICES ASSUME NEW w \in Workers, pc[w] \in Choosing
               PROVE  /\ ~OpenAskFor(job[w].duty)'
                      /\ ~OpenAskElsewhere(job[w].person)'
                      /\ ~DoubleBooked(job[w].duty, job[w].person)'
                      /\ AsksThisWeek(job[w].person)' < WeeklyAsks
    BY DEF ChoiceStands
  <2>1. PICK d \in Duties, p \in People : job[w].duty = d /\ job[w].person = p
    BY <1>7 DEF IInv, JobShape
  <2>2. ~OpenAskFor(d)'
    BY <1>3, <1>4, <2>1 DEF ChoiceStands, OpenAskFor, Kinds
  <2>3. ~OpenAskElsewhere(p)'
    BY <1>3, <1>4, <2>1 DEF ChoiceStands, OpenAskElsewhere
  <2> QED
    BY <1>5, <1>6, <2>1, <2>2, <2>3 DEF ChoiceStands
<1>9. HolderStands'
  BY DEF HolderStands, Accepting
<1>10. Bookable'
  <2>1. \A d \in Duties, p \in People : IsOpen(<<"email", d, p>>)' => ~DoubleBooked(d, p)'
    BY <1>3, <1>4, <1>5 DEF Bookable, Kinds
  <2>2. \A w \in Workers : Accepting(w)' => Accepting(w)
    BY DEF Accepting
  <2>3. \A w \in Workers : Accepting(w) => pc[w] \in Engaged
    BY DEF Accepting, ToAssign, Responding, Engaged, Labels
  <2>4. ASSUME NEW w \in Workers, Accepting(w)'
        PROVE  /\ ~DoubleBooked(job[w].duty, job[w].person)'
               /\ \A a \in AskIds : a[3] = job[w].person /\ IsOpen(a)' => a = AskRow(w)
    <3>1. job[w].duty \in Duties /\ job[w].person \in People /\ Accepting(w)
      BY <2>2, <2>3, <2>4 DEF IInv, JobShape
    <3> QED
      BY <1>3, <1>5, <3>1 DEF Bookable
  <2> QED
    BY <2>1, <2>4 DEF Bookable, AskRow
<1>11. Counted'
  BY DEF Counted, Asked
<1>12. OneOpenAskPerDuty'
  BY <1>3, <1>4 DEF OneOpenAskPerDuty, Kinds
<1>13. OneOpenAskPerPerson'
  BY <1>3 DEF OneOpenAskPerPerson
<1> QED
  BY <1>1, <1>2, <1>8, <1>9, <1>10, <1>11, <1>12, <1>13

LEMMA RowsReceiptedStep ==
  ASSUME AloneInv, IInv', [Next]_vars, NEW w \in Workers, Doing(w)
  PROVE  RowsReceipted'
<1> USE DEF AloneInv, IInv
<1>1. \A key \in Keys : ledger[key] # "absent" => ledger'[key] # "absent"
  BY ReceiptedStep DEF LedgerStep, vars, store
<1>2. ASSUME NEW d \in Duties, NEW p \in People
      PROVE  /\ ask'[<<"email", d, p>>] # "absent" => ledger'[Key("ask", d, p)] # "absent"
             /\ ask'[<<"draft", d, p>>] # "absent" => ledger'[Key("draft", d, p)] # "absent"
             /\ ledger'[Key("assign", d, p)] # "absent"
                  => ask'[<<"email", d, p>>] \notin {"absent", "sent"}
  <2>1. Key("ask", d, p) \in Keys /\ Key("draft", d, p) \in Keys /\ Key("assign", d, p) \in Keys
    BY DEF Key, Keys
  <2>2. <<"email", d, p>> \in AskIds /\ <<"draft", d, p>> \in AskIds
    BY DEF AskIds, Kinds
  <2>3. /\ ask[<<"email", d, p>>] # "absent" => ledger'[Key("ask", d, p)] # "absent"
        /\ ask[<<"draft", d, p>>] # "absent" => ledger'[Key("draft", d, p)] # "absent"
        /\ ledger'[Key("assign", d, p)] # "absent"
             => ask[<<"email", d, p>>] \notin {"absent", "sent"}
    <3>1. ASSUME ledger[Key("assign", d, p)] = "absent",
                 ledger'[Key("assign", d, p)] # "absent"
          PROVE  ask[<<"email", d, p>>] = "accepted"
      <4>1. /\ BeginAssignment(w) \/ RefuseAssignment(w)
            /\ job[w].duty = d /\ job[w].person = p
        BY <3>1, AssignReceipts
      <4> QED
        BY <4>1 DEF BeginAssignment, Begin, RefuseAssignment, RowsStand, ToAssign, AskRow
    <3> QED
      BY <1>1, <2>1, <3>1 DEF RowsReceipted
  <2>4. CASE UNCHANGED ask
    BY <2>3, <2>4
  <2>5. ASSUME NEW k \in Kinds, OpensRow(w, k)
        PROVE  /\ ask'[<<"email", d, p>>] # "absent" => ledger'[Key("ask", d, p)] # "absent"
               /\ ask'[<<"draft", d, p>>] # "absent" => ledger'[Key("draft", d, p)] # "absent"
               /\ ledger'[Key("assign", d, p)] # "absent"
                    => ask'[<<"email", d, p>>] \notin {"absent", "sent"}
    <3>1. CASE k = "email"
      <4>1. ledger[AskKey(w)] = "open"
        BY <2>5, <3>1 DEF OpensRow, Receipted, Opened, CurrentKey
      <4> QED
        BY <2>1, <2>2, <2>3, <2>5, <3>1, <4>1
        DEF OpensRow, PutAskRow, Row, AskKey, Key, TypeOK, RowsReceipted
    <3>2. CASE k = "draft"
      <4>1. ledger[DraftKey(w)] = "open"
        BY <2>5, <3>2 DEF OpensRow, Receipted, Opened, CurrentKey
      <4> QED
        BY <2>1, <2>2, <2>3, <2>5, <3>2, <4>1
        DEF OpensRow, PutAskRow, Row, DraftKey, Key, TypeOK, RowsReceipted
    <3> QED
      BY <3>1, <3>2 DEF Kinds
  <2>6. ASSUME NEW a \in AskIds, NEW s \in Final, ClosesRow(w, a, s)
        PROVE  /\ ask'[<<"email", d, p>>] # "absent" => ledger'[Key("ask", d, p)] # "absent"
               /\ ask'[<<"draft", d, p>>] # "absent" => ledger'[Key("draft", d, p)] # "absent"
               /\ ledger'[Key("assign", d, p)] # "absent"
                    => ask'[<<"email", d, p>>] \notin {"absent", "sent"}
    <3>1. \A b \in AskIds : /\ ask'[b] # "absent" => ask[b] # "absent"
                            /\ ask'[b] \in {"absent", "sent"} => ask'[b] = ask[b]
      BY <2>6 DEF ClosesRow, PutAskRow, Final, TypeOK
    <3> QED
      BY <2>2, <2>3, <3>1
  <2> QED
    BY <2>4, <2>5, <2>6, RowMoves DEF RowMove
<1> QED
  BY <1>2 DEF RowsReceipted, Key

(* A step that goes on with the same duty and person.                       *)
LEMMA SamePair ==
  ASSUME TypeOK, NEW w \in Workers, NEW label, NEW j, Go(w, label, j),
         j.duty = job[w].duty, j.person = job[w].person
  PROVE  /\ pc'[w] = label /\ job'[w] = j
         /\ AskRow(w)' = AskRow(w) /\ DraftRow(w)' = DraftRow(w) /\ AssignKey(w)' = AssignKey(w)
BY GoMoves DEF AskRow, DraftRow, AssignKey

LEMMA RowsStandStep ==
  ASSUME OneAtATime, AloneInv, IInv', NEW w \in Workers, Doing(w)
  PROVE  RowsStand'
<1> USE DEF AloneInv, IInv, Goto
<1>1. Arrived(w)
  BY Arrives
<1>2. \A v \in Workers : v = w
  BY DEF OneAtATime
<1>3. \A d \in Duties, p \in People, k \in Kinds : <<k, d, p>> \in AskIds
  BY DEF AskIds
<1>4. ASSUME pc'[w] = "draft_put"
      PROVE  ask'[DraftRow(w)'] = "absent"
  <2>1. BeginDraft(w)
    BY <1>1, <1>4 DEF Arrived
  <2>2. /\ Go(w, "draft_put", job[w]) /\ UNCHANGED ask
        /\ ledger[DraftKey(w)] = "absent" /\ pc[w] = "draft_begin"
    BY <2>1 DEF BeginDraft, Begin
  <2>3. job[w].duty \in Duties /\ job[w].person \in People
    BY <2>2 DEF JobShape, Engaged, Labels
  <2>4. DraftRow(w)' = DraftRow(w) /\ ask[DraftRow(w)] = "absent"
    BY <2>2, <2>3, SamePair DEF RowsReceipted, DraftKey, DraftRow
  <2> QED
    BY <2>2, <2>4
<1>5. ASSUME pc'[w] = "ask_put"
      PROVE  ask'[AskRow(w)'] = "absent"
  <2>1. BeginAsk(w)
    BY <1>1, <1>5 DEF Arrived
  <2>2. /\ Go(w, "ask_put", job[w]) /\ UNCHANGED ask
        /\ ledger[AskKey(w)] = "absent" /\ pc[w] = "ask_begin"
    BY <2>1 DEF BeginAsk, Begin
  <2>3. job[w].duty \in Duties /\ job[w].person \in People
    BY <2>2 DEF JobShape, Engaged, Labels
  <2>4. AskRow(w)' = AskRow(w) /\ ask[AskRow(w)] = "absent"
    BY <2>2, <2>3, SamePair DEF RowsReceipted, AskKey, AskRow
  <2> QED
    BY <2>2, <2>4
<1>6. ASSUME pc'[w] \in {"ask_send", "ask_mark", "ask_undo"}
      PROVE  ask'[AskRow(w)'] = "sent"
  <2>1. CASE PutAsk(w)
    <3>1. /\ Go(w, "ask_send", job[w]) /\ PutAskRow(AskRow(w), "sent")
          /\ pc[w] = "ask_put"
      BY <2>1 DEF PutAsk
    <3>2. AskRow(w) \in AskIds
      BY <1>3, <3>1 DEF AskRow, JobShape, Engaged, Labels, Kinds
    <3>3. AskRow(w)' = AskRow(w)
      BY <3>1, SamePair
    <3> QED
      BY <3>1, <3>2, <3>3 DEF PutAskRow, TypeOK
  <2>2. ASSUME NEW delivery \in Deliveries, SendAsk(w, delivery)
        PROVE  ask'[AskRow(w)'] = "sent"
    <3>1. PICK v : /\ Go(w, "ask_mark", [job[w] EXCEPT !.verdict = v])
                   /\ UNCHANGED ask /\ pc[w] = "ask_send"
      BY <2>2 DEF SendAsk, store
    <3>2. /\ [job[w] EXCEPT !.verdict = v].duty = job[w].duty
          /\ [job[w] EXCEPT !.verdict = v].person = job[w].person
      BY DEF TypeOK, Job
    <3>3. AskRow(w)' = AskRow(w)
      BY <3>1, <3>2, SamePair
    <3> QED
      BY <3>1, <3>3 DEF RowsStand
  <2>3. CASE MarkAsk(w)
    <3>1. /\ \E label : Go(w, label, job[w])
          /\ UNCHANGED ask /\ pc[w] = "ask_mark"
      BY <2>3 DEF MarkAsk, MarkExecuted
    <3>2. AskRow(w)' = AskRow(w)
      BY <3>1, SamePair
    <3> QED
      BY <3>1, <3>2 DEF RowsStand
  <2> QED
    BY <1>1, <1>6, <2>1, <2>2, <2>3 DEF Arrived
<1>7. ASSUME pc'[w] \in Responding
      PROVE  ask'[AskRow(w)'] = "sent"
  <2>1. CASE ReadRosterForAnswer(w)
    <3>1. PICK v : /\ Go(w, "respond_put", [job[w] EXCEPT !.verdict = v])
                   /\ UNCHANGED ask /\ pc[w] = "respond"
      BY <2>1 DEF ReadRosterForAnswer, store
    <3>2. /\ [job[w] EXCEPT !.verdict = v].duty = job[w].duty
          /\ [job[w] EXCEPT !.verdict = v].person = job[w].person
      BY DEF TypeOK, Job
    <3>3. AskRow(w)' = AskRow(w)
      BY <3>1, <3>2, SamePair
    <3> QED
      BY <3>1, <3>3 DEF RowsStand, Responding
  <2>2. ASSUME NEW d \in Duties, NEW p \in People, NEW accept \in BOOLEAN,
               TapLink(w, d, p, accept)
        PROVE  ask'[AskRow(w)'] = "sent"
    <3>1. PICK label, v :
            Go(w, label, [NoJob EXCEPT !.duty = d, !.person = p, !.verdict = v])
      BY <2>2 DEF TapLink
    <3>2. job'[w] = [NoJob EXCEPT !.duty = d, !.person = p, !.verdict = v]
      BY <3>1, GoMoves
    <3>3. job'[w].duty = d /\ job'[w].person = p
      BY <3>2 DEF NoJob
    <3> QED
      BY <2>2, <3>3 DEF TapLink, AskRow, store
  <2> QED
    BY <1>1, <1>7, <2>1, <2>2 DEF Arrived
<1>8. ASSUME pc'[w] \in ToAssign
      PROVE  ask'[AskRow(w)'] = "accepted"
  <2>1. CASE PutAnswer(w)
    <3>1. pc[w] = "respond_put" /\ PutAskRow(AskRow(w), job[w].verdict)
      BY <2>1 DEF PutAnswer
    <3>2. job[w].verdict = "accepted" /\ Go(w, "assign", job[w])
      <4>1. job[w].verdict # "accepted" => pc'[w] = "idle"
        BY <2>1, GoMoves DEF PutAnswer
      <4> QED
        BY <1>8, <2>1, <4>1 DEF PutAnswer, ToAssign
    <3>3. AskRow(w) \in AskIds
      BY <1>3, <3>1 DEF AskRow, JobShape, Engaged, Labels, Kinds
    <3>4. AskRow(w)' = AskRow(w)
      BY <3>2, SamePair
    <3> QED
      BY <3>1, <3>2, <3>3, <3>4 DEF PutAskRow, TypeOK
  <2>2. CASE AuthorizeAssignment(w) \/ BeginAssignment(w)
    <3>1. /\ \E label : Go(w, label, job[w])
          /\ UNCHANGED ask /\ pc[w] \in {"assign", "assign_begin"}
      BY <2>2 DEF AuthorizeAssignment, BeginAssignment, Begin, store
    <3>2. AskRow(w)' = AskRow(w)
      BY <3>1, SamePair
    <3> QED
      BY <3>1, <3>2 DEF RowsStand, ToAssign
  <2> QED
    BY <1>1, <1>8, <2>1, <2>2 DEF Arrived, ToAssign
<1>9. ASSUME pc'[w] \in ToAssign \ {"assign_write"}
      PROVE  ledger'[AssignKey(w)'] = "absent"
  <2>1. CASE PutAnswer(w)
    <3>1. pc[w] = "respond_put" /\ UNCHANGED ledger
      BY <2>1 DEF PutAnswer
    <3>2. Go(w, "assign", job[w])
      <4>1. job[w].verdict # "accepted" => pc'[w] = "idle"
        BY <2>1, GoMoves DEF PutAnswer
      <4> QED
        BY <1>9, <2>1, <4>1 DEF PutAnswer, ToAssign
    <3>3. job[w].duty \in Duties /\ job[w].person \in People /\ ask[AskRow(w)] = "sent"
      BY <3>1 DEF JobShape, Engaged, Labels, RowsStand, Responding
    <3>4. AssignKey(w)' = AssignKey(w) /\ ledger[AssignKey(w)] = "absent"
      BY <3>2, <3>3, SamePair DEF RowsReceipted, AskRow, AssignKey
    <3> QED
      BY <3>1, <3>4
  <2>2. CASE AuthorizeAssignment(w)
    <3>1. /\ \E label : Go(w, label, job[w])
          /\ UNCHANGED ledger /\ pc[w] = "assign"
      BY <2>2 DEF AuthorizeAssignment, store
    <3>2. AssignKey(w)' = AssignKey(w)
      BY <3>1, SamePair
    <3> QED
      BY <3>1, <3>2 DEF RowsStand, ToAssign
  <2> QED
    BY <1>1, <1>9, <2>1, <2>2 DEF Arrived, ToAssign
<1>10. ASSUME pc'[w] \in {"expire", "supersede"}, NEW a \in job'[w].asks
       PROVE  ask'[a] = "sent"
  <2>1. CASE StartSweep(w)
    <3>1. job'[w].asks = {b \in lapsed : ask[b] = "sent"}
      <4>1. job'[w] = [NoJob EXCEPT !.asks = {b \in lapsed : ask[b] = "sent"}]
        BY <2>1, GoMoves DEF StartSweep
      <4> QED
        BY <4>1 DEF NoJob
    <3> QED
      BY <1>10, <2>1, <3>1 DEF StartSweep, store
  <2>2. CASE ListOtherAsks(w)
    <3>1. \A b \in job'[w].asks : ask[b] = "sent"
      BY <2>2, GoMoves DEF ListOtherAsks, TypeOK, Job
    <3> QED
      BY <1>10, <2>2, <3>1 DEF ListOtherAsks, store
  <2>3. ASSUME NEW b \in AskIds, ExpireLapsed(w, b) \/ SupersedeOtherAsk(w, b)
        PROVE  ask'[a] = "sent"
    <3>1. /\ pc[w] \in {"expire", "supersede"}
          /\ job'[w] = [job[w] EXCEPT !.asks = @ \ {b}]
          /\ \E s : PutAskRow(b, s)
      BY <2>3, GoMoves DEF ExpireLapsed, SupersedeOtherAsk
    <3>2. a \in job[w].asks /\ a # b /\ a \in AskIds
      BY <1>10, <3>1 DEF TypeOK, Job
    <3>3. ask'[a] = ask[a]
      BY <3>1, <3>2 DEF PutAskRow, TypeOK
    <3> QED
      BY <3>1, <3>2, <3>3 DEF RowsStand
  <2> QED
    BY <1>1, <1>10, <2>1, <2>2, <2>3 DEF Arrived
<1> QED
  BY <1>2, <1>4, <1>5, <1>6, <1>7, <1>8, <1>9, <1>10 DEF RowsStand

LEMMA ChoiceStandsStep ==
  ASSUME OneAtATime, AloneInv, NEW w \in Workers, Doing(w)
  PROVE  ChoiceStands'
<1> USE DEF AloneInv, IInv, Goto
<1>1. Arrived(w) /\ \A v \in Workers : v = w
  BY Arrives DEF OneAtATime
<1> SUFFICES ASSUME pc'[w] \in Choosing
             PROVE  /\ ~OpenAskFor(job[w].duty)'
                    /\ ~OpenAskElsewhere(job[w].person)'
                    /\ ~DoubleBooked(job[w].duty, job[w].person)'
                    /\ AsksThisWeek(job[w].person)' < WeeklyAsks
  BY <1>1 DEF ChoiceStands
<1>2. ASSUME NEW d \in Duties, NEW p \in People,
             job'[w].duty = d, job'[w].person = p,
             UNCHANGED <<ask, lapsed, assigned>>,
             ~OpenAskFor(d), ~OpenAskElsewhere(p), ~DoubleBooked(d, p),
             AsksThisWeek(p) < WeeklyAsks
      PROVE  /\ ~OpenAskFor(job[w].duty)'
             /\ ~OpenAskElsewhere(job[w].person)'
             /\ ~DoubleBooked(job[w].duty, job[w].person)'
             /\ AsksThisWeek(job[w].person)' < WeeklyAsks
  BY <1>2 DEF OpenAskFor, OpenAskElsewhere, IsOpen, DoubleBooked, AsksThisWeek
<1>3. ASSUME NEW d \in Duties, NEW p \in People, ChooseCandidate(w, d, p)
      PROVE  /\ job'[w].duty = d /\ job'[w].person = p
             /\ UNCHANGED <<ask, lapsed, assigned>>
             /\ ~OpenAskFor(d) /\ ~OpenAskElsewhere(p) /\ ~DoubleBooked(d, p)
             /\ AsksThisWeek(p) < WeeklyAsks
  <2>1. \E label, v : Go(w, label, AskJob(w, d, p, v))
    BY <1>3 DEF ChooseCandidate
  <2>2. \E v : job'[w] = AskJob(w, d, p, v)
    BY <2>1, GoMoves
  <2>3. job'[w].duty = d /\ job'[w].person = p
    BY <2>2 DEF AskJob, NoJob
  <2>4. p \in Shortlist(d) /\ ~OpenAskFor(d) /\ UNCHANGED <<ask, lapsed, assigned>>
    BY <1>3 DEF ChooseCandidate, store, world
  <2>5. Eligible(d, p, BestAvailableAction)
    BY <2>4 DEF Shortlist
  <2> QED
    BY <2>3, <2>4, <2>5 DEF Eligible
<1>4. CASE RefuseSend(w) \/ BeginDraft(w) \/ BeginAsk(w)
  <2>1. /\ pc[w] \in Choosing /\ UNCHANGED <<ask, lapsed, assigned>>
        /\ job'[w].duty = job[w].duty /\ job'[w].person = job[w].person
    <3>1. CASE RefuseSend(w)
      <4>1. CASE job[w].verdict = "draft"
        <5>1. Go(w, "draft_begin", [job[w] EXCEPT !.verdict = "absent"]) /\ pc[w] = "refuse"
          BY <3>1, <4>1 DEF RefuseSend
        <5>2. job'[w] = [job[w] EXCEPT !.verdict = "absent"]
          BY <5>1, GoMoves
        <5> QED
          BY <3>1, <5>1, <5>2 DEF RefuseSend, TypeOK, Job, Choosing, world
      <4>2. CASE job[w].verdict # "draft"
        <5>1. pc'[w] \in Resting
          BY <3>1, <4>2, SettleRests DEF RefuseSend
        <5> QED
          BY <5>1 DEF Resting, Choosing
      <4> QED
        BY <4>1, <4>2
    <3>2. CASE BeginDraft(w) \/ BeginAsk(w)
      BY <3>2, GoMoves DEF BeginDraft, BeginAsk, Begin, Choosing, world
    <3> QED
      BY <1>4, <3>1, <3>2
  <2>2. job[w].duty \in Duties /\ job[w].person \in People
    BY <2>1 DEF JobShape, Choosing, Engaged, Labels
  <2> QED
    BY <1>2, <2>1, <2>2 DEF ChoiceStands
<1> QED
  BY <1>1, <1>2, <1>3, <1>4 DEF Arrived, Choosing

(* The step by which a worker came to hold somebody's acceptance.           *)
LEMMA AcceptingSteps ==
  ASSUME AloneInv, NEW w \in Workers, Doing(w), Accepting(w)'
  PROVE  /\ UNCHANGED <<assigned, lapsed>>
         /\ \/ /\ Accepting(w) /\ AskRow(w)' = AskRow(w)
               /\ job'[w].duty = job[w].duty /\ job'[w].person = job[w].person
               /\ UNCHANGED ask \/ \E s \in Final : PutAskRow(AskRow(w), s)
               /\ pc'[w] # "respond"
               /\ \/ pc[w] # "respond"
                  \/ assigned[job[w].duty] \in {None, job[w].person}
            \/ /\ pc'[w] = "respond" /\ UNCHANGED ask
               /\ job'[w].duty \in Duties /\ job'[w].person \in People
               /\ IsOpen(AskRow(w)')
<1> USE DEF AloneInv, IInv, Goto
<1>1. Arrived(w)
  BY Arrives
<1>2. CASE ReadRosterForAnswer(w)
  <2>1. PICK v : /\ Go(w, "respond_put", [job[w] EXCEPT !.verdict = v])
                 /\ UNCHANGED <<store, world>> /\ pc[w] = "respond"
                 /\ v = IF job[w].verdict = "accepted"
                           /\ assigned[job[w].duty] \notin {None, job[w].person}
                          THEN "superseded" ELSE job[w].verdict
    BY <1>2 DEF ReadRosterForAnswer
  <2>2. pc'[w] = "respond_put" /\ job'[w] = [job[w] EXCEPT !.verdict = v]
    BY <2>1, GoMoves
  <2>3. /\ job'[w].duty = job[w].duty /\ job'[w].person = job[w].person
        /\ job'[w].verdict = v
    BY <2>2 DEF TypeOK, Job
  <2>4. v = "accepted"
    BY <2>2, <2>3 DEF Accepting, ToAssign, Responding
  <2>5. job[w].verdict = "accepted" /\ assigned[job[w].duty] \in {None, job[w].person}
    BY <2>1, <2>4
  <2>6. UNCHANGED <<assigned, lapsed, ask>>
    BY <2>1 DEF store, world
  <2> QED
    BY <2>1, <2>2, <2>3, <2>5, <2>6 DEF Accepting, Responding, AskRow
<1>3. ASSUME NEW d \in Duties, NEW p \in People, NEW accept \in BOOLEAN,
             TapLink(w, d, p, accept)
      PROVE  /\ pc'[w] = "respond" /\ UNCHANGED <<assigned, lapsed, ask>>
             /\ job'[w].duty \in Duties /\ job'[w].person \in People
             /\ IsOpen(AskRow(w)')
  <2> DEFINE a == <<"email", d, p>>
  <2>1. PICK label : /\ Go(w, label, [NoJob EXCEPT !.duty = d, !.person = p,
                                                    !.verdict = Verdict(a, accept)])
                     /\ label = IF a \in lapsed THEN "respond_put" ELSE "respond"
    BY <1>3 DEF TapLink
  <2>2. /\ pc'[w] = label
        /\ job'[w] = [NoJob EXCEPT !.duty = d, !.person = p, !.verdict = Verdict(a, accept)]
    BY <2>1, GoMoves
  <2>3. job'[w].duty = d /\ job'[w].person = p /\ job'[w].verdict = Verdict(a, accept)
    BY <2>2 DEF NoJob
  <2>4. a \notin lapsed
    BY <2>1, <2>2, <2>3 DEF Accepting, ToAssign, Responding, Verdict
  <2> QED
    BY <1>3, <2>1, <2>2, <2>3, <2>4 DEF TapLink, IsOpen, AskRow, store
<1>4. CASE PutAnswer(w)
  <2>1. pc[w] = "respond_put" /\ UNCHANGED <<assigned, lapsed>>
    BY <1>4 DEF PutAnswer, world
  <2>2. job[w].verdict = "accepted" /\ Go(w, "assign", job[w])
    <3>1. job[w].verdict # "accepted" => pc'[w] = "idle"
      BY <1>4, GoMoves DEF PutAnswer
    <3> QED
      BY <1>4, <3>1 DEF PutAnswer, Accepting, ToAssign, Responding
  <2>3. pc'[w] = "assign" /\ job'[w] = job[w] /\ AskRow(w)' = AskRow(w)
    BY <2>2, SamePair
  <2>4. \E s \in Final : PutAskRow(AskRow(w), s)
    BY <1>4, <2>2 DEF PutAnswer, Final
  <2> QED
    BY <2>1, <2>2, <2>3, <2>4 DEF Accepting, Responding
<1>5. CASE AuthorizeAssignment(w) \/ BeginAssignment(w)
  <2>1. /\ \E label : Go(w, label, job[w]) /\ label \in ToAssign
        /\ UNCHANGED <<ask, assigned, lapsed>> /\ pc[w] \in {"assign", "assign_begin"}
    BY <1>5 DEF AuthorizeAssignment, BeginAssignment, Begin, store, world, ToAssign
  <2>2. AskRow(w)' = AskRow(w) /\ pc'[w] \in ToAssign /\ job'[w] = job[w]
    BY <2>1, SamePair
  <2> QED
    BY <2>1, <2>2 DEF Accepting, ToAssign
<1>6. \/ ReadRosterForAnswer(w) \/ PutAnswer(w) \/ AuthorizeAssignment(w)
      \/ BeginAssignment(w)
      \/ \E d \in Duties, p \in People, accept \in BOOLEAN : TapLink(w, d, p, accept)
  BY <1>1 DEF Arrived, Accepting, ToAssign
<1> QED
  BY <1>2, <1>3, <1>4, <1>5, <1>6

LEMMA HolderStandsStep ==
  ASSUME OneAtATime, AloneInv, IInv', NEW w \in Workers, Doing(w)
  PROVE  HolderStands'
<1> USE DEF AloneInv, IInv, Goto
<1>1. Arrived(w) /\ \A v \in Workers : v = w
  BY Arrives DEF OneAtATime
<1>2. ASSUME Accepting(w)', pc'[w] # "respond"
      PROVE  assigned'[job'[w].duty] \in {None, job'[w].person}
  BY <1>2, AcceptingSteps DEF HolderStands
<1>3. ASSUME pc'[w] \in {"vacate_begin", "vacate_write"}
      PROVE  assigned'[job'[w].duty] = job'[w].person
  <2>1. ASSUME NEW d \in Duties, NEW p \in People, NEW text \in Texts,
               ReceiveNotice(w, d, p, text)
        PROVE  assigned'[job'[w].duty] = job'[w].person
    <3>1. PICK label : /\ Go(w, label, [NoJob EXCEPT !.duty = d, !.person = p, !.text = text])
                       /\ label = IF MayVacate(d, p) THEN "vacate_begin" ELSE "vacate_refuse"
                       /\ UNCHANGED assigned
      BY <2>1 DEF ReceiveNotice, store
    <3>2. /\ pc'[w] = label
          /\ job'[w] = [NoJob EXCEPT !.duty = d, !.person = p, !.text = text]
      BY <3>1, GoMoves
    <3>3. job'[w].duty = d /\ job'[w].person = p
      BY <3>2 DEF NoJob
    <3>4. MayVacate(d, p)
      BY <1>3, <3>1, <3>2
    <3> QED
      BY <3>1, <3>3, <3>4 DEF MayVacate
  <2>2. CASE BeginWithdrawal(w)
    <3>1. Go(w, "vacate_write", job[w]) /\ UNCHANGED assigned /\ pc[w] = "vacate_begin"
      BY <2>2 DEF BeginWithdrawal, Begin
    <3>2. job'[w] = job[w]
      BY <3>1, GoMoves
    <3> QED
      BY <3>1, <3>2 DEF HolderStands
  <2> QED
    BY <1>1, <1>3, <2>1, <2>2 DEF Arrived
<1> QED
  BY <1>1, <1>2, <1>3 DEF HolderStands

(* A row that is open after a step was open before it, or the worker opened *)
(* it for the person it had chosen.                                         *)
LEMMA OpenRows ==
  ASSUME AloneInv, NEW w \in Workers, Doing(w)
  PROVE  \/ \A a \in AskIds : IsOpen(a)' => IsOpen(a)
         \/ \E k \in Kinds :
              /\ OpensRow(w, k) /\ pc[w] \in Choosing
              /\ Row(w, k) \in AskIds
              /\ \A a \in AskIds : IsOpen(a)' => IsOpen(a) \/ a = Row(w, k)
<1> USE DEF AloneInv, IInv
<1>1. UNCHANGED lapsed /\ RowMove(w)
  BY Writes, RowMoves DEF Wrote
<1>2. ASSUME NEW k \in Kinds, OpensRow(w, k)
      PROVE  /\ pc[w] \in Choosing
             /\ Row(w, k) \in AskIds
             /\ \A a \in AskIds : IsOpen(a)' => IsOpen(a) \/ a = Row(w, k)
  BY <1>1, <1>2 DEF OpensRow, PutAskRow, Row, AskIds, TypeOK, IsOpen, Choosing
<1>3. ASSUME NEW b \in AskIds, NEW s \in Final, ClosesRow(w, b, s)
      PROVE  \A a \in AskIds : IsOpen(a)' => IsOpen(a)
  BY <1>1, <1>3 DEF ClosesRow, PutAskRow, TypeOK, IsOpen, Final
<1> QED
  BY <1>1, <1>2, <1>3 DEF RowMove, IsOpen

LEMMA OneOpenAskStep ==
  ASSUME AloneInv, NEW w \in Workers, Doing(w)
  PROVE  OneOpenAskPerDuty' /\ OneOpenAskPerPerson'
<1> USE DEF AloneInv, IInv
<1>1. \A d \in Duties, p \in People, k \in Kinds : <<k, d, p>> \in AskIds
  BY DEF AskIds
<1>2. CASE \A a \in AskIds : IsOpen(a)' => IsOpen(a)
  <2>1. OneOpenAskPerDuty'
    BY <1>1, <1>2 DEF OneOpenAskPerDuty, Kinds
  <2>2. OneOpenAskPerPerson'
    BY <1>2 DEF OneOpenAskPerPerson
  <2> QED
    BY <2>1, <2>2
<1>3. ASSUME NEW k \in Kinds, OpensRow(w, k), pc[w] \in Choosing, Row(w, k) \in AskIds,
             \A a \in AskIds : IsOpen(a)' => IsOpen(a) \/ a = Row(w, k)
      PROVE  OneOpenAskPerDuty' /\ OneOpenAskPerPerson'
  <2>1. PICK d \in Duties, p \in People :
          job[w].duty = d /\ job[w].person = p /\ Row(w, k) = <<k, d, p>>
    BY <1>3 DEF OpensRow, Row
  <2>2. ~OpenAskFor(d) /\ ~OpenAskElsewhere(p)
    BY <1>3, <2>1 DEF ChoiceStands
  <2>3. \A q \in People : ~IsOpen(<<"email", d, q>>)
    BY <2>2 DEF OpenAskFor
  <2>4. \A a \in AskIds : a[3] = p => ~IsOpen(a)
    BY <2>2 DEF OpenAskElsewhere, AskIds
  <2>5. OneOpenAskPerDuty'
    <3> SUFFICES ASSUME NEW e \in Duties, NEW q \in People, NEW r \in People,
                        IsOpen(<<"email", e, q>>)', IsOpen(<<"email", e, r>>)'
                 PROVE  q = r
      BY DEF OneOpenAskPerDuty
    <3>1. <<"email", e, q>> \in AskIds /\ <<"email", e, r>> \in AskIds
      BY <1>1 DEF Kinds
    <3>2. CASE e = d
      BY <1>3, <2>1, <2>3, <3>1, <3>2
    <3>3. CASE e # d
      BY <1>3, <2>1, <3>1, <3>3 DEF OneOpenAskPerDuty
    <3> QED
      BY <3>2, <3>3
  <2>6. OneOpenAskPerPerson'
    <3> SUFFICES ASSUME NEW a \in AskIds, NEW b \in AskIds, a[3] = b[3],
                        IsOpen(a)', IsOpen(b)'
                 PROVE  a = b
      BY DEF OneOpenAskPerPerson
    <3>1. CASE a[3] = p
      BY <1>3, <2>4, <3>1
    <3>2. CASE a[3] # p
      BY <1>3, <2>1, <3>2 DEF OneOpenAskPerPerson
    <3> QED
      BY <3>1, <3>2
  <2> QED
    BY <2>5, <2>6
<1> QED
  BY <1>2, <1>3, OpenRows

LEMMA BookableStep ==
  ASSUME OneAtATime, AloneInv, IInv', [Next]_vars, NEW w \in Workers, Doing(w)
  PROVE  Bookable'
<1> USE DEF AloneInv, IInv
<1>1. \A v \in Workers : v = w
  BY DEF OneAtATime
<1>2. \A d \in Duties, p \in People, k \in Kinds : <<k, d, p>> \in AskIds
  BY DEF AskIds
<1>3. ASSUME NEW d \in Duties, NEW p \in People, IsOpen(<<"email", d, p>>)'
      PROVE  ~DoubleBooked(d, p)'
  <2>1. <<"email", d, p>> \in AskIds
    BY <1>2 DEF Kinds
  <2>2. CASE UNCHANGED assigned
    <3>1. ~DoubleBooked(d, p)
      <4>1. CASE IsOpen(<<"email", d, p>>)
        BY <4>1 DEF Bookable
      <4>2. CASE ~IsOpen(<<"email", d, p>>)
        <5>1. PICK k \in Kinds : OpensRow(w, k) /\ pc[w] \in Choosing
                                 /\ <<"email", d, p>> = Row(w, k)
          BY <1>3, <2>1, <4>2, OpenRows
        <5>2. job[w].duty = d /\ job[w].person = p
          BY <5>1 DEF Row
        <5> QED
          BY <5>1, <5>2 DEF ChoiceStands
      <4> QED
        BY <4>1, <4>2
    <3> QED
      BY <2>2, <3>1 DEF DoubleBooked
  <2>3. CASE WriteAssignment(w)
    <3>1. /\ pc[w] = "assign_write" /\ UNCHANGED <<ask, lapsed>>
          /\ assigned' = [assigned EXCEPT ![job[w].duty] = job[w].person]
      BY <2>3 DEF WriteAssignment, world
    <3>2. IsOpen(<<"email", d, p>>) /\ Accepting(w) /\ ask[AskRow(w)] = "accepted"
      BY <1>3, <3>1 DEF IsOpen, Accepting, ToAssign, RowsStand
    <3>3. p # job[w].person
      <4>1. <<"email", d, p>>[3] = p
        OBVIOUS
      <4> QED
        BY <2>1, <3>2, <4>1 DEF Bookable, IsOpen
    <3>4. ~DoubleBooked(d, p)
      BY <3>2 DEF Bookable
    <3> QED
      BY <3>1, <3>3, <3>4 DEF DoubleBooked, TypeOK
  <2>4. CASE WriteVacancy(w)
    <3>1. /\ UNCHANGED <<ask, lapsed>>
          /\ assigned' = [assigned EXCEPT ![job[w].duty] = None]
      BY <2>4 DEF WriteVacancy, world
    <3>2. ~DoubleBooked(d, p) /\ p # None
      BY <1>3, <3>1, ConstantsAssumption DEF Bookable, IsOpen
    <3> QED
      BY <3>1, <3>2 DEF DoubleBooked, TypeOK
  <2> QED
    BY <2>2, <2>3, <2>4, Writes DEF Wrote
<1>4. ASSUME Accepting(w)'
      PROVE  /\ ~DoubleBooked(job[w].duty, job[w].person)'
             /\ \A a \in AskIds : a[3] = job'[w].person /\ IsOpen(a)' => a = AskRow(w)'
  <2>1. UNCHANGED <<assigned, lapsed>>
    BY <1>4, AcceptingSteps
  <2>2. CASE /\ Accepting(w) /\ AskRow(w)' = AskRow(w)
             /\ job'[w].duty = job[w].duty /\ job'[w].person = job[w].person
             /\ UNCHANGED ask \/ \E s \in Final : PutAskRow(AskRow(w), s)
    <3>1. \A a \in AskIds : IsOpen(a)' => IsOpen(a)
      BY <2>1, <2>2 DEF PutAskRow, Final, IsOpen, TypeOK
    <3>2. ~DoubleBooked(job[w].duty, job[w].person)
      BY <2>2 DEF Bookable
    <3>3. ~DoubleBooked(job[w].duty, job[w].person)'
      BY <2>1, <2>2, <3>2 DEF DoubleBooked
    <3> QED
      BY <2>2, <3>1, <3>3 DEF Bookable
  <2>3. CASE /\ UNCHANGED ask
             /\ job'[w].duty \in Duties /\ job'[w].person \in People
             /\ IsOpen(AskRow(w)')
    <3>1. PICK d \in Duties, p \in People :
            job'[w].duty = d /\ job'[w].person = p /\ AskRow(w)' = <<"email", d, p>>
      BY <2>3 DEF AskRow
    <3>2. <<"email", d, p>> \in AskIds
      BY <1>2 DEF Kinds
    <3>3. ~DoubleBooked(d, p)
      BY <2>3, <3>1 DEF Bookable
    <3>4. ~DoubleBooked(job[w].duty, job[w].person)'
      BY <2>1, <3>1, <3>3 DEF DoubleBooked
    <3>5. \A a \in AskIds : a[3] = p /\ IsOpen(a)' => a = <<"email", d, p>>
      BY <2>1, <2>3, <3>1, <3>2 DEF OneOpenAskPerPerson, IsOpen
    <3> QED
      BY <3>1, <3>4, <3>5
  <2> QED
    BY <1>4, <2>2, <2>3, AcceptingSteps
<1> QED
  BY <1>1, <1>3, <1>4 DEF Bookable

LEMMA AskedStep ==
  ASSUME AloneInv, NEW w \in Workers, Doing(w)
  PROVE  Counted'
<1> USE DEF AloneInv, IInv
<1>1. \A d \in Duties, p \in People, k \in Kinds : <<k, d, p>> \in AskIds
  BY DEF AskIds
<1>2. \A p \in People : Cardinality(Asked(p)) \in Nat /\ WeeklyAsks \in Nat
  BY FS_CardinalityType, ConstantsAssumption DEF Counted
<1>3. \A a \in AskIds : ask[a] # "absent" => ask'[a] # "absent"
  <2>1. ASSUME NEW k \in Kinds, OpensRow(w, k)
        PROVE  \A a \in AskIds : ask[a] # "absent" => ask'[a] # "absent"
    BY <2>1 DEF OpensRow, PutAskRow, TypeOK
  <2>2. ASSUME NEW b \in AskIds, NEW s \in Final, ClosesRow(w, b, s)
        PROVE  \A a \in AskIds : ask[a] # "absent" => ask'[a] # "absent"
    BY <2>2 DEF ClosesRow, PutAskRow, Final, TypeOK
  <2> QED
    BY <2>1, <2>2, RowMoves DEF RowMove
<1>4. ASSUME NEW p \in People
      PROVE  IsFiniteSet(Asked(p)') /\ Cardinality(Asked(p)') <= WeeklyAsks
  <2>1. CASE Asked(p)' = Asked(p)
    BY <2>1 DEF Counted
  <2>2. ASSUME OpensRow(w, "email"), job[w].person = p
        PROVE  IsFiniteSet(Asked(p)') /\ Cardinality(Asked(p)') <= WeeklyAsks
    <3>1. PICK d \in Duties : job[w].duty = d
      BY <2>2 DEF OpensRow
    <3>2. PutAskRow(<<"email", d, p>>, "sent") /\ <<"email", d, p>> \in AskIds
      BY <1>1, <2>2, <3>1 DEF OpensRow, Row, Kinds
    <3>3. Asked(p)' = Asked(p) \cup {d}
      <4>1. ask'[<<"email", d, p>>] = "sent"
        BY <3>2 DEF PutAskRow, TypeOK
      <4>2. \A e \in Duties : e # d => ask'[<<"email", e, p>>] = ask[<<"email", e, p>>]
        BY <1>1, <3>2 DEF PutAskRow, TypeOK, Kinds
      <4> QED
        BY <4>1, <4>2 DEF Asked
    <3>4. Cardinality(Asked(p)) < WeeklyAsks
      <4>1. AsksThisWeek(p) < WeeklyAsks
        BY <2>2 DEF OpensRow, ChoiceStands, Choosing
      <4> QED
        BY <4>1 DEF AsksThisWeek, Asked
    <3>5. /\ IsFiniteSet(Asked(p) \cup {d})
          /\ Cardinality(Asked(p) \cup {d}) \in {Cardinality(Asked(p)), Cardinality(Asked(p)) + 1}
      BY FS_AddElement DEF Counted
    <3> QED
      BY <1>2, <3>3, <3>4, <3>5
  <2>3. CASE UNCHANGED ask
    BY <2>1, <2>3 DEF Asked
  <2>4. ASSUME NEW k \in Kinds, OpensRow(w, k), k = "draft" \/ job[w].person # p
        PROVE  Asked(p)' = Asked(p)
    <3>1. \A d \in Duties : ask'[<<"email", d, p>>] = ask[<<"email", d, p>>]
      BY <1>1, <2>4 DEF OpensRow, Row, PutAskRow, TypeOK
    <3> QED
      BY <3>1 DEF Asked
  <2>5. ASSUME NEW b \in AskIds, NEW s \in Final, ClosesRow(w, b, s)
        PROVE  Asked(p)' = Asked(p)
    <3>1. \A a \in AskIds : ask'[a] # "absent" <=> ask[a] # "absent"
      BY <2>5 DEF ClosesRow, PutAskRow, Final, TypeOK
    <3>2. \A d \in Duties : <<"email", d, p>> \in AskIds
      BY <1>1 DEF Kinds
    <3> QED
      BY <3>1, <3>2 DEF Asked
  <2> QED
    BY <2>1, <2>2, <2>3, <2>4, <2>5, RowMoves DEF RowMove, Kinds
<1>5. ASSUME NEW d \in Duties, NEW p \in People, inbox'[<<d, p>>] > 0
      PROVE  ask'[<<"email", d, p>>] # "absent"
  <2>1. <<"email", d, p>> \in AskIds
    BY <1>1 DEF Kinds
  <2>2. CASE inbox[<<d, p>>] > 0
    BY <1>3, <2>1, <2>2 DEF Counted
  <2>3. ASSUME NEW delivery \in Deliveries, SendAsk(w, delivery), ~(inbox[<<d, p>>] > 0)
        PROVE  ask[<<"email", d, p>>] # "absent"
    <3>1. job[w].duty = d /\ job[w].person = p
      BY <1>5, <2>3 DEF SendAsk, TypeOK
    <3> QED
      BY <2>3, <3>1 DEF SendAsk, RowsStand, AskRow
  <2> QED
    BY <1>3, <1>5, <2>1, <2>2, <2>3, Writes DEF Wrote
<1> QED
  BY <1>4, <1>5 DEF Counted, Asked

LEMMA AloneStep ==
  ASSUME OneAtATime, AloneInv, IInv', [Next]_vars
  PROVE  AloneInv'
<1>1. CASE Calm
  BY <1>1, CalmStep DEF AloneInv
<1>2. ASSUME NEW w \in Workers, Doing(w)
      PROVE  AloneInv'
  BY <1>2, RowsReceiptedStep, RowsStandStep, ChoiceStandsStep, HolderStandsStep, BookableStep,
     AskedStep, OneOpenAskStep DEF AloneInv
<1> QED
  BY <1>1, <1>2, DoingOrCalm

LEMMA AloneInit ==
  ASSUME Init, IInv
  PROVE  AloneInv
<1>1. \A d \in Duties, p \in People, k \in Kinds : <<k, d, p>> \in AskIds
  BY DEF AskIds
<1>2. \A a \in AskIds : ask[a] = "absent" /\ ~IsOpen(a)
  BY DEF Init, IsOpen
<1>3. \A w \in Workers : pc[w] = "idle"
  BY DEF Init
<1>4. RowsReceipted
  <2>1. \A d \in Duties, p \in People : Key("assign", d, p) \in Keys
    BY DEF Key, Keys
  <2> QED
    BY <1>1, <1>2, <2>1 DEF Init, RowsReceipted, Kinds
<1>5. RowsStand /\ ChoiceStands /\ HolderStands
  BY <1>3 DEF RowsStand, ChoiceStands, HolderStands, Accepting, Responding, ToAssign, Choosing
<1>6. Bookable
  BY <1>1, <1>2, <1>3 DEF Bookable, Accepting, Responding, ToAssign, Kinds
<1>7. Counted
  <2>1. \A p \in People : Asked(p) = {}
    BY <1>1, <1>2 DEF Asked, Kinds
  <2>2. \A p \in People : IsFiniteSet(Asked(p)) /\ Cardinality(Asked(p)) <= WeeklyAsks
    <3>1. IsFiniteSet({}) /\ Cardinality({}) = 0
      BY FS_EmptySet
    <3>2. WeeklyAsks \in Nat
      BY ConstantsAssumption
    <3> QED
      BY <2>1, <3>1, <3>2
  <2> QED
    BY <2>2 DEF Init, Counted
<1>8. OneOpenAskPerDuty /\ OneOpenAskPerPerson
  BY <1>1, <1>2 DEF OneOpenAskPerDuty, OneOpenAskPerPerson, Kinds
<1> QED
  BY <1>4, <1>5, <1>6, <1>7, <1>8 DEF AloneInv

(* What a worker that is alone relies on at each of its steps.              *)
THEOREM AloneInvariant == ASSUME OneAtATime PROVE Spec => []AloneInv
<1>1. Init /\ IInv => AloneInv
  BY AloneInit
<1>2. AloneInv /\ IInv' /\ [Next]_vars => AloneInv'
  BY AloneStep
<1> QED
  BY <1>1, <1>2, Invariant, PTL DEF Spec

-----------------------------------------------------------------------------
(* While one operation runs at a time, one person at a time is asked about  *)
(* a duty (ask_next of core/fill.py), whatever dies half-way.               *)
THEOREM OnePersonAsked == ASSUME OneAtATime PROVE Spec => []OneOpenAskPerDuty
<1>1. AloneInv => OneOpenAskPerDuty
  BY DEF AloneInv
<1> QED
  BY <1>1, AloneInvariant, PTL

(* And nobody is waiting to answer two questions at once.                   *)
THEOREM OneQuestionAtOnce == ASSUME OneAtATime PROVE Spec => []OneOpenAskPerPerson
<1>1. AloneInv => OneOpenAskPerPerson
  BY DEF AloneInv
<1> QED
  BY <1>1, AloneInvariant, PTL

(* Nobody is mailed more often in a week than the organisation allows       *)
(* (max_asks_per_person_per_week): the snapshot the budget was read in is   *)
(* still true when the row is written.                                      *)
THEOREM BudgetIsKept == ASSUME OneAtATime PROVE Spec => []WithinBudget
<1>1. AloneInv => WithinBudget
  <2> SUFFICES ASSUME AloneInv, NEW p \in People
               PROVE  Cardinality({d \in Duties : inbox[<<d, p>>] > 0}) <= WeeklyAsks
    BY DEF WithinBudget
  <2> DEFINE mailed == {d \in Duties : inbox[<<d, p>>] > 0}
  <2>1. mailed \subseteq Asked(p)
    BY DEF AloneInv, Counted, Asked
  <2>2. IsFiniteSet(Asked(p)) /\ Cardinality(Asked(p)) <= WeeklyAsks
    BY DEF AloneInv, Counted
  <2>3. IsFiniteSet(mailed) /\ Cardinality(mailed) <= Cardinality(Asked(p))
    BY <2>1, <2>2, FS_Subset
  <2>4. Cardinality(mailed) \in Nat /\ Cardinality(Asked(p)) \in Nat /\ WeeklyAsks \in Nat
    BY <2>2, <2>3, FS_CardinalityType, ConstantsAssumption
  <2> QED
    BY <2>2, <2>3, <2>4
<1> QED
  BY <1>1, AloneInvariant, PTL

(* Nobody is taken off a duty but by their own withdrawal (R13): an         *)
(* acceptance is written over nobody, or over the volunteer.                *)
THEOREM OnlyTheirOwn == ASSUME OneAtATime PROVE Spec => ReleasesOwnCommitment
<1>1. AloneInv /\ [Next]_vars => [ReleaseStep]_vars
  <2> SUFFICES ASSUME AloneInv, [Next]_vars,
                      NEW d \in Duties, assigned[d] # None, assigned'[d] # assigned[d]
               PROVE  \E w \in Workers : WriteVacancy(w) /\ job[w].person = assigned[d]
    BY DEF ReleaseStep
  <2>1. PICK w \in Workers : WriteAssignment(w) \/ WriteVacancy(w)
    BY RosterSteps
  <2>2. CASE WriteAssignment(w)
    <3>1. assigned[job[w].duty] \in {None, job[w].person}
      BY <2>2 DEF WriteAssignment, AloneInv, HolderStands, Accepting, ToAssign
    <3> QED
      BY <2>2, <3>1 DEF WriteAssignment, AloneInv, IInv, TypeOK
  <2>3. CASE WriteVacancy(w)
    <3>1. assigned[job[w].duty] = job[w].person
      BY <2>3 DEF WriteVacancy, AloneInv, HolderStands
    <3>2. job[w].duty = d
      BY <2>3 DEF WriteVacancy, AloneInv, IInv, TypeOK
    <3> QED
      BY <2>3, <3>1, <3>2
  <2> QED
    BY <2>1, <2>2, <2>3
<1> QED
  BY <1>1, AloneInvariant, PTL DEF Spec, ReleasesOwnCommitment

(* Where windows that overlap do so both ways and the imported roster has   *)
(* nobody on two of them, nobody is ever put on two duties that overlap.    *)
THEOREM NobodyInTwoPlaces ==
  ASSUME OneAtATime,
         \A d, e \in Duties : <<d, e>> \in Overlaps => <<e, d>> \in Overlaps,
         \A d, e \in Duties : <<d, e>> \in Overlaps /\ d # e /\ InitialHolder[d] # None
                                => InitialHolder[d] # InitialHolder[e]
  PROVE  Spec => []NoDoubleBooking
<1>1. Init => NoDoubleBooking
  BY DEF Init, NoDoubleBooking
<1>2. AloneInv /\ NoDoubleBooking /\ [Next]_vars => NoDoubleBooking'
  <2> SUFFICES ASSUME AloneInv, NoDoubleBooking, [Next]_vars,
                      NEW d \in Duties, NEW e \in Duties,
                      <<d, e>> \in Overlaps, d # e, assigned'[d] # None
               PROVE  assigned'[d] # assigned'[e]
    BY DEF NoDoubleBooking
  <2>1. CASE UNCHANGED assigned
    BY <2>1 DEF NoDoubleBooking
  <2>2. ASSUME NEW w \in Workers, WriteAssignment(w)
        PROVE  assigned'[d] # assigned'[e]
    <3>1. ~DoubleBooked(job[w].duty, job[w].person)
      BY <2>2 DEF WriteAssignment, AloneInv, Bookable, Accepting, ToAssign
    <3>2. CASE job[w].duty = d
      BY <2>2, <3>1, <3>2 DEF WriteAssignment, DoubleBooked, AloneInv, IInv, TypeOK
    <3>3. CASE job[w].duty = e
      BY <2>2, <3>1, <3>3 DEF WriteAssignment, DoubleBooked, AloneInv, IInv, TypeOK
    <3>4. CASE job[w].duty \notin {d, e}
      BY <2>2, <3>4 DEF WriteAssignment, NoDoubleBooking, AloneInv, IInv, TypeOK
    <3> QED
      BY <3>2, <3>3, <3>4
  <2>3. ASSUME NEW w \in Workers, WriteVacancy(w)
        PROVE  assigned'[d] # assigned'[e]
    BY <2>3 DEF WriteVacancy, NoDoubleBooking, AloneInv, IInv, TypeOK
  <2> QED
    BY <2>1, <2>2, <2>3, RosterSteps
<1> QED
  BY <1>1, <1>2, AloneInvariant, PTL DEF Spec

-----------------------------------------------------------------------------
(* As long as nobody dies either. *)


(* What a worker does on its way from a withdrawal to its row.              *)
LeaverStep(w) ==
  \/ WriteVacancy(w) \/ MarkVacancy(w) \/ CloseVacancy(w) \/ RecordDeparture(w)
  \/ ListOtherAsks(w) \/ EndSupersede(w) \/ \E a \in AskIds : SupersedeOtherAsk(w, a)

LEMMA LivingSteps ==
  ASSUME NobodyDies, TypeOK, NEW w \in Workers, Doing(w)
  PROVE  /\ pc[w] \in {"vacate_write", "vacate_mark", "vacate_close", "others", "supersede",
                       "depart"} => LeaverStep(w)
         /\ pc[w] \in ToAssign =>
              \/ AuthorizeAssignment(w) \/ RefuseAssignment(w) \/ BeginAssignment(w)
              \/ ReplayAssignment(w) \/ WriteAssignment(w)
<1> DEFINE chain == {"vacate_write", "vacate_mark", "vacate_close", "others", "supersede",
                     "depart"}
<1>1. ~Crash(w)
  BY ConstantsAssumption DEF NobodyDies, Crash, TypeOK
<1>2. CASE Choose(w) \/ SweepStep(w) \/ Request(w)
  <2>1. pc[w] \in {"idle", "sweep", "expire"}
    BY <1>2 DEF Choose, AskNobody, ChooseCandidate, MayAskAbout, SweepStep, FindGaps,
       ExpireLapsed, Request, StartSweep, TapLink, ReceiveNotice
  <2> QED
    BY <2>1 DEF ToAssign
<1>3. CASE AskStep(w)
  <2>1. pc[w] \in {"refuse", "draft_begin", "draft_put", "draft_mark", "draft_close",
                   "ask_begin", "ask_put", "ask_send", "ask_mark", "ask_undo", "ask_fail",
                   "ask_close"}
    BY <1>3 DEF AskStep, RefuseSend, BeginDraft, ReplayDraft, PutDraft, MarkDraft, CloseDraft,
       BeginAsk, ReplayAsk, PutAsk, SendAsk, MarkAsk, UndoAsk, FailAsk, CloseAsk, Begin,
       Replay, MarkExecuted
  <2> QED
    BY <2>1 DEF ToAssign
<1>4. CASE ResponseStep(w)
  <2>1. pc[w] \notin chain
    BY <1>4 DEF ResponseStep, ReadRosterForAnswer, PutAnswer, AuthorizeAssignment,
       RefuseAssignment, BeginAssignment, ReplayAssignment, WriteAssignment, MarkAssignment,
       CloseAssignment, Begin, Replay, MarkExecuted
  <2>2. \/ AuthorizeAssignment(w) \/ RefuseAssignment(w) \/ BeginAssignment(w)
        \/ ReplayAssignment(w) \/ WriteAssignment(w)
        \/ pc[w] \notin ToAssign
    BY <1>4 DEF ResponseStep, ReadRosterForAnswer, PutAnswer, MarkAssignment, MarkExecuted,
       CloseAssignment, ToAssign
  <2> QED
    BY <2>1, <2>2
<1>5. CASE WithdrawalStep(w)
  <2>1. pc[w] \notin ToAssign
    BY <1>5 DEF WithdrawalStep, RefuseWithdrawal, BeginWithdrawal, ReplayWithdrawal,
       WriteVacancy, MarkVacancy, CloseVacancy, RecordDeparture, Begin, Replay, MarkExecuted,
       ToAssign
  <2>2. LeaverStep(w) \/ pc[w] \notin chain
    BY <1>5 DEF WithdrawalStep, RefuseWithdrawal, BeginWithdrawal, ReplayWithdrawal, Begin,
       Replay, LeaverStep
  <2> QED
    BY <2>1, <2>2
<1>6. CASE SupersedeStep(w)
  <2>1. LeaverStep(w) /\ pc[w] \in {"others", "supersede"}
    BY <1>6 DEF SupersedeStep, LeaverStep, ListOtherAsks, EndSupersede, SupersedeOtherAsk
  <2> QED
    BY <2>1 DEF ToAssign
<1> QED
  BY <1>1, <1>2, <1>3, <1>4, <1>5, <1>6 DEF Doing

(* Who is leaving goes on leaving until it is on record.                    *)
LEMMA LeaverMoves ==
  ASSUME NobodyDies, TypeOK, NEW w \in Workers, Doing(w),
         NEW d \in Duties, NEW p \in People, Leaver(w, d, p)
  PROVE  \/ <<d, p>> \in gone'
         \/ Leaver(w, d, p)' /\ pc'[w] # "vacate_write"
<1> USE DEF Goto
<1>1. LeaverStep(w)
  BY LivingSteps DEF Leaver
<1>2. CASE RecordDeparture(w)
  BY <1>2 DEF RecordDeparture, Leaver
<1>3. ASSUME NEW label, NEW j, Go(w, label, j),
             label \in {"vacate_mark", "vacate_close", "others", "supersede", "depart"},
             j.duty = job[w].duty, j.person = job[w].person, j.text = job[w].text
      PROVE  Leaver(w, d, p)' /\ pc'[w] # "vacate_write"
  BY <1>3, GoMoves DEF Leaver
<1>4. CASE WriteVacancy(w) \/ MarkVacancy(w) \/ CloseVacancy(w)
  <2>1. \E label \in {"vacate_mark", "vacate_close", "others"} : Go(w, label, job[w])
    BY <1>4 DEF WriteVacancy, MarkVacancy, MarkExecuted, CloseVacancy
  <2> QED
    BY <1>3, <2>1
<1>5. CASE ListOtherAsks(w) \/ \E a \in AskIds : SupersedeOtherAsk(w, a)
  <2>1. \E asks : Go(w, "supersede", [job[w] EXCEPT !.asks = asks])
    BY <1>5 DEF ListOtherAsks, SupersedeOtherAsk
  <2>2. \A asks : /\ [job[w] EXCEPT !.asks = asks].duty = job[w].duty
                  /\ [job[w] EXCEPT !.asks = asks].person = job[w].person
                  /\ [job[w] EXCEPT !.asks = asks].text = job[w].text
    BY DEF TypeOK, Job
  <2> QED
    BY <1>3, <2>1, <2>2
<1>6. CASE EndSupersede(w)
  <2>1. job[w].text # None
    BY ConstantsAssumption DEF Leaver
  <2>2. Go(w, "depart", job[w])
    BY <1>6, <2>1 DEF EndSupersede
  <2> QED
    BY <1>3, <2>2
<1> QED
  BY <1>1, <1>2, <1>4, <1>5, <1>6 DEF LeaverStep

(* A withdrawal is taken on by opening its receipt.                         *)
LEMMA NewlyWithdrawn ==
  ASSUME IInv, NEW w \in Workers, Doing(w), NEW d \in Duties, NEW p \in People,
         ~HasWithdrawn(d, p), HasWithdrawn(d, p)'
  PROVE  BeginWithdrawal(w) /\ job[w].duty = d /\ job[w].person = p
<1> USE DEF IInv
<1>1. PICK text \in Texts : ledger'[<<"withdraw", d, p, text>>] \notin {"absent", "blocked"}
  BY DEF HasWithdrawn
<1> DEFINE key == <<"withdraw", d, p, text>>
<1>2. key \in Keys /\ ledger[key] \in {"absent", "blocked"}
  BY DEF HasWithdrawn, Keys
<1>3. \A k, r : k[1] # "withdraw" /\ ledger' = [ledger EXCEPT ![k] = r] => ledger'[key] = ledger[key]
  BY <1>2 DEF TypeOK
<1>4. CASE Choose(w) \/ SweepStep(w) \/ Request(w) \/ SupersedeStep(w) \/ Crash(w)
  BY <1>1, <1>2, <1>4, OtherReceipts
<1>5. CASE AskStep(w)
  <2>1. \/ UNCHANGED ledger
        \/ \E k \in {AskKey(w), DraftKey(w), Key("blocked_send", job[w].duty, job[w].person)} :
             \E r : ledger' = [ledger EXCEPT ![k] = r]
    BY <1>5 DEF AskStep, RefuseSend, BeginDraft, ReplayDraft, PutDraft, MarkDraft,
       CloseDraft, BeginAsk, ReplayAsk, PutAsk, SendAsk, MarkAsk, UndoAsk, FailAsk, CloseAsk,
       Begin, Replay, MarkExecuted, CloseReceipt, RecordBlocked, store
  <2> QED
    BY <1>1, <1>2, <1>3, <2>1 DEF AskKey, DraftKey, Key
<1>6. CASE ResponseStep(w)
  <2>1. \/ UNCHANGED ledger
        \/ \E r : ledger' = [ledger EXCEPT ![AssignKey(w)] = r]
    BY <1>6 DEF ResponseStep, ReadRosterForAnswer, PutAnswer, AuthorizeAssignment,
       RefuseAssignment, BeginAssignment, ReplayAssignment, WriteAssignment, MarkAssignment,
       CloseAssignment, Begin, Replay, MarkExecuted, CloseReceipt, RecordBlocked, store
  <2> QED
    BY <1>1, <1>2, <1>3, <2>1 DEF AssignKey, Key
<1>7. CASE WithdrawalStep(w)
  <2>1. \/ RefuseWithdrawal(w) \/ BeginWithdrawal(w) \/ MarkVacancy(w) \/ CloseVacancy(w)
    BY <1>1, <1>2, <1>7 DEF WithdrawalStep, ReplayWithdrawal, WriteVacancy, RecordDeparture,
       Replay, store
  <2>2. \E r : ledger' = [ledger EXCEPT ![VacateKey(w)] = r]
    BY <2>1 DEF RefuseWithdrawal, BeginWithdrawal, Begin, MarkVacancy, MarkExecuted,
       CloseVacancy, CloseReceipt, RecordBlocked
  <2>3. VacateKey(w) = key
    BY <1>1, <1>2, <2>2 DEF TypeOK
  <2>4. ~RefuseWithdrawal(w)
    BY <1>1, <1>2, <2>3 DEF RefuseWithdrawal, RecordBlocked, TypeOK
  <2>5. ~MarkVacancy(w) /\ ~CloseVacancy(w)
    BY <1>2, <2>3 DEF MarkVacancy, MarkExecuted, CloseVacancy, Receipted, Opened, Executed,
       CurrentKey
  <2> QED
    BY <2>1, <2>3, <2>4, <2>5 DEF VacateKey
<1> QED
  BY <1>4, <1>5, <1>6, <1>7 DEF Doing

LEMMA OnRecordStep ==
  ASSUME OneAtATime, NobodyDies, AloneInv, OnRecord, [Next]_vars
  PROVE  OnRecord'
<1> USE DEF AloneInv, IInv, Goto
<1>1. CASE Calm
  BY <1>1 DEF Calm, store, OnRecord, HasWithdrawn, Leaver
<1>2. ASSUME NEW w \in Workers, Doing(w)
      PROVE  OnRecord'
  <2>1. Arrived(w) /\ Wrote(w) /\ \A v \in Workers : v = w
    BY <1>2, Arrives, Writes DEF OneAtATime
  <2>2. gone \subseteq gone'
    BY <2>1 DEF Wrote, RecordDeparture
  <2>3. ASSUME NEW d \in Duties, NEW p \in People, HasWithdrawn(d, p)'
        PROVE  <<d, p>> \in gone' \/ Leaver(w, d, p)'
    <3>1. CASE HasWithdrawn(d, p)
      <4>1. <<d, p>> \in gone \/ Leaver(w, d, p)
        BY <2>1, <3>1 DEF OnRecord
      <4> QED
        BY <1>2, <2>2, <4>1, LeaverMoves
    <3>2. CASE ~HasWithdrawn(d, p)
      <4>1. BeginWithdrawal(w) /\ job[w].duty = d /\ job[w].person = p
        BY <1>2, <2>3, <3>2, NewlyWithdrawn
      <4>2. Go(w, "vacate_write", job[w]) /\ pc[w] = "vacate_begin"
        BY <4>1 DEF BeginWithdrawal, Begin
      <4>3. job[w].text \in Texts
        BY <4>2 DEF JobShape, Vacating
      <4> QED
        BY <4>1, <4>2, <4>3, GoMoves DEF Leaver
    <3> QED
      BY <3>1, <3>2
  <2>4. ASSUME pc'[w] \in Choosing \cup {"ask_send"}
        PROVE  <<job'[w].duty, job'[w].person>> \notin gone'
    <3>1. UNCHANGED gone
      <4>1. ~RecordDeparture(w)
        BY <2>4, GoMoves DEF RecordDeparture, Choosing
      <4> QED
        BY <2>1, <4>1 DEF Wrote
    <3>2. ASSUME NEW d \in Duties, NEW p \in People, ChooseCandidate(w, d, p)
          PROVE  <<job'[w].duty, job'[w].person>> \notin gone
      <4>1. \E label, v : Go(w, label, AskJob(w, d, p, v))
        BY <3>2 DEF ChooseCandidate
      <4>2. \E v : job'[w] = AskJob(w, d, p, v)
        BY <4>1, GoMoves
      <4>3. job'[w].duty = d /\ job'[w].person = p
        BY <4>2 DEF AskJob, NoJob
      <4> QED
        BY <3>2, <4>3 DEF ChooseCandidate, Shortlist, Eligible, AskedBefore
    <3>3. CASE RefuseSend(w)
      <4>1. job[w].verdict = "draft"
        <5>1. job[w].verdict # "draft" => pc'[w] \in Resting
          BY <3>3, SettleRests DEF RefuseSend
        <5> QED
          BY <2>4, <5>1 DEF Resting, Choosing
      <4>2. Go(w, "draft_begin", [job[w] EXCEPT !.verdict = "absent"]) /\ pc[w] = "refuse"
        BY <3>3, <4>1 DEF RefuseSend
      <4>3. job'[w] = [job[w] EXCEPT !.verdict = "absent"]
        BY <4>2, GoMoves
      <4>4. job'[w].duty = job[w].duty /\ job'[w].person = job[w].person
        BY <4>3 DEF TypeOK, Job
      <4> QED
        BY <3>1, <4>2, <4>4 DEF OnRecord, Choosing
    <3>4. CASE BeginDraft(w) \/ BeginAsk(w) \/ PutAsk(w)
      <4>1. /\ \E label : Go(w, label, job[w])
            /\ pc[w] \in {"draft_begin", "ask_begin", "ask_put"}
        BY <3>4 DEF BeginDraft, BeginAsk, Begin, PutAsk
      <4>2. job'[w] = job[w]
        BY <4>1, GoMoves
      <4> QED
        BY <3>1, <4>1, <4>2 DEF OnRecord, Choosing
    <3> QED
      BY <2>1, <2>4, <3>1, <3>2, <3>3, <3>4 DEF Arrived, Choosing
  <2> QED
    BY <2>1, <2>3, <2>4 DEF OnRecord
<1> QED
  BY <1>1, <1>2, DoingOrCalm

(* Who has accepted gets onto the duty, or to the coordinator.              *)
LEMMA AssigneeMoves ==
  ASSUME NobodyDies, AloneInv, NEW w \in Workers, Doing(w), pc[w] \in ToAssign
  PROVE  \/ pc'[w] \in ToAssign /\ job'[w] = job[w]
         \/ ledger'[AssignKey(w)] = "blocked"
         \/ assigned'[job[w].duty] = job[w].person
<1> USE DEF AloneInv, IInv, Goto
<1>1. /\ job[w].duty \in Duties /\ job[w].person \in People
      /\ AssignKey(w) \in Keys
  BY KeyTypes DEF JobShape, ToAssign, Engaged, Labels
<1>2. CASE AuthorizeAssignment(w) \/ BeginAssignment(w)
  <2>1. \E label \in ToAssign : Go(w, label, job[w])
    BY <1>2 DEF AuthorizeAssignment, BeginAssignment, Begin, ToAssign
  <2> QED
    BY <2>1, GoMoves
<1>3. CASE RefuseAssignment(w)
  <2>1. ledger[AssignKey(w)] = "absent"
    BY <1>3 DEF RefuseAssignment, RowsStand, ToAssign
  <2> QED
    BY <1>1, <1>3, <2>1 DEF RefuseAssignment, RecordBlocked, TypeOK
<1>4. ~ReplayAssignment(w)
  BY DEF ReplayAssignment, Replay, RowsStand, ToAssign
<1>5. CASE WriteAssignment(w)
  BY <1>1, <1>5 DEF WriteAssignment, TypeOK
<1> QED
  BY <1>2, <1>3, <1>4, <1>5, LivingSteps

LEMMA KeptStep ==
  ASSUME OneAtATime, NobodyDies, AloneInv, Kept, [Next]_vars
  PROVE  Kept'
<1> USE DEF AloneInv, IInv, Goto
<1>1. CASE Calm
  BY <1>1 DEF Calm, store, Kept, Leaver
<1>2. ASSUME NEW w \in Workers, Doing(w),
             NEW d \in Duties, NEW p \in People, ask'[<<"email", d, p>>] = "accepted"
      PROVE  \/ assigned'[d] = p
             \/ <<d, p>> \in gone'
             \/ ledger'[Key("assign", d, p)] = "blocked"
             \/ pc'[w] \in ToAssign /\ job'[w].duty = d /\ job'[w].person = p
             \/ Leaver(w, d, p)' /\ pc'[w] # "vacate_write"
  <2>1. /\ \A v \in Workers : v = w
        /\ <<"email", d, p>> \in AskIds /\ Key("assign", d, p) \in Keys
    BY DEF OneAtATime, AskIds, Kinds, Key, Keys
  <2>2. gone \subseteq gone'
    BY <1>2, Writes DEF Wrote, RecordDeparture
  <2>3. CASE ask[<<"email", d, p>>] # "accepted"
    <3>1. PutAnswer(w) /\ AskRow(w) = <<"email", d, p>> /\ job[w].verdict = "accepted"
      BY <1>2, <2>1, <2>3, RowMoves
      DEF RowMove, OpensRow, ClosesRow, PutAskRow, TypeOK
    <3>2. Go(w, "assign", job[w])
      BY <3>1 DEF PutAnswer
    <3>3. job[w].duty = d /\ job[w].person = p
      BY <3>1 DEF AskRow
    <3> QED
      BY <3>2, <3>3, GoMoves DEF ToAssign
  <2>4. CASE ask[<<"email", d, p>>] = "accepted" /\ assigned[d] = p
    <3>1. CASE WriteAssignment(w)
      <4>1. assigned[job[w].duty] \in {None, job[w].person}
        BY <3>1 DEF WriteAssignment, HolderStands, Accepting, ToAssign
      <4>2. p # None
        BY ConstantsAssumption
      <4> QED
        BY <2>4, <3>1, <4>1, <4>2 DEF WriteAssignment, TypeOK
    <3>2. CASE WriteVacancy(w)
      <4>1. CASE job[w].duty = d
        <5>1. assigned[job[w].duty] = job[w].person /\ job[w].text \in Texts
          BY <3>2 DEF WriteVacancy, HolderStands, JobShape, Vacating
        <5>2. Leaver(w, d, p)
          BY <2>4, <3>2, <4>1, <5>1 DEF WriteVacancy, Leaver
        <5> QED
          BY <1>2, <5>2, LeaverMoves
      <4>2. CASE job[w].duty # d
        BY <2>4, <3>2, <4>2 DEF WriteVacancy, TypeOK
      <4> QED
        BY <4>1, <4>2
    <3> QED
      BY <1>2, <2>4, <3>1, <3>2, Writes DEF Wrote
  <2>5. CASE <<d, p>> \in gone
    BY <2>2, <2>5
  <2>6. CASE ledger[Key("assign", d, p)] = "blocked"
    BY <2>1, <2>6, ReceiptedStep DEF LedgerStep, EvidenceStep, vars, store
  <2>7. CASE pc[w] \in ToAssign /\ job[w].duty = d /\ job[w].person = p
    BY <1>2, <2>7, AssigneeMoves DEF AssignKey
  <2>8. CASE Leaver(w, d, p) /\ pc[w] # "vacate_write"
    BY <1>2, <2>8, LeaverMoves
  <2> QED
    BY <2>1, <2>3, <2>4, <2>5, <2>6, <2>7, <2>8 DEF Kept
<1>3. CASE \E w \in Workers : Doing(w)
  BY <1>2, <1>3 DEF Kept, Key
<1> QED
  BY <1>1, <1>3, DoingOrCalm

LEMMA RecordsInit == Init => OnRecord /\ Kept
<1> SUFFICES ASSUME Init PROVE OnRecord /\ Kept
  OBVIOUS
<1>1. \A d \in Duties, p \in People, text \in Texts : <<"withdraw", d, p, text>> \in Keys
  BY DEF Keys
<1>2. OnRecord
  BY <1>1 DEF Init, OnRecord, HasWithdrawn, Choosing
<1>3. Kept
  BY DEF Init, Kept, AskIds, Kinds
<1> QED
  BY <1>2, <1>3

(* Nobody is mailed about a duty they have withdrawn from, as long as every *)
(* withdrawal that begins also ends: the withdrawal row is written last     *)
(* (record_withdrawal of core/fill.py), so a death before it loses this.    *)
THEOREM LeaversAreLeftAlone ==
  ASSUME OneAtATime, NobodyDies PROVE Spec => NotInvitedBack
<1>1. AloneInv /\ OnRecord /\ [Next]_vars => OnRecord'
  BY OnRecordStep
<1>2. AloneInv /\ OnRecord /\ [Next]_vars => [InvitationStep]_vars
  <2> SUFFICES ASSUME AloneInv, OnRecord, [Next]_vars, NEW d \in Duties, NEW p \in People,
                      inbox'[<<d, p>>] > inbox[<<d, p>>], HasWithdrawn(d, p)
               PROVE  FALSE
    BY DEF InvitationStep
  <2> USE DEF AloneInv, IInv
  <2>1. inbox[<<d, p>>] \in Nat
    BY DEF TypeOK
  <2>2. PICK w \in Workers, delivery \in Deliveries : SendAsk(w, delivery)
    <3>1. ~Calm
      BY <2>1 DEF Calm
    <3> QED
      BY <2>1, <3>1, DoingOrCalm, Writes DEF Wrote
  <2>3. job[w].duty = d /\ job[w].person = p /\ pc[w] = "ask_send"
    BY <2>1, <2>2 DEF SendAsk, TypeOK
  <2>4. <<d, p>> \notin gone
    BY <2>3 DEF OnRecord
  <2>5. \A v \in Workers : ~Leaver(v, d, p)
    BY <2>3 DEF OneAtATime, Leaver
  <2> QED
    BY <2>4, <2>5 DEF OnRecord
<1> QED
  BY <1>1, <1>2, RecordsInit, AloneInvariant, PTL DEF Spec, NotInvitedBack

(* Once the operations have ended, whoever accepted is on the duty, has     *)
(* left it, or is the coordinator's to place: record_response loses no      *)
(* volunteer as long as it is not cut short.                                *)
THEOREM VolunteersAreKept ==
  ASSUME OneAtATime, NobodyDies PROVE Spec => []AcceptanceIsKept
<1>1. AloneInv /\ Kept /\ [Next]_vars => Kept'
  BY KeptStep
<1>2. Kept => AcceptanceIsKept
  BY DEF Kept, AcceptanceIsKept, Leaver, ToAssign
<1> QED
  BY <1>1, <1>2, RecordsInit, AloneInvariant, PTL DEF Spec
=============================================================================
