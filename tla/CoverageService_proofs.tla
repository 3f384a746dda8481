------------------------ MODULE CoverageService_proofs ------------------------
(***************************************************************************)
(* Theorems of CoverageService, for every roster, every number of workers  *)
(* and every number of crashes.                                            *)
(***************************************************************************)
EXTENDS CoverageInvariants, TLAPS

-----------------------------------------------------------------------------
(* Jobs. *)

LEMMA NoJobType == NoJob \in Job
BY DEF NoJob, Job, AskStates

LEMMA JobUpdate ==
  ASSUME NEW j \in Job
  PROVE  /\ \A v \in AskStates \cup {"draft", "stop", "ok", "not_ok"} :
              [j EXCEPT !.verdict = v] \in Job
         /\ \A s \in SUBSET AskIds : [j EXCEPT !.asks = s] \in Job
         /\ \A g \in SUBSET Duties : [j EXCEPT !.gaps = g] \in Job
BY DEF Job

(* Moving one worker on keeps the types and what the workers know.          *)
LEMMA GoShape ==
  ASSUME TypeOK, JobShape, NEW w \in Workers, NEW label \in Labels, NEW j \in Job,
         Go(w, label, j),
         label \in Engaged => j.duty \in Duties /\ j.person \in People,
         label \in Vacating => j.text \in Texts,
         label \in Responding =>
           j.verdict \in {"accepted", "declined", "expired", "superseded"}
  PROVE  pc' \in [Workers -> Labels] /\ job' \in [Workers -> Job] /\ JobShape'
<1>1. /\ pc' \in [Workers -> Labels]
      /\ job' \in [Workers -> Job]
      /\ pc'[w] = label
      /\ job'[w] = j
      /\ \A v \in Workers \ {w} : pc'[v] = pc[v] /\ job'[v] = job[v]
  BY DEF Go, TypeOK
<1> QED
  BY <1>1 DEF JobShape

(* So does the end of an operation.                                         *)
LEMMA SettleShape ==
  ASSUME TypeOK, JobShape, NEW w \in Workers, NEW gaps \in SUBSET Duties,
         Settle(w, gaps)
  PROVE  pc' \in [Workers -> Labels] /\ job' \in [Workers -> Job] /\ JobShape'
<1>1. /\ "idle" \in Labels /\ "idle" \notin Engaged \cup Vacating \cup Responding
      /\ "sweep" \in Labels /\ "sweep" \notin Engaged \cup Vacating \cup Responding
  BY DEF Labels, Engaged, Vacating, Responding
<1>2. [NoJob EXCEPT !.gaps = gaps] \in Job
  BY NoJobType, JobUpdate
<1> QED
  BY <1>1, <1>2, NoJobType, GoShape DEF Settle

-----------------------------------------------------------------------------
(* Types: TypeOK is inductive together with JobShape. *)

LEMMA LedgerType ==
  ASSUME TypeOK, NEW key, NEW r \in Results
  PROVE  [ledger EXCEPT ![key] = r] \in [Keys -> Results]
BY DEF TypeOK

LEMMA AskRowType ==
  ASSUME TypeOK, NEW a, NEW state \in AskStates, PutAskRow(a, state)
  PROVE  ask' \in [AskIds -> AskStates]
BY DEF TypeOK, PutAskRow

LEMMA WorldStutter ==
  ASSUME TypeOK, UNCHANGED world
  PROVE  /\ lapsed' \subseteq AskIds
         /\ grants' \subseteq Levels
         /\ night' \in BOOLEAN
         /\ inbox' \in [Duties \X People -> Nat]
         /\ yes' \subseteq Duties \X People
         /\ crashes' \in Nat
BY DEF TypeOK, world

LEMMA StoreStutter ==
  ASSUME TypeOK, UNCHANGED store
  PROVE  /\ assigned' \in [Duties -> People \cup {None}]
         /\ confirmed' \subseteq Duties
         /\ ask' \in [AskIds -> AskStates]
         /\ gone' \subseteq Duties \X People
         /\ ledger' \in [Keys -> Results]
BY DEF TypeOK, store

LEMMA BeginShape ==
  ASSUME TypeOK, JobShape, NEW w \in Workers, NEW key,
         NEW from \in Engaged, NEW to \in Labels \ Responding,
         to \in Vacating => from \in Vacating,
         Begin(w, key, from, to) \/ MarkExecuted(w, key, from, to)
  PROVE  TypeOK' /\ JobShape'
<1>1. Goto(w, to) /\ pc[w] = from /\ job[w] \in Job
  BY DEF Begin, MarkExecuted, TypeOK
<1>2. pc' \in [Workers -> Labels] /\ job' \in [Workers -> Job] /\ JobShape'
  <2>1. Go(w, to, job[w])
    BY <1>1 DEF Goto
  <2>2. /\ job[w].duty \in Duties /\ job[w].person \in People
        /\ to \in Vacating => job[w].text \in Texts
    BY <1>1 DEF JobShape
  <2> QED
    BY <1>1, <2>1, <2>2, GoShape
<1>3. ledger' \in [Keys -> Results]
  BY LedgerType DEF Begin, MarkExecuted, Results
<1>4. UNCHANGED <<assigned, confirmed, ask, gone, world>>
  BY DEF Begin, MarkExecuted
<1> QED
  BY <1>2, <1>3, <1>4, WorldStutter DEF TypeOK

LEMMA ReplayShape ==
  ASSUME TypeOK, JobShape, NEW w \in Workers, NEW key, NEW from, Replay(w, key, from)
  PROVE  TypeOK' /\ JobShape'
<1>1. job[w].gaps \in SUBSET Duties
  BY DEF TypeOK, Job
<1>2. pc' \in [Workers -> Labels] /\ job' \in [Workers -> Job] /\ JobShape'
  BY <1>1, SettleShape DEF Replay
<1> QED
  BY <1>2, StoreStutter, WorldStutter DEF Replay, TypeOK

LEMMA ChooseShape ==
  ASSUME TypeOK, JobShape, NEW w \in Workers, Choose(w)
  PROVE  TypeOK' /\ JobShape'
<1>1. job[w] \in Job /\ job[w].gaps \in SUBSET Duties
  BY DEF TypeOK, Job
<1>2. ASSUME NEW d \in Duties, AskNobody(w, d)
      PROVE  TypeOK' /\ JobShape'
  <2>1. pc' \in [Workers -> Labels] /\ job' \in [Workers -> Job] /\ JobShape'
    BY <1>1, <1>2, SettleShape DEF AskNobody
  <2> QED
    BY <1>2, <2>1, StoreStutter, WorldStutter DEF AskNobody, TypeOK
<1>3. ASSUME NEW d \in Duties, NEW p \in People, ChooseCandidate(w, d, p)
      PROVE  TypeOK' /\ JobShape'
  <2>1. ASSUME NEW v \in {"absent", "stop", "draft"}
        PROVE  /\ AskJob(w, d, p, v) \in Job
               /\ AskJob(w, d, p, v).duty = d
               /\ AskJob(w, d, p, v).person = p
    BY <1>1, NoJobType DEF AskJob, Job, AskStates, NoJob
  <2>2. /\ {"ask_begin", "refuse"} \subseteq Labels \ (Vacating \cup Responding)
    BY DEF Labels, Vacating, Responding
  <2>3. PICK label \in {"ask_begin", "refuse"}, v \in {"absent", "stop", "draft"} :
          Go(w, label, AskJob(w, d, p, v))
    BY <1>3 DEF ChooseCandidate
  <2>4. pc' \in [Workers -> Labels] /\ job' \in [Workers -> Job] /\ JobShape'
    BY <2>1, <2>2, <2>3, GoShape
  <2> QED
    BY <1>3, <2>4, StoreStutter, WorldStutter DEF ChooseCandidate, TypeOK
<1> QED
  BY <1>2, <1>3 DEF Choose

LEMMA AskStepShape ==
  ASSUME TypeOK, JobShape, NEW w \in Workers, AskStep(w)
  PROVE  TypeOK' /\ JobShape'
<1> USE DEF Labels, Engaged, Vacating, Responding
<1>1. job[w] \in Job /\ job[w].gaps \in SUBSET Duties
  BY DEF TypeOK, Job
<1>2. pc[w] \in Engaged => job[w].duty \in Duties /\ job[w].person \in People
  BY DEF JobShape
<1>3. CASE RefuseSend(w)
  <2>1. pc[w] \in Engaged
    BY <1>3 DEF RefuseSend
  <2>2. [job[w] EXCEPT !.verdict = "absent"] \in Job
    BY <1>1, JobUpdate DEF AskStates
  <2>3. /\ [job[w] EXCEPT !.verdict = "absent"].duty = job[w].duty
        /\ [job[w] EXCEPT !.verdict = "absent"].person = job[w].person
    BY <1>1 DEF Job
  <2>4. pc' \in [Workers -> Labels] /\ job' \in [Workers -> Job] /\ JobShape'
    <3>1. CASE job[w].verdict = "draft"
      <4>1. Go(w, "draft_begin", [job[w] EXCEPT !.verdict = "absent"])
        BY <1>3, <3>1 DEF RefuseSend
      <4> QED
        BY <4>1, <1>2, <2>1, <2>2, <2>3, GoShape
    <3>2. CASE job[w].verdict # "draft"
      BY <1>1, <1>3, <3>2, SettleShape DEF RefuseSend
    <3> QED
      BY <3>1, <3>2
  <2>5. ledger' \in [Keys -> Results]
    BY <1>3 DEF RefuseSend, RecordBlocked, TypeOK, Results
  <2> QED
    BY <1>3, <2>4, <2>5, WorldStutter DEF RefuseSend, TypeOK
<1>4. CASE BeginDraft(w)
  BY <1>4, BeginShape DEF BeginDraft
<1>5. CASE BeginAsk(w)
  BY <1>5, BeginShape DEF BeginAsk
<1>6. CASE ReplayDraft(w)
  BY <1>6, ReplayShape DEF ReplayDraft
<1>7. CASE ReplayAsk(w)
  BY <1>7, ReplayShape DEF ReplayAsk
<1>8. CASE MarkDraft(w)
  BY <1>8, BeginShape DEF MarkDraft
<1>9. CASE MarkAsk(w)
  <2>1. CASE job[w].verdict = "ok"
    BY <1>9, <2>1, BeginShape DEF MarkAsk
  <2>2. CASE job[w].verdict # "ok"
    BY <1>9, <2>2, BeginShape DEF MarkAsk
  <2> QED
    BY <2>1, <2>2
<1>10. CASE PutDraft(w) \/ PutAsk(w) \/ UndoAsk(w)
  <2>1. pc[w] \in Engaged \ Vacating
    BY <1>10 DEF PutDraft, PutAsk, UndoAsk
  <2>2. PICK label \in {"draft_mark", "ask_send", "ask_fail"} : Go(w, label, job[w])
    BY <1>10 DEF PutDraft, PutAsk, UndoAsk, Goto
  <2>3. pc' \in [Workers -> Labels] /\ job' \in [Workers -> Job] /\ JobShape'
    BY <1>1, <1>2, <2>1, <2>2, GoShape
  <2>4. ask' \in [AskIds -> AskStates]
    BY <1>10, AskRowType DEF PutDraft, PutAsk, UndoAsk, AskStates
  <2> QED
    BY <1>10, <2>3, <2>4, WorldStutter DEF PutDraft, PutAsk, UndoAsk, TypeOK
<1>11. CASE CloseDraft(w) \/ FailAsk(w) \/ CloseAsk(w)
  <2>1. Settle(w, job[w].gaps)
    BY <1>11 DEF CloseDraft, FailAsk, CloseAsk
  <2>2. pc' \in [Workers -> Labels] /\ job' \in [Workers -> Job] /\ JobShape'
    BY <1>1, <2>1, SettleShape
  <2>3. ledger' \in [Keys -> Results]
    BY <1>11, LedgerType DEF CloseDraft, FailAsk, CloseAsk, CloseReceipt, Results
  <2> QED
    BY <1>11, <2>2, <2>3, WorldStutter DEF CloseDraft, FailAsk, CloseAsk, TypeOK
<1>12. ASSUME NEW delivery \in Deliveries, SendAsk(w, delivery)
       PROVE  TypeOK' /\ JobShape'
  <2>1. PICK v \in {"ok", "not_ok"} : Go(w, "ask_mark", [job[w] EXCEPT !.verdict = v])
    BY <1>12 DEF SendAsk
  <2>2. /\ [job[w] EXCEPT !.verdict = v] \in Job
        /\ [job[w] EXCEPT !.verdict = v].duty = job[w].duty
        /\ [job[w] EXCEPT !.verdict = v].person = job[w].person
    BY <1>1, JobUpdate DEF Job
  <2>3. pc' \in [Workers -> Labels] /\ job' \in [Workers -> Job] /\ JobShape'
    BY <1>2, <1>12, <2>1, <2>2, GoShape DEF SendAsk
  <2>4. inbox' \in [Duties \X People -> Nat]
    <3> DEFINE dp == <<job[w].duty, job[w].person>>
    <3>1. dp \in Duties \X People /\ inbox \in [Duties \X People -> Nat]
      BY <1>2, <1>12 DEF SendAsk, TypeOK
    <3>2. inbox' = inbox \/ inbox' = [inbox EXCEPT ![dp] = inbox[dp] + 1]
      BY <1>12 DEF SendAsk
    <3> HIDE DEF dp
    <3> QED
      BY <3>1, <3>2
  <2> QED
    BY <1>12, <2>3, <2>4, StoreStutter DEF SendAsk, TypeOK
<1> QED
  BY <1>3, <1>4, <1>5, <1>6, <1>7, <1>8, <1>9, <1>10, <1>11, <1>12 DEF AskStep

LEMMA SweepStepShape ==
  ASSUME TypeOK, JobShape, NEW w \in Workers, SweepStep(w)
  PROVE  TypeOK' /\ JobShape'
<1>1. CASE FindGaps(w)
  <2>1. PICK gaps \in SUBSET Duties : Settle(w, gaps)
    BY <1>1 DEF FindGaps
  <2>2. pc' \in [Workers -> Labels] /\ job' \in [Workers -> Job] /\ JobShape'
    BY <2>1, SettleShape
  <2> QED
    BY <1>1, <2>2, StoreStutter, WorldStutter DEF FindGaps, TypeOK
<1>2. ASSUME NEW a \in AskIds, ExpireLapsed(w, a)
      PROVE  TypeOK' /\ JobShape'
  <2>1. job[w] \in Job /\ job[w].asks \in SUBSET AskIds
    BY DEF TypeOK, Job
  <2>2. [job[w] EXCEPT !.asks = job[w].asks \ {a}] \in Job
    BY <2>1, JobUpdate
  <2>3. "expire" \in Labels /\ "expire" \notin Engaged \cup Vacating \cup Responding
    BY DEF Labels, Engaged, Vacating, Responding
  <2>4. pc' \in [Workers -> Labels] /\ job' \in [Workers -> Job] /\ JobShape'
    BY <1>2, <2>2, <2>3, GoShape DEF ExpireLapsed
  <2>5. ask' \in [AskIds -> AskStates]
    BY <1>2, AskRowType DEF ExpireLapsed, AskStates
  <2> QED
    BY <1>2, <2>4, <2>5, WorldStutter DEF ExpireLapsed, TypeOK
<1> QED
  BY <1>1, <1>2 DEF SweepStep

LEMMA RequestShape ==
  ASSUME TypeOK, JobShape, NEW w \in Workers, Request(w)
  PROVE  TypeOK' /\ JobShape'
<1> USE DEF Labels, Engaged, Vacating, Responding
<1>1. CASE StartSweep(w)
  <2>1. [NoJob EXCEPT !.asks = {a \in lapsed : ask[a] = "sent"}] \in Job
    BY NoJobType, JobUpdate DEF TypeOK
  <2>2. pc' \in [Workers -> Labels] /\ job' \in [Workers -> Job] /\ JobShape'
    BY <1>1, <2>1, GoShape DEF StartSweep
  <2> QED
    BY <1>1, <2>2, StoreStutter, WorldStutter DEF StartSweep, TypeOK
<1>2. ASSUME NEW d \in Duties, NEW p \in People, NEW accept \in BOOLEAN,
             TapLink(w, d, p, accept)
      PROVE  TypeOK' /\ JobShape'
  <2>1. PICK label \in Responding, v \in {"accepted", "declined", "expired"} :
          Go(w, label, [NoJob EXCEPT !.duty = d, !.person = p, !.verdict = v])
    BY <1>2 DEF TapLink, Verdict
  <2> DEFINE j == [NoJob EXCEPT !.duty = d, !.person = p, !.verdict = v]
  <2>2. j \in Job /\ j.duty = d /\ j.person = p /\ j.verdict = v
    BY NoJobType DEF NoJob, Job, AskStates
  <2>3. pc' \in [Workers -> Labels] /\ job' \in [Workers -> Job] /\ JobShape'
    <3> HIDE DEF j
    <3>1. Go(w, label, j)
      BY <2>1 DEF j
    <3> QED
      BY <2>2, <3>1, GoShape
  <2>4. yes' \subseteq Duties \X People
    BY <1>2 DEF TapLink, TypeOK
  <2> QED
    BY <1>2, <2>3, <2>4, StoreStutter DEF TapLink, TypeOK
<1>3. ASSUME NEW d \in Duties, NEW p \in People, NEW text \in Texts,
             ReceiveNotice(w, d, p, text)
      PROVE  TypeOK' /\ JobShape'
  <2> DEFINE j == [NoJob EXCEPT !.duty = d, !.person = p, !.text = text]
  <2>1. PICK label \in {"vacate_begin", "vacate_refuse"} : Go(w, label, j)
    BY <1>3 DEF ReceiveNotice
  <2>2. j \in Job /\ j.duty = d /\ j.person = p /\ j.text = text
    BY NoJobType DEF NoJob, Job
  <2>3. pc' \in [Workers -> Labels] /\ job' \in [Workers -> Job] /\ JobShape'
    <3> HIDE DEF j
    <3> QED
      BY <2>1, <2>2, GoShape
  <2> QED
    BY <1>3, <2>3, StoreStutter, WorldStutter DEF ReceiveNotice, TypeOK
<1> QED
  BY <1>1, <1>2, <1>3 DEF Request

LEMMA ResponseStepShape ==
  ASSUME TypeOK, JobShape, NEW w \in Workers, ResponseStep(w)
  PROVE  TypeOK' /\ JobShape'
<1> USE DEF Labels, Engaged, Vacating, Responding
<1>1. job[w] \in Job
  BY DEF TypeOK
<1>2. pc[w] \in Engaged => job[w].duty \in Duties /\ job[w].person \in People
  BY DEF JobShape
<1>3. CASE ReadRosterForAnswer(w)
  <2>1. PICK v \in {"accepted", "declined", "expired", "superseded"} :
          Go(w, "respond_put", [job[w] EXCEPT !.verdict = v])
    BY <1>3 DEF ReadRosterForAnswer, JobShape
  <2>2. /\ [job[w] EXCEPT !.verdict = v] \in Job
        /\ [job[w] EXCEPT !.verdict = v].duty = job[w].duty
        /\ [job[w] EXCEPT !.verdict = v].person = job[w].person
        /\ [job[w] EXCEPT !.verdict = v].verdict = v
    BY <1>1, JobUpdate DEF Job, AskStates
  <2>3. pc' \in [Workers -> Labels] /\ job' \in [Workers -> Job] /\ JobShape'
    BY <1>2, <1>3, <2>1, <2>2, GoShape DEF ReadRosterForAnswer
  <2> QED
    BY <1>3, <2>3, StoreStutter, WorldStutter DEF ReadRosterForAnswer, TypeOK
<1>4. CASE PutAnswer(w)
  <2>1. Go(w, "assign", job[w]) \/ Go(w, "idle", NoJob)
    BY <1>4 DEF PutAnswer, Goto
  <2>2. pc' \in [Workers -> Labels] /\ job' \in [Workers -> Job] /\ JobShape'
    BY <1>1, <1>2, <1>4, <2>1, NoJobType, GoShape DEF PutAnswer
  <2>3. ask' \in [AskIds -> AskStates]
    BY <1>4, AskRowType DEF PutAnswer, JobShape, AskStates
  <2> QED
    BY <1>4, <2>2, <2>3, WorldStutter DEF PutAnswer, TypeOK
<1>5. CASE AuthorizeAssignment(w)
  <2>1. PICK label \in {"assign_begin", "assign_refuse"} : Go(w, label, job[w])
    BY <1>5 DEF AuthorizeAssignment, Goto
  <2>2. pc' \in [Workers -> Labels] /\ job' \in [Workers -> Job] /\ JobShape'
    BY <1>1, <1>2, <1>5, <2>1, GoShape DEF AuthorizeAssignment
  <2> QED
    BY <1>5, <2>2, StoreStutter, WorldStutter DEF AuthorizeAssignment, TypeOK
<1>6. CASE RefuseAssignment(w)
  <2>1. pc' \in [Workers -> Labels] /\ job' \in [Workers -> Job] /\ JobShape'
    BY <1>6, NoJobType, GoShape DEF RefuseAssignment
  <2>2. ledger' \in [Keys -> Results]
    BY <1>6 DEF RefuseAssignment, RecordBlocked, TypeOK, Results
  <2> QED
    BY <1>6, <2>1, <2>2, WorldStutter DEF RefuseAssignment, TypeOK
<1>7. CASE BeginAssignment(w)
  BY <1>7, BeginShape DEF BeginAssignment
<1>8. CASE ReplayAssignment(w)
  BY <1>8, ReplayShape DEF ReplayAssignment
<1>9. CASE WriteAssignment(w)
  <2>1. pc' \in [Workers -> Labels] /\ job' \in [Workers -> Job] /\ JobShape'
    BY <1>1, <1>2, <1>9, GoShape DEF WriteAssignment, Goto
  <2>2. /\ assigned' \in [Duties -> People \cup {None}]
        /\ confirmed' \subseteq Duties
    BY <1>2, <1>9 DEF WriteAssignment, TypeOK
  <2> QED
    BY <1>9, <2>1, <2>2, WorldStutter DEF WriteAssignment, TypeOK
<1>10. CASE MarkAssignment(w)
  BY <1>10, BeginShape DEF MarkAssignment
<1>11. CASE CloseAssignment(w)
  <2>1. Go(w, "others", job[w]) \/ Go(w, "idle", NoJob)
    BY <1>11 DEF CloseAssignment, Goto
  <2>2. pc' \in [Workers -> Labels] /\ job' \in [Workers -> Job] /\ JobShape'
    BY <1>1, <1>2, <1>11, <2>1, NoJobType, GoShape DEF CloseAssignment
  <2>3. ledger' \in [Keys -> Results]
    BY <1>11, LedgerType DEF CloseAssignment, CloseReceipt, Results
  <2> QED
    BY <1>11, <2>2, <2>3, WorldStutter DEF CloseAssignment, TypeOK
<1> QED
  BY <1>3, <1>4, <1>5, <1>6, <1>7, <1>8, <1>9, <1>10, <1>11 DEF ResponseStep

LEMMA WithdrawalStepShape ==
  ASSUME TypeOK, JobShape, NEW w \in Workers, WithdrawalStep(w)
  PROVE  TypeOK' /\ JobShape'
<1> USE DEF Labels, Engaged, Vacating, Responding
<1>1. job[w] \in Job
  BY DEF TypeOK
<1>2. pc[w] \in Engaged => job[w].duty \in Duties /\ job[w].person \in People
  BY DEF JobShape
<1>3. CASE RefuseWithdrawal(w)
  <2>1. pc' \in [Workers -> Labels] /\ job' \in [Workers -> Job] /\ JobShape'
    BY <1>3, NoJobType, GoShape DEF RefuseWithdrawal
  <2>2. ledger' \in [Keys -> Results]
    BY <1>3 DEF RefuseWithdrawal, RecordBlocked, TypeOK, Results
  <2> QED
    BY <1>3, <2>1, <2>2, WorldStutter DEF RefuseWithdrawal, TypeOK
<1>4. CASE BeginWithdrawal(w)
  BY <1>4, BeginShape DEF BeginWithdrawal
<1>5. CASE ReplayWithdrawal(w)
  BY <1>5, ReplayShape DEF ReplayWithdrawal
<1>6. CASE WriteVacancy(w)
  <2>1. job[w].text \in Texts
    BY <1>6 DEF WriteVacancy, JobShape
  <2>2. pc' \in [Workers -> Labels] /\ job' \in [Workers -> Job] /\ JobShape'
    BY <1>1, <1>2, <1>6, <2>1, GoShape DEF WriteVacancy, Goto
  <2>3. assigned' \in [Duties -> People \cup {None}] /\ confirmed' \subseteq Duties
    BY <1>6 DEF WriteVacancy, TypeOK
  <2> QED
    BY <1>6, <2>2, <2>3, WorldStutter DEF WriteVacancy, TypeOK
<1>7. CASE MarkVacancy(w)
  BY <1>7, BeginShape DEF MarkVacancy
<1>8. CASE CloseVacancy(w)
  <2>1. pc' \in [Workers -> Labels] /\ job' \in [Workers -> Job] /\ JobShape'
    BY <1>1, <1>2, <1>8, GoShape DEF CloseVacancy, Goto
  <2>2. ledger' \in [Keys -> Results]
    BY <1>8, LedgerType DEF CloseVacancy, CloseReceipt, Results
  <2> QED
    BY <1>8, <2>1, <2>2, WorldStutter DEF CloseVacancy, TypeOK
<1>9. CASE RecordDeparture(w)
  <2>1. pc' \in [Workers -> Labels] /\ job' \in [Workers -> Job] /\ JobShape'
    BY <1>9, NoJobType, GoShape DEF RecordDeparture
  <2>2. gone' \subseteq Duties \X People
    BY <1>2, <1>9 DEF RecordDeparture, TypeOK
  <2> QED
    BY <1>9, <2>1, <2>2, WorldStutter DEF RecordDeparture, TypeOK
<1> QED
  BY <1>3, <1>4, <1>5, <1>6, <1>7, <1>8, <1>9 DEF WithdrawalStep

LEMMA SupersedeStepShape ==
  ASSUME TypeOK, JobShape, NEW w \in Workers, SupersedeStep(w)
  PROVE  TypeOK' /\ JobShape'
<1> USE DEF Labels, Engaged, Vacating, Responding
<1>1. job[w] \in Job /\ job[w].asks \in SUBSET AskIds /\ job[w].text \in Texts \cup {None}
  BY DEF TypeOK, Job
<1>2. pc[w] \in Engaged => job[w].duty \in Duties /\ job[w].person \in People
  BY DEF JobShape
<1>3. ASSUME NEW asks \in SUBSET AskIds, pc[w] \in {"others", "supersede"},
             Go(w, "supersede", [job[w] EXCEPT !.asks = asks])
      PROVE  pc' \in [Workers -> Labels] /\ job' \in [Workers -> Job] /\ JobShape'
  <2>1. /\ [job[w] EXCEPT !.asks = asks] \in Job
        /\ [job[w] EXCEPT !.asks = asks].duty = job[w].duty
        /\ [job[w] EXCEPT !.asks = asks].person = job[w].person
    BY <1>1, JobUpdate DEF Job
  <2> QED
    BY <1>2, <1>3, <2>1, GoShape
<1>4. CASE ListOtherAsks(w)
  <2>1. pc' \in [Workers -> Labels] /\ job' \in [Workers -> Job] /\ JobShape'
    BY <1>3, <1>4 DEF ListOtherAsks
  <2> QED
    BY <1>4, <2>1, StoreStutter, WorldStutter DEF ListOtherAsks, TypeOK
<1>5. ASSUME NEW a \in AskIds, SupersedeOtherAsk(w, a)
      PROVE  TypeOK' /\ JobShape'
  <2>1. pc' \in [Workers -> Labels] /\ job' \in [Workers -> Job] /\ JobShape'
    BY <1>1, <1>3, <1>5 DEF SupersedeOtherAsk
  <2>2. ask' \in [AskIds -> AskStates]
    BY <1>5, AskRowType DEF SupersedeOtherAsk, AskStates
  <2> QED
    BY <1>5, <2>1, <2>2, WorldStutter DEF SupersedeOtherAsk, TypeOK
<1>6. CASE EndSupersede(w)
  <2>1. \/ Go(w, "idle", NoJob)
        \/ Go(w, "depart", job[w]) /\ job[w].text \in Texts
    <3>1. CASE job[w].text = None
      BY <1>6, <3>1 DEF EndSupersede
    <3>2. CASE job[w].text # None
      BY <1>1, <1>6, <3>2 DEF EndSupersede, Goto
    <3> QED
      BY <3>1, <3>2
  <2>2. pc' \in [Workers -> Labels] /\ job' \in [Workers -> Job] /\ JobShape'
    BY <1>1, <1>2, <1>6, <2>1, NoJobType, GoShape DEF EndSupersede
  <2> QED
    BY <1>6, <2>2, StoreStutter, WorldStutter DEF EndSupersede, TypeOK
<1> QED
  BY <1>4, <1>5, <1>6 DEF SupersedeStep

LEMMA CrashShape ==
  ASSUME TypeOK, JobShape, NEW w \in Workers, Crash(w)
  PROVE  TypeOK' /\ JobShape'
<1>1. "idle" \in Labels /\ "idle" \notin Engaged \cup Vacating \cup Responding
  BY DEF Labels, Engaged, Vacating, Responding
<1>2. pc' \in [Workers -> Labels] /\ job' \in [Workers -> Job] /\ JobShape'
  BY <1>1, NoJobType, GoShape DEF Crash
<1> QED
  BY <1>2, StoreStutter DEF Crash, TypeOK

LEMMA EnvironmentShape ==
  ASSUME TypeOK, JobShape, Environment
  PROVE  TypeOK' /\ JobShape'
<1>1. UNCHANGED <<store, pc, job>>
  BY DEF Environment, Lapse, ToggleGrant, Dusk
<1>2. /\ lapsed' \subseteq AskIds /\ grants' \subseteq Levels /\ night' \in BOOLEAN
      /\ UNCHANGED <<inbox, yes, crashes>>
  BY DEF Environment, Lapse, ToggleGrant, Dusk, TypeOK
<1> QED
  BY <1>1, <1>2, StoreStutter DEF TypeOK, JobShape

(* TypeOK, with what the workers know, is inductive.                        *)
THEOREM TypeStep == TypeOK /\ JobShape /\ [Next]_vars => TypeOK' /\ JobShape'
<1> SUFFICES ASSUME TypeOK, JobShape, [Next]_vars
             PROVE  TypeOK' /\ JobShape'
  OBVIOUS
<1>1. CASE UNCHANGED vars
  BY <1>1, StoreStutter, WorldStutter DEF vars, TypeOK, JobShape
<1>2. CASE Environment
  BY <1>2, EnvironmentShape
<1>3. ASSUME NEW w \in Workers,
             \/ Choose(w) \/ AskStep(w) \/ SweepStep(w) \/ Request(w)
             \/ ResponseStep(w) \/ WithdrawalStep(w) \/ SupersedeStep(w) \/ Crash(w)
      PROVE  TypeOK' /\ JobShape'
  BY <1>3, ChooseShape, AskStepShape, SweepStepShape, RequestShape, ResponseStepShape,
     WithdrawalStepShape, SupersedeStepShape, CrashShape
<1> QED
  BY <1>1, <1>2, <1>3 DEF Next

LEMMA TypeInit == Init => TypeOK /\ JobShape
<1> SUFFICES ASSUME Init
             PROVE  TypeOK /\ JobShape
  OBVIOUS
<1>1. "idle" \in Labels /\ "idle" \notin Engaged \cup Vacating \cup Responding
  BY DEF Labels, Engaged, Vacating, Responding
<1>2. JobShape
  BY <1>1 DEF Init, JobShape
<1>3. pc \in [Workers -> Labels] /\ job \in [Workers -> Job]
  BY <1>1, NoJobType DEF Init
<1>4. "absent" \in AskStates \cap Results
  BY DEF AskStates, Results
<1>5. assigned \in [Duties -> People \cup {None}] /\ confirmed \subseteq Duties /\ grants \subseteq Levels
  BY ConstantsAssumption DEF Init
<1> QED
  BY <1>2, <1>3, <1>4, <1>5 DEF Init, TypeOK

(* The rows, the receipts and the workers' jobs keep their shapes           *)
(* (core/models.py), whatever the workers do and wherever they die.         *)
THEOREM TypeCorrect == Spec => []TypeOK
<1>1. Spec => [](TypeOK /\ JobShape)
  BY TypeInit, TypeStep, PTL DEF Spec
<1> QED
  BY <1>1, PTL

-----------------------------------------------------------------------------
(* Which steps touch what. *)

(* Only two steps of the fill loop change who is on a duty.                 *)
LEMMA RosterSteps ==
  ASSUME [Next]_vars
  PROVE  \/ UNCHANGED assigned
         \/ \E w \in Workers : WriteAssignment(w) \/ WriteVacancy(w)
<1>1. CASE UNCHANGED vars
  BY <1>1 DEF vars, store
<1>2. CASE Environment
  BY <1>2 DEF Environment, Lapse, ToggleGrant, Dusk, store
<1>3. ASSUME NEW w \in Workers, Choose(w) \/ SweepStep(w) \/ Request(w) \/ SupersedeStep(w) \/ Crash(w)
      PROVE  UNCHANGED assigned
  BY <1>3 DEF Choose, AskNobody, ChooseCandidate, SweepStep, FindGaps, ExpireLapsed,
     Request, StartSweep, TapLink, ReceiveNotice, SupersedeStep, ListOtherAsks,
     SupersedeOtherAsk, EndSupersede, Crash, store
<1>4. ASSUME NEW w \in Workers, AskStep(w)
      PROVE  UNCHANGED assigned
  BY <1>4 DEF AskStep, RefuseSend, BeginDraft, ReplayDraft, PutDraft, MarkDraft, CloseDraft,
     BeginAsk, ReplayAsk, PutAsk, SendAsk, MarkAsk, UndoAsk, FailAsk, CloseAsk,
     Begin, Replay, MarkExecuted, store
<1>5. ASSUME NEW w \in Workers, ResponseStep(w), ~WriteAssignment(w)
      PROVE  UNCHANGED assigned
  BY <1>5 DEF ResponseStep, ReadRosterForAnswer, PutAnswer, AuthorizeAssignment,
     RefuseAssignment, BeginAssignment, ReplayAssignment, MarkAssignment, CloseAssignment,
     Begin, Replay, MarkExecuted, store
<1>6. ASSUME NEW w \in Workers, WithdrawalStep(w), ~WriteVacancy(w)
      PROVE  UNCHANGED assigned
  BY <1>6 DEF WithdrawalStep, RefuseWithdrawal, BeginWithdrawal, ReplayWithdrawal,
     MarkVacancy, CloseVacancy, RecordDeparture, Begin, Replay, MarkExecuted, store
<1> QED
  BY <1>1, <1>2, <1>3, <1>4, <1>5, <1>6 DEF Next

(* A word once given is never taken back.                                   *)
LEMMA YesGrows == ASSUME [Next]_vars PROVE yes \subseteq yes'
<1>1. CASE UNCHANGED vars
  BY <1>1 DEF vars, world
<1>2. CASE Environment
  BY <1>2 DEF Environment, Lapse, ToggleGrant, Dusk
<1>3. ASSUME NEW w \in Workers, Choose(w) \/ SweepStep(w) \/ Request(w) \/ SupersedeStep(w) \/ Crash(w)
      PROVE  yes \subseteq yes'
  BY <1>3 DEF Choose, AskNobody, ChooseCandidate, SweepStep, FindGaps, ExpireLapsed,
     Request, StartSweep, TapLink, ReceiveNotice, SupersedeStep, ListOtherAsks,
     SupersedeOtherAsk, EndSupersede, Crash, world
<1>4. ASSUME NEW w \in Workers, AskStep(w)
      PROVE  UNCHANGED yes
  BY <1>4 DEF AskStep, RefuseSend, BeginDraft, ReplayDraft, PutDraft, MarkDraft, CloseDraft,
     BeginAsk, ReplayAsk, PutAsk, SendAsk, MarkAsk, UndoAsk, FailAsk, CloseAsk,
     Begin, Replay, MarkExecuted, world
<1>5. ASSUME NEW w \in Workers, ResponseStep(w) \/ WithdrawalStep(w)
      PROVE  UNCHANGED yes
  BY <1>5 DEF ResponseStep, ReadRosterForAnswer, PutAnswer, AuthorizeAssignment,
     RefuseAssignment, BeginAssignment, ReplayAssignment, WriteAssignment, MarkAssignment,
     CloseAssignment, WithdrawalStep, RefuseWithdrawal, BeginWithdrawal, ReplayWithdrawal,
     WriteVacancy, MarkVacancy, CloseVacancy, RecordDeparture, Begin, Replay, MarkExecuted,
     world
<1> QED
  BY <1>1, <1>2, <1>3, <1>4, <1>5 DEF Next

-----------------------------------------------------------------------------
(* Consent. *)

(* A worker that moves on needs the person's word only on the way to an     *)
(* assignment.                                                              *)
LEMMA GoConsent ==
  ASSUME TypeOK, Consented, [Next]_vars, NEW w \in Workers, NEW label, NEW j,
         Go(w, label, j),
         label \in Assigning \/ (label \in Responding /\ j.verdict = "accepted")
           => <<j.duty, j.person>> \in yes'
  PROVE  Consented'
<1>1. /\ pc'[w] = label
      /\ job'[w] = j
      /\ \A v \in Workers \ {w} : pc'[v] = pc[v] /\ job'[v] = job[v]
  BY DEF Go, TypeOK
<1> QED
  BY <1>1, YesGrows DEF Consented

(* Every other step leaves its worker somewhere else.                       *)
LEMMA ElsewhereSteps ==
  ASSUME NEW w \in Workers,
         \/ Choose(w) \/ AskStep(w) \/ SweepStep(w) \/ WithdrawalStep(w)
         \/ SupersedeStep(w) \/ Crash(w) \/ StartSweep(w)
         \/ \E d \in Duties, p \in People, text \in Texts : ReceiveNotice(w, d, p, text)
  PROVE  \E label : label \notin Assigning \cup Responding /\ \E j : Go(w, label, j)
<1> USE DEF Assigning, Responding, Settle, Goto
<1>1. CASE Choose(w)
  BY <1>1 DEF Choose, AskNobody, ChooseCandidate
<1>2. CASE AskStep(w)
  BY <1>2 DEF AskStep, RefuseSend, BeginDraft, ReplayDraft, PutDraft, MarkDraft, CloseDraft,
     BeginAsk, ReplayAsk, PutAsk, SendAsk, MarkAsk, UndoAsk, FailAsk, CloseAsk,
     Begin, Replay, MarkExecuted
<1>3. CASE SweepStep(w)
  BY <1>3 DEF SweepStep, FindGaps, ExpireLapsed
<1>4. CASE WithdrawalStep(w)
  BY <1>4 DEF WithdrawalStep, RefuseWithdrawal, BeginWithdrawal, ReplayWithdrawal,
     WriteVacancy, MarkVacancy, CloseVacancy, RecordDeparture, Begin, Replay, MarkExecuted
<1>5. CASE SupersedeStep(w)
  BY <1>5 DEF SupersedeStep, ListOtherAsks, SupersedeOtherAsk, EndSupersede
<1>6. CASE Crash(w) \/ StartSweep(w)
  BY <1>6 DEF Crash, StartSweep
<1>7. ASSUME NEW d \in Duties, NEW p \in People, NEW text \in Texts,
             ReceiveNotice(w, d, p, text)
      PROVE  \E label : label \notin Assigning \cup Responding /\ \E j : Go(w, label, j)
  BY <1>7 DEF ReceiveNotice
<1> QED
  BY <1>1, <1>2, <1>3, <1>4, <1>5, <1>6, <1>7

LEMMA ResponseConsent ==
  ASSUME TypeOK, Consented, [Next]_vars, NEW w \in Workers, ResponseStep(w)
  PROVE  Consented'
<1> USE DEF Assigning, Responding
<1>1. job[w] \in Job
  BY DEF TypeOK
<1>2. \/ pc[w] \in Assigning
      \/ pc[w] \in Responding /\ job[w].verdict = "accepted"
      => <<job[w].duty, job[w].person>> \in yes'
  BY YesGrows DEF Consented
<1>3. CASE ReadRosterForAnswer(w)
  <2>1. PICK v :
          /\ Go(w, "respond_put", [job[w] EXCEPT !.verdict = v])
          /\ v = "accepted" => job[w].verdict = "accepted"
    BY <1>3 DEF ReadRosterForAnswer
  <2>2. /\ [job[w] EXCEPT !.verdict = v].duty = job[w].duty
        /\ [job[w] EXCEPT !.verdict = v].person = job[w].person
        /\ [job[w] EXCEPT !.verdict = v].verdict = v
    BY <1>1 DEF Job
  <2> QED
    BY <1>2, <1>3, <2>1, <2>2, GoConsent DEF ReadRosterForAnswer
<1>4. CASE PutAnswer(w)
  <2>1. \/ Go(w, "assign", job[w]) /\ job[w].verdict = "accepted"
        \/ Go(w, "idle", NoJob)
    BY <1>4 DEF PutAnswer, Goto
  <2> QED
    BY <1>2, <1>4, <2>1, GoConsent DEF PutAnswer
<1>5. CASE \/ AuthorizeAssignment(w) \/ BeginAssignment(w)
           \/ WriteAssignment(w) \/ MarkAssignment(w)
  <2>1. pc[w] \in Assigning /\ \E label : Go(w, label, job[w])
    BY <1>5 DEF AuthorizeAssignment, BeginAssignment, Begin, WriteAssignment,
       MarkAssignment, MarkExecuted, Goto
  <2> QED
    BY <1>2, <2>1, GoConsent
<1>6. CASE RefuseAssignment(w) \/ ReplayAssignment(w) \/ CloseAssignment(w)
  <2>1. \E label : label \notin Assigning \cup Responding /\ \E j : Go(w, label, j)
    BY <1>6 DEF RefuseAssignment, ReplayAssignment, Replay, Settle, CloseAssignment, Goto
  <2> QED
    BY <2>1, GoConsent
<1> QED
  BY <1>3, <1>4, <1>5, <1>6 DEF ResponseStep

LEMMA TapConsent ==
  ASSUME TypeOK, Consented, [Next]_vars, NEW w \in Workers,
         NEW d \in Duties, NEW p \in People, NEW accept \in BOOLEAN,
         TapLink(w, d, p, accept)
  PROVE  Consented'
<1> DEFINE v == Verdict(<<"email", d, p>>, accept)
           j == [NoJob EXCEPT !.duty = d, !.person = p, !.verdict = v]
<1>1. \E label : label \notin Assigning /\ Go(w, label, j)
  BY DEF TapLink, Assigning
<1>2. j.duty = d /\ j.person = p /\ j.verdict = v
  BY DEF NoJob
<1>3. v = "accepted" => <<d, p>> \in yes'
  BY DEF TapLink, Verdict
<1> QED
  <2> HIDE DEF v, j
  <2> QED
    BY <1>1, <1>2, <1>3, GoConsent

LEMMA ConsentedStep ==
  TypeOK /\ Consented /\ [Next]_vars => Consented'
<1> SUFFICES ASSUME TypeOK, Consented, [Next]_vars
             PROVE  Consented'
  OBVIOUS
<1>1. CASE UNCHANGED vars
  BY <1>1 DEF vars, world, Consented
<1>2. CASE Environment
  BY <1>2 DEF Environment, Lapse, ToggleGrant, Dusk, Consented
<1>3. ASSUME NEW w \in Workers,
             \/ Choose(w) \/ AskStep(w) \/ SweepStep(w) \/ WithdrawalStep(w)
             \/ SupersedeStep(w) \/ Crash(w) \/ StartSweep(w)
             \/ \E d \in Duties, p \in People, text \in Texts : ReceiveNotice(w, d, p, text)
      PROVE  Consented'
  BY <1>3, ElsewhereSteps, GoConsent
<1>4. ASSUME NEW w \in Workers, ResponseStep(w)
      PROVE  Consented'
  BY <1>4, ResponseConsent
<1>5. ASSUME NEW w \in Workers, NEW d \in Duties, NEW p \in People,
             NEW accept \in BOOLEAN, TapLink(w, d, p, accept)
      PROVE  Consented'
  BY <1>5, TapConsent
<1> QED
  BY <1>1, <1>2, <1>3, <1>4, <1>5 DEF Next, Request

LEMMA ConsentedInit == Init => Consented
BY DEF Init, Consented, Assigning, Responding

(* Nobody is put on a duty who did not tap the accept link of an open ask   *)
(* about it: "a promise cannot be created on someone's behalf"              *)
(* (core/authority.py), in any interleaving and with any crashes.           *)
THEOREM Volunteers == Spec => NobodyIsVolunteered
<1>1. Init => TypeOK /\ JobShape /\ Consented
  BY TypeInit, ConsentedInit
<1>2. (TypeOK /\ JobShape /\ Consented) /\ [Next]_vars
        => (TypeOK /\ JobShape /\ Consented)'
  BY TypeStep, ConsentedStep
<1>3. (TypeOK /\ JobShape /\ Consented) /\ [Next]_vars => [ConsentStep]_vars
  <2> SUFFICES ASSUME TypeOK, JobShape, Consented, [Next]_vars,
                      NEW d \in Duties, assigned'[d] \notin {None, assigned[d]}
               PROVE  <<d, assigned'[d]>> \in yes
    BY DEF ConsentStep
  <2>1. PICK w \in Workers : WriteAssignment(w) \/ WriteVacancy(w)
    BY RosterSteps
  <2>2. assigned \in [Duties -> People \cup {None}]
    BY DEF TypeOK
  <2>3. CASE WriteAssignment(w)
    <3>1. pc[w] \in Assigning /\ d = job[w].duty /\ assigned'[d] = job[w].person
      BY <2>2, <2>3 DEF WriteAssignment, Assigning
    <3> QED
      BY <3>1 DEF Consented
  <2>4. CASE WriteVacancy(w)
    BY <2>2, <2>4 DEF WriteVacancy
  <2> QED
    BY <2>1, <2>3, <2>4
<1> QED
  BY <1>1, <1>2, <1>3, PTL DEF Spec, NobodyIsVolunteered

-----------------------------------------------------------------------------
(* Receipts. *)

(* No receipt disappears, and a closed one does not change.                 *)
LedgerStep ==
  EvidenceStep /\ \A k \in Keys : ledger[k] # "absent" => ledger'[k] # "absent"

LEMMA KeyTypes ==
  ASSUME TypeOK, JobShape, NEW w \in Workers, pc[w] \in Engaged
  PROVE  /\ DraftKey(w) \in Keys /\ AskKey(w) \in Keys /\ AssignKey(w) \in Keys
         /\ Key("blocked_send", job[w].duty, job[w].person) \in Keys
         /\ pc[w] \in Vacating => VacateKey(w) \in Keys
BY DEF JobShape, DraftKey, AskKey, AssignKey, VacateKey, Key, Keys

LEMMA CurrentKeyType ==
  ASSUME TypeOK, JobShape, NEW w \in Workers, pc[w] \in Opened \cup Executed
  PROVE  CurrentKey(w) \in Keys
<1>1. pc[w] \in Engaged
  BY DEF Opened, Executed, Engaged, Labels
<1>2. \/ CurrentKey(w) \in {DraftKey(w), AskKey(w), AssignKey(w)}
      \/ pc[w] \in Vacating /\ CurrentKey(w) = VacateKey(w)
  BY DEF Opened, Executed, CurrentKey, Vacating
<1> QED
  BY <1>1, <1>2, KeyTypes

(* A step that changes no receipt and leaves its worker without one.        *)
LEMMA IdleReceipts ==
  ASSUME TypeOK, Receipted, NEW w \in Workers, NEW label, NEW j,
         Go(w, label, j), label \notin Opened \cup Executed, UNCHANGED ledger
  PROVE  Receipted' /\ LedgerStep
<1>1. /\ pc'[w] = label
      /\ \A v \in Workers \ {w} : /\ pc'[v] = pc[v]
                                /\ job'[v] = job[v]
  BY DEF Go, TypeOK
<1>2. \A v \in Workers \ {w} : CurrentKey(v)' = CurrentKey(v)
  BY <1>1 DEF CurrentKey, DraftKey, AskKey, AssignKey, VacateKey
<1>3. Receipted'
  BY <1>1, <1>2 DEF Receipted
<1> QED
  BY <1>3 DEF LedgerStep, EvidenceStep

(* A step that changes one receipt, which was free or the worker's own.     *)
LEMMA OneReceipt ==
  ASSUME TypeOK, JobShape, Receipted, NEW w \in Workers, NEW label, NEW j,
         Go(w, label, j), NEW key \in Keys,
         \/ ledger[key] = "absent"
         \/ pc[w] \in Opened \cup Executed /\ CurrentKey(w) = key,
         NEW r \in Results \ {"absent"}, ledger' = [ledger EXCEPT ![key] = r],
         label \in Opened \cup Executed => CurrentKey(w)' = key,
         label \in Opened => r = "open",
         label \in Executed => r = "executed"
  PROVE  Receipted' /\ LedgerStep
<1>1. /\ pc'[w] = label
      /\ \A v \in Workers \ {w} : /\ pc'[v] = pc[v]
                                /\ job'[v] = job[v]
  BY DEF Go, TypeOK
<1>2. \A v \in Workers \ {w} : CurrentKey(v)' = CurrentKey(v)
  BY <1>1 DEF CurrentKey, DraftKey, AskKey, AssignKey, VacateKey
<1>3. ledger'[key] = r /\ \A k \in Keys \ {key} : ledger'[k] = ledger[k]
  BY DEF TypeOK
<1>4. \A v \in Workers \ {w} :
        pc[v] \in Opened \cup Executed => CurrentKey(v) \in Keys \ {key}
  BY CurrentKeyType DEF Receipted
<1>5. ledger[key] \in {"absent", "open", "executed"}
  BY DEF Receipted
<1>6. Receipted'
  <2>1. ASSUME NEW v \in Workers
        PROVE  /\ pc'[v] \in Opened => ledger'[CurrentKey(v)'] = "open"
               /\ pc'[v] \in Executed => ledger'[CurrentKey(v)'] = "executed"
    <3>1. CASE v = w
      BY <1>1, <1>3, <3>1
    <3>2. CASE v # w
      BY <1>1, <1>2, <1>3, <1>4, <3>2 DEF Receipted
    <3> QED
      BY <3>1, <3>2
  <2>2. ASSUME NEW u \in Workers, NEW v \in Workers,
               pc'[u] \in Opened \cup Executed, pc'[v] \in Opened \cup Executed,
               CurrentKey(u)' = CurrentKey(v)'
        PROVE  u = v
    BY <1>1, <1>2, <1>4, <2>2 DEF Receipted
  <2> QED
    BY <2>1, <2>2 DEF Receipted
<1> QED
  BY <1>3, <1>5, <1>6 DEF LedgerStep, EvidenceStep

(* A step that changes no receipt and keeps its worker at its own.          *)
LEMMA SameReceipt ==
  ASSUME TypeOK, JobShape, Receipted, NEW w \in Workers, NEW label, NEW j,
         Go(w, label, j), UNCHANGED ledger,
         pc[w] \in Opened \cup Executed, CurrentKey(w)' = CurrentKey(w),
         label \in Opened => pc[w] \in Opened,
         label \in Executed => pc[w] \in Executed
  PROVE  Receipted' /\ LedgerStep
<1>1. /\ pc'[w] = label
      /\ \A v \in Workers \ {w} : /\ pc'[v] = pc[v]
                                /\ job'[v] = job[v]
  BY DEF Go, TypeOK
<1>2. \A v \in Workers : CurrentKey(v)' = CurrentKey(v)
  BY <1>1 DEF CurrentKey, DraftKey, AskKey, AssignKey, VacateKey
<1>3. Receipted'
  BY <1>1, <1>2 DEF Receipted
<1> QED
  BY <1>3 DEF LedgerStep, EvidenceStep

LEMMA BlockedReceipt ==
  ASSUME TypeOK, JobShape, Receipted, NEW w \in Workers, NEW label, NEW j,
         Go(w, label, j), NEW key \in Keys, RecordBlocked(key),
         label \notin Opened \cup Executed
  PROVE  Receipted' /\ LedgerStep
<1>1. CASE ledger[key] = "absent"
  BY <1>1, OneReceipt DEF RecordBlocked, Results
<1>2. CASE ledger[key] # "absent"
  <2>1. UNCHANGED ledger
    BY <1>2 DEF RecordBlocked, TypeOK
  <2> QED
    BY <2>1, IdleReceipts
<1> QED
  BY <1>1, <1>2

LEMMA ClosedReceipt ==
  ASSUME TypeOK, JobShape, Receipted, NEW w \in Workers, NEW label, NEW j,
         Go(w, label, j), label \notin Opened \cup Executed,
         pc[w] \in Executed, NEW r \in {"verified", "conflicted", "failed"},
         ledger' = [ledger EXCEPT ![CurrentKey(w)] = r]
  PROVE  Receipted' /\ LedgerStep
<1>1. CurrentKey(w) \in Keys
  BY CurrentKeyType
<1> QED
  BY <1>1, OneReceipt DEF Results

LEMMA SettleGo ==
  ASSUME NEW w, NEW gaps, Settle(w, gaps)
  PROVE  \E label \in {"idle", "sweep"}, j \in {NoJob, [NoJob EXCEPT !.gaps = gaps]} :
           Go(w, label, j)
BY DEF Settle

LEMMA ReplayReceipt ==
  ASSUME TypeOK, JobShape, Receipted, NEW w \in Workers, NEW key, NEW from, Replay(w, key, from)
  PROVE  Receipted' /\ LedgerStep
<1>1. PICK label \in {"idle", "sweep"}, j \in {NoJob, [NoJob EXCEPT !.gaps = job[w].gaps]} :
        Go(w, label, j)
  BY SettleGo DEF Replay
<1>2. label \notin Opened \cup Executed /\ UNCHANGED ledger
  BY DEF Opened, Executed, Replay, store
<1> QED
  BY <1>1, <1>2, IdleReceipts

LEMMA BeginReceipt ==
  ASSUME TypeOK, JobShape, Receipted, NEW w \in Workers, NEW key \in Keys, NEW from,
         NEW to \in Opened, Begin(w, key, from, to), CurrentKey(w)' = key
  PROVE  Receipted' /\ LedgerStep
<1>1. /\ Go(w, to, job[w]) /\ ledger[key] = "absent"
      /\ ledger' = [ledger EXCEPT ![key] = "open"]
  BY DEF Begin, Goto
<1>2. "open" \in Results \ {"absent"} /\ to \notin Executed
  BY DEF Results, Opened, Executed
<1> QED
  BY <1>1, <1>2, OneReceipt

LEMMA MarkReceipt ==
  ASSUME TypeOK, JobShape, Receipted, NEW w \in Workers, NEW from \in Opened,
         NEW to \in Executed, MarkExecuted(w, CurrentKey(w), from, to),
         CurrentKey(w)' = CurrentKey(w)
  PROVE  Receipted' /\ LedgerStep
<1>1. /\ Go(w, to, job[w]) /\ pc[w] \in Opened \cup Executed
      /\ ledger' = [ledger EXCEPT ![CurrentKey(w)] = "executed"]
  BY DEF MarkExecuted, Goto
<1>2. "executed" \in Results \ {"absent"} /\ to \notin Opened
  BY DEF Results, Opened, Executed
<1>3. CurrentKey(w) \in Keys
  BY <1>1, CurrentKeyType
<1> QED
  BY <1>1, <1>2, <1>3, OneReceipt

LEMMA AskReceipts ==
  ASSUME TypeOK, JobShape, Receipted, NEW w \in Workers, AskStep(w)
  PROVE  Receipted' /\ LedgerStep
<1> USE DEF Opened, Executed
<1>1. pc[w] \in Engaged
  BY DEF AskStep, RefuseSend, BeginDraft, ReplayDraft, PutDraft, MarkDraft, CloseDraft,
     BeginAsk, ReplayAsk, PutAsk, SendAsk, MarkAsk, UndoAsk, FailAsk, CloseAsk,
     Begin, Replay, MarkExecuted, Engaged, Labels
<1>2. DraftKey(w) \in Keys /\ AskKey(w) \in Keys
  BY <1>1, KeyTypes
<1>3. CASE RefuseSend(w)
  <2>1. PICK label, j : label \in {"draft_begin", "idle", "sweep"} /\ Go(w, label, j)
    <3>1. CASE job[w].verdict = "draft"
      BY <1>3, <3>1 DEF RefuseSend
    <3>2. CASE job[w].verdict # "draft"
      <4>1. Settle(w, job[w].gaps)
        BY <1>3, <3>2 DEF RefuseSend
      <4> QED
        BY <4>1 DEF Settle
    <3> QED
      BY <3>1, <3>2
  <2> QED
    BY <1>1, <1>3, <2>1, KeyTypes, BlockedReceipt DEF RefuseSend
<1>4. CASE BeginDraft(w)
  <2>1. CurrentKey(w)' = DraftKey(w)
    BY <1>4 DEF BeginDraft, Begin, Goto, Go, CurrentKey, DraftKey, TypeOK
  <2> QED
    BY <1>2, <1>4, <2>1, BeginReceipt DEF BeginDraft
<1>5. CASE BeginAsk(w)
  <2>1. CurrentKey(w)' = AskKey(w)
    BY <1>5 DEF BeginAsk, Begin, Goto, Go, CurrentKey, AskKey, TypeOK
  <2> QED
    BY <1>2, <1>5, <2>1, BeginReceipt DEF BeginAsk
<1>6. CASE ReplayDraft(w) \/ ReplayAsk(w)
  BY <1>6, ReplayReceipt DEF ReplayDraft, ReplayAsk
<1>7. CASE PutDraft(w)
  <2>1. Go(w, "draft_mark", job[w]) /\ UNCHANGED ledger /\ pc[w] = "draft_put"
    BY <1>7 DEF PutDraft, Goto
  <2>2. CurrentKey(w)' = CurrentKey(w)
    BY <2>1 DEF Go, CurrentKey, DraftKey, TypeOK
  <2> QED
    BY <2>1, <2>2, SameReceipt
<1>8. CASE MarkDraft(w)
  <2>1. CurrentKey(w)' = DraftKey(w) /\ CurrentKey(w) = DraftKey(w)
    BY <1>8 DEF MarkDraft, MarkExecuted, Goto, Go, CurrentKey, DraftKey, TypeOK
  <2> QED
    BY <1>8, <2>1, MarkReceipt DEF MarkDraft
<1>9. CASE CloseDraft(w)
  <2>1. /\ Settle(w, job[w].gaps) /\ pc[w] = "draft_close"
        /\ \E r \in {"verified", "conflicted"} : ledger' = [ledger EXCEPT ![DraftKey(w)] = r]
    BY <1>9 DEF CloseDraft, CloseReceipt
  <2>2. CurrentKey(w) = DraftKey(w)
    BY <2>1 DEF CurrentKey
  <2> QED
    BY <2>1, <2>2, SettleGo, ClosedReceipt
<1>10. CASE PutAsk(w)
  <2>1. Go(w, "ask_send", job[w]) /\ UNCHANGED ledger /\ pc[w] = "ask_put"
    BY <1>10 DEF PutAsk, Goto
  <2>2. CurrentKey(w)' = CurrentKey(w)
    BY <2>1 DEF Go, CurrentKey, AskKey, TypeOK
  <2> QED
    BY <2>1, <2>2, SameReceipt
<1>11. ASSUME NEW delivery \in Deliveries, SendAsk(w, delivery)
       PROVE  Receipted' /\ LedgerStep
  <2>1. PICK v : /\ Go(w, "ask_mark", [job[w] EXCEPT !.verdict = v])
                 /\ UNCHANGED ledger /\ pc[w] = "ask_send"
    BY <1>11 DEF SendAsk, store
  <2>2. /\ [job[w] EXCEPT !.verdict = v].duty = job[w].duty
        /\ [job[w] EXCEPT !.verdict = v].person = job[w].person
    BY DEF TypeOK, Job
  <2>3. CurrentKey(w)' = CurrentKey(w)
    BY <2>1, <2>2 DEF Go, CurrentKey, AskKey, TypeOK
  <2> QED
    BY <2>1, <2>3, SameReceipt
<1>12. CASE MarkAsk(w)
  <2>1. PICK to \in {"ask_close", "ask_undo"} : MarkExecuted(w, AskKey(w), "ask_mark", to)
    BY <1>12 DEF MarkAsk
  <2>2. CurrentKey(w)' = AskKey(w) /\ CurrentKey(w) = AskKey(w)
    BY <2>1 DEF MarkExecuted, Goto, Go, CurrentKey, AskKey, TypeOK
  <2> QED
    BY <2>1, <2>2, MarkReceipt
<1>13. CASE UndoAsk(w)
  <2>1. Go(w, "ask_fail", job[w]) /\ UNCHANGED ledger /\ pc[w] = "ask_undo"
    BY <1>13 DEF UndoAsk, Goto
  <2>2. CurrentKey(w)' = CurrentKey(w)
    BY <2>1 DEF Go, CurrentKey, AskKey, TypeOK
  <2> QED
    BY <2>1, <2>2, SameReceipt
<1>14. CASE FailAsk(w) \/ CloseAsk(w)
  <2>1. /\ Settle(w, job[w].gaps) /\ pc[w] \in {"ask_fail", "ask_close"}
        /\ \E r \in {"verified", "conflicted", "failed"} :
             ledger' = [ledger EXCEPT ![AskKey(w)] = r]
    BY <1>14 DEF FailAsk, CloseAsk, CloseReceipt
  <2>2. CurrentKey(w) = AskKey(w)
    BY <2>1 DEF CurrentKey
  <2> QED
    BY <2>1, <2>2, SettleGo, ClosedReceipt
<1> QED
  BY <1>3, <1>4, <1>5, <1>6, <1>7, <1>8, <1>9, <1>10, <1>11, <1>12, <1>13, <1>14
  DEF AskStep
LEMMA ResponseReceipts ==
  ASSUME TypeOK, JobShape, Receipted, NEW w \in Workers, ResponseStep(w)
  PROVE  Receipted' /\ LedgerStep
<1> USE DEF Opened, Executed
<1>1. pc[w] \in Engaged
  BY DEF ResponseStep, ReadRosterForAnswer, PutAnswer, AuthorizeAssignment,
     RefuseAssignment, BeginAssignment, ReplayAssignment, WriteAssignment, MarkAssignment,
     CloseAssignment, Begin, Replay, MarkExecuted, Engaged, Labels
<1>2. AssignKey(w) \in Keys
  BY <1>1, KeyTypes
<1>3. CASE ReadRosterForAnswer(w) \/ PutAnswer(w) \/ AuthorizeAssignment(w)
  <2>1. /\ \E label \in {"respond_put", "assign", "idle", "assign_begin", "assign_refuse"} :
             \E j : Go(w, label, j)
        /\ UNCHANGED ledger
    BY <1>3 DEF ReadRosterForAnswer, PutAnswer, AuthorizeAssignment, Goto, store
  <2> QED
    BY <2>1, IdleReceipts
<1>4. CASE RefuseAssignment(w)
  <2>1. Go(w, "idle", NoJob) /\ RecordBlocked(AssignKey(w))
    BY <1>4 DEF RefuseAssignment
  <2> QED
    BY <1>2, <2>1, BlockedReceipt
<1>5. CASE BeginAssignment(w)
  <2>1. CurrentKey(w)' = AssignKey(w)
    BY <1>5 DEF BeginAssignment, Begin, Goto, Go, CurrentKey, AssignKey, TypeOK
  <2> QED
    BY <1>2, <1>5, <2>1, BeginReceipt DEF BeginAssignment
<1>6. CASE ReplayAssignment(w)
  BY <1>6, ReplayReceipt DEF ReplayAssignment
<1>7. CASE WriteAssignment(w)
  <2>1. Go(w, "assign_mark", job[w]) /\ UNCHANGED ledger /\ pc[w] = "assign_write"
    BY <1>7 DEF WriteAssignment, Goto
  <2>2. CurrentKey(w)' = CurrentKey(w)
    BY <2>1 DEF Go, CurrentKey, AssignKey, TypeOK
  <2> QED
    BY <2>1, <2>2, SameReceipt
<1>8. CASE MarkAssignment(w)
  <2>1. CurrentKey(w)' = AssignKey(w) /\ CurrentKey(w) = AssignKey(w)
    BY <1>8 DEF MarkAssignment, MarkExecuted, Goto, Go, CurrentKey, AssignKey, TypeOK
  <2> QED
    BY <1>8, <2>1, MarkReceipt DEF MarkAssignment
<1>9. CASE CloseAssignment(w)
  <2>1. /\ \E label \in {"others", "idle"} : \E j : Go(w, label, j)
        /\ pc[w] = "assign_close"
        /\ \E r \in {"verified", "conflicted"} : ledger' = [ledger EXCEPT ![AssignKey(w)] = r]
    BY <1>9 DEF CloseAssignment, CloseReceipt, Goto
  <2>2. CurrentKey(w) = AssignKey(w)
    BY <2>1 DEF CurrentKey
  <2> QED
    BY <2>1, <2>2, ClosedReceipt
<1> QED
  BY <1>3, <1>4, <1>5, <1>6, <1>7, <1>8, <1>9 DEF ResponseStep

LEMMA WithdrawalReceipts ==
  ASSUME TypeOK, JobShape, Receipted, NEW w \in Workers, WithdrawalStep(w)
  PROVE  Receipted' /\ LedgerStep
<1> USE DEF Opened, Executed
<1>1. pc[w] \in Engaged \cap Vacating
  BY DEF WithdrawalStep, RefuseWithdrawal, BeginWithdrawal, ReplayWithdrawal, WriteVacancy,
     MarkVacancy, CloseVacancy, RecordDeparture, Begin, Replay, MarkExecuted, Engaged,
     Vacating, Labels
<1>2. VacateKey(w) \in Keys
  BY <1>1, KeyTypes
<1>3. CASE RecordDeparture(w)
  <2>1. Go(w, "idle", NoJob) /\ UNCHANGED ledger
    BY <1>3 DEF RecordDeparture
  <2> QED
    BY <2>1, IdleReceipts
<1>4. CASE RefuseWithdrawal(w)
  <2>1. Go(w, "idle", NoJob) /\ RecordBlocked(VacateKey(w))
    BY <1>4 DEF RefuseWithdrawal
  <2> QED
    BY <1>2, <2>1, BlockedReceipt
<1>5. CASE BeginWithdrawal(w)
  <2>1. CurrentKey(w)' = VacateKey(w)
    BY <1>5 DEF BeginWithdrawal, Begin, Goto, Go, CurrentKey, VacateKey, TypeOK
  <2> QED
    BY <1>2, <1>5, <2>1, BeginReceipt DEF BeginWithdrawal
<1>6. CASE ReplayWithdrawal(w)
  BY <1>6, ReplayReceipt DEF ReplayWithdrawal
<1>7. CASE WriteVacancy(w)
  <2>1. Go(w, "vacate_mark", job[w]) /\ UNCHANGED ledger /\ pc[w] = "vacate_write"
    BY <1>7 DEF WriteVacancy, Goto
  <2>2. CurrentKey(w)' = CurrentKey(w)
    BY <2>1 DEF Go, CurrentKey, VacateKey, TypeOK
  <2> QED
    BY <2>1, <2>2, SameReceipt
<1>8. CASE MarkVacancy(w)
  <2>1. CurrentKey(w)' = VacateKey(w) /\ CurrentKey(w) = VacateKey(w)
    BY <1>8 DEF MarkVacancy, MarkExecuted, Goto, Go, CurrentKey, VacateKey, TypeOK
  <2> QED
    BY <1>8, <2>1, MarkReceipt DEF MarkVacancy
<1>9. CASE CloseVacancy(w)
  <2>1. /\ Go(w, "others", job[w]) /\ pc[w] = "vacate_close"
        /\ \E r \in {"verified", "conflicted"} : ledger' = [ledger EXCEPT ![VacateKey(w)] = r]
    BY <1>9 DEF CloseVacancy, CloseReceipt, Goto
  <2>2. CurrentKey(w) = VacateKey(w)
    BY <2>1 DEF CurrentKey
  <2> QED
    BY <2>1, <2>2, ClosedReceipt
<1> QED
  BY <1>3, <1>4, <1>5, <1>6, <1>7, <1>8, <1>9 DEF WithdrawalStep

(* Every other operation leaves the receipts to those who work under them.  *)
LEMMA OtherReceipts ==
  ASSUME NEW w \in Workers,
         \/ Choose(w) \/ SweepStep(w) \/ Request(w) \/ SupersedeStep(w) \/ Crash(w)
  PROVE  /\ \E label : label \notin Opened \cup Executed /\ \E j : Go(w, label, j)
         /\ UNCHANGED ledger
<1> USE DEF Opened, Executed, Settle, Goto, store
<1>1. CASE Choose(w)
  BY <1>1 DEF Choose, AskNobody, ChooseCandidate
<1>2. CASE SweepStep(w)
  BY <1>2 DEF SweepStep, FindGaps, ExpireLapsed
<1>3. CASE StartSweep(w)
  BY <1>3 DEF StartSweep
<1>4. ASSUME NEW d \in Duties, NEW p \in People,
             \/ \E accept \in BOOLEAN : TapLink(w, d, p, accept)
             \/ \E text \in Texts : ReceiveNotice(w, d, p, text)
      PROVE  /\ \E label : label \notin Opened \cup Executed /\ \E j : Go(w, label, j)
             /\ UNCHANGED ledger
  BY <1>4 DEF TapLink, ReceiveNotice
<1>5. CASE SupersedeStep(w)
  BY <1>5 DEF SupersedeStep, ListOtherAsks, SupersedeOtherAsk, EndSupersede
<1>6. CASE Crash(w)
  BY <1>6 DEF Crash
<1> QED
  BY <1>1, <1>2, <1>3, <1>4, <1>5, <1>6 DEF Request

LEMMA ReceiptedStep ==
  TypeOK /\ JobShape /\ Receipted /\ [Next]_vars => Receipted' /\ [LedgerStep]_vars
<1> SUFFICES ASSUME TypeOK, JobShape, Receipted, [Next]_vars
             PROVE  Receipted' /\ [LedgerStep]_vars
  OBVIOUS
<1>1. CASE UNCHANGED vars
  <2>1. UNCHANGED <<pc, job, ledger>>
    BY <1>1 DEF vars, store
  <2>2. \A w \in Workers : CurrentKey(w)' = CurrentKey(w)
    BY <2>1 DEF CurrentKey, DraftKey, AskKey, AssignKey, VacateKey
  <2> QED
    BY <1>1, <2>1, <2>2 DEF Receipted
<1>2. CASE Environment
  <2>1. UNCHANGED <<pc, job, ledger>>
    BY <1>2 DEF Environment, Lapse, ToggleGrant, Dusk, store
  <2>2. \A w \in Workers : CurrentKey(w)' = CurrentKey(w)
    BY <2>1 DEF CurrentKey, DraftKey, AskKey, AssignKey, VacateKey
  <2> QED
    BY <2>1, <2>2 DEF Receipted, LedgerStep, EvidenceStep
<1>3. ASSUME NEW w \in Workers,
             \/ Choose(w) \/ SweepStep(w) \/ Request(w) \/ SupersedeStep(w) \/ Crash(w)
      PROVE  Receipted' /\ LedgerStep
  BY <1>3, OtherReceipts, IdleReceipts
<1>4. ASSUME NEW w \in Workers, AskStep(w) \/ ResponseStep(w) \/ WithdrawalStep(w)
      PROVE  Receipted' /\ LedgerStep
  BY <1>4, AskReceipts, ResponseReceipts, WithdrawalReceipts
<1> QED
  BY <1>1, <1>2, <1>3, <1>4 DEF Next

LEMMA ReceiptedInit == Init => Receipted
BY DEF Init, Receipted, Opened, Executed

(* A receipt that says how an action ended is never rewritten, whoever      *)
(* replays, refuses or dies afterwards: Ledger.close and record_blocked of  *)
(* core/ledger.py work on the worker's own receipt or on none.              *)
THEOREM Evidence == Spec => EvidenceIsKept
<1>1. Init => TypeOK /\ JobShape /\ Receipted
  BY TypeInit, ReceiptedInit
<1>2. (TypeOK /\ JobShape /\ Receipted) /\ [Next]_vars
        => (TypeOK /\ JobShape /\ Receipted)'
  BY TypeStep, ReceiptedStep
<1>3. (TypeOK /\ JobShape /\ Receipted) /\ [Next]_vars => [EvidenceStep]_vars
  BY ReceiptedStep DEF LedgerStep
<1> QED
  BY <1>1, <1>2, <1>3, PTL DEF Spec, EvidenceIsKept
-----------------------------------------------------------------------------
(* Messages. *)

Sending == {"ask_put", "ask_send"}

(* A step that sends nothing may bring its worker to the sending only from  *)
(* there, or under a receipt that is new.                                   *)
LEMMA GoMailed ==
  ASSUME TypeOK, Mailed, LedgerStep, UNCHANGED inbox,
         NEW w \in Workers, NEW label, NEW j, Go(w, label, j),
         label \in Sending =>
           /\ j = job[w]
           /\ pc[w] \in Sending \/ ledger[AskKey(w)] = "absent"
  PROVE  Mailed'
<1>1. /\ pc'[w] = label
      /\ job'[w] = j
      /\ \A v \in Workers \ {w} : pc'[v] = pc[v] /\ job'[v] = job[v]
  BY DEF Go, TypeOK
<1>2. ASSUME NEW d \in Duties, NEW p \in People, inbox'[<<d, p>>] = 1
      PROVE  /\ ledger'[Key("ask", d, p)] # "absent"
             /\ \A v \in Workers :
                  ~(pc'[v] \in Sending /\ AskKey(v)' = Key("ask", d, p))
  <2>1. Key("ask", d, p) \in Keys
    BY DEF Key, Keys
  <2>2. /\ ledger[Key("ask", d, p)] # "absent"
        /\ \A v \in Workers : ~(pc[v] \in Sending /\ AskKey(v) = Key("ask", d, p))
    BY <1>2 DEF Mailed, Sending
  <2>3. ASSUME NEW v \in Workers, pc'[v] \in Sending, AskKey(v)' = Key("ask", d, p)
        PROVE  FALSE
    <3>1. job'[v] = job[v]
      BY <1>1, <2>3
    <3>2. AskKey(v) = Key("ask", d, p)
      BY <2>3, <3>1 DEF AskKey
    <3> QED
      BY <1>1, <2>2, <2>3, <3>2
  <2> QED
    BY <2>1, <2>2, <2>3 DEF LedgerStep
<1>3. \A d \in Duties, p \in People : inbox'[<<d, p>>] <= 1
  BY DEF Mailed
<1> QED
  BY <1>2, <1>3 DEF Mailed, Sending

LEMMA QuietAskSteps ==
  ASSUME NEW w \in Workers, AskStep(w), \A delivery \in Deliveries : ~SendAsk(w, delivery)
  PROVE  /\ UNCHANGED inbox
         /\ \E label, j : /\ Go(w, label, j)
                          /\ label \in Sending =>
                               /\ j = job[w]
                               /\ pc[w] \in Sending \/ ledger[AskKey(w)] = "absent"
<1> USE DEF Sending, Settle, Goto, world
<1>1. CASE RefuseSend(w)
  BY <1>1 DEF RefuseSend
<1>2. CASE BeginDraft(w) \/ ReplayDraft(w) \/ PutDraft(w) \/ MarkDraft(w) \/ CloseDraft(w)
  BY <1>2 DEF BeginDraft, ReplayDraft, PutDraft, MarkDraft, CloseDraft, Begin, Replay,
     MarkExecuted
<1>3. CASE BeginAsk(w)
  BY <1>3 DEF BeginAsk, Begin
<1>4. CASE ReplayAsk(w) \/ PutAsk(w)
  BY <1>4 DEF ReplayAsk, Replay, PutAsk
<1>5. CASE MarkAsk(w) \/ UndoAsk(w) \/ FailAsk(w) \/ CloseAsk(w)
  BY <1>5 DEF MarkAsk, MarkExecuted, UndoAsk, FailAsk, CloseAsk
<1> QED
  BY <1>1, <1>2, <1>3, <1>4, <1>5 DEF AskStep

LEMMA QuietSteps ==
  ASSUME NEW w \in Workers,
         \/ Choose(w) \/ SweepStep(w) \/ Request(w) \/ ResponseStep(w)
         \/ WithdrawalStep(w) \/ SupersedeStep(w) \/ Crash(w)
  PROVE  UNCHANGED inbox /\ \E label : label \notin Sending /\ \E j : Go(w, label, j)
<1> USE DEF Sending, Settle, Goto, world
<1>1. CASE Choose(w)
  BY <1>1 DEF Choose, AskNobody, ChooseCandidate
<1>2. CASE SweepStep(w)
  BY <1>2 DEF SweepStep, FindGaps, ExpireLapsed
<1>3. CASE StartSweep(w)
  BY <1>3 DEF StartSweep
<1>4. ASSUME NEW d \in Duties, NEW p \in People,
             \/ \E accept \in BOOLEAN : TapLink(w, d, p, accept)
             \/ \E text \in Texts : ReceiveNotice(w, d, p, text)
      PROVE  UNCHANGED inbox /\ \E label : label \notin Sending /\ \E j : Go(w, label, j)
  BY <1>4 DEF TapLink, ReceiveNotice
<1>5. CASE ResponseStep(w)
  BY <1>5 DEF ResponseStep, ReadRosterForAnswer, PutAnswer, AuthorizeAssignment,
     RefuseAssignment, BeginAssignment, ReplayAssignment, WriteAssignment, MarkAssignment,
     CloseAssignment, Begin, Replay, MarkExecuted
<1>6. CASE WithdrawalStep(w)
  BY <1>6 DEF WithdrawalStep, RefuseWithdrawal, BeginWithdrawal, ReplayWithdrawal,
     WriteVacancy, MarkVacancy, CloseVacancy, RecordDeparture, Begin, Replay, MarkExecuted
<1>7. CASE SupersedeStep(w)
  BY <1>7 DEF SupersedeStep, ListOtherAsks, SupersedeOtherAsk, EndSupersede
<1>8. CASE Crash(w)
  BY <1>8 DEF Crash
<1> QED
  BY <1>1, <1>2, <1>3, <1>4, <1>5, <1>6, <1>7, <1>8 DEF Request

(* The sender holds the only receipt of the message, and has not sent yet.  *)
LEMMA SendMailed ==
  ASSUME TypeOK, JobShape, Receipted, Mailed, NEW w \in Workers, NEW delivery,
         SendAsk(w, delivery)
  PROVE  Mailed'
<1> DEFINE dp == <<job[w].duty, job[w].person>>
<1>1. /\ pc[w] = "ask_send"
      /\ job[w].duty \in Duties /\ job[w].person \in People
  BY DEF SendAsk, JobShape, Engaged, Labels
<1>2. PICK v : Go(w, "ask_mark", [job[w] EXCEPT !.verdict = v])
  BY DEF SendAsk
<1>3. /\ pc'[w] = "ask_mark"
      /\ \A u \in Workers \ {w} : pc'[u] = pc[u] /\ job'[u] = job[u]
      /\ UNCHANGED ledger
  BY <1>2 DEF SendAsk, Go, TypeOK, store
<1>4. /\ ledger[AskKey(w)] = "open"
      /\ AskKey(w) = Key("ask", job[w].duty, job[w].person)
  BY <1>1 DEF Receipted, Opened, CurrentKey, AskKey
<1>5. inbox[dp] = 0
  <2>1. inbox[dp] \in Nat /\ inbox[dp] <= 1
    BY <1>1 DEF TypeOK, Mailed
  <2>2. inbox[dp] # 1
    BY <1>1, <1>4 DEF Mailed
  <2> QED
    BY <2>1, <2>2
<1>6. /\ inbox'[dp] <= 1
      /\ \A x \in (Duties \X People) \ {dp} : inbox'[x] = inbox[x]
  BY <1>1, <1>5 DEF SendAsk, TypeOK
<1>7. \A u \in Workers \ {w} :
        ~(pc[u] \in Sending /\ AskKey(u) = AskKey(w))
  BY <1>1 DEF Receipted, Opened, CurrentKey, Sending
<1>8. ASSUME NEW d \in Duties, NEW p \in People
      PROVE  /\ inbox'[<<d, p>>] <= 1
             /\ inbox'[<<d, p>>] = 1 =>
                  /\ ledger'[Key("ask", d, p)] # "absent"
                  /\ \A u \in Workers :
                       ~(pc'[u] \in Sending /\ AskKey(u)' = Key("ask", d, p))
  <2>1. \A u \in Workers \ {w} : AskKey(u)' = AskKey(u)
    BY <1>3 DEF AskKey
  <2>2. pc'[w] \notin Sending
    BY <1>3 DEF Sending
  <2>3. CASE <<d, p>> = dp
    BY <1>3, <1>4, <1>6, <1>7, <2>1, <2>2, <2>3
  <2>4. CASE <<d, p>> # dp
    <3>1. inbox'[<<d, p>>] = inbox[<<d, p>>]
      BY <1>6, <2>4
    <3> QED
      BY <1>3, <2>1, <2>2, <3>1 DEF Mailed, Sending
  <2> QED
    BY <2>3, <2>4
<1> QED
  BY <1>8 DEF Mailed, Sending

LEMMA MailedStep ==
  TypeOK /\ JobShape /\ Receipted /\ Mailed /\ [Next]_vars => Mailed'
<1> SUFFICES ASSUME TypeOK, JobShape, Receipted, Mailed, [Next]_vars
             PROVE  Mailed'
  OBVIOUS
<1>1. CASE UNCHANGED vars \/ Environment
  <2>1. UNCHANGED <<pc, job, ledger, inbox>>
    BY <1>1 DEF vars, store, world, Environment, Lapse, ToggleGrant, Dusk
  <2>2. \A w \in Workers : AskKey(w)' = AskKey(w)
    BY <2>1 DEF AskKey
  <2> QED
    BY <2>1, <2>2 DEF Mailed
<1>2. CASE ~UNCHANGED vars /\ ~Environment
  <2>1. LedgerStep
    BY <1>2, ReceiptedStep
  <2>2. ASSUME NEW w \in Workers, NEW delivery \in Deliveries, SendAsk(w, delivery)
        PROVE  Mailed'
    BY <2>2, SendMailed
  <2>3. ASSUME NEW w \in Workers, AskStep(w),
               \A delivery \in Deliveries : ~SendAsk(w, delivery)
        PROVE  Mailed'
    BY <2>1, <2>3, QuietAskSteps, GoMailed
  <2>4. ASSUME NEW w \in Workers,
               \/ Choose(w) \/ SweepStep(w) \/ Request(w) \/ ResponseStep(w)
               \/ WithdrawalStep(w) \/ SupersedeStep(w) \/ Crash(w)
        PROVE  Mailed'
    BY <2>1, <2>4, QuietSteps, GoMailed
  <2> QED
    BY <1>2, <2>2, <2>3, <2>4 DEF Next
<1> QED
  BY <1>1, <1>2

LEMMA MailedInit == Init => Mailed
BY DEF Init, Mailed

(* The inductive invariant: what every worker may rely on at each step.     *)
THEOREM Invariant == Spec => []IInv
<1>1. Init => IInv
  BY TypeInit, ConsentedInit, ReceiptedInit, MailedInit DEF IInv
<1>2. IInv /\ [Next]_vars => IInv'
  BY TypeStep, ConsentedStep, ReceiptedStep, MailedStep DEF IInv
<1> QED
  BY <1>1, <1>2, PTL DEF Spec

(* Nobody is mailed twice about one duty: the receipt of the ask is claimed *)
(* once, and a worker that dies after sending leaves it claimed             *)
(* (core/fill.py _send_ask, core/ledger.py begin).                          *)
THEOREM OneMessage == Spec => []AtMostOneMessage
<1>1. IInv => AtMostOneMessage
  BY DEF IInv, Mailed, AtMostOneMessage
<1> QED
  BY <1>1, Invariant, PTL

(* The roster changes, and a message leaves, only under an open receipt     *)
(* that names that very change (core/ledger.py: written before execution).  *)
THEOREM WrittenAhead == Spec => WriteAhead
<1>1. IInv /\ [Next]_vars => [WriteAheadStep]_vars
  <2> SUFFICES ASSUME IInv, [Next]_vars
               PROVE  WriteAheadStep
    OBVIOUS
  <2> USE DEF IInv
  <2>1. ASSUME NEW d \in Duties, assigned'[d] # assigned[d]
        PROVE  \E key \in Keys : Justifies(key, d)
    <3>1. PICK w \in Workers : WriteAssignment(w) \/ WriteVacancy(w)
      BY <2>1, RosterSteps
    <3>2. CASE WriteAssignment(w)
      <4>1. pc[w] = "assign_write" /\ d = job[w].duty /\ assigned'[d] = job[w].person
        BY <2>1, <3>2 DEF WriteAssignment, TypeOK
      <4>2. ledger[AssignKey(w)] = "open" /\ AssignKey(w) \in Keys
        BY <4>1, KeyTypes DEF Receipted, Opened, CurrentKey, Engaged, Labels
      <4>3. AssignKey(w) = <<"assign", job[w].duty, job[w].person, None>>
        BY DEF AssignKey, Key
      <4>4. Justifies(AssignKey(w), d)
        BY <4>1, <4>2, <4>3 DEF Justifies
      <4> QED
        BY <4>2, <4>4
    <3>3. CASE WriteVacancy(w)
      <4>1. pc[w] = "vacate_write" /\ d = job[w].duty /\ assigned'[d] = None
        BY <2>1, <3>3 DEF WriteVacancy, TypeOK
      <4>2. ledger[VacateKey(w)] = "open" /\ VacateKey(w) \in Keys
        BY <4>1, KeyTypes DEF Receipted, Opened, CurrentKey, Engaged, Labels, Vacating
      <4>3. VacateKey(w) = <<"withdraw", job[w].duty, job[w].person, job[w].text>>
        BY DEF VacateKey
      <4>4. Justifies(VacateKey(w), d)
        BY <4>1, <4>2, <4>3 DEF Justifies
      <4> QED
        BY <4>2, <4>4
    <3> QED
      BY <3>1, <3>2, <3>3
  <2>2. ASSUME NEW dp \in Duties \X People, inbox'[dp] # inbox[dp]
        PROVE  ledger[Key("ask", dp[1], dp[2])] = "open"
    <3>1. PICK w \in Workers, delivery \in Deliveries : SendAsk(w, delivery)
      <4>1. ~UNCHANGED vars /\ ~Environment
        BY <2>2 DEF vars, world, Environment, Lapse, ToggleGrant, Dusk
      <4> QED
        BY <2>2, <4>1, QuietAskSteps, QuietSteps DEF Next
    <3>2. pc[w] = "ask_send" /\ dp = <<job[w].duty, job[w].person>>
      BY <2>2, <3>1 DEF SendAsk, TypeOK
    <3> QED
      BY <3>2 DEF Receipted, Opened, CurrentKey, AskKey
  <2> QED
    BY <2>1, <2>2 DEF WriteAheadStep
<1> QED
  BY <1>1, Invariant, PTL DEF Spec, WriteAhead
=============================================================================
