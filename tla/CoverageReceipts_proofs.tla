------------------------ MODULE CoverageReceipts_proofs ------------------------
(***************************************************************************)
(* What the receipts of CoverageService say after the fact, for every      *)
(* roster, every number of workers and every number of crashes: which of   *)
(* them are left open, and what a failed or a verified ask stands for.     *)
(***************************************************************************)
EXTENDS CoverageService_proofs, FiniteSetTheorems

-----------------------------------------------------------------------------
(* How a step of one worker moves the receipts. *)

Holding == Opened \cup Executed

OthersStay(w) == \A v \in Workers \ {w} : pc'[v] = pc[v] /\ job'[v] = job[v]

SetReceipt(key, r) == ledger' = [ledger EXCEPT ![key] = r]

(* It claims one, goes on under its own, closes its own, or has none.       *)
Starting == {"draft_put", "ask_put", "assign_write", "vacate_write"}

TakesReceipt(w) ==
  /\ pc[w] \notin Holding /\ pc'[w] \in Starting
  /\ \E key \in Keys : /\ ledger[key] = "absent" /\ SetReceipt(key, "open")
                       /\ CurrentKey(w)' = key

KeepsReceipt(w) ==
  /\ pc[w] \in Holding /\ pc'[w] \in Holding
  /\ CurrentKey(w)' = CurrentKey(w)
  /\ UNCHANGED ledger \/ SetReceipt(CurrentKey(w), "executed")

ClosesReceipt(w) ==
  /\ pc[w] \in Executed \ {"ask_undo"} /\ pc'[w] \notin Holding
  /\ \E r \in {"verified", "conflicted", "failed"} :
       SetReceipt(CurrentKey(w), r) /\ (r = "failed" <=> pc[w] = "ask_fail")

NoReceipt(w) ==
  /\ pc[w] \notin Holding /\ pc'[w] \notin Holding
  /\ UNCHANGED ledger \/ \E key \in Keys : RecordBlocked(key)

ReceiptMove(w) ==
  /\ OthersStay(w)
  /\ TakesReceipt(w) \/ KeepsReceipt(w) \/ ClosesReceipt(w) \/ NoReceipt(w)

LEMMA GoMoves ==
  ASSUME TypeOK, NEW w \in Workers, NEW label, NEW j, Go(w, label, j)
  PROVE  OthersStay(w) /\ pc'[w] = label /\ job'[w] = j
BY DEF Go, TypeOK, OthersStay

LEMMA BeginMoves ==
  ASSUME TypeOK, NEW w \in Workers, NEW key \in Keys, NEW from, from \notin Holding,
         NEW to \in Starting, Begin(w, key, from, to), CurrentKey(w)' = key
  PROVE  ReceiptMove(w)
<1>1. Go(w, to, job[w]) /\ pc[w] = from
  BY DEF Begin, Goto
<1>2. OthersStay(w) /\ pc'[w] = to
  BY <1>1, GoMoves
<1> QED
  BY <1>1, <1>2 DEF ReceiptMove, TakesReceipt, Begin, SetReceipt

LEMMA ReplayMoves ==
  ASSUME TypeOK, NEW w \in Workers, NEW key, NEW from, from \notin Holding,
         Replay(w, key, from)
  PROVE  ReceiptMove(w)
<1>1. PICK label \in {"idle", "sweep"}, j \in {NoJob, [NoJob EXCEPT !.gaps = job[w].gaps]} :
        Go(w, label, j)
  BY SettleGo DEF Replay
<1>2. OthersStay(w) /\ pc'[w] = label
  BY <1>1, GoMoves
<1>3. pc[w] = from /\ UNCHANGED ledger
  BY DEF Replay, store
<1>4. label \notin Holding
  BY DEF Holding, Opened, Executed
<1> QED
  BY <1>2, <1>3, <1>4 DEF ReceiptMove, NoReceipt

(* A step of a worker that has no receipt and gets none.                    *)
LEMMA FreeMoves ==
  ASSUME TypeOK, NEW w \in Workers, pc[w] \notin Holding,
         NEW label, label \notin Holding, NEW j, Go(w, label, j),
         UNCHANGED ledger \/ \E key \in Keys : RecordBlocked(key)
  PROVE  ReceiptMove(w)
BY GoMoves DEF ReceiptMove, NoReceipt

(* A step under a receipt that stays the same.                              *)
LEMMA OnwardMoves ==
  ASSUME TypeOK, NEW w \in Workers, pc[w] \in Holding,
         NEW label \in Holding, NEW j, Go(w, label, j),
         CurrentKey(w)' = CurrentKey(w),
         UNCHANGED ledger \/ SetReceipt(CurrentKey(w), "executed")
  PROVE  ReceiptMove(w)
BY GoMoves DEF ReceiptMove, KeepsReceipt

LEMMA CloseMoves ==
  ASSUME TypeOK, NEW w \in Workers, pc[w] \in Executed \ {"ask_undo"},
         NEW label, label \notin Holding, NEW j, Go(w, label, j),
         NEW r \in {"failed", "verified", "conflicted"},
         SetReceipt(CurrentKey(w), r), r = "failed" <=> pc[w] = "ask_fail"
  PROVE  ReceiptMove(w)
BY GoMoves DEF ReceiptMove, ClosesReceipt

LEMMA AskMoves ==
  ASSUME TypeOK, JobShape, NEW w \in Workers, AskStep(w)
  PROVE  ReceiptMove(w)
<1> USE DEF Opened, Executed, Holding
<1>1. pc[w] \in Engaged
  BY DEF AskStep, RefuseSend, BeginDraft, ReplayDraft, PutDraft, MarkDraft, CloseDraft,
     BeginAsk, ReplayAsk, PutAsk, SendAsk, MarkAsk, UndoAsk, FailAsk, CloseAsk,
     Begin, Replay, MarkExecuted, Engaged, Labels
<1>2. DraftKey(w) \in Keys /\ AskKey(w) \in Keys
  BY <1>1, KeyTypes
<1>3. CASE RefuseSend(w)
  <2>1. PICK label, j : label \in {"draft_begin", "idle", "sweep"} /\ Go(w, label, j)
    <3>1. CASE job[w].verdict = "draft"
      BY <1>3, <3>1 DEF RefuseSend
    <3>2. CASE job[w].verdict # "draft"
      <4>1. Settle(w, job[w].gaps)
        BY <1>3, <3>2 DEF RefuseSend
      <4> QED
        BY <4>1 DEF Settle
    <3> QED
      BY <3>1, <3>2
  <2>2. pc[w] = "refuse" /\ \E key \in Keys : RecordBlocked(key)
    BY <1>1, <1>3, KeyTypes DEF RefuseSend
  <2> QED
    BY <2>1, <2>2, FreeMoves
<1>4. CASE BeginDraft(w)
  <2>1. CurrentKey(w)' = DraftKey(w)
    BY <1>4 DEF BeginDraft, Begin, Goto, Go, CurrentKey, DraftKey, TypeOK
  <2> QED
    BY <1>2, <1>4, <2>1, BeginMoves DEF BeginDraft, Starting
<1>5. CASE BeginAsk(w)
  <2>1. CurrentKey(w)' = AskKey(w)
    BY <1>5 DEF BeginAsk, Begin, Goto, Go, CurrentKey, AskKey, TypeOK
  <2> QED
    BY <1>2, <1>5, <2>1, BeginMoves DEF BeginAsk, Starting
<1>6. CASE ReplayDraft(w) \/ ReplayAsk(w)
  BY <1>6, ReplayMoves DEF ReplayDraft, ReplayAsk
<1>7. CASE PutDraft(w) \/ PutAsk(w) \/ UndoAsk(w)
  <2>1. PICK label \in {"draft_mark", "ask_send", "ask_fail"} :
          /\ Go(w, label, job[w])
          /\ UNCHANGED ledger
          /\ \/ pc[w] = "draft_put" /\ label = "draft_mark"
             \/ pc[w] = "ask_put" /\ label = "ask_send"
             \/ pc[w] = "ask_undo" /\ label = "ask_fail"
    BY <1>7 DEF PutDraft, PutAsk, UndoAsk, Goto
  <2>2. CurrentKey(w)' = CurrentKey(w)
    BY <2>1 DEF Go, CurrentKey, AskKey, DraftKey, TypeOK
  <2> QED
    BY <2>1, <2>2, OnwardMoves
<1>8. CASE MarkDraft(w) \/ MarkAsk(w)
  <2>1. PICK label \in {"draft_close", "ask_close", "ask_undo"} :
          /\ Go(w, label, job[w])
          /\ \/ pc[w] = "draft_mark" /\ label = "draft_close" /\ SetReceipt(DraftKey(w), "executed")
             \/ pc[w] = "ask_mark" /\ label # "draft_close" /\ SetReceipt(AskKey(w), "executed")
    BY <1>8 DEF MarkDraft, MarkAsk, MarkExecuted, Goto, SetReceipt
  <2>2. CurrentKey(w)' = CurrentKey(w) /\ SetReceipt(CurrentKey(w), "executed")
    BY <2>1 DEF Go, CurrentKey, AskKey, DraftKey, TypeOK
  <2> QED
    BY <2>1, <2>2, OnwardMoves
<1>9. CASE CloseDraft(w) \/ FailAsk(w) \/ CloseAsk(w)
  <2>1. PICK label \in {"idle", "sweep"} : \E j : Go(w, label, j)
    BY <1>9, SettleGo DEF CloseDraft, FailAsk, CloseAsk
  <2>2. /\ pc[w] \in {"draft_close", "ask_fail", "ask_close"}
        /\ \E r \in {"verified", "conflicted", "failed"} :
             SetReceipt(CurrentKey(w), r) /\ (r = "failed" <=> pc[w] = "ask_fail")
    BY <1>9 DEF CloseDraft, FailAsk, CloseAsk, CloseReceipt, SetReceipt, CurrentKey
  <2> QED
    BY <2>1, <2>2, CloseMoves
<1>10. ASSUME NEW delivery \in Deliveries, SendAsk(w, delivery)
       PROVE  ReceiptMove(w)
  <2>1. PICK v : /\ Go(w, "ask_mark", [job[w] EXCEPT !.verdict = v])
                 /\ UNCHANGED ledger /\ pc[w] = "ask_send"
    BY <1>10 DEF SendAsk, store
  <2>2. /\ [job[w] EXCEPT !.verdict = v].duty = job[w].duty
        /\ [job[w] EXCEPT !.verdict = v].person = job[w].person
    BY DEF TypeOK, Job
  <2>3. CurrentKey(w)' = CurrentKey(w)
    BY <2>1, <2>2 DEF Go, CurrentKey, AskKey, TypeOK
  <2> QED
    BY <2>1, <2>3, OnwardMoves
<1> QED
  BY <1>3, <1>4, <1>5, <1>6, <1>7, <1>8, <1>9, <1>10 DEF AskStep

LEMMA ResponseMoves ==
  ASSUME TypeOK, JobShape, NEW w \in Workers, ResponseStep(w)
  PROVE  ReceiptMove(w)
<1> USE DEF Opened, Executed, Holding
<1>1. pc[w] \in Engaged
  BY DEF ResponseStep, ReadRosterForAnswer, PutAnswer, AuthorizeAssignment,
     RefuseAssignment, BeginAssignment, ReplayAssignment, WriteAssignment, MarkAssignment,
     CloseAssignment, Begin, Replay, MarkExecuted, Engaged, Labels
<1>2. AssignKey(w) \in Keys
  BY <1>1, KeyTypes
<1>3. CASE ReadRosterForAnswer(w) \/ PutAnswer(w) \/ AuthorizeAssignment(w)
  <2>1. /\ \E label \in {"respond_put", "assign", "idle", "assign_begin", "assign_refuse"} :
             \E j : Go(w, label, j)
        /\ UNCHANGED ledger
        /\ pc[w] \in {"respond", "respond_put", "assign"}
    BY <1>3 DEF ReadRosterForAnswer, PutAnswer, AuthorizeAssignment, Goto, store
  <2> QED
    BY <2>1, FreeMoves
<1>4. CASE RefuseAssignment(w)
  <2>1. Go(w, "idle", NoJob) /\ RecordBlocked(AssignKey(w)) /\ pc[w] = "assign_refuse"
    BY <1>4 DEF RefuseAssignment
  <2> QED
    BY <1>2, <2>1, FreeMoves
<1>5. CASE BeginAssignment(w)
  <2>1. CurrentKey(w)' = AssignKey(w)
    BY <1>5 DEF BeginAssignment, Begin, Goto, Go, CurrentKey, AssignKey, TypeOK
  <2> QED
    BY <1>2, <1>5, <2>1, BeginMoves DEF BeginAssignment, Starting
<1>6. CASE ReplayAssignment(w)
  BY <1>6, ReplayMoves DEF ReplayAssignment
<1>7. CASE WriteAssignment(w)
  <2>1. Go(w, "assign_mark", job[w]) /\ UNCHANGED ledger /\ pc[w] = "assign_write"
    BY <1>7 DEF WriteAssignment, Goto
  <2>2. CurrentKey(w)' = CurrentKey(w)
    BY <2>1 DEF Go, CurrentKey, AssignKey, TypeOK
  <2> QED
    BY <2>1, <2>2, OnwardMoves
<1>8. CASE MarkAssignment(w)
  <2>1. /\ Go(w, "assign_close", job[w]) /\ pc[w] = "assign_mark"
        /\ SetReceipt(AssignKey(w), "executed")
    BY <1>8 DEF MarkAssignment, MarkExecuted, Goto, SetReceipt
  <2>2. CurrentKey(w)' = CurrentKey(w) /\ CurrentKey(w) = AssignKey(w)
    BY <2>1 DEF Go, CurrentKey, AssignKey, TypeOK
  <2> QED
    BY <2>1, <2>2, OnwardMoves
<1>9. CASE CloseAssignment(w)
  <2>1. /\ \E label \in {"others", "idle"} : \E j : Go(w, label, j)
        /\ pc[w] = "assign_close"
        /\ \E r \in {"verified", "conflicted"} : SetReceipt(CurrentKey(w), r)
    BY <1>9 DEF CloseAssignment, CloseReceipt, Goto, SetReceipt, CurrentKey
  <2> QED
    BY <2>1, CloseMoves
<1> QED
  BY <1>3, <1>4, <1>5, <1>6, <1>7, <1>8, <1>9 DEF ResponseStep

LEMMA WithdrawalMoves ==
  ASSUME TypeOK, JobShape, NEW w \in Workers, WithdrawalStep(w)
  PROVE  ReceiptMove(w)
<1> USE DEF Opened, Executed, Holding
<1>1. pc[w] \in Engaged \cap Vacating
  BY DEF WithdrawalStep, RefuseWithdrawal, BeginWithdrawal, ReplayWithdrawal, WriteVacancy,
     MarkVacancy, CloseVacancy, RecordDeparture, Begin, Replay, MarkExecuted, Engaged,
     Vacating, Labels
<1>2. VacateKey(w) \in Keys
  BY <1>1, KeyTypes
<1>3. CASE RecordDeparture(w) \/ RefuseWithdrawal(w)
  <2>1. /\ Go(w, "idle", NoJob)
        /\ UNCHANGED ledger \/ \E key \in Keys : RecordBlocked(key)
        /\ pc[w] \in {"depart", "vacate_refuse"}
    BY <1>2, <1>3 DEF RecordDeparture, RefuseWithdrawal
  <2> QED
    BY <2>1, FreeMoves
<1>4. CASE BeginWithdrawal(w)
  <2>1. CurrentKey(w)' = VacateKey(w)
    BY <1>4 DEF BeginWithdrawal, Begin, Goto, Go, CurrentKey, VacateKey, TypeOK
  <2> QED
    BY <1>2, <1>4, <2>1, BeginMoves DEF BeginWithdrawal, Starting
<1>5. CASE ReplayWithdrawal(w)
  BY <1>5, ReplayMoves DEF ReplayWithdrawal
<1>6. CASE WriteVacancy(w)
  <2>1. Go(w, "vacate_mark", job[w]) /\ UNCHANGED ledger /\ pc[w] = "vacate_write"
    BY <1>6 DEF WriteVacancy, Goto
  <2>2. CurrentKey(w)' = CurrentKey(w)
    BY <2>1 DEF Go, CurrentKey, VacateKey, TypeOK
  <2> QED
    BY <2>1, <2>2, OnwardMoves
<1>7. CASE MarkVacancy(w)
  <2>1. /\ Go(w, "vacate_close", job[w]) /\ pc[w] = "vacate_mark"
        /\ SetReceipt(VacateKey(w), "executed")
    BY <1>7 DEF MarkVacancy, MarkExecuted, Goto, SetReceipt
  <2>2. CurrentKey(w)' = CurrentKey(w) /\ CurrentKey(w) = VacateKey(w)
    BY <2>1 DEF Go, CurrentKey, VacateKey, TypeOK
  <2> QED
    BY <2>1, <2>2, OnwardMoves
<1>8. CASE CloseVacancy(w)
  <2>1. /\ Go(w, "others", job[w]) /\ pc[w] = "vacate_close"
        /\ \E r \in {"verified", "conflicted"} : SetReceipt(CurrentKey(w), r)
    BY <1>8 DEF CloseVacancy, CloseReceipt, Goto, SetReceipt, CurrentKey
  <2> QED
    BY <2>1, CloseMoves
<1> QED
  BY <1>3, <1>4, <1>5, <1>6, <1>7, <1>8 DEF WithdrawalStep

LEMMA OtherMoves ==
  ASSUME TypeOK, NEW w \in Workers,
         Choose(w) \/ SweepStep(w) \/ Request(w) \/ SupersedeStep(w)
  PROVE  ReceiptMove(w)
<1>1. PICK label : label \notin Holding /\ \E j : Go(w, label, j)
  BY OtherReceipts DEF Holding
<1>2. UNCHANGED ledger
  BY OtherReceipts
<1>3. pc[w] \in {"idle", "sweep", "expire", "others", "supersede"}
  BY DEF Choose, AskNobody, ChooseCandidate, MayAskAbout, SweepStep, FindGaps, ExpireLapsed,
     Request, StartSweep, TapLink, ReceiveNotice, SupersedeStep, ListOtherAsks,
     SupersedeOtherAsk, EndSupersede
<1> QED
  BY <1>1, <1>2, <1>3, FreeMoves DEF Holding, Opened, Executed

(* A living worker leaves the count of crashes alone.                       *)
LEMMA WorkersLive ==
  ASSUME NEW w \in Workers,
         \/ Choose(w) \/ SweepStep(w) \/ Request(w) \/ SupersedeStep(w)
         \/ AskStep(w) \/ ResponseStep(w) \/ WithdrawalStep(w)
  PROVE  UNCHANGED crashes
<1>1. CASE AskStep(w)
  BY <1>1 DEF AskStep, RefuseSend, BeginDraft, ReplayDraft, PutDraft, MarkDraft,
     CloseDraft, BeginAsk, ReplayAsk, PutAsk, SendAsk, MarkAsk, UndoAsk, FailAsk, CloseAsk,
     Begin, Replay, MarkExecuted, world
<1>2. CASE ResponseStep(w) \/ WithdrawalStep(w)
  BY <1>2 DEF ResponseStep, ReadRosterForAnswer, PutAnswer, AuthorizeAssignment,
     RefuseAssignment, BeginAssignment, ReplayAssignment, WriteAssignment, MarkAssignment,
     CloseAssignment, WithdrawalStep, RefuseWithdrawal, BeginWithdrawal, ReplayWithdrawal,
     WriteVacancy, MarkVacancy, CloseVacancy, RecordDeparture, Begin, Replay, MarkExecuted,
     world
<1>3. CASE Choose(w) \/ SweepStep(w) \/ Request(w) \/ SupersedeStep(w)
  BY <1>3 DEF Choose, AskNobody, ChooseCandidate, SweepStep, FindGaps, ExpireLapsed,
     Request, StartSweep, TapLink, ReceiveNotice, SupersedeStep, ListOtherAsks,
     SupersedeOtherAsk, EndSupersede, world
<1> QED
  BY <1>1, <1>2, <1>3

(* Every step, but for the death of a worker, moves the receipts so.        *)
LEMMA Moves ==
  ASSUME TypeOK, JobShape, [Next]_vars
  PROVE  \/ UNCHANGED <<ledger, pc, job, crashes>>
         \/ \E w \in Workers : ReceiptMove(w) /\ UNCHANGED crashes
         \/ \E w \in Workers : Crash(w)
<1>1. CASE UNCHANGED vars \/ Environment
  BY <1>1 DEF vars, store, world, Environment, Lapse, ToggleGrant, Dusk
<1>2. ASSUME NEW w \in Workers,
             \/ Choose(w) \/ SweepStep(w) \/ Request(w) \/ SupersedeStep(w)
             \/ AskStep(w) \/ ResponseStep(w) \/ WithdrawalStep(w)
      PROVE  ReceiptMove(w) /\ UNCHANGED crashes
  BY <1>2, OtherMoves, AskMoves, ResponseMoves, WithdrawalMoves, WorkersLive
<1> QED
  BY <1>1, <1>2 DEF Next
-----------------------------------------------------------------------------
(* Open receipts that nobody works under. *)

LEMMA WorkingKey ==
  ASSUME NEW w \in Workers, NEW key
  PROVE  WorksUnder(w, key) <=> pc[w] \in Holding /\ key = CurrentKey(w)
BY DEF WorksUnder, Holding, Opened, Executed, CurrentKey

LEMMA WorkingKeyAfter ==
  ASSUME NEW w \in Workers, NEW key
  PROVE  WorksUnder(w, key)' <=> pc'[w] \in Holding /\ key = CurrentKey(w)'
BY DEF WorksUnder, Holding, Opened, Executed, CurrentKey, AskKey, DraftKey, AssignKey,
   VacateKey

LEMMA OthersKeep ==
  ASSUME NEW w \in Workers, OthersStay(w), NEW v \in Workers, v # w, NEW key
  PROVE  WorksUnder(v, key)' <=> WorksUnder(v, key)
BY DEF OthersStay, WorksUnder, AskKey, DraftKey, AssignKey, VacateKey

(* No step of a living worker leaves a receipt behind.                      *)
LEMMA NoNewOrphan ==
  ASSUME TypeOK, JobShape, Receipted, NEW w \in Workers, ReceiptMove(w)
  PROVE  Orphans' \subseteq Orphans
<1> SUFFICES ASSUME NEW key \in Keys, ledger'[key] \in {"open", "executed"},
                    \A v \in Workers : ~WorksUnder(v, key)'
             PROVE  /\ ledger[key] \in {"open", "executed"}
                    /\ \A v \in Workers : ~WorksUnder(v, key)
  BY DEF Orphans
<1>1. \A v \in Workers \ {w} : ~WorksUnder(v, key)
  BY OthersKeep DEF ReceiptMove
<1>2. CASE TakesReceipt(w)
  <2>1. PICK taken \in Keys : SetReceipt(taken, "open") /\ CurrentKey(w)' = taken
    BY <1>2 DEF TakesReceipt
  <2>2. key # taken
    BY <1>2, <2>1, WorkingKeyAfter DEF TakesReceipt, Holding, Starting, Opened
  <2>3. ledger[key] = ledger'[key]
    BY <2>1, <2>2 DEF SetReceipt, TypeOK
  <2>4. ~WorksUnder(w, key)
    BY <1>2, WorkingKey DEF TakesReceipt
  <2> QED
    BY <1>1, <2>3, <2>4
<1>3. CASE KeepsReceipt(w) \/ ClosesReceipt(w)
  <2>1. key # CurrentKey(w)
    <3>1. CASE KeepsReceipt(w)
      BY <3>1, WorkingKeyAfter DEF KeepsReceipt
    <3>2. CASE ClosesReceipt(w)
      <4>1. CurrentKey(w) \in Keys
        BY <3>2, CurrentKeyType DEF ClosesReceipt
      <4> QED
        BY <3>2, <4>1 DEF ClosesReceipt, SetReceipt, TypeOK
    <3> QED
      BY <1>3, <3>1, <3>2
  <2>2. ledger[key] = ledger'[key]
    BY <1>3, <2>1 DEF KeepsReceipt, ClosesReceipt, SetReceipt, TypeOK
  <2>3. ~WorksUnder(w, key)
    BY <2>1, WorkingKey
  <2> QED
    BY <1>1, <2>2, <2>3
<1>4. CASE NoReceipt(w)
  <2>1. ledger[key] = ledger'[key]
    BY <1>4 DEF NoReceipt, RecordBlocked, TypeOK
  <2>2. ~WorksUnder(w, key)
    BY <1>4, WorkingKey DEF NoReceipt
  <2> QED
    BY <1>1, <2>1, <2>2
<1> QED
  BY <1>2, <1>3, <1>4 DEF ReceiptMove

(* A worker that dies leaves at most the one it was working under.          *)
LEMMA CrashOrphan ==
  ASSUME TypeOK, NEW w \in Workers, Crash(w)
  PROVE  Orphans' \subseteq Orphans \cup {CurrentKey(w)}
<1>1. OthersStay(w) /\ UNCHANGED ledger
  BY GoMoves DEF Crash, store
<1> SUFFICES ASSUME NEW key \in Keys, key # CurrentKey(w),
                    ledger'[key] \in {"open", "executed"},
                    \A v \in Workers : ~WorksUnder(v, key)'
             PROVE  /\ ledger[key] \in {"open", "executed"}
                    /\ \A v \in Workers : ~WorksUnder(v, key)
  BY DEF Orphans
<1>2. \A v \in Workers : ~WorksUnder(v, key)
  BY <1>1, OthersKeep, WorkingKey
<1> QED
  BY <1>1, <1>2

CountedOrphans == IsFiniteSet(Orphans) /\ Cardinality(Orphans) <= crashes

LEMMA CountedStep ==
  ASSUME IInv, CountedOrphans, [Next]_vars
  PROVE  CountedOrphans'
<1> USE DEF IInv
<1>1. crashes \in Nat
  BY DEF TypeOK
<1>2. CASE Orphans' \subseteq Orphans /\ UNCHANGED crashes
  <2>1. IsFiniteSet(Orphans') /\ Cardinality(Orphans') <= Cardinality(Orphans)
    BY <1>2, FS_Subset DEF CountedOrphans
  <2>2. Cardinality(Orphans) \in Nat /\ Cardinality(Orphans') \in Nat
    BY <2>1, FS_CardinalityType DEF CountedOrphans
  <2> QED
    BY <1>1, <1>2, <2>1, <2>2 DEF CountedOrphans
<1>3. ASSUME NEW w \in Workers, Crash(w)
      PROVE  CountedOrphans'
  <2> DEFINE more == Orphans \cup {CurrentKey(w)}
  <2>1. /\ IsFiniteSet(more) /\ Cardinality(more) \in Nat
        /\ Cardinality(more) <= crashes + 1
    <3>1. /\ IsFiniteSet(more)
          /\ Cardinality(more) \in {Cardinality(Orphans), Cardinality(Orphans) + 1}
      BY FS_AddElement DEF CountedOrphans
    <3>2. Cardinality(Orphans) \in Nat
      BY FS_CardinalityType DEF CountedOrphans
    <3> QED
      BY <1>1, <3>1, <3>2 DEF CountedOrphans
  <2>2. Orphans' \subseteq more
    BY <1>3, CrashOrphan
  <2>3. IsFiniteSet(Orphans') /\ Cardinality(Orphans') <= Cardinality(more)
    BY <2>1, <2>2, FS_Subset
  <2>4. Cardinality(Orphans') \in Nat
    BY <2>3, FS_CardinalityType
  <2>5. crashes' = crashes + 1
    BY <1>3 DEF Crash
  <2> HIDE DEF more
  <2> QED
    BY <1>1, <2>1, <2>3, <2>4, <2>5 DEF CountedOrphans
<1>4. CASE UNCHANGED <<ledger, pc, job, crashes>>
  <2>1. Orphans' = Orphans
    BY <1>4 DEF Orphans, WorksUnder, AskKey, DraftKey, AssignKey, VacateKey
  <2> QED
    BY <1>2, <1>4, <2>1
<1>5. ASSUME NEW w \in Workers, ReceiptMove(w), UNCHANGED crashes
      PROVE  CountedOrphans'
  BY <1>2, <1>5, NoNewOrphan
<1> QED
  BY <1>3, <1>4, <1>5, Moves

LEMMA CountedInit == Init => CountedOrphans
<1> SUFFICES ASSUME Init PROVE CountedOrphans
  OBVIOUS
<1>1. Orphans = {}
  BY DEF Init, Orphans
<1>2. crashes = 0
  BY DEF Init
<1> QED
  BY <1>1, <1>2, FS_EmptySet DEF CountedOrphans

(* However the workers interleave, there is at most one receipt left open   *)
(* with nobody at it per worker that died: what open_entries lists for the  *)
(* coordinator to reconcile (core/ledger.py) is never more than that.       *)
THEOREM OneOrphanPerCrash == Spec => []OrphansAreCrashes
<1>1. Init => CountedOrphans
  BY CountedInit
<1>2. IInv /\ CountedOrphans /\ [Next]_vars => CountedOrphans'
  BY CountedStep
<1>3. CountedOrphans => OrphansAreCrashes
  BY DEF CountedOrphans, OrphansAreCrashes
<1> QED
  BY <1>1, <1>2, <1>3, Invariant, PTL DEF Spec

-----------------------------------------------------------------------------
(* Operations that were left half done. *)

Onward == {"assign", "assign_begin", "assign_refuse"}
Parting == {"vacate_close", "others", "supersede", "depart"}

WorkerStep(w) ==
  \/ Choose(w) \/ SweepStep(w) \/ Request(w) \/ SupersedeStep(w)
  \/ AskStep(w) \/ ResponseStep(w) \/ WithdrawalStep(w)

(* Only an answer makes an ask accepted, and then an assignment follows.    *)
LEMMA UnacceptingSteps ==
  ASSUME TypeOK, NEW w \in Workers,
         \/ Choose(w) \/ SweepStep(w) \/ Request(w) \/ SupersedeStep(w)
         \/ AskStep(w) \/ WithdrawalStep(w)
         \/ ReadRosterForAnswer(w) \/ WriteAssignment(w) \/ MarkAssignment(w)
         \/ CloseAssignment(w)
  PROVE  /\ pc[w] \notin Onward
         /\ \A a \in AskIds : ask'[a] = "accepted" => ask[a] = "accepted"
<1> USE DEF Onward, TypeOK, PutAskRow
<1>1. CASE Choose(w) \/ Request(w)
  BY <1>1 DEF Choose, AskNobody, ChooseCandidate, MayAskAbout, Request, StartSweep, TapLink,
     ReceiveNotice, store
<1>2. CASE SweepStep(w) \/ SupersedeStep(w)
  BY <1>2 DEF SweepStep, FindGaps, ExpireLapsed, SupersedeStep, ListOtherAsks,
     SupersedeOtherAsk, EndSupersede, store
<1>3. CASE AskStep(w)
  BY <1>3 DEF AskStep, RefuseSend, BeginDraft, ReplayDraft, PutDraft, MarkDraft, CloseDraft,
     BeginAsk, ReplayAsk, PutAsk, SendAsk, MarkAsk, UndoAsk, FailAsk, CloseAsk, Begin, Replay,
     MarkExecuted, store
<1>4. CASE WithdrawalStep(w)
  BY <1>4 DEF WithdrawalStep, RefuseWithdrawal, BeginWithdrawal, ReplayWithdrawal,
     WriteVacancy, MarkVacancy, CloseVacancy, RecordDeparture, Begin, Replay, MarkExecuted,
     store
<1>5. CASE ReadRosterForAnswer(w) \/ WriteAssignment(w) \/ MarkAssignment(w)
           \/ CloseAssignment(w)
  BY <1>5 DEF ReadRosterForAnswer, WriteAssignment, MarkAssignment, CloseAssignment,
     MarkExecuted, store
<1> QED
  BY <1>1, <1>2, <1>3, <1>4, <1>5

(* A receipt that has been written is not taken back.                       *)
LEMMA NothingUnwritten ==
  ASSUME TypeOK, NEW w \in Workers, ReceiptMove(w), NEW key \in Keys,
         ledger'[key] = "absent"
  PROVE  ledger[key] = "absent"
BY DEF ReceiptMove, TakesReceipt, KeepsReceipt, ClosesReceipt, NoReceipt, SetReceipt,
   RecordBlocked, TypeOK

LEMMA NoNewUnassigned ==
  ASSUME TypeOK, JobShape, NEW w \in Workers, WorkerStep(w), ReceiptMove(w)
  PROVE  LeftUnassigned' \subseteq LeftUnassigned
<1> SUFFICES ASSUME NEW key \in Keys, key[1] = "assign", ledger'[key] = "absent",
                    ask'[<<"email", key[2], key[3]>>] = "accepted",
                    \A v \in Workers : pc'[v] \in Onward => key # AssignKey(v)'
             PROVE  /\ ask[<<"email", key[2], key[3]>>] = "accepted"
                    /\ \A v \in Workers : pc[v] \in Onward => key # AssignKey(v)
  BY NothingUnwritten DEF LeftUnassigned, Onward
<1>1. \A v \in Workers \ {w} : pc[v] \in Onward => key # AssignKey(v)
  BY DEF ReceiptMove, OthersStay, AssignKey
<1>2. <<"email", key[2], key[3]>> \in AskIds /\ key[2] \in Duties /\ key[3] \in People
  BY DEF Keys, AskIds, Kinds
<1>3. ledger[key] = "absent"
  BY NothingUnwritten
<1>4. CASE PutAnswer(w)
  <2>1. pc[w] = "respond_put" /\ PutAskRow(AskRow(w), job[w].verdict)
    BY <1>4 DEF PutAnswer
  <2>2. pc[w] \notin Onward
    BY <2>1 DEF Onward
  <2>3. CASE ask[<<"email", key[2], key[3]>>] # "accepted"
    <3>1. AskRow(w) = <<"email", key[2], key[3]>> /\ job[w].verdict = "accepted"
      BY <1>2, <2>1, <2>3 DEF PutAskRow, TypeOK
    <3>2. key[2] = job[w].duty /\ key[3] = job[w].person
      BY <3>1 DEF AskRow
    <3>3. key = AssignKey(w)
      BY <3>2 DEF Keys, AssignKey, Key
    <3>4. pc'[w] = "assign" /\ job'[w] = job[w]
      BY <1>4, <3>1, GoMoves DEF PutAnswer, Goto
    <3> QED
      BY <3>3, <3>4 DEF Onward, AssignKey
  <2> QED
    BY <1>1, <2>2, <2>3
<1>5. CASE AuthorizeAssignment(w)
  <2>1. pc'[w] \in Onward /\ job'[w] = job[w] /\ UNCHANGED ask
    BY <1>5, GoMoves DEF AuthorizeAssignment, Goto, store, Onward
  <2> QED
    BY <1>1, <2>1 DEF AssignKey
<1>6. CASE RefuseAssignment(w) \/ BeginAssignment(w) \/ ReplayAssignment(w)
  <2>1. key # AssignKey(w)
    BY <1>3, <1>6 DEF RefuseAssignment, BeginAssignment, ReplayAssignment, Begin, Replay,
       RecordBlocked, TypeOK
  <2>2. UNCHANGED ask
    BY <1>6 DEF RefuseAssignment, BeginAssignment, ReplayAssignment, Begin, Replay, store
  <2> QED
    BY <1>1, <2>1, <2>2
<1>7. CASE /\ pc[w] \notin Onward
           /\ \A a \in AskIds : ask'[a] = "accepted" => ask[a] = "accepted"
  BY <1>1, <1>2, <1>7
<1> QED
  BY <1>4, <1>5, <1>6, <1>7, UnacceptingSteps DEF WorkerStep, ResponseStep

(* Only a withdrawal writes under its key, or about a departure.            *)
LEMMA StayingSteps ==
  ASSUME TypeOK, NEW w \in Workers,
         Choose(w) \/ SweepStep(w) \/ Request(w) \/ AskStep(w) \/ ResponseStep(w)
  PROVE  /\ pc[w] \notin Parting
         /\ \A key \in Keys : key[1] = "withdraw" => ledger'[key] = ledger[key]
         /\ UNCHANGED gone
<1> USE DEF Parting, TypeOK
<1>1. CASE Choose(w) \/ SweepStep(w) \/ Request(w)
  BY <1>1 DEF Choose, AskNobody, ChooseCandidate, MayAskAbout, Request, StartSweep, TapLink,
     ReceiveNotice, SweepStep, FindGaps, ExpireLapsed, store
<1>2. CASE AskStep(w)
  <2> DEFINE refused == Key("blocked_send", job[w].duty, job[w].person)
  <2>1. \A key \in Keys : key[1] = "withdraw" => key \notin {DraftKey(w), AskKey(w), refused}
    BY DEF DraftKey, AskKey, Key
  <2>2. \/ UNCHANGED ledger
        \/ \E k \in {DraftKey(w), AskKey(w), refused} : \E r : ledger' = [ledger EXCEPT ![k] = r]
    BY <1>2 DEF AskStep, RefuseSend, BeginDraft, ReplayDraft, PutDraft, MarkDraft, CloseDraft,
       BeginAsk, ReplayAsk, PutAsk, SendAsk, MarkAsk, UndoAsk, FailAsk, CloseAsk, Begin,
       Replay, MarkExecuted, CloseReceipt, RecordBlocked, store
  <2>3. pc[w] \notin Parting /\ UNCHANGED gone
    BY <1>2 DEF AskStep, RefuseSend, BeginDraft, ReplayDraft, PutDraft, MarkDraft, CloseDraft,
       BeginAsk, ReplayAsk, PutAsk, SendAsk, MarkAsk, UndoAsk, FailAsk, CloseAsk, Begin,
       Replay, MarkExecuted, store
  <2> HIDE DEF refused
  <2> QED
    BY <2>1, <2>2, <2>3
<1>3. CASE ResponseStep(w)
  BY <1>3 DEF ResponseStep, ReadRosterForAnswer, PutAnswer, AuthorizeAssignment,
     RefuseAssignment, BeginAssignment, ReplayAssignment, WriteAssignment, MarkAssignment,
     CloseAssignment, Begin, Replay, MarkExecuted, CloseReceipt, RecordBlocked, AssignKey,
     Key, store
<1> QED
  BY <1>1, <1>2, <1>3

Performed == {"executed", "verified", "conflicted"}

(* A worker goes on with its departure until the row is written.            *)
LEMMA PartingSteps ==
  ASSUME TypeOK, JobShape, NEW w \in Workers, SupersedeStep(w) \/ WithdrawalStep(w),
         NEW key \in Keys, key[1] = "withdraw",
         ledger'[key] \in Performed, <<key[2], key[3]>> \notin gone',
         pc'[w] \in Parting => key # VacateKey(w)'
  PROVE  /\ ledger[key] \in Performed /\ <<key[2], key[3]>> \notin gone
         /\ pc[w] \in Parting => key # VacateKey(w)
<1> USE DEF Parting, Performed
<1>1. CASE SupersedeStep(w)
  <2>1. UNCHANGED <<ledger, gone>>
    BY <1>1 DEF SupersedeStep, ListOtherAsks, SupersedeOtherAsk, EndSupersede, store
  <2>2. CASE ListOtherAsks(w) \/ \E a \in AskIds : SupersedeOtherAsk(w, a)
    <3>1. PICK s : Go(w, "supersede", [job[w] EXCEPT !.asks = s])
      BY <2>2 DEF ListOtherAsks, SupersedeOtherAsk
    <3>2. job[w] \in Job
      BY DEF TypeOK
    <3>3. /\ [job[w] EXCEPT !.asks = s].duty = job[w].duty
          /\ [job[w] EXCEPT !.asks = s].person = job[w].person
          /\ [job[w] EXCEPT !.asks = s].text = job[w].text
      BY <3>2 DEF Job
    <3>4. pc'[w] = "supersede" /\ job'[w] = [job[w] EXCEPT !.asks = s]
      BY <3>1, GoMoves
    <3>5. key # VacateKey(w)
      BY <3>3, <3>4 DEF VacateKey
    <3> QED
      BY <2>1, <3>5
  <2>3. CASE EndSupersede(w)
    <3>1. CASE job[w].text = None
      <4>1. key # VacateKey(w)
        BY <3>1, ConstantsAssumption DEF Keys, VacateKey
      <4> QED
        BY <2>1, <4>1
    <3>2. CASE job[w].text # None
      <4>1. pc'[w] = "depart" /\ job'[w] = job[w]
        BY <2>3, <3>2, GoMoves DEF EndSupersede, Goto
      <4> QED
        BY <2>1, <4>1 DEF VacateKey
    <3> QED
      BY <3>1, <3>2
  <2> QED
    BY <1>1, <2>2, <2>3 DEF SupersedeStep
<1>2. CASE RefuseWithdrawal(w) \/ BeginWithdrawal(w) \/ ReplayWithdrawal(w) \/ WriteVacancy(w)
  <2>1. pc[w] \notin Parting /\ UNCHANGED gone
    BY <1>2 DEF RefuseWithdrawal, BeginWithdrawal, ReplayWithdrawal, WriteVacancy, Begin,
       Replay, store
  <2>2. ledger[key] \in Performed
    BY <1>2 DEF RefuseWithdrawal, BeginWithdrawal, ReplayWithdrawal, WriteVacancy, Begin,
       Replay, RecordBlocked, store, TypeOK
  <2> QED
    BY <2>1, <2>2
<1>3. CASE MarkVacancy(w)
  <2>1. /\ pc'[w] = "vacate_close" /\ job'[w] = job[w] /\ pc[w] = "vacate_mark"
        /\ UNCHANGED gone
    BY <1>3, GoMoves DEF MarkVacancy, MarkExecuted, Goto
  <2>2. key # VacateKey(w)
    BY <2>1 DEF VacateKey
  <2>3. ledger'[key] = ledger[key]
    BY <1>3, <2>2 DEF MarkVacancy, MarkExecuted, TypeOK
  <2> QED
    BY <2>1, <2>2, <2>3
<1>4. CASE CloseVacancy(w)
  <2>1. pc'[w] = "others" /\ job'[w] = job[w] /\ UNCHANGED gone
    BY <1>4, GoMoves DEF CloseVacancy, Goto
  <2>2. key # VacateKey(w)
    BY <2>1 DEF VacateKey
  <2>3. ledger'[key] = ledger[key]
    BY <1>4, <2>2 DEF CloseVacancy, CloseReceipt, TypeOK
  <2> QED
    BY <2>1, <2>2, <2>3
<1>5. CASE RecordDeparture(w)
  <2>1. key # VacateKey(w) /\ <<key[2], key[3]>> \notin gone /\ UNCHANGED ledger
    BY <1>5 DEF RecordDeparture, VacateKey
  <2> QED
    BY <2>1
<1> QED
  BY <1>1, <1>2, <1>3, <1>4, <1>5 DEF WithdrawalStep

LEMMA NoNewUnrecorded ==
  ASSUME TypeOK, JobShape, NEW w \in Workers, WorkerStep(w), OthersStay(w)
  PROVE  LeftUnrecorded' \subseteq LeftUnrecorded
<1> SUFFICES ASSUME NEW key \in Keys, key[1] = "withdraw", ledger'[key] \in Performed,
                    <<key[2], key[3]>> \notin gone',
                    \A v \in Workers : pc'[v] \in Parting => key # VacateKey(v)'
             PROVE  /\ ledger[key] \in Performed /\ <<key[2], key[3]>> \notin gone
                    /\ \A v \in Workers : pc[v] \in Parting => key # VacateKey(v)
  BY DEF LeftUnrecorded, Parting, Performed
<1>1. \A v \in Workers \ {w} : pc[v] \in Parting => key # VacateKey(v)
  BY DEF OthersStay, VacateKey
<1>2. CASE SupersedeStep(w) \/ WithdrawalStep(w)
  BY <1>1, <1>2, PartingSteps
<1>3. CASE Choose(w) \/ SweepStep(w) \/ Request(w) \/ AskStep(w) \/ ResponseStep(w)
  BY <1>1, <1>3, StayingSteps
<1> QED
  BY <1>2, <1>3 DEF WorkerStep

(* A worker that dies leaves at most what it was at.                        *)
LEMMA CrashUndone ==
  ASSUME TypeOK, NEW w \in Workers, Crash(w)
  PROVE  \E last : LeftUndone' \subseteq LeftUndone \cup {last}
<1> DEFINE last == IF pc[w] \in Onward THEN AssignKey(w) ELSE VacateKey(w)
<1>1. OthersStay(w) /\ UNCHANGED <<ledger, ask, gone>>
  BY GoMoves DEF Crash, store
<1>2. Onward \cap Parting = {}
  BY DEF Onward, Parting
<1>3. LeftUnassigned' \subseteq LeftUnassigned \cup {last}
  BY <1>1 DEF LeftUnassigned, OthersStay, AssignKey, Onward
<1>4. LeftUnrecorded' \subseteq LeftUnrecorded \cup {last}
  <2>1. pc[w] \in Parting => last = VacateKey(w)
    BY <1>2
  <2> HIDE DEF last
  <2> QED
    BY <1>1, <2>1 DEF LeftUnrecorded, OthersStay, VacateKey, Parting
<1> QED
  BY <1>3, <1>4 DEF LeftUndone

LEMMA OneMore ==
  ASSUME NEW S, NEW T, NEW last, NEW n \in Nat,
         IsFiniteSet(S), Cardinality(S) <= n, T \subseteq S \cup {last}
  PROVE  IsFiniteSet(T) /\ Cardinality(T) <= n + 1
<1> DEFINE more == S \cup {last}
<1>1. /\ IsFiniteSet(more)
      /\ Cardinality(more) \in {Cardinality(S), Cardinality(S) + 1}
      /\ Cardinality(S) \in Nat
  BY FS_AddElement, FS_CardinalityType
<1>2. IsFiniteSet(T) /\ Cardinality(T) <= Cardinality(more)
  BY <1>1, FS_Subset
<1>3. Cardinality(T) \in Nat
  BY <1>2, FS_CardinalityType
<1> HIDE DEF more
<1> QED
  BY <1>1, <1>2, <1>3

CountedUndone == IsFiniteSet(LeftUndone) /\ Cardinality(LeftUndone) <= crashes

LEMMA UndoneStep ==
  ASSUME TypeOK, JobShape, CountedUndone, [Next]_vars
  PROVE  CountedUndone'
<1>1. crashes \in Nat
  BY DEF TypeOK
<1>2. CASE LeftUndone' \subseteq LeftUndone /\ UNCHANGED crashes
  <2>1. IsFiniteSet(LeftUndone') /\ Cardinality(LeftUndone') <= Cardinality(LeftUndone)
    BY <1>2, FS_Subset DEF CountedUndone
  <2>2. Cardinality(LeftUndone) \in Nat /\ Cardinality(LeftUndone') \in Nat
    BY <2>1, FS_CardinalityType DEF CountedUndone
  <2> QED
    BY <1>1, <1>2, <2>1, <2>2 DEF CountedUndone
<1>3. ASSUME NEW w \in Workers, Crash(w)
      PROVE  CountedUndone'
  <2>1. PICK last : LeftUndone' \subseteq LeftUndone \cup {last}
    BY <1>3, CrashUndone
  <2>2. crashes' = crashes + 1
    BY <1>3 DEF Crash
  <2>3. IsFiniteSet(LeftUndone') /\ Cardinality(LeftUndone') <= crashes + 1
    BY <1>1, <2>1, OneMore DEF CountedUndone
  <2> QED
    BY <2>2, <2>3 DEF CountedUndone
<1>4. CASE UNCHANGED vars \/ Environment
  <2>1. UNCHANGED <<ledger, ask, gone, pc, job, crashes>>
    BY <1>4 DEF vars, store, world, Environment, Lapse, ToggleGrant, Dusk
  <2>2. LeftUndone' = LeftUndone
    BY <2>1 DEF LeftUndone, LeftUnassigned, LeftUnrecorded, AssignKey, VacateKey
  <2> QED
    BY <1>2, <2>1, <2>2
<1>5. ASSUME NEW w \in Workers, WorkerStep(w), ~Crash(w)
      PROVE  CountedUndone'
  <2>1. ReceiptMove(w)
    BY <1>5, OtherMoves, AskMoves, ResponseMoves, WithdrawalMoves DEF WorkerStep
  <2>2. LeftUndone' \subseteq LeftUndone
    BY <1>5, <2>1, NoNewUnassigned, NoNewUnrecorded DEF LeftUndone, ReceiptMove
  <2>3. UNCHANGED crashes
    BY <1>5, WorkersLive DEF WorkerStep
  <2> QED
    BY <1>2, <2>2, <2>3
<1> QED
  BY <1>3, <1>4, <1>5 DEF Next, WorkerStep

(* However the workers interleave, an acceptance without a receipt for its  *)
(* assignment and a departure without its withdrawal row are left behind    *)
(* only by workers that died, one each at most (core/fill.py:               *)
(* record_response and record_withdrawal end with that receipt and row).    *)
THEOREM OneUndonePerCrash == Spec => []UndoneAreCrashes
<1>1. Init => CountedUndone
  <2> SUFFICES ASSUME Init PROVE CountedUndone
    OBVIOUS
  <2>1. LeftUndone = {}
    BY DEF Init, LeftUndone, LeftUnassigned, LeftUnrecorded, AskIds, Kinds, Keys
  <2>2. crashes = 0
    BY DEF Init
  <2> QED
    BY <2>1, <2>2, FS_EmptySet DEF CountedUndone
<1>2. IInv /\ CountedUndone /\ [Next]_vars => CountedUndone'
  BY UndoneStep DEF IInv
<1>3. CountedUndone => UndoneAreCrashes
  BY DEF CountedUndone, UndoneAreCrashes
<1> QED
  BY <1>1, <1>2, <1>3, Invariant, PTL DEF Spec

-----------------------------------------------------------------------------
(* What became of the message behind a closed ask. *)

(* An e-mailed ask is opened by its own worker, and by nobody else.         *)
LEMMA OpeningSteps ==
  ASSUME TypeOK, JobShape, [Next]_vars, NEW d \in Duties, NEW p \in People,
         ask'[<<"email", d, p>>] = "sent", ask[<<"email", d, p>>] # "sent"
  PROVE  \E w \in Workers : PutAsk(w) /\ AskRow(w) = <<"email", d, p>>
<1> DEFINE a == <<"email", d, p>>
<1>1. a \in AskIds /\ ask \in [AskIds -> AskStates]
  BY DEF TypeOK, AskIds, Kinds
<1>2. PICK w \in Workers :
        \/ Choose(w) \/ AskStep(w) \/ SweepStep(w) \/ Request(w)
        \/ ResponseStep(w) \/ WithdrawalStep(w) \/ SupersedeStep(w) \/ Crash(w)
  BY DEF Next, Environment, Lapse, ToggleGrant, Dusk, vars, store
<1>3. CASE Choose(w) \/ Request(w) \/ Crash(w)
  BY <1>3 DEF Choose, AskNobody, ChooseCandidate, Request, StartSweep, TapLink,
     ReceiveNotice, Crash, store
<1>4. CASE SweepStep(w) \/ SupersedeStep(w)
  BY <1>1, <1>4 DEF SweepStep, FindGaps, ExpireLapsed, SupersedeStep, ListOtherAsks,
     SupersedeOtherAsk, EndSupersede, PutAskRow, store
<1>5. CASE WithdrawalStep(w)
  BY <1>5 DEF WithdrawalStep, RefuseWithdrawal, BeginWithdrawal, ReplayWithdrawal,
     WriteVacancy, MarkVacancy, CloseVacancy, RecordDeparture, Begin, Replay, MarkExecuted,
     store
<1>6. CASE ResponseStep(w)
  <2>1. PutAnswer(w)
    BY <1>6 DEF ResponseStep, ReadRosterForAnswer, AuthorizeAssignment, RefuseAssignment,
       BeginAssignment, ReplayAssignment, WriteAssignment, MarkAssignment, CloseAssignment,
       Begin, Replay, MarkExecuted, store
  <2>2. job[w].verdict # "sent"
    BY <2>1 DEF PutAnswer, JobShape, Responding
  <2> QED
    BY <1>1, <2>1, <2>2 DEF PutAnswer, PutAskRow
<1>7. CASE AskStep(w)
  <2>1. PutDraft(w) \/ PutAsk(w) \/ UndoAsk(w)
    BY <1>7 DEF AskStep, RefuseSend, BeginDraft, ReplayDraft, MarkDraft, CloseDraft,
       BeginAsk, ReplayAsk, SendAsk, MarkAsk, FailAsk, CloseAsk, Begin, Replay, MarkExecuted,
       store
  <2>2. ~PutDraft(w)
    BY <1>1 DEF PutDraft, PutAskRow, DraftRow
  <2>3. ~UndoAsk(w)
    BY <1>1 DEF UndoAsk, PutAskRow
  <2>4. PutAsk(w)
    BY <2>1, <2>2, <2>3
  <2> QED
    BY <1>1, <2>4 DEF PutAsk, PutAskRow
<1> QED
  BY <1>2, <1>3, <1>4, <1>5, <1>6, <1>7

(* A message that has arrived has arrived.                                  *)
LEMMA MailStays ==
  ASSUME IInv, IInv', [Next]_vars, NEW dp \in Duties \X People, inbox[dp] = 1
  PROVE  inbox'[dp] = 1
<1>1. CASE \E w \in Workers, delivery \in Deliveries : SendAsk(w, delivery)
  <2>1. inbox'[dp] \in {inbox[dp], inbox[dp] + 1}
    BY <1>1 DEF SendAsk, IInv, TypeOK
  <2>2. inbox'[dp] <= 1
    BY DEF IInv, Mailed
  <2> QED
    BY <2>1, <2>2
<1>2. CASE ~\E w \in Workers, delivery \in Deliveries : SendAsk(w, delivery)
  <2>1. CASE UNCHANGED vars \/ Environment
    BY <2>1 DEF vars, world, Environment, Lapse, ToggleGrant, Dusk
  <2>2. CASE ~UNCHANGED vars /\ ~Environment
    <3>1. UNCHANGED inbox
      BY <1>2, <2>2, QuietAskSteps, QuietSteps DEF Next
    <3> QED
      BY <3>1
  <2> QED
    BY <2>1, <2>2
<1> QED
  BY <1>1, <1>2

Concluding == {"ask_mark", "ask_undo", "ask_fail", "ask_close"}

(* Any other step of a worker leaves it elsewhere.                          *)
LEMMA ElsewhereAskSteps ==
  ASSUME NEW w \in Workers, AskStep(w),
         \A delivery \in Deliveries : ~SendAsk(w, delivery), ~MarkAsk(w), ~UndoAsk(w)
  PROVE  \E label : label \notin Concluding /\ \E j : Go(w, label, j)
<1> USE DEF Concluding, Settle, Goto
<1>1. CASE RefuseSend(w)
  BY <1>1 DEF RefuseSend
<1>2. CASE BeginDraft(w) \/ ReplayDraft(w) \/ PutDraft(w) \/ MarkDraft(w) \/ CloseDraft(w)
  BY <1>2 DEF BeginDraft, ReplayDraft, PutDraft, MarkDraft, CloseDraft, Begin, Replay,
     MarkExecuted
<1>3. CASE BeginAsk(w) \/ ReplayAsk(w) \/ PutAsk(w) \/ FailAsk(w) \/ CloseAsk(w)
  BY <1>3 DEF BeginAsk, Begin, ReplayAsk, Replay, PutAsk, FailAsk, CloseAsk
<1> QED
  BY <1>1, <1>2, <1>3 DEF AskStep

LEMMA ElsewhereOtherSteps ==
  ASSUME NEW w \in Workers,
         \/ Choose(w) \/ SweepStep(w) \/ Request(w) \/ ResponseStep(w)
         \/ WithdrawalStep(w) \/ SupersedeStep(w) \/ Crash(w)
  PROVE  \E label : label \notin Concluding /\ \E j : Go(w, label, j)
<1> USE DEF Concluding, Settle, Goto
<1>1. CASE Choose(w)
  BY <1>1 DEF Choose, AskNobody, ChooseCandidate
<1>2. CASE SweepStep(w) \/ StartSweep(w) \/ SupersedeStep(w) \/ Crash(w)
  BY <1>2 DEF SweepStep, FindGaps, ExpireLapsed, StartSweep, SupersedeStep, ListOtherAsks,
     SupersedeOtherAsk, EndSupersede, Crash
<1>3. ASSUME NEW d \in Duties, NEW p \in People,
             \/ \E accept \in BOOLEAN : TapLink(w, d, p, accept)
             \/ \E text \in Texts : ReceiveNotice(w, d, p, text)
      PROVE  \E label : label \notin Concluding /\ \E j : Go(w, label, j)
  BY <1>3 DEF TapLink, ReceiveNotice
<1>4. CASE ResponseStep(w)
  BY <1>4 DEF ResponseStep, ReadRosterForAnswer, PutAnswer, AuthorizeAssignment,
     RefuseAssignment, BeginAssignment, ReplayAssignment, WriteAssignment, MarkAssignment,
     CloseAssignment, Begin, Replay, MarkExecuted
<1>5. CASE WithdrawalStep(w)
  BY <1>5 DEF WithdrawalStep, RefuseWithdrawal, BeginWithdrawal, ReplayWithdrawal,
     WriteVacancy, MarkVacancy, CloseVacancy, RecordDeparture, Begin, Replay, MarkExecuted
<1> QED
  BY <1>1, <1>2, <1>3, <1>4, <1>5 DEF Request

(* A worker that is concluding an ask was at it, or has sent it, marked it  *)
(* or undone it just now.                                                   *)
LEMMA Concludes ==
  ASSUME TypeOK, [Next]_vars, NEW w \in Workers, pc'[w] \in Concluding
  PROVE  \/ pc'[w] = pc[w] /\ job'[w] = job[w]
         \/ \E delivery \in Deliveries : SendAsk(w, delivery)
         \/ MarkAsk(w) \/ UndoAsk(w)
<1>1. CASE UNCHANGED vars \/ Environment
  BY <1>1 DEF vars, Environment, Lapse, ToggleGrant, Dusk
<1>2. ASSUME NEW v \in Workers,
             \/ Choose(v) \/ AskStep(v) \/ SweepStep(v) \/ Request(v)
             \/ ResponseStep(v) \/ WithdrawalStep(v) \/ SupersedeStep(v) \/ Crash(v)
      PROVE  \/ pc'[w] = pc[w] /\ job'[w] = job[w]
             \/ \E delivery \in Deliveries : SendAsk(w, delivery)
             \/ MarkAsk(w) \/ UndoAsk(w)
  <2>1. CASE v # w
    <3>1. \E label, j : Go(v, label, j)
      <4>1. CASE AskStep(v) /\ \A delivery \in Deliveries : ~SendAsk(v, delivery)
        BY <4>1, QuietAskSteps
      <4>2. CASE \E delivery \in Deliveries : SendAsk(v, delivery)
        BY <4>2 DEF SendAsk
      <4> QED
        BY <1>2, <4>1, <4>2, QuietSteps
    <3> QED
      BY <2>1, <3>1, GoMoves DEF OthersStay
  <2>2. CASE v = w
    <3>1. SUFFICES ASSUME \A delivery \in Deliveries : ~SendAsk(w, delivery),
                          ~MarkAsk(w), ~UndoAsk(w)
                   PROVE  FALSE
      OBVIOUS
    <3>2. PICK label : label \notin Concluding /\ \E j : Go(w, label, j)
      BY <1>2, <2>2, <3>1, ElsewhereAskSteps, ElsewhereOtherSteps
    <3> QED
      BY <3>2, GoMoves
  <2> QED
    BY <2>1, <2>2
<1> QED
  BY <1>1, <1>2 DEF Next

(* The ask key and the ask row of a worker name one duty and one person.    *)
LEMMA AskNames ==
  ASSUME JobShape, NEW w \in Workers, pc[w] \in Engaged
  PROVE  /\ job[w].duty \in Duties /\ job[w].person \in People
         /\ \A d \in Duties, p \in People :
              AskRow(w) = <<"email", d, p>> <=> AskKey(w) = Key("ask", d, p)
BY DEF JobShape, AskRow, AskKey, Key

LEMMA DeliveredStep ==
  ASSUME IInv, IInv', Delivered, [Next]_vars
  PROVE  Delivered'
<1> USE DEF IInv
<1>1. ASSUME NEW w \in Workers,
             pc'[w] = "ask_close" \/ (pc'[w] = "ask_mark" /\ job'[w].verdict = "ok")
      PROVE  inbox'[<<job'[w].duty, job'[w].person>>] = 1
  <2>1. pc'[w] \in Concluding
    BY <1>1 DEF Concluding
  <2>2. CASE pc'[w] = pc[w] /\ job'[w] = job[w]
    <3>1. <<job[w].duty, job[w].person>> \in Duties \X People
      BY <1>1, <2>2 DEF JobShape, Engaged, Labels
    <3> QED
      BY <1>1, <2>2, <3>1, MailStays DEF Delivered
  <2>3. ASSUME NEW delivery \in Deliveries, SendAsk(w, delivery)
        PROVE  inbox'[<<job'[w].duty, job'[w].person>>] = 1
    <3> DEFINE dp == <<job[w].duty, job[w].person>>
    <3>1. PICK v : Go(w, "ask_mark", [job[w] EXCEPT !.verdict = v])
                   /\ v \in {"ok", "not_ok"} /\ (v = "ok" => delivery = "sent")
      BY <2>3 DEF SendAsk
    <3>2. /\ job'[w].duty = job[w].duty /\ job'[w].person = job[w].person
          /\ job'[w].verdict = v /\ pc'[w] = "ask_mark"
      BY <3>1, GoMoves DEF TypeOK, Job
    <3>3. dp \in Duties \X People
      BY <2>3 DEF SendAsk, JobShape, Engaged, Labels
    <3>4. inbox'[dp] = inbox[dp] + 1
      BY <1>1, <2>3, <3>1, <3>2, <3>3 DEF SendAsk, TypeOK
    <3>5. inbox'[dp] <= 1 /\ inbox[dp] \in Nat
      BY <3>3 DEF Mailed, TypeOK
    <3> QED
      BY <3>2, <3>4, <3>5
  <2>4. CASE MarkAsk(w)
    <3>1. /\ pc[w] = "ask_mark" /\ UNCHANGED inbox
          /\ \E label : /\ Go(w, label, job[w])
                        /\ label = "ask_close" => job[w].verdict = "ok"
                        /\ label \in {"ask_close", "ask_undo"}
      BY <2>4 DEF MarkAsk, MarkExecuted, Goto, world
    <3> QED
      BY <1>1, <3>1, GoMoves DEF Delivered
  <2>5. ~UndoAsk(w)
    BY <1>1, GoMoves DEF UndoAsk, Goto
  <2> QED
    BY <2>1, <2>2, <2>3, <2>4, <2>5, Concludes
<1>2. ASSUME NEW w \in Workers, pc'[w] = "ask_fail"
      PROVE  ask'[AskRow(w)'] # "sent"
  <2>1. pc'[w] \in Concluding
    BY <1>2 DEF Concluding
  <2>2. CASE pc'[w] = pc[w] /\ job'[w] = job[w]
    <3>1. pc[w] \in Engaged
      BY <1>2, <2>2 DEF Engaged, Labels
    <3>2. PICK d \in Duties, p \in People : AskRow(w) = <<"email", d, p>>
      BY <3>1, AskNames DEF AskRow
    <3>3. AskRow(w)' = AskRow(w) /\ ask[AskRow(w)] # "sent"
      BY <1>2, <2>2 DEF AskRow, Delivered
    <3>4. SUFFICES ASSUME ask'[AskRow(w)] = "sent" PROVE FALSE
      BY <3>3
    <3>5. PICK v \in Workers : PutAsk(v) /\ AskRow(v) = <<"email", d, p>>
      BY <3>2, <3>3, <3>4, OpeningSteps
    <3>6. pc[v] = "ask_put" /\ pc[v] \in Engaged
      BY <3>5 DEF PutAsk, Engaged, Labels
    <3>7. AskKey(v) = AskKey(w)
      BY <3>1, <3>2, <3>5, <3>6, AskNames
    <3>8. CurrentKey(v) = AskKey(v) /\ CurrentKey(w) = AskKey(w)
      BY <1>2, <2>2, <3>6 DEF CurrentKey
    <3> QED
      BY <1>2, <2>2, <3>6, <3>7, <3>8 DEF Receipted, Opened, Executed
  <2>3. CASE UndoAsk(w)
    <3>1. job'[w] = job[w] /\ pc[w] = "ask_undo"
      BY <2>3, GoMoves DEF UndoAsk, Goto
    <3>2. AskRow(w)' = AskRow(w) /\ AskRow(w) \in AskIds
      BY <3>1, AskNames DEF AskRow, AskIds, Kinds, Engaged, Labels
    <3> QED
      BY <2>3, <3>2 DEF UndoAsk, PutAskRow, TypeOK
  <2>4. ~MarkAsk(w)
    BY <1>2, GoMoves DEF MarkAsk, MarkExecuted, Goto
  <2>5. \A delivery \in Deliveries : ~SendAsk(w, delivery)
    BY <1>2, GoMoves DEF SendAsk
  <2> QED
    BY <2>1, <2>2, <2>3, <2>4, <2>5, Concludes
<1> QED
  BY <1>1, <1>2 DEF Delivered

LEMMA PhantomStep ==
  ASSUME IInv, IInv', Delivered, NoPhantomAsk, [Next]_vars
  PROVE  NoPhantomAsk'
<1> USE DEF IInv
<1> SUFFICES ASSUME NEW d \in Duties, NEW p \in People
             PROVE  /\ ledger'[Key("ask", d, p)] = "failed" => ask'[<<"email", d, p>>] # "sent"
                    /\ ledger'[Key("ask", d, p)] = "verified" => inbox'[<<d, p>>] = 1
  BY DEF NoPhantomAsk, Key
<1> DEFINE key == Key("ask", d, p)
<1>1. key \in Keys /\ <<d, p>> \in Duties \X People /\ <<"email", d, p>> \in AskIds
  BY DEF Key, Keys, AskIds, Kinds
<1>2. CASE ledger'[key] = ledger[key]
  <2>1. ASSUME ledger[key] = "failed", ask'[<<"email", d, p>>] = "sent"
        PROVE  FALSE
    <3>1. ask[<<"email", d, p>>] # "sent"
      BY <2>1 DEF NoPhantomAsk
    <3>2. PICK w \in Workers : PutAsk(w) /\ AskRow(w) = <<"email", d, p>>
      BY <2>1, <3>1, OpeningSteps
    <3>3. pc[w] = "ask_put" /\ pc[w] \in Engaged
      BY <3>2 DEF PutAsk, Engaged, Labels
    <3>4. AskKey(w) = key
      BY <3>2, <3>3, AskNames
    <3> QED
      BY <2>1, <3>3, <3>4 DEF Receipted, Opened, CurrentKey
  <2>2. ledger[key] = "verified" => inbox'[<<d, p>>] = 1
    BY <1>1, MailStays DEF NoPhantomAsk
  <2> QED
    BY <1>2, <2>1, <2>2
<1>3. CASE ledger'[key] # ledger[key] /\ ledger'[key] \in {"failed", "verified"}
  <2>1. PICK w \in Workers : ReceiptMove(w)
    BY <1>3, Moves DEF Crash, store
  <2>2. ClosesReceipt(w) /\ CurrentKey(w) = key
    <3>1. ~TakesReceipt(w)
      BY <1>1, <1>3 DEF TakesReceipt, SetReceipt, TypeOK
    <3>2. ~NoReceipt(w)
      BY <1>1, <1>3 DEF NoReceipt, RecordBlocked, TypeOK
    <3>3. ~KeepsReceipt(w)
      BY <1>1, <1>3 DEF KeepsReceipt, SetReceipt, TypeOK
    <3>4. ClosesReceipt(w) => CurrentKey(w) = key
      BY <1>1, <1>3 DEF ClosesReceipt, SetReceipt, TypeOK
    <3> QED
      BY <2>1, <3>1, <3>2, <3>3, <3>4 DEF ReceiptMove
  <2>3. /\ pc[w] \in {"ask_fail", "ask_close"}
        /\ ledger'[key] = "failed" <=> pc[w] = "ask_fail"
    <3>1. /\ DraftKey(w)[1] = "draft" /\ AssignKey(w)[1] = "assign"
          /\ VacateKey(w)[1] = "withdraw" /\ key[1] = "ask"
      BY DEF DraftKey, AssignKey, VacateKey, Key
    <3>2. pc[w] \in {"ask_fail", "ask_close"}
      BY <2>2, <3>1 DEF ClosesReceipt, Executed, CurrentKey
    <3>3. ledger'[key] = "failed" <=> pc[w] = "ask_fail"
      BY <1>1, <2>2 DEF ClosesReceipt, SetReceipt, TypeOK
    <3> QED
      BY <3>2, <3>3
  <2>4. AskKey(w) = key /\ AskRow(w) = <<"email", d, p>>
        /\ job[w].duty = d /\ job[w].person = p
    <3>1. AskKey(w) = key
      BY <2>2, <2>3 DEF CurrentKey
    <3> QED
      BY <3>1 DEF AskKey, AskRow, Key
  <2>5. ledger'[key] = "failed" => ask'[<<"email", d, p>>] # "sent"
    <3>1. SUFFICES ASSUME ledger'[key] = "failed", ask'[<<"email", d, p>>] = "sent"
                   PROVE  FALSE
      OBVIOUS
    <3>2. ask[<<"email", d, p>>] # "sent"
      BY <2>3, <2>4, <3>1 DEF Delivered
    <3>3. PICK v \in Workers : PutAsk(v) /\ AskRow(v) = <<"email", d, p>>
      BY <3>1, <3>2, OpeningSteps
    <3>4. pc'[v] = "ask_send" /\ pc[v] = "ask_put"
      BY <3>3, GoMoves DEF PutAsk, Goto
    <3>5. v # w /\ pc'[v] # pc[v]
      BY <2>3, <3>4
    <3> QED
      BY <2>1, <3>5 DEF ReceiptMove, OthersStay
  <2>6. ledger'[key] = "verified" => inbox'[<<d, p>>] = 1
    BY <1>1, <1>3, <2>3, <2>4, MailStays DEF Delivered
  <2> QED
    BY <2>5, <2>6
<1> QED
  BY <1>2, <1>3

LEMMA DeliveredInit == Init => Delivered /\ NoPhantomAsk
<1> SUFFICES ASSUME Init PROVE Delivered /\ NoPhantomAsk
  OBVIOUS
<1>1. \A d \in Duties, p \in People : Key("ask", d, p) \in Keys
  BY DEF Key, Keys
<1> QED
  BY <1>1 DEF Init, Delivered, NoPhantomAsk

(* A failed delivery leaves no phantom ask, and a verified one was          *)
(* delivered (core/fill.py, _send_ask): no answer, expiry, supersession,    *)
(* retry or death of a worker makes the receipt say otherwise afterwards.   *)
THEOREM AskReceiptsAreTrue == Spec => []NoPhantomAsk
<1>1. Init => Delivered /\ NoPhantomAsk
  BY DeliveredInit
<1>2. IInv /\ IInv' /\ (Delivered /\ NoPhantomAsk) /\ [Next]_vars
        => (Delivered /\ NoPhantomAsk)'
  BY DeliveredStep, PhantomStep
<1> QED
  BY <1>1, <1>2, Invariant, PTL DEF Spec
=============================================================================
