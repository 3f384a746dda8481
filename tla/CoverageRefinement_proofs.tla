----------------------- MODULE CoverageRefinement_proofs -----------------------
(***************************************************************************)
(* CoverageService implements RosterPromise, for every roster, every       *)
(* number of workers and every number of crashes.                          *)
(***************************************************************************)
EXTENDS CoverageRefinement, CoverageReceipts_proofs

(* The variables of the promise, as the fill loop holds them.               *)
Pairs    == Duties \X People
Promised == [dp \in Duties \X People |-> Stage(dp[1], dp[2])]
Leaving  == {dp \in Duties \X People :
               \E text \in Texts :
                 ledger[<<"withdraw", dp[1], dp[2], text>>] \notin {"absent", "blocked"}}
Mapped   == <<assigned, Promised, Leaving>>

-----------------------------------------------------------------------------
(* How far one person has come with one duty. *)

LEMMA SameStage ==
  ASSUME NEW d \in Duties, NEW p \in People,
         <<d, p>> \in yes' <=> <<d, p>> \in yes, inbox'[<<d, p>>] = inbox[<<d, p>>],
         Spent(d, p)' <=> Spent(d, p)
  PROVE  Stage(d, p)' = Stage(d, p)
BY DEF Stage

LEMMA SameStages ==
  ASSUME \A d \in Duties, p \in People : Stage(d, p)' = Stage(d, p)
  PROVE  Promised' = Promised
BY DEF Promised

LEMMA OneStage ==
  ASSUME NEW d \in Duties, NEW p \in People, NEW to, Stage(d, p)' = to,
         \A e \in Duties, q \in People : <<e, q>> # <<d, p>> => Stage(e, q)' = Stage(e, q)
  PROVE  Promised' = [Promised EXCEPT ![<<d, p>>] = to]
<1>1. ASSUME NEW x \in Duties \X People
      PROVE  Promised'[x] = IF x = <<d, p>> THEN to ELSE Promised[x]
  BY <1>1 DEF Promised
<1> QED
  BY <1>1 DEF Promised

-----------------------------------------------------------------------------
(* Claims: an assignment or a withdrawal has a receipt that was not blocked. *)

Claimed(key) == ledger[key] \notin {"absent", "blocked"}

LEMMA WorkersKey ==
  ASSUME IInv, NEW w \in Workers, pc[w] \in Holding
  PROVE  CurrentKey(w) \in Keys /\ Claimed(CurrentKey(w))
BY CurrentKeyType DEF IInv, Receipted, Holding, Claimed

(* A claim is never given up, and only made by a worker that starts on it.  *)
LEMMA ClaimStep ==
  ASSUME IInv, NEW w \in Workers, ReceiptMove(w), NEW key \in Keys
  PROVE  \/ Claimed(key)' <=> Claimed(key)
         \/ TakesReceipt(w) /\ CurrentKey(w)' = key /\ Claimed(key)'
<1>1. ledger \in [Keys -> Results]
  BY DEF IInv, TypeOK
<1>2. CASE TakesReceipt(w)
  BY <1>1, <1>2 DEF TakesReceipt, SetReceipt, Claimed
<1>3. CASE KeepsReceipt(w)
  BY <1>1, <1>3, WorkersKey DEF KeepsReceipt, SetReceipt, Claimed
<1>4. CASE ClosesReceipt(w)
  BY <1>1, <1>4, WorkersKey DEF ClosesReceipt, SetReceipt, Claimed, Holding
<1>5. CASE NoReceipt(w)
  BY <1>1, <1>5 DEF NoReceipt, RecordBlocked, Claimed
<1> QED
  BY <1>2, <1>3, <1>4, <1>5 DEF ReceiptMove

LEMMA AssignClaims ==
  ASSUME IInv, NEW w \in Workers, ReceiptMove(w), pc'[w] # "assign_write",
         NEW d \in Duties, NEW p \in People
  PROVE  Claimed(Key("assign", d, p))' <=> Claimed(Key("assign", d, p))
<1>1. Key("assign", d, p) \in Keys
  BY DEF Key, Keys
<1>2. Key("assign", d, p)' = Key("assign", d, p)
  BY DEF Key
<1>3. ASSUME TakesReceipt(w) PROVE CurrentKey(w)' # Key("assign", d, p)
  BY <1>3 DEF TakesReceipt, Starting, CurrentKey, Key, AskKey, DraftKey, VacateKey
<1> QED
  BY <1>1, <1>2, <1>3, ClaimStep

LEMMA WithdrawClaims ==
  ASSUME IInv, NEW w \in Workers, ReceiptMove(w), pc'[w] # "vacate_write"
  PROVE  UNCHANGED Leaving
<1>1. ASSUME NEW d \in Duties, NEW p \in People, NEW text \in Texts
      PROVE  Claimed(<<"withdraw", d, p, text>>)' <=> Claimed(<<"withdraw", d, p, text>>)
  <2>1. <<"withdraw", d, p, text>> \in Keys
    BY DEF Keys
  <2>2. ASSUME TakesReceipt(w) PROVE CurrentKey(w)' # <<"withdraw", d, p, text>>
    BY <2>2 DEF TakesReceipt, Starting, CurrentKey, Key, AskKey, DraftKey, AssignKey
  <2> QED
    BY <2>1, <2>2, ClaimStep
<1> QED
  BY <1>1 DEF Leaving, Claimed

(* A step that neither comes to the writing of an assignment nor leaves it. *)
LEMMA SameSpent ==
  ASSUME IInv, NEW w \in Workers, ReceiptMove(w),
         pc[w] # "assign_write", pc'[w] # "assign_write",
         NEW d \in Duties, NEW p \in People
  PROVE  Spent(d, p)' <=> Spent(d, p)
<1>1. \A v \in Workers : AboutToAssign(v, d, p)' <=> AboutToAssign(v, d, p)
  BY DEF ReceiptMove, OthersStay, AboutToAssign
<1> QED
  BY <1>1, AssignClaims DEF Spent, Claimed, Key

-----------------------------------------------------------------------------
(* The steps. *)

(* What most steps leave alone.                                             *)
PlainStep(w) ==
  /\ UNCHANGED <<assigned, yes, inbox>>
  /\ pc[w] # "assign_write" /\ pc'[w] \notin {"assign_write", "vacate_write"}

LEMMA PlainGo ==
  ASSUME TypeOK, NEW w \in Workers, UNCHANGED <<assigned, yes, inbox>>,
         pc[w] # "assign_write",
         NEW label, label \notin {"assign_write", "vacate_write"}, NEW j, Go(w, label, j)
  PROVE  PlainStep(w)
BY GoMoves DEF PlainStep

LEMMA PlainAskSteps ==
  ASSUME TypeOK, NEW w \in Workers, AskStep(w),
         \A delivery \in Deliveries : ~SendAsk(w, delivery)
  PROVE  PlainStep(w)
<1> USE DEF Settle, Goto, world
<1>1. CASE RefuseSend(w)
  BY <1>1, PlainGo DEF RefuseSend
<1>2. CASE BeginDraft(w) \/ ReplayDraft(w) \/ PutDraft(w) \/ MarkDraft(w) \/ CloseDraft(w)
  BY <1>2, PlainGo DEF BeginDraft, ReplayDraft, PutDraft, MarkDraft, CloseDraft, Begin,
     Replay, MarkExecuted, store
<1>3. CASE BeginAsk(w) \/ ReplayAsk(w) \/ PutAsk(w)
  BY <1>3, PlainGo DEF BeginAsk, Begin, ReplayAsk, Replay, PutAsk, store
<1>4. CASE MarkAsk(w) \/ UndoAsk(w) \/ FailAsk(w) \/ CloseAsk(w)
  BY <1>4, PlainGo DEF MarkAsk, MarkExecuted, UndoAsk, FailAsk, CloseAsk, store
<1> QED
  BY <1>1, <1>2, <1>3, <1>4 DEF AskStep

LEMMA PlainOtherSteps ==
  ASSUME TypeOK, NEW w \in Workers,
         \/ Choose(w) \/ SweepStep(w) \/ SupersedeStep(w) \/ StartSweep(w)
         \/ \E d \in Duties, p \in People, text \in Texts : ReceiveNotice(w, d, p, text)
  PROVE  PlainStep(w)
<1> USE DEF Settle, Goto, world, store
<1>1. CASE Choose(w)
  BY <1>1, PlainGo DEF Choose, AskNobody, ChooseCandidate, MayAskAbout
<1>2. CASE SweepStep(w) \/ SupersedeStep(w) \/ StartSweep(w)
  BY <1>2, PlainGo DEF SweepStep, FindGaps, ExpireLapsed, SupersedeStep, ListOtherAsks,
     SupersedeOtherAsk, EndSupersede, StartSweep
<1>3. ASSUME NEW d \in Duties, NEW p \in People, NEW text \in Texts,
             ReceiveNotice(w, d, p, text)
      PROVE  PlainStep(w)
  BY <1>3, PlainGo DEF ReceiveNotice
<1> QED
  BY <1>1, <1>2, <1>3

LEMMA PlainAnswerSteps ==
  ASSUME TypeOK, NEW w \in Workers, ResponseStep(w), ~BeginAssignment(w), ~WriteAssignment(w)
  PROVE  PlainStep(w)
BY PlainGo DEF ResponseStep, ReadRosterForAnswer, PutAnswer, AuthorizeAssignment,
   RefuseAssignment, ReplayAssignment, MarkAssignment, CloseAssignment, Replay, MarkExecuted,
   Settle, Goto, world, store

LEMMA PlainWithdrawalSteps ==
  ASSUME TypeOK, NEW w \in Workers, WithdrawalStep(w), ~BeginWithdrawal(w), ~WriteVacancy(w)
  PROVE  PlainStep(w)
BY PlainGo DEF WithdrawalStep, RefuseWithdrawal, ReplayWithdrawal, MarkVacancy, CloseVacancy,
   RecordDeparture, Replay, MarkExecuted, Settle, Goto, world, store

LEMMA PlainMapped ==
  ASSUME IInv, NEW w \in Workers, ReceiptMove(w), PlainStep(w)
  PROVE  UNCHANGED Mapped
<1>1. UNCHANGED Promised
  BY SameSpent, SameStage, SameStages DEF PlainStep
<1> QED
  BY <1>1, WithdrawClaims DEF PlainStep, Mapped

(* Somebody is mailed: the promise invites them, if they had not come       *)
(* further already.                                                         *)
LEMMA SendInvites ==
  ASSUME IInv, NEW w \in Workers, NEW delivery \in Deliveries, SendAsk(w, delivery)
  PROVE  [Promise!Next]_Mapped
<1>0. PICK d \in Duties, p \in People : d = job[w].duty /\ p = job[w].person
  BY DEF SendAsk, IInv, JobShape, Engaged, Labels
<1>1. pc[w] = "ask_send" /\ UNCHANGED <<assigned, ledger, yes>>
  BY DEF SendAsk, store
<1>2. ReceiptMove(w) /\ pc'[w] = "ask_mark"
  BY AskMoves, GoMoves DEF IInv, SendAsk, AskStep
<1>3. UNCHANGED Leaving
  BY <1>2, WithdrawClaims
<1>4. \A e \in Duties, q \in People : Spent(e, q)' <=> Spent(e, q)
  BY <1>1, <1>2, SameSpent
<1>5. \A e \in Duties, q \in People : <<e, q>> # <<d, p>> => inbox'[<<e, q>>] = inbox[<<e, q>>]
  BY <1>0 DEF SendAsk, IInv, TypeOK
<1>6. \A e \in Duties, q \in People : <<e, q>> # <<d, p>> => Stage(e, q)' = Stage(e, q)
  BY <1>1, <1>4, <1>5, SameStage
<1>7. CASE Stage(d, p)' = Stage(d, p)
  <2>1. UNCHANGED Promised
    BY <1>6, <1>7, SameStages
  <2> QED
    BY <1>1, <1>3, <2>1 DEF Mapped
<1>8. CASE Stage(d, p)' # Stage(d, p)
  <2>1. inbox[<<d, p>>] \in Nat /\ inbox'[<<d, p>>] \in {inbox[<<d, p>>], inbox[<<d, p>>] + 1}
    BY <1>0 DEF SendAsk, IInv, TypeOK
  <2>2. Stage(d, p) = "none" /\ Stage(d, p)' = "invited"
    BY <1>1, <1>4, <1>8, <2>1 DEF Stage
  <2>3. Promised' = [Promised EXCEPT ![<<d, p>>] = "invited"] /\ Promised[<<d, p>>] = "none"
    BY <1>1, <1>6, <2>2, OneStage DEF Promised
  <2>4. Promise!Invite(<<d, p>>)
    BY <1>1, <1>3, <2>3 DEF Promise!Invite, Promise!Advance, Promised, Leaving
  <2> QED
    BY <1>1, <2>4 DEF Promise!Next, Promise!Pairs
<1> QED
  BY <1>7, <1>8

(* Somebody taps a link: the promise takes their word, the first time they  *)
(* accept.                                                                  *)
LEMMA TapAgrees ==
  ASSUME IInv, NEW w \in Workers, NEW d \in Duties, NEW p \in People,
         NEW accept \in BOOLEAN, TapLink(w, d, p, accept)
  PROVE  [Promise!Next]_Mapped
<1>1. /\ UNCHANGED <<assigned, ledger, inbox>> /\ pc[w] = "idle" /\ inbox[<<d, p>>] > 0
      /\ yes' \in {yes, yes \cup {<<d, p>>}}
  BY DEF TapLink, store
<1>2. ReceiptMove(w)
  BY OtherMoves DEF IInv, Request
<1>3. pc'[w] \in {"respond", "respond_put"}
  <2>1. PICK label \in {"respond", "respond_put"} : \E j : Go(w, label, j)
    BY DEF TapLink
  <2> QED
    BY <2>1, GoMoves DEF IInv
<1>4. UNCHANGED Leaving
  BY <1>2, <1>3, WithdrawClaims
<1>5. \A e \in Duties, q \in People : Spent(e, q)' <=> Spent(e, q)
  BY <1>1, <1>2, <1>3, SameSpent
<1>6. \A e \in Duties, q \in People : <<e, q>> # <<d, p>> => Stage(e, q)' = Stage(e, q)
  BY <1>1, <1>5, SameStage
<1>7. CASE Stage(d, p)' = Stage(d, p)
  <2>1. UNCHANGED Promised
    BY <1>6, <1>7, SameStages
  <2> QED
    BY <1>1, <1>4, <2>1 DEF Mapped
<1>8. CASE Stage(d, p)' # Stage(d, p)
  <2>1. Stage(d, p) = "invited" /\ Stage(d, p)' = "agreed"
    BY <1>1, <1>5, <1>8 DEF Stage
  <2>2. Promised' = [Promised EXCEPT ![<<d, p>>] = "agreed"] /\ Promised[<<d, p>>] = "invited"
    BY <1>6, <2>1, OneStage DEF Promised
  <2>3. Promise!Agree(<<d, p>>)
    BY <1>1, <1>4, <2>2 DEF Promise!Agree, Promise!Advance, Promised, Leaving
  <2> QED
    BY <2>3 DEF Promise!Next, Promise!Pairs
<1> QED
  BY <1>7, <1>8

(* The receipt of an assignment alone changes nothing.                      *)
LEMMA BeginAssignmentStutters ==
  ASSUME IInv, NEW w \in Workers, BeginAssignment(w)
  PROVE  UNCHANGED Mapped
<1>1. /\ pc[w] = "assign_begin" /\ ledger[AssignKey(w)] = "absent"
      /\ SetReceipt(AssignKey(w), "open") /\ Go(w, "assign_write", job[w])
      /\ UNCHANGED <<assigned, yes, inbox>>
  BY DEF BeginAssignment, Begin, Goto, SetReceipt, world
<1>2. ReceiptMove(w)
  BY ResponseMoves DEF IInv, ResponseStep
<1>3. OthersStay(w) /\ pc'[w] = "assign_write" /\ job'[w] = job[w]
  BY <1>1, GoMoves DEF IInv
<1>4. UNCHANGED Leaving
  BY <1>2, <1>3, WithdrawClaims
<1>5. ASSUME NEW d \in Duties, NEW p \in People
      PROVE  Spent(d, p)' <=> Spent(d, p)
  <2>1. Key("assign", d, p) \in Keys /\ Key("assign", d, p)' = Key("assign", d, p)
    BY DEF Key, Keys
  <2>2. CASE AssignKey(w) = Key("assign", d, p)
    <3>1. job[w].duty = d /\ job[w].person = p
      BY <2>2 DEF AssignKey, Key
    <3>2. AboutToAssign(w, d, p)'
      BY <1>3, <3>1 DEF AboutToAssign
    <3> QED
      BY <1>1, <2>2, <3>2 DEF Spent
  <2>3. CASE AssignKey(w) # Key("assign", d, p)
    <3>1. ledger'[Key("assign", d, p)] = ledger[Key("assign", d, p)]
      BY <1>1, <2>1, <2>3 DEF SetReceipt, IInv, TypeOK
    <3>2. ~AboutToAssign(w, d, p) /\ ~AboutToAssign(w, d, p)'
      BY <1>1, <1>3, <2>3 DEF AboutToAssign, AssignKey, Key
    <3>3. \A v \in Workers : AboutToAssign(v, d, p)' <=> AboutToAssign(v, d, p)
      BY <1>3, <3>2 DEF AboutToAssign, OthersStay
    <3> QED
      BY <2>1, <3>1, <3>3 DEF Spent
  <2> QED
    BY <2>2, <2>3
<1>6. UNCHANGED Promised
  BY <1>1, <1>5, SameStage, SameStages
<1> QED
  BY <1>1, <1>4, <1>6 DEF Mapped

(* The only worker with the receipt of the assignment is about to write it. *)
LEMMA WriterAgreed ==
  ASSUME IInv, NEW w \in Workers, pc[w] = "assign_write"
  PROVE  /\ job[w].duty \in Duties /\ job[w].person \in People
         /\ ledger[AssignKey(w)] = "open"
         /\ AssignKey(w) = Key("assign", job[w].duty, job[w].person)
         /\ Stage(job[w].duty, job[w].person) = "agreed"
         /\ \A v \in Workers \ {w} : ~AboutToAssign(v, job[w].duty, job[w].person)
<1> USE DEF IInv
<1>1. /\ job[w].duty \in Duties /\ job[w].person \in People
      /\ <<job[w].duty, job[w].person>> \in yes
  BY DEF JobShape, Consented, Engaged, Labels, Assigning
<1>2. ledger[AssignKey(w)] = "open"
  BY DEF Receipted, Opened, CurrentKey
<1>3. ASSUME NEW v \in Workers, AboutToAssign(v, job[w].duty, job[w].person)
      PROVE  v = w
  <2>1. pc[v] = "assign_write" /\ AssignKey(v) = AssignKey(w)
    BY <1>3 DEF AboutToAssign, AssignKey
  <2>2. CurrentKey(v) = CurrentKey(w)
    BY <2>1 DEF CurrentKey
  <2> QED
    BY <2>1, <2>2 DEF Receipted, Opened
<1>4. AboutToAssign(w, job[w].duty, job[w].person)
  BY DEF AboutToAssign
<1>5. Stage(job[w].duty, job[w].person) = "agreed"
  BY <1>1, <1>4 DEF Stage, Spent
<1> QED
  BY <1>1, <1>2, <1>3, <1>5 DEF AssignKey

(* When that worker is gone from the writing, the agreement is spent.       *)
LEMMA WriterSpends ==
  ASSUME IInv, NEW w \in Workers, pc[w] = "assign_write", pc'[w] # "assign_write",
         OthersStay(w), UNCHANGED <<ledger, yes, inbox>>
  PROVE  /\ <<job[w].duty, job[w].person>> \in Pairs
         /\ Promised[<<job[w].duty, job[w].person>>] = "agreed"
         /\ Promised' = [Promised EXCEPT ![<<job[w].duty, job[w].person>>] = "spent"]
<1>0. PICK d \in Duties, p \in People : d = job[w].duty /\ p = job[w].person
  BY WriterAgreed
<1>1. /\ Stage(d, p) = "agreed"
      /\ ledger[Key("assign", d, p)] = "open"
      /\ \A v \in Workers \ {w} : ~AboutToAssign(v, d, p)
  BY <1>0, WriterAgreed
<1>2. \A e \in Duties, q \in People : \A v \in Workers \ {w} :
        AboutToAssign(v, e, q)' <=> AboutToAssign(v, e, q)
  BY DEF AboutToAssign, OthersStay
<1>3. \A e \in Duties, q \in People : ~AboutToAssign(w, e, q)'
  BY DEF AboutToAssign
<1>4. ASSUME NEW e \in Duties, NEW q \in People, <<e, q>> # <<d, p>>
      PROVE  Stage(e, q)' = Stage(e, q)
  <2>1. ~AboutToAssign(w, e, q)
    BY <1>0, <1>4 DEF AboutToAssign
  <2>2. Spent(e, q)' <=> Spent(e, q)
    BY <1>2, <1>3, <2>1 DEF Spent, Key
  <2> QED
    BY <2>2, SameStage
<1>5. Stage(d, p)' = "spent"
  <2>1. Spent(d, p)'
    BY <1>1, <1>2, <1>3 DEF Spent, Key
  <2> QED
    BY <2>1 DEF Stage
<1>6. Promised' = [Promised EXCEPT ![<<d, p>>] = "spent"]
  BY <1>1, <1>4, <1>5, OneStage
<1> QED
  BY <1>0, <1>1, <1>6 DEF Promised, Pairs

LEMMA WriteJoins ==
  ASSUME IInv, NEW w \in Workers, WriteAssignment(w)
  PROVE  [Promise!Next]_Mapped
<1> DEFINE dp == <<job[w].duty, job[w].person>>
<1>1. /\ pc[w] = "assign_write" /\ UNCHANGED <<ledger, yes, inbox>>
      /\ Go(w, "assign_mark", job[w])
      /\ assigned' = [assigned EXCEPT ![job[w].duty] = job[w].person]
  BY DEF WriteAssignment, Goto, world
<1>2. OthersStay(w) /\ pc'[w] = "assign_mark"
  BY <1>1, GoMoves DEF IInv
<1>3. /\ dp \in Pairs /\ Promised[dp] = "agreed"
      /\ Promised' = [Promised EXCEPT ![dp] = "spent"]
  BY <1>1, <1>2, WriterSpends
<1>4. UNCHANGED Leaving
  BY <1>1 DEF Leaving
<1>5. assigned' = [assigned EXCEPT ![dp[1]] = dp[2]]
  BY <1>1
<1> HIDE DEF dp
<1>6. Promise!Join(dp)
  BY <1>3, <1>4, <1>5 DEF Promise!Join, Promise!Advance, Promised, Leaving
<1> QED
  BY <1>3, <1>6 DEF Promise!Next, Promise!Pairs, Pairs

LEMMA CrashLoses ==
  ASSUME IInv, NEW w \in Workers, Crash(w)
  PROVE  [Promise!Next]_Mapped
<1> DEFINE dp == <<job[w].duty, job[w].person>>
<1>1. /\ UNCHANGED <<assigned, ledger, yes, inbox>>
      /\ OthersStay(w) /\ pc'[w] = "idle"
  BY GoMoves DEF Crash, store, IInv
<1>2. UNCHANGED Leaving
  BY <1>1 DEF Leaving
<1>3. CASE pc[w] = "assign_write"
  <2>1. /\ dp \in Pairs /\ Promised[dp] = "agreed"
        /\ Promised' = [Promised EXCEPT ![dp] = "spent"]
    BY <1>1, <1>3, WriterSpends
  <2> HIDE DEF dp
  <2>2. Promise!Lose(dp)
    BY <1>1, <1>2, <2>1 DEF Promise!Lose, Promise!Advance, Promised, Leaving
  <2> QED
    BY <2>1, <2>2 DEF Promise!Next, Promise!Pairs, Pairs
<1>4. CASE pc[w] # "assign_write"
  <2>1. ASSUME NEW d \in Duties, NEW p \in People
        PROVE  Spent(d, p)' <=> Spent(d, p)
    <3>1. \A v \in Workers : AboutToAssign(v, d, p)' <=> AboutToAssign(v, d, p)
      BY <1>1, <1>4 DEF AboutToAssign, OthersStay
    <3> QED
      BY <1>1, <3>1 DEF Spent, Key
  <2>2. UNCHANGED Promised
    BY <1>1, <2>1, SameStage, SameStages
  <2> QED
    BY <1>1, <1>2, <2>2 DEF Mapped
<1> QED
  BY <1>3, <1>4

(* The receipt of a withdrawal is somebody's notice.                        *)
LEMMA BeginGivesNotice ==
  ASSUME IInv, NEW w \in Workers, BeginWithdrawal(w)
  PROVE  [Promise!Next]_Mapped
<1>0. PICK d \in Duties, p \in People, t \in Texts :
        d = job[w].duty /\ p = job[w].person /\ t = job[w].text
  BY DEF BeginWithdrawal, Begin, IInv, JobShape, Engaged, Labels, Vacating
<1> DEFINE key == <<"withdraw", d, p, t>>
<1>1. /\ pc[w] = "vacate_begin" /\ SetReceipt(key, "open") /\ key \in Keys
      /\ Go(w, "vacate_write", job[w]) /\ UNCHANGED <<assigned, yes, inbox>>
  BY <1>0 DEF BeginWithdrawal, Begin, Goto, SetReceipt, VacateKey, world, Keys
<1>2. ReceiptMove(w) /\ pc'[w] = "vacate_write"
  BY <1>1, WithdrawalMoves, GoMoves DEF IInv, WithdrawalStep
<1>3. UNCHANGED Promised
  BY <1>1, <1>2, SameSpent, SameStage, SameStages
<1>4. \A k \in Keys : ledger'[k] = IF k = key THEN "open" ELSE ledger[k]
  BY <1>1 DEF SetReceipt, IInv, TypeOK
<1>5. ASSUME NEW e \in Duties, NEW q \in People
      PROVE  <<e, q>> \in Leaving' <=> <<e, q>> \in Leaving \/ <<e, q>> = <<d, p>>
  <2>1. \A text \in Texts : <<"withdraw", e, q, text>> \in Keys
    BY DEF Keys
  <2>2. <<e, q>> \in Leaving' <=>
          \E text \in Texts : ledger'[<<"withdraw", e, q, text>>] \notin {"absent", "blocked"}
    BY DEF Leaving
  <2>3. <<e, q>> \in Leaving <=>
          \E text \in Texts : ledger[<<"withdraw", e, q, text>>] \notin {"absent", "blocked"}
    BY DEF Leaving
  <2>4. CASE <<e, q>> = <<d, p>>
    BY <1>4, <2>1, <2>2, <2>4
  <2>5. CASE <<e, q>> # <<d, p>>
    <3>1. \A text \in Texts : ledger'[<<"withdraw", e, q, text>>] = ledger[<<"withdraw", e, q, text>>]
      BY <1>4, <2>1, <2>5
    <3> QED
      BY <2>2, <2>3, <2>5, <3>1
  <2> QED
    BY <2>4, <2>5
<1>6. Leaving' = Leaving \cup {<<d, p>>}
  <2>1. Leaving \subseteq Duties \X People /\ Leaving' \subseteq Duties \X People
    BY DEF Leaving
  <2>2. \A x \in Duties \X People : x \in Leaving' <=> x \in Leaving \cup {<<d, p>>}
    BY <1>5
  <2> QED
    BY <2>1, <2>2
<1>7. Promise!GiveNotice(<<d, p>>)
  BY <1>1, <1>3, <1>6 DEF Promise!GiveNotice, Promised, Leaving
<1> QED
  BY <1>7 DEF Promise!Next, Promise!Pairs

LEMMA WriteVacates ==
  ASSUME IInv, NEW w \in Workers, WriteVacancy(w)
  PROVE  [Promise!Next]_Mapped
<1> DEFINE dp == <<job[w].duty, job[w].person>>
<1>1. /\ pc[w] = "vacate_write" /\ UNCHANGED <<ledger, yes, inbox>>
      /\ Go(w, "vacate_mark", job[w])
      /\ assigned' = [assigned EXCEPT ![dp[1]] = None]
  BY DEF WriteVacancy, Goto, world
<1>2. ReceiptMove(w) /\ pc'[w] = "vacate_mark"
  BY <1>1, WithdrawalMoves, GoMoves DEF IInv, WithdrawalStep
<1>3. UNCHANGED Leaving
  BY <1>1 DEF Leaving
<1>4. UNCHANGED Promised
  BY <1>1, <1>2, SameSpent, SameStage, SameStages
<1>5. dp \in Duties \X People /\ dp \in Leaving
  <2>1. dp \in Duties \X People /\ job[w].text \in Texts
    BY <1>1 DEF IInv, JobShape, Engaged, Labels, Vacating
  <2>2. ledger[VacateKey(w)] = "open"
    BY <1>1 DEF IInv, Receipted, Opened, CurrentKey
  <2> QED
    BY <2>1, <2>2 DEF Leaving, VacateKey
<1> HIDE DEF dp
<1>6. Promise!Vacate(dp)
  BY <1>1, <1>3, <1>4, <1>5 DEF Promise!Vacate, Promised, Leaving
<1> QED
  BY <1>5, <1>6 DEF Promise!Next, Promise!Pairs

LEMMA PromiseStep ==
  ASSUME IInv, [Next]_vars
  PROVE  [Promise!Next]_Mapped
<1>1. CASE UNCHANGED vars \/ Environment
  <2>1. UNCHANGED <<assigned, ledger, yes, inbox, pc, job>>
    BY <1>1 DEF vars, store, world, Environment, Lapse, ToggleGrant, Dusk
  <2>2. UNCHANGED Leaving
    BY <2>1 DEF Leaving
  <2>3. ASSUME NEW d \in Duties, NEW p \in People
        PROVE  Stage(d, p)' = Stage(d, p)
    BY <2>1 DEF Stage, Spent, AboutToAssign, Key
  <2>4. UNCHANGED Promised
    BY <2>3, SameStages
  <2> QED
    BY <2>1, <2>2, <2>4 DEF Mapped
<1>2. ASSUME NEW w \in Workers, AskStep(w)
      PROVE  [Promise!Next]_Mapped
  <2>1. CASE \E delivery \in Deliveries : SendAsk(w, delivery)
    BY <2>1, SendInvites
  <2>2. CASE \A delivery \in Deliveries : ~SendAsk(w, delivery)
    BY <1>2, <2>2, AskMoves, PlainAskSteps, PlainMapped DEF IInv
  <2> QED
    BY <2>1, <2>2
<1>3. ASSUME NEW w \in Workers, Choose(w) \/ SweepStep(w) \/ SupersedeStep(w) \/ Request(w)
      PROVE  [Promise!Next]_Mapped
  <2>1. ReceiptMove(w)
    BY <1>3, OtherMoves DEF IInv
  <2>2. CASE \E d \in Duties, p \in People, accept \in BOOLEAN : TapLink(w, d, p, accept)
    BY <2>2, TapAgrees
  <2>3. CASE ~\E d \in Duties, p \in People, accept \in BOOLEAN : TapLink(w, d, p, accept)
    <3>1. PlainStep(w)
      BY <1>3, <2>3, PlainOtherSteps DEF IInv, Request
    <3> QED
      BY <2>1, <3>1, PlainMapped
  <2> QED
    BY <2>2, <2>3
<1>4. ASSUME NEW w \in Workers, ResponseStep(w)
      PROVE  [Promise!Next]_Mapped
  <2>1. CASE BeginAssignment(w) \/ WriteAssignment(w)
    BY <2>1, BeginAssignmentStutters, WriteJoins
  <2>2. CASE ~BeginAssignment(w) /\ ~WriteAssignment(w)
    BY <1>4, <2>2, ResponseMoves, PlainAnswerSteps, PlainMapped DEF IInv
  <2> QED
    BY <2>1, <2>2
<1>5. ASSUME NEW w \in Workers, WithdrawalStep(w)
      PROVE  [Promise!Next]_Mapped
  <2>1. CASE BeginWithdrawal(w) \/ WriteVacancy(w)
    BY <2>1, BeginGivesNotice, WriteVacates
  <2>2. CASE ~BeginWithdrawal(w) /\ ~WriteVacancy(w)
    BY <1>5, <2>2, WithdrawalMoves, PlainWithdrawalSteps, PlainMapped DEF IInv
  <2> QED
    BY <2>1, <2>2
<1>6. ASSUME NEW w \in Workers, Crash(w)
      PROVE  [Promise!Next]_Mapped
  BY <1>6, CrashLoses
<1> QED
  BY <1>1, <1>2, <1>3, <1>4, <1>5, <1>6 DEF Next

LEMMA PromiseInit == Init => Promise!Init
<1> SUFFICES ASSUME Init PROVE Promise!Init
  OBVIOUS
<1>1. ASSUME NEW d \in Duties, NEW p \in People
      PROVE  Stage(d, p) = "none"
  <2>1. Key("assign", d, p) \in Keys
    BY DEF Key, Keys
  <2> QED
    BY <2>1 DEF Init, Stage, Spent
<1>2. Promised = [dp \in Duties \X People |-> "none"]
  BY <1>1 DEF Promised
<1>3. Leaving = {}
  <2>1. \A d \in Duties, p \in People, text \in Texts :
          ledger[<<"withdraw", d, p, text>>] = "absent"
    BY DEF Init, Keys
  <2> QED
    BY <2>1 DEF Leaving
<1> QED
  BY <1>2, <1>3 DEF Init, Promise!Init, Promise!Pairs, Promised, Leaving

(* Whatever the workers' order and wherever they die, the roster keeps the  *)
(* promise: one invitation, an agreement only to an invitation, one joining *)
(* per agreement, and nobody off a duty before a withdrawal from it         *)
(* (core/fill.py).                                                          *)
THEOREM PromiseIsKept == Spec => KeepsPromise
<1>1. Init => Promise!Init
  BY PromiseInit
<1>2. IInv /\ [Next]_vars => [Promise!Next]_Mapped
  BY PromiseStep
<1> QED
  BY <1>1, <1>2, Invariant, PTL
  DEF Spec, KeepsPromise, Promise!Spec, Promise!vars, Mapped, Promised, Leaving
=============================================================================
