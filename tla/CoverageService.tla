--------------------------- MODULE CoverageService ---------------------------
(***************************************************************************)
(* The fill loop of one organisation: CoverageService (core/fill.py) over  *)
(* a durable Store and its Ledger (core/ledger.py).                        *)
(*                                                                         *)
(* A worker is one thread of a Lambda or of the API running one public     *)
(* operation: ask_next, sweep, record_response or record_withdrawal.       *)
(* Workers share nothing but the store, so an operation is a chain of      *)
(* store and notifier calls, one step per call, and the calls of different *)
(* workers interleave.  What a worker decided from a snapshot it keeps in  *)
(* its job; the world may have moved on when it acts on it.  A call that   *)
(* touches only the worker's own receipt is joined to the read next to it. *)
(***************************************************************************)
EXTENDS Integers, FiniteSets

CONSTANTS
  Workers,            \* threads that may run an operation
  People, Duties,     \* the roster
  Active, OptedIn,    \* people on the rota; people who agreed to be contacted
  NightSleepers,      \* people whose quiet hours are the night
  Overlaps,           \* pairs of duties whose windows overlap
  WeeklyAsks,         \* max_asks_per_person_per_week
  InitialHolder,      \* who is on each duty at first (None: nobody)
  InitiallyConfirmed, \* duties whose first holder has confirmed
  Texts, Notices,     \* withdrawal wordings; the withdrawals that may arrive
  InitialGrants,      \* action classes granted at first
  Revocable,          \* action classes the coordinator may grant and revoke
  Deliveries,         \* what the mail provider may do with a message
  SweepLimit,         \* the most gaps one sweep advances
  MaxCrashes,         \* bound: operations that die half-way
  None

Levels    == {"draft", "send", "write"}
Kinds     == {"email", "draft"}
AskIds    == Kinds \X Duties \X People
AskStates == {"absent", "sent", "accepted", "declined", "expired", "withdrawn",
              "superseded"}
Results   == {"absent", "open", "executed", "verified", "conflicted", "failed",
              "blocked"}

(* Idempotency keys: one per duty and person, and per wording of a         *)
(* withdrawal.  The assign key also holds the ask's id, which the duty and *)
(* the person determine here (one e-mailed ask each).                      *)
Key(op, d, p) == <<op, d, p, None>>
Keys == ({"ask", "draft", "assign", "blocked_send"} \X Duties \X People \X {None})
          \cup ({"withdraw"} \X Duties \X People \X Texts)

ASSUME ConstantsAssumption ==
  /\ None \notin People \cup Duties \cup Texts
  /\ Active \subseteq People /\ OptedIn \subseteq People /\ NightSleepers \subseteq People
  /\ Overlaps \subseteq Duties \X Duties
  /\ InitialHolder \in [Duties -> People \cup {None}]
  /\ InitiallyConfirmed \subseteq Duties
  /\ Notices \subseteq Duties \X People \X Texts
  /\ InitialGrants \subseteq Levels /\ Revocable \subseteq Levels
  /\ Deliveries \subseteq {"sent", "lost", "unsure"}
  /\ WeeklyAsks \in Nat /\ SweepLimit \in Nat /\ MaxCrashes \in Nat

VARIABLES
  assigned,  \* Duty.assigned_person_id
  confirmed, \* duties whose confirmed_at is set
  ask,       \* the state of each ask row
  gone,      \* <<duty, person>> with a withdrawal row (_record of a departure)
  ledger,    \* the result of the receipt under each idempotency key
  lapsed,    \* asks whose expires_at has passed
  grants,    \* action classes granted now
  night,     \* whether it is quiet hours for the NightSleepers
  inbox,     \* messages each person has received about each duty
  yes,       \* <<duty, person>> whose accept link was tapped while it was open
  pc, job,   \* where each worker is and what it carries
  crashes

store == <<assigned, confirmed, ask, gone, ledger>>
world == <<lapsed, grants, night, inbox, yes, crashes>>
vars  == <<store, world, pc, job>>

Job == [duty    : Duties \cup {None},
        person  : People \cup {None},
        text    : Texts \cup {None},
        verdict : AskStates \cup {"draft", "stop", "ok", "not_ok"},
        asks    : SUBSET AskIds,
        gaps    : SUBSET Duties]

NoJob == [duty |-> None, person |-> None, text |-> None, verdict |-> "absent",
          asks |-> {}, gaps |-> {}]

Labels == {"idle", "expire", "sweep",
           "refuse", "draft_begin", "draft_put", "draft_mark", "draft_close",
           "ask_begin", "ask_put", "ask_send", "ask_mark", "ask_undo", "ask_fail",
           "ask_close",
           "respond", "respond_put", "assign", "assign_refuse", "assign_begin",
           "assign_write", "assign_mark", "assign_close",
           "vacate_refuse", "vacate_begin", "vacate_write", "vacate_mark",
           "vacate_close",
           "others", "supersede", "depart"}

Init ==
  /\ assigned = InitialHolder
  /\ confirmed = InitiallyConfirmed
  /\ ask = [a \in AskIds |-> "absent"]
  /\ gone = {}
  /\ ledger = [k \in Keys |-> "absent"]
  /\ lapsed = {}
  /\ grants = InitialGrants
  /\ night = FALSE
  /\ inbox = [dp \in Duties \X People |-> 0]
  /\ yes = {}
  /\ pc = [w \in Workers |-> "idle"]
  /\ job = [w \in Workers |-> NoJob]
  /\ crashes = 0

-----------------------------------------------------------------------------
(* What a snapshot of the roster says. *)

NeedsFilling(d) == assigned[d] \notin Active \/ d \notin confirmed

IsOpen(a) == ask[a] = "sent" /\ a \notin lapsed

OpenDraftFor(d) == \E p \in People : IsOpen(<<"draft", d, p>>)       \* a mutant
OpenAskFor(d)   == \E p \in People : IsOpen(<<"email", d, p>>)

OpenAsksOf(p)   == Cardinality({d \in Duties : ask[<<"email", d, p>>] = "sent"})  \* a mutant
AsksThisWeek(p) == Cardinality({d \in Duties : ask[<<"email", d, p>>] # "absent"})

Asleep(p) == night /\ p \in NightSleepers

BookedBefore(d, p) == assigned[d] = p                                \* a mutant
DoubleBooked(d, p) ==
  \E e \in Duties \ {d} : assigned[e] = p /\ <<d, e>> \in Overlaps

AskedAndOpen(d, p)  == \E k \in Kinds : ask[<<k, d, p>>] = "sent"     \* a mutant
AskedAndAnswered(d, p) ==                                            \* a mutant
  \E k \in Kinds : ask[<<k, d, p>>] \in {"sent", "expired", "declined", "withdrawn"}
AskedBefore(d, p) ==
  \/ <<d, p>> \in gone
  \/ \E k \in Kinds : ask[<<k, d, p>>] \in {"sent", "expired", "declined", "withdrawn"}

WaitingForMail(p) == \E e \in Duties : IsOpen(<<"email", e, p>>)      \* a mutant
OpenAskElsewhere(p) == \E k \in Kinds, e \in Duties : IsOpen(<<k, e, p>>)

Eligible(d, p, action) ==
  /\ p \in Active
  /\ assigned[d] # p
  /\ ~DoubleBooked(d, p)
  /\ ~AskedBefore(d, p)
  /\ ~OpenAskElsewhere(p)
  /\ AsksThisWeek(p) < WeeklyAsks
  /\ action = "send" => p \in OptedIn

BestAvailableAction == IF "send" \in grants THEN "send" ELSE "draft"

(* rank orders the eligible people by load and history, which are not      *)
(* modelled: any of them may come first.                                   *)
Shortlist(d) == {p \in People : Eligible(d, p, BestAvailableAction)}

(* authorize for SEND_ASK (R3, R5 to R8), and the R7 refusal on its own.   *)
MaySend(p) ==
  /\ "send" \in grants
  /\ p \in Active \cap OptedIn
  /\ ~Asleep(p)
  /\ AsksThisWeek(p) < WeeklyAsks

QuietHoursRefusal(p) ==
  "send" \in grants /\ p \in Active \cap OptedIn /\ Asleep(p)

(* authorize for WRITE_ROSTER: an assignment (R10, R11), a withdrawal (R13). *)
MayAssign(d, p) == "write" \in grants /\ ask[<<"email", d, p>>] = "accepted"
MayVacateAnyone(d, p) == "write" \in grants                          \* a mutant
MayVacate(d, p) == "write" \in grants /\ assigned[d] = p

-----------------------------------------------------------------------------
(* Moving a worker on. *)

Go(w, label, j) ==
  /\ pc' = [pc EXCEPT ![w] = label]
  /\ job' = [job EXCEPT ![w] = j]

Goto(w, label) == Go(w, label, job[w])

(* The end of an operation: a sweep goes on with the gaps it has left.     *)
Settle(w, gaps) ==
  IF gaps = {} THEN Go(w, "idle", NoJob)
               ELSE Go(w, "sweep", [NoJob EXCEPT !.gaps = gaps])

BeginUnchecked(w, key, from, to) ==                                  \* a mutant
  /\ pc[w] = from
  /\ ledger' = [ledger EXCEPT ![key] = "open"]
  /\ Goto(w, to)
  /\ UNCHANGED <<assigned, confirmed, ask, gone, world>>

(* Ledger.begin: the receipt is claimed, or it exists and nothing is done. *)
Begin(w, key, from, to) ==
  /\ pc[w] = from
  /\ ledger[key] = "absent"
  /\ ledger' = [ledger EXCEPT ![key] = "open"]
  /\ Goto(w, to)
  /\ UNCHANGED <<assigned, confirmed, ask, gone, world>>

Replay(w, key, from) ==
  /\ pc[w] = from
  /\ ledger[key] # "absent"
  /\ Settle(w, job[w].gaps)
  /\ UNCHANGED <<store, world>>

RecordBlockedAnyway(key) == ledger' = [ledger EXCEPT ![key] = "blocked"]  \* a mutant

(* Ledger.record_blocked: kept only when the key has no receipt yet.       *)
RecordBlocked(key) ==
  ledger' = [ledger EXCEPT ![key] = IF @ = "absent" THEN "blocked" ELSE @]

MarkExecuted(w, key, from, to) ==
  /\ pc[w] = from
  /\ ledger' = [ledger EXCEPT ![key] = "executed"]
  /\ Goto(w, to)
  /\ UNCHANGED <<assigned, confirmed, ask, gone, world>>

(* Ledger.close on what the re-read observed.                              *)
CloseReceipt(key, asIntended) ==
  ledger' = [ledger EXCEPT ![key] = IF asIntended THEN "verified" ELSE "conflicted"]

PutAskRow(a, state) == ask' = [ask EXCEPT ![a] = state]

-----------------------------------------------------------------------------
(* ask_next: who to ask, decided from one snapshot.                        *)

MayAskAbout(w, d) == pc[w] = "idle" \/ (pc[w] = "sweep" /\ d \in job[w].gaps)

AskJob(w, d, p, verdict) ==
  [NoJob EXCEPT !.duty = d, !.person = p, !.verdict = verdict,
                !.gaps = job[w].gaps \ {d}]

(* already_covered, waiting or no_candidates.                              *)
AskNobody(w, d) ==
  /\ MayAskAbout(w, d)
  /\ ~NeedsFilling(d) \/ OpenAskFor(d) \/ Shortlist(d) = {}
  /\ Settle(w, job[w].gaps \ {d})
  /\ UNCHANGED <<store, world>>

ChooseCandidate(w, d, p) ==
  /\ MayAskAbout(w, d)
  /\ NeedsFilling(d)
  /\ ~OpenAskFor(d)
  /\ p \in Shortlist(d)
  /\ IF MaySend(p)
       THEN Go(w, "ask_begin", AskJob(w, d, p, "absent"))
       ELSE Go(w, "refuse",
               AskJob(w, d, p, IF QuietHoursRefusal(p) \/ "draft" \notin grants
                                 THEN "stop" ELSE "draft"))
  /\ UNCHANGED <<store, world>>

(* The refused send is recorded, then deferred, drafted or blocked.        *)
RefuseSend(w) ==
  /\ pc[w] = "refuse"
  /\ RecordBlocked(Key("blocked_send", job[w].duty, job[w].person))
  /\ IF job[w].verdict = "draft"
       THEN Go(w, "draft_begin", [job[w] EXCEPT !.verdict = "absent"])
       ELSE Settle(w, job[w].gaps)
  /\ UNCHANGED <<assigned, confirmed, ask, gone, world>>

(* _draft_ask *)

DraftKey(w) == Key("draft", job[w].duty, job[w].person)
DraftRow(w) == <<"draft", job[w].duty, job[w].person>>

BeginDraft(w)  == Begin(w, DraftKey(w), "draft_begin", "draft_put")
ReplayDraft(w) == Replay(w, DraftKey(w), "draft_begin")

PutDraft(w) ==
  /\ pc[w] = "draft_put"
  /\ PutAskRow(DraftRow(w), "sent")
  /\ Goto(w, "draft_mark")
  /\ UNCHANGED <<assigned, confirmed, gone, ledger, world>>

MarkDraft(w) == MarkExecuted(w, DraftKey(w), "draft_mark", "draft_close")

CloseDraft(w) ==
  /\ pc[w] = "draft_close"
  /\ CloseReceipt(DraftKey(w), ask[DraftRow(w)] = "sent")
  /\ Settle(w, job[w].gaps)
  /\ UNCHANGED <<assigned, confirmed, ask, gone, world>>

(* _send_ask *)

AskKey(w) == Key("ask", job[w].duty, job[w].person)
AskRow(w) == <<"email", job[w].duty, job[w].person>>

BeginAsk(w)  == Begin(w, AskKey(w), "ask_begin", "ask_put")
ReplayAsk(w) == Replay(w, AskKey(w), "ask_begin")

PutAsk(w) ==
  /\ pc[w] = "ask_put"
  /\ PutAskRow(AskRow(w), "sent")
  /\ Goto(w, "ask_send")
  /\ UNCHANGED <<assigned, confirmed, gone, ledger, world>>

(* The provider accepts the message, loses it, or delivers it and reports  *)
(* an error (a timed-out answer is an exception, so not ok).               *)
SendAsk(w, delivery) ==
  /\ pc[w] = "ask_send"
  /\ inbox' = IF delivery = "lost" THEN inbox
              ELSE [inbox EXCEPT ![<<job[w].duty, job[w].person>>] = @ + 1]
  /\ Go(w, "ask_mark",
        [job[w] EXCEPT !.verdict = IF delivery = "sent" THEN "ok" ELSE "not_ok"])
  /\ UNCHANGED <<store, lapsed, grants, night, yes, crashes>>

MarkAsk(w) ==
  MarkExecuted(w, AskKey(w), "ask_mark",
               IF job[w].verdict = "ok" THEN "ask_close" ELSE "ask_undo")

UndoAskWithResult(w) ==                                              \* a mutant
  /\ pc[w] = "ask_undo"
  /\ PutAskRow(AskRow(w), job[w].verdict)
  /\ Goto(w, "ask_fail")
  /\ UNCHANGED <<assigned, confirmed, gone, ledger, world>>

SkipUndoAsk(w) ==                                                    \* a mutant
  /\ pc[w] = "ask_undo"
  /\ Goto(w, "ask_fail")
  /\ UNCHANGED <<store, world>>

(* The message did not go out: the row is rewritten as withdrawn, from the *)
(* copy the worker made when it created it.                                *)
UndoAsk(w) ==
  /\ pc[w] = "ask_undo"
  /\ PutAskRow(AskRow(w), "withdrawn")
  /\ Goto(w, "ask_fail")
  /\ UNCHANGED <<assigned, confirmed, gone, ledger, world>>

FailAskSilently(w) ==                                                \* a mutant
  /\ pc[w] = "ask_fail"
  /\ Settle(w, job[w].gaps)
  /\ UNCHANGED <<store, world>>

FailAsk(w) ==
  /\ pc[w] = "ask_fail"
  /\ ledger' = [ledger EXCEPT ![AskKey(w)] = "failed"]
  /\ Settle(w, job[w].gaps)
  /\ UNCHANGED <<assigned, confirmed, ask, gone, world>>

CloseAsk(w) ==
  /\ pc[w] = "ask_close"
  /\ CloseReceipt(AskKey(w), ask[AskRow(w)] = "sent")
  /\ Settle(w, job[w].gaps)
  /\ UNCHANGED <<assigned, confirmed, ask, gone, world>>

-----------------------------------------------------------------------------
(* sweep *)

StartSweepWithoutExpiry(w) ==                                        \* a mutant
  /\ pc[w] = "idle"
  /\ Go(w, "expire", NoJob)
  /\ UNCHANGED <<store, world>>

(* expire_lapsed lists the asks once, then rewrites each row it saw open.  *)
StartSweep(w) ==
  /\ pc[w] = "idle"
  /\ Go(w, "expire",
        [NoJob EXCEPT !.asks = {a \in lapsed : ask[a] = "sent"}])
  /\ UNCHANGED <<store, world>>

ExpireLapsed(w, a) ==
  /\ pc[w] = "expire"
  /\ a \in job[w].asks
  /\ PutAskRow(a, "expired")
  /\ Go(w, "expire", [job[w] EXCEPT !.asks = @ \ {a}])
  /\ UNCHANGED <<assigned, confirmed, gone, ledger, world>>

(* find_gaps()[:limit]; the order of the duties' starts is not modelled.   *)
FindGaps(w) ==
  /\ pc[w] = "expire"
  /\ job[w].asks = {}
  /\ LET found == {d \in Duties : NeedsFilling(d)}
     IN \E gaps \in SUBSET found :
          /\ \/ gaps = found /\ Cardinality(gaps) <= SweepLimit
             \/ Cardinality(gaps) = SweepLimit
          /\ Settle(w, gaps)
  /\ UNCHANGED <<store, world>>

-----------------------------------------------------------------------------
(* record_response *)

VerdictWhenever(a, accept) == IF accept THEN "accepted" ELSE "declined"  \* a mutant
Verdict(a, accept) ==
  IF a \in lapsed THEN "expired" ELSE IF accept THEN "accepted" ELSE "declined"

(* get_ask_by_token.  On an ask that is no longer open the call writes     *)
(* nothing (already_answered, superseded, expired), so it is no action.    *)
TapLink(w, d, p, accept) ==
  /\ pc[w] = "idle"
  /\ inbox[<<d, p>>] > 0
  /\ LET a == <<"email", d, p>>
     IN /\ ask[a] = "sent"
        /\ Go(w, IF a \in lapsed THEN "respond_put" ELSE "respond",
              [NoJob EXCEPT !.duty = d, !.person = p,
                 !.verdict = Verdict(a, accept)])
        /\ yes' = IF accept /\ a \notin lapsed THEN yes \cup {<<d, p>>} ELSE yes
  /\ UNCHANGED <<store, lapsed, grants, night, inbox, crashes>>

(* An acceptance of a duty that the roster gives to someone else.          *)
ReadRosterForAnswer(w) ==
  /\ pc[w] = "respond"
  /\ LET taken == assigned[job[w].duty] \notin {None, job[w].person}
     IN Go(w, "respond_put",
           [job[w] EXCEPT !.verdict =
              IF @ = "accepted" /\ taken THEN "superseded" ELSE @])
  /\ UNCHANGED <<store, world>>

PutAnswer(w) ==
  /\ pc[w] = "respond_put"
  /\ PutAskRow(AskRow(w), job[w].verdict)
  /\ IF job[w].verdict = "accepted"
       THEN Goto(w, "assign") ELSE Go(w, "idle", NoJob)
  /\ UNCHANGED <<assigned, confirmed, gone, ledger, world>>

(* _write_assignment: a fresh snapshot for the gate, none for the holder.  *)

AssignKey(w) == Key("assign", job[w].duty, job[w].person)

AuthorizeAssignment(w) ==
  /\ pc[w] = "assign"
  /\ Goto(w, IF MayAssign(job[w].duty, job[w].person)
               THEN "assign_begin" ELSE "assign_refuse")
  /\ UNCHANGED <<store, world>>

RefuseWithoutReceipt(w) ==                                           \* a mutant
  /\ pc[w] = "assign_refuse"
  /\ Go(w, "idle", NoJob)
  /\ UNCHANGED <<store, world>>

(* accepted_pending_coordinator *)
RefuseAssignment(w) ==
  /\ pc[w] = "assign_refuse"
  /\ RecordBlocked(AssignKey(w))
  /\ Go(w, "idle", NoJob)
  /\ UNCHANGED <<assigned, confirmed, ask, gone, world>>

BeginAssignmentUnrecorded(w) ==                                      \* a mutant
  /\ pc[w] = "assign_begin"
  /\ Goto(w, "assign_write")
  /\ UNCHANGED <<store, world>>

BeginAssignment(w) == Begin(w, AssignKey(w), "assign_begin", "assign_write")

AssignAgain(w) ==                                                    \* a mutant
  /\ pc[w] = "assign_begin"
  /\ ledger[AssignKey(w)] # "absent"
  /\ Goto(w, "assign_write")
  /\ UNCHANGED <<store, world>>

(* The volunteer is told "already on" the duty.                            *)
ReplayAssignment(w) == Replay(w, AssignKey(w), "assign_begin")

WriteAssignment(w) ==
  /\ pc[w] = "assign_write"
  /\ assigned' = [assigned EXCEPT ![job[w].duty] = job[w].person]
  /\ confirmed' = confirmed \cup {job[w].duty}
  /\ Goto(w, "assign_mark")
  /\ UNCHANGED <<ask, gone, ledger, world>>

MarkAssignment(w) == MarkExecuted(w, AssignKey(w), "assign_mark", "assign_close")

(* The re-read: verified and "confirmed on the roster", or write_failed.   *)
CloseAssignment(w) ==
  /\ pc[w] = "assign_close"
  /\ LET landed == assigned[job[w].duty] = job[w].person
     IN /\ CloseReceipt(AssignKey(w), landed)
        /\ IF landed THEN Goto(w, "others") ELSE Go(w, "idle", NoJob)
  /\ UNCHANGED <<assigned, confirmed, ask, gone, world>>

(* _supersede_other_asks and the same loop in record_withdrawal: the open  *)
(* asks of the duty are listed once, then each row is rewritten.           *)
ListOtherAsks(w) ==
  /\ pc[w] = "others"
  /\ Go(w, "supersede",
        [job[w] EXCEPT !.asks =
           {a \in AskIds : a[2] = job[w].duty /\ ask[a] = "sent"
                           /\ (job[w].text = None => a # AskRow(w))}])
  /\ UNCHANGED <<store, world>>

SupersedeOtherAsk(w, a) ==
  /\ pc[w] = "supersede"
  /\ a \in job[w].asks
  /\ PutAskRow(a, "superseded")
  /\ Go(w, "supersede", [job[w] EXCEPT !.asks = @ \ {a}])
  /\ UNCHANGED <<assigned, confirmed, gone, ledger, world>>

EndSupersedeAndStop(w) ==                                            \* a mutant
  /\ pc[w] = "supersede"
  /\ job[w].asks = {}
  /\ Go(w, "idle", NoJob)
  /\ UNCHANGED <<store, world>>

EndSupersede(w) ==
  /\ pc[w] = "supersede"
  /\ job[w].asks = {}
  /\ IF job[w].text = None THEN Go(w, "idle", NoJob) ELSE Goto(w, "depart")
  /\ UNCHANGED <<store, world>>

-----------------------------------------------------------------------------
(* record_withdrawal *)

VacateKey(w) == <<"withdraw", job[w].duty, job[w].person, job[w].text>>

ReceiveNotice(w, d, p, text) ==
  /\ pc[w] = "idle"
  /\ <<d, p, text>> \in Notices
  /\ Go(w, IF MayVacate(d, p) THEN "vacate_begin" ELSE "vacate_refuse",
        [NoJob EXCEPT !.duty = d, !.person = p, !.text = text])
  /\ UNCHANGED <<store, world>>

RefuseWithdrawal(w) ==
  /\ pc[w] = "vacate_refuse"
  /\ RecordBlocked(VacateKey(w))
  /\ Go(w, "idle", NoJob)
  /\ UNCHANGED <<assigned, confirmed, ask, gone, world>>

BeginWithdrawal(w) == Begin(w, VacateKey(w), "vacate_begin", "vacate_write")

(* The caller is told the person "was already taken off" the duty.         *)
ReplayWithdrawal(w) == Replay(w, VacateKey(w), "vacate_begin")

WriteVacancy(w) ==
  /\ pc[w] = "vacate_write"
  /\ assigned' = [assigned EXCEPT ![job[w].duty] = None]
  /\ confirmed' = confirmed \ {job[w].duty}
  /\ Goto(w, "vacate_mark")
  /\ UNCHANGED <<ask, gone, ledger, world>>

MarkVacancy(w) == MarkExecuted(w, VacateKey(w), "vacate_mark", "vacate_close")

CloseVacancy(w) ==
  /\ pc[w] = "vacate_close"
  /\ CloseReceipt(VacateKey(w), assigned[job[w].duty] = None)
  /\ Goto(w, "others")
  /\ UNCHANGED <<assigned, confirmed, ask, gone, world>>

(* The withdrawal row that keeps the person out of the next shortlist.     *)
RecordDeparture(w) ==
  /\ pc[w] = "depart"
  /\ gone' = gone \cup {<<job[w].duty, job[w].person>>}
  /\ Go(w, "idle", NoJob)
  /\ UNCHANGED <<assigned, confirmed, ask, ledger, world>>

-----------------------------------------------------------------------------
(* The world around the workers. *)

(* The clock passes an ask's expires_at.                                   *)
Lapse(a) ==
  /\ IsOpen(a)
  /\ lapsed' = lapsed \cup {a}
  /\ UNCHANGED <<store, grants, night, inbox, yes, crashes, pc, job>>

(* The coordinator grants or revokes an action class.                      *)
ToggleGrant(level) ==
  /\ level \in Revocable
  /\ grants' = IF level \in grants THEN grants \ {level} ELSE grants \cup {level}
  /\ UNCHANGED <<store, lapsed, night, inbox, yes, crashes, pc, job>>

Dusk ==
  /\ NightSleepers # {}
  /\ night' = ~night
  /\ UNCHANGED <<store, lapsed, grants, inbox, yes, crashes, pc, job>>

(* A Lambda times out or is killed between two store calls.                *)
Crash(w) ==
  /\ pc[w] # "idle"
  /\ crashes < MaxCrashes
  /\ crashes' = crashes + 1
  /\ Go(w, "idle", NoJob)
  /\ UNCHANGED <<store, lapsed, grants, night, inbox, yes>>

-----------------------------------------------------------------------------
(* The steps of an operation that has begun. *)

AskStep(w) ==
  \/ RefuseSend(w)
  \/ BeginDraft(w) \/ ReplayDraft(w) \/ PutDraft(w) \/ MarkDraft(w) \/ CloseDraft(w)
  \/ BeginAsk(w) \/ ReplayAsk(w) \/ PutAsk(w) \/ MarkAsk(w)
  \/ UndoAsk(w) \/ FailAsk(w) \/ CloseAsk(w)
  \/ \E delivery \in Deliveries : SendAsk(w, delivery)

SweepStep(w) == FindGaps(w) \/ \E a \in AskIds : ExpireLapsed(w, a)

ResponseStep(w) ==
  \/ ReadRosterForAnswer(w) \/ PutAnswer(w)
  \/ AuthorizeAssignment(w) \/ RefuseAssignment(w)
  \/ BeginAssignment(w) \/ ReplayAssignment(w)
  \/ WriteAssignment(w) \/ MarkAssignment(w) \/ CloseAssignment(w)

WithdrawalStep(w) ==
  \/ RefuseWithdrawal(w) \/ BeginWithdrawal(w) \/ ReplayWithdrawal(w)
  \/ WriteVacancy(w) \/ MarkVacancy(w) \/ CloseVacancy(w) \/ RecordDeparture(w)

SupersedeStep(w) ==
  \/ ListOtherAsks(w) \/ EndSupersede(w)
  \/ \E a \in AskIds : SupersedeOtherAsk(w, a)

Choose(w) ==
  \E d \in Duties : AskNobody(w, d) \/ \E p \in People : ChooseCandidate(w, d, p)

Request(w) ==
  \/ StartSweep(w)
  \/ \E d \in Duties, p \in People :
       \/ \E accept \in BOOLEAN : TapLink(w, d, p, accept)
       \/ \E text \in Texts : ReceiveNotice(w, d, p, text)

Environment ==
  \/ \E a \in AskIds : Lapse(a)
  \/ \E level \in Levels : ToggleGrant(level)
  \/ Dusk

Next ==
  \/ \E w \in Workers :
       \/ Choose(w) \/ AskStep(w) \/ SweepStep(w) \/ Request(w)
       \/ ResponseStep(w) \/ WithdrawalStep(w) \/ SupersedeStep(w) \/ Crash(w)
  \/ Environment

Spec == Init /\ [][Next]_vars
-----------------------------------------------------------------------------
(* Types, and what holds however the workers interleave and die. *)

(* Every variable has its type; the stored rows are the shapes of           *)
(* core/models.py.                                                          *)
TypeOK ==
  /\ assigned \in [Duties -> People \cup {None}]
  /\ confirmed \subseteq Duties
  /\ ask \in [AskIds -> AskStates]
  /\ gone \subseteq Duties \X People
  /\ ledger \in [Keys -> Results]
  /\ lapsed \subseteq AskIds
  /\ grants \subseteq Levels
  /\ night \in BOOLEAN
  /\ inbox \in [Duties \X People -> Nat]
  /\ yes \subseteq Duties \X People
  /\ pc \in [Workers -> Labels]
  /\ job \in [Workers -> Job]
  /\ crashes \in Nat

(* One ask per person per duty, ever (eligibility.py, ids.py): however many *)
(* workers ask, retry or die, nobody is mailed twice about one duty.        *)
AtMostOneMessage == \A dp \in Duties \X People : inbox[dp] <= 1

(* "A promise cannot be created on someone's behalf" (authority.py): nobody *)
(* is put on a duty without having tapped the accept link of an open ask.   *)
ConsentStep ==
  \A d \in Duties :
    assigned'[d] \notin {None, assigned[d]} => <<d, assigned'[d]>> \in yes
NobodyIsVolunteered == [][ConsentStep]_vars

(* Receipts are written before execution (ledger.py): the roster changes,   *)
(* or a message leaves, only under an open receipt that says exactly that.  *)
Justifies(key, d) ==
  /\ ledger[key] = "open"
  /\ key[2] = d
  /\ \/ key[1] = "assign" /\ key[3] = assigned'[d]
     \/ key[1] = "withdraw" /\ assigned'[d] = None
WriteAheadStep ==
  /\ \A d \in Duties : assigned'[d] # assigned[d] => \E key \in Keys : Justifies(key, d)
  /\ \A dp \in Duties \X People :
       inbox'[dp] # inbox[dp] => ledger[Key("ask", dp[1], dp[2])] = "open"
WriteAhead == [][WriteAheadStep]_vars

(* A closed receipt is evidence: no later step, of any worker, changes it.  *)
EvidenceStep ==
  \A key \in Keys :
    ledger[key] \in {"verified", "conflicted", "failed", "blocked"}
      => ledger'[key] = ledger[key]
EvidenceIsKept == [][EvidenceStep]_vars

(* A receipt that is open belongs to a worker that is still at it, or to    *)
(* one that died: open_entries lists one job of reconciliation per crash.   *)
WorksUnder(w, key) ==
  \/ key = AskKey(w) /\ pc[w] \in {"ask_put", "ask_send", "ask_mark", "ask_undo",
                                   "ask_fail", "ask_close"}
  \/ key = DraftKey(w) /\ pc[w] \in {"draft_put", "draft_mark", "draft_close"}
  \/ key = AssignKey(w) /\ pc[w] \in {"assign_write", "assign_mark", "assign_close"}
  \/ key = VacateKey(w) /\ pc[w] \in {"vacate_write", "vacate_mark", "vacate_close"}
Orphans ==
  {key \in Keys : /\ ledger[key] \in {"open", "executed"}
                  /\ \A w \in Workers : ~WorksUnder(w, key)}
OrphansAreCrashes == Cardinality(Orphans) <= crashes

(* What an operation promised and nobody does any more: an acceptance that  *)
(* is stored without a word in the book, a departure that was carried out   *)
(* without the row that keeps the person from being asked again.            *)
LeftUnassigned ==
  {key \in Keys : /\ key[1] = "assign" /\ ledger[key] = "absent"
                  /\ ask[<<"email", key[2], key[3]>>] = "accepted"
                  /\ \A w \in Workers :
                       pc[w] \in {"assign", "assign_begin", "assign_refuse"} => key # AssignKey(w)}
LeftUnrecorded ==
  {key \in Keys : /\ key[1] = "withdraw"
                  /\ ledger[key] \in {"executed", "verified", "conflicted"}
                  /\ <<key[2], key[3]>> \notin gone
                  /\ \A w \in Workers :
                       pc[w] \in {"vacate_close", "others", "supersede", "depart"}
                         => key # VacateKey(w)}
LeftUndone == LeftUnassigned \cup LeftUnrecorded

(* Only a death leaves an operation half done, and each death one at most,  *)
(* however the workers interleave.                                          *)
UndoneAreCrashes == Cardinality(LeftUndone) <= crashes

(* A failed delivery leaves no phantom ask (tests/test_fill.py): under a    *)
(* failed receipt the ask is never open again; under a verified one the     *)
(* message was delivered.                                                   *)
NoPhantomAsk ==
  \A d \in Duties, p \in People :
    /\ ledger[Key("ask", d, p)] = "failed" => ask[<<"email", d, p>>] # "sent"
    /\ ledger[Key("ask", d, p)] = "verified" => inbox[<<d, p>>] = 1

-----------------------------------------------------------------------------
(* What holds as long as one operation runs at a time. *)

(* Zamu asks one person at a time about a duty (fill.py: ask_next).         *)
OneOpenAskPerDuty ==
  \A d \in Duties : \A p, q \in People :
    IsOpen(<<"email", d, p>>) /\ IsOpen(<<"email", d, q>>) => p = q

(* Nobody is waiting to answer two questions at once (open_ask_elsewhere).  *)
OneOpenAskPerPerson ==
  \A a, b \in AskIds : a[3] = b[3] /\ IsOpen(a) /\ IsOpen(b) => a = b

(* Nobody is asked more often in a week than the organisation allows.       *)
WithinBudget ==
  \A p \in People :
    Cardinality({d \in Duties : inbox[<<d, p>>] > 0}) <= WeeklyAsks

(* Nobody is put on two duties that overlap (double_booked).                *)
NoDoubleBooking ==
  \A d, e \in Duties :
    <<d, e>> \in Overlaps /\ d # e /\ assigned[d] # None => assigned[d] # assigned[e]

(* A volunteer who accepted is on the duty, has left it since, or is left   *)
(* to the coordinator by a blocked receipt, once the operation has ended.   *)
AcceptanceIsKept ==
  (\A w \in Workers : pc[w] = "idle") =>
    \A d \in Duties, p \in People :
      ask[<<"email", d, p>>] = "accepted" =>
        \/ assigned[d] = p
        \/ <<d, p>> \in gone
        \/ ledger[Key("assign", d, p)] = "blocked"

(* Zamu only ever releases somebody from their own commitment (R13).        *)
ReleaseStep ==
  \A d \in Duties :
    assigned[d] # None /\ assigned'[d] # assigned[d] =>
      \E w \in Workers : WriteVacancy(w) /\ job[w].person = assigned[d]
ReleasesOwnCommitment == [][ReleaseStep]_vars
=============================================================================
