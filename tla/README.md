# Zamu: a TLA+ model of the fill loop and its surroundings

Zamu keeps a volunteer roster covered. It looks for duties that nobody is sure to do,
asks one person at a time by e-mail, records the answer, writes the roster when the
coordinator has granted it that right, and leaves a receipt for everything it did, tried
or was refused. This directory holds the TLA+ modules that model it, the TLC
configurations that check them on small rosters, and theorems that TLAPS proves for
rosters of any size. `PROJECT.json` ties every definition to the lines it models.

Paths below are those of the repository (`zamu/core/fill.py` is `src/zamu/core/fill.py`).

## 1. Inventory

| Component | Where | State it keeps | Operations |
|---|---|---|---|
| Fill loop, `CoverageService` | `zamu/core/fill.py` | none of its own; all in the store | `find_gaps`, `rank_for`, `ask_next`, `record_response`, `record_withdrawal`, `expire_lapsed`, `sweep` |
| Domain rows, `Roster` snapshot | `zamu/core/models.py` | people, duties, asks, grants, receipts | pure lookups |
| Ledger | `zamu/core/ledger.py`, `verification.py` | receipts: open, executed, verified, conflicted, failed, blocked | `begin`, `record_blocked`, `mark_executed`, `close`, `fail`, `open_entries` |
| Idempotency keys | `zamu/core/ids.py` | none | `idempotency_key`, `seeded_id` |
| Authority gate | `zamu/core/authority.py` | none; reads grants and a roster | `authorize` (rules R0 to R14) |
| Eligibility | `zamu/core/eligibility.py` | none | `evaluate`, `next_contactable_moment` |
| Coverage assessment | `zamu/core/coverage.py` | none | `assess_duty`, `assess_roster` |
| Fairness and ask budget | `zamu/core/fairness.py` | none; derived from duties and asks | `compute_fairness`, `ask_budget_remaining` |
| Ranking | `zamu/core/ranking.py` | none | `rank` |
| Handover brief | `zamu/core/brief.py` | none | `build_brief` |
| Stores | `core/store.py`, `infra/sqlite_store.py`, `infra/dynamo_store.py` | every row; the key claims | `put_*`, `get_*`, `list_*`, `append_action`, `update_action`, `load_roster` |
| Notifiers | `infra/notify.py` | the outbox | `send` |
| Scheduled jobs | `infra/scheduled.py`, `deploy/cloudformation.yaml` | none | sweep (15 min), risk (1 h), brief (daily) |
| Inbound mail | `infra/inbound.py` | none | resolve the sender, read a withdrawal, call the service |
| Roster import | `infra/importer.py` | none | `read_people`, `read_duties`, `apply` |
| HTTP API | `api/app.py`, `api/views.py`, `api/pages.py` | none | answer links, withdrawals, sweeps, grants |
| Agent | `agent/authority_hook.py`, `agent/tools.py`, `agent/planner.py` | list of refusals | tool calls behind the hook |
| CLI, demo, console | `cli.py`, `demo.py`, `console/` | none | drive the same service |

How they meet: the API, the scheduled Lambda, the inbound Lambda and the agent each build a
`CoverageService` over the *same* store. There is no lock and no transaction around an
operation. Every operation loads a roster snapshot, decides (coverage, eligibility, ranking,
authority), and then makes a chain of single-row store calls and at most one notifier call.
The only thing two operations can collide on is the claim of an idempotency key in
`append_action`, a unique index in SQLite and a conditional put in DynamoDB.

What is hard in that:

* **Interleaving.** Two operations act on snapshots that the other is making stale: two asks
  for one duty, two acceptances, a withdrawal against an assignment, a sweep against an answer.
* **Crashes.** A Lambda times out or is killed between two calls. Any suffix of
  row / message / receipt may be missing and a retry finds the key already claimed.
* **Delivery.** A provider loses a message, or delivers it and reports an error.
* **Rights that come and go.** Grants are given and revoked while asks are open; a refusal
  takes the same key as the act it refused.
* **Time.** Asks lapse with nobody watching; quiet hours begin; the weekly budget runs out.
* **Progress.** Every gap should move on, and the sweep looks at no more than ten of them.

What makes each component correct:

* *Fill loop*: one message per person and duty; nobody is volunteered; one open ask per duty
  and per person; an accepted ask reaches the roster or the coordinator; an answer is final;
  gaps advance.
* *Ledger*: a receipt precedes the act; a closed receipt never changes; an unfinished one
  belongs to a live worker or to a crash.
* *Gate and eligibility*: agree with the rules as written; a candidate put forward by
  eligibility is not refused by the gate except for the reasons the loop handles.
* *Stores*: a key is claimed once, and what is claimed can be read.
* *Inbound, hook, scheduled jobs*: report what the service did; one failure does not hide another.

## 2. Modules

| Module | What it is |
|---|---|
| **The fill loop, call by call** | |
| `CoverageService` | workers, store, ledger, deliveries, crashes; its safety properties |
| `CoverageClaims` | claims quoted from the repository's texts, fairness, liveness |
| `RosterPromise`, `CoverageRefinement` | what Zamu promises the people on a roster, and the mapping under which `CoverageService` implements it |
| `CoverageInvariants`, `CoverageService_proofs` | the inductive invariant and the theorems |
| `CoverageReceipts_proofs` | what receipts stand for after the fact: orphans are counted, asks are not phantoms |
| `CoverageRefinement_proofs` | every step implements `RosterPromise` |
| `CoverageAlone`, `CoverageAlone_proofs` | the invariant of one operation at a time, and the theorems that need it |
| `MCCoverage` | small rosters for TLC |
| **The stores under the ledger** | |
| `LedgerStore` | memory, SQLite and DynamoDB: claims, receipts, stale reads, the lock, `load_roster`, crashes |
| `ReceiptBook` | the abstract book, one step per `begin`, which the durable stores implement |
| `LedgerStore_proofs` | the theorems about both |
| `MCStores` | small stores for TLC |
| **The fill loop in time** | |
| `RosterState` | people, shifts, asks, grants, and the clock (`core/models.py`) |
| `Fairness` | loads, debts, answers, the sliding budget (`core/fairness.py`) |
| `Eligibility` | every reason why not, and the walk to the next contactable moment (`core/eligibility.py`) |
| `Coverage` | the states of a duty, gaps and their order (`core/coverage.py`) |
| `Ranking` | scores and tie-breaks (`core/ranking.py`) |
| `AuthorityGate` | the rules of `authorize`, in order (`core/authority.py`) |
| `TimedFill` | `ask_next`, `sweep`, `record_response`, `record_withdrawal` as whole operations over those rules |
| `TimedFill_proofs` | its theorems: budget, consideration, gate, night, notice, horizon |
| `Ranking_proofs` | whom the ranking puts first |
| `MCWeek` | a short week for TLC |
| **The office around it** | |
| `Desk` | `TimedFill` with the receipts that others read |
| `AgentRun` | the offline planner, the hook, the tools (`agent/`) |
| `InboundMail` | a volunteer's reply (`infra/inbound.py`) |
| `HandoverBrief` | the brief and its daily job (`core/brief.py`, `infra/scheduled.py`) |
| `RosterImport` | both sheets and `apply` (`infra/importer.py`) |
| `Office` | all of these over one store |
| `Office_proofs` | the theorems about all of it |
| `MCOffice` | a small office for TLC |

The fill loop is modelled twice because it is hard in two ways. `CoverageService` has its
interleavings, crashes and deliveries and leaves the rules coarse. `TimedFill` has the rules
and the clock and runs one operation at a time. Neither would be checkable with both.

### `CoverageService`

A **worker** is a thread of the API or of a Lambda that runs one public operation. `pc[w]`
is the next store or notifier call it makes; `job[w]` is what it carries from the calls
before: the duty, the person, the wording of a withdrawal, the verdict so far, the asks it
listed and the gaps its sweep has left. One action is one call, together with the
computation up to the next one:

| Code | Actions |
|---|---|
| `ask_next` up to the gate | `AskNobody`, `ChooseCandidate`, `RefuseSend` |
| `_draft_ask` | `BeginDraft`/`ReplayDraft`, `PutDraft`, `MarkDraft`, `CloseDraft` |
| `_send_ask` | `BeginAsk`/`ReplayAsk`, `PutAsk`, `SendAsk`, `MarkAsk`, then `CloseAsk`, or `UndoAsk` and `FailAsk` |
| `sweep`, `expire_lapsed` | `StartSweep`, `ExpireLapsed`, `FindGaps`, then `ask_next` for each gap |
| `record_response` | `TapLink`, `ReadRosterForAnswer`, `PutAnswer` |
| `_write_assignment` | `AuthorizeAssignment`, `RefuseAssignment`, `BeginAssignment`/`ReplayAssignment`, `WriteAssignment`, `MarkAssignment`, `CloseAssignment` |
| `_supersede_other_asks` and its twin | `ListOtherAsks`, `SupersedeOtherAsk`, `EndSupersede` |
| `record_withdrawal` | `ReceiveNotice`, `RefuseWithdrawal`, `BeginWithdrawal`/`ReplayWithdrawal`, `WriteVacancy`, `MarkVacancy`, `CloseVacancy`, `RecordDeparture` |
| the world | `Lapse` (an ask's `expires_at` passes), `ToggleGrant` (`set_grant`), `Dusk` (quiet hours), `Crash` |

The **store** is `assigned`, `confirmed`, `ask`, `gone` and `ledger`. An ask row is named
by its channel, duty and person: there is at most one of each, because the receipt key
contains the duty and the person. `gone` stands for the rows with channel *note* that
`record_withdrawal` writes. `ledger` maps a key to the result of its receipt. `inbox`
counts delivered messages and `yes` remembers taps of an accept link; no code reads them,
they are the outside observer the properties are about.

Abstractions: ranking is a free choice among the eligible, which covers every order; time is
three facts (which asks have lapsed, whether it is night, a week that never ends), which
`TimedFill` makes exact; a claim and its receipt are one step and a roster is one read,
which `LedgerStore` takes apart. A read that only concerns the worker's own receipt is joined
with its neighbour: nobody else writes a claimed receipt (theorem `Evidence`, invariant
`Receipted`).

### `LedgerStore` and `ReceiptBook`

Here a worker runs the shortest operation that uses every call of a store: store the
acceptance (`Accept`), look the key up (`FindClaim`, `FindReceipt`), open or refuse the
receipt, write the duty, mark the receipt, read the duty back, close the receipt; or it loads
the roster in its separate queries (`ReadDuties`, `ReadAsks`, `EndRead`). How a receipt is
opened is the store's own:

| Store | `append_action` | Reads | `load_roster` |
|---|---|---|---|
| memory | `OverwriteKey`: the key table is written over, whoever was there | the latest | list by list |
| SQLite | `InsertReceipt` or `LoseClaim`: one insert under a unique index | the latest | under the lock (`lock`) |
| DynamoDB | `ClaimKey` or `LoseClaim`, then `PutReceipt`: a conditional put and a second put | any version of `recent` | query by query |

`recent[i]` holds every version of an item that an eventually consistent read may still
return; conditional puts see the latest. A worker that lost a claim and finds no receipt
behind it raises (`RaiseUnreadable`), and one whose update finds no receipt raises with the
duty already written (`RaiseNotFound`). `ReceiptBook` is the book the fill loop believes in:
at most one receipt and one execution per key. `KeepsBook` maps the claim and the receipt
of its owner to it.

### `TimedFill` and the rules

`now` counts ticks and `Tick` is the clock; `Day`, `WeekDays`, `Step` and the windows are in
ticks and are constants, so the arithmetic of the code (a stride of a quarter of an hour,
whole days truncated, weeks that slide) is kept at a smaller scale. A sweep is `StartSweep`
(expire, then `find_gaps()[:limit]`) and one `AdvanceSweep` per gap, and the clock stands
still until it ends. An acceptance is two actions, `Accept` and `WriteAssignment`. Loads,
debts and scores are exact integers with the code's weights, where the code uses floating
point. Not in it: cancelled duties (nothing in the repository cancels one), changes of
daylight saving time (a zone is an offset), rule R1 (a proposal that names another
organisation) and R9 (a row that is not there), which no operation here can meet.

### `Office`

`Desk` adds to each operation the receipts that are read later: refusals and verified writes
to the roster, under the keys of the code, the first receipt under a key being the one that
stays. On top of it:

* `AgentRun`: `Plan` reads the history of the run and names the next call; `ApproveUse` or
  `RefuseUse` is the hook; `RunTool` is the tool, later, when grants and roster may have
  changed; `EndRun` is the end or the death of the process.
* `InboundMail`: `Receive`, then the phrases, which find one duty of the sender or none (`ReadPhrases`, `Escalate`)
  and act on a roster read again (`ActOnPhrases`), or the model. The model is external and unconstrained: it calls
  `record_withdrawal`, `ask_next_person` or `expire_lapsed_asks` about any duty and any person of the roster, the hook
  lets the call through or cancels it (`CallTool`, `CancelModel`), it is carried out later (`RunModelCall`), and it
  stops when it likes (`EndModel`).
* `HandoverBrief`: `SendBrief`, whose delivery may fail or have no recipient, and `SkipBrief`.
  `told` and `regular` are observers.
* `RosterImport`: `ImportPeople`, `ImportDuties`, `DryRun` over sheets of rows, good and bad.

The operators marked `\* a mutant` are faults of the kind a maintainer could introduce (a
dropped guard, a result in place of a state, a missing receipt). No specification uses them.
`PROJECT.json` says which definition each one replaces and which property then fails.

## 3. What the runs check

| Run | Instance | What it shows |
|---|---|---|
| `one_operation` | `MCCoverage`: 1 worker, 2 people, 2 overlapping duties, one held by `p1`, unconfirmed, either may withdraw from it; budget 1; quiet hours for `p2`; send and write grants come and go; a delivery may arrive and be reported as failed | what holds while operations do not overlap: one open ask per duty and per person, no double booking, the weekly limit (through refusals, drafts, deferrals and failed deliveries), an acceptance is on the roster, has been withdrawn, or is with the coordinator, a withdrawal releases only the person it came from, nobody is invited back. It says nothing of two operations at once or of a crash: `interleaved` does |
| `interleaved` | `MCCoverage`: 2 workers, one of which may die between any two calls, 2 people, 1 held duty, withdrawals, lost and uncertain deliveries; the workers are interchangeable (`Alike`) | what survives *every* interleaving: one message, no phantom ask, consent, write-ahead, evidence, and `RosterPromise`; at most one receipt orphaned (`OrphansAreCrashes`), and one acceptance or withdrawal left half done (`UndoneAreCrashes`), per crash; `IInv` |
| `gaps_advance` | `MCCoverage`: 2 workers, every action class granted throughout, lost deliveries, `p1` holds the duty and may withdraw; fairness, no crash | `FreshGapsAdvance`: a gap somebody can be asked about does not stay so for ever, unless one of those who can be ranked has an accepted or a superseded ask about it (`gap_stalls` shows that such a gap may); `LapsedAsksClose` |
| `stores` | `MCStores`: 2 workers, 1 duty, 2 people, all three stores, 2 crashes | a key is executed once however stale the reads; a claim without receipt is a crash; a SQLite roster is one instant; nobody is seen on a duty without the acceptance that put them there; the durable stores implement `ReceiptBook` |
| `week` | `MCWeek`: 2 unlike people, 3 duties, 9 ticks of a week of two three-tick days; delivery may fail; the grant to send to everyone comes and goes | the budget in every window of a week, notice, night and blackouts of what is sent; eligibility and gate agree; a deferred ask can still be sent in time; the lighter loaded is asked first; nobody joins a duty that has begun, if it needs at least as much notice as an urgent ask stays open and an ordinary ask stays open no longer than the urgent threshold (of the three duties `d2` is such a one); time makes no gap; a sweep asks only within the truncated horizon |
| `office` | `MCOffice`: 2 people who share a name, 2 duties, good and bad sheets, agent, mail read by phrases or by a model that calls any tool about anybody, briefs, all grants toggled; 2 ticks, 2 jobs, 1 call of the model per message | a run ends and asks about nothing twice; the hook never stops what the gate would allow; nothing falls between two regular briefs; no row of a sheet is lost in silence; *confirmed* means that this holder said yes; a message, whoever it names and whatever the model concludes, takes off a duty only its holder, under a grant and a new receipt, and is not called handled with nothing on record (`MailIsGated`) |

Deadlock is checked in every run; nothing here stops for good.

**Bounds, and why they are enough.** The loop compares at most two asks, two holders or two
receipts at a time, so two people are a rival and a successor; two duties give overlap,
budget and double asking; two workers give every pairwise race. In `stores` the workers and the people are interchangeable (`Alike`), and in
`interleaved` the workers, which is sound because nothing in the modules tells them apart and
those runs have no liveness property; two crashes allow one before and one after a recovery. `MaxCrashes`, `MaxNow`,
`MaxJobs` and `MaxCalls` bound counters that nothing in the code bounds. Nine ticks let the
week slide past an ask, a confirmation grow stale and every duty begin. `MaxJobs` counts runs, mails,
imports, withdrawals by hand and grant changes together: two are enough for one to come
between the two halves of another, which is what the properties of `office` are about. The brief there looks
one tick back, and `MaxNow = 1` gives two briefs with an event on either side of the edge. With `MaxCalls = 1` the model
makes one call about each message; `MailPassesTheGate` is proved of any number of calls.

### Where the code and its texts differ

Each of these runs ends in a counterexample, and `PROJECT.json` quotes the line it refutes.

| Run | The shortest story |
|---|---|
| `replay_not_performed` | A withdrawal arrives while writing is not granted: a blocked receipt takes its key. The coordinator grants writing, the same message arrives again, and the answer is "was already taken off", with the person still on the duty. |
| `gap_stalls` | All grants are there, always. `p2` is asked about a duty; its holder `p1` withdraws, which supersedes the ask as if somebody had filled the gap. `p2` is ranked first again with the key of the ask taken: each sweep ends in a replay, and nobody is ever asked. An acceptance that was refused for lack of the write grant ends the same way. |
| `claimed_not_readable` | In DynamoDB a worker claims a key and has yet to store the receipt. Another one loses the claim, looks for the receipt that must be there and raises. It needs no crash; after a crash it is so for ever. |
| `two_confirmed` | One person accepts. Before the duty is written, a sweep, seeing no open ask, asks a second, whose acceptance also reads the duty as empty. Both write it, and each verifies its own write: both are told that they are confirmed. |
| `answer_overwritten` | Two requests with the same link (a tap and a prefetch, an accept and a decline) both read the ask as open. The accept is stored and goes on to the roster, then the decline is stored over it. |
| `filled_but_left` | A volunteer withdraws. The withdrawal is a verified write to the roster, and the next brief lists it under *filled*, as confirmed. |

### Further behaviours the models have

These are consequences of the code that no run records as a violation. Those of the first
list can be seen by changing a constant of a run.

* With two workers `one_operation` loses `OneOpenAskPerDuty`, `OneOpenAskPerPerson` and `WithinBudget`,
  for one reason: they are decided from a snapshot, and the only thing two operations contend
  for is a key that names one duty and one person.
* `two_confirmed` with one person and two overlapping duties: `NoDoubleBooking` fails in the same way.
* `ReleasesOwnCommitment` fails in `interleaved` with `Texts = {t1, t2}`. Of two differently worded
  withdrawals of one person the later vacates whoever has the duty by then.
* `one_operation` with `MaxCrashes = 1`: `AcceptanceIsKept` fails (a death between storing
  *accepted* and opening the receipt) and so does `NotInvitedBack` (a death between the vacated duty
  and the withdrawal row). `UndoneAreCrashes` says that nothing but a death does this.
* `interleaved` with `InitiallyConfirmed = {}`: `TurnedAwayMeansCovered` fails; a duty with an
  unconfirmed holder is asked about, and the acceptance is then turned away.

And from reading the code for the models:

* A person who answers before the re-read of the ask makes its receipt *conflicted*. A
  withdrawal supersedes asks that were sent to fill the very gap it announces (`gap_stalls`). No operation
  closes an orphaned receipt, though `open_entries` lists it.
* A second refusal under one key leaves no new receipt (`fill.py:299`), and the hook's keys end
  in the planner's own call numbers, which begin again in each run
  (`authority_hook.py:137`, `planner.py:136`): later briefs are silent about it.
* Mail read by a model counts as withdrawn once `record_withdrawal` was called, refused or not, about
  whomever (`inbound.py:268`). Nothing but the prompt keeps the model to the sender and the sender's own
  duties: the tool takes any person and duty (`tools.py:234`), and the hook asks for the grant only
  (`authority_hook.py:91`). A misled model can therefore take somebody else off a duty; what it cannot do is
  what `MailIsGated` says. A call about a duty that does not exist counts as handled and leaves no
  receipt (`fill.py:702` raises first).
* A redelivered message can act on another duty that is now the sender's only
  one (`inbound.py:392`). The same words after the person was put back on the duty are a replay and
  reported as handled, with the person still on the duty (`fill.py:706`).
* A late brief misses what happened between the windows (`scheduled.py:108`), a lost one is not
  repeated (`scheduled.py:127`): hence `regular` in `NothingBetweenBriefs`.
* A re-import replaces assignments, confirmations, blackouts and opt-ins (`importer.py:396`); of
  two people with one name the last gets the duty (`importer.py:302`); two rows with the same
  title and start are one duty (`importer.py:343`); a notice of 0 is read as 12 hours (`importer.py:349`).
* The memory store lets a second receipt take a claimed key (`store.py:169`): `ExecutedOnce` and
  `KeepsBook` are stated for the two durable stores.
* An exception for one organisation ends the scheduled sweep of those that follow (`scheduled.py:73`).

### Fairness

`FairSpec` is used by `gaps_advance` and `gap_stalls` only.

* `WF(Working(w))`: an operation that has begun makes its next call. A Lambda is not paused
  between two statements; without a crash it runs to its end.
* `SF(StartSweep(w))`: EventBridge fires the sweep at `rate(15 minutes)`
  (`deploy/cloudformation.yaml`), however many other requests a worker is given. Strong
  fairness is needed because other requests keep making the worker busy; the schedule does
  not give up on that account.
* `WF(Lapse(a))`: the clock reaches `expires_at`.

Nothing is assumed of volunteers, of the coordinator or of withdrawals, and no fairness is put on
which candidate is chosen or on how a delivery ends. Crashes are excluded in these
two runs (`MaxCrashes = 0`).

## 4. What is proved

Every safety invariant and every action property of the passing runs is a theorem. A run shows it
on a small instance, the theorem for every value of the constants.

| Theorem | Statement |
|---|---|
| `CoverageService_proofs` | |
| `TypeCorrect` | `Spec => []TypeOK` |
| `Invariant` | `Spec => []IInv` |
| `OneMessage` | `Spec => []AtMostOneMessage` |
| `Volunteers` | `Spec => NobodyIsVolunteered` |
| `WrittenAhead` | `Spec => WriteAhead` |
| `Evidence` | `Spec => EvidenceIsKept` |
| `CoverageReceipts_proofs` | |
| `OneOrphanPerCrash` | `Spec => []OrphansAreCrashes` |
| `OneUndonePerCrash` | `Spec => []UndoneAreCrashes` |
| `AskReceiptsAreTrue` | `Spec => []NoPhantomAsk` |
| `CoverageRefinement_proofs` | |
| `PromiseIsKept` | `Spec => KeepsPromise`, the refinement of `RosterPromise` |
| `CoverageAlone_proofs` | each under `OneAtATime` |
| `OnePersonAsked` | `Spec => []OneOpenAskPerDuty` |
| `OneQuestionAtOnce` | `Spec => []OneOpenAskPerPerson` |
| `BudgetIsKept` | `Spec => []WithinBudget` |
| `OnlyTheirOwn` | `Spec => ReleasesOwnCommitment` |
| `NobodyInTwoPlaces` | `Spec => []NoDoubleBooking`, if overlapping is symmetric and the first roster double-books nobody |
| `LeaversAreLeftAlone` | `Spec => NotInvitedBack`, if `NobodyDies` |
| `VolunteersAreKept` | `Spec => []AcceptanceIsKept`, if `NobodyDies` |
| `LedgerStore_proofs` | |
| `StoreTypes` | `Spec => []TypeOK` |
| `KeyExecutedOnce` | `Spec => []ExecutedOnce` |
| `StoresKeepTheBook` | `Spec => KeepsBook`, the refinement of `ReceiptBook` |
| `OneInstant` | `Spec => []SnapshotIsOneInstant` |
| `ConsentIsShown` | `Spec => []SnapshotShowsConsent` |
| `OneDanglingPerCrash` | `Spec => []DanglingClaimsAreCrashes` |
| `TimedFill_proofs` | |
| `TimedTypes` | `Spec => []TypeOK` |
| `CeilingHolds` | `Spec => []SlidingBudget` |
| `AsksLeaveConsiderately` | `Spec => []AsksAreConsiderate` |
| `GateAndRankingAgree` | `Spec => []GateAgrees` |
| `NightNeverCostsADuty` | `Spec => []DeferralEnds` |
| `JoinersAreInTime` | `Spec => JoinsBeforeStart` |
| `TimeAloneMakesNoGap` | `Spec => TimeMakesNoGap` |
| `SweepsLookAhead` | `Spec => SweepsWithinHorizon` |
| `Ranking_proofs` | |
| `TheLighterIsAsked` | `Spec => []LighterFirst` |
| `Office_proofs` | |
| `OfficeInvariant` | `OfficeSpec => []OfficeInv` |
| `OfficeTypes` | `OfficeSpec => []OfficeTypeOK` |
| `RunsAreShort` | `OfficeSpec => []RunIsShort` |
| `HookAgreesWithGate` | `OfficeSpec => []HookFollowsGate` |
| `BriefsLeaveNothingOut` | `OfficeSpec => []NothingBetweenBriefs` |
| `RowsAreNotLost` | `OfficeSpec => []NoRowLost` |
| `ConfirmationsAreAnswers` | `OfficeSpec => []ConfirmedByAnswer` |
| `MailPassesTheGate` | `OfficeSpec => MailIsGated` |
| `CeilingHoldsForAll` | `OfficeSpec => []SlidingBudget` |

### What is assumed

Nothing is assumed of the number of people, duties or workers, of the delivery service, of how
stale a read is, of `MaxCrashes`, or of `MaxNow`, `MaxJobs` and `MaxCalls` beyond being bounds. The named
assumptions, which TLC evaluates in the runs, are:

* `ConstantsAssumption`: `None` is no person, duty or text, the first roster is a roster, deliveries
  are among *sent*, *lost*, *unsure*. `StoreAssumption`: the three backings, and `None` is no
  person, worker or value of an item.
* `RosterAssumption`: a roster has finitely many people and duties, and no two duties share their
  place in the order (it stands for start and id, and ids are unique). Days and strides are
  positive, and `next_contactable_moment` looks at least a day ahead (it looks 36 hours).
* `TimeAssumption`, `TimedAssumption`: moments are whole ticks, a window ends after it starts, quiet hours are times
  of a day, the people of a roster have places of their own, a grant is *draft*, *send* or *write*.
* `RankingAssumption`: both saturations are positive; they are literals of `ranking.py`.
* `SheetAssumption`: a sheet is a sequence of rows.

Three hypotheses are stated in theorems and are not assumptions of the model, because the model has
states beyond them. `OneAtATime` says that there is one worker. It is what a deployment with no
traffic between the sweeps has, and each of the seven theorems under it is false without
it: with two workers TLC finds a counterexample to every one. `NobodyDies` says
`MaxCrashes = 0`: with one crash `AcceptanceIsKept` and `NotInvitedBack` fail, in the two
ways section 3 tells, while the other five theorems hold with any number of crashes. Of
`NobodyInTwoPlaces`, an imported roster may double-book somebody already, and the code
leaves that as it is.

### The fill loop

`AtMostOneMessage` is not inductive: nothing in it says that the worker about
to send is the first. `IInv` adds, worker by worker, what its position tells:

* `JobShape`: a worker at work on something has a duty, a person and, if it is a withdrawal, a text.
* `Consented`: on the way to an assignment, the person has tapped the accept link. `yes`
  only grows (lemma `YesGrows`), so others cannot disturb it.
* `Receipted`: a worker past `begin` holds a receipt that is exactly as far as the worker, and no
  two workers hold the same one. `begin` is the only way to a receipt and needs a free key;
  every later write is to one's own (lemmas `OneReceipt`, `SameReceipt`, `IdleReceipts`).
  Three lemmas thus cover all the actions.
* `Mailed`: once a message is out its key is taken, and no worker is still before the sending
  under it. The step that matters is `SendMailed`, which uses the exclusivity in `Receipted`.

A crash only takes a worker away from its receipt and so preserves all five parts.

**Receipts after the fact.** Seen from the ledger, a step takes a receipt, keeps it, closes it or has none
(`ReceiptMove`). So the unfinished receipts that nobody holds change with a crash only, by
one at most, and their number stays below that of the crashes (`CountedOrphans`; the set has to
be shown finite on the way). `OneUndonePerCrash` counts in the same way what was promised and is not
done: an acceptance is owed its receipt, a departure its row, by the worker at them or, since a death, by nobody. `NoPhantomAsk` needs `Delivered`, what the worker between row, message
and receipt knows of all three. `OneDanglingPerCrash` is the same count over claims, in all
three stores.

**The promise.** `CoverageRefinement` maps each person's dealings with each duty to a stage. A step
moves one of them by a step of `RosterPromise` or none (`OneStage`, `SameStages`).
That nobody moves back is what `IInv` is for.

**One operation at a time.** What a worker read in a snapshot still stands when it acts on it:
`AloneInv` says so for rows (`RowsStand`), for the choice of a person (`ChoiceStands`), for the
holder (`HolderStands`) and for overlaps (`Bookable`), and counts the asks of a week (`Counted`).
`Arrived` names, for each position, the one action that leads to it, so that a fact
about a position is shown once, for that action. `OnRecord` and `Kept` follow a withdrawal and an acceptance
from the row that begins them to the row that ends them, which is where a death would lose them.

### The stores

`ExecutedOnce` says nothing of who may execute. `Inv` adds `Booked`, for the
durable stores: a receipt belongs to whoever holds the claim of its key; executions are none
or one, and none while the key is unclaimed; and each worker knows (`Knows`) its claim, its
receipt and the count as they should be at its position. A claim is never taken back, so two
workers cannot both know it, however stale what they read. Each step then is a step of
`ReceiptBook` or leaves it alone, which is `StoresKeepTheBook`; losing a claim, raising and
crashing are stutters. In the memory store `Booked` fails, and the mapping shows an empty book.

The two snapshot properties have an invariant of their own, `ReadInv`: only DynamoDB returns
replaced versions (`Fresh`), a SQLite reader holds the lock from its first query to its last
(`Locked`), and who is on a duty, or was when a reader saw it, has accepted (`Consent`).

### The fill loop in time

`SlidingBudget` looks at every week, the code at the one that ends now. Whenever an
ask is added, the count of the week before it was below the ceiling; a week that began
earlier or later and holds the new ask holds no other that the code did not count, since all
others were sent before. `TimedInv` keeps for every row that was sent what was true at that moment
(`SentWell`), because the notice and the hour have passed when the property looks; who
is being put on a duty answered in time (`AnswersInTime`); and what a running sweep has
queued is within its horizon (`NearGap`), as the clock stands still.

`GateAgrees` and `TimeMakesNoGap` need no invariant: they compare the rules of `eligibility.py`,
`authority.py` and `coverage.py` term by term. `DeferralEnds` rests on the walk of
`next_contactable_moment`: either the walk met a waking moment, or it gave up a day or more ahead, and then
there is one it stepped over, because every hour comes within a day (`HourComes`).

**Ranking.** Loads and debts are sums over sets, and a sum is a recursive function over the subsets of a set. The
library's induction takes an operator, so that such a function is defined on every finite set is
shown by a least subset where it fails (`SmallestSubset`, from well-founded minima), and so
is that the sum is a number (`SumsExist`, `SumsAreNumbers`). Whoever carried less is then owed more, each of the five parts of the score keeps
the order of what it is computed from through quotient and clamp, and the first difference of
the two `Merit` tuples is the score or, on a tie, the debt.

### The office

A step of the office, seen from the roster, assigns, withdraws, reads a sheet, or leaves people
and holders alone and puts at most a refusal or a verified write in the book (`Moves`). Each
part of `OfficeInv` is kept by those five, not by each of the office's actions:

* `RunInv`: the history of a run is in the order of its plan (`InOrder`): the listing, then rank and
  ask for each listed gap, then the brief. The place of a call in the history determines it,
  so two equal calls are one and the length is bounded. Gaps are distinct because
  a sorted set has no repetition.
* `AssignedOnce`: an assignment is on record, or being written, only of an accepted
  ask, and never both. An accepted ask is not accepted again, so the receipt that
  `ConfirmedByAnswer` points to is the one of the current holder and moment.
* `NothingBetweenBriefs` holds with `ReceiptsSay` (what is in the book was put there at its time,
  and time does not run back).
* `MailInv` is behind `MailPassesTheGate`, which assumes nothing of the model. The receipt of a withdrawal or of a
  cancelled call says what its key says (`KeysSay`), the numbers of the model's calls are new each time, so a
  cancelled call always leaves its receipt (`CallIds`), and from the moment a withdrawal is first named it is
  about to be carried out or on record (`Traced`). Who is taken off a duty, and under which grant, follows from the
  rule of the gate at that step; that the phrases read about the sender is `PlainMail`.
* `OrdersKept`: an import changes all about a person but their place, which keeps the choice
  among namesakes defined.

The ceiling of asks (`CeilingHoldsForAll`) has an invariant that does not mention people,
`BudgetInv`, so a sheet that makes people over under open asks leaves it alone. The ask rows move in the office as they
do in the loop: one is added with leave to, open ones are closed, or time passes (`RowsMove`).

`HookFollowsGate` holds of any state: what the hook asks of the gate is the weakest that any ask or
withdrawal would ask.

### Checked by TLC only

Liveness (`FreshGapsAdvance`, `LapsedAsksClose`): both need fairness, hence `ENABLED`, which this
prover does not reason about. The six runs that end in a counterexample are TLC's by nature.
Of the other theorems about `TimedFill`, those that need no invariant hold in the office as well; `AsksAreConsiderate`,
`DeferralEnds` and `JoinsBeforeStart` are proved, and checked, for the loop alone. A re-import may give
somebody other quiet hours than those an ask respected when it left, or name a holder for a duty that has begun, so the
first and the last are not true with imports as they stand.

## 5. What is not modelled, and what is left

Not modelled:

* **Messages** (`core/messages.py`), **serialisation** (`infra/serde.py`), HTML pages, views and
  the **console**: wording and conversion; they keep no state and decide nothing.
* The **demo rows**, and the printing of the command line.
* Parsing of MIME, dates and headers: mail and sheets are what can be read in them.
* The language model behind the agent and the mail. For mail it is an unconstrained caller of the tools;
  an agent run is modelled with the offline planner. Its calls that only read, and calls for a tool, person
  or duty that does not exist, are left out.
* Several organisations in one store, the risk job (it reads and mails), link tokens
  and random identifiers.
* Hazards without a property are listed with their reasons in `PROJECT.json`. The one
  that matters most is the sweep's limit: ten gaps that cannot advance keep the eleventh from being looked
  at, and showing it needs more gaps than a run has time for, or fairness over `TimedFill`.

Next, in this order:

1. Proofs: `DeferralEnds` for `OfficeSpec` (quiet hours that an import writes stay hours of a day), and
   `JoinsBeforeStart` for the steps of the office that are not imports.
2. Proofs: what an approval of `AuthorityGate` implies, rule by rule.
3. Liveness over `TimedFill` with a limit below the number of gaps.
