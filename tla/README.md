# A verification project for Aemulus

Aemulus records a person doing a task in a browser, turns the recording into a
*skill* and replays the skill for whoever runs it. A run is queued, driven in a
browser, settled, receipted and accounted for: its result is announced to
webhooks and the skill's creator earns a fee, which is paid out as a token
transfer on Solana. This directory holds TLA+ models of that code, TLC runs
that check them on small instances, and proofs that TLAPS checks for every
instance. Paths below are relative to `src/`.

* [Inventory](#inventory): the parts of the system
* [Modules](#modules): what models what
* [Runs](#runs): what TLC checks, bounds, fairness
* [Where the code and its comments differ](#where-the-code-and-its-comments-differ)
* [Proofs](#proofs)
* [Not modelled](#not-modelled) and [Plan](#plan)

To check: `tlc -config MCSkillRuns_crash.cfg MCSkillRuns` (one `.cfg` per run, the
module is the part of its name before the underscore), and `tlapm` on each of
`RunQueueProofs`, `RunnerProofs`, `ReceiptBatchProofs`, `ClaimsProofs`,
`WatchProofs`, `InvoiceEntryProofs`, `QboWriteProofs` and `RunIntakeProofs` (the first three
take some minutes each).

## Inventory

All durable state is in one libSQL database; a statement, or a write batch, is
atomic, and nothing else is. The server is Node: inside one process code
interleaves only at `await`; but several processes may share the database, each
with its own worker, reconciler, scheduler and batcher timers, and any of them
may die between two statements.

| Component | State | Operations | Interacts with | What is hard | Correct when | Model |
|---|---|---|---|---|---|---|
| **Job queue and worker** `lib/jobs.ts`, `lib/worker.ts` | `jobs`: status, attempts, locked_at | enqueue, claim, complete, fail (retry or give up), recover stale, prune; a tick each 1.5 s | claims drive the run service; recovery reads `runs.status` | at-least-once execution: a stale job is requeued though its execution may be alive; the read and the write of `failJob` are two statements; crashes | a job is done only when its run is settled and accounted for; a superseded execution cannot touch the job; no run is driven twice at once | `RunQueue` |
| **Run service** `lib/run-service.ts` | none of its own | `startRun`, `completeRun`, `finalizeRunAccounting` | writes `runs`, `jobs`, `earnings`, `skills.run_count`, webhooks | five separate writes, each of which may fail or be the last one before a crash, in executions that may overlap | one credit per (skill, runner), one announcement, no lost credit | `RunQueue` |
| **Run rows** `lib/runs.ts` | `runs`: status, `bookkept` latch, receipt and batch columns | create, finish, set status, latch | everything | a late writer against a settled run | a settled run never changes | `RunQueue`, `RunIntake`, `ReceiptBatch` |
| **Runner** `lib/runner.ts`, `lib/branch.ts`, `lib/wait.ts` | locals of an execution, `run_steps` | execute the plan, skip branches, wait, pause for a human | the queue, `runs`, the recorder's output | nested branches, a clock that pauses do not count against, retries after an error | the record is complete and in order; time is bounded; every plan ends | `PlanRun` |
| **Slots and live sessions** `lib/semaphore.ts`, `lib/live.ts` | browser slots, live sessions (memory) | acquire, release, register, wait, resume, time out | the runner | pauses hold slots; sessions are keyed by run; a resume may come before the wait | slots are counted exactly; a pause ends, and ends as pressed | `LiveHandoff` |
| **Recorder** `lib/recorder.ts`, `app/api/record/*` | a session per owner: state, browser, queue of callbacks, idle timer | start, capture, view, stop, save | the skill editor | callbacks, timers and routes interleave at every await over one reused object | a recording is what its user did; every browser is closed | `Recording` |
| **Extension runs** `lib/ext-run.ts`, `app/api/ext/runs/*` | none of its own | start, report a step, finish | shares the accounting, has no job | the client retries a report that failed half way | as for the run service | `RunQueue` |
| **Earnings and payouts** `lib/earnings.ts`, `lib/payout.ts` | `earnings`: claim_id; `claims`: sig, amount | credit, claim, settle, roll back, send a transfer | the chain | the transfer and the database cannot commit together; a lost confirmation; two requests at once; a two-statement roll back | no earning is paid twice, none is lost | `Claims` |
| **Reconciler** `lib/reconcile.ts` | none of its own | scan the chain; settle, roll back or leave each pending claim; anchor again what lost its signature | `claims`, `runs`, `receipt_batches`, the chain | acts on a list and a scan older than its writes, while requests are under way; bounded scan | gives back only what can no longer be paid | `Claims`, `ReceiptBatch` |
| **Receipts and batches** `lib/receipt.ts`, `lib/receipt-batch.ts`, `lib/commitment.ts`, `lib/arweave.ts` | `runs`: receipt hash, batch id, proof, anchor signature; `receipt_batches` | attach, claim for a batch, anchor with a time limit, store, archive, recover orphans | chain, reconciler, runner | the anchor that timed out may land; a receipt replaced after its hash was batched; batchers in several processes | a stored proof fits the stored receipt; an archive holds nothing that was not anchored; a batch is anchored in the end | `ReceiptBatch` |
| **Accounts payable** `lib/ap-controls/*`, `app/api/ap/*` | hash-chained event log per invoice; ledger of bills; entry reservations | append (with or without an expected sequence number), project, decide, enter into the ledger or QuickBooks, reserve and release quota | QuickBooks | projecting, writing the bill and sealing the event are separate steps; approvals and rejections of one invoice compete; a lost seal takes its bill back | no entry on top of an entry; a submitted event has its bill, and a bill its event; the quota holds | `InvoiceEntry` |
| **QuickBooks write** `lib/qbo/write.ts` | `qbo_write`: status, bill id, updated_at | claim, look, create, retry, reclaim | QuickBooks | lost answers; a reclaim of a claim whose owner is slow; document numbers are not unique | an invoice has one bill, and its own | `QboWrite` |
| **Schedules, quota, bulk runs, idempotency** `lib/scheduler.ts`, `lib/quota.ts`, `lib/bulk.ts`, `lib/idempotency.ts` | next run times, counts, totals, keys with stored answers | fire what is due, check and reserve quota, reserve, answer, release and prune keys | run service, routes | check then act; overlapping passes; a crash between effect and answer | a key or a firing starts one run; the quota holds | `RunIntake` |
| **Watches** `lib/watches.ts`, `lib/watch-runner.ts`, the notice in `lib/scheduler.ts` | rule, action, mute, state of each watch | check, alert, act, mute, replace the rule, tell of a stall | run service, sinks | state read and written several awaits later; mute, failure threshold, confirmation and cooldown meet | one alert per change, none without one | `Watch` |
| **Skills and their versions** `lib/skills.ts` | `skills`, `skill_versions` | create, fork, edit, restore, heal, publish | runner (heals), run service (`run_count`) | versions are read, then written; a heal writes back a plan it read; the check before publishing | the row is its newest version; what is published runs | `SkillVersions` |
| **Webhooks** `lib/webhooks.ts` | registrations | register (limited), deliver with retries | run service | delivery is not durable | the limit holds; a delivery is bounded | - |
| **Chained and triggered runs** `lib/chain.ts`, `lib/triggers.ts` | links between skills | start children | run service | a repeated tail of an execution starts children again | each child starts once | as requests of `RunIntake` |
| **Collections, organisations, authentication, keys, rate limits, vault** | rows, nonces, counters | single-row operations | routes | little | - | - |
| **Browser automation, vision, agent** | a browser page | steps | runner | an open-ended environment | - | choices of `PlanRun` |
| **Telegram, alerts, QuickBooks client, database layer, on-chain programs, web application, SDK** | - | - | - | - | - | - |

The hazards this leads to, each at its line with the properties that cover it,
are listed in `PROJECT.json`.

## Modules

| Module | Contents |
|---|---|
| `RunContract` | abstract: a run's outcome is decided once; the first completed run of a (skill, runner) credits the creator; a run is booked once, after the credit it is due |
| `RunQueue` | detailed: the life of a run, from the request that starts it to its announcement; implements `RunContract` |
| `PayoutContract` | abstract: transfers pay disjoint sets of earnings, each to the creator who earned them |
| `Claims` | detailed: claiming, paying, reconciling; implements `PayoutContract` |
| `WatchContract` | abstract: a check that could read the page while nobody asked for quiet reports a crossing of the rule, and nothing else is reported |
| `Watch` | detailed: evaluating, storing, acting, alerting; implements `WatchContract` |
| `InvoiceEntry` | reviewing and entering invoices: the event log, the ledger and the quota |
| `QboWrite` | posting one invoice as one bill |
| `ReceiptBatch` | tails of executions, batchers, archive sweeps, the reconciler of anchors |
| `RunIntake` | whatever starts a run: requests with or without a key, bulk runs, the scheduler |
| `PlanRun` | one execution of a plan: branches, waits, pauses, the clock, the record |
| `LiveHandoff` | browser slots and live sessions of the executions of one process |
| `Recording` | the recorder session of one owner |
| `SkillVersions` | the row of a skill, its snapshots, its heals, its publication |
| `Runner` | `LiveHandoff`, `PlanRun` and `Recording` together |
| `SkillRuns` | `RunQueue` and `SkillVersions` together |
| `ClaimsProofs`, `InvoiceEntryProofs`, `QboWriteProofs`, `ReceiptBatchProofs`, `RunIntakeProofs`, `WatchProofs` | theorems about the module each is named after |
| `RunQueueProofs` | theorems about `RunQueue`, `SkillVersions` and `SkillRuns` |
| `RunnerProofs` | theorems about `LiveHandoff`, `PlanRun`, `Recording` and `Runner` |
| `MCRunQueue`, `MCSkillRuns`, `MCRunner`, `MCClaims`, `MCInvoiceEntry`, `MCQboWrite`, `MCReceiptBatch`, `MCRunIntake`, `MCWatch` | instances for TLC |

The modules meet at rows, and the flow between them goes one way. `RunIntake`
ends where `RunQueue` begins, at a run whose job is queued.
`CreditEarningOnce` of `RunQueue` adds a row to `earnings`, the action `Accrue`
of `Claims`; a settled run is what `BeginTail` of `ReceiptBatch` and `Begin` of
`Watch` start from; what `PlanRun` records is what a digest of `ReceiptBatch`
covers. Nothing flows back, so they are checked apart. `Runner` and
`SkillRuns` put modules that share no variable into one: the first state
chooses one of them (`part`), and only that one moves.

A definition named in the manner of a variant and commented "Mutated form" is
not part of a model. It stands before the definition it varies and is used to
see that a property notices the bug it describes (`mutants` in `PROJECT.json`).

### RunQueue

*State.* `status` and `bookkept` are columns of `runs`; `job` is the row of the
run's job (`lockedAt` is a counter: a claim increases it, which is all the fence
needs of the clock); `request` is the HTTP request that starts a run;
`earnings` is the set of runs whose completion wrote an earnings row;
`runCount` is `skills.run_count`; `events` the terminal statuses given to
`dispatchRunEvent`. An *execution* `exec[e]` is one call of `processJob`, or of
the finish route, with a program counter that stops wherever the code awaits a
write or read others can see:

    claimed -> loaded -> waiting -> browser <-> paused       lib/worker.ts 47-63, run-service.ts 134-, runner.ts
                 |                     |
                 |                  finish -> credit -> count -> latch -> announce -> complete
                 +--(already settled)--------^          run-service.ts 169-215, worker.ts 68
    any throw inside the try -> failing -> failWrite -> giveUp -> notify   worker.ts 69-86
    claimed -> noSkill -> removed                                          worker.ts 49-57

*Actions* are one per statement: `CreateRun`, `EnqueueRunJob`, `EnqueueFails`,
`FailUnqueuedRun` (startRun); `ClaimNextJob`, `RecoverStuckJob`, `PruneJob`
(the tick); `LoadSkill` ... `CompleteJob` and `FailJobRead` ... `NotifyFailed`
(an execution); `ExtensionReports` (the finish route); `DbFault` (the call of the
current step throws, going where the code's catch goes), `Crash` (a process
loses its executions and requests, no row) and `RemoveSkill`.

*Assumptions about the environment.*

* The extension reports only runs it started, and once per execution; the route
  guards (owner, skill present, run not terminal) are in the action.
* Nothing in the repository deletes a skill's row, but `processJob` and the
  finish route handle its absence: `RemoveSkill` is external, and only one run
  enables it (`Removable`).
* `Punctual` says that the part of an execution outside human pauses (browser
  work, page waits, waiting for a slot, accounting) fits into the part of
  `STALE_MS` meant for it, and `PauseBudget` is the number of full pauses it has
  room for besides. With `Punctual = FALSE` a live execution may be taken for
  dead at any time: all accounting properties are checked that way.
* Every error of a database call is one `DbFault`. `finishRun` retries five times; a
  fault there stands for five failures.
* `creditEarningOnce` is one conditional INSERT. The UNIQUE index behind it is a
  backstop and is not used by the model.

### Claims

*State.* `accrued` and `claimOf` are the rows of `earnings`, `claim` those of
`claims` (`pending` is `sig IS NULL`), `transfer` is the chain's view of each
claim's transfer, `request` the calls of `claimEarnings` under way, `reconciler`
one pass of `reconcilePendingClaims` per process, with the list it read, the
claims it found past the grace period, and what its scan found or held to be absent;
`old` says which claims are past `SETTLE_GRACE_MS`. Amounts are the sets of earnings
they add up: which earnings a transfer pays is what the properties tell apart.

*Actions.* `MarkAndInsert` is the write batch of `claimEarnings`; `ReadAmount`,
`PrepFails`, `Broadcast`, `Confirmed`, `ConfirmFails`, `RecordSignature` follow
its calls; its roll back is two statements, `UnmarkEarnings` and `DropClaim`.
`Land` and `Lapse` are the chain. `ListPending`, `ScanHistory` and
`ReconcileClaim` are the reconciler: `RollbackClaim` is one batch, guarded on
`sig IS NULL` in both statements. `RequestFault`, `PassFault` and `Crash` interrupt.

*Assumptions about the environment.*

* A transfer that was sent lands or lapses, once. A broadcast that fails before
  it reaches a validator is a transfer that is sent and lapses.
* A scan finds every payout of a claim it reaches back to (`covered`), and may find
  others; the memo is indexed. It reads the history in one step: a payout that
  lands later is not in it.
* `Prompt` says that preparing a claim, broadcasting it and the life of its
  blockhash fit into `SETTLE_GRACE_MS` (10 minutes). What happens otherwise is
  told [below](#where-the-code-and-its-comments-differ).
* The loop over pending claims is in creation order in the code and in any
  order in the model, which allows more.
* An operator who rolls a claim back by hand is not modelled.

### InvoiceEntry

*State.* `log` is `ap_events`: each invoice's stream, whose length is the next
sequence number; an invoice's status is read off the stream (`LastIs`, `Has`), as
`foldInvoiceEntryState` does it. `ledger` is `ledger_bill` with its UNIQUE row
per invoice, `lastBill` its AUTOINCREMENT counter, `reserved` the number of rows of
`ap_entry_reservations`. `call[q]` is a call of a route under way: its invoice, whether it
rejects, whether it holds a reservation, the sequence number it read or
projected, and the bill it is to seal.

    BeginApprove -> project -> clear -> clearWrite -> enter     decide/route.ts, decide.ts
    BeginReject  -> project -> reject -> rejectWrite
    BeginUpload  -> receive -----------------------> enter      intake/enter/route.ts, intake.ts
    enter -> bill (-> select) -> seal (-> lost -> undo)         qbo-submit.ts, ledger.ts
    every way out of a call with a reservation -> release       billing.ts

*Actions* are one per statement. Without an expected number an append reads the
tail (`ReadTail`) and later writes (`RejectWrite`, `ClearWrite`), and is refused if its
slot was taken in between (the UNIQUE index and the head's count). With
an expected number (`SealSubmitted`) the read and the write both compare with the
number projected earlier, so one step stands for them. `Reserve` counts the sealed entries and
the reservations in the statement that inserts; it is done before the invoice is
looked at. `DeleteLedgerBill` deletes by invoice.

*Assumptions about the environment.*

* One capped workspace, whose 30-day window does not end. Amounts are positive
  and reasons are given.
* `PauseForReview` is the environment. In the repository the event
  `invoice.review_paused` is written by the activity ticker (off by default, in the
  default workspace) and by the seed of the demo invoice, which has routes of
  its own; the decide route serves any invoice of the viewer's workspace, and
  `tests/integration/ap-decide.test.ts` seeds the reviews it decides. The model assumes that
  reviews arise in the viewer's workspace.
* The activity ticker's own entries, which reserve nothing, and the demo
  invoice, which the quota excludes, are left out.
* QuickBooks answers *posted* or refuses, and holds one bill per invoice.
* Nobody edits rows outside the program: `HeadIntegrityError` does not occur.
* A failed call changed nothing (`DbFault`); a write that committed and was
  reported as failed is not modelled.

### QboWrite

*State.* `row` is `qbo_write`, with whether `updated_at` is older than
`STALE_MS`; `maker` is what QuickBooks holds: for each bill the invoice it was made
for, whose document number, amount rounded to cents (`Total`) and currency (`RefOf`) it carries;
`call` the calls of `writeInvoiceToQbo`.

    claim -> (owner) pre -> lookup -> create -> post            write.ts 143-245
      |                   \ adopted ----------/    \ any error -> fail
      +-> read -> find -> adopted -> post
                     \-> retry | reclaim -> (owner) pre ...

*Actions* are one per statement or request. `Find` and `Pre` look at one bill of the
document number, whichever QuickBooks lists first (`findBillByDocNumber`), and adopt it
if its total is listed and less than half a cent away (`BillMatchesAmount`) and no two explicit currencies
differ (`BillMatchesCurrency`): a bill of another invoice may pass (`LookAlike`), and an own one may not. `LoseAnswer` makes the bill and loses the
answer; `FailOwner` is what the owner's catch records, `FailCall` what is thrown at the
caller; `Age` is `STALE_MS` going by.

*Assumptions.* A request without an answer has landed by the time of the next one, or
never will. A bill made for an invoice with a currency has that one or shows none; the arithmetic
of amounts is exact, in thousandths. `Prompt`: an owner is done within `STALE_MS` of its `now`; the code has no
bound, and without it the reclaim is a second writer.

### ReceiptBatch

*State.* `run` holds the receipt columns of `runs`, `row` the rows of
`receipt_batches`; `tail[e]` the tail of an execution, `batcher[p]`, `sweep[p]` and
`pass[p]` what each process is doing. A digest is a version number of what it covers, a tree the
leaf of each of its runs, a proof the batch in whose tree it is a path, and a signature the batch whose
root its memo carries.

    tail     commit -> outcome -> agenc (-> agencWrite) -> digest -> write   runner.ts 840-, ext-run.ts, receipt.ts
    batcher  claim -> select -> anchor -> insert -> store -> (read -> upload) -> sweep   receipt-batch.ts
                                           \ any error -> release
    pass     list -> anchor -> batch -> runs                                 reconcile.ts 65-

*Actions* are one per statement. `Anchor` gives a signature or none in time, and
`PassAnchored` may anchor the same root again. `SetRunBatch` has no guard, as in the code;
`Boot` releases the claims of batches older than `BATCH_STALE_MS` that have no proof.

*Assumptions.* `Prompt`: anchoring and storing are done within `BATCH_STALE_MS` (5 minutes). The
window and the `LIMIT` of the lists are left out, so a fair pass reaches every batch. Two
history variables name exceptions: `dropped`, batches whose batcher died or failed
before their proofs were written, and `missed`, batches that a pass signed while, or
half way, others stored them. `TailedOnce` excepts runs whose receipt was attached twice.

### RunIntake

*State.* `recent` counts the rows of the last 24 hours, by whether their insert was metered;
`jobs[o]` how many runs were queued for a key, a bulk run or a firing; `key`, `sched` and `total` are the
rows of `idempotency_keys`, `schedules` and `bulk_runs`; `proc` the calls in progress.
Time is counted in cadences: a schedule is due at the integers.

    request  quota (-> reserve) -> create -> enqueue (-> answer | release)
    bulk     check -> [create -> enqueue]* -> record
    pass     list -> [claim -> owner -> create -> enqueue]*

*Actions* are one per statement. `CreateRun` of a metered run counts in the statement
that inserts; a scheduled one relies on the count read in `CheckOwner`, whose other outcomes (skill
gone, balance too low, unreadable) skip the firing or stop the schedule. A claim sets the
next time to the first after the pass's `now`. `Thrown` is where each caller's catch goes on.

*Assumptions.* One owner and one bucket of the quota. A key is pruned when no
request with it is under way, as 24 hours outlast a request. `excused` are keys whose answer
could not be stored.

### Watch

*State.* `watch` is the schedule's row: rule, action, mute and `WatchState`; `check[c]` a
call of `evaluateWatchForRun`, with the row as it read it; `notice` the scheduler's
stall notice, which reads and writes the same state. A reading is a value of a small set, `Blank` the empty
string, which also stands in an alert for a value that was never read (`Told`); the rules
are told apart as far as `matches` does: *changed*, *appears*, and the level rules.

*Actions.* `Begin` reads the row, `Persist` decides and writes the state back
unconditionally, `Act` and `Tell` follow. `Mute`, `SetWatch`, `SetWatchAction` are
the owner, `Cool` is time, `FailCheck`, `FailNotice` and `Crash` failures.

`WatchContract` keeps only the reading the owner is up to date with. A check takes its
observation (`input`) and passes or judges it; a crossing is `owed` until it is told. `known` is
mapped to the value kept aside while the watch is quiet, and to the last value otherwise. What the
code does with the first check after a quiet and does not promise has actions of its own: `Forget` (it reads no number,
or its rule confirms) and `MistakeForChange` (it failed); `TakeUp` lets a quiet that began before any
reading keep aside the first value read in it. The
contract voids itself (`raced`) once somebody wrote over a state it had not read, which the
code does not prevent, and is explored up to there.

### PlanRun

*State.* The locals of `executeRun`: the step `at`, `left` to the deadline, the wait `budget`,
`captchas`, `skipThrough` (`through`), `verdict`; `record` is what `run_steps` gets in this
attempt; `tries` the attempts of the job.

*Actions.* `LeftOut` is `skipStep` by its three doors (a reviewer, an enclosing branch, the
step's own condition) up to its note, `Skip` the step that is noted so, and `SkipFails` the one whose note fails, which the catch
around the step notes as failed; `WaitFor` one wait step with its grant and what it hands back;
`Perform`, `NotFound`, `Withhold`, `StepFails` the ways a step ends; `Captcha`,
`AfterCaptcha`, `Checkpoint` the human; `Throw` an error outside the steps, upon which the worker
starts the plan again. What a page shows is the environment's choice, which is also what
healing, the operator and the agent amount to here. A human pause takes no time, as the code extends the
deadline by it. A statement that fails has written nothing.

### LiveHandoff

*State.* `active` and `queue` are the semaphore; `live` the map from runs to sessions, `session` the
session objects, `timer` and `outcome` the timers and promises of the waits.

*Actions.* `Acquire`, `Release` (which hands the slot to the first waiter), `RegisterLive`,
`WaitForResume`, `TimeOut`, `ResumeLive`, `Delete`. A callback and the code it
resumes run before anything else, so they are one step. Two executions of one run are in the model;
`tangled` are the runs that had two sessions at once, where the code clears the wrong timer.

### Recording

*State.* `state` is the recording's state with its trace, `handle` the browser the session
holds, `chromium` every browser launched; `tail` is the queue of callbacks and `slot` the index
the running one has read; `closers` are the calls awaiting a close.

*Actions* stop at every await: `Start`, `TearDown`, `BeginFresh`, `LaunchBrowser`,
`Loaded`, `SetupFails`, `FailedStart`; `Act`, `TakeUp`, `Push`; `Frame`, `TimerFires`,
`ContextCloses`, `Closed`; `StopCalled`, `StopDrained`, `TakeSnapshot`, `Saved`. An await that
returns finds what others changed: a close clears whatever handle there is by then.

*Assumptions.* Browser, context and page are one handle. What a capture reads, the frames,
the remote input, the navigation guard and the capture mode are left out. The
run explores a behaviour until one recording meets what another left behind (`mixed`).

### SkillVersions

*State.* `skill` is the row, `history` the rows of `skill_versions`, `writer` the calls in
progress. A content is known by the edit it came from; the plan is apart from the form (name,
fields, hosts), because a heal writes the plan alone. Better selectors leave a plan the
same content. `Runs` are the pairs that `unpublishableReason` passes.

    create | fork -> snapshot -> prune          edit | restore -> load -> max -> update -> snapshot -> prune
    heal: read -> write                         publish: check -> write

`torn` and `crossed` say that the row, or a decision about publishing, was overtaken by
another writer; the properties hold of what was not.

## Runs

| Run | Instance | Shows |
|---|---|---|
| `crash` | part *runs*: 2 queued runs of one pair, 2 processes, 1 crash, `Punctual`; part *skill*: 2 writers, 2 contents, 3 versions of which 1 is kept, 1 failure | `DoneOnce`: with crashes alone nothing is driven twice (`NoDoubleExecution`), announced twice (`TerminalEventOnce`) or left uncredited (`CompletedRunIsCredited`); `SkillKept`: a skill's row is its newest version (`EditRecorded`) and what is published can run (`PublishedRuns`); `SkillRunsTypeOK` |
| `race` | 1 queued and 1 extension run of one pair, 2 executions in one process, 1 failed call, a skill that may vanish, not `Punctual` | `AccountingExact` (`DoneMeansSettled`, `BookedMeansCredited`, `OneCreditPerPair`, `CreditedMeansCompleted`), `CountNeverAhead`, `StaleExecutionHarmless`, `ImplementsContract`: with double executions the accounting is still exact |
| `live` | 2 queued runs of one pair, 1 process with 1 slot, 1 crash, 1 failed call, `Punctual` | `EveryRunSettles`: every run settles unless it is stranded in one of three named ways; `SettledRunIsAnnounced`: without a failure its webhook is dispatched, however slots and pauses contend |
| `claims_safety` | 2 processes, each with a request and a reconciler, 2 earnings of one creator, 2 claims, 1 crash, 1 failed call, automatic roll backs; symmetric | `EarningsAccounted` (`PaidStaysClaimed`, `SettledMeansPaid`, `NothingStranded`, `NoDoublePay`), `ReclaimOnlyUnpaid`, `ImplementsContract` |
| `claims_progress` | 1 process, 1 request, 2 earnings, 2 claims, 1 crash, 1 failed call, automatic roll backs | `LandedIsRecorded`: whatever dies, a landed transfer is recorded; `PendingResolves`: no claim stays pending |
| `invoice_safety` | 1 flagged invoice, 2 uploads, 3 calls, ledger and QuickBooks, a quota of 2, 1 failed call or crash; symmetric | `NoDoubleEntry`, `QuotaHolds`, `NoOrphanBill` |
| `qbo_safety` | 3 invoices of one document number: EUR, one less than half a cent away without a currency and booked in USD, one of another amount in USD; 2 calls, 3 bills, 2 failures; symmetric | `OneOwner`: an invoice has one writer at a time; `BillExact`: it gets one bill (`OneBill`, with two named exceptions after a failure), and the row names the bill made for it or for a look-alike (`PostedIsOurs`) |
| `batch_safety` | 2 runs, 2 batches, 2 processes of which 1 archives, 1 tail per run, 1 failure; symmetric | `StoredFits`: the stored proof verifies (`ProofVerifies`) and the archive holds nothing that was not anchored (`ArchiveWithinRoot`); `AnchorsAgree`: runs and batches show the same anchor (`SigMatchesBatch`, `AnchorReachesRuns`); `ProofStays`; `TypeOK` |
| `batch_live` | 1 run with 2 tails, 2 batches, 2 processes, 1 failure | `BatchAnchored`: a batch that timed out or lost its answer is anchored in the end; `ReceiptBatched`: every receipt gets its proof, unless its batch was dropped |
| `intake` | 2 requests and 1 key, a bulk run of 2 rows, 2 passes over 1 schedule, 3 cadences, a quota of 2, 1 failure | `StartedOnce`: a key (`KeyOnce`) and a firing (`FiredOnce`) start one run; `QuotaKept`: reserved runs stay within the quota (`QuotaHolds`), scheduled ones exceed it by a run per pass at most (`ExcessBounded`); `TotalIsChildren` |
| `watch` | 1 check at a time and a stall notice, 3 readings of which one is blank, 4 rules, `BrokenAfter = 2`, 1 failure | `ImplementsContract`: the crossings of the rule are told and nothing else, but for the first check after a mute; `ActNeedsBaseline`; `BrokenToldOnce`; `TypeOK` |
| `runner` | part *slots*: 3 executions of 2 runs, 2 slots, 2 pauses each; part *plan*: plans of 3 steps of 4 kinds, any skips, 1 throw, 2 attempts; part *record*: 2 recordings, 2 actions, 1 browser crash | `SlotsExact`, `ResumeHonoured`; `RecordFaithful` (`SkipsAreGroups`, `RecordComplete`), `TimeBounded`; `RunsEnd` (`PauseEnds`, `SlotServed`, `PlanEnds`); `RecordingIntact` (`TraceInOrder`, `StopKeepsAll`, which except mixed recordings, and the second also those whose queue is rejected), `NothingLeaks`; `RunnerTypeOK` |

Several properties are conjunctions; the parts, in brackets, have names and comments of
their own in the modules.

Distinct states: `crash` 758 thousand, `race` 1.5 million, `live` 460 thousand,
`claims_safety` 1.1 million, `claims_progress` 145 thousand, `invoice_safety` 1.2 million,
`qbo_safety` 4.6 million, `batch_safety` 2.0 million, `batch_live` 163 thousand, `intake` 3.8
million, `watch` 327 thousand, `runner` 559 thousand.

*Bounds and why they are enough.*

* `MaxAttempts = 2` (the code's 3): one retry and the last attempt are the
  cases the code distinguishes. In `live` it is 1, as retries after an error are
  requeued like those after a crash.
* `MaxClaims = 3` bounds claims of one job. Recovery does not look at the attempts, so the
  code has no bound; three claims allow an attempt that dies, one that fails and the last. In
  `live` that is all that one attempt, a crash and a failed call can use up, or progress would
  end at the bound.
* `MaxPauses = 1`, `PauseBudget = 1` of `RunQueue`: the code's budget is
  `MAX_CAPTCHA_PAUSES + 2`; only whether it is exceeded matters.
* `RunSlots = 1` makes executions wait for one another; with `Max = 2` and three
  executions in `LiveHandoff` one waits beside two holders.
* `MaxCrashes`, `MaxFaults`, `MaxFailures`, `MaxThrows`, `MaxBreaks`, `MaxGone`: one; each
  hazard needs one failure at the wrong step, and a retry after it. `qbo_safety` has two: the lost
  answer, and the retry that fails too. Its three invoices are one, a look-alike of it, and one that is told
apart from the look-alike by its amount alone; two calls are what a race for a row takes.
* `Limit = 2` of `InvoiceEntry` with three calls: the third is refused until a reservation
  is released unused. `Limit = 2` of `RunIntake` with three calls in progress (`MaxCalls`), a bulk run
  that takes it all, and two passes that exceed it. `MaxClock = 2` gives a schedule a time that is
  missed, one that fires and the next; `MaxCount = 2` is one more than a key or firing may have.
* Two executions and two runs of one pair are what a race for a credit, a
  latch or a job takes; two claims are one that is paid or rolled back, and one
  that may take its earnings. That a claim never mixes two creators is left to
  the proof.
* Two receipts and two batches: one batch for both, one each, and one released and claimed
  again. `MaxFinals = 1` where a second tail would be an exception anyway, 2 in `batch_live`.
* `BrokenAfter = 2` of 3: below, at and past the threshold. A confirmation of 2 and a cooldown are each
  in one rule.
* Plans of three steps hold a gate inside, across and after another; `RunTime = 2`, `WaitTime = 2` and waits
  as long as either make the deadline, the budget and both at once run out.
* `Kept = 1` and three versions prune twice, and leave a restored version the only one.

The proofs need none of these bounds.

*Deadlock.* `watch` and `qbo_safety` check that the system never stops. The others set
`CHECK_DEADLOCK FALSE`, because the system may rest: when every run has settled, every earning is
paid, every invoice is entered or rejected, every batch anchored, or the times of the schedules (a bound)
are used up, timers find nothing to do.

*Fairness.* `FairSpec` of `RunQueue` has weak fairness on what the program does
unprompted: the rest of a request that began (`EnqueueRunJob`,
`FailUnqueuedRun`), the tick's recovery and claiming (a 1.5 s `setInterval` that
catches its errors), and the next step of every execution, where a pause ends by its own
timeout and a plan by its deadline. A crash removes the execution, not the
obligation of the other timers; a process that dies is restarted. People (who start, resume
and report runs), pruning, failures and crashes are not fair. `FairSpec` of `Claims` has weak
fairness on requests, the chain's decision, the clock and the reconciler's
timer (5 minutes), and strong fairness on one case of the scan: infinitely many
passes include infinitely many whose scan reaches back to every claim listed. That
holds while the treasury's history since the oldest pending claim is shorter than
the scan's limit (10 pages of 1000 signatures). It also takes the earlier
stages of `reconcileAnchors` to return. Both are assumptions on the deployment.

`FairSpec` of `ReceiptBatch`: tails and batchers go on, the timers of the batcher and the reconciler
tick, processes are restarted (weak); a batch that is tried again and again is
anchored at last (strong), which means that the RPC recovers within
`RECONCILE_WINDOW_MS`. In `MCRunner`: a run has a deadline, a timer fires, an await of
the process returns (`Fairness`; nobody has to press Continue); the steps, waits and pauses
of a plan are bounded by their time limits (`Forward`); Playwright, disk and database
calls return, and nobody watches a recording for ever, so that its idle timer lapses
(`RecFairness`). Starting, acting, stopping and crashing are not fair.

## Where the code and its comments differ

The models follow the code. Where a comment promises more, a property has an exception
with a name, or an assumption, and what happens there is told here. None of these has a run of its own.

*Runs and jobs*

* Recovery exists "so a crash doesn't strand a run forever" (`lib/jobs.ts:153-155`), but skips
  `awaiting_input`: a process that dies in a human pause takes the pause's timeout with it.
  `EveryRunSettles` therefore excepts `Stranded`: a process that dies between the run's row and
  its job, the lost settling of a failed job's run, and the abandoned pause. It shows there is no other way.
* Webhooks "fire exactly once" (`lib/runs.ts:219-221`), but if `completeJob` fails on the last
  attempt, `run.failed` follows `run.completed`.
* A transient error "retries cleanly on the next completeRun pass" (`lib/run-service.ts:183-185`), but the
  retry of an extension's report returns before the accounting, and a queued run whose error falls on
  its last attempt has no next pass: the credit is lost.
* The credit and the count "happen exactly once together" (`lib/run-service.ts:188-199`), but they are
  two statements, and a count lost by a crash between them is not made up.
* `NoDoubleExecution` needs `MaxPauses <= PauseBudget`: a plan with more interactive checkpoints than
  `STALE_MS` allows for can be requeued and driven twice once it resumes (`lib/worker.ts:26-44`).
* The terminal status is retried because an error "must NOT leave the run running — the job would retry and
  re-execute the entire browser run" (`lib/runner.ts:815-817`). An error of the status written at a
  captcha, or of the note in a step's own catch, is outside that retry, and the worker runs
  the plan again from its start. The notes of the new attempt are added to those of the old one.
* Two executions of one run that pause at once share a live session: one clears the other's timer, and
  that pause is not "bounded by LIVE_TIMEOUT_MS" (`lib/runner.ts:440-441`).
* A watch check makes "NO model calls" (`lib/runner.ts:617-620`), but the operator fallback before it is not
  withheld from checks.
* Chained children are started again by a second execution (`lib/chain.ts:99`); the limit of webhooks is a count
  followed by an insert (`lib/webhooks.ts:128`).

*Payouts and invoices*

* A claim not found past the grace is "DEFINITIVELY unpaid" (`lib/reconcile.ts:39-42`), but the grace runs from the
  claim's creation: if preparation outlasts it (not `Prompt`) the claim is rolled back, then paid.
* An exact sequence number is to see that entries "can't both append a submitted event"
  (`lib/ap-controls/qbo-submit.ts:93-94`). A rejection, which expects no number, may land after the first
  submission, and a second approval past its status check then submits again. `NoDoubleEntry`
  speaks of entries without a rejection between them.
* Entered invoices are "real, inspectable bills" (`lib/ap-controls/ledger.ts:4-6`). The approval whose seal
  lost its slot deletes by invoice, and so the bill another approval is about to submit. `NoOrphanBill`
  has the exception, and one for failures.
* "Post one invoice as a QBO Bill, exactly once" (`lib/qbo/write.ts:141`): only the first bill of a document
  number is looked at. If an answer was lost and another invoice's bill is listed first, the
  retry creates a second bill; so it does if the own bill is not recognised, because its total is not listed or the amount ends in half
  a cent, which `createBill` rounds by as much as the comparison allows (callers round to cents). And a claim is reclaimed after `STALE_MS` whether or not its owner lives.

* "Two DISTINCT invoices sharing a vendor doc number must not be deduped onto the same Bill"
  (`lib/qbo/write.ts:91-92`), but nothing in the answer tells look-alikes apart: same number, amounts within half
  a cent, and a currency that is equal or unset on one side (`:105-110`). The second is then marked as posted with the bill of the first.
  `PostedIsOurs` says it is that or its own, and never a bill that differs.

*Receipts*

* `attachReceipt` has no guard (`lib/receipt.ts:241`): a second tail replaces the hash under a proof that
  stays, and the receipt no longer verifies (`TailedOnce`).
* The bundle is stored "AFTER the batch is safely persisted" (`lib/receipt-batch.ts:138`) by its own batcher, but the
  sweep of another process may read it while proofs are still written: it archives a part, and
  the later upload overwrites `arweave_id`.
* Claims of a dead batcher are released at a boot only, and only if they are five minutes old by then: a
  process that restarts at once leaves them (`dropped`).
* A pass that signs a batch while its batcher writes null signatures over the runs leaves
  runs without the anchor that the batch shows (`missed`).

*Intake*

* A retry with the key of a run that started is refused with 429, and not answered with the run, if that run
  used up the quota: the quota is looked at before the key (`app/api/v1/runs/route.ts:120-129`).
* The same key "executes the operation at most once" (`lib/idempotency.ts:3-7`), but if the answer cannot be stored
  the key is released (`excused`). A crash leaves it reserved, and retries get 409 until it is pruned after 24 hours.
* A crash after `claimSchedule` loses the firing. The route that resumes a schedule does not look at
  `MAX_ACTIVE_SCHEDULES` (`lib/schedules.ts:120-121`).

*Watches*

* "A failing watch never triggers anything" (`lib/watch-runner.ts:229`) and "a failure must NEVER look like a
  change" (`lib/watches.ts:355`): a failed check at which a mute lifts compares the value kept aside with
  the last one by raw difference, and alerts and acts upon it. A watch that was muted before it had read anything
  alerts at such a check that a value nobody read has become the empty string, as `lastValue ?? ""` differs from
  null (`lib/watch-runner.ts:162,180`). `WatchContract` allows it by name (`MistakeForChange`).
* "The value at the start of the quiet is kept aside" (`lib/watch-runner.ts:144`), but null counts as none: a watch muted
  before its first reading compares with the first value it read in the quiet, and not with what it never had (`TakeUp`).
* A mute that lifts at a check that breaks, reads nothing or belongs to a rule that confirms or spaces its
  alerts drops the value kept aside: what crossed in the quiet is not told. A watch that reaches `BROKEN_AFTER`
  while it is muted never says so. Writers that overlap lose one's update (`raced`).

*Recorder*

* "An explicit Start means begin fresh" (`lib/recorder.ts:102`), "nothing leaks" (`:258`): a second start that
  finds the first still loading tears down a browser the first goes on to use, and the first, failing, clears the
  second's state. A browser whose handle was overwritten is never closed. A close of the old recording that is pending
  stops the new one and clears its handle.
* Writes are serialised "so indexes never race" (`:80`), but a late callback writes into whatever recording there
  is. If there is none it throws, the queue stays rejected, and the owner's later recordings record nothing, although
  the comment says "so the wallet isn't wedged" (`:258`): a start fails while a callback takes its screenshot, and the next start,
  which meets nothing else of it, accepts actions that no stop saves (`wedged`, an exception of `StopKeepsAll`).
* `markSaved` marks whatever recording is current; two calls to stop save two demonstrations.

*Skills*

* A collision of versions is to "fail loudly" (`lib/skills.ts:332-335`), but the row is updated before the snapshot, so
  the edit that fails has changed the row; and an insert that comes after a later edit's pruning finds its number free
  again, and restores an old version as if it were kept.
* The guard of `setPublished` is not to leave "a broken skill live in the marketplace" (`lib/skills.ts:343-347`): its
  check may be overtaken by an edit, and a heal may write the plan of an old version over an edited form.

## Proofs

All theorems hold for every value of the constants that satisfies the
modules' assumptions: any number of runs, executions, processes, claims, earnings,
calls, crashes and failures. Every safety property, action property and refinement that a run
checks is stated by one. Where a theorem needs a condition about time (`Prompt`, in three modules) or
about the environment (`Fit`, `Calm`), it is named below, with what happens without it. The assumptions
on constants otherwise say only that sets are disjoint where the code keeps them apart, that
limits are numbers, and that the values which stand for NULL are no proper ones.

**RunQueue** (`RunQueueProofs`), assuming `RunsAssumption`,
`HostsAssumption`, `BoundsAssumption`, and, except for `OneBrowser` and `OnceHolds`, without `Punctual`:

* `Typing`, `TerminalStays`, `DoneIsSettled`, `BookedIsCredited`,
  `CreditsAreEarned`, `FenceHolds`: type correctness, `TerminalIsFinal`,
  `DoneMeansSettled`, `BookedMeansCredited`, `OneCreditPerPair` with `CreditedMeansCompleted`,
  `StaleExecutionHarmless`. `AccountingHolds`: their conjunction `AccountingExact`.
* `Refinement`: `Spec => ImplementsContract`.
* `CountTied`: `CountNeverAhead`.
* `OneBrowser`: `NoDoubleExecution`, from `Fit`; `OnceHolds`: `DoneOnce`, from `Calm`.

The argument is the inductive invariant `IInv`. None of the accounting
properties is inductive alone: that a booked run is credited needs to know that an
execution at `latch` has passed its credit, and that the outcome in its hands is the
stored one; that needs settled runs to stay settled. `IInv` is the conjunction of `TypeOK`;
`OutcomeKnown` (whoever is about to settle a run has an outcome); `CreatedOK`
(nobody works on a run without a row); `RowsInv`, the row properties; and
`AccountingOK(e)`, what an execution knows at each step. The lemmas take
one action each; steps that leave the rows alone and keep or end
executions share one lemma. The refinement maps `Settle`, `Credit` and `Book` to
`Finish`, `CreditEarningOnce` and `ClaimRunBookkeeping`, and all else to stuttering.

`CountInv` is `CountNeverAhead` with the finiteness that counting needs: the credit of a call adds one to
both sides, its count moves one between the terms on the left, and a crash takes away from the left only.

`Fit` says that `STALE_MS` covers an execution with its pauses (`Punctual`, `MaxPauses <= PauseBudget`); without it
two browsers may drive one run. With it, processes may die, database calls fail and skills vanish at any point:
`SoleInv` says that a run of the worker has one execution at most, which holds the job's current claim (`Driving`), and
that a request under way has no job yet (`Asked`). A stale job then has no execution, since the one it had would
not be stale (`StaleIsLeft`), and a queued one has none (`NobodyDrives`); so a claim never meets another.
The extension's executions, of which a run may have several, never reach a browser (`Reported`).

`Calm` is what the run `crash` assumes: `Fit`, and no database call fails, no skill vanishes, the worker executes
every run. The other two parts of `DoneOnce` need it: a failed `completeJob` on the last attempt sends a second
event, and a failed credit on the last attempt leaves the run uncredited. On top of `SoleInv`, `OnceInv` says that
the execution has told nobody anything yet (`Quiet`), and what the rows alone say once it is gone (`Told`): an
event that went out is the status, and the latch was taken or the job given up.

**SkillVersions** (`RunQueueProofs`), assuming `ContentAssumption` and `VersionsAssumption`:

* `SkillTyping`, `VersionsKept` (`SkillKept`), from `SkillInvariant`.

`Undisturbed(w)`: what a writer carries is what it read, as long as it was not overtaken; above all, its version is beyond
every one there is. `Restorable`: unless an edit broke off between row and snapshot (`torn`), the newest snapshot is the row. That a history has a newest
version rests on the library's theorem that `<` is well-founded.

`SkillRunsParts` shows that the composition `SkillRuns` is a behaviour of both modules, so that the theorems hold
in it; `SkillRunsTyping` (`SkillRunsTypeOK`) is the first that is carried over.

**Claims** (`ClaimsProofs`), assuming `EarningsAssumption`, `ClaimsAssumption`,
`SettingsAssumption`, and `Prompt` where the invariant is used (without it
`NoDoublePay` is false):

* `Typing` (needs no `Prompt`), `PaidClaimHolds`, `SettledIsPaid`, `EarningsAreReachable`,
  `PaidOnce`, and `EarningsHold`, their conjunction `EarningsAccounted`;
  `OnlyUnpaidIsReclaimed`, `Refinement`.

`IInv` here is `TypeOK` with `PayableHeld` (while a payout is possible or has
happened, its claim exists and holds exactly its earnings), `GraceOK` (a claim past its grace
has no transfer under way or to come; a pass's lists are right about the
chain), `RequestOK` (what each step of a call knows), `OneRequestPerClaim`,
`ClaimsOK` (a claim is for one creator), `NothingStranded` and
`SettledMeansPaid`. `NoDoublePay` follows since two claims cannot hold the same earning.
`GraceOK` is where `Prompt` enters: absence in a covering scan is final only
if no transfer can come later.

**InvoiceEntry** (`InvoiceEntryProofs`), assuming `InvoicesAssumption` and
`SettingsAssumption`, with any failures:

* `Typing`, `EnteredOnce` (`NoDoubleEntry`), `BillsAreSubmitted` (`NoOrphanBill`),
  `WithinQuota` (`QuotaHolds`).

Each of the last three has an invariant of its own on top of `TypeOK`.
`NoDoubleEntry` speaks of the whole stream, and a call may append only what it knows of
it. `Clear(s, n)` says that every submission in the first `n` events of a stream has
a rejection after it; `Known(q)`, that the part of the stream a call projected
before its bill is clear, which suffices if that part is still the whole
stream when it seals; `Projected(i)`, that a stream whose status is not
*submitted* is clear. `NoOrphanBill` needs to know who will take a bill back: `Covered` says that,
as long as nothing has failed, a bill that was not submitted has a call between its record and its
seal or its roll back. `QuotaHolds` counts: `QuotaInv` bounds the entries together
with the reservations whose calls may still submit, and the reservations are at
least as many as the calls that hold one; it rests on the library's theorems
about the cardinality of finite sets.

**QboWrite** (`QboWriteProofs`), assuming `InvoicesAssumption`,
`SettingsAssumption`, and `Prompt`, because a reclaim takes a stale row to have no owner:

* `Typing`, `OwnedOnce` (`OneOwner`), `BilledOnce` (`BillExact`), from `Invariant`.

`IInv` adds to `TypeOK` and `OneOwner` what each call knows (`CallOK`: the row it owns is not stale; a
bill in its hands is made for its invoice or a look-alike), what the owner's
look before the create found (`LookedWell`: the bill of an invoice that stands alone in its document, and is recognised,
is adopted, so behind that look there is none; `RoundsClose` is the arithmetic of that), and who answers for a bill as long as nothing has failed (`BillHeld`).

**PlanRun** (`RunnerProofs`), assuming `PlansAssumption` and `ClockAssumption`, for any plan and limits:

* `PlanTyping`, `InTime` (`TimeBounded`), `RecordHolds` (`RecordFaithful`), from `PlanInvariant`.

`ClockOK` is the balance of the clock: the time left, the time spent and the wait budget always add up to
the same sum, so a grant cannot create time. `StageOK` ties the record's length to the step. For the branches,
`Branched` says that a step has a note of *skipped* only for a reason, and with a reason one of *skipped* or *failed*; `Reaches`
that `skipThrough` is the farthest end of the groups left out so far, as long as the attempt goes on; and `FailedLast`
that a failed note is the last one. Together they are `SkipsAreGroups` for the record up to now.

**LiveHandoff** (`RunnerProofs`), assuming `ConstantsAssumption`:

* `HandoffTyping`, `SlotsCounted` (`SlotsExact`), from `SlotInvariant`; `ResumeKept` (`ResumeHonoured`).

`SlotInv`: the queue has no repetitions and holds exactly the executions that are queued; the count is the
number of holders; nobody waits beside a free slot. A release that hands over keeps the count, since the head
of the queue becomes a holder as the other stops being one.

`ResumeHonoured` needs to know who a timer and a resolver belong to. `MapInv` says it for runs that are not tangled: the session in the
map is that of the one execution that pauses, as are its waiter and its timer. `PromiseInv`:
what was pressed before the wait is noted in that session, so the wait ends at once and no timer is set.

**Recording** (`RunnerProofs`), assuming `RecorderAssumption`:

* `RecordingTyping`, `RecordingKept` (`RecordingIntact`), from `RecordingInvariant`.

Until recordings mix, the trace followed by the queue is the sequence of accepted actions: `TraceInv` and `TailInv` give each its place,
and `Owing` says that what a stop is owed lies in the queue up to the action the stop awaits, or in
the trace. A rejected queue takes nothing, so the trace stays empty and no stop saves a part of it. The queue itself (`QueueInv`) needs no such condition: the callback that runs is its
first, whoever it belongs to. The theorem is of `RecSpec`, which goes on after a mix; the run stops there.

`RunnerParts` and `RunnerTyping` (`RunnerTypeOK`) do for `Runner` what their namesakes do for `SkillRuns`.

**ReceiptBatch** (`ReceiptBatchProofs`), assuming `RunsAssumption` and `SettingsAssumption`:

* `Typing`, `StoredHolds` (`StoredFits`), `AnchorsHold` (`AnchorsAgree`), from `Invariant`.
* `ProofsStay` (`ProofStays`), from `Prompt`: without it a boot may release the claims of a batcher that is
  still at work.

A tree, an archive or a batcher's copy of either is stale by nature; what helps is that a receipt changes
only if its run has a second tail. `Faithful(t)`: a tree holds the hash of each run that had one tail, where it
holds any. `Within(t, b)`: an archive's leaves are those of the stored root. `RunOK` ties proof, leaf and signature of
a run to its batch, `BatchersApart` keeps two batchers off one batch. For the anchors, `SignedOK(b)` says that a batch which shows its anchor
owes it to its proven runs, unless a pass is just writing them, and that its batcher knows (`Owed`, `Shown`).
`HeldOK`, for `ProofsStay`: the runs a batcher is about to prove are in its batch and not proven.

**Watch** (`WatchProofs`), assuming `ReadingsAssumption` and `SettingsAssumption`, with writes that race:

* `Typing`, `ActsFromBaseline` (`ActNeedsBaseline`), `ToldOnce` (`BrokenToldOnce`), from `Invariant`.
* `Implements`: `Spec => ImplementsContract`.

The theorem goes up to the first racing write, as the contract does. `EvaluateSays` and its companions state once what a decision is, by the arms of `evaluateWatch`; everything else
cites them. The refinement takes each action to a step of the contract: a check that reads to an observation, one that persists
to a judgement or to passing it over, `Mute` and the change of a rule to the owner's part. Its mapping reads the value kept
aside in a mute, so each step has the cases muted, lifting and loud; a lifting one that failed is a `MistakeForChange`.

**RunIntake** (`RunIntakeProofs`), assuming `BoundsAssumption` and `ActorsAssumption`:

* `Typing`, `StartsOnce` (`StartedOnce`), `QuotaHeld` (`QuotaKept`), `TotalsHold` (`TotalIsChildren`), from
  `Invariant`.

`KeyOK`: a reservation has at most one request that may still start its run, and a key that is free has none and no
run. `FireOK`: a pass holds a time that its schedule's next time has left behind, and no two passes
hold one time. `BulkOK`: what a bulk run has counted is what it has queued. `QuotaOK`: beside the rows there is room for every
pass that has read the count and not yet inserted, which is where `Cardinality(Ticker)` comes from.

*Only model-checked.* All liveness (`EveryRunSettles`, `SettledRunIsAnnounced`,
`LandedIsRecorded`, `PendingResolves`, `BatchAnchored`, `ReceiptBatched`, `RunsEnd`, `NothingLeaks`),
which needs `ENABLED`. The inductive invariants were checked with TLC before they were proved, on the
instances of the runs.

## Not modelled

`PROJECT.json` gives the reason for each component. In short: the registry and zk anchors of single runs, webhook
delivery, the QuickBooks connection and its tokens, the demo invoice's routes and the override log are planned;
authentication, single-row records, cryptography, the browser, the language models, rendering and external clients
have no multi-step state of their own that a model would add to. Two thirds of the repository's lines are pages,
components, routes that validate one request and make one call, prompts, migrations and clients. Of `runner.ts`, healing, vision
and fallbacks choose only how a step ends, which `PlanRun` leaves open;
of `payout.ts`, building the instructions is data; of `recorder.ts`, what a capture reads.

## Plan

1. Done: the modules above and their proofs.
2. `AnchorSingles`: the registry and zk anchors of single runs and their reconcilers; webhook delivery, whose
   retries are bounded and not durable.
3. `QboConnection`: the refresh of tokens by concurrent calls; an abstract
   `InvoiceContract` (one bill per invoice) that `QboWrite` and `InvoiceEntry` implement; the
   demo invoice's routes and the override log as further writers of a stream.
4. Composition: `RunIntake` with `RunQueue`, and `RunQueue`'s earnings as the input of `Claims`.
5. Proofs: the parts of `DoneOnce` for a run whose job still has attempts left, under failed database calls; that
   `RunIntake` hands `RunQueue` runs in its initial state.
