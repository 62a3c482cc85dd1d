------------------------------ MODULE RunQueue ------------------------------
(***************************************************************************)
(* The life of a run: lib/run-service.ts creates it and queues a job,      *)
(* lib/worker.ts claims the job (lib/jobs.ts), lib/runner.ts drives the    *)
(* browser and settles the status, and finalizeRunAccounting credits the   *)
(* skill's owner, latches the bookkeeping and dispatches the webhook.  A   *)
(* run that the browser extension executes has no job: the extension       *)
(* reports its outcome to lib/ext-run.ts, which shares the accounting.     *)
(*                                                                         *)
(* Every await of the code on a database write that another execution can  *)
(* observe is a step of its own.  An execution (one call of processJob or  *)
(* of the finish route) is a process with a program counter; a crash of    *)
(* its host loses all its executions and no database row.                  *)
(***************************************************************************)
EXTENDS Integers, Sequences, FiniteSets

CONSTANTS
    CloudRun,      \* runs started by startRun: a job, the worker, Playwright
    ExtensionRun,  \* runs the browser extension executes: no job
    NoRun,         \* the run of an idle execution
    Skill, Wallet,
    SkillOf,       \* run -> skill
    RunnerOf,      \* run -> wallet of the person running it
    OwnerOf,       \* skill -> wallet of its creator
    Exec,          \* slots for concurrent executions
    Proc, Host,    \* server processes, and the process of each execution
    RunSlots,      \* AEMULUS_MAX_CONCURRENT_RUNS: browsers per process
    MaxAttempts,   \* MAX_ATTEMPTS of the worker
    MaxPauses,     \* human pauses one execution may reach
    Punctual,      \* TRUE: STALE_MS exceeds the unpaused part of an execution
    PauseBudget,   \* the full human pauses that STALE_MS also allows for
    Removable,     \* skills that may vanish from the table
    MaxClaims,     \* bound of the model on claims of one job
    MaxCrashes,    \* bound of the model on process crashes
    MaxFaults      \* bound of the model on failed database calls

Run == CloudRun \cup ExtensionRun

ASSUME RunsAssumption ==
    /\ CloudRun \cap ExtensionRun = {} /\ NoRun \notin Run
    /\ SkillOf \in [Run -> Skill]
    /\ RunnerOf \in [Run -> Wallet]
    /\ OwnerOf \in [Skill -> Wallet]
    /\ Removable \subseteq Skill
ASSUME HostsAssumption == Host \in [Exec -> Proc]
ASSUME BoundsAssumption ==
    /\ RunSlots \in Nat \ {0} /\ MaxAttempts \in Nat \ {0}
    /\ MaxPauses \in Nat /\ MaxClaims \in Nat
    /\ MaxCrashes \in Nat /\ MaxFaults \in Nat
    /\ Punctual \in BOOLEAN /\ PauseBudget \in Nat

VARIABLES
    status,      \* runs.status
    bookkept,    \* runs.bookkept, the bookkeeping latch
    job,         \* the row of each run's job
    request,     \* the HTTP request that starts each run
    exec,        \* the executions
    earnings,    \* the runs whose completion wrote an earnings row
    runCount,    \* skills.run_count
    events,      \* terminal statuses handed to dispatchRunEvent, in order
    removed,     \* skills no longer in the table
    crashes, faults

vars == <<status, bookkept, job, request, exec, earnings, runCount, events,
          removed, crashes, faults>>

Terminal == {"completed", "failed", "needs_review"}
RunStatus == {"none", "running", "awaiting_input"} \cup Terminal
JobStatus == {"none", "queued", "running", "done", "failed", "pruned"}
Request == {"idle", "enqueueing", "rejected", "answered", "lost"}

PC == {"idle", "claimed", "noSkill", "removed", "loaded", "waiting", "browser", "paused",
       "finish", "credit", "count", "latch", "announce", "complete",
       "failing", "failWrite", "giveUp", "notify"}

\* An execution at pc of run r, under the claim stamped at.
Started(pc, r, at, final) ==
    [pc |-> pc, run |-> r, lockedAt |-> at, final |-> final,
     attempts |-> 0, pauses |-> 0]
Idle == Started("idle", NoRun, 0, "none")

ExecState == [pc : PC, run : Run \cup {NoRun}, lockedAt : Nat,
              final : RunStatus, attempts : Nat, pauses : Nat]
JobRow == [status : JobStatus, attempts : Nat, lockedAt : Nat]

ExecTypeOK ==
    /\ exec \in [Exec -> ExecState]
    /\ \A e \in Exec : exec[e].pc # "idle" => exec[e].run \in Run

RowsTypeOK ==
    /\ status \in [Run -> RunStatus]
    /\ bookkept \in [Run -> BOOLEAN]
    /\ job \in [Run -> JobRow]
    /\ request \in [Run -> Request]
    /\ earnings \subseteq Run
    /\ runCount \in [Skill -> Nat]
    /\ events \in [Run -> Seq(RunStatus)]
    /\ removed \subseteq Skill
    /\ crashes \in Nat /\ faults \in Nat

TypeOK == RowsTypeOK /\ ExecTypeOK

Init ==
    /\ status = [r \in Run |-> "none"]
    /\ bookkept = [r \in Run |-> FALSE]
    /\ job = [r \in Run |-> [status |-> "none", attempts |-> 0, lockedAt |-> 0]]
    /\ request = [r \in Run |-> "idle"]
    /\ exec = [e \in Exec |-> Idle]
    /\ earnings = {}
    /\ runCount = [s \in Skill |-> 0]
    /\ events = [r \in Run |-> <<>>]
    /\ removed = {}
    /\ crashes = 0 /\ faults = 0

-----------------------------------------------------------------------------
(* Shared readings of the state.                                           *)

Live(r) == {e \in Exec : exec[e].run = r}      \* the executions of run r
IsTerminal(r) == status[r] \in Terminal
External(r) == OwnerOf[SkillOf[r]] # RunnerOf[r]
ViaJob(e) == exec[e].run \in CloudRun

\* Mutated forms: the last writer wins.
FinishAnyway(r, st) == status' = [status EXCEPT ![r] = st]
SetRunStatusAnyway(r, st) == status' = [status EXCEPT ![r] = st]

\* finishRun: the UPDATE that never leaves a terminal status.
Finish(r, st) ==
    status' = [status EXCEPT ![r] = IF @ \in Terminal THEN @ ELSE st]

\* setRunStatus, with the same guard.
SetRunStatus(r, st) ==
    status' = [status EXCEPT ![r] = IF @ \in Terminal THEN @ ELSE st]

Goto(e, pc) == exec' = [exec EXCEPT ![e].pc = pc]

Leave(e) == exec' = [exec EXCEPT ![e] = Idle]

\* What follows the accounting: completeJob, or the finish route's reply.
AfterAccounting(e) == IF ViaJob(e) THEN Goto(e, "complete") ELSE Leave(e)

\* Mutated form: no fence.
HoldsAnyClaim(e) == job[exec[e].run].status # "pruned"

\* The fence of completeJob and failJob: the row still exists and its latest
\* claim is the one of e.
HoldsClaim(e) == /\ job[exec[e].run].status # "pruned"
                 /\ job[exec[e].run].lockedAt = exec[e].lockedAt

BrowsersOf(p) ==
    {e \in Exec : Host[e] = p /\ exec[e].pc \in {"browser", "paused"}}
FreeSlots(p) == RunSlots - Cardinality(BrowsersOf(p))

-----------------------------------------------------------------------------
(* Starting a run.                                                         *)

\* createRun inside startRun: the row is "running" before any job exists.
CreateRun(r) ==
    /\ status[r] = "none"      \* a fresh id
    /\ status' = [status EXCEPT ![r] = "running"]
    /\ request' = [request EXCEPT ![r] =
                      IF r \in CloudRun THEN "enqueueing" ELSE "answered"]
    /\ UNCHANGED <<bookkept, job, exec, earnings, runCount, events, removed,
                   crashes, faults>>

EnqueueRunJob(r) ==
    /\ request[r] = "enqueueing"
    /\ job' = [job EXCEPT ![r].status = "queued"]
    /\ request' = [request EXCEPT ![r] = "answered"]
    /\ UNCHANGED <<status, bookkept, exec, earnings, runCount, events, removed,
                   crashes, faults>>

EnqueueFails(r) ==
    /\ request[r] = "enqueueing"
    /\ faults < MaxFaults
    /\ faults' = faults + 1
    /\ request' = [request EXCEPT ![r] = "rejected"]
    /\ UNCHANGED <<status, bookkept, job, exec, earnings, runCount, events,
                   removed, crashes>>

\* The catch of startRun fails the run; an error of that call is swallowed.
FailUnqueuedRun(r) ==
    /\ request[r] = "rejected"
    /\ \/ Finish(r, "failed") /\ UNCHANGED faults
       \/ faults < MaxFaults /\ faults' = faults + 1 /\ UNCHANGED status
    /\ request' = [request EXCEPT ![r] = "answered"]
    /\ UNCHANGED <<bookkept, job, exec, earnings, runCount, events, removed,
                   crashes>>

-----------------------------------------------------------------------------
(* The worker's tick.                                                      *)

\* claimNextJob, while the tick sees a free browser slot.
ClaimNextJob(e, r) ==
    /\ exec[e].pc = "idle"
    /\ FreeSlots(Host[e]) > 0
    /\ job[r].status = "queued"
    /\ job[r].attempts < MaxClaims
    /\ job' = [job EXCEPT ![r] = [status |-> "running",
                                  attempts |-> @.attempts + 1,
                                  lockedAt |-> @.lockedAt + 1]]
    /\ exec' = [exec EXCEPT ![e] =
                  Started("claimed", r, job[r].lockedAt + 1, "none")]
    /\ UNCHANGED <<status, bookkept, request, earnings, runCount, events,
                   removed, crashes, faults>>

\* Is the claim older than STALE_MS?  It may be so at any time; when the
\* constant is large enough, only once every execution of the run is gone, in
\* a pause, or has had more pauses than the constant allows for.
MayBeStale(r) ==
    Punctual => \A e \in Live(r) : \/ exec[e].pc = "paused"
                                   \/ exec[e].pauses > PauseBudget

\* Mutated forms: the pause is not excluded; recovery stops at the last attempt.
RecoverablePaused(r) == job[r].status = "running" /\ MayBeStale(r)
RecoverableCapped(r) == /\ job[r].status = "running" /\ MayBeStale(r)
                        /\ status[r] # "awaiting_input"
                        /\ job[r].attempts < MaxAttempts

\* The WHERE clause of recoverStuckJobs: a run paused for a human is left alone.
Recoverable(r) == /\ job[r].status = "running" /\ MayBeStale(r)
                  /\ status[r] # "awaiting_input"

\* recoverStuckJobs, each tick and at boot: locked_at and attempts stay.
RecoverStuckJob(r) ==
    /\ Recoverable(r)
    /\ job' = [job EXCEPT ![r].status = "queued"]
    /\ UNCHANGED <<status, bookkept, request, exec, earnings, runCount, events,
                   removed, crashes, faults>>

\* pruneTerminalJobs, seven days later.
PruneJob(r) ==
    /\ job[r].status \in {"done", "failed"}
    /\ Punctual => Live(r) = {}
    /\ job' = [job EXCEPT ![r].status = "pruned"]
    /\ UNCHANGED <<status, bookkept, request, exec, earnings, runCount, events,
                   removed, crashes, faults>>

-----------------------------------------------------------------------------
(* processJob and completeRun.                                             *)

\* getSkill.
LoadSkill(e) ==
    /\ exec[e].pc = "claimed"
    /\ Goto(e, IF SkillOf[exec[e].run] \in removed THEN "noSkill" ELSE "loaded")
    /\ UNCHANGED <<status, bookkept, job, request, earnings, runCount, events,
                   removed, crashes, faults>>

\* A missing skill fails the run before anything else.
FinishSkillRemoved(e) ==
    /\ exec[e].pc = "noSkill"
    /\ Finish(exec[e].run, "failed")
    /\ Goto(e, "removed")
    /\ UNCHANGED <<bookkept, job, request, earnings, runCount, events, removed,
                   crashes, faults>>

\* failJob with no attempts allowed and no fence.
FailJobSkillRemoved(e) ==
    LET r == exec[e].run IN
    /\ exec[e].pc = "removed"
    /\ job' = [job EXCEPT ![r].status =
                  IF @ = "pruned" THEN @ ELSE "failed"]
    /\ Leave(e)
    /\ UNCHANGED <<status, bookkept, request, earnings, runCount, events,
                   removed, crashes, faults>>

\* Mutated forms: a settled run counts as done; its event is sent again; its
\* accounting resumes after the credit.
AfterLoadUnbooked(r) == IF IsTerminal(r) THEN "complete" ELSE "waiting"
AfterLoadAnnounce(r) == IF IsTerminal(r) THEN "announce" ELSE "waiting"
AfterLoadUncredited(r) ==
    IF ~IsTerminal(r) THEN "waiting"
    ELSE IF bookkept[r] THEN "complete" ELSE "latch"

\* completeRun's guard: a settled run is not executed again, and one that is
\* not bookkept is still accounted for.
AfterLoad(r) == IF ~IsTerminal(r) THEN "waiting"
                ELSE IF bookkept[r] THEN "complete" ELSE "credit"

LoadRun(e) ==
    LET r == exec[e].run IN
    /\ exec[e].pc = "loaded"
    /\ exec' = [exec EXCEPT ![e].pc = AfterLoad(r),
                            ![e].final = IF IsTerminal(r) THEN status[r] ELSE @]
    /\ UNCHANGED <<status, bookkept, job, request, earnings, runCount, events,
                   removed, crashes, faults>>

-----------------------------------------------------------------------------
(* executeRun.                                                             *)

\* runSlots.acquire: the claim was sized by the free slots, but executions
\* claimed earlier may still be waiting for theirs.
AcquireSlot(e) ==
    /\ exec[e].pc = "waiting"
    /\ FreeSlots(Host[e]) > 0
    /\ Goto(e, "browser")
    /\ UNCHANGED <<status, bookkept, job, request, earnings, runCount, events,
                   removed, crashes, faults>>

\* A captcha or an interactive checkpoint: the slot is kept for the pause.
Pause(e) ==
    /\ exec[e].pc = "browser"
    /\ exec[e].pauses < MaxPauses
    /\ SetRunStatus(exec[e].run, "awaiting_input")
    /\ exec' = [exec EXCEPT ![e].pc = "paused", ![e].pauses = @ + 1]
    /\ UNCHANGED <<bookkept, job, request, earnings, runCount, events, removed,
                   crashes, faults>>

\* The human continues the run.
Resume(e) ==
    /\ exec[e].pc = "paused"
    /\ SetRunStatus(exec[e].run, "running")
    /\ Goto(e, "browser")
    /\ UNCHANGED <<bookkept, job, request, earnings, runCount, events, removed,
                   crashes, faults>>

\* Nobody came: the run parks for review, its status still awaiting_input.
PauseTimeout(e) ==
    /\ exec[e].pc = "paused"
    /\ exec' = [exec EXCEPT ![e].pc = "finish", ![e].final = "needs_review"]
    /\ UNCHANGED <<status, bookkept, job, request, earnings, runCount, events,
                   removed, crashes, faults>>

\* The plan ends, or a step ends it; the slot is released.
EndPlan(e, outcome) ==
    /\ exec[e].pc = "browser"
    /\ exec' = [exec EXCEPT ![e].pc = "finish", ![e].final = outcome]
    /\ UNCHANGED <<status, bookkept, job, request, earnings, runCount, events,
                   removed, crashes, faults>>

\* An infrastructure throw out of the browser block (launch, page, proxy).
InfraFailure(e) ==
    /\ exec[e].pc = "browser"
    /\ Goto(e, "failing")
    /\ UNCHANGED <<status, bookkept, job, request, earnings, runCount, events,
                   removed, crashes, faults>>

\* The finish route: the extension reports the outcome of a run it started;
\* a run already settled is answered without any further work.
ExtensionReports(e, r, outcome) ==
    /\ exec[e].pc = "idle"
    /\ r \in ExtensionRun /\ status[r] = "running"
    /\ SkillOf[r] \notin removed
    /\ exec' = [exec EXCEPT ![e] = Started("finish", r, 0, outcome)]
    /\ UNCHANGED <<status, bookkept, job, request, earnings, runCount, events,
                   removed, crashes, faults>>

\* finishRun, then getRun after the best-effort receipt: the accounting goes
\* by the status the row ended up with.
FinishRun(e) ==
    LET r == exec[e].run IN
    /\ exec[e].pc = "finish"
    /\ Finish(r, exec[e].final)
    /\ exec' = [exec EXCEPT ![e].pc = "credit", ![e].final = status'[r]]
    /\ UNCHANGED <<bookkept, job, request, earnings, runCount, events, removed,
                   crashes, faults>>

-----------------------------------------------------------------------------
(* finalizeRunAccounting.                                                  *)

SamePair(r1, r2) == SkillOf[r1] = SkillOf[r2] /\ RunnerOf[r1] = RunnerOf[r2]

\* Mutated form: one credit per run instead of one per pair.
RunNotYetCredited(r) == r \notin earnings

\* The WHERE NOT EXISTS of creditEarningOnce.
NotYetCredited(r) == \A c \in earnings : ~SamePair(c, r)

Qualifies(e) == exec[e].final = "completed" /\ External(exec[e].run)

\* Mutated form: every qualifying completion is counted.
AfterCreditAlways(e, wrote) == IF Qualifies(e) THEN "count" ELSE "latch"

\* The count is tied to the credit this very call wrote.
AfterCredit(e, wrote) == IF wrote THEN "count" ELSE "latch"

CreditEarningOnce(e) ==
    LET wrote == Qualifies(e) /\ NotYetCredited(exec[e].run) IN
    /\ exec[e].pc = "credit"
    /\ earnings' = earnings \cup (IF wrote THEN {exec[e].run} ELSE {})
    /\ Goto(e, AfterCredit(e, wrote))
    /\ UNCHANGED <<status, bookkept, job, request, runCount, events, removed,
                   crashes, faults>>

IncrementRunCount(e) ==
    /\ exec[e].pc = "count"
    /\ runCount' = [runCount EXCEPT ![SkillOf[exec[e].run]] = @ + 1]
    /\ Goto(e, "latch")
    /\ UNCHANGED <<status, bookkept, job, request, earnings, events, removed,
                   crashes, faults>>

\* claimRunBookkeeping: one caller sees the flag change.
ClaimRunBookkeeping(e) ==
    LET r == exec[e].run IN
    /\ exec[e].pc = "latch"
    /\ bookkept' = [bookkept EXCEPT ![r] = TRUE]
    /\ IF bookkept[r] THEN AfterAccounting(e) ELSE Goto(e, "announce")
    /\ UNCHANGED <<status, job, request, earnings, runCount, events, removed,
                   crashes, faults>>

\* dispatchRunEvent for the final status; its delivery is not awaited.
Announce(e) ==
    LET r == exec[e].run IN
    /\ exec[e].pc = "announce"
    /\ events' = [events EXCEPT ![r] = Append(@, exec[e].final)]
    /\ AfterAccounting(e)
    /\ UNCHANGED <<status, bookkept, job, request, earnings, runCount, removed,
                   crashes, faults>>

\* completeJob, fenced on the claim.
CompleteJob(e) ==
    LET r == exec[e].run IN
    /\ exec[e].pc = "complete"
    /\ job' = IF HoldsClaim(e) THEN [job EXCEPT ![r].status = "done"] ELSE job
    /\ Leave(e)
    /\ UNCHANGED <<status, bookkept, request, earnings, runCount, events,
                   removed, crashes, faults>>

-----------------------------------------------------------------------------
(* The catch of processJob: failJob reads the attempts, then writes.       *)

FailJobRead(e) ==
    LET j == job[exec[e].run] IN
    /\ exec[e].pc = "failing"
    /\ exec' = [exec EXCEPT ![e].pc = "failWrite",
                  ![e].attempts = IF j.status = "pruned" THEN 0 ELSE j.attempts]
    /\ UNCHANGED <<status, bookkept, job, request, earnings, runCount, events,
                   removed, crashes, faults>>

\* Requeue while attempts remain; a claim that was superseded changes nothing.
FailJobRequeue(e) ==
    LET r == exec[e].run IN
    /\ exec[e].pc = "failWrite"
    /\ exec[e].attempts < MaxAttempts
    /\ job' = IF HoldsClaim(e) THEN [job EXCEPT ![r].status = "queued"] ELSE job
    /\ Leave(e)
    /\ UNCHANGED <<status, bookkept, request, earnings, runCount, events,
                   removed, crashes, faults>>

\* Out of attempts; superseded counts as retried, so the run is left alone.
FailJobForGood(e) ==
    LET r == exec[e].run IN
    /\ exec[e].pc = "failWrite"
    /\ exec[e].attempts >= MaxAttempts
    /\ IF HoldsClaim(e)
       THEN /\ job' = [job EXCEPT ![r].status = "failed"]
            /\ Goto(e, "giveUp")
       ELSE UNCHANGED job /\ Leave(e)
    /\ UNCHANGED <<status, bookkept, request, earnings, runCount, events,
                   removed, crashes, faults>>

\* Mutated form: the run is failed without a word.
GiveUpSilently(e) ==
    /\ exec[e].pc = "giveUp"
    /\ Finish(exec[e].run, "failed")
    /\ Leave(e)
    /\ UNCHANGED <<bookkept, job, request, earnings, runCount, events, removed,
                   crashes, faults>>

GiveUp(e) ==
    /\ exec[e].pc = "giveUp"
    /\ Finish(exec[e].run, "failed")
    /\ Goto(e, "notify")
    /\ UNCHANGED <<bookkept, job, request, earnings, runCount, events, removed,
                   crashes, faults>>

\* dispatchRunEvent(run.failed), whatever the run's status is.
NotifyFailed(e) ==
    LET r == exec[e].run IN
    /\ exec[e].pc = "notify"
    /\ events' = [events EXCEPT ![r] = Append(@, "failed")]
    /\ Leave(e)
    /\ UNCHANGED <<status, bookkept, job, request, earnings, runCount, removed,
                   crashes, faults>>

-----------------------------------------------------------------------------
(* What goes wrong: a failed database call, a crash, a vanished skill.     *)

\* The call of the current step throws.  Inside completeRun the worker's
\* catch takes over, and the finish route answers 500, but an interactive
\* checkpoint's error is a failed step; getSkill and failJob are outside the
\* try, so the execution just ends; finishRun's error is swallowed after the
\* last attempt.
DbFault(e) ==
    /\ faults < MaxFaults
    /\ faults' = faults + 1
    /\ \/ /\ exec[e].pc \in {"loaded", "paused", "finish", "credit", "count",
                             "latch", "complete"}
          /\ IF ViaJob(e) THEN Goto(e, "failing") ELSE Leave(e)
       \/ /\ exec[e].pc = "paused"     \* inside the step's own try
          /\ exec' = [exec EXCEPT ![e].pc = "finish", ![e].final = "failed"]
       \/ /\ exec[e].pc \in {"claimed", "removed", "failing", "failWrite"}
          /\ Leave(e)
       \/ exec[e].pc = "giveUp" /\ Goto(e, "notify")
       \/ exec[e].pc = "noSkill" /\ Goto(e, "removed")
    /\ UNCHANGED <<status, bookkept, job, request, earnings, runCount, events,
                   removed, crashes>>

\* A process dies: its executions, and the requests it was serving, are gone.
Crash(p) ==
    /\ crashes < MaxCrashes
    /\ crashes' = crashes + 1
    /\ exec' = [e \in Exec |-> IF Host[e] = p THEN Idle ELSE exec[e]]
    /\ \E gone \in SUBSET {r \in Run : request[r] \in {"enqueueing", "rejected"}} :
          request' = [r \in Run |-> IF r \in gone THEN "lost" ELSE request[r]]
    /\ UNCHANGED <<status, bookkept, job, earnings, runCount, events, removed,
                   faults>>

\* Outside the program: nothing in the repository deletes a skill's row.
RemoveSkill(s) ==
    /\ s \in Removable \ removed
    /\ removed' = removed \cup {s}
    /\ UNCHANGED <<status, bookkept, job, request, exec, earnings, runCount,
                   events, crashes, faults>>

-----------------------------------------------------------------------------
\* The steps of an execution that nobody else has to trigger.
Work(e) ==
    \/ LoadSkill(e) \/ FinishSkillRemoved(e) \/ FailJobSkillRemoved(e)
    \/ LoadRun(e) \/ AcquireSlot(e)
    \/ PauseTimeout(e)
    \/ \E outcome \in Terminal : EndPlan(e, outcome)
    \/ FinishRun(e) \/ CreditEarningOnce(e) \/ IncrementRunCount(e)
    \/ ClaimRunBookkeeping(e) \/ Announce(e) \/ CompleteJob(e)
    \/ FailJobRead(e) \/ FailJobRequeue(e) \/ FailJobForGood(e)
    \/ GiveUp(e) \/ NotifyFailed(e)

Next ==
    \/ \E r \in Run : CreateRun(r)
    \/ \E r \in CloudRun : EnqueueRunJob(r) \/ EnqueueFails(r)
                           \/ FailUnqueuedRun(r) \/ RecoverStuckJob(r)
                           \/ PruneJob(r)
    \/ \E e \in Exec, r \in CloudRun : ClaimNextJob(e, r)
    \/ \E e \in Exec : Work(e) \/ Pause(e) \/ Resume(e) \/ InfraFailure(e)
                       \/ DbFault(e)
    \/ \E e \in Exec, r \in ExtensionRun, outcome \in Terminal :
          ExtensionReports(e, r, outcome)
    \/ \E p \in Proc : Crash(p)
    \/ \E s \in Skill : RemoveSkill(s)

Spec == Init /\ [][Next]_vars

\* The request handler, the executions and the worker's tick keep going;
\* people (who start, resume and report runs), failures and crashes need not.
Fairness ==
    /\ \A r \in CloudRun : WF_vars(EnqueueRunJob(r)) /\ WF_vars(FailUnqueuedRun(r))
    /\ \A r \in CloudRun : WF_vars(RecoverStuckJob(r))
    /\ WF_vars(\E e \in Exec, r \in CloudRun : ClaimNextJob(e, r))
    /\ \A e \in Exec : WF_vars(Work(e))

FairSpec == Spec /\ Fairness

-----------------------------------------------------------------------------
(* What a run promises, whatever the machinery above does: see RunContract. *)

Contract == INSTANCE RunContract WITH
    outcome <- [r \in Run |-> IF status[r] = "awaiting_input" THEN "running"
                             ELSE status[r]],
    credited <- earnings,
    booked <- {r \in Run : bookkept[r]}

\* The queue, its retries, recoveries and double executions implement the
\* contract: each run settles once, is credited by what it settled to, once
\* per pair, and is booked once, after its credit.
ImplementsContract == Contract!Spec

-----------------------------------------------------------------------------
(* Properties.                                                             *)

CreditsOf(s) == {r \in earnings : SkillOf[r] = s}
CreditedPair(r) == \E c \in earnings : SamePair(c, r)

\* A settled run is never reopened and never changes its outcome, whichever of
\* its executions, requests or late retries writes last (finishRun and
\* setRunStatus refuse to leave a terminal status).
TerminalIsFinal ==
    [][\A r \in Run : IsTerminal(r) => status'[r] = status[r]]_vars

\* A job is only ever marked done once its run is settled and its bookkeeping
\* latched, through any crash, requeue and double execution: "done" is what
\* stops every later attempt to credit the creator and send the webhook.
DoneMeansSettled ==
    \A r \in CloudRun : job[r].status = "done" => IsTerminal(r) /\ bookkept[r]

\* Once the latch of a completed run is taken, its creator has been credited
\* for the pair (skill, runner): the credit comes before the latch, so no
\* failed call between the two can lose it (run-service.ts).
BookedMeansCredited ==
    \A r \in Run : bookkept[r] /\ status[r] = "completed" /\ External(r)
                      => CreditedPair(r)

\* A creator is credited at most once for a (skill, runner), however many runs
\* of the pair complete at the same time.
OneCreditPerPair ==
    \A r1, r2 \in earnings : SamePair(r1, r2) => r1 = r2

\* Only a run whose stored status is completed, by someone other than the
\* owner, earns a credit: an execution whose outcome lost the race to settle
\* the run accounts for the outcome that won.
CreditedMeansCompleted ==
    \A r \in earnings : status[r] = "completed" /\ External(r)

\* What the rows say of a run's accounting, together.
AccountingExact ==
    /\ DoneMeansSettled /\ BookedMeansCredited
    /\ OneCreditPerPair /\ CreditedMeansCompleted

\* The marketplace count never runs ahead of the credits it is tied to.
CountNeverAhead ==
    \A s \in Skill :
        runCount[s] + Cardinality({e \in Exec : exec[e].pc = "count"
                                                /\ SkillOf[exec[e].run] = s})
            <= Cardinality(CreditsOf(s))

\* An execution whose claim was superseded cannot touch the job any more
\* (the fence on locked_at); the pre-execution failure of a removed skill is
\* the one write the code leaves unfenced.
StaleExecutionHarmless ==
    [][\A e \in Exec :
          LET r == exec[e].run IN
          /\ exec[e].pc \notin {"idle", "removed"} /\ exec'[e] # exec[e]
          /\ r \in CloudRun /\ job[r].lockedAt # exec[e].lockedAt
          => job'[r] = job[r]]_vars

\* While STALE_MS covers the life of an execution, no run is driven by two
\* browsers at once, its human pauses included ("requeuing it would drive the
\* SAME browser automation a second time", jobs.ts).
NoDoubleExecution ==
    \A r \in Run :
        Cardinality({e \in Live(r) : exec[e].pc \in {"browser", "paused"}}) <= 1

\* A run's terminal webhook goes out once at most, and says what the run's
\* row says (claimRunBookkeeping: "exactly ONE caller").
TerminalEventOnce ==
    \A r \in Run : events[r] # <<>> => events[r] = <<status[r]>>

\* A completed run whose job is over and which no execution is working on has
\* been credited: no retry is left that could still do it.
CompletedRunIsCredited ==
    \A r \in Run : status[r] = "completed" /\ External(r) /\ Live(r) = {}
                      /\ job[r].status \notin {"queued", "running"}
                         => CreditedPair(r)

\* What a crash must not undo, together: a run is driven, announced and credited
\* once, and not less.
DoneOnce == NoDoubleExecution /\ TerminalEventOnce /\ CompletedRunIsCredited

\* What an execution knows while it does the accounting: the outcome it
\* accounts for is the stored one, and the steps before its own were taken.
AccountingOK(e) ==
    LET r == exec[e].run IN
    /\ exec[e].pc \in {"credit", "count", "latch", "announce"} =>
          IsTerminal(r) /\ exec[e].final = status[r]
    /\ exec[e].pc = "count" => r \in earnings
    /\ exec[e].pc \in {"latch", "announce"} /\ Qualifies(e) => CreditedPair(r)
    /\ exec[e].pc \in {"announce", "complete"} => IsTerminal(r) /\ bookkept[r]

\* An execution about to settle its run knows the outcome.
OutcomeKnown == \A e \in Exec : exec[e].pc = "finish" => exec[e].final \in Terminal

\* Whoever works on a run, queues it or serves its request has created it.
CreatedOK ==
    /\ \A e \in Exec : exec[e].pc # "idle" => status[exec[e].run] # "none"
    /\ \A r \in Run : job[r].status # "none" => status[r] # "none"
    /\ \A r \in Run : request[r] \in {"enqueueing", "rejected"}
                          => status[r] # "none"

\* The inductive invariant: the safety properties above that only follow
\* together, and what they rest on.
RowsInv ==
    /\ \A r \in Run : bookkept[r] => IsTerminal(r)
    /\ DoneMeansSettled
    /\ BookedMeansCredited
    /\ OneCreditPerPair
    /\ CreditedMeansCompleted

IInv == TypeOK /\ OutcomeKnown /\ CreatedOK /\ RowsInv /\ \A e \in Exec : AccountingOK(e)

\* The ways in which this code leaves a run unsettled: the process died between
\* the row and its job, the call that settles a failed job's run was lost, or the
\* process died during a human pause.
Stranded(r) ==
    \/ request[r] = "lost"
    \/ request[r] = "answered" /\ job[r].status \in {"none", "failed", "pruned"}
    \/ status[r] = "awaiting_input" /\ job[r].status = "running" /\ Live(r) = {}

\* Every run that was started settles, unless it is stranded in one of those
\* ways: nothing else that can crash or fail keeps it from a terminal status.
EveryRunSettles ==
    \A r \in CloudRun : status[r] = "running" ~> IsTerminal(r) \/ Stranded(r)

\* A run settled by an execution is announced, as long as nothing crashes and
\* no call fails; contention for slots and pauses only delay it.
SettledRunIsAnnounced ==
    \A r \in CloudRun : IsTerminal(r) ~> events[r] # <<>> \/ crashes + faults > 0

=============================================================================
