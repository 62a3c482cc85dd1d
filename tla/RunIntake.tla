------------------------------ MODULE RunIntake -----------------------------
(***************************************************************************)
(* How a run comes to be: the requests (app/api/v1/runs, and the routes    *)
(* without a key), the bulk runs (lib/bulk.ts) and the passes of the       *)
(* scheduler (lib/scheduler.ts) of one owner, which all end in startRun    *)
(* (lib/run-service.ts), the daily quota (lib/quota.ts, createRun of       *)
(* lib/runs.ts) and the idempotency keys (lib/idempotency.ts).             *)
(*                                                                         *)
(* The rows of runs are counted, not told apart: what they become after    *)
(* their job is queued is RunQueue's part.  Time is counted in cadences: a *)
(* schedule is due at the integers.  One bucket of the quota is modelled,  *)
(* the two count apart.                                                    *)
(***************************************************************************)
EXTENDS FiniteSets, Naturals

CONSTANTS
    Request, Bulk, Ticker,  \* calls of a route, of createBulkRun, of runDue
    Key, Schedule, None,
    Limit, Rows,            \* runs in 24 hours; rows of a bulk run
    MaxClock, MaxFailures, MaxCount, MaxCalls  \* bounds of the model

ASSUME BoundsAssumption ==
    /\ Limit \in Nat /\ Rows \in Nat \ {0}
    /\ MaxClock \in Nat /\ MaxFailures \in Nat /\ MaxCalls \in Nat
    /\ MaxCount \in Nat /\ MaxCount >= Rows
ASSUME ActorsAssumption ==
    /\ Request \cap Bulk = {} /\ Request \cap Ticker = {} /\ Bulk \cap Ticker = {}
    /\ IsFiniteSet(Ticker)
    /\ None \notin Key \cup Bulk \cup Schedule /\ Key \cap Bulk = {}
    /\ (Key \cup Bulk \cup {None}) \cap (Schedule \X (0..(MaxClock + 1))) = {}

VARIABLES
    recent,   \* how many rows of runs the last 24 hours have, by who inserted them
    jobs,     \* history: the runs queued for each origin, for a key since its pruning
    key,      \* the rows of idempotency_keys
    sched,    \* the rows of schedules
    total,    \* bulk_runs: the total of each bulk run, or None
    proc,     \* the calls in progress
    clock, failures,
    excused   \* history: keys whose answer could not be stored

vars == <<recent, jobs, key, sched, total, proc, clock, failures, excused>>

Proc == Request \cup Bulk \cup Ticker
Time == 0..(MaxClock + 1)

\* Who a run is started for: a key, a bulk run, a schedule and the time of it that
\* fires, or nobody in particular.
Firing == Schedule \X Time
Origin == Key \cup Bulk \cup Firing

NoProc == [pc |-> "idle", key |-> None, sched |-> None, slot |-> 0, now |-> 0,
           todo |-> {}, left |-> 0, started |-> 0]
ProcPC == {"idle", "quota", "reserve", "create", "enqueue", "answer",
           "release", "record", "claim", "owner"}

ProcState == [pc : ProcPC, key : Key \cup {None}, sched : Schedule \cup {None},
              slot : Time, now : 0..MaxClock, todo : SUBSET Schedule,
              left : 0..Rows, started : 0..Rows]

TypeOK ==
    /\ recent \in [{"metered", "scheduled"} -> Nat]
    /\ jobs \in [Origin -> 0..MaxCount]
    /\ key \in [Key -> {"free", "reserved", "done"}]
    /\ sched \in [Schedule -> [active : BOOLEAN, next : Time]]
    /\ total \in [Bulk -> {None} \cup 0..Rows]
    /\ proc \in [Proc -> ProcState]
    /\ \A p \in Proc : proc[p].pc = "idle" => proc[p] = NoProc
    /\ clock \in 0..MaxClock /\ failures \in 0..MaxFailures /\ excused \subseteq Key

Init ==
    /\ recent = [kind \in {"metered", "scheduled"} |-> 0]
    /\ jobs = [o \in Origin |-> 0]
    /\ key = [k \in Key |-> "free"]
    /\ sched = [s \in Schedule |-> [active |-> TRUE, next |-> 0]]
    /\ total = [b \in Bulk |-> None]
    /\ proc = [p \in Proc |-> NoProc]
    /\ clock = 0 /\ failures = 0 /\ excused = {}

-----------------------------------------------------------------------------
Become(p, me) == proc' = [proc EXCEPT ![p] = me]
Goto(p, pc) == proc' = [proc EXCEPT ![p].pc = pc]

\* Bound: how many calls are in progress at once.
Room == Cardinality({p \in Proc : proc[p].pc # "idle"}) < MaxCalls

\* countRecentRuns
Used == recent["metered"] + recent["scheduled"]

\* runDue goes on to the next of the due schedules it listed.
PassOn(me) ==
    IF me.todo = {} THEN NoProc
    ELSE [NoProc EXCEPT !.pc = "claim", !.now = me.now, !.todo = me.todo]

\* createBulkRun goes on to the next row; a bulk run without a child is an error.
RowDone(me, started) ==
    LET left == me.left - 1 IN
    IF left = 0 /\ started = 0 THEN NoProc
    ELSE [me EXCEPT !.pc = IF left = 0 THEN "record" ELSE "create",
                    !.left = left, !.started = started]

\* Where an error thrown by startRun, or before it, is caught.
Thrown(p) ==
    LET me == proc[p] IN
    IF p \in Ticker THEN PassOn(me)
    ELSE IF p \in Bulk THEN RowDone(me, me.started)
    ELSE IF me.key = None THEN NoProc
    ELSE [me EXCEPT !.pc = "release"]

\* Where a started run is answered (the scheduler notes it as its last one).
Answered(p) ==
    LET me == proc[p] IN
    IF p \in Ticker THEN PassOn(me)
    ELSE IF p \in Bulk THEN RowDone(me, me.started + 1)
    ELSE IF me.key = None THEN NoProc
    ELSE [me EXCEPT !.pc = "answer"]

-----------------------------------------------------------------------------
(* The requests.                                                           *)

\* A request with an Idempotency-Key (POST /api/v1/runs) or without one: the
\* other routes, a trigger, a chained run.
Post(q, k) ==
    /\ proc[q].pc = "idle" /\ Room
    /\ Become(q, [NoProc EXCEPT !.pc = "quota", !.key = k])
    /\ UNCHANGED <<recent, jobs, key, sched, total, clock, failures, excused>>

\* getQuota, before the key is looked at
CheckQuota(q) ==
    /\ proc[q].pc = "quota"
    /\ IF Used >= Limit THEN Become(q, NoProc)
       ELSE Goto(q, IF proc[q].key = None THEN "create" ELSE "reserve")
    /\ UNCHANGED <<recent, jobs, key, sched, total, clock, failures, excused>>

\* Mutated form: a reservation without an answer does not count.
TakenUnlessDone(k) == key[k] = "done"

Taken(k) == key[k] # "free"

\* withIdempotency: INSERT; on a conflict the stored answer, or 409 without one.
Reserve(q) ==
    LET k == proc[q].key IN
    /\ proc[q].pc = "reserve"
    /\ IF Taken(k) THEN UNCHANGED key /\ Become(q, NoProc)
       ELSE key' = [key EXCEPT ![k] = "reserved"] /\ Goto(q, "create")
    /\ UNCHANGED <<recent, jobs, sched, total, clock, failures, excused>>

\* UPDATE idempotency_keys: nothing happens when the row was pruned.
Answer(q) ==
    LET k == proc[q].key IN
    /\ proc[q].pc = "answer"
    /\ key' = IF Taken(k) THEN [key EXCEPT ![k] = "done"] ELSE key
    /\ Become(q, NoProc)
    /\ UNCHANGED <<recent, jobs, sched, total, clock, failures, excused>>

Release(q) ==
    LET k == proc[q].key IN
    /\ proc[q].pc = "release"
    /\ key' = [key EXCEPT ![k] = "free"]
    /\ Become(q, NoProc)
    /\ UNCHANGED <<recent, jobs, sched, total, clock, failures, excused>>

\* pruneIdempotencyKeys: 24 hours are longer than a request takes.
Prune(k) ==
    /\ Taken(k) /\ \A q \in Request : proc[q].key # k
    /\ key' = [key EXCEPT ![k] = "free"]
    /\ jobs' = [jobs EXCEPT ![k] = 0] /\ excused' = excused \ {k}
    /\ UNCHANGED <<recent, sched, total, proc, clock, failures>>

-----------------------------------------------------------------------------
(* startRun: the row, then the job.                                        *)

Kind(p) == IF p \in Ticker THEN "scheduled" ELSE "metered"

\* Mutated form: the count that was read before is trusted.
RefusedNever(p) == FALSE

\* The insert of a metered run counts in the same statement.
Refused(p) == Kind(p) = "metered" /\ Used >= Limit

CreateRun(p) ==
    /\ proc[p].pc = "create"
    /\ IF Refused(p) THEN UNCHANGED recent /\ Become(p, Thrown(p))
       ELSE recent' = [recent EXCEPT ![Kind(p)] = @ + 1] /\ Goto(p, "enqueue")
    /\ UNCHANGED <<jobs, key, sched, total, clock, failures, excused>>

OriginOf(p) ==
    IF p \in Ticker THEN <<proc[p].sched, proc[p].slot>>
    ELSE IF p \in Bulk THEN p ELSE proc[p].key

EnqueueRunJob(p) ==
    LET o == OriginOf(p) IN
    /\ proc[p].pc = "enqueue"
    /\ jobs' = IF o \in Origin /\ jobs[o] < MaxCount
               THEN [jobs EXCEPT ![o] = @ + 1] ELSE jobs
    /\ Become(p, Answered(p))
    /\ UNCHANGED <<recent, key, sched, total, clock, failures, excused>>

-----------------------------------------------------------------------------
(* Bulk runs.                                                              *)

\* The route's check: every row has to fit.
StartBulk(b) ==
    /\ proc[b].pc = "idle" /\ Room /\ total[b] = None /\ jobs[b] = 0
    /\ Used + Rows <= Limit
    /\ Become(b, [NoProc EXCEPT !.pc = "create", !.left = Rows])
    /\ UNCHANGED <<recent, jobs, key, sched, total, clock, failures, excused>>

\* Mutated form: the rows that were asked for.
TotalOfRows(b) == Rows

TotalOf(b) == proc[b].started

RecordBulk(b) ==
    /\ proc[b].pc = "record"
    /\ total' = [total EXCEPT ![b] = TotalOf(b)]
    /\ Become(b, NoProc)
    /\ UNCHANGED <<recent, jobs, key, sched, clock, failures, excused>>

-----------------------------------------------------------------------------
(* The scheduler.                                                          *)

Due(s) == sched[s].active /\ sched[s].next <= clock

\* A pass of runDue lists what is due.
Tick(t) ==
    /\ proc[t].pc = "idle" /\ Room /\ \E s \in Schedule : Due(s)
    /\ Become(t, [NoProc EXCEPT !.pc = "claim", !.now = clock,
                                !.todo = {s \in Schedule : Due(s)}])
    /\ UNCHANGED <<recent, jobs, key, sched, total, clock, failures, excused>>

\* Mutated form: a claimed schedule is claimed again.
ClaimableAny(t, s) == sched[s].active

Claimable(t, s) == sched[s].active /\ sched[s].next <= proc[t].now

\* claimSchedule: the next time is the first one after `now`, however many went by.
ClaimSchedule(t) ==
    /\ proc[t].pc = "claim"
    /\ \E s \in proc[t].todo :
          LET me == [proc[t] EXCEPT !.todo = @ \ {s}] IN
          IF Claimable(t, s)
          THEN /\ sched' = [sched EXCEPT ![s].next = proc[t].now + 1]
               /\ Become(t, [me EXCEPT !.pc = "owner", !.sched = s,
                                       !.slot = sched[s].next])
          ELSE UNCHANGED sched /\ Become(t, PassOn(me))
    /\ UNCHANGED <<recent, jobs, key, total, clock, failures, excused>>

\* setScheduleActive: the owner pauses or resumes, and the time it is due stays.
SetScheduleActive(s) ==
    /\ sched' = [sched EXCEPT ![s].active = ~@]
    /\ UNCHANGED <<recent, jobs, key, total, proc, clock, failures, excused>>

Deactivate(s) == sched' = [sched EXCEPT ![s].active = FALSE]

\* Mutated form: a scheduled run is not counted at all.
FullNever == FALSE

Full == Used >= Limit

\* The skill, the balance and the quota are read: the firing is skipped (a balance
\* that could not be read, no quota left), or the schedule is stopped (the skill
\* gone or not runnable, the balance too low), or the run is started, whose insert
\* does not count again.
CheckOwner(t) ==
    /\ proc[t].pc = "owner"
    /\ \/ UNCHANGED sched /\ Become(t, PassOn(proc[t]))
       \/ Deactivate(proc[t].sched) /\ Become(t, PassOn(proc[t]))
       \/ ~Full /\ UNCHANGED sched /\ Goto(t, "create")
    /\ UNCHANGED <<recent, jobs, key, total, clock, failures, excused>>

-----------------------------------------------------------------------------
(* Failures and the environment.                                           *)

Fail == failures < MaxFailures /\ failures' = failures + 1

\* Where a statement that fails leaves its caller (an INSERT of a key that fails
\* is taken for a conflict).  A run that could not be
\* queued is marked failed and stays counted.
Failed(p) ==
    LET me == proc[p] IN
    IF me.pc \in {"quota", "reserve", "release", "record"} THEN NoProc ELSE Thrown(p)

\* A claim that fails is caught for its schedule alone.
FailStatement(p) ==
    /\ proc[p].pc # "idle" /\ Fail
    /\ IF proc[p].pc = "claim"
       THEN \E s \in proc[p].todo :
               Become(p, PassOn([proc[p] EXCEPT !.todo = @ \ {s}]))
       ELSE Become(p, Failed(p))
    /\ excused' = IF proc[p].pc = "answer" THEN excused \cup {proc[p].key} ELSE excused
    /\ UNCHANGED <<recent, jobs, key, sched, total, clock>>

Crash ==
    /\ Fail
    /\ proc' = [p \in Proc |-> NoProc]
    /\ UNCHANGED <<recent, jobs, key, sched, total, clock, excused>>

\* A run leaves the 24 hours.
Expire ==
    /\ \E kind \in {"metered", "scheduled"} :
          recent[kind] > 0 /\ recent' = [recent EXCEPT ![kind] = @ - 1]
    /\ UNCHANGED <<jobs, key, sched, total, proc, clock, failures, excused>>

Pass ==
    /\ clock < MaxClock /\ clock' = clock + 1
    /\ UNCHANGED <<recent, jobs, key, sched, total, proc, failures, excused>>

Step(p) ==
    \/ CheckQuota(p) \/ Reserve(p) \/ Answer(p) \/ Release(p)
    \/ CreateRun(p) \/ EnqueueRunJob(p) \/ RecordBulk(p)
    \/ ClaimSchedule(p) \/ CheckOwner(p)

Next ==
    \/ \E q \in Request, k \in Key \cup {None} : Post(q, k)
    \/ \E b \in Bulk : StartBulk(b)
    \/ \E t \in Ticker : Tick(t)
    \/ \E s \in Schedule : SetScheduleActive(s)
    \/ \E p \in Proc : Step(p) \/ FailStatement(p)
    \/ \E k \in Key : Prune(k)
    \/ Crash \/ Expire \/ Pass

Spec == Init /\ [][Next]_vars

-----------------------------------------------------------------------------
(* Properties.                                                             *)

\* "The same (owner, scope, key) triple executes the operation at most once":
\* through concurrent requests, refusals, failed enqueues and crashes a key gets
\* one run that executes, until it is pruned, unless its answer could not be stored.
KeyOnce == \A k \in Key \ excused : jobs[k] <= 1

\* "The per-day quota can't be exceeded by a concurrent burst that races past
\* the soft getQuota() check": requests, triggers, chains and bulk rows stay
\* within it together.
QuotaHolds == recent["metered"] <= Limit

\* The scheduler, which only reads the count, goes beyond it by at most one run
\* per pass in progress.
ExcessBounded == Used <= Limit + Cardinality(Ticker)

\* The quota, as it is reserved and as it is only read.
QuotaKept == QuotaHolds /\ ExcessBounded

\* "Overlapping ticks or a second instance can't double-run it": a time of a
\* schedule gets one run.
FiredOnce == \A f \in Firing : jobs[f] <= 1

\* Whoever asks twice, or is woken twice, gets one run.
StartedOnce == KeyOnce /\ FiredOnce

\* "A mid-loop failure can't leave total > children": the total of a bulk run is
\* the number of its runs that will execute.
TotalIsChildren == \A b \in Bulk : total[b] # None => total[b] = jobs[b]
=============================================================================
