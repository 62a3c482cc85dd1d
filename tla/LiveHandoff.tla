---------------------------- MODULE LiveHandoff -----------------------------
(***************************************************************************)
(* The memory the executions of one process share (lib/runner.ts): the     *)
(* slots of the browsers (lib/semaphore.ts), and the live sessions with    *)
(* which an execution pauses until the owner of its run presses Continue   *)
(* or the time is up (lib/live.ts, app/api/runs/[id]/live).                *)
(*                                                                         *)
(* Every pause registers a session object of its own; the map holds one    *)
(* per run.  Two executions of one run are in the model: they are what the *)
(* map cannot tell apart.  A callback and the code it resumes run before   *)
(* anything else does, so they are one step.                               *)
(***************************************************************************)
EXTENDS FiniteSets, Integers, Sequences

CONSTANTS
    Exec, Run, None,
    RunOf,      \* the run of each execution
    Max,        \* AEMULUS_MAX_CONCURRENT_RUNS
    MaxPauses   \* bound of the model: pauses of an execution

ASSUME ConstantsAssumption ==
    /\ RunOf \in [Exec -> Run]
    /\ Max \in Nat \ {0} /\ MaxPauses \in Nat
    /\ None \notin Exec /\ None \notin Exec \X Nat

VARIABLES
    active, queue,  \* Semaphore
    pc,             \* where each execution is
    pauses,         \* how many pauses it has begun
    live,           \* __aemLive: the session of each run, or None
    session,        \* the session objects, by the execution and pause they are of
    timer,          \* the session whose wait the pending timer of an execution ends
    outcome,        \* what the pause of an execution ended with
    promised,       \* history: the executions a resume was accepted in the pause of
    tangled         \* history: the runs that had two sessions at once

vars == <<active, queue, pc, pauses, live, session, timer, outcome, promised, tangled>>

Session == Exec \X (1..MaxPauses)
PC == {"idle", "queued", "run", "setup", "wait", "delete", "release", "done"}
\* `waiter` is whose promise the session's resolver and timer belong to.
Object == [requested : BOOLEAN, waiter : Exec \cup {None}]
Fresh == [requested |-> FALSE, waiter |-> None]

TypeOK ==
    /\ active \in Nat /\ queue \in Seq(Exec)
    /\ pc \in [Exec -> PC] /\ pauses \in [Exec -> 0..MaxPauses]
    /\ live \in [Run -> Session \cup {None}]
    /\ session \in [Session -> Object]
    /\ timer \in [Exec -> Session \cup {None}]
    /\ outcome \in [Exec -> {"none", "resumed", "timeout"}]
    /\ promised \subseteq Exec /\ tangled \subseteq Run

Init ==
    /\ active = 0 /\ queue = <<>>
    /\ pc = [e \in Exec |-> "idle"] /\ pauses = [e \in Exec |-> 0]
    /\ live = [r \in Run |-> None]
    /\ session = [s \in Session |-> Fresh]
    /\ timer = [e \in Exec |-> None]
    /\ outcome = [e \in Exec |-> "none"]
    /\ promised = {} /\ tangled = {}

slots == <<active, queue>>
sessions == <<live, session, timer, outcome, promised, tangled>>

-----------------------------------------------------------------------------
Goto(e, to) == pc' = [pc EXCEPT ![e] = to]

\* Semaphore.acquire
Acquire(e) ==
    /\ pc[e] = "idle"
    /\ IF active < Max THEN active' = active + 1 /\ UNCHANGED queue /\ Goto(e, "run")
       ELSE queue' = Append(queue, e) /\ UNCHANGED active /\ Goto(e, "queued")
    /\ UNCHANGED <<pauses, sessions>>

\* Mutated form: the slot is given back, and the waiters are not told.
GiveBack(e) ==
    /\ active' = active - 1 /\ UNCHANGED queue
    /\ Goto(e, "done")

\* Mutated form: the slot is handed over, and counted as given back.
GiveBackToo(e) ==
    /\ active' = active - 1
    /\ queue' = IF queue = <<>> THEN queue ELSE Tail(queue)
    /\ pc' = [f \in Exec |-> IF f = e THEN "done"
                             ELSE IF queue # <<>> /\ f = Head(queue) THEN "run"
                             ELSE pc[f]]

\* Mutated form: the last of the waiters is not seen.
HandOverOffByOne(e) ==
    IF Len(queue) > 1
    THEN /\ queue' = Tail(queue) /\ UNCHANGED active
         /\ pc' = [pc EXCEPT ![e] = "done", ![Head(queue)] = "run"]
    ELSE /\ active' = IF active > 0 THEN active - 1 ELSE 0
         /\ UNCHANGED queue /\ Goto(e, "done")

\* Semaphore.release hands the slot to the first of the waiters.
HandOver(e) ==
    IF queue # <<>>
    THEN /\ queue' = Tail(queue) /\ UNCHANGED active
         /\ pc' = [pc EXCEPT ![e] = "done", ![Head(queue)] = "run"]
    ELSE /\ active' = IF active > 0 THEN active - 1 ELSE 0
         /\ UNCHANGED queue /\ Goto(e, "done")

\* The finally of executeRun
Release(e) ==
    /\ pc[e] = "release"
    /\ HandOver(e)
    /\ UNCHANGED <<pauses, sessions>>

\* The plan is through, or the browser failed: the finally comes either way.
Finish(e) ==
    /\ pc[e] = "run"
    /\ Goto(e, "release")
    /\ UNCHANGED <<slots, pauses, sessions>>

\* A captcha or an interactive step: registerLive, up to its await.
RegisterLive(e) ==
    LET r == RunOf[e]  s == <<e, pauses[e] + 1>> IN
    /\ pc[e] = "run" /\ pauses[e] < MaxPauses
    /\ pauses' = [pauses EXCEPT ![e] = @ + 1]
    /\ live' = [live EXCEPT ![r] = s]
    /\ session' = [session EXCEPT ![s] = Fresh]
    /\ tangled' = IF live[r] = None THEN tangled ELSE tangled \cup {r}
    /\ Goto(e, "setup")
    /\ UNCHANGED <<slots, timer, outcome, promised>>

-----------------------------------------------------------------------------
(* A wait ends, and the execution goes on to unregisterLive, up to its     *)
(* await: it clears the timer and the resolver of the session that is in   *)
(* the map by then.                                                        *)

\* The sessions without the resolver of s, the timers without that of its waiter.
Cut(ses, s) == IF s = None THEN ses ELSE [ses EXCEPT ![s].waiter = None]
Cleared(ses, tms, s) ==
    IF s = None \/ ses[s].waiter = None THEN tms
    ELSE [tms EXCEPT ![ses[s].waiter] = None]

\* Where a pause that ended goes on, once its session is out of the map.
AfterPause(s, how) ==
    IF s # None THEN "delete" ELSE IF how = "resumed" THEN "run" ELSE "release"

EndWait(e, how, ses, tms) ==
    LET s == live[RunOf[e]] IN
    /\ outcome' = [outcome EXCEPT ![e] = how]
    /\ promised' = promised \ {e}
    /\ session' = Cut(ses, s)
    /\ timer' = Cleared(ses, tms, s)
    /\ Goto(e, AfterPause(s, how))

\* Mutated form: the wait has no timer.
TimerNone(s) == None

TimerOf(s) == s

\* waitForResume looks its session up again.
WaitForResume(e) ==
    LET s == live[RunOf[e]] IN
    /\ pc[e] = "setup"
    /\ IF s = None THEN EndWait(e, "timeout", session, timer)
       ELSE IF session[s].requested
       THEN EndWait(e, "resumed", [session EXCEPT ![s].requested = FALSE], timer)
       ELSE /\ session' = [session EXCEPT ![s].waiter = e]
            /\ timer' = [timer EXCEPT ![e] = TimerOf(s)]
            /\ Goto(e, "wait")
            /\ UNCHANGED <<outcome, promised>>
    /\ UNCHANGED <<slots, pauses, live, tangled>>

\* The timer fires: it clears the resolver of its session, whoever's that is by now.
TimeOut(e) ==
    LET s == timer[e] IN
    /\ pc[e] = "wait" /\ s # None
    /\ EndWait(e, "timeout", Cut(session, s), [timer EXCEPT ![e] = None])
    /\ UNCHANGED <<slots, pauses, live, tangled>>

\* Mutated form: a resume without a waiter is not remembered.
RememberedNot(s) == session

Remembered(s) == [session EXCEPT ![s].requested = TRUE]

\* resumeLive, and the end of the wait it resolves.
ResumeLive(r) ==
    LET s == live[r]  w == session[s].waiter IN
    /\ s # None
    /\ IF w # None /\ pc[w] = "wait"
       THEN EndWait(w, "resumed", Remembered(s), [timer EXCEPT ![w] = None])
       ELSE /\ session' = Remembered(s)
            /\ promised' = IF outcome[s[1]] = "none" THEN promised \cup {s[1]}
                           ELSE promised
            /\ UNCHANGED <<pc, timer, outcome>>
    /\ UNCHANGED <<slots, pauses, live, tangled>>

\* unregisterLive, after its await: whatever session the run has by now goes.
Delete(e) ==
    /\ pc[e] = "delete"
    /\ live' = [live EXCEPT ![RunOf[e]] = None]
    /\ outcome' = [outcome EXCEPT ![e] = "none"]
    /\ Goto(e, AfterPause(None, outcome[e]))
    /\ UNCHANGED <<slots, pauses, session, timer, promised, tangled>>

-----------------------------------------------------------------------------
RunOn(e) == RegisterLive(e) \/ Finish(e)

Next ==
    \/ \E e \in Exec : \/ Acquire(e) \/ RunOn(e) \/ Release(e)
                       \/ WaitForResume(e) \/ TimeOut(e) \/ Delete(e)
    \/ \E r \in Run : ResumeLive(r)

Spec == Init /\ [][Next]_vars

\* A run has a deadline, a timer fires, an await of the process returns.  Nobody has
\* to press Continue.
Fairness ==
    \A e \in Exec : /\ WF_vars(RunOn(e)) /\ WF_vars(Release(e))
                    /\ WF_vars(WaitForResume(e)) /\ WF_vars(TimeOut(e))
                    /\ WF_vars(Delete(e))

FairSpec == Spec /\ Fairness

-----------------------------------------------------------------------------
(* Properties.                                                             *)

Holding == {"run", "setup", "wait", "delete", "release"}
Holders == {e \in Exec : pc[e] \in Holding}

\* "Bounds how many runs launch Chromium concurrently": the count is that of the
\* executions between acquire and release, at most Max, and nobody waits while a
\* slot is free.
SlotsExact ==
    /\ active = Cardinality(Holders) /\ active <= Max
    /\ {e \in Exec : pc[e] = "queued"} # {} => active = Max

\* "A resume that arrives before the wait arms is recorded and honored later": the
\* pause it was pressed in ends as resumed, and not by the clock, unless two
\* executions of that run have paused at once.
ResumeHonoured ==
    [][\A e \in Exec : outcome[e] = "none" /\ outcome'[e] = "timeout"
                        => e \notin promised \/ RunOf[e] \in tangled]_vars

\* "The run holds its Chromium run-slot for the whole pause ... It's bounded by
\* LIVE_TIMEOUT_MS": a pause ends, with the same exception: an execution clears
\* the timer of the other one's wait.
PauseEnds ==
    \A e \in Exec : pc[e] = "wait" ~> pc[e] # "wait" \/ RunOf[e] \in tangled

\* "Excess runs queue and start as slots free up": an execution that waits for a
\* slot gets one, unless a tangled pause keeps it.
SlotServed ==
    \A e \in Exec : pc[e] = "queued" ~> pc[e] = "run" \/ tangled # {}

\* Together: neither a human nor another execution is waited for without end.
NobodyKeepsWaiting == PauseEnds /\ SlotServed
=============================================================================
