------------------------------ MODULE PlanRun -------------------------------
(***************************************************************************)
(* executeRun of lib/runner.ts: the plan of a skill, step by step, with    *)
(* the steps a reviewer or a branch leaves out (lib/branch.ts), the waits  *)
(* (lib/wait.ts), the pauses for a human and the clock, and the record of  *)
(* what was done, which the receipt covers.  An error outside the steps    *)
(* is thrown at the worker, which runs the plan again from its start.      *)
(*                                                                         *)
(* What the page shows is the environment's choice: a condition holds, an  *)
(* element is found by a selector, the operator or the agent, or is not.   *)
(* Time is counted in units; a human pause takes none, as it is not billed *)
(* to the run.                                                             *)
(***************************************************************************)
EXTENDS Integers, Sequences

CONSTANTS
    Plans,       \* the plans a run may have
    RunTime,     \* RUN_TIMEOUT_MS
    WaitTime,    \* MAX_WAIT_MS, for a step and for a run
    StepTime,    \* what one step that is not a wait takes at most
    MaxCaptchaPauses,
    LiveOn,      \* AEMULUS_LIVE_HANDOFF
    MaxTries,    \* attempts of the job
    MaxThrows    \* bound of the model on errors outside the steps, and crashes

\* A condition covers `span` steps from its own on; 0 is a step without one.
Kind == {"act", "read", "goto", "chain", "wait", "human"}
PlanStep == [kind : Kind, span : Nat, wait : 0..WaitTime, strict : BOOLEAN]

ASSUME PlansAssumption == \A p \in Plans : p \in Seq(PlanStep)
ASSUME ClockAssumption ==
    /\ RunTime \in Nat /\ WaitTime \in Nat /\ StepTime \in Nat
    /\ MaxCaptchaPauses \in Nat /\ LiveOn \in BOOLEAN
    /\ MaxTries \in Nat \ {0} /\ MaxThrows \in Nat

VARIABLES
    plan, skips,   \* the plan, and the steps the reviewer chose to skip
    stage, at,     \* where the run is: outside its steps, and in which of them
    left,          \* the deadline, seen from now
    budget,        \* waitBudget
    spent,         \* history: the time this attempt has taken, pauses aside
    captchas,      \* captchaPauses
    through,       \* skipThrough
    verdict,       \* finalStatus
    record,        \* the rows of run_steps this attempt added, in order
    refused,       \* history: the steps left out by the reviewer or their condition
    tries, throws

planVars == <<plan, skips, stage, at, left, budget, spent, captchas, through,
              verdict, record, refused, tries, throws>>

Note == [at : Nat, how : {"done", "skipped", "flagged", "failed"}]

PlanTypeOK ==
    /\ plan \in Plans /\ skips \subseteq DOMAIN plan
    /\ stage \in {"start", "top", "paused", "step", "settle", "done", "dead"}
    /\ at \in 1..(Len(plan) + 1)
    /\ left \in Int /\ budget \in 0..WaitTime /\ spent \in Nat
    /\ captchas \in 0..MaxCaptchaPauses /\ through \in Nat
    /\ verdict \in {"completed", "failed", "needs_review"}
    /\ record \in Seq(Note)
    /\ refused \subseteq DOMAIN plan
    /\ tries \in 1..MaxTries /\ throws \in 0..MaxThrows

PlanInit ==
    /\ plan \in Plans /\ skips \in SUBSET DOMAIN plan
    /\ stage = "start" /\ at = 1
    /\ left = RunTime /\ budget = WaitTime /\ spent = 0
    /\ captchas = 0 /\ through = 0
    /\ verdict = "completed"
    /\ record = <<>> /\ refused = {}
    /\ tries = 1 /\ throws = 0

\* What no step of the plan changes, and what only waits and branches do.
fixed == <<plan, skips, tries, throws>>
clock == <<left, budget, spent>>
branches == <<through, refused>>

Larger(a, b) == IF a > b THEN a ELSE b
Smaller(a, b) == IF a < b THEN a ELSE b

-----------------------------------------------------------------------------
(* Between the steps.                                                      *)

\* The browser is there, the locals are new.
Launch ==
    /\ stage = "start"
    /\ stage' = "top" /\ at' = 1
    /\ left' = RunTime /\ budget' = WaitTime /\ spent' = 0
    /\ captchas' = 0 /\ through' = 0 /\ verdict' = "completed"
    /\ record' = <<>> /\ refused' = {}
    /\ UNCHANGED fixed

Settle(how) ==
    /\ stage' = "settle" /\ verdict' = how
    /\ UNCHANGED <<at, captchas>>

PlanThrough ==
    /\ stage = "top" /\ at > Len(plan)
    /\ Settle("completed")
    /\ UNCHANGED <<fixed, clock, branches, record>>

OutOfTime ==
    /\ stage = "top" /\ at <= Len(plan) /\ left < 0
    /\ Settle("failed")
    /\ UNCHANGED <<fixed, clock, branches, record>>

\* Mutated form: the pauses are not counted.
CaptchasUncounted == captchas

Counted == captchas + 1

\* A captcha is there: the run pauses for a human, or is parked.
Captcha ==
    /\ stage = "top" /\ at <= Len(plan) /\ left >= 0
    /\ IF captchas >= MaxCaptchaPauses THEN Settle("needs_review")
       ELSE stage' = "paused" /\ captchas' = Counted /\ UNCHANGED <<at, verdict>>
    /\ UNCHANGED <<fixed, clock, branches, record>>

\* The human clears it, and the page is looked at again, or does not come.
AfterCaptcha ==
    /\ stage = "paused"
    /\ \/ stage' = "top" /\ UNCHANGED <<at, captchas, verdict>>
       \/ Settle("needs_review")
    /\ UNCHANGED <<fixed, clock, branches, record>>

NoCaptcha ==
    /\ stage = "top" /\ at <= Len(plan) /\ left >= 0
    /\ stage' = "step"
    /\ UNCHANGED <<fixed, clock, branches, at, captchas, verdict, record>>

-----------------------------------------------------------------------------
(* One step.                                                               *)

Recorded(how) ==
    record' = Append(record, [at |-> at, how |-> how])

\* A step ends with a note and the next one, or with a note and the run.
GoOn(how) ==
    /\ Recorded(how)
    /\ stage' = "top" /\ at' = at + 1
    /\ UNCHANGED <<captchas, verdict>>

Stop(how, as) == Recorded(how) /\ Settle(as)

Takes(d) == left' = left - d /\ spent' = spent + d /\ UNCHANGED budget

\* Mutated form: the inner gate's group is what is skipped.
SkipThroughOwn == IF plan[at].span = 0 THEN through ELSE at + plan[at].span - 1

\* A gate takes the group it covers with it.
SkipThrough ==
    IF plan[at].span = 0 THEN through ELSE Larger(through, at + plan[at].span - 1)

\* Mutated form: a step inside a branch that did not run is passed over in silence.
SkippedSilently ==
    /\ IF at \in skips THEN Recorded("skipped") ELSE UNCHANGED record
    /\ stage' = "top" /\ at' = at + 1
    /\ UNCHANGED <<captchas, verdict>>

Skipped == GoOn("skipped")

\* skipStep, by its three doors, up to its note.
LeftOut ==
    /\ stage = "step"
    /\ \/ at \in skips /\ refused' = refused \cup {at}
       \/ at \notin skips /\ at <= through /\ UNCHANGED refused
       \/ /\ at \notin skips /\ at > through /\ plan[at].span > 0
          /\ refused' = refused \cup {at}
    /\ through' = SkipThrough
    /\ UNCHANGED fixed

Skip(d) == LeftOut /\ Takes(d) /\ Skipped

\* The statement that writes the note fails: the catch around the step takes it for an
\* error of the step.
SkipFails(d) == LeftOut /\ Takes(d) /\ Stop("failed", "failed")

\* The reviewer, the branches around the step and its own condition let it run.
Entered(kinds) ==
    /\ stage = "step" /\ at \notin skips /\ at > through
    /\ plan[at].kind \in kinds
    /\ UNCHANGED <<fixed, branches>>

\* An interactive checkpoint: a human takes over, or does not come.
Checkpoint ==
    /\ Entered({"human"}) /\ LiveOn
    /\ GoOn("done") \/ Stop("flagged", "needs_review")
    /\ UNCHANGED clock

\* Mutated form: a grant beyond the budget.
GrantWhole == plan[at].wait

Grant == Smaller(plan[at].wait, budget)

Unused(e) == Larger(0, Grant - e)

\* Mutated form: the cap is per step.
WaitedPerStep(e) ==
    /\ left' = left + plan[at].wait - e - Larger(0, plan[at].wait - e)
    /\ spent' = spent + e
    /\ UNCHANGED budget

\* The wait is granted its time, ends after e of it, and hands back the rest.
Waited(e) ==
    /\ left' = left + Grant - e - Unused(e)
    /\ budget' = budget - Grant + Unused(e)
    /\ spent' = spent + e

\* A wait is bounded by its own limit and the deadline, as extended: it is met, or
\* runs out, at once if it has nothing to look at, or the browser is gone.
WaitFor ==
    LET most == Larger(0, Smaller(plan[at].wait, left + Grant)) IN
    /\ Entered({"wait"})
    /\ \/ \E e \in 0..most : Waited(e) /\ GoOn("done")
       \/ /\ \E e \in {0, most} : Waited(e)
          /\ IF plan[at].strict THEN Stop("flagged", "needs_review") ELSE GoOn("flagged")
       \/ \E e \in 0..most : Waited(e) /\ Stop("failed", "failed")

Working == {"act", "read", "goto", "chain", "human"}

\* The step is done: by its selectors, by the operator's or by the agent.
Perform(d) ==
    /\ Entered(Working) /\ (plan[at].kind = "human" => ~LiveOn)
    /\ Takes(d) /\ GoOn("done")

\* A credential is withheld on another host than its own.
Withhold ==
    /\ Entered({"act"})
    /\ Takes(0) /\ GoOn("flagged")

\* The element is not found: no time is left to look further, or a human has to.
NotFound(d) ==
    /\ Entered({"act", "read", "human"}) /\ (plan[at].kind = "human" => ~LiveOn)
    /\ Takes(d)
    /\ IF left < d THEN Stop("flagged", "failed") \/ Stop("flagged", "needs_review")
       ELSE Stop("flagged", "needs_review")

\* Any error of a step that runs, or of its condition, or of the statement that
\* records it, which then has written nothing.
StepFails(d) ==
    /\ Entered(Kind)
    /\ Takes(d) /\ Stop("failed", "failed")

-----------------------------------------------------------------------------
(* The end of an attempt.                                                  *)

FinishRow ==
    /\ stage = "settle"
    /\ stage' = "done"
    /\ UNCHANGED <<fixed, clock, branches, at, captchas, verdict, record>>

\* The browser cannot be launched, a statement between the steps fails, finishRun
\* has failed five times, or the process dies: the worker tries again.
Throw ==
    /\ stage \notin {"done", "dead"} /\ throws < MaxThrows
    /\ throws' = throws + 1
    /\ IF tries < MaxTries THEN stage' = "start" /\ tries' = tries + 1
       ELSE stage' = "dead" /\ UNCHANGED tries
    /\ UNCHANGED <<plan, skips, clock, branches, at, captchas, verdict, record>>

Forward ==
    \/ Launch \/ PlanThrough \/ OutOfTime \/ Captcha \/ AfterCaptcha \/ NoCaptcha
    \/ Checkpoint \/ WaitFor \/ Withhold
    \/ \E d \in 0..StepTime :
          Skip(d) \/ SkipFails(d) \/ Perform(d) \/ NotFound(d) \/ StepFails(d)
    \/ FinishRow

PlanNext == Forward \/ Throw

PlanSpec == PlanInit /\ [][PlanNext]_planVars

\* Steps, waits and pauses are bounded by their time limits.
PlanFairness == WF_planVars(Forward)

-----------------------------------------------------------------------------
(* Properties.                                                             *)

\* Step n is inside the branch of an earlier one that did not run.
InSkippedBranch(n) ==
    \E m \in 1..(n - 1) :
        LET gate == record[m].at IN
        /\ record[m].how = "skipped" /\ plan[gate].span > 0
        /\ record[n].at < gate + plan[gate].span

\* "IF THIS STEP IS A BRANCH, its group goes with it. A gate that was skipped must
\* not leave its gated work to run ungated": through nested and overlapping groups,
\* the steps left out are those refused for themselves and those inside the branch of
\* a step left out, and no others.  A step that is to be left out and cannot be noted
\* so is noted as failed, and nothing runs after it.
SkipsAreGroups ==
    \A n \in DOMAIN record :
        LET out == record[n].at \in refused \/ InSkippedBranch(n) IN
        /\ record[n].how = "skipped" => out
        /\ out => \/ record[n].how = "skipped"
                  \/ /\ record[n].how = "failed" /\ verdict = "failed"
                     /\ n = Len(record) /\ stage \notin {"top", "paused", "step"}

\* "A step missing from the record is indistinguishable from a step that never
\* existed, and the record is what the receipt covers": an attempt records its
\* steps in order and once each, and a completed one all of them.
RecordComplete ==
    /\ \A n \in DOMAIN record : record[n].at = n
    /\ (stage \in {"settle", "done"} /\ verdict = "completed" => Len(record) = Len(plan))

\* The record tells what was done and what was left out, together.
RecordFaithful == SkipsAreGroups /\ RecordComplete

\* "Capped for the whole run rather than per step, or a plan full of waits would
\* have no wall clock at all": an attempt takes its own time and one MAX_WAIT_MS,
\* and is at most one step late.
TimeBounded == spent <= RunTime + WaitTime + StepTime

\* "Parks in needs_review rather than looping": every run of a plan ends, through
\* captchas that come back, pauses, waits, errors and retries.
PlanEnds == <>(stage \in {"done", "dead"})
=============================================================================
