--------------------------- MODULE RunQueueProofs ---------------------------
(***************************************************************************)
(* Theorems about RunQueue for every set of runs, executions, processes    *)
(* and every bound; about SkillVersions, the history of the skills that    *)
(* the runs execute, for every set of writers and contents; and about      *)
(* SkillRuns, the two together.                                            *)
(***************************************************************************)
EXTENDS SkillRuns, FiniteSetTheorems, WellFoundedInduction, TLAPS

-----------------------------------------------------------------------------
(* Type correctness.                                                       *)

LEMMA IdleType == Idle \in ExecState /\ Idle.pc = "idle"
BY DEF Idle, Started, ExecState, PC, RunStatus, Terminal

\* The variables have their types initially.
LEMMA InitType == Init => TypeOK
<1> SUFFICES ASSUME Init PROVE TypeOK
  OBVIOUS
<1>1. ExecTypeOK
  BY IdleType DEF Init, ExecTypeOK
<1>2. job \in [Run -> JobRow]
  BY DEF Init, JobRow, JobStatus
<1>3. events \in [Run -> Seq(RunStatus)]
  BY DEF Init
<1> QED
  BY <1>1, <1>2, <1>3 DEF Init, TypeOK, RowsTypeOK, RunStatus, Request

\* A step that moves one execution, or ends it, keeps the type of exec.
LEMMA GotoType ==
  ASSUME ExecTypeOK, NEW e \in Exec, exec[e].pc # "idle", NEW p \in PC,
         Goto(e, p)
  PROVE  ExecTypeOK'
BY DEF ExecTypeOK, Goto, ExecState

LEMMA DecideType ==
  ASSUME ExecTypeOK, NEW e \in Exec, exec[e].pc # "idle", NEW p \in PC,
         NEW st \in RunStatus,
         exec' = [exec EXCEPT ![e].pc = p, ![e].final = st]
  PROVE  ExecTypeOK'
<1>1. exec' = [exec EXCEPT ![e] = [[exec[e] EXCEPT !.pc = p] EXCEPT !.final = st]]
  BY DEF ExecTypeOK
<1>2. [[exec[e] EXCEPT !.pc = p] EXCEPT !.final = st] \in ExecState
  BY DEF ExecTypeOK, ExecState
<1> QED
  BY <1>1, <1>2 DEF ExecTypeOK, ExecState

LEMMA FailReadType ==
  ASSUME ExecTypeOK, NEW e \in Exec, exec[e].pc # "idle", NEW n \in Nat,
         exec' = [exec EXCEPT ![e].pc = "failWrite", ![e].attempts = n]
  PROVE  ExecTypeOK'
<1>1. exec' = [exec EXCEPT ![e] =
                  [[exec[e] EXCEPT !.pc = "failWrite"] EXCEPT !.attempts = n]]
  BY DEF ExecTypeOK
<1>2. [[exec[e] EXCEPT !.pc = "failWrite"] EXCEPT !.attempts = n] \in ExecState
  BY DEF ExecTypeOK, ExecState, PC
<1> QED
  BY <1>1, <1>2 DEF ExecTypeOK, ExecState

LEMMA PauseType ==
  ASSUME ExecTypeOK, NEW e \in Exec, exec[e].pc # "idle",
         exec' = [exec EXCEPT ![e].pc = "paused", ![e].pauses = @ + 1]
  PROVE  ExecTypeOK'
<1>1. exec' = [exec EXCEPT ![e] =
          [[exec[e] EXCEPT !.pc = "paused"] EXCEPT !.pauses = exec[e].pauses + 1]]
  BY DEF ExecTypeOK
<1>2. [[exec[e] EXCEPT !.pc = "paused"] EXCEPT !.pauses = exec[e].pauses + 1]
        \in ExecState
  BY DEF ExecTypeOK, ExecState, PC
<1> QED
  BY <1>1, <1>2 DEF ExecTypeOK, ExecState

\* An execution that starts on a run.
LEMMA StartType ==
  ASSUME ExecTypeOK, NEW e \in Exec, NEW v \in ExecState, v.run \in Run,
         exec' = [exec EXCEPT ![e] = v]
  PROVE  ExecTypeOK'
BY DEF ExecTypeOK

LEMMA LeaveType ==
  ASSUME ExecTypeOK, NEW e \in Exec, Leave(e)
  PROVE  ExecTypeOK'
BY IdleType DEF ExecTypeOK, Leave

\* finishRun and setRunStatus only write statuses.
LEMMA FinishType ==
  ASSUME RowsTypeOK, NEW r \in Run, NEW st \in RunStatus,
         Finish(r, st) \/ SetRunStatus(r, st)
  PROVE  status' \in [Run -> RunStatus]
BY DEF RowsTypeOK, Finish, SetRunStatus

\* A change of a job's status alone keeps the type of its row.
LEMMA JobStatusType ==
  ASSUME RowsTypeOK, NEW r \in Run, NEW st \in JobStatus,
         job' = [job EXCEPT ![r].status = st]
  PROVE  job' \in [Run -> JobRow]
BY DEF RowsTypeOK, JobRow

LEMMA EventType ==
  ASSUME RowsTypeOK, NEW r \in Run, NEW st \in RunStatus,
         events' = [events EXCEPT ![r] = Append(@, st)]
  PROVE  events' \in [Run -> Seq(RunStatus)]
BY DEF RowsTypeOK
\* Every step of the work of an execution keeps the types.
LEMMA WorkType ==
  ASSUME TypeOK, NEW e \in Exec, Work(e)
  PROVE  TypeOK'
<1> DEFINE r == exec[e].run
<1> USE DEF TypeOK
<1> r \in Run \/ exec[e].pc = "idle"
  BY DEF ExecTypeOK
<1>1. CASE LoadSkill(e)
  <2>1. ExecTypeOK'
    BY <1>1, GotoType DEF LoadSkill, PC
  <2>2. RowsTypeOK'
    BY <1>1 DEF LoadSkill, RowsTypeOK
  <2> QED
    BY <2>1, <2>2
<1>2. CASE FinishSkillRemoved(e)
  <2>1. ExecTypeOK'
    BY <1>2, GotoType DEF FinishSkillRemoved, PC
  <2>2. RowsTypeOK'
    BY <1>2, FinishType DEF FinishSkillRemoved, RowsTypeOK, RunStatus, Terminal
  <2> QED
    BY <2>1, <2>2
<1>3. CASE FailJobSkillRemoved(e)
  <2>1. ExecTypeOK'
    BY <1>3, LeaveType DEF FailJobSkillRemoved
  <2>2. RowsTypeOK'
    BY <1>3 DEF FailJobSkillRemoved, RowsTypeOK, JobRow, JobStatus
  <2> QED
    BY <2>1, <2>2
<1>4. CASE LoadRun(e)
  <2>1. ExecTypeOK'
    BY <1>4, DecideType DEF LoadRun, AfterLoad, ExecTypeOK, ExecState, RowsTypeOK, PC
  <2>2. RowsTypeOK'
    BY <1>4 DEF LoadRun, RowsTypeOK
  <2> QED
    BY <2>1, <2>2
<1>5. CASE AcquireSlot(e)
  <2>1. ExecTypeOK'
    BY <1>5, GotoType DEF AcquireSlot, PC
  <2>2. RowsTypeOK'
    BY <1>5 DEF AcquireSlot, RowsTypeOK
  <2> QED
    BY <2>1, <2>2
<1>6. CASE PauseTimeout(e)
  <2>1. ExecTypeOK'
    BY <1>6, DecideType DEF PauseTimeout, PC, RunStatus, Terminal
  <2>2. RowsTypeOK'
    BY <1>6 DEF PauseTimeout, RowsTypeOK
  <2> QED
    BY <2>1, <2>2
<1>7. ASSUME NEW outcome \in Terminal, EndPlan(e, outcome) PROVE TypeOK'
  <2>1. ExecTypeOK'
    BY <1>7, DecideType DEF EndPlan, PC, RunStatus
  <2>2. RowsTypeOK'
    BY <1>7 DEF EndPlan, RowsTypeOK
  <2> QED
    BY <2>1, <2>2
<1>8. CASE FinishRun(e)
  <2>2. RowsTypeOK'
    BY <1>8, FinishType DEF FinishRun, RowsTypeOK, ExecTypeOK, ExecState
  <2>1. ExecTypeOK'
    BY <1>8, <2>2, DecideType DEF FinishRun, PC, RowsTypeOK
  <2> QED
    BY <2>1, <2>2
<1>9. CASE CreditEarningOnce(e)
  <2>1. ExecTypeOK'
    BY <1>9, GotoType DEF CreditEarningOnce, AfterCredit, PC
  <2>2. RowsTypeOK'
    BY <1>9 DEF CreditEarningOnce, RowsTypeOK
  <2> QED
    BY <2>1, <2>2
<1>10. CASE IncrementRunCount(e)
  <2>1. ExecTypeOK'
    BY <1>10, GotoType DEF IncrementRunCount, PC
  <2>2. RowsTypeOK'
    BY <1>10, RunsAssumption DEF IncrementRunCount, RowsTypeOK
  <2> QED
    BY <2>1, <2>2
<1>11. CASE ClaimRunBookkeeping(e)
  <2>1. ExecTypeOK'
    BY <1>11, GotoType, LeaveType DEF ClaimRunBookkeeping, AfterAccounting, PC
  <2>2. RowsTypeOK'
    BY <1>11 DEF ClaimRunBookkeeping, RowsTypeOK
  <2> QED
    BY <2>1, <2>2
<1>12. CASE Announce(e)
  <2>1. ExecTypeOK'
    BY <1>12, GotoType, LeaveType DEF Announce, AfterAccounting, PC
  <2>2. RowsTypeOK'
    BY <1>12, EventType DEF Announce, RowsTypeOK, ExecTypeOK, ExecState
  <2> QED
    BY <2>1, <2>2
<1>13. CASE CompleteJob(e)
  <2>1. ExecTypeOK'
    BY <1>13, LeaveType DEF CompleteJob
  <2>2. RowsTypeOK'
    BY <1>13, JobStatusType DEF CompleteJob, RowsTypeOK, JobStatus
  <2> QED
    BY <2>1, <2>2
<1>14. CASE FailJobRead(e)
  <2>1. ExecTypeOK'
    BY <1>14, FailReadType DEF FailJobRead, PC, RowsTypeOK, JobRow
  <2>2. RowsTypeOK'
    BY <1>14 DEF FailJobRead, RowsTypeOK
  <2> QED
    BY <2>1, <2>2
<1>15. CASE FailJobRequeue(e)
  <2>1. ExecTypeOK'
    BY <1>15, LeaveType DEF FailJobRequeue
  <2>2. RowsTypeOK'
    BY <1>15, JobStatusType DEF FailJobRequeue, RowsTypeOK, JobStatus
  <2> QED
    BY <2>1, <2>2
<1>16. CASE FailJobForGood(e)
  <2>1. ExecTypeOK'
    BY <1>16, GotoType, LeaveType DEF FailJobForGood, PC
  <2>2. RowsTypeOK'
    BY <1>16, JobStatusType DEF FailJobForGood, RowsTypeOK, JobStatus
  <2> QED
    BY <2>1, <2>2
<1>17. CASE GiveUp(e)
  <2>1. ExecTypeOK'
    BY <1>17, GotoType DEF GiveUp, PC
  <2>2. RowsTypeOK'
    BY <1>17, FinishType DEF GiveUp, RowsTypeOK, RunStatus, Terminal
  <2> QED
    BY <2>1, <2>2
<1>18. CASE NotifyFailed(e)
  <2>1. ExecTypeOK'
    BY <1>18, LeaveType DEF NotifyFailed
  <2>2. RowsTypeOK'
    BY <1>18, EventType DEF NotifyFailed, RowsTypeOK, RunStatus, Terminal
  <2> QED
    BY <2>1, <2>2
<1> QED
  BY <1>1, <1>2, <1>3, <1>4, <1>5, <1>6, <1>7, <1>8, <1>9, <1>10,
     <1>11, <1>12, <1>13, <1>14, <1>15, <1>16, <1>17, <1>18 DEF Work

\* Every step keeps the types.
LEMMA StepType == TypeOK /\ [Next]_vars => TypeOK'
<1> SUFFICES ASSUME TypeOK, [Next]_vars PROVE TypeOK'
  OBVIOUS
<1> USE DEF TypeOK
<1>1. ASSUME NEW r \in Run, CreateRun(r) PROVE TypeOK'
  BY <1>1 DEF CreateRun, RowsTypeOK, ExecTypeOK, RunStatus, Request
<1>2. ASSUME NEW r \in CloudRun, EnqueueRunJob(r) PROVE TypeOK'
  BY <1>2, JobStatusType
     DEF EnqueueRunJob, RowsTypeOK, ExecTypeOK, JobStatus, Request, Run
<1>3. ASSUME NEW r \in CloudRun, EnqueueFails(r) PROVE TypeOK'
  <2>1. request' \in [Run -> Request]
    BY <1>3 DEF EnqueueFails, RowsTypeOK, Request
  <2> QED
    BY <1>3, <2>1 DEF EnqueueFails, RowsTypeOK, ExecTypeOK
<1>4. ASSUME NEW r \in CloudRun, FailUnqueuedRun(r) PROVE TypeOK'
  <2>1. request' \in [Run -> Request]
    <3>1. "answered" \in Request
      BY DEF Request
    <3> QED
      BY <1>4, <3>1 DEF FailUnqueuedRun, RowsTypeOK
  <2>3. faults' \in Nat
    BY <1>4 DEF FailUnqueuedRun, RowsTypeOK
  <2>2. status' \in [Run -> RunStatus]
    BY <1>4, FinishType DEF FailUnqueuedRun, RowsTypeOK, RunStatus, Terminal, Run
  <2> QED
    BY <1>4, <2>1, <2>2, <2>3 DEF FailUnqueuedRun, RowsTypeOK, ExecTypeOK
<1>5. ASSUME NEW r \in CloudRun, RecoverStuckJob(r) PROVE TypeOK'
  BY <1>5, JobStatusType
     DEF RecoverStuckJob, RowsTypeOK, ExecTypeOK, JobStatus, Run
<1>6. ASSUME NEW r \in CloudRun, PruneJob(r) PROVE TypeOK'
  BY <1>6, JobStatusType DEF PruneJob, RowsTypeOK, ExecTypeOK, JobStatus, Run
<1>7. ASSUME NEW e \in Exec, NEW r \in CloudRun, ClaimNextJob(e, r) PROVE TypeOK'
  <2>1. r \in Run /\ job[r].lockedAt \in Nat /\ job[r].attempts \in Nat
    BY DEF Run, RowsTypeOK, JobRow
  <2>2. ExecTypeOK'
    <3> DEFINE v == Started("claimed", r, job[r].lockedAt + 1, "none")
    <3>1. v \in ExecState /\ v.run = r
      BY <2>1 DEF Idle, Started, ExecState, PC, RunStatus, Terminal
    <3>2. exec' = [exec EXCEPT ![e] = v]
      BY <1>7 DEF ClaimNextJob
    <3> QED
      BY <2>1, <3>1, <3>2, StartType
  <2>3. RowsTypeOK'
    BY <1>7, <2>1 DEF ClaimNextJob, RowsTypeOK, JobRow, JobStatus
  <2> QED
    BY <2>2, <2>3
<1>8. ASSUME NEW e \in Exec, Work(e) PROVE TypeOK'
  BY <1>8, WorkType
<1>9. ASSUME NEW e \in Exec, Pause(e) PROVE TypeOK'
  <2>1. ExecTypeOK'
    BY <1>9, PauseType DEF Pause
  <2>2. RowsTypeOK'
    BY <1>9, FinishType DEF Pause, RowsTypeOK, ExecTypeOK, RunStatus
  <2> QED
    BY <2>1, <2>2
<1>10. ASSUME NEW e \in Exec, Resume(e) PROVE TypeOK'
  <2>1. ExecTypeOK'
    BY <1>10, GotoType DEF Resume, PC
  <2>2. RowsTypeOK'
    BY <1>10, FinishType DEF Resume, RowsTypeOK, ExecTypeOK, RunStatus
  <2> QED
    BY <2>1, <2>2
<1>11. ASSUME NEW e \in Exec, InfraFailure(e) PROVE TypeOK'
  BY <1>11, GotoType DEF InfraFailure, RowsTypeOK, PC
<1>12. ASSUME NEW e \in Exec, DbFault(e) PROVE TypeOK'
  <2>1. CASE /\ exec[e].pc = "paused"
             /\ exec' = [exec EXCEPT ![e].pc = "finish", ![e].final = "failed"]
    <3>1. ExecTypeOK'
      BY <2>1, DecideType DEF PC, RunStatus, Terminal
    <3> QED
      BY <1>12, <3>1 DEF DbFault, RowsTypeOK
  <2>2. CASE exec[e].pc # "idle" /\ (Leave(e) \/ \E p \in PC : Goto(e, p))
    BY <1>12, <2>2, GotoType, LeaveType DEF DbFault, RowsTypeOK
  <2> QED
    BY <1>12, <2>1, <2>2 DEF DbFault, PC
<1>13. ASSUME NEW e \in Exec, NEW r \in ExtensionRun, NEW outcome \in Terminal,
              ExtensionReports(e, r, outcome)
       PROVE  TypeOK'
  <2> DEFINE v == Started("finish", r, 0, outcome)
  <2>1. v \in ExecState /\ v.run = r /\ r \in Run
    BY DEF Idle, Started, ExecState, PC, RunStatus, Run
  <2>2. exec' = [exec EXCEPT ![e] = v]
    BY <1>13 DEF ExtensionReports
  <2>3. ExecTypeOK'
    BY <2>1, <2>2, StartType
  <2>4. RowsTypeOK'
    BY <1>13 DEF ExtensionReports, RowsTypeOK
  <2> QED
    BY <2>3, <2>4
<1>14. ASSUME NEW p \in Proc, Crash(p) PROVE TypeOK'
  <2>1. ExecTypeOK'
    BY <1>14, IdleType DEF Crash, ExecTypeOK
  <2>2. RowsTypeOK'
    BY <1>14 DEF Crash, RowsTypeOK, Request
  <2> QED
    BY <2>1, <2>2
<1>15. ASSUME NEW s \in Skill, RemoveSkill(s) PROVE TypeOK'
  BY <1>15 DEF RemoveSkill, RowsTypeOK, ExecTypeOK
<1>16. CASE UNCHANGED vars
  BY <1>16 DEF vars, RowsTypeOK, ExecTypeOK
<1> QED
  BY <1>1, <1>2, <1>3, <1>4, <1>5, <1>6, <1>7, <1>8, <1>9, <1>10, <1>11,
     <1>12, <1>13, <1>14, <1>15, <1>16 DEF Next

\* Every row and every execution of every behaviour is well formed.
THEOREM Typing == Spec => []TypeOK
BY InitType, StepType, PTL DEF Spec

-----------------------------------------------------------------------------
(* What no step undoes.                                                    *)

StatusKept == \A r \in Run : /\ IsTerminal(r) => status'[r] = status[r]
                             /\ status[r] # "none" => status'[r] # "none"

\* The guarded writes never leave a terminal status.
LEMMA FinishKeeps ==
  ASSUME RowsTypeOK, NEW r \in Run, NEW st \in RunStatus \ {"none"},
         Finish(r, st) \/ SetRunStatus(r, st)
  PROVE  /\ StatusKept
         /\ \A x \in Run : x # r => status'[x] = status[x]
         /\ status'[r] = IF IsTerminal(r) THEN status[r] ELSE st
BY DEF RowsTypeOK, Finish, SetRunStatus, StatusKept, IsTerminal, Terminal

\* Only these steps write a run's status.
StatusWrite ==
    \/ \E r \in Run : CreateRun(r)
    \/ \E r \in CloudRun : FailUnqueuedRun(r)
    \/ \E e \in Exec : \/ FinishSkillRemoved(e) \/ FinishRun(e) \/ GiveUp(e)
                       \/ Pause(e) \/ Resume(e)

LEMMA OtherStepsKeepStatus ==
  ASSUME [Next]_vars, ~StatusWrite
  PROVE  UNCHANGED status
<1>1. ASSUME NEW e \in Exec, Work(e) PROVE UNCHANGED status
  BY <1>1 DEF Work, StatusWrite, LoadSkill, FailJobSkillRemoved, LoadRun,
     AcquireSlot, PauseTimeout, EndPlan, CreditEarningOnce, IncrementRunCount,
     ClaimRunBookkeeping, Announce, CompleteJob, FailJobRead, FailJobRequeue,
     FailJobForGood, NotifyFailed
<1> QED
  BY <1>1 DEF Next, vars, StatusWrite, EnqueueRunJob, EnqueueFails,
     RecoverStuckJob, PruneJob, ClaimNextJob, InfraFailure, DbFault,
     ExtensionReports, Crash, RemoveSkill

\* Only a timed-out pause, the end of a plan and a report lead to finish, and
\* each brings an outcome.
LEMMA StepOutcomeKnown == TypeOK /\ OutcomeKnown /\ [Next]_vars => OutcomeKnown'
<1> SUFFICES ASSUME TypeOK, OutcomeKnown, [Next]_vars PROVE OutcomeKnown'
  OBVIOUS
<1> USE DEF TypeOK, ExecTypeOK, ExecState, OutcomeKnown
<1>1. ASSUME NEW e \in Exec, NEW pc, Goto(e, pc), pc # "finish"
      PROVE  OutcomeKnown'
  BY <1>1 DEF Goto
<1>2. ASSUME NEW e \in Exec, Leave(e) PROVE OutcomeKnown'
  BY <1>2, IdleType DEF Leave
<1>3. ASSUME NEW e \in Exec, Work(e) PROVE OutcomeKnown'
  <2>1. CASE \/ LoadSkill(e) \/ FinishSkillRemoved(e) \/ FailJobSkillRemoved(e)
             \/ AcquireSlot(e) \/ CreditEarningOnce(e) \/ IncrementRunCount(e)
    BY <2>1, <1>1, <1>2
       DEF LoadSkill, FinishSkillRemoved, FailJobSkillRemoved, AcquireSlot,
           CreditEarningOnce, AfterCredit, IncrementRunCount
  <2>2. CASE \/ ClaimRunBookkeeping(e) \/ Announce(e) \/ CompleteJob(e)
             \/ FailJobRequeue(e) \/ FailJobForGood(e) \/ GiveUp(e)
             \/ NotifyFailed(e)
    BY <2>2, <1>1, <1>2
       DEF ClaimRunBookkeeping, Announce, AfterAccounting, CompleteJob,
           FailJobRequeue, FailJobForGood, GiveUp, NotifyFailed
  <2>3. CASE LoadRun(e) \/ FinishRun(e) \/ FailJobRead(e)
    BY <2>3 DEF LoadRun, AfterLoad, FinishRun, FailJobRead
  <2>4. CASE PauseTimeout(e) \/ \E o \in Terminal : EndPlan(e, o)
    BY <2>4 DEF PauseTimeout, EndPlan, Terminal
  <2> QED
    BY <1>3, <2>1, <2>2, <2>3, <2>4 DEF Work
<1>4. ASSUME NEW e \in Exec,
             Pause(e) \/ Resume(e) \/ InfraFailure(e) \/ DbFault(e)
      PROVE  OutcomeKnown'
  <2>1. CASE exec' = [exec EXCEPT ![e].pc = "finish", ![e].final = "failed"]
    BY <2>1 DEF Terminal
  <2> QED
    BY <1>4, <1>1, <1>2, <2>1 DEF Pause, Resume, InfraFailure, DbFault
<1>5. ASSUME NEW e \in Exec, NEW r \in CloudRun, ClaimNextJob(e, r)
      PROVE  OutcomeKnown'
  BY <1>5 DEF ClaimNextJob, Started
<1>6. ASSUME NEW e \in Exec, NEW r \in ExtensionRun, NEW o \in Terminal,
             ExtensionReports(e, r, o)
      PROVE  OutcomeKnown'
  BY <1>6 DEF ExtensionReports, Started
<1>7. ASSUME NEW p \in Proc, Crash(p) PROVE OutcomeKnown'
  BY <1>7, IdleType DEF Crash
<1>8. CASE UNCHANGED exec
  BY <1>8
<1> QED
  BY <1>3, <1>4, <1>5, <1>6, <1>7, <1>8
     DEF Next, vars, CreateRun, EnqueueRunJob, EnqueueFails, FailUnqueuedRun,
         RecoverStuckJob, PruneJob, RemoveSkill

\* Whatever happens, a terminal status stays and a created run stays created.
LEMMA StepKeepsStatus == TypeOK /\ OutcomeKnown /\ [Next]_vars => StatusKept
<1> SUFFICES ASSUME TypeOK, OutcomeKnown, [Next]_vars PROVE StatusKept
  OBVIOUS
<1>1. ASSUME NEW r \in Run, CreateRun(r) PROVE StatusKept
  BY <1>1 DEF CreateRun, TypeOK, RowsTypeOK, StatusKept, IsTerminal, Terminal
<1>2. ASSUME NEW r \in CloudRun, FailUnqueuedRun(r) PROVE StatusKept
  <2>1. CASE Finish(r, "failed")
    BY <2>1, FinishKeeps DEF TypeOK, Run, RunStatus, Terminal
  <2>2. CASE UNCHANGED status
    BY <2>2 DEF StatusKept
  <2> QED
    BY <1>2, <2>1, <2>2 DEF FailUnqueuedRun
<1>3. ASSUME NEW e \in Exec,
             FinishSkillRemoved(e) \/ GiveUp(e) \/ Pause(e) \/ Resume(e)
      PROVE  StatusKept
  <2>1. exec[e].run \in Run
    BY <1>3 DEF FinishSkillRemoved, GiveUp, Pause, Resume, TypeOK, ExecTypeOK
  <2>2. {"failed", "awaiting_input", "running"} \subseteq RunStatus \ {"none"}
    BY DEF RunStatus, Terminal
  <2> QED
    BY <1>3, <2>1, <2>2, FinishKeeps
       DEF FinishSkillRemoved, GiveUp, Pause, Resume, TypeOK
<1>4. ASSUME NEW e \in Exec, FinishRun(e) PROVE StatusKept
  BY <1>4 DEF FinishRun, Finish, TypeOK, RowsTypeOK, ExecTypeOK, StatusKept,
              IsTerminal, Terminal, OutcomeKnown
<1>5. CASE ~StatusWrite
  BY <1>5, OtherStepsKeepStatus DEF StatusKept
<1> QED
  BY <1>1, <1>2, <1>3, <1>4, <1>5 DEF StatusWrite

\* A settled run is never reopened, for any interleaving of executions,
\* requests and retries (finishRun, setRunStatus).
THEOREM TerminalStays == Spec => TerminalIsFinal
<1>1. TypeOK /\ OutcomeKnown /\ [Next]_vars
        => [\A r \in Run : IsTerminal(r) => status'[r] = status[r]]_vars
  BY StepKeepsStatus DEF StatusKept
<1>2. Init => OutcomeKnown
  BY IdleType DEF Init, OutcomeKnown
<1> QED
  BY <1>1, <1>2, StepOutcomeKnown, Typing, PTL DEF Spec, TerminalIsFinal

-----------------------------------------------------------------------------
(* The accounting.                                                         *)

\* Only these steps write the accounting's rows.
LEMMA OtherStepsKeepBooks ==
  ASSUME [Next]_vars
  PROVE  /\ \/ \E e \in Exec : CreditEarningOnce(e)
            \/ UNCHANGED earnings
         /\ \/ \E e \in Exec : ClaimRunBookkeeping(e)
            \/ UNCHANGED bookkept
<1>1. ASSUME NEW e \in Exec, Work(e)
      PROVE  /\ CreditEarningOnce(e) \/ UNCHANGED earnings
             /\ ClaimRunBookkeeping(e) \/ UNCHANGED bookkept
  BY <1>1 DEF Work, LoadSkill, FinishSkillRemoved, FailJobSkillRemoved, LoadRun,
     AcquireSlot, PauseTimeout, EndPlan, FinishRun, CreditEarningOnce,
     IncrementRunCount, ClaimRunBookkeeping, Announce, CompleteJob, FailJobRead,
     FailJobRequeue, FailJobForGood, GiveUp, NotifyFailed
<1> QED
  BY <1>1 DEF Next, vars, CreateRun, EnqueueRunJob, EnqueueFails,
     FailUnqueuedRun, RecoverStuckJob, PruneJob, ClaimNextJob, Pause, Resume,
     InfraFailure, DbFault, ExtensionReports, Crash, RemoveSkill

LEMMA BooksGrow ==
  ASSUME TypeOK, [Next]_vars
  PROVE  earnings \subseteq earnings' /\ \A r \in Run : bookkept[r] => bookkept'[r]
<1>1. ASSUME NEW e \in Exec, ClaimRunBookkeeping(e)
      PROVE  \A r \in Run : bookkept[r] => bookkept'[r]
  BY <1>1 DEF ClaimRunBookkeeping, TypeOK, RowsTypeOK
<1> QED
  BY <1>1, OtherStepsKeepBooks DEF CreditEarningOnce

\* An execution that does not move keeps what it knows.
LEMMA FrameAccounting ==
  ASSUME TypeOK, OutcomeKnown, [Next]_vars, NEW x \in Exec, AccountingOK(x),
         exec'[x] = exec[x]
  PROVE  AccountingOK(x)'
<1>1. StatusKept /\ earnings \subseteq earnings'
      /\ \A r \in Run : bookkept[r] => bookkept'[r]
  BY StepKeepsStatus, BooksGrow
<1>2. CASE exec[x].pc = "idle"
  BY <1>2 DEF AccountingOK
<1>3. CASE exec[x].pc # "idle"
  <2>1. exec[x].run \in Run
    BY <1>3 DEF TypeOK, ExecTypeOK
  <2> QED
    BY <1>1, <2>1 DEF AccountingOK, StatusKept, IsTerminal, Qualifies,
                      CreditedPair
<1> QED
  BY <1>2, <1>3

\* Outside the accounting there is nothing to know.
LEMMA NoAccounting ==
  ASSUME NEW x \in Exec,
         exec'[x].pc \notin {"credit", "count", "latch", "announce", "complete"}
  PROVE  AccountingOK(x)'
BY DEF AccountingOK

\* Every step leaves every execution with what it must know.
LEMMA StepAccounting ==
  ASSUME IInv, [Next]_vars
  PROVE  \A x \in Exec : AccountingOK(x)'
<1> SUFFICES ASSUME NEW x \in Exec, exec'[x] # exec[x] PROVE AccountingOK(x)'
  BY FrameAccounting DEF IInv
<1> USE DEF IInv, TypeOK, ExecTypeOK
<1> DEFINE r == exec[x].run
<1>1. ASSUME NEW e \in Exec, NEW pc, Goto(e, pc)
      PROVE  x = e /\ exec'[x].pc = pc /\ exec'[x].run = r
             /\ exec'[x].final = exec[x].final
  BY <1>1 DEF Goto, ExecState
<1>2. ASSUME NEW e \in Exec, Leave(e)
      PROVE  x = e /\ exec'[x].pc = "idle"
  BY <1>2, IdleType DEF Leave
<1>3. ASSUME NEW e \in Exec, Work(e) PROVE AccountingOK(x)'
  <2>1. CASE \/ LoadSkill(e) \/ FinishSkillRemoved(e) \/ FailJobSkillRemoved(e)
             \/ AcquireSlot(e) \/ CompleteJob(e) \/ FailJobRequeue(e)
             \/ FailJobForGood(e) \/ GiveUp(e) \/ NotifyFailed(e)
    <3>1. exec'[x].pc \in {"idle", "noSkill", "loaded", "removed", "browser",
                           "giveUp", "notify"}
      BY <2>1, <1>1, <1>2
         DEF LoadSkill, FinishSkillRemoved, FailJobSkillRemoved, AcquireSlot,
             CompleteJob, FailJobRequeue, FailJobForGood, GiveUp, NotifyFailed
    <3> QED
      BY <3>1, NoAccounting
  <2>2. CASE FailJobRead(e) \/ PauseTimeout(e) \/ \E o \in Terminal : EndPlan(e, o)
    <3>1. exec'[x].pc \in {"failWrite", "finish"}
      BY <2>2 DEF FailJobRead, PauseTimeout, EndPlan, ExecState
    <3> QED
      BY <3>1, NoAccounting
  <2>3. CASE LoadRun(e)
    <3>1. x = e /\ exec'[x].run = r /\ exec'[x].pc = AfterLoad(r)
          /\ exec'[x].final = IF IsTerminal(r) THEN status[r] ELSE exec[x].final
      BY <2>3 DEF LoadRun, ExecState
    <3>2. status' = status /\ bookkept' = bookkept
      BY <2>3 DEF LoadRun
    <3> QED
      BY <3>1, <3>2 DEF AccountingOK, AfterLoad, IsTerminal
  <2>4. CASE FinishRun(e)
    <3>1. x = e /\ exec'[x].run = r /\ exec'[x].pc = "credit"
          /\ exec'[x].final = status'[r]
      BY <2>4 DEF FinishRun, ExecState
    <3>2. status'[r] \in Terminal
      BY <2>4, <3>1 DEF FinishRun, Finish, RowsTypeOK, OutcomeKnown
    <3> QED
      BY <3>1, <3>2 DEF AccountingOK, IsTerminal
  <2>5. CASE CreditEarningOnce(e)
    <3> DEFINE wrote == Qualifies(e) /\ NotYetCredited(exec[e].run)
    <3>1. x = e /\ exec'[x].pc = AfterCredit(e, wrote) /\ exec'[x].run = r
          /\ exec'[x].final = exec[x].final /\ r \in Run
      BY <2>5, <1>1 DEF CreditEarningOnce
    <3>2. status' = status /\ earnings' = earnings \cup (IF wrote THEN {r} ELSE {})
      BY <2>5, <3>1 DEF CreditEarningOnce
    <3>3. IsTerminal(r) /\ exec[x].final = status[r]
      BY <2>5, <3>1 DEF CreditEarningOnce, AccountingOK
    <3>4. CASE wrote
      BY <3>1, <3>2, <3>3, <3>4 DEF AfterCredit, AccountingOK, IsTerminal
    <3>5. CASE ~wrote
      BY <3>1, <3>2, <3>3, <3>5
         DEF AfterCredit, AccountingOK, IsTerminal, Qualifies, NotYetCredited,
             CreditedPair
    <3> QED
      BY <3>4, <3>5
  <2>6. CASE IncrementRunCount(e)
    <3>1. x = e /\ exec'[x].pc = "latch" /\ exec'[x].run = r
          /\ exec'[x].final = exec[x].final
      BY <2>6, <1>1 DEF IncrementRunCount
    <3>2. status' = status /\ earnings' = earnings
      BY <2>6 DEF IncrementRunCount
    <3> QED
      BY <2>6, <3>1, <3>2
         DEF IncrementRunCount, AccountingOK, IsTerminal, CreditedPair, SamePair
  <2>7. CASE ClaimRunBookkeeping(e)
    <3>1. /\ x = e /\ exec'[x].final = exec[x].final /\ exec'[x].run = r
          /\ exec'[x].pc \in {"announce", "complete"}
          \/ exec'[x].pc = "idle"
      BY <2>7, <1>1, <1>2 DEF ClaimRunBookkeeping, AfterAccounting
    <3>2. CASE exec'[x].pc = "idle"
      BY <3>2, NoAccounting
    <3>3. CASE exec'[x].pc # "idle"
      <4>1. r \in Run /\ bookkept'[r]
        BY <2>7, <3>1, <3>3 DEF ClaimRunBookkeeping, RowsTypeOK
      <4>2. status' = status /\ earnings' = earnings
        BY <2>7 DEF ClaimRunBookkeeping
      <4> QED
        BY <2>7, <3>1, <3>3, <4>1, <4>2
           DEF ClaimRunBookkeeping, AccountingOK, IsTerminal, CreditedPair,
               Qualifies
    <3> QED
      BY <3>2, <3>3
  <2>8. CASE Announce(e)
    <3>1. (x = e /\ exec'[x].pc = "complete" /\ exec'[x].run = r)
          \/ exec'[x].pc = "idle"
      BY <2>8, <1>1, <1>2 DEF Announce, AfterAccounting
    <3> QED
      BY <2>8, <3>1 DEF Announce, AccountingOK, IsTerminal
  <2> QED
    BY <1>3, <2>1, <2>2, <2>3, <2>4, <2>5, <2>6, <2>7, <2>8 DEF Work
<1>4. ASSUME NEW e \in Exec,
             Pause(e) \/ Resume(e) \/ InfraFailure(e) \/ DbFault(e)
      PROVE  AccountingOK(x)'
  <2>1. exec'[x].pc \in {"paused", "browser", "failing", "idle", "notify",
                         "removed", "finish"}
    BY <1>4, <1>1, <1>2 DEF Pause, Resume, InfraFailure, DbFault, ExecState
  <2> QED
    BY <2>1, NoAccounting
<1>5. ASSUME NEW e \in Exec, NEW q \in CloudRun, ClaimNextJob(e, q)
      PROVE  AccountingOK(x)'
  BY <1>5, NoAccounting DEF ClaimNextJob, Started
<1>6. ASSUME NEW e \in Exec, NEW q \in ExtensionRun, NEW o \in Terminal,
             ExtensionReports(e, q, o)
      PROVE  AccountingOK(x)'
  BY <1>6, NoAccounting DEF ExtensionReports, Started
<1>7. ASSUME NEW p \in Proc, Crash(p) PROVE AccountingOK(x)'
  BY <1>7, IdleType, NoAccounting DEF Crash
<1> QED
  BY <1>3, <1>4, <1>5, <1>6, <1>7
     DEF Next, vars, CreateRun, EnqueueRunJob, EnqueueFails, FailUnqueuedRun,
         RecoverStuckJob, PruneJob, RemoveSkill

\* A job is done only through completeJob.
LEMMA OnlyCompleteJobDone ==
  ASSUME TypeOK, [Next]_vars, NEW r \in CloudRun,
         job'[r].status = "done", job[r].status # "done"
  PROVE  \E e \in Exec : CompleteJob(e) /\ exec[e].run = r
<1> USE DEF TypeOK, RowsTypeOK, JobRow, Run
<1>1. ASSUME NEW e \in Exec, Work(e)
      PROVE  CompleteJob(e) /\ exec[e].run = r
  <2>1. CASE CompleteJob(e)
    BY <2>1 DEF CompleteJob
  <2>2. CASE \/ LoadSkill(e) \/ FinishSkillRemoved(e) \/ LoadRun(e)
             \/ AcquireSlot(e) \/ PauseTimeout(e) \/ FinishRun(e)
             \/ CreditEarningOnce(e) \/ IncrementRunCount(e)
             \/ ClaimRunBookkeeping(e) \/ Announce(e) \/ FailJobRead(e)
             \/ GiveUp(e) \/ NotifyFailed(e)
             \/ \E o \in Terminal : EndPlan(e, o)
    BY <2>2 DEF LoadSkill, FinishSkillRemoved, LoadRun, AcquireSlot,
       PauseTimeout, FinishRun, CreditEarningOnce, IncrementRunCount,
       ClaimRunBookkeeping, Announce, FailJobRead, GiveUp, NotifyFailed, EndPlan
  <2>3. CASE FailJobSkillRemoved(e) \/ FailJobRequeue(e) \/ FailJobForGood(e)
    BY <2>3 DEF FailJobSkillRemoved, FailJobRequeue, FailJobForGood
  <2> QED
    BY <1>1, <2>1, <2>2, <2>3 DEF Work
<1>2. ASSUME NEW q \in CloudRun, EnqueueRunJob(q) \/ RecoverStuckJob(q) \/ PruneJob(q)
      PROVE  FALSE
  BY <1>2 DEF EnqueueRunJob, RecoverStuckJob, PruneJob
<1>3. ASSUME NEW q \in CloudRun, NEW e \in Exec, ClaimNextJob(e, q) PROVE FALSE
  BY <1>3 DEF ClaimNextJob
<1> QED
  BY <1>1, <1>2, <1>3 DEF Next, vars, CreateRun, EnqueueFails, FailUnqueuedRun,
     Pause, Resume, InfraFailure, DbFault, ExtensionReports, Crash, RemoveSkill

\* Every step keeps the rows of the accounting consistent.
LEMMA StepRows == ASSUME IInv, [Next]_vars PROVE RowsInv'
<1> USE DEF IInv
<1>1. StatusKept /\ earnings \subseteq earnings'
      /\ \A r \in Run : bookkept[r] => bookkept'[r]
  BY StepKeepsStatus, BooksGrow
<1>2. ASSUME NEW r \in Run, bookkept'[r], ~bookkept[r]
      PROVE  /\ IsTerminal(r) /\ earnings' = earnings
             /\ status[r] = "completed" /\ External(r) => CreditedPair(r)
  <2>1. PICK e \in Exec : ClaimRunBookkeeping(e)
    BY <1>2, OtherStepsKeepBooks
  <2>2. exec[e].run = r /\ earnings' = earnings /\ exec[e].pc = "latch"
    BY <1>2, <2>1 DEF ClaimRunBookkeeping, TypeOK, RowsTypeOK
  <2> QED
    BY <2>2 DEF AccountingOK, Qualifies
<1>3. (\A r \in Run : bookkept[r] => IsTerminal(r))'
  BY <1>1, <1>2 DEF RowsInv, StatusKept, IsTerminal
<1>4. DoneMeansSettled'
  <2> SUFFICES ASSUME NEW r \in CloudRun, job'[r].status = "done"
               PROVE  IsTerminal(r)' /\ bookkept'[r]
    BY DEF DoneMeansSettled
  <2>1. IsTerminal(r) /\ bookkept[r]
    <3>1. CASE job[r].status = "done"
      BY <3>1 DEF RowsInv, DoneMeansSettled
    <3>2. CASE job[r].status # "done"
      <4>1. PICK e \in Exec : CompleteJob(e) /\ exec[e].run = r
        BY <3>2, OnlyCompleteJobDone
      <4> QED
        BY <4>1 DEF CompleteJob, AccountingOK
    <3> QED
      BY <3>1, <3>2
  <2> QED
    BY <1>1, <2>1 DEF StatusKept, IsTerminal, Run
<1>5. BookedMeansCredited'
  BY <1>1, <1>2
     DEF RowsInv, BookedMeansCredited, StatusKept, IsTerminal, CreditedPair,
         External
<1>6. (OneCreditPerPair /\ CreditedMeansCompleted)'
  <2>1. ASSUME NEW e \in Exec, CreditEarningOnce(e)
        PROVE  (OneCreditPerPair /\ CreditedMeansCompleted)'
    <3> DEFINE r == exec[e].run
    <3>1. status' = status /\ status[r] = exec[e].final
      BY <2>1 DEF CreditEarningOnce, AccountingOK
    <3>2. earnings' = earnings \/ (/\ earnings' = earnings \cup {r}
                                   /\ Qualifies(e) /\ NotYetCredited(r))
      BY <2>1 DEF CreditEarningOnce
    <3> QED
      BY <3>1, <3>2 DEF RowsInv, OneCreditPerPair, CreditedMeansCompleted,
         Qualifies, NotYetCredited, SamePair, External
  <2>2. CASE UNCHANGED earnings
    <3>1. \A r \in earnings : r \in Run /\ IsTerminal(r)
      BY DEF TypeOK, RowsTypeOK, RowsInv, CreditedMeansCompleted, IsTerminal,
             Terminal
    <3> QED
      BY <1>1, <2>2, <3>1 DEF RowsInv, OneCreditPerPair, CreditedMeansCompleted,
         StatusKept, SamePair, External
  <2> QED
    BY <2>1, <2>2, OtherStepsKeepBooks
<1> QED
  BY <1>3, <1>4, <1>5, <1>6 DEF RowsInv

\* Whoever starts to work on a run, or queues it, finds it created.
LEMMA StepCreated == ASSUME IInv, [Next]_vars PROVE CreatedOK'
<1> USE DEF IInv, CreatedOK
<1>1. StatusKept
  BY StepKeepsStatus
<1>2. ASSUME NEW x \in Exec, exec'[x].pc # "idle"
      PROVE  status'[exec'[x].run] # "none"
  <2>1. CASE exec[x].pc # "idle" /\ exec'[x].run = exec[x].run
    BY <1>1, <2>1 DEF StatusKept, TypeOK, ExecTypeOK
  <2>2. CASE exec[x].pc = "idle" \/ exec'[x].run # exec[x].run
    <3> USE DEF TypeOK, ExecTypeOK, ExecState
    <3>1. ASSUME NEW e \in Exec, NEW pc, Goto(e, pc), exec[e].pc # "idle"
          PROVE  FALSE
      BY <1>2, <2>2, <3>1 DEF Goto
    <3>2. ASSUME NEW e \in Exec, Leave(e) PROVE FALSE
      BY <1>2, <2>2, <3>2, IdleType DEF Leave
    <3>3. ASSUME NEW e \in Exec, Work(e) PROVE FALSE
      <4>1. CASE \/ LoadSkill(e) \/ FinishSkillRemoved(e)
                 \/ FailJobSkillRemoved(e) \/ AcquireSlot(e)
                 \/ CreditEarningOnce(e) \/ IncrementRunCount(e)
                 \/ ClaimRunBookkeeping(e) \/ Announce(e)
        BY <4>1, <3>1, <3>2
           DEF LoadSkill, FinishSkillRemoved, FailJobSkillRemoved, AcquireSlot,
               CreditEarningOnce, IncrementRunCount, ClaimRunBookkeeping,
               Announce, AfterAccounting
      <4>2. CASE \/ CompleteJob(e) \/ FailJobRequeue(e) \/ FailJobForGood(e)
                 \/ GiveUp(e) \/ NotifyFailed(e)
        BY <4>2, <3>1, <3>2
           DEF CompleteJob, FailJobRequeue, FailJobForGood, GiveUp, NotifyFailed
      <4>3. CASE LoadRun(e) \/ PauseTimeout(e) \/ FinishRun(e) \/ FailJobRead(e)
                 \/ \E o \in Terminal : EndPlan(e, o)
        BY <1>2, <2>2, <4>3
           DEF LoadRun, PauseTimeout, FinishRun, FailJobRead, EndPlan
      <4> QED
        BY <3>3, <4>1, <4>2, <4>3 DEF Work
    <3>4. ASSUME NEW e \in Exec,
                 Pause(e) \/ Resume(e) \/ InfraFailure(e) \/ DbFault(e)
          PROVE  FALSE
      BY <1>2, <2>2, <3>1, <3>2, <3>4 DEF Pause, Resume, InfraFailure, DbFault
    <3>5. ASSUME NEW e \in Exec, NEW q \in CloudRun, ClaimNextJob(e, q)
          PROVE  status'[exec'[x].run] # "none"
      <4>1. x = e /\ exec'[x].run = q /\ status' = status
        BY <1>2, <2>2, <3>5 DEF ClaimNextJob, Started
      <4> QED
        BY <3>5, <4>1 DEF ClaimNextJob, Run
    <3>6. ASSUME NEW e \in Exec, NEW q \in ExtensionRun, NEW o \in Terminal,
                 ExtensionReports(e, q, o)
          PROVE  status'[exec'[x].run] # "none"
      <4>1. x = e /\ exec'[x].run = q /\ status' = status
        BY <1>2, <2>2, <3>6 DEF ExtensionReports, Started
      <4> QED
        BY <3>6, <4>1 DEF ExtensionReports
    <3>7. ASSUME NEW p \in Proc, Crash(p) PROVE FALSE
      BY <1>2, <2>2, <3>7, IdleType DEF Crash
    <3>8. CASE UNCHANGED exec
      BY <1>2, <2>2, <3>8
    <3> QED
      BY <3>3, <3>4, <3>5, <3>6, <3>7, <3>8
         DEF Next, vars, CreateRun, EnqueueRunJob, EnqueueFails,
             FailUnqueuedRun, RecoverStuckJob, PruneJob, RemoveSkill
  <2> QED
    BY <2>1, <2>2
<1>3. ASSUME NEW r \in Run, job'[r].status # "none" PROVE status'[r] # "none"
  <2>1. CASE job[r].status # "none"
    BY <1>1, <2>1 DEF StatusKept
  <2>2. CASE job[r].status = "none"
    <3> USE DEF TypeOK, RowsTypeOK, ExecTypeOK, JobRow, Run
    <3>1. ASSUME NEW e \in Exec, Work(e), UNCHANGED job PROVE FALSE
      BY <1>3, <2>2, <3>1
    <3>2. ASSUME NEW e \in Exec,
                 \/ FailJobSkillRemoved(e) \/ CompleteJob(e)
                 \/ FailJobRequeue(e) \/ FailJobForGood(e)
          PROVE  status'[r] # "none"
      <4>1. r = exec[e].run /\ exec[e].pc # "idle" /\ status' = status
        BY <1>3, <2>2, <3>2 DEF FailJobSkillRemoved, CompleteJob, FailJobRequeue,
                                FailJobForGood
      <4> QED
        BY <4>1
    <3>3. ASSUME NEW e \in Exec, Work(e) PROVE status'[r] # "none"
      BY <1>3, <2>2, <3>1, <3>2, <3>3
         DEF Work, LoadSkill, FinishSkillRemoved, LoadRun, AcquireSlot,
             PauseTimeout, EndPlan, FinishRun, CreditEarningOnce,
             IncrementRunCount, ClaimRunBookkeeping, Announce, FailJobRead,
             GiveUp, NotifyFailed
    <3>4. ASSUME NEW q \in CloudRun, EnqueueRunJob(q) PROVE status'[r] # "none"
      BY <1>3, <2>2, <3>4 DEF EnqueueRunJob
    <3>5. ASSUME NEW q \in CloudRun, RecoverStuckJob(q) \/ PruneJob(q) PROVE FALSE
      BY <1>3, <2>2, <3>5 DEF RecoverStuckJob, Recoverable, PruneJob
    <3>6. ASSUME NEW q \in CloudRun, NEW e \in Exec, ClaimNextJob(e, q) PROVE FALSE
      BY <1>3, <2>2, <3>6 DEF ClaimNextJob
    <3>7. CASE UNCHANGED job
      BY <1>3, <2>2, <3>7
    <3> QED
      BY <3>3, <3>4, <3>5, <3>6, <3>7
         DEF Next, vars, CreateRun, EnqueueFails, FailUnqueuedRun, Pause, Resume,
             InfraFailure, DbFault, ExtensionReports, Crash, RemoveSkill
  <2> QED
    BY <2>1, <2>2
<1>4. ASSUME NEW r \in Run, request'[r] \in {"enqueueing", "rejected"}
      PROVE  status'[r] # "none"
  <2>1. CASE request[r] \in {"enqueueing", "rejected"}
    BY <1>1, <2>1 DEF StatusKept
  <2>2. CASE request[r] \notin {"enqueueing", "rejected"}
    <3> USE DEF TypeOK, RowsTypeOK, Run
    <3>1. ASSUME NEW q \in Run, CreateRun(q) PROVE status'[r] # "none"
      BY <1>4, <2>2, <3>1 DEF CreateRun
    <3>2. ASSUME NEW q \in CloudRun,
                 EnqueueRunJob(q) \/ EnqueueFails(q) \/ FailUnqueuedRun(q)
          PROVE  FALSE
      BY <1>4, <2>2, <3>2 DEF EnqueueRunJob, EnqueueFails, FailUnqueuedRun
    <3>3. ASSUME NEW p \in Proc, Crash(p) PROVE FALSE
      BY <1>4, <2>2, <3>3 DEF Crash
    <3>4. CASE UNCHANGED request
      BY <1>4, <2>2, <3>4
    <3>5. ASSUME NEW e \in Exec, Work(e) PROVE UNCHANGED request
      BY <3>5
         DEF Work, LoadSkill, FinishSkillRemoved, FailJobSkillRemoved, LoadRun,
             AcquireSlot, PauseTimeout, EndPlan, FinishRun, CreditEarningOnce,
             IncrementRunCount, ClaimRunBookkeeping, Announce, CompleteJob,
             FailJobRead, FailJobRequeue, FailJobForGood, GiveUp, NotifyFailed
    <3> QED
      BY <3>1, <3>2, <3>3, <3>4, <3>5
         DEF Next, vars, RecoverStuckJob, PruneJob, ClaimNextJob, Pause, Resume,
             InfraFailure, DbFault, ExtensionReports, RemoveSkill
  <2> QED
    BY <2>1, <2>2
<1> QED
  BY <1>2, <1>3, <1>4

-----------------------------------------------------------------------------
(* The theorems.                                                           *)

LEMMA InitInv == Init => IInv
<1> SUFFICES ASSUME Init PROVE IInv
  OBVIOUS
<1>1. TypeOK /\ \A e \in Exec : exec[e].pc = "idle"
  BY InitType, IdleType DEF Init
<1> QED
  BY <1>1 DEF Init, IInv, OutcomeKnown, CreatedOK, RowsInv, DoneMeansSettled,
     BookedMeansCredited, OneCreditPerPair, CreditedMeansCompleted,
     AccountingOK, Run

LEMMA StepInv == IInv /\ [Next]_vars => IInv'
BY StepType, StepOutcomeKnown, StepCreated, StepRows, StepAccounting DEF IInv

THEOREM Invariant == Spec => []IInv
BY InitInv, StepInv, PTL DEF Spec

\* "done" stops every later attempt at a job, so a done job's run is settled
\* and its bookkeeping latched (completeJob after finalizeRunAccounting).
THEOREM DoneIsSettled == Spec => []DoneMeansSettled
<1>1. IInv => DoneMeansSettled
  BY DEF IInv, RowsInv
<1> QED
  BY <1>1, Invariant, PTL

\* The latch of a completed run is only ever taken after its creator's credit
\* (the order of creditEarningOnce and claimRunBookkeeping).
THEOREM BookedIsCredited == Spec => []BookedMeansCredited
<1>1. IInv => BookedMeansCredited
  BY DEF IInv, RowsInv
<1> QED
  BY <1>1, Invariant, PTL

\* Earnings hold one row per (skill, runner), each for a run whose stored
\* status is completed and whose runner is not the owner.
THEOREM CreditsAreEarned == Spec => [](OneCreditPerPair /\ CreditedMeansCompleted)
<1>1. IInv => OneCreditPerPair /\ CreditedMeansCompleted
  BY DEF IInv, RowsInv
<1> QED
  BY <1>1, Invariant, PTL

\* All of the accounting that the rows of runs, jobs and earnings show, for any
\* runs, executions, crashes and failures (finalizeRunAccounting, completeJob).
THEOREM AccountingHolds == Spec => []AccountingExact
<1>1. IInv => AccountingExact
  BY DEF IInv, RowsInv, AccountingExact
<1> QED
  BY <1>1, Invariant, PTL

-----------------------------------------------------------------------------
(* The fence.                                                              *)

\* A superseded execution leaves its job's row alone, whatever step it takes.
LEMMA StepFence ==
  ASSUME TypeOK, [Next]_vars, NEW x \in Exec,
         exec[x].pc \notin {"idle", "removed"}, exec'[x] # exec[x],
         exec[x].run \in CloudRun,
         job[exec[x].run].lockedAt # exec[x].lockedAt
  PROVE  job'[exec[x].run] = job[exec[x].run]
<1> USE DEF TypeOK, RowsTypeOK, ExecTypeOK
<1>1. ASSUME NEW e \in Exec, exec' = [exec EXCEPT ![e] = exec'[e]] PROVE x = e
  BY <1>1
<1>2. ASSUME NEW e \in Exec, CompleteJob(e) \/ FailJobRequeue(e) \/ FailJobForGood(e)
      PROVE  UNCHANGED job
  <2>1. exec' = [exec EXCEPT ![e] = exec'[e]]
    BY <1>2 DEF CompleteJob, FailJobRequeue, FailJobForGood, Goto, Leave, ExecState
  <2> QED
    BY <1>1, <1>2, <2>1
       DEF CompleteJob, FailJobRequeue, FailJobForGood, HoldsClaim
<1>3. ASSUME NEW e \in Exec, FailJobSkillRemoved(e) PROVE FALSE
  BY <1>3 DEF FailJobSkillRemoved, Leave
<1>4. ASSUME NEW e \in Exec, NEW q \in CloudRun, ClaimNextJob(e, q) PROVE FALSE
  BY <1>4 DEF ClaimNextJob
<1>5. ASSUME NEW q \in CloudRun,
             EnqueueRunJob(q) \/ RecoverStuckJob(q) \/ PruneJob(q)
      PROVE  FALSE
  BY <1>5 DEF EnqueueRunJob, RecoverStuckJob, PruneJob
<1>6. ASSUME NEW e \in Exec, Work(e) PROVE UNCHANGED job
  BY <1>2, <1>3, <1>6
     DEF Work, LoadSkill, FinishSkillRemoved, LoadRun, AcquireSlot,
         PauseTimeout, EndPlan, FinishRun, CreditEarningOnce,
         IncrementRunCount, ClaimRunBookkeeping, Announce, FailJobRead, GiveUp,
         NotifyFailed
<1> QED
  BY <1>4, <1>5, <1>6
     DEF Next, vars, CreateRun, EnqueueFails, FailUnqueuedRun, Pause, Resume,
         InfraFailure, DbFault, ExtensionReports, Crash, RemoveSkill

\* The fence on locked_at, for any number of claims, recoveries and stale
\* executions (completeJob, failJob).
THEOREM FenceHolds == Spec => StaleExecutionHarmless
<1> DEFINE A == \A e \in Exec :
                  LET r == exec[e].run IN
                  /\ exec[e].pc \notin {"idle", "removed"} /\ exec'[e] # exec[e]
                  /\ r \in CloudRun /\ job[r].lockedAt # exec[e].lockedAt
                  => job'[r] = job[r]
<1>1. TypeOK /\ [Next]_vars => [A]_vars
  BY StepFence
<1> QED
  BY <1>1, Typing, PTL DEF Spec, StaleExecutionHarmless

-----------------------------------------------------------------------------
(* The refinement.                                                         *)

Shown(st) == IF st = "awaiting_input" THEN "running" ELSE st
ShownStatus == [r \in Run |-> Shown(status[r])]

\* A guarded write settles one run, or shows no change.
LEMMA FinishRefines ==
  ASSUME IInv, NEW r \in Run, NEW st \in RunStatus \ {"none"}, status[r] # "none",
         Finish(r, st) \/ SetRunStatus(r, st), UNCHANGED <<earnings, bookkept>>
  PROVE  [Contract!Next]_(Contract!contractVars)
<1>1. /\ \A x \in Run : x # r => status'[x] = status[x]
      /\ status'[r] = IF IsTerminal(r) THEN status[r] ELSE st
  BY FinishKeeps DEF IInv, TypeOK
<1>2. CASE Shown(status'[r]) = Shown(status[r])
  <2>1. ShownStatus' = ShownStatus
    BY <1>1, <1>2 DEF ShownStatus
  <2> QED
    BY <2>1 DEF Contract!contractVars, ShownStatus, Shown
<1>3. CASE Shown(status'[r]) # Shown(status[r])
  <2>1. st \in Terminal /\ Shown(status[r]) = "running" /\ status'[r] = st
        /\ Shown(st) = st
    BY <1>1, <1>3 DEF Shown, IsTerminal, IInv, TypeOK, RowsTypeOK, RunStatus,
                      Terminal
  <2>2. ShownStatus' = [ShownStatus EXCEPT ![r] = st]
    BY <1>1, <2>1 DEF ShownStatus
  <2>3. Contract!Settle(r, st)
    BY <2>1, <2>2 DEF Contract!Settle, ShownStatus, Shown
  <2> QED
    BY <2>1, <2>3 DEF Contract!Next, Contract!Outcome, Terminal
<1> QED
  BY <1>2, <1>3

\* Every step of the queue is a step of the contract or shows no change.
LEMMA StepRefines ==
  ASSUME IInv, [Next]_vars
  PROVE  [Contract!Next]_(Contract!contractVars)
<1> USE DEF IInv, TypeOK, RowsTypeOK, ExecTypeOK
<1>1. ASSUME NEW r \in Run, CreateRun(r)
      PROVE  [Contract!Next]_(Contract!contractVars)
  <2>1. ShownStatus' = [ShownStatus EXCEPT ![r] = "running"]
    BY <1>1 DEF CreateRun, ShownStatus, Shown
  <2>2. Contract!Open(r)
    BY <1>1, <2>1 DEF CreateRun, Contract!Open, ShownStatus, Shown
  <2> QED
    BY <2>2 DEF Contract!Next
<1>2. ASSUME NEW r \in CloudRun, FailUnqueuedRun(r)
      PROVE  [Contract!Next]_(Contract!contractVars)
  <2>1. CASE Finish(r, "failed")
    BY <1>2, <2>1, FinishRefines
       DEF FailUnqueuedRun, CreatedOK, Run, RunStatus, Terminal
  <2>2. CASE UNCHANGED status
    BY <1>2, <2>2 DEF FailUnqueuedRun, Contract!contractVars
  <2> QED
    BY <1>2, <2>1, <2>2 DEF FailUnqueuedRun
<1>3. ASSUME NEW e \in Exec,
             FinishSkillRemoved(e) \/ GiveUp(e) \/ Pause(e) \/ Resume(e)
      PROVE  [Contract!Next]_(Contract!contractVars)
  <2>1. exec[e].run \in Run /\ status[exec[e].run] # "none"
    BY <1>3 DEF FinishSkillRemoved, GiveUp, Pause, Resume, CreatedOK
  <2>2. {"failed", "awaiting_input", "running"} \subseteq RunStatus \ {"none"}
    BY DEF RunStatus, Terminal
  <2> HIDE DEF IInv
  <2> QED
    BY <1>3, <2>1, <2>2, FinishRefines
       DEF FinishSkillRemoved, GiveUp, Pause, Resume
<1>4. ASSUME NEW e \in Exec, FinishRun(e)
      PROVE  [Contract!Next]_(Contract!contractVars)
  <2>1. exec[e].run \in Run /\ status[exec[e].run] # "none"
    BY <1>4 DEF FinishRun, CreatedOK
  <2>2. exec[e].final \in RunStatus \ {"none"}
    BY <1>4 DEF FinishRun, OutcomeKnown, RunStatus, Terminal
  <2> HIDE DEF IInv
  <2> QED
    BY <1>4, <2>1, <2>2, FinishRefines DEF FinishRun
<1>5. ASSUME NEW e \in Exec, CreditEarningOnce(e)
      PROVE  [Contract!Next]_(Contract!contractVars)
  <2> DEFINE r == exec[e].run
             wrote == Qualifies(e) /\ NotYetCredited(exec[e].run)
  <2>1. status' = status /\ bookkept' = bookkept /\ r \in Run
        /\ earnings' = earnings \cup (IF wrote THEN {r} ELSE {})
    BY <1>5 DEF CreditEarningOnce
  <2>2. CASE ~wrote
    BY <2>1, <2>2 DEF Contract!contractVars
  <2>3. CASE wrote
    <3>1. status[r] = "completed" /\ External(r)
      BY <1>5, <2>3 DEF CreditEarningOnce, AccountingOK, Qualifies
    <3>2. Contract!Credit(r)
      BY <2>1, <2>3, <3>1
         DEF Contract!Credit, Contract!Earns, Contract!PairCredited, External,
             NotYetCredited, SamePair
    <3> QED
      BY <2>1, <3>2 DEF Contract!Next
  <2> QED
    BY <2>2, <2>3
<1>6. ASSUME NEW e \in Exec, ClaimRunBookkeeping(e)
      PROVE  [Contract!Next]_(Contract!contractVars)
  <2>0. PICK r \in Run : r = exec[e].run
    BY <1>6 DEF ClaimRunBookkeeping
  <2> DEFINE booked == {q \in Run : bookkept[q]}
  <2>1. status' = status /\ earnings' = earnings
        /\ bookkept' = [bookkept EXCEPT ![r] = TRUE]
    BY <1>6, <2>0 DEF ClaimRunBookkeeping
  <2>2. CASE bookkept[r]
    BY <2>1, <2>2 DEF Contract!contractVars
  <2>3. CASE ~bookkept[r]
    <3>1. status[r] \in Terminal /\ exec[e].final = status[r]
      BY <1>6, <2>0 DEF ClaimRunBookkeeping, AccountingOK, IsTerminal
    <3>2. status[r] = "completed" /\ External(r) => CreditedPair(r)
      BY <1>6, <2>0, <3>1 DEF ClaimRunBookkeeping, AccountingOK, Qualifies
    <3>3. booked' = booked \cup {r} /\ r \notin booked
      BY <2>1, <2>3
    <3>4. Contract!Book(r)
      BY <2>1, <3>1, <3>2, <3>3
         DEF Contract!Book, Contract!Earns, Contract!PairCredited,
             Contract!Outcome, External, CreditedPair, SamePair, Terminal
    <3> QED
      BY <3>4 DEF Contract!Next
  <2> QED
    BY <2>2, <2>3
<1>7. CASE UNCHANGED <<status, earnings, bookkept>>
  BY <1>7 DEF Contract!contractVars
<1>8. CASE ~StatusWrite /\ UNCHANGED <<earnings, bookkept>>
  BY <1>7, <1>8, OtherStepsKeepStatus
<1>9. CASE StatusWrite
  BY <1>1, <1>2, <1>3, <1>4, <1>9 DEF StatusWrite
<1> QED
  BY <1>5, <1>6, <1>8, <1>9, OtherStepsKeepBooks

\* The queue implements the contract: whatever its crashes, retries,
\* recoveries and concurrent executions, each run settles once, earns its
\* credit once per pair and is booked once, in that order.
THEOREM Refinement == Spec => ImplementsContract
<1>1. Init => Contract!Init
  BY DEF Init, Contract!Init
<1>2. IInv /\ [Next]_vars => [Contract!Next]_(Contract!contractVars)
  BY StepRefines
<1> QED
  BY <1>1, <1>2, Invariant, PTL DEF Spec, Contract!Spec, ImplementsContract

-----------------------------------------------------------------------------
(* The marketplace count.                                                  *)

\* The executions between a credit and its count.
Counting(s) == {e \in Exec : exec[e].pc = "count" /\ SkillOf[exec[e].run] = s}

CountInv ==
    \A s \in Skill :
        /\ IsFiniteSet(Counting(s)) /\ IsFiniteSet(CreditsOf(s))
        /\ runCount[s] + Cardinality(Counting(s)) <= Cardinality(CreditsOf(s))

\* A step that credits and counts nothing, and sends no execution to count.
LEMMA CountFrame ==
  ASSUME TypeOK, TypeOK', CountInv, UNCHANGED <<earnings, runCount>>,
         \A x \in Exec : exec'[x].pc = "count" => exec'[x] = exec[x]
  PROVE  CountInv'
<1> SUFFICES ASSUME NEW s \in Skill
             PROVE  /\ IsFiniteSet(Counting(s)') /\ IsFiniteSet(CreditsOf(s)')
                    /\ runCount'[s] + Cardinality(Counting(s)') <= Cardinality(CreditsOf(s)')
  BY DEF CountInv
<1>1. /\ IsFiniteSet(Counting(s)) /\ IsFiniteSet(CreditsOf(s))
      /\ runCount[s] + Cardinality(Counting(s)) <= Cardinality(CreditsOf(s))
  BY DEF CountInv
<1>2. Counting(s)' \subseteq Counting(s)
  BY DEF Counting
<1>3. CreditsOf(s)' = CreditsOf(s) /\ runCount'[s] = runCount[s] /\ runCount[s] \in Nat
  BY DEF CreditsOf, TypeOK, RowsTypeOK
<1>4. IsFiniteSet(Counting(s)') /\ Cardinality(Counting(s)') <= Cardinality(Counting(s))
  BY <1>1, <1>2, FS_Subset
<1>5. /\ Cardinality(Counting(s)) \in Nat /\ Cardinality(Counting(s)') \in Nat
      /\ Cardinality(CreditsOf(s)) \in Nat
  BY <1>1, <1>4, FS_CardinalityType
<1> QED
  BY <1>1, <1>3, <1>4, <1>5

\* The credit that this very call wrote sends its execution to count.
LEMMA CountCredit ==
  ASSUME IInv, CountInv, NEW e \in Exec, CreditEarningOnce(e)
  PROVE  CountInv'
<1>1. /\ exec \in [Exec -> ExecState] /\ exec[e].run \in Run /\ exec[e].pc = "credit"
      /\ runCount' = runCount /\ earnings \subseteq Run
  BY DEF CreditEarningOnce, IInv, TypeOK, ExecTypeOK, RowsTypeOK
<1>2. PICK pc : /\ Goto(e, pc) /\ pc \in {"count", "latch"}
                /\ pc = "count" => /\ exec[e].run \notin earnings
                                   /\ earnings' = earnings \cup {exec[e].run}
                /\ pc = "latch" => earnings' = earnings
  <2>1. CASE Qualifies(e) /\ NotYetCredited(exec[e].run)
    BY <2>1 DEF CreditEarningOnce, AfterCredit, NotYetCredited, SamePair
  <2>2. CASE ~(Qualifies(e) /\ NotYetCredited(exec[e].run))
    BY <2>2 DEF CreditEarningOnce, AfterCredit
  <2> QED
    BY <2>1, <2>2
<1>3. /\ \A x \in Exec \ {e} : exec'[x] = exec[x]
      /\ exec'[e].pc = pc /\ exec'[e].run = exec[e].run
  BY <1>1, <1>2 DEF Goto, ExecState
<1> SUFFICES ASSUME NEW s \in Skill
             PROVE  /\ IsFiniteSet(Counting(s)') /\ IsFiniteSet(CreditsOf(s)')
                    /\ runCount'[s] + Cardinality(Counting(s)') <= Cardinality(CreditsOf(s)')
  BY DEF CountInv
<1>4. /\ IsFiniteSet(Counting(s)) /\ IsFiniteSet(CreditsOf(s))
      /\ runCount[s] + Cardinality(Counting(s)) <= Cardinality(CreditsOf(s))
      /\ runCount[s] \in Nat
  BY DEF CountInv, IInv, TypeOK, RowsTypeOK
<1>5. /\ Cardinality(Counting(s)) \in Nat /\ Cardinality(CreditsOf(s)) \in Nat
  BY <1>4, FS_CardinalityType
<1>6. CASE pc = "count" /\ SkillOf[exec[e].run] = s
  <2>1. e \notin Counting(s) /\ Counting(s)' = Counting(s) \cup {e}
    BY <1>1, <1>3, <1>6 DEF Counting
  <2>2. /\ exec[e].run \notin CreditsOf(s)
        /\ CreditsOf(s)' = CreditsOf(s) \cup {exec[e].run}
    BY <1>2, <1>6 DEF CreditsOf
  <2>3. /\ IsFiniteSet(Counting(s)')
        /\ Cardinality(Counting(s)') = Cardinality(Counting(s)) + 1
    BY <1>4, <2>1, FS_AddElement
  <2>4. /\ IsFiniteSet(CreditsOf(s)')
        /\ Cardinality(CreditsOf(s)') = Cardinality(CreditsOf(s)) + 1
    BY <1>4, <2>2, FS_AddElement
  <2> QED
    BY <1>1, <1>4, <1>5, <2>3, <2>4
<1>7. CASE ~(pc = "count" /\ SkillOf[exec[e].run] = s)
  <2>1. Counting(s)' = Counting(s)
    BY <1>1, <1>2, <1>3, <1>7 DEF Counting
  <2>2. CreditsOf(s)' = CreditsOf(s)
    BY <1>2, <1>7 DEF CreditsOf
  <2> QED
    BY <1>1, <1>4, <2>1, <2>2
<1> QED
  BY <1>6, <1>7

\* Its count ends it.
LEMMA CountCounts ==
  ASSUME IInv, CountInv, NEW e \in Exec, IncrementRunCount(e)
  PROVE  CountInv'
<1>1. /\ exec \in [Exec -> ExecState] /\ exec[e].run \in Run /\ exec[e].pc = "count"
      /\ earnings' = earnings /\ runCount \in [Skill -> Nat]
      /\ SkillOf[exec[e].run] \in Skill
      /\ runCount' = [runCount EXCEPT ![SkillOf[exec[e].run]] = @ + 1]
      /\ Goto(e, "latch")
  BY RunsAssumption DEF IncrementRunCount, IInv, TypeOK, ExecTypeOK, RowsTypeOK
<1>2. exec'[e].pc = "latch" /\ \A x \in Exec \ {e} : exec'[x] = exec[x]
  BY <1>1 DEF Goto, ExecState
<1> SUFFICES ASSUME NEW s \in Skill
             PROVE  /\ IsFiniteSet(Counting(s)') /\ IsFiniteSet(CreditsOf(s)')
                    /\ runCount'[s] + Cardinality(Counting(s)') <= Cardinality(CreditsOf(s)')
  BY DEF CountInv
<1>3. /\ IsFiniteSet(Counting(s)) /\ IsFiniteSet(CreditsOf(s))
      /\ runCount[s] + Cardinality(Counting(s)) <= Cardinality(CreditsOf(s))
  BY DEF CountInv
<1>4. CreditsOf(s)' = CreditsOf(s) /\ runCount[s] \in Nat
  BY <1>1 DEF CreditsOf
<1>5. /\ Cardinality(Counting(s)) \in Nat /\ Cardinality(CreditsOf(s)) \in Nat
  BY <1>3, FS_CardinalityType
<1>6. CASE SkillOf[exec[e].run] = s
  <2>1. e \in Counting(s) /\ Counting(s)' = Counting(s) \ {e}
    BY <1>1, <1>2, <1>6 DEF Counting
  <2>2. /\ IsFiniteSet(Counting(s)')
        /\ Cardinality(Counting(s)') = Cardinality(Counting(s)) - 1
    BY <1>3, <2>1, FS_RemoveElement
  <2>3. runCount'[s] = runCount[s] + 1
    BY <1>1, <1>6
  <2> QED
    BY <1>3, <1>4, <1>5, <2>2, <2>3
<1>7. CASE SkillOf[exec[e].run] # s
  <2>1. Counting(s)' = Counting(s) /\ runCount'[s] = runCount[s]
    BY <1>1, <1>2, <1>7 DEF Counting
  <2> QED
    BY <1>3, <1>4, <2>1
<1> QED
  BY <1>6, <1>7

\* The other steps send nobody to count.
LEMMA CountNext == ASSUME IInv, CountInv, [Next]_vars PROVE CountInv'
<1>1. TypeOK /\ TypeOK' /\ exec \in [Exec -> ExecState]
  BY StepType DEF IInv, TypeOK, ExecTypeOK
<1>2. ASSUME NEW e \in Exec, CreditEarningOnce(e) \/ IncrementRunCount(e) PROVE CountInv'
  BY <1>2, CountCredit, CountCounts
<1>3. ASSUME NEW e \in Exec, NEW pc, Goto(e, pc), pc # "count"
      PROVE  \A x \in Exec : exec'[x].pc = "count" => exec'[x] = exec[x]
  BY <1>1, <1>3 DEF Goto, ExecState
<1>4. ASSUME NEW e \in Exec, Leave(e)
      PROVE  \A x \in Exec : exec'[x].pc = "count" => exec'[x] = exec[x]
  BY <1>1, <1>4, IdleType DEF Leave
<1>5. ASSUME NEW e \in Exec, Work(e), ~CreditEarningOnce(e), ~IncrementRunCount(e)
      PROVE  CountInv'
  <2>1. UNCHANGED <<earnings, runCount>>
    BY <1>5 DEF Work, LoadSkill, FinishSkillRemoved, FailJobSkillRemoved, LoadRun,
                AcquireSlot, PauseTimeout, EndPlan, FinishRun, ClaimRunBookkeeping,
                Announce, CompleteJob, FailJobRead, FailJobRequeue, FailJobForGood,
                GiveUp, NotifyFailed
  <2>2. CASE LoadRun(e) \/ PauseTimeout(e) \/ (\E outcome \in Terminal : EndPlan(e, outcome))
               \/ FinishRun(e) \/ FailJobRead(e)
    <3>1. \A x \in Exec : exec'[x].pc = "count" => exec'[x] = exec[x]
      BY <1>1, <2>2 DEF LoadRun, AfterLoad, PauseTimeout, EndPlan, FinishRun,
                        FailJobRead, ExecState
    <3> QED
      BY <1>1, <2>1, <3>1, CountFrame
  <2>3. CASE \/ Leave(e)
             \/ \E pc \in PC \ {"count"} : Goto(e, pc)
    BY <1>1, <1>3, <1>4, <2>1, <2>3, CountFrame
  <2> QED
    BY <1>5, <2>2, <2>3
       DEF Work, LoadSkill, FinishSkillRemoved, FailJobSkillRemoved, AcquireSlot,
           ClaimRunBookkeeping, AfterAccounting, Announce, CompleteJob,
           FailJobRequeue, FailJobForGood, GiveUp, NotifyFailed, PC
<1>6. ASSUME NEW e \in Exec, Pause(e) \/ Resume(e) \/ InfraFailure(e) \/ DbFault(e)
      PROVE  CountInv'
  <2>1. UNCHANGED <<earnings, runCount>>
    BY <1>6 DEF Pause, Resume, InfraFailure, DbFault
  <2>2. CASE Leave(e) \/ \E pc \in PC \ {"count"} : Goto(e, pc)
    BY <1>1, <1>3, <1>4, <2>1, <2>2, CountFrame
  <2>3. CASE \/ exec' = [exec EXCEPT ![e].pc = "paused", ![e].pauses = @ + 1]
             \/ exec' = [exec EXCEPT ![e].pc = "finish", ![e].final = "failed"]
    <3>1. \A x \in Exec : exec'[x].pc = "count" => exec'[x] = exec[x]
      BY <1>1, <2>3 DEF ExecState
    <3> QED
      BY <1>1, <2>1, <3>1, CountFrame
  <2> QED
    BY <1>6, <2>2, <2>3 DEF Pause, Resume, InfraFailure, DbFault, PC
<1>7. ASSUME NEW e \in Exec, NEW r, ClaimNextJob(e, r) PROVE CountInv'
  <2>1. /\ UNCHANGED <<earnings, runCount>>
        /\ \A x \in Exec : exec'[x].pc = "count" => exec'[x] = exec[x]
    BY <1>1, <1>7 DEF ClaimNextJob, Started
  <2> QED
    BY <1>1, <2>1, CountFrame
<1>8. ASSUME NEW e \in Exec, NEW r, NEW outcome, ExtensionReports(e, r, outcome)
      PROVE  CountInv'
  <2>1. /\ UNCHANGED <<earnings, runCount>>
        /\ \A x \in Exec : exec'[x].pc = "count" => exec'[x] = exec[x]
    BY <1>1, <1>8 DEF ExtensionReports, Started
  <2> QED
    BY <1>1, <2>1, CountFrame
<1>9. ASSUME NEW p \in Proc, Crash(p) PROVE CountInv'
  <2>1. /\ UNCHANGED <<earnings, runCount>>
        /\ \A x \in Exec : exec'[x].pc = "count" => exec'[x] = exec[x]
    BY <1>1, <1>9, IdleType DEF Crash
  <2> QED
    BY <1>1, <2>1, CountFrame
<1>10. ASSUME UNCHANGED <<exec, earnings, runCount>> PROVE CountInv'
  BY <1>1, <1>10, CountFrame
<1> QED
  BY <1>2, <1>5, <1>6, <1>7, <1>8, <1>9, <1>10
     DEF Next, vars, CreateRun, EnqueueRunJob, EnqueueFails, FailUnqueuedRun,
         RecoverStuckJob, PruneJob, RemoveSkill

LEMMA CountInit == Init => CountInv
<1> SUFFICES ASSUME Init, NEW s \in Skill
             PROVE  /\ IsFiniteSet(Counting(s)) /\ IsFiniteSet(CreditsOf(s))
                    /\ runCount[s] + Cardinality(Counting(s)) <= Cardinality(CreditsOf(s))
  BY DEF CountInv
<1>1. Counting(s) = {} /\ CreditsOf(s) = {} /\ runCount[s] = 0
  BY IdleType DEF Init, Counting, CreditsOf
<1> QED
  BY <1>1, FS_EmptySet

\* The count that the marketplace shows never runs ahead of the credits it is
\* tied to, for any number of executions that credit and count at once, stop or
\* are repeated in between (creditEarningOnce before incrementRunCount).
THEOREM CountTied == Spec => []CountNeverAhead
<1>1. Init => IInv /\ CountInv
  BY InitInv, CountInit
<1>2. IInv /\ CountInv /\ [Next]_vars => IInv' /\ CountInv'
  BY StepInv, CountNext
<1>3. CountInv => CountNeverAhead
  BY DEF CountInv, CountNeverAhead, Counting
<1> QED
  BY <1>1, <1>2, <1>3, PTL DEF Spec

-----------------------------------------------------------------------------
(* One execution per run, through crashes and failures.                    *)

\* STALE_MS covers an execution with its pauses.
Fit == Punctual /\ MaxPauses <= PauseBudget

\* What an execution of the worker knows while it is the only one of its run: the
\* claim is its own, and nobody settles the run but itself.
Driving(e) ==
    LET r == exec[e].run IN
    /\ job[r].lockedAt = exec[e].lockedAt
    /\ job[r].status = (IF exec[e].pc \in {"giveUp", "notify"} THEN "failed" ELSE "running")
    /\ exec[e].pc \in {"waiting", "browser", "paused", "finish"} => ~IsTerminal(r)
    /\ exec[e].pc = "paused" => status[r] = "awaiting_input"
    /\ exec[e].pauses <= MaxPauses

\* A request that is under way has no job.
Asked(r) == request[r] \in {"enqueueing", "rejected"} => job[r].status = "none"

SoleInv ==
    /\ \A e \in Exec : exec[e].pc = "idle" => exec[e].run = NoRun
    /\ \A e, f \in Exec : /\ exec[e].pc # "idle" /\ exec[e].run \in CloudRun
                          /\ exec[f].run = exec[e].run
                          => f = e
    /\ \A e \in Exec : exec[e].pc # "idle" /\ exec[e].run \in CloudRun => Driving(e)
    /\ \A r \in CloudRun : Asked(r)

LEMMA SoleTypes ==
  ASSUME IInv
  PROVE  /\ exec \in [Exec -> ExecState] /\ status \in [Run -> RunStatus]
         /\ bookkept \in [Run -> BOOLEAN] /\ job \in [Run -> JobRow]
         /\ request \in [Run -> Request] /\ events \in [Run -> Seq(RunStatus)]
         /\ \A e \in Exec : exec[e].pc # "idle" => exec[e].run \in Run
         /\ \A e \in Exec : exec[e].pauses \in Nat
         /\ faults \in Nat /\ NoRun \notin Run /\ CloudRun \subseteq Run
BY RunsAssumption DEF IInv, TypeOK, RowsTypeOK, ExecTypeOK, ExecState, Run

\* An execution's step: it goes on or is gone, and writes its own run's rows only.
Local(e, r) ==
    /\ \A x \in Exec \ {e} : exec'[x] = exec[x]
    /\ \/ exec'[e] = Idle
       \/ /\ exec'[e].pc # "idle" /\ exec'[e].run = r
          /\ exec'[e].lockedAt = exec[e].lockedAt
    /\ \A q \in Run \ {r} : status'[q] = status[q] /\ job'[q] = job[q]
    /\ request' = request

\* The execution goes on to pc.
Moved(e, pc) ==
    /\ exec'[e].pc = pc /\ exec'[e].run = exec[e].run
    /\ exec'[e].lockedAt = exec[e].lockedAt
    /\ \A x \in Exec \ {e} : exec'[x] = exec[x]

Gone(e) == exec'[e] = Idle /\ \A x \in Exec \ {e} : exec'[x] = exec[x]

LEMMA GotoMoves ==
  ASSUME IInv, NEW e \in Exec, NEW pc, Goto(e, pc)
  PROVE  Moved(e, pc) /\ exec'[e].pauses = exec[e].pauses
<1>1. exec \in [Exec -> ExecState]
  BY SoleTypes
<1> QED
  BY <1>1 DEF Goto, Moved, ExecState

LEMMA LeaveGoes == ASSUME IInv, NEW e \in Exec, Leave(e) PROVE Gone(e)
<1>1. exec \in [Exec -> ExecState]
  BY SoleTypes
<1> QED
  BY <1>1 DEF Leave, Gone

LEMMA MovedIsLocal ==
  ASSUME NEW e \in Exec, NEW r \in Run, r = exec[e].run, NEW pc \in PC \ {"idle"},
         Moved(e, pc), request' = request,
         \A q \in Run \ {r} : status'[q] = status[q] /\ job'[q] = job[q]
  PROVE  Local(e, r)
BY DEF Moved, Local

LEMMA GoneIsLocal ==
  ASSUME IInv, NEW e \in Exec, NEW r \in Run, Leave(e), request' = request,
         \A q \in Run \ {r} : status'[q] = status[q] /\ job'[q] = job[q]
  PROVE  Local(e, r)
BY LeaveGoes DEF Local, Gone

\* The only execution of a run takes a step.
LEMMA SoleStep ==
  ASSUME IInv, SoleInv, NEW e \in Exec, exec[e].pc # "idle",
         NEW r \in Run, r = exec[e].run, Local(e, r),
         r \in CloudRun /\ exec'[e].pc # "idle" => Driving(e)'
  PROVE  SoleInv'
<1>1. /\ \A x \in Exec \ {e} : exec'[x] = exec[x]
      /\ \/ exec'[e].pc = "idle" /\ exec'[e].run = NoRun
         \/ exec'[e].pc # "idle" /\ exec'[e].run = r
  BY DEF Local, Idle, Started
<1>2. /\ \A x \in Exec : exec[x].pc = "idle" => exec[x].run = NoRun
      /\ \A x, f \in Exec : /\ exec[x].pc # "idle" /\ exec[x].run \in CloudRun
                            /\ exec[f].run = exec[x].run
                            => f = x
      /\ \A x \in Exec : exec[x].pc # "idle" /\ exec[x].run \in CloudRun => Driving(x)
      /\ \A q \in CloudRun : Asked(q)
  BY DEF SoleInv
<1>3. /\ NoRun \notin Run /\ CloudRun \subseteq Run
      /\ \A x \in Exec : exec[x].pc # "idle" => exec[x].run \in Run
  BY SoleTypes
<1>4. \A x \in Exec : exec'[x].pc = "idle" => exec'[x].run = NoRun
  BY <1>1, <1>2
<1>5. ASSUME NEW x \in Exec, NEW f \in Exec, exec'[x].pc # "idle",
             exec'[x].run \in CloudRun, exec'[f].run = exec'[x].run
      PROVE  f = x
  <2>1. exec[x].pc # "idle" /\ exec'[x].run = exec[x].run
    BY <1>1, <1>5
  <2>2. exec'[f].run = exec[f].run
    BY <1>1, <1>3, <1>5
  <2> QED
    BY <1>2, <1>5, <2>1, <2>2
<1>6. ASSUME NEW x \in Exec, exec'[x].pc # "idle", exec'[x].run \in CloudRun
      PROVE  Driving(x)'
  <2>1. CASE x = e
    BY <1>1, <1>6, <2>1
  <2>2. CASE x # e
    <3>1. exec'[x] = exec[x] /\ exec[x].pc # "idle" /\ exec[x].run \in Run
      BY <1>1, <1>3, <1>6, <2>2
    <3>2. exec[x].run # r /\ Driving(x)
      BY <1>2, <1>6, <2>2, <3>1
    <3>3. status'[exec[x].run] = status[exec[x].run] /\ job'[exec[x].run] = job[exec[x].run]
      BY <3>1, <3>2 DEF Local
    <3> QED
      BY <3>1, <3>2, <3>3 DEF Driving, IsTerminal
  <2> QED
    BY <2>1, <2>2
<1>7. ASSUME NEW q \in CloudRun PROVE Asked(q)'
  <2>1. CASE q = r
    <3>1. Driving(e) /\ Asked(q) /\ request' = request
      BY <1>2, <2>1 DEF Local
    <3> QED
      BY <2>1, <3>1 DEF Driving, Asked
  <2>2. CASE q # r
    BY <1>2, <1>3, <2>2 DEF Asked, Local
  <2> QED
    BY <2>1, <2>2
<1> QED
  BY <1>4, <1>5, <1>6, <1>7 DEF SoleInv

\* A step on the rows of a run that nobody executes.
LEMMA SoleRows ==
  ASSUME IInv, SoleInv, NEW r \in Run, \A x \in Exec : exec[x].run # r,
         exec' = exec, r \in CloudRun => Asked(r)',
         \A q \in Run \ {r} : /\ status'[q] = status[q] /\ job'[q] = job[q]
                              /\ request'[q] = request[q]
  PROVE  SoleInv'
<1>1. ASSUME NEW x \in Exec, exec[x].pc # "idle", exec[x].run \in CloudRun
      PROVE  Driving(x)'
  <2>1. exec[x].run \in Run \ {r} /\ Driving(x)
    BY <1>1, SoleTypes DEF SoleInv
  <2> QED
    BY <2>1 DEF Driving, IsTerminal
<1>2. \A q \in CloudRun : Asked(q)'
  BY SoleTypes DEF SoleInv, Asked
<1> QED
  BY <1>1, <1>2 DEF SoleInv

\* Nobody executes a run whose job does not say so.
LEMMA NobodyDrives ==
  ASSUME IInv, SoleInv, NEW r \in CloudRun, job[r].status \notin {"running", "failed"}
  PROVE  \A x \in Exec : exec[x].run # r
<1> SUFFICES ASSUME NEW x \in Exec, exec[x].run = r PROVE FALSE
  OBVIOUS
<1>1. exec[x].pc # "idle"
  BY SoleTypes DEF SoleInv
<1> QED
  BY <1>1 DEF SoleInv, Driving

\* A job is taken for stale once nobody executes its run.
LEMMA StaleIsLeft ==
  ASSUME IInv, SoleInv, Fit, NEW r \in CloudRun, Recoverable(r)
  PROVE  \A x \in Exec : exec[x].run # r
<1> SUFFICES ASSUME NEW x \in Exec, exec[x].run = r PROVE FALSE
  OBVIOUS
<1>1. exec[x].pc # "idle"
  BY SoleTypes DEF SoleInv
<1>2. Driving(x)
  BY <1>1 DEF SoleInv
<1>3. exec[x].pc = "paused" \/ exec[x].pauses > PauseBudget
  BY DEF Recoverable, MayBeStale, Fit, Live
<1>4. /\ exec[x].pauses \in Nat /\ exec[x].pauses <= MaxPauses /\ MaxPauses <= PauseBudget
      /\ MaxPauses \in Nat /\ PauseBudget \in Nat
  BY <1>2, SoleTypes, BoundsAssumption DEF Driving, Fit
<1>5. exec[x].pc = "paused"
  BY <1>3, <1>4
<1> QED
  BY <1>2, <1>5 DEF Driving, Recoverable

\* The steps that change their execution only.
LEMMA SoleMoves ==
  ASSUME IInv, SoleInv, NEW e \in Exec, NEW r \in Run, r = exec[e].run,
         \/ LoadSkill(e) \/ LoadRun(e) \/ AcquireSlot(e) \/ PauseTimeout(e)
         \/ \E outcome \in Terminal : EndPlan(e, outcome)
         \/ InfraFailure(e) \/ FailJobRead(e) \/ IncrementRunCount(e)
         \/ CreditEarningOnce(e)
  PROVE  SoleInv'
<1>1. /\ exec[e].pc \notin {"idle", "giveUp", "notify"}
      /\ UNCHANGED <<status, job, request>>
  BY DEF LoadSkill, LoadRun, AcquireSlot, PauseTimeout, EndPlan, InfraFailure,
         FailJobRead, IncrementRunCount, CreditEarningOnce
<1>2. exec \in [Exec -> ExecState]
  BY SoleTypes
<1>3. PICK pc \in PC \ {"idle", "giveUp", "notify", "paused"} :
         /\ Moved(e, pc) /\ exec'[e].pauses = exec[e].pauses
         /\ pc = "waiting" => ~IsTerminal(r)
         /\ pc = "browser" => exec[e].pc = "waiting"
         /\ pc = "finish" => exec[e].pc \in {"browser", "paused"}
  <2>1. CASE LoadSkill(e)
    <3>1. PICK pc \in {"noSkill", "loaded"} : Goto(e, pc)
      BY <2>1 DEF LoadSkill
    <3> QED
      BY <3>1, GotoMoves DEF PC
  <2>2. CASE LoadRun(e)
    <3>1. Moved(e, AfterLoad(r)) /\ exec'[e].pauses = exec[e].pauses
      BY <1>2, <2>2 DEF LoadRun, Moved, ExecState
    <3>2. AfterLoad(r) \in {"waiting", "complete", "credit"}
          /\ (AfterLoad(r) = "waiting" => ~IsTerminal(r))
      BY DEF AfterLoad
    <3> QED
      BY <3>1, <3>2 DEF PC
  <2>3. CASE AcquireSlot(e)
    BY <2>3, GotoMoves DEF AcquireSlot, PC
  <2>4. CASE PauseTimeout(e) \/ \E outcome \in Terminal : EndPlan(e, outcome)
    <3>1. /\ Moved(e, "finish") /\ exec'[e].pauses = exec[e].pauses
          /\ exec[e].pc \in {"browser", "paused"}
      BY <1>2, <2>4 DEF PauseTimeout, EndPlan, Moved, ExecState
    <3> QED
      BY <3>1 DEF PC
  <2>5. CASE InfraFailure(e)
    BY <2>5, GotoMoves DEF InfraFailure, PC
  <2>6. CASE FailJobRead(e)
    <3>1. Moved(e, "failWrite") /\ exec'[e].pauses = exec[e].pauses
      BY <1>2, <2>6 DEF FailJobRead, Moved, ExecState
    <3> QED
      BY <3>1 DEF PC
  <2>7. CASE IncrementRunCount(e)
    BY <2>7, GotoMoves DEF IncrementRunCount, PC
  <2>8. CASE CreditEarningOnce(e)
    <3>1. PICK pc \in {"count", "latch"} : Goto(e, pc)
      BY <2>8 DEF CreditEarningOnce, AfterCredit
    <3> QED
      BY <3>1, GotoMoves DEF PC
  <2> QED
    BY <2>1, <2>2, <2>3, <2>4, <2>5, <2>6, <2>7, <2>8
<1>4. Local(e, r)
  BY <1>1, <1>3, MovedIsLocal
<1>5. ASSUME r \in CloudRun PROVE Driving(e)'
  <2>1. Driving(e)
    BY <1>1, <1>5 DEF SoleInv
  <2> QED
    BY <1>1, <1>3, <2>1 DEF Driving, Moved, IsTerminal
<1> QED
  BY <1>1, <1>4, <1>5, SoleStep

\* The steps that write the run's status.
LEMMA SoleWrites ==
  ASSUME IInv, SoleInv, NEW e \in Exec, NEW r \in Run, r = exec[e].run,
         \/ FinishSkillRemoved(e) \/ Pause(e) \/ Resume(e) \/ FinishRun(e) \/ GiveUp(e)
  PROVE  SoleInv'
<1>1. exec[e].pc # "idle" /\ UNCHANGED <<job, request>>
  BY DEF FinishSkillRemoved, Pause, Resume, FinishRun, GiveUp
<1>2. /\ exec \in [Exec -> ExecState] /\ status \in [Run -> RunStatus]
      /\ exec[e].pauses \in Nat /\ MaxPauses \in Nat
  BY SoleTypes, BoundsAssumption
<1>3. \A q \in Run \ {r} : status'[q] = status[q] /\ job'[q] = job[q]
  BY <1>1, <1>2
     DEF FinishSkillRemoved, Pause, Resume, FinishRun, GiveUp, Finish, SetRunStatus
<1>4. ASSUME r \in CloudRun PROVE Driving(e)
  BY <1>1, <1>4 DEF SoleInv
<1>5. CASE FinishSkillRemoved(e)
  <2>1. Moved(e, "removed") /\ exec'[e].pauses = exec[e].pauses
    BY <1>5, GotoMoves DEF FinishSkillRemoved
  <2>2. ASSUME r \in CloudRun PROVE Driving(e)'
    BY <1>1, <1>4, <1>5, <2>1, <2>2 DEF FinishSkillRemoved, Driving, Moved
  <2> QED
    BY <1>1, <1>3, <2>1, <2>2, MovedIsLocal, SoleStep DEF PC
<1>6. CASE Pause(e)
  <2>1. Moved(e, "paused") /\ exec'[e].pauses = exec[e].pauses + 1
    BY <1>2, <1>6 DEF Pause, Moved, ExecState
  <2>2. exec'[e].pauses <= MaxPauses
    BY <1>2, <1>6, <2>1 DEF Pause
  <2>3. ASSUME r \in CloudRun PROVE Driving(e)'
    <3>1. ~IsTerminal(r)
      BY <1>4, <1>6, <2>3 DEF Pause, Driving
    <3>2. status'[r] = "awaiting_input"
      BY <1>2, <1>6, <3>1 DEF Pause, SetRunStatus, IsTerminal
    <3> QED
      BY <1>1, <1>4, <1>6, <2>1, <2>2, <2>3, <3>2
         DEF Pause, Driving, Moved, IsTerminal, Terminal
  <2> QED
    BY <1>1, <1>3, <2>1, <2>3, MovedIsLocal, SoleStep DEF PC
<1>7. CASE Resume(e)
  <2>1. Moved(e, "browser") /\ exec'[e].pauses = exec[e].pauses
    BY <1>7, GotoMoves DEF Resume
  <2>2. ASSUME r \in CloudRun PROVE Driving(e)'
    <3>1. ~IsTerminal(r)
      BY <1>4, <1>7, <2>2 DEF Resume, Driving
    <3>2. status'[r] = "running"
      BY <1>2, <1>7, <3>1 DEF Resume, SetRunStatus, IsTerminal
    <3> QED
      BY <1>1, <1>4, <1>7, <2>1, <2>2, <3>2 DEF Resume, Driving, Moved, IsTerminal, Terminal
  <2> QED
    BY <1>1, <1>3, <2>1, <2>2, MovedIsLocal, SoleStep DEF PC
<1>8. CASE FinishRun(e)
  <2>1. Moved(e, "credit") /\ exec'[e].pauses = exec[e].pauses
    BY <1>2, <1>8 DEF FinishRun, Moved, ExecState
  <2>2. ASSUME r \in CloudRun PROVE Driving(e)'
    BY <1>1, <1>4, <1>8, <2>1, <2>2 DEF FinishRun, Driving, Moved
  <2> QED
    BY <1>1, <1>3, <2>1, <2>2, MovedIsLocal, SoleStep DEF PC
<1>9. CASE GiveUp(e)
  <2>1. Moved(e, "notify") /\ exec'[e].pauses = exec[e].pauses
    BY <1>9, GotoMoves DEF GiveUp
  <2>2. ASSUME r \in CloudRun PROVE Driving(e)'
    BY <1>1, <1>4, <1>9, <2>1, <2>2 DEF GiveUp, Driving, Moved
  <2> QED
    BY <1>1, <1>3, <2>1, <2>2, MovedIsLocal, SoleStep DEF PC
<1> QED
  BY <1>5, <1>6, <1>7, <1>8, <1>9

\* The steps that end an execution, or the accounting, or the job.
LEMMA SoleEnds ==
  ASSUME IInv, SoleInv, NEW e \in Exec, NEW r \in Run, r = exec[e].run,
         \/ ClaimRunBookkeeping(e) \/ Announce(e) \/ NotifyFailed(e)
         \/ CompleteJob(e) \/ FailJobRequeue(e) \/ FailJobForGood(e)
         \/ FailJobSkillRemoved(e)
  PROVE  SoleInv'
<1>1. exec[e].pc # "idle" /\ UNCHANGED <<status, request>>
  BY DEF ClaimRunBookkeeping, Announce, NotifyFailed, CompleteJob, FailJobRequeue,
         FailJobForGood, FailJobSkillRemoved
<1>2. exec \in [Exec -> ExecState] /\ job \in [Run -> JobRow]
  BY SoleTypes
<1>3. \A q \in Run \ {r} : status'[q] = status[q] /\ job'[q] = job[q]
  BY <1>1, <1>2
     DEF ClaimRunBookkeeping, Announce, NotifyFailed, CompleteJob, FailJobRequeue,
         FailJobForGood, FailJobSkillRemoved
<1>4. CASE Leave(e)
  <2>1. Local(e, r) /\ exec'[e].pc = "idle"
    BY <1>1, <1>3, <1>4, GoneIsLocal, LeaveGoes DEF Gone, Idle, Started
  <2> QED
    BY <1>1, <2>1, SoleStep
<1>5. CASE /\ exec[e].pc \in {"latch", "announce"} /\ job' = job
           /\ \E pc \in {"announce", "complete"} : Goto(e, pc)
  <2>1. PICK pc \in {"announce", "complete"} : Goto(e, pc)
    BY <1>5
  <2>2. Moved(e, pc) /\ exec'[e].pauses = exec[e].pauses
    BY <2>1, GotoMoves
  <2>3. ASSUME r \in CloudRun PROVE Driving(e)'
    <3>1. Driving(e)
      BY <1>1, <2>3 DEF SoleInv
    <3> QED
      BY <1>5, <2>2, <3>1 DEF Driving, Moved
  <2> QED
    BY <1>1, <1>3, <2>2, <2>3, MovedIsLocal, SoleStep DEF PC
<1>6. CASE FailJobForGood(e) /\ HoldsClaim(e)
  <2>1. Moved(e, "giveUp") /\ exec'[e].pauses = exec[e].pauses
    BY <1>6, GotoMoves DEF FailJobForGood
  <2>2. job'[r].status = "failed" /\ job'[r].lockedAt = job[r].lockedAt
    BY <1>2, <1>6 DEF FailJobForGood, JobRow
  <2>3. ASSUME r \in CloudRun PROVE Driving(e)'
    <3>1. Driving(e)
      BY <1>1, <2>3 DEF SoleInv
    <3> QED
      BY <2>1, <2>2, <3>1 DEF Driving, Moved
  <2> QED
    BY <1>1, <1>3, <2>1, <2>3, MovedIsLocal, SoleStep DEF PC
<1> QED
  BY <1>4, <1>5, <1>6
     DEF ClaimRunBookkeeping, Announce, AfterAccounting, NotifyFailed, CompleteJob,
         FailJobRequeue, FailJobForGood, FailJobSkillRemoved

\* A failed call sends the execution to the worker's catch, on, or away.
LEMMA SoleFault ==
  ASSUME IInv, SoleInv, NEW e \in Exec, NEW r \in Run, r = exec[e].run, DbFault(e)
  PROVE  SoleInv'
<1>1. exec[e].pc # "idle" /\ UNCHANGED <<status, job, request>>
  BY DEF DbFault
<1>2. exec \in [Exec -> ExecState]
  BY SoleTypes
<1>3. CASE Leave(e)
  <2>1. Local(e, r) /\ exec'[e].pc = "idle"
    BY <1>1, <1>3, GoneIsLocal, LeaveGoes DEF Gone, Idle, Started
  <2> QED
    BY <1>1, <2>1, SoleStep
<1>4. ASSUME ~Leave(e)
      PROVE  \E pc \in PC \ {"idle"} :
                /\ Moved(e, pc) /\ exec'[e].pauses = exec[e].pauses
                /\ \/ pc \in {"failing", "removed"} /\ exec[e].pc \notin {"giveUp", "notify"}
                   \/ pc = "finish" /\ exec[e].pc = "paused"
                   \/ pc = "notify" /\ exec[e].pc = "giveUp"
  <2>1. CASE exec[e].pc = "giveUp" /\ Goto(e, "notify")
    BY <2>1, GotoMoves DEF PC
  <2>2. CASE exec[e].pc = "noSkill" /\ Goto(e, "removed")
    BY <2>2, GotoMoves DEF PC
  <2>3. CASE exec[e].pc \notin {"giveUp", "notify"} /\ Goto(e, "failing")
    BY <2>3, GotoMoves DEF PC
  <2>4. CASE /\ exec[e].pc = "paused"
             /\ exec' = [exec EXCEPT ![e].pc = "finish", ![e].final = "failed"]
    <3>1. Moved(e, "finish") /\ exec'[e].pauses = exec[e].pauses
      BY <1>2, <2>4 DEF Moved, ExecState
    <3> QED
      BY <2>4, <3>1 DEF PC
  <2> QED
    BY <1>4, <2>1, <2>2, <2>3, <2>4 DEF DbFault
<1>5. CASE ~Leave(e)
  <2>1. PICK pc \in PC \ {"idle"} :
                /\ Moved(e, pc) /\ exec'[e].pauses = exec[e].pauses
                /\ \/ pc \in {"failing", "removed"} /\ exec[e].pc \notin {"giveUp", "notify"}
                   \/ pc = "finish" /\ exec[e].pc = "paused"
                   \/ pc = "notify" /\ exec[e].pc = "giveUp"
    BY <1>4, <1>5
  <2>2. ASSUME r \in CloudRun PROVE Driving(e)'
    <3>1. Driving(e)
      BY <1>1, <2>2 DEF SoleInv
    <3> QED
      BY <1>1, <2>1, <3>1 DEF Driving, Moved, IsTerminal
  <2> QED
    BY <1>1, <2>1, <2>2, MovedIsLocal, SoleStep
<1> QED
  BY <1>3, <1>5

\* The steps on rows: of requests, and of jobs that nobody executes.
LEMMA SoleRowSteps ==
  ASSUME IInv, SoleInv, Fit, NEW r \in Run,
         \/ CreateRun(r)
         \/ r \in CloudRun /\ \/ EnqueueRunJob(r) \/ EnqueueFails(r) \/ FailUnqueuedRun(r)
                              \/ RecoverStuckJob(r) \/ PruneJob(r)
  PROVE  SoleInv'
<1>1. /\ job \in [Run -> JobRow] /\ status \in [Run -> RunStatus]
      /\ request \in [Run -> Request]
      /\ \A x \in Exec : exec[x].pc # "idle" => exec[x].run \in Run
      /\ \A x \in Exec : exec[x].pc = "idle" => exec[x].run = NoRun
      /\ NoRun \notin Run /\ (r \in CloudRun => Asked(r))
  BY SoleTypes DEF SoleInv
<1>2. /\ exec' = exec
      /\ \A q \in Run \ {r} : /\ status'[q] = status[q] /\ job'[q] = job[q]
                              /\ request'[q] = request[q]
  BY <1>1 DEF CreateRun, EnqueueRunJob, EnqueueFails, FailUnqueuedRun, Finish,
              RecoverStuckJob, PruneJob
<1>3. CASE CreateRun(r)
  <2>1. job[r].status = "none" /\ status[r] = "none" /\ job' = job
    BY <1>3 DEF CreateRun, IInv, CreatedOK
  <2>2. \A x \in Exec : exec[x].run # r
    BY <1>1, <2>1 DEF IInv, CreatedOK
  <2>3. r \in CloudRun => Asked(r)'
    BY <2>1 DEF Asked
  <2> QED
    BY <1>2, <2>2, <2>3, SoleRows
<1>4. CASE r \in CloudRun /\ EnqueueRunJob(r)
  <2>1. \A x \in Exec : exec[x].run # r
    BY <1>1, <1>4, NobodyDrives DEF EnqueueRunJob, Asked
  <2>2. Asked(r)'
    BY <1>1, <1>4 DEF EnqueueRunJob, Asked
  <2> QED
    BY <1>2, <2>1, <2>2, SoleRows
<1>5. CASE r \in CloudRun /\ (EnqueueFails(r) \/ FailUnqueuedRun(r))
  <2>1. job[r].status = "none" /\ job' = job
    BY <1>1, <1>5 DEF EnqueueFails, FailUnqueuedRun, Asked
  <2>2. \A x \in Exec : exec[x].run # r
    BY <1>5, <2>1, NobodyDrives
  <2>3. Asked(r)'
    BY <2>1 DEF Asked
  <2> QED
    BY <1>2, <2>2, <2>3, SoleRows
<1>6. CASE r \in CloudRun /\ RecoverStuckJob(r)
  <2>1. \A x \in Exec : exec[x].run # r
    BY <1>6, StaleIsLeft DEF RecoverStuckJob
  <2>2. Asked(r)'
    BY <1>1, <1>6 DEF RecoverStuckJob, Recoverable, Asked
  <2> QED
    BY <1>2, <2>1, <2>2, SoleRows
<1>7. CASE r \in CloudRun /\ PruneJob(r)
  <2>1. \A x \in Exec : exec[x].run # r
    BY <1>7 DEF PruneJob, Fit, Live
  <2>2. Asked(r)'
    BY <1>1, <1>7 DEF PruneJob, Asked
  <2> QED
    BY <1>2, <2>1, <2>2, SoleRows
<1> QED
  BY <1>3, <1>4, <1>5, <1>6, <1>7

\* A queued job is claimed: nobody executed its run, and now somebody does.
LEMMA SoleClaim ==
  ASSUME IInv, SoleInv, NEW e \in Exec, NEW r \in CloudRun, ClaimNextJob(e, r)
  PROVE  SoleInv'
<1>1. /\ exec \in [Exec -> ExecState] /\ job \in [Run -> JobRow] /\ r \in Run
      /\ NoRun \notin Run /\ \A x \in Exec : exec[x].pc # "idle" => exec[x].run \in Run
      /\ MaxPauses \in Nat /\ CloudRun \subseteq Run
  BY SoleTypes, BoundsAssumption
<1>2. /\ exec[e].pc = "idle" /\ job[r].status = "queued" /\ UNCHANGED <<status, request>>
      /\ exec' = [exec EXCEPT ![e] = Started("claimed", r, job[r].lockedAt + 1, "none")]
  BY DEF ClaimNextJob
<1>3. /\ job'[r].status = "running" /\ job'[r].lockedAt = job[r].lockedAt + 1
      /\ \A q \in Run \ {r} : job'[q] = job[q]
  BY <1>1 DEF ClaimNextJob
<1>4. /\ \A x \in Exec \ {e} : exec'[x] = exec[x]
      /\ exec'[e].pc = "claimed" /\ exec'[e].run = r /\ exec'[e].pauses = 0
      /\ exec'[e].lockedAt = job[r].lockedAt + 1
  BY <1>1, <1>2 DEF Started
<1>5. \A x \in Exec : exec[x].run # r
  BY <1>2, NobodyDrives
<1>6. /\ \A x \in Exec : exec[x].pc = "idle" => exec[x].run = NoRun
      /\ \A x, f \in Exec : /\ exec[x].pc # "idle" /\ exec[x].run \in CloudRun
                            /\ exec[f].run = exec[x].run
                            => f = x
      /\ \A x \in Exec : exec[x].pc # "idle" /\ exec[x].run \in CloudRun => Driving(x)
      /\ \A q \in CloudRun : Asked(q)
  BY DEF SoleInv
<1>7. Driving(e)'
  BY <1>1, <1>3, <1>4 DEF Driving
<1>8. ASSUME NEW x \in Exec, exec'[x].pc # "idle", exec'[x].run \in CloudRun
      PROVE  Driving(x)'
  <2>1. CASE x # e
    <3>1. exec[x].pc # "idle" /\ exec'[x] = exec[x] /\ exec[x].run \in Run \ {r}
      BY <1>1, <1>4, <1>5, <1>8, <2>1
    <3>2. job'[exec[x].run] = job[exec[x].run] /\ Driving(x)
      BY <1>3, <1>6, <1>8, <3>1
    <3> QED
      BY <1>2, <3>1, <3>2 DEF Driving, IsTerminal
  <2> QED
    BY <1>7, <2>1
<1>9. ASSUME NEW x \in Exec, NEW f \in Exec, exec'[x].pc # "idle",
             exec'[x].run \in CloudRun, exec'[f].run = exec'[x].run
      PROVE  f = x
  BY <1>4, <1>5, <1>6, <1>9
<1>10. \A x \in Exec : exec'[x].pc = "idle" => exec'[x].run = NoRun
  BY <1>4, <1>6
<1>11. ASSUME NEW q \in CloudRun PROVE Asked(q)'
  <2>1. Asked(q) /\ q \in Run
    BY <1>1, <1>6
  <2>2. CASE q = r
    BY <1>2, <2>1, <2>2 DEF Asked
  <2>3. CASE q # r
    BY <1>2, <1>3, <2>1, <2>3 DEF Asked
  <2> QED
    BY <2>2, <2>3
<1> QED
  BY <1>8, <1>9, <1>10, <1>11 DEF SoleInv

\* The extension reports a run that has no job.
LEMMA SoleReport ==
  ASSUME IInv, SoleInv, NEW e \in Exec, NEW r \in ExtensionRun, NEW outcome,
         ExtensionReports(e, r, outcome)
  PROVE  SoleInv'
<1>1. /\ exec \in [Exec -> ExecState] /\ r \notin CloudRun /\ r # NoRun
  BY SoleTypes, RunsAssumption DEF Run
<1>2. /\ UNCHANGED <<status, job, request>>
      /\ exec' = [exec EXCEPT ![e] = Started("finish", r, 0, outcome)]
  BY DEF ExtensionReports
<1>3. /\ \A x \in Exec \ {e} : exec'[x] = exec[x]
      /\ exec'[e].pc = "finish" /\ exec'[e].run = r
  BY <1>1, <1>2 DEF Started
<1>4. ASSUME NEW x \in Exec, exec'[x].pc # "idle", exec'[x].run \in CloudRun
      PROVE  Driving(x)'
  <2>1. exec'[x] = exec[x] /\ Driving(x)
    BY <1>1, <1>3, <1>4 DEF SoleInv
  <2> QED
    BY <1>2, <2>1 DEF Driving, IsTerminal
<1>5. \A x \in Exec : exec'[x].pc = "idle" => exec'[x].run = NoRun
  BY <1>3 DEF SoleInv
<1>6. ASSUME NEW x \in Exec, NEW f \in Exec, exec'[x].pc # "idle",
             exec'[x].run \in CloudRun, exec'[f].run = exec'[x].run
      PROVE  f = x
  BY <1>1, <1>3, <1>6 DEF SoleInv
<1>7. \A q \in CloudRun : Asked(q)'
  BY <1>2 DEF SoleInv, Asked
<1> QED
  BY <1>4, <1>5, <1>6, <1>7 DEF SoleInv

\* A process dies: what is left of it are its rows.
LEMMA SoleCrash == ASSUME IInv, SoleInv, NEW p \in Proc, Crash(p) PROVE SoleInv'
<1>1. /\ \A x \in Exec : exec'[x] = Idle \/ exec'[x] = exec[x]
      /\ UNCHANGED <<status, job>>
      /\ \A q \in Run : request'[q] = "lost" \/ request'[q] = request[q]
  BY DEF Crash
<1>2. /\ Idle.pc = "idle" /\ Idle.run = NoRun /\ NoRun \notin Run /\ CloudRun \subseteq Run
      /\ \A x \in Exec : exec[x].pc # "idle" => exec[x].run \in Run
  BY SoleTypes DEF Idle, Started
<1>3. /\ \A x \in Exec : exec[x].pc = "idle" => exec[x].run = NoRun
      /\ \A x, f \in Exec : /\ exec[x].pc # "idle" /\ exec[x].run \in CloudRun
                            /\ exec[f].run = exec[x].run
                            => f = x
      /\ \A x \in Exec : exec[x].pc # "idle" /\ exec[x].run \in CloudRun => Driving(x)
      /\ \A q \in CloudRun : Asked(q)
  BY DEF SoleInv
<1>4. ASSUME NEW x \in Exec, exec'[x].pc # "idle", exec'[x].run \in CloudRun
      PROVE  Driving(x)'
  <2>1. exec'[x] = exec[x] /\ Driving(x)
    BY <1>1, <1>2, <1>3, <1>4
  <2> QED
    BY <1>1, <2>1 DEF Driving, IsTerminal
<1>5. ASSUME NEW x \in Exec, NEW f \in Exec, exec'[x].pc # "idle",
             exec'[x].run \in CloudRun, exec'[f].run = exec'[x].run
      PROVE  f = x
  BY <1>1, <1>2, <1>3, <1>5
<1>6. \A x \in Exec : exec'[x].pc = "idle" => exec'[x].run = NoRun
  BY <1>1, <1>2, <1>3
<1>7. \A q \in CloudRun : Asked(q)'
  BY <1>1, <1>2, <1>3 DEF Asked
<1> QED
  BY <1>4, <1>5, <1>6, <1>7 DEF SoleInv

LEMMA SoleInit == Init => SoleInv
<1> SUFFICES ASSUME Init PROVE SoleInv
  OBVIOUS
<1>1. \A x \in Exec : exec[x].pc = "idle" /\ exec[x].run = NoRun
  BY DEF Init, Idle, Started
<1>2. \A q \in CloudRun : Asked(q)
  BY DEF Init, Asked, Run
<1> QED
  BY <1>1, <1>2 DEF SoleInv

LEMMA SoleNext == ASSUME IInv, SoleInv, Fit, [Next]_vars PROVE SoleInv'
<1>1. ASSUME NEW e \in Exec,
             Work(e) \/ Pause(e) \/ Resume(e) \/ InfraFailure(e) \/ DbFault(e)
      PROVE  SoleInv'
  <2>1. exec[e].pc # "idle"
    BY <1>1 DEF Work, LoadSkill, FinishSkillRemoved, FailJobSkillRemoved, LoadRun,
                AcquireSlot, PauseTimeout, EndPlan, FinishRun, CreditEarningOnce,
                IncrementRunCount, ClaimRunBookkeeping, Announce, CompleteJob,
                FailJobRead, FailJobRequeue, FailJobForGood, GiveUp, NotifyFailed,
                Pause, Resume, InfraFailure, DbFault
  <2>2. PICK r \in Run : r = exec[e].run
    BY <2>1, SoleTypes
  <2> QED
    BY <1>1, <2>2, SoleMoves, SoleWrites, SoleEnds, SoleFault DEF Work
<1>2. ASSUME NEW r \in Run, CreateRun(r) PROVE SoleInv'
  BY <1>2, SoleRowSteps
<1>3. ASSUME NEW r \in CloudRun,
             \/ EnqueueRunJob(r) \/ EnqueueFails(r) \/ FailUnqueuedRun(r)
             \/ RecoverStuckJob(r) \/ PruneJob(r)
      PROVE  SoleInv'
  BY <1>3, SoleTypes, SoleRowSteps
<1>4. ASSUME UNCHANGED <<exec, status, job, request>> PROVE SoleInv'
  BY <1>4 DEF SoleInv, Driving, Asked, IsTerminal
<1>5. ASSUME NEW s, RemoveSkill(s) PROVE SoleInv'
  BY <1>4, <1>5 DEF RemoveSkill
<1>6. CASE UNCHANGED vars
  BY <1>4, <1>6 DEF vars
<1>7. CASE Next
  BY <1>1, <1>2, <1>3, <1>5, <1>7, SoleClaim, SoleReport, SoleCrash DEF Next
<1> QED
  BY <1>6, <1>7

\* An execution of the finish route settles, accounts and answers: it never gets to a
\* browser.
Reporting == {"finish", "credit", "count", "latch", "announce"}

Reported == \A e \in Exec : exec[e].run \in ExtensionRun => exec[e].pc \in Reporting

\* The work of an execution of the extension: within the route, or out of it.
LEMMA ReportWork ==
  ASSUME IInv, Reported, NEW e \in Exec, exec[e].run \in ExtensionRun,
         Work(e) \/ Pause(e) \/ Resume(e) \/ InfraFailure(e) \/ DbFault(e)
  PROVE  exec'[e] = Idle \/ exec'[e].pc \in Reporting
<1>1. exec \in [Exec -> ExecState] /\ exec[e].pc \in Reporting /\ ~ViaJob(e)
  BY SoleTypes, RunsAssumption DEF Reported, ViaJob
<1>2. CASE Leave(e)
  BY <1>2, LeaveGoes DEF Gone
<1>3. CASE \E pc \in Reporting : Goto(e, pc)
  BY <1>3, GotoMoves DEF Moved
<1>4. CASE FinishRun(e)
  BY <1>1, <1>4 DEF FinishRun, Reporting, ExecState
<1>5. CASE CreditEarningOnce(e)
  BY <1>3, <1>5 DEF CreditEarningOnce, AfterCredit, Reporting
<1>6. CASE IncrementRunCount(e)
  BY <1>3, <1>6 DEF IncrementRunCount, Reporting
<1>7. CASE ClaimRunBookkeeping(e) \/ Announce(e)
  BY <1>1, <1>2, <1>3, <1>7 DEF ClaimRunBookkeeping, Announce, AfterAccounting, Reporting
<1>8. CASE DbFault(e)
  BY <1>1, <1>2, <1>8 DEF DbFault, Reporting
<1> QED
  BY <1>1, <1>4, <1>5, <1>6, <1>7, <1>8
     DEF Work, LoadSkill, FinishSkillRemoved, FailJobSkillRemoved, LoadRun, AcquireSlot,
         PauseTimeout, EndPlan, CompleteJob, FailJobRead, FailJobRequeue, FailJobForGood,
         GiveUp, NotifyFailed, Pause, Resume, InfraFailure, Reporting

\* An execution's step is its own.
LEMMA OnlyOwnExec ==
  ASSUME IInv, NEW e \in Exec,
         Work(e) \/ Pause(e) \/ Resume(e) \/ InfraFailure(e) \/ DbFault(e)
  PROVE  /\ \A x \in Exec \ {e} : exec'[x] = exec[x]
         /\ exec'[e] = Idle \/ exec'[e].run = exec[e].run
<1>1. exec \in [Exec -> ExecState]
  BY SoleTypes
<1>2. CASE Leave(e)
  BY <1>2, LeaveGoes DEF Gone
<1>3. CASE \E pc : Goto(e, pc)
  BY <1>3, GotoMoves DEF Moved
<1>4. CASE LoadRun(e) \/ PauseTimeout(e) \/ (\E o \in Terminal : EndPlan(e, o))
             \/ FinishRun(e) \/ FailJobRead(e) \/ Pause(e)
  BY <1>1, <1>4 DEF LoadRun, PauseTimeout, EndPlan, FinishRun, FailJobRead, Pause, ExecState
<1>5. CASE DbFault(e)
  BY <1>1, <1>2, <1>3, <1>5 DEF DbFault, ExecState
<1> QED
  BY <1>2, <1>3, <1>4, <1>5
     DEF Work, LoadSkill, FinishSkillRemoved, FailJobSkillRemoved, AcquireSlot,
         CreditEarningOnce, IncrementRunCount, ClaimRunBookkeeping, Announce,
         AfterAccounting, CompleteJob, FailJobRequeue, FailJobForGood, GiveUp,
         NotifyFailed, Resume, InfraFailure

LEMMA ReportInit == Init => Reported
BY RunsAssumption DEF Init, Reported, Idle, Started, Run

LEMMA ReportNext == ASSUME IInv, Reported, [Next]_vars PROVE Reported'
<1>1. /\ exec \in [Exec -> ExecState] /\ Idle.run \notin ExtensionRun
      /\ CloudRun \cap ExtensionRun = {}
  BY SoleTypes, RunsAssumption DEF Idle, Started, Run
<1>2. ASSUME NEW e \in Exec,
             Work(e) \/ Pause(e) \/ Resume(e) \/ InfraFailure(e) \/ DbFault(e)
      PROVE  Reported'
  <2>1. /\ \A x \in Exec \ {e} : exec'[x] = exec[x]
        /\ exec'[e] = Idle \/ exec'[e].run = exec[e].run
    BY <1>1, <1>2, OnlyOwnExec
  <2>2. exec[e].run \in ExtensionRun => exec'[e] = Idle \/ exec'[e].pc \in Reporting
    BY <1>2, ReportWork
  <2> QED
    BY <1>1, <2>1, <2>2 DEF Reported
<1>3. ASSUME NEW e \in Exec, NEW r \in CloudRun, ClaimNextJob(e, r) PROVE Reported'
  BY <1>1, <1>3 DEF ClaimNextJob, Started, Reported
<1>4. ASSUME NEW e \in Exec, NEW r \in ExtensionRun, NEW o \in Terminal,
             ExtensionReports(e, r, o)
      PROVE  Reported'
  BY <1>1, <1>4 DEF ExtensionReports, Started, Reported, Reporting
<1>5. ASSUME NEW p \in Proc, Crash(p) PROVE Reported'
  <2>1. \A x \in Exec : exec'[x] = Idle \/ exec'[x] = exec[x]
    BY <1>5 DEF Crash
  <2> QED
    BY <1>1, <2>1 DEF Reported
<1>6. ASSUME UNCHANGED exec PROVE Reported'
  BY <1>6 DEF Reported
<1>7. CASE UNCHANGED vars
  BY <1>6, <1>7 DEF vars
<1>8. ASSUME NEW r,
             \/ CreateRun(r) \/ EnqueueRunJob(r) \/ EnqueueFails(r) \/ FailUnqueuedRun(r)
             \/ RecoverStuckJob(r) \/ PruneJob(r) \/ RemoveSkill(r)
      PROVE  Reported'
  BY <1>6, <1>8 DEF CreateRun, EnqueueRunJob, EnqueueFails, FailUnqueuedRun,
                    RecoverStuckJob, PruneJob, RemoveSkill
<1>9. CASE Next
  BY <1>2, <1>3, <1>4, <1>5, <1>8, <1>9 DEF Next
<1> QED
  BY <1>7, <1>9

\* Only the worker's executions open a browser, and there is one for a run.
LEMMA SoleBrowser == ASSUME IInv, SoleInv, Reported PROVE NoDoubleExecution
<1> SUFFICES ASSUME NEW r \in Run
             PROVE  Cardinality({e \in Live(r) : exec[e].pc \in {"browser", "paused"}}) <= 1
  BY DEF NoDoubleExecution
<1> DEFINE B == {e \in Live(r) : exec[e].pc \in {"browser", "paused"}}
<1>1. CASE B = {}
  BY <1>1, FS_EmptySet
<1>2. CASE B # {}
  <2>1. PICK e \in B : TRUE
    BY <1>2
  <2>2. exec[e].run \in CloudRun
    BY <2>1 DEF Live, Run, Reported, Reporting
  <2>3. B = {e}
    BY <2>1, <2>2 DEF Live, SoleInv
  <2>4. Cardinality({e}) = 1
    BY FS_Singleton
  <2>5. Cardinality(B) = 1
    BY <2>3, <2>4
  <2> QED
    BY <2>5
<1> QED
  BY <1>1, <1>2

\* No run is driven by two browsers at once, whatever crashes, fails or is removed, as
\* long as STALE_MS covers an execution with its pauses (recoverStuckJobs, "requeuing it
\* would drive the SAME browser automation a second time").
THEOREM OneBrowser == ASSUME Fit PROVE Spec => []NoDoubleExecution
<1>1. Init => IInv /\ SoleInv /\ Reported
  BY InitInv, SoleInit, ReportInit
<1>2. IInv /\ SoleInv /\ Reported /\ [Next]_vars => IInv' /\ SoleInv' /\ Reported'
  BY Fit, StepInv, SoleNext, ReportNext
<1>3. IInv /\ SoleInv /\ Reported => NoDoubleExecution
  BY SoleBrowser
<1> QED
  BY <1>1, <1>2, <1>3, PTL DEF Spec

-----------------------------------------------------------------------------
(* Once per run, through crashes.                                          *)

\* While nothing but processes fails besides: no database call fails, the skill stays,
\* and the worker executes every run.
Calm == Fit /\ MaxFaults = 0 /\ Removable = {} /\ ExtensionRun = {}

\* What an execution knows then: until it settles the run nothing has, and before it
\* announces the run nothing was announced.
Quiet(e) ==
    LET r == exec[e].run IN
    /\ exec[e].pc \notin {"noSkill", "removed"}
    /\ exec[e].pc \in {"failing", "failWrite", "giveUp"} => ~IsTerminal(r)
    /\ exec[e].pc \in {"credit", "count", "latch", "announce", "notify"} => events[r] = <<>>
    /\ exec[e].pc = "notify" => status[r] = "failed"

\* What the rows of a run say, whoever is gone.
Told(r) ==
    /\ request[r] # "rejected"
    /\ events[r] # <<>> =>
         /\ events[r] = <<status[r]>> /\ IsTerminal(r)
         /\ bookkept[r] \/ job[r].status \in {"failed", "pruned"}
    /\ status[r] = "completed" =>
         /\ job[r].status \notin {"none", "failed"}
         /\ job[r].status = "pruned" => bookkept[r]

OnceInv ==
    /\ removed = {}
    /\ \A e \in Exec : exec[e].pc # "idle" => Quiet(e)
    /\ \A r \in Run : Told(r)

RowKept(q) ==
    /\ status'[q] = status[q] /\ bookkept'[q] = bookkept[q] /\ job'[q] = job[q]
    /\ request'[q] = request[q] /\ events'[q] = events[q]

LEMMA ToldKept == ASSUME NEW q, Told(q), RowKept(q) PROVE Told(q)'
BY DEF Told, RowKept, IsTerminal

\* The one execution of a run takes a step: it goes on, or it is gone.
LEMMA OneStep ==
  ASSUME IInv, SoleInv, OnceInv, Calm, NEW e \in Exec, exec[e].pc # "idle",
         NEW r \in Run, r = exec[e].run,
         \/ Gone(e)
         \/ \E pc \in PC \ {"idle"} : Moved(e, pc) /\ Quiet(e)',
         \A q \in Run \ {r} : RowKept(q),
         Told(r)', UNCHANGED removed
  PROVE  OnceInv'
<1>1. /\ \A x \in Exec \ {e} : exec'[x] = exec[x]
      /\ exec'[e].pc = "idle" \/ Quiet(e)'
  BY DEF Gone, Moved, Idle, Started
<1>2. ASSUME NEW x \in Exec, exec'[x].pc # "idle" PROVE Quiet(x)'
  <2>1. CASE x = e
    BY <1>1, <1>2, <2>1
  <2>2. CASE x # e
    <3>1. exec'[x] = exec[x] /\ exec[x].pc # "idle" /\ exec[x].run \in Run
      BY <1>1, <1>2, <2>2, SoleTypes
    <3>2. exec[x].run # r
      BY <2>2, <3>1 DEF SoleInv, Calm, Run
    <3>3. RowKept(exec[x].run) /\ Quiet(x)
      BY <3>1, <3>2 DEF OnceInv
    <3> QED
      BY <3>1, <3>3 DEF Quiet, RowKept, IsTerminal
  <2> QED
    BY <2>1, <2>2
<1>3. ASSUME NEW q \in Run PROVE Told(q)'
  <2>1. CASE q = r
    BY <2>1
  <2>2. CASE q # r
    BY <2>2, ToldKept DEF OnceInv
  <2> QED
    BY <2>1, <2>2
<1> QED
  BY <1>2, <1>3 DEF OnceInv

\* A step on the rows of a run that nobody executes.
LEMMA RowStep ==
  ASSUME IInv, SoleInv, OnceInv, NEW r \in Run, \A x \in Exec : exec[x].run # r,
         UNCHANGED <<exec, removed>>, \A q \in Run \ {r} : RowKept(q), Told(r)'
  PROVE  OnceInv'
<1>1. ASSUME NEW x \in Exec, exec[x].pc # "idle" PROVE Quiet(x)'
  <2>1. exec[x].run \in Run \ {r}
    BY <1>1, SoleTypes
  <2>2. RowKept(exec[x].run) /\ Quiet(x)
    BY <1>1, <2>1 DEF OnceInv
  <2> QED
    BY <2>2 DEF Quiet, RowKept, IsTerminal
<1>2. \A x \in Exec : exec'[x] = exec[x]
  OBVIOUS
<1>3. ASSUME NEW q \in Run PROVE Told(q)'
  BY ToldKept DEF OnceInv
<1> QED
  BY <1>1, <1>2, <1>3 DEF OnceInv

\* What an execution that is not idle knows.
LEMMA OnceKnown ==
  ASSUME IInv, SoleInv, OnceInv, Calm, NEW e \in Exec, exec[e].pc # "idle"
  PROVE  /\ exec[e].run \in Run /\ ViaJob(e)
         /\ Driving(e) /\ Quiet(e) /\ Told(exec[e].run)
         /\ AccountingOK(e) /\ exec[e].pauses \in Nat /\ faults \in Nat
         /\ HoldsClaim(e) /\ exec[e] \in ExecState
         /\ job[exec[e].run] \in JobRow /\ status[exec[e].run] \in RunStatus
<1>1. exec[e].run \in Run /\ exec[e] \in ExecState /\ faults \in Nat
  BY SoleTypes
<1>2. job[exec[e].run] \in JobRow /\ status[exec[e].run] \in RunStatus
  BY <1>1, SoleTypes
<1>3. Driving(e) /\ Quiet(e) /\ Told(exec[e].run) /\ AccountingOK(e)
  BY <1>1 DEF SoleInv, OnceInv, IInv, Calm, Run
<1>4. ViaJob(e) /\ exec[e].pauses \in Nat
  BY <1>1 DEF ViaJob, Calm, Run, ExecState
<1>5. HoldsClaim(e)
  BY <1>3 DEF HoldsClaim, Driving, Quiet
<1> QED
  BY <1>1, <1>2, <1>3, <1>4, <1>5

\* The steps that change the execution only.
LEMMA OnceQuiet ==
  ASSUME IInv, SoleInv, OnceInv, Calm, NEW e \in Exec, exec[e].pc # "idle",
         NEW r \in Run, r = exec[e].run,
         UNCHANGED <<status, bookkept, job, request, events, removed>>,
         \E pc \in PC \ {"idle"} : Moved(e, pc) /\ Quiet(e)'
  PROVE  OnceInv'
<1>1. Told(r)
  BY OnceKnown
<1>2. \A q : RowKept(q)
  BY DEF RowKept
<1>3. Told(r)'
  BY <1>1, <1>2, ToldKept
<1> QED
  BY <1>2, <1>3, OneStep

LEMMA OnceLoading ==
  ASSUME IInv, SoleInv, OnceInv, Calm, NEW e \in Exec, NEW r \in Run, r = exec[e].run,
         LoadSkill(e) \/ LoadRun(e) \/ AcquireSlot(e) \/ PauseTimeout(e)
           \/ (\E outcome \in Terminal : EndPlan(e, outcome))
           \/ InfraFailure(e) \/ FailJobRead(e) \/ IncrementRunCount(e)
           \/ CreditEarningOnce(e)
  PROVE  OnceInv'
<1>1. exec[e].pc # "idle"
  BY DEF LoadSkill, LoadRun, AcquireSlot, PauseTimeout, EndPlan, InfraFailure,
         FailJobRead, IncrementRunCount, CreditEarningOnce
<1>2. /\ Driving(e) /\ Quiet(e) /\ Told(r) /\ AccountingOK(e) /\ exec[e] \in ExecState
      /\ exec \in [Exec -> ExecState] /\ removed = {}
  BY <1>1, OnceKnown, SoleTypes DEF OnceInv
<1>3. UNCHANGED <<status, bookkept, job, request, events, removed>>
  BY DEF LoadSkill, LoadRun, AcquireSlot, PauseTimeout, EndPlan, InfraFailure,
         FailJobRead, IncrementRunCount, CreditEarningOnce
<1>4. CASE LoadSkill(e)
  <2>1. Moved(e, "loaded") /\ exec'[e].pauses = exec[e].pauses
    BY <1>2, <1>4, GotoMoves DEF LoadSkill
  <2>2. Quiet(e)'
    BY <1>2, <1>3, <1>4, <2>1 DEF LoadSkill, Driving, Quiet, Moved, IsTerminal
  <2> QED
    BY <1>1, <1>3, <2>1, <2>2, OnceQuiet DEF PC
<1>5. CASE LoadRun(e)
  <2>1. /\ Moved(e, AfterLoad(r)) /\ exec'[e].pauses = exec[e].pauses
        /\ exec[e].pc = "loaded"
    BY <1>2, <1>5 DEF LoadRun, Moved, ExecState
  <2>2. CASE ~IsTerminal(r)
    <3>1. Moved(e, "waiting") /\ exec'[e].pauses = exec[e].pauses
      BY <2>1, <2>2 DEF AfterLoad
    <3>2. Quiet(e)'
      BY <1>2, <1>3, <2>1, <2>2, <3>1 DEF Driving, Quiet, Moved, IsTerminal
    <3> QED
      BY <1>1, <1>3, <3>1, <3>2, OnceQuiet DEF PC
  <2>3. CASE IsTerminal(r) /\ bookkept[r]
    <3>1. Moved(e, "complete") /\ exec'[e].pauses = exec[e].pauses
      BY <2>1, <2>3 DEF AfterLoad
    <3>2. Quiet(e)'
      BY <1>2, <1>3, <2>1, <3>1 DEF Driving, Quiet, Moved, IsTerminal
    <3> QED
      BY <1>1, <1>3, <3>1, <3>2, OnceQuiet DEF PC
  <2>4. CASE IsTerminal(r) /\ ~bookkept[r]
    <3>1. Moved(e, "credit") /\ exec'[e].pauses = exec[e].pauses
      BY <2>1, <2>4 DEF AfterLoad
    <3>2. events[r] = <<>>
      BY <1>2, <2>1, <2>4 DEF Driving, Quiet, Told
    <3>3. Quiet(e)'
      BY <1>2, <1>3, <2>1, <3>1, <3>2 DEF Driving, Quiet, Moved, IsTerminal
    <3> QED
      BY <1>1, <1>3, <3>1, <3>3, OnceQuiet DEF PC
  <2> QED
    BY <2>2, <2>3, <2>4
<1>6. CASE AcquireSlot(e)
  <2>1. Moved(e, "browser") /\ exec'[e].pauses = exec[e].pauses
    BY <1>6, GotoMoves DEF AcquireSlot
  <2>2. Quiet(e)'
    BY <1>2, <1>3, <1>6, <2>1 DEF AcquireSlot, Driving, Quiet, Moved, IsTerminal
  <2> QED
    BY <1>1, <1>3, <2>1, <2>2, OnceQuiet DEF PC
<1>7. CASE PauseTimeout(e) \/ \E outcome \in Terminal : EndPlan(e, outcome)
  <2>1. Moved(e, "finish") /\ exec'[e].pauses = exec[e].pauses
    BY <1>2, <1>7 DEF PauseTimeout, EndPlan, Moved, ExecState
  <2>2. Quiet(e)'
    BY <1>2, <1>3, <1>7, <2>1 DEF PauseTimeout, EndPlan, Driving, Quiet, Moved, IsTerminal
  <2> QED
    BY <1>1, <1>3, <2>1, <2>2, OnceQuiet DEF PC
<1>8. CASE InfraFailure(e)
  <2>1. Moved(e, "failing") /\ exec'[e].pauses = exec[e].pauses
    BY <1>8, GotoMoves DEF InfraFailure
  <2>2. Quiet(e)'
    BY <1>2, <1>3, <1>8, <2>1 DEF InfraFailure, Driving, Quiet, Moved, IsTerminal
  <2> QED
    BY <1>1, <1>3, <2>1, <2>2, OnceQuiet DEF PC
<1>9. CASE FailJobRead(e)
  <2>1. Moved(e, "failWrite") /\ exec'[e].pauses = exec[e].pauses
    BY <1>2, <1>9 DEF FailJobRead, Moved, ExecState
  <2>2. Quiet(e)'
    BY <1>2, <1>3, <1>9, <2>1 DEF FailJobRead, Driving, Quiet, Moved, IsTerminal
  <2> QED
    BY <1>1, <1>3, <2>1, <2>2, OnceQuiet DEF PC
<1>10. CASE IncrementRunCount(e)
  <2>1. Moved(e, "latch") /\ exec'[e].pauses = exec[e].pauses
    BY <1>10, GotoMoves DEF IncrementRunCount
  <2>2. Quiet(e)'
    BY <1>2, <1>3, <1>10, <2>1 DEF IncrementRunCount, Driving, Quiet, Moved, IsTerminal
  <2> QED
    BY <1>1, <1>3, <2>1, <2>2, OnceQuiet DEF PC
<1>11. CASE CreditEarningOnce(e)
  <2>1. PICK pc \in {"count", "latch"} : Goto(e, pc)
    BY <1>11 DEF CreditEarningOnce, AfterCredit
  <2>2. Moved(e, pc) /\ exec'[e].pauses = exec[e].pauses
    BY <2>1, GotoMoves
  <2>3. Quiet(e)'
    BY <1>2, <1>3, <1>11, <2>1, <2>2
       DEF CreditEarningOnce, Driving, Quiet, Moved, IsTerminal
  <2> QED
    BY <1>1, <1>3, <2>2, <2>3, OnceQuiet DEF PC
<1> QED
  BY <1>4, <1>5, <1>6, <1>7, <1>8, <1>9, <1>10, <1>11

\* The steps that write the run's status.
LEMMA OnceWriting ==
  ASSUME IInv, SoleInv, OnceInv, Calm, NEW e \in Exec, NEW r \in Run, r = exec[e].run,
         Pause(e) \/ Resume(e) \/ FinishRun(e) \/ GiveUp(e)
  PROVE  OnceInv'
<1>1. exec[e].pc # "idle"
  BY DEF Pause, Resume, FinishRun, GiveUp
<1>2. /\ Driving(e) /\ Quiet(e) /\ Told(r) /\ exec[e] \in ExecState
      /\ exec \in [Exec -> ExecState] /\ status \in [Run -> RunStatus]
      /\ job[r] \in JobRow /\ exec[e].pauses \in Nat /\ MaxPauses \in Nat
  BY <1>1, OnceKnown, SoleTypes, BoundsAssumption
<1>3. UNCHANGED <<bookkept, job, request, events, removed>>
  BY DEF Pause, Resume, FinishRun, GiveUp
<1>4. exec[e].pc \in {"browser", "paused", "finish", "giveUp"} /\ ~IsTerminal(r)
  BY <1>2 DEF Pause, Resume, FinishRun, GiveUp, Driving, Quiet
<1>5. events[r] = <<>> /\ status[r] # "completed"
  BY <1>2, <1>4 DEF Told, IsTerminal, Terminal
<1>6. \A q \in Run \ {r} : status'[q] = status[q]
  BY <1>2 DEF Pause, Resume, FinishRun, GiveUp, Finish, SetRunStatus
<1>7. \A q \in Run \ {r} : RowKept(q)
  BY <1>3, <1>6 DEF RowKept
<1>8. CASE Pause(e)
  <2>1. status'[r] = "awaiting_input"
    BY <1>2, <1>4, <1>8 DEF Pause, SetRunStatus, IsTerminal
  <2>2. Moved(e, "paused") /\ exec'[e].pauses = exec[e].pauses + 1
    BY <1>2, <1>8 DEF Pause, Moved, ExecState
  <2>3. exec'[e].pauses <= MaxPauses
    BY <1>2, <1>8, <2>2 DEF Pause
  <2>4. Quiet(e)'
    BY <1>2, <1>3, <1>8, <2>1, <2>2, <2>3 DEF Pause, Driving, Quiet, Moved, IsTerminal, Terminal
  <2>5. Told(r)'
    BY <1>2, <1>3, <1>5, <2>1 DEF Told, IsTerminal, Terminal
  <2> QED
    BY <1>1, <1>3, <1>7, <2>2, <2>4, <2>5, OneStep DEF PC
<1>9. CASE Resume(e)
  <2>1. status'[r] = "running"
    BY <1>2, <1>4, <1>9 DEF Resume, SetRunStatus, IsTerminal
  <2>2. Moved(e, "browser") /\ exec'[e].pauses = exec[e].pauses
    BY <1>9, GotoMoves DEF Resume
  <2>4. Quiet(e)'
    BY <1>2, <1>3, <1>9, <2>1, <2>2 DEF Resume, Driving, Quiet, Moved, IsTerminal, Terminal
  <2>5. Told(r)'
    BY <1>2, <1>3, <1>5, <2>1 DEF Told, IsTerminal, Terminal
  <2> QED
    BY <1>1, <1>3, <1>7, <2>2, <2>4, <2>5, OneStep DEF PC
<1>10. CASE FinishRun(e)
  <2>1. status'[r] = exec[e].final /\ exec[e].final \in Terminal
    BY <1>2, <1>4, <1>10 DEF FinishRun, Finish, IsTerminal, IInv, OutcomeKnown
  <2>2. Moved(e, "credit") /\ exec'[e].pauses = exec[e].pauses
    BY <1>2, <1>10 DEF FinishRun, Moved, ExecState
  <2>3. job'[r].status = "running" /\ events'[r] = <<>>
    BY <1>2, <1>3, <1>5, <1>10 DEF FinishRun, Driving, Quiet
  <2>4. Quiet(e)'
    BY <1>2, <1>3, <1>10, <2>2, <2>3 DEF FinishRun, Driving, Quiet, Moved
  <2>5. Told(r)'
    BY <1>2, <1>3, <2>1, <2>3 DEF Told
  <2> QED
    BY <1>1, <1>3, <1>7, <2>2, <2>4, <2>5, OneStep DEF PC
<1>11. CASE GiveUp(e)
  <2>1. status'[r] = "failed"
    BY <1>2, <1>4, <1>11 DEF GiveUp, Finish, IsTerminal
  <2>2. Moved(e, "notify") /\ exec'[e].pauses = exec[e].pauses
    BY <1>11, GotoMoves DEF GiveUp
  <2>3. job'[r].status = "failed" /\ events'[r] = <<>>
    BY <1>2, <1>3, <1>5, <1>11 DEF GiveUp, Driving, Quiet
  <2>4. Quiet(e)'
    BY <1>2, <1>3, <1>11, <2>1, <2>2, <2>3 DEF GiveUp, Driving, Quiet, Moved
  <2>5. Told(r)'
    BY <1>2, <1>3, <2>1, <2>3 DEF Told
  <2> QED
    BY <1>1, <1>3, <1>7, <2>2, <2>4, <2>5, OneStep DEF PC
<1> QED
  BY <1>8, <1>9, <1>10, <1>11

\* The latch and the event.
LEMMA OnceAnnouncing ==
  ASSUME IInv, SoleInv, OnceInv, Calm, NEW e \in Exec, NEW r \in Run, r = exec[e].run,
         ClaimRunBookkeeping(e) \/ Announce(e) \/ NotifyFailed(e)
  PROVE  OnceInv'
<1>1. exec[e].pc # "idle"
  BY DEF ClaimRunBookkeeping, Announce, NotifyFailed
<1>2. /\ Driving(e) /\ Quiet(e) /\ Told(r) /\ ViaJob(e) /\ AccountingOK(e)
      /\ exec \in [Exec -> ExecState] /\ bookkept \in [Run -> BOOLEAN]
      /\ events \in [Run -> Seq(RunStatus)] /\ job[r] \in JobRow
  BY <1>1, OnceKnown, SoleTypes
<1>3. UNCHANGED <<status, job, request, removed>>
  BY DEF ClaimRunBookkeeping, Announce, NotifyFailed
<1>4. \A q \in Run \ {r} : RowKept(q)
  BY <1>2, <1>3 DEF ClaimRunBookkeeping, Announce, NotifyFailed, RowKept
<1>5. CASE ClaimRunBookkeeping(e)
  <2>1. bookkept'[r] /\ UNCHANGED events /\ exec[e].pc = "latch"
    BY <1>2, <1>5 DEF ClaimRunBookkeeping
  <2>2. PICK pc \in {"announce", "complete"} :
           Goto(e, pc) /\ (pc = "announce" => ~bookkept[r])
    BY <1>2, <1>5 DEF ClaimRunBookkeeping, AfterAccounting
  <2>3. Moved(e, pc) /\ exec'[e].pauses = exec[e].pauses
    BY <2>2, GotoMoves
  <2>4. Quiet(e)'
    BY <1>2, <1>3, <2>1, <2>2, <2>3 DEF Driving, Quiet, Moved, IsTerminal
  <2>5. Told(r)'
    BY <1>2, <1>3, <2>1 DEF Told, IsTerminal
  <2> QED
    BY <1>1, <1>3, <1>4, <2>2, <2>3, <2>4, <2>5, OneStep DEF PC
<1>6. CASE Announce(e)
  <2>1. events[r] = <<>> /\ exec[e].final = status[r] /\ IsTerminal(r) /\ bookkept[r]
    BY <1>2, <1>6 DEF Announce, Driving, Quiet, AccountingOK
  <2>2. events'[r] = <<status[r]>> /\ UNCHANGED bookkept
    BY <1>2, <1>6, <2>1 DEF Announce
  <2>3. Moved(e, "complete") /\ exec'[e].pauses = exec[e].pauses
    BY <1>2, <1>6, GotoMoves DEF Announce, AfterAccounting
  <2>4. Quiet(e)'
    BY <1>2, <1>3, <1>6, <2>3 DEF Announce, Driving, Quiet, Moved
  <2>5. Told(r)'
    BY <1>2, <1>3, <2>1, <2>2 DEF Told, IsTerminal
  <2> QED
    BY <1>1, <1>3, <1>4, <2>3, <2>4, <2>5, OneStep DEF PC
<1>7. CASE NotifyFailed(e)
  <2>1. events[r] = <<>> /\ status[r] = "failed" /\ job[r].status # "none"
    BY <1>2, <1>7 DEF NotifyFailed, Driving, Quiet
  <2>2. job[r].status \in {"failed", "running"}
    BY <1>2 DEF Driving, Quiet
  <2>3. events'[r] = <<status[r]>> /\ UNCHANGED bookkept
    BY <1>2, <1>7, <2>1 DEF NotifyFailed
  <2>4. IsTerminal(r)
    BY <2>1 DEF IsTerminal, Terminal
  <2>5. Gone(e)
    BY <1>7, LeaveGoes DEF NotifyFailed
  <2>6. job[r].status = "failed"
    BY <1>2, <1>7 DEF NotifyFailed, Driving, Quiet
  <2>7. Told(r)'
    BY <1>2, <1>3, <2>1, <2>3, <2>4, <2>6 DEF Told, IsTerminal
  <2> QED
    BY <1>1, <1>3, <1>4, <2>5, <2>7, OneStep
<1> QED
  BY <1>5, <1>6, <1>7

\* The steps that write the job's row.
LEMMA OnceEnding ==
  ASSUME IInv, SoleInv, OnceInv, Calm, NEW e \in Exec, NEW r \in Run, r = exec[e].run,
         CompleteJob(e) \/ FailJobRequeue(e) \/ FailJobForGood(e)
  PROVE  OnceInv'
<1>1. exec[e].pc # "idle"
  BY DEF CompleteJob, FailJobRequeue, FailJobForGood
<1>2. /\ Driving(e) /\ Quiet(e) /\ Told(r) /\ ViaJob(e) /\ AccountingOK(e) /\ HoldsClaim(e)
      /\ exec \in [Exec -> ExecState] /\ job \in [Run -> JobRow]
  BY <1>1, OnceKnown, SoleTypes
<1>3. UNCHANGED <<status, bookkept, request, events, removed>>
  BY DEF CompleteJob, FailJobRequeue, FailJobForGood
<1>4. \A q \in Run \ {r} : RowKept(q)
  BY <1>2, <1>3 DEF CompleteJob, FailJobRequeue, FailJobForGood, RowKept
<1>5. job[r].status = "running" /\ request[r] # "enqueueing"
  BY <1>2 DEF CompleteJob, FailJobRequeue, FailJobForGood, Driving, Quiet, SoleInv, Asked,
              Calm, Run
<1>6. CASE CompleteJob(e)
  <2>1. job'[r].status = "done" /\ Gone(e) /\ bookkept[r]
    BY <1>2, <1>6, LeaveGoes DEF CompleteJob, AccountingOK
  <2>2. Told(r)'
    BY <1>2, <1>3, <1>5, <2>1 DEF Told, IsTerminal
  <2> QED
    BY <1>1, <1>3, <1>4, <2>1, <2>2, OneStep
<1>7. ASSUME FailJobRequeue(e) \/ FailJobForGood(e)
      PROVE  events[r] = <<>> /\ status[r] # "completed"
  BY <1>2, <1>7 DEF FailJobRequeue, FailJobForGood, Driving, Quiet, Told, IsTerminal, Terminal
<1>8. CASE FailJobRequeue(e)
  <2>1. job'[r].status = "queued" /\ Gone(e)
    BY <1>2, <1>8, LeaveGoes DEF FailJobRequeue
  <2>2. Told(r)'
    BY <1>2, <1>3, <1>5, <1>7, <1>8, <2>1 DEF Told
  <2> QED
    BY <1>1, <1>3, <1>4, <2>1, <2>2, OneStep
<1>9. CASE FailJobForGood(e)
  <2>1. job'[r].status = "failed" /\ job'[r].lockedAt = job[r].lockedAt
    BY <1>2, <1>9 DEF FailJobForGood, JobRow
  <2>2. Moved(e, "giveUp") /\ exec'[e].pauses = exec[e].pauses
    BY <1>2, <1>9, GotoMoves DEF FailJobForGood
  <2>3. Quiet(e)'
    BY <1>2, <1>3, <1>9, <2>1, <2>2 DEF FailJobForGood, Driving, Quiet, Moved, IsTerminal
  <2>4. Told(r)'
    BY <1>2, <1>3, <1>5, <1>7, <1>9, <2>1 DEF Told
  <2> QED
    BY <1>1, <1>3, <1>4, <2>2, <2>3, <2>4, OneStep DEF PC
<1> QED
  BY <1>6, <1>8, <1>9

\* The steps on rows that nobody drives.
LEMMA OnceCreating ==
  ASSUME IInv, SoleInv, OnceInv, Calm, NEW r \in Run,
         \/ CreateRun(r)
         \/ r \in CloudRun /\ (EnqueueRunJob(r) \/ RecoverStuckJob(r) \/ PruneJob(r))
  PROVE  OnceInv'
<1>1. /\ Told(r) /\ job \in [Run -> JobRow] /\ status \in [Run -> RunStatus]
      /\ request \in [Run -> Request] /\ r \in CloudRun /\ Asked(r) /\ Fit
  BY SoleTypes DEF OnceInv, SoleInv, Calm, Run
<1>2. UNCHANGED <<exec, removed, events, bookkept>>
  BY DEF CreateRun, EnqueueRunJob, RecoverStuckJob, PruneJob
<1>3. \A q \in Run \ {r} : RowKept(q)
  BY <1>1, <1>2 DEF CreateRun, EnqueueRunJob, RecoverStuckJob, PruneJob, RowKept
<1>4. CASE CreateRun(r)
  <2>1. job[r].status = "none" /\ status[r] = "none"
    BY <1>4 DEF CreateRun, IInv, CreatedOK
  <2>2. \A x \in Exec : exec[x].run # r
    BY <1>1, <2>1, NobodyDrives
  <2>3. events[r] = <<>>
    BY <1>1, <2>1 DEF Told, IsTerminal, Terminal
  <2>4. /\ status'[r] = "running" /\ request'[r] # "rejected" /\ job' = job
        /\ events' = events
    BY <1>1, <1>4 DEF CreateRun
  <2>5. Told(r)'
    BY <1>1, <2>1, <2>3, <2>4 DEF Told
  <2> QED
    BY <1>2, <1>3, <2>2, <2>5, RowStep
<1>5. CASE EnqueueRunJob(r)
  <2>1. job[r].status = "none"
    BY <1>1, <1>5 DEF EnqueueRunJob, Asked
  <2>2. \A x \in Exec : exec[x].run # r
    BY <1>1, <2>1, NobodyDrives
  <2>3. job'[r].status = "queued" /\ request'[r] = "answered" /\ UNCHANGED status
    BY <1>1, <1>5 DEF EnqueueRunJob, JobRow
  <2>4. Told(r)'
    BY <1>1, <1>2, <2>1, <2>3 DEF Told, IsTerminal
  <2> QED
    BY <1>2, <1>3, <2>2, <2>4, RowStep
<1>6. CASE RecoverStuckJob(r)
  <2>1. job[r].status = "running" /\ \A x \in Exec : exec[x].run # r
    BY <1>1, <1>6, StaleIsLeft DEF RecoverStuckJob, Recoverable
  <2>2. job'[r].status = "queued" /\ UNCHANGED <<status, request>>
    BY <1>1, <1>6 DEF RecoverStuckJob, JobRow
  <2>3. Told(r)'
    BY <1>1, <1>2, <2>1, <2>2 DEF Told, IsTerminal
  <2> QED
    BY <1>2, <1>3, <2>1, <2>3, RowStep
<1>7. CASE PruneJob(r)
  <2>1. r \in CloudRun /\ job[r].status \in {"done", "failed"} /\ Live(r) = {}
    BY <1>1, <1>7 DEF PruneJob, Fit
  <2>2. \A x \in Exec : exec[x].run # r
    BY <2>1 DEF Live
  <2>3. status[r] = "completed" => bookkept[r]
    BY <1>1, <2>1 DEF Told, IInv, RowsInv, DoneMeansSettled
  <2>4. job'[r].status = "pruned" /\ UNCHANGED <<status, request>>
    BY <1>1, <1>7 DEF PruneJob, JobRow
  <2>5. Told(r)'
    BY <1>1, <1>2, <2>1, <2>3, <2>4 DEF Told, IsTerminal
  <2> QED
    BY <1>2, <1>3, <2>2, <2>5, RowStep
<1> QED
  BY <1>4, <1>5, <1>6, <1>7 DEF Calm, Run

\* A queued job is claimed: nobody executed its run.
LEMMA OnceClaiming ==
  ASSUME IInv, OnceInv, NEW e \in Exec, NEW r \in CloudRun, ClaimNextJob(e, r)
  PROVE  OnceInv'
<1>1. /\ exec \in [Exec -> ExecState] /\ job \in [Run -> JobRow] /\ r \in Run
  BY SoleTypes
<1>2. /\ job[r].status = "queued" /\ UNCHANGED <<status, bookkept, request, events, removed>>
      /\ exec' = [exec EXCEPT ![e] = Started("claimed", r, job[r].lockedAt + 1, "none")]
  BY DEF ClaimNextJob
<1>3. /\ job'[r].status = "running"
      /\ \A q \in Run \ {r} : job'[q] = job[q]
  BY <1>1 DEF ClaimNextJob
<1>4. \A x \in Exec \ {e} : exec'[x] = exec[x]
  BY <1>1, <1>2
<1>5. exec'[e].pc = "claimed"
  BY <1>1, <1>2 DEF Started
<1>6. ASSUME NEW x \in Exec, exec'[x].pc # "idle" PROVE Quiet(x)'
  BY <1>2, <1>4, <1>5, <1>6 DEF OnceInv, Quiet, IsTerminal
<1>7. ASSUME NEW q \in Run PROVE Told(q)'
  <2>1. CASE q = r
    BY <1>2, <1>3, <2>1 DEF OnceInv, Told, IsTerminal
  <2>2. CASE q # r
    BY <1>2, <1>3, <2>2 DEF OnceInv, Told, IsTerminal
  <2> QED
    BY <2>1, <2>2
<1> QED
  BY <1>2, <1>6, <1>7 DEF OnceInv

\* A process dies: what is left of it are its rows.
LEMMA OnceCrash == ASSUME IInv, OnceInv, NEW p \in Proc, Crash(p) PROVE OnceInv'
<1>1. /\ \A x \in Exec : exec'[x] = Idle \/ exec'[x] = exec[x]
      /\ UNCHANGED <<status, bookkept, job, events, removed>>
      /\ \A q \in Run : request'[q] = "lost" \/ request'[q] = request[q]
  BY DEF Crash
<1>2. Idle.pc = "idle"
  BY DEF Idle, Started
<1>3. ASSUME NEW x \in Exec, exec'[x].pc # "idle" PROVE Quiet(x)'
  BY <1>1, <1>2, <1>3 DEF OnceInv, Quiet, IsTerminal
<1>4. ASSUME NEW q \in Run PROVE Told(q)'
  BY <1>1 DEF OnceInv, Told, IsTerminal
<1> QED
  BY <1>1, <1>3, <1>4 DEF OnceInv

\* The steps that a calm life does not have.
LEMMA OnceNever ==
  ASSUME IInv, OnceInv, Calm
  PROVE  /\ \A r \in Run : ~EnqueueFails(r) /\ ~FailUnqueuedRun(r)
         /\ \A e \in Exec : ~FinishSkillRemoved(e) /\ ~FailJobSkillRemoved(e) /\ ~DbFault(e)
         /\ ExtensionRun = {} /\ \A s : ~RemoveSkill(s)
<1>1. faults \in Nat /\ ~(faults < MaxFaults)
  BY SoleTypes DEF Calm
<1>2. \A r \in Run : Told(r)
  BY DEF OnceInv
<1>3. ASSUME NEW e \in Exec, FinishSkillRemoved(e) \/ FailJobSkillRemoved(e) PROVE FALSE
  BY <1>3 DEF FinishSkillRemoved, FailJobSkillRemoved, OnceInv, Quiet
<1>4. \A r \in Run : ~EnqueueFails(r) /\ ~FailUnqueuedRun(r)
  BY <1>1, <1>2 DEF EnqueueFails, FailUnqueuedRun, Told
<1> QED
  BY <1>1, <1>3, <1>4 DEF DbFault, RemoveSkill, Calm

LEMMA OnceInit == Init => OnceInv
BY DEF Init, OnceInv, Told, Idle, Started

LEMMA OnceNext == ASSUME IInv, SoleInv, OnceInv, Calm, [Next]_vars PROVE OnceInv'
<1>1. ASSUME NEW e \in Exec, Work(e) \/ Pause(e) \/ Resume(e) \/ InfraFailure(e)
      PROVE  OnceInv'
  <2>1. exec[e].pc # "idle"
    BY <1>1 DEF Work, LoadSkill, FinishSkillRemoved, FailJobSkillRemoved, LoadRun,
                AcquireSlot, PauseTimeout, EndPlan, FinishRun, CreditEarningOnce,
                IncrementRunCount, ClaimRunBookkeeping, Announce, CompleteJob,
                FailJobRead, FailJobRequeue, FailJobForGood, GiveUp, NotifyFailed,
                Pause, Resume, InfraFailure
  <2>2. PICK r \in Run : r = exec[e].run
    BY <2>1, SoleTypes
  <2> QED
    BY <1>1, <2>2, OnceNever, OnceLoading, OnceWriting, OnceAnnouncing, OnceEnding
       DEF Work
<1>2. ASSUME NEW r \in Run, CreateRun(r) PROVE OnceInv'
  BY <1>2, OnceCreating
<1>3. ASSUME NEW r \in CloudRun,
             EnqueueRunJob(r) \/ RecoverStuckJob(r) \/ PruneJob(r)
      PROVE  OnceInv'
  BY <1>3, OnceCreating DEF Run
<1>4. CASE UNCHANGED vars
  BY <1>4, ToldKept DEF vars, OnceInv, Quiet, RowKept, IsTerminal
<1>5. \A r \in CloudRun : ~EnqueueFails(r) /\ ~FailUnqueuedRun(r)
  BY OnceNever DEF Run
<1>6. CASE Next
  BY <1>1, <1>2, <1>3, <1>5, <1>6, OnceNever, OnceClaiming, OnceCrash DEF Next
<1> QED
  BY <1>4, <1>6

\* What holds once per run follows.
LEMMA OnceImplies ==
  ASSUME IInv, SoleInv, Reported, OnceInv, Calm
  PROVE  DoneOnce
<1>1. ASSUME NEW r \in Run, status[r] = "completed", External(r),
             job[r].status \notin {"queued", "running"}
      PROVE  CreditedPair(r)
  <2>1. Told(r) /\ job[r].status \in JobStatus
    BY SoleTypes DEF OnceInv, JobRow
  <2>2. bookkept[r]
    BY <1>1, <2>1 DEF Told, JobStatus, IInv, RowsInv, DoneMeansSettled, Calm, Run
  <2> QED
    BY <1>1, <2>2 DEF IInv, RowsInv, BookedMeansCredited
<1>2. TerminalEventOnce
  BY DEF OnceInv, TerminalEventOnce, Told
<1> QED
  BY <1>1, <1>2, SoleBrowser DEF DoneOnce, CompletedRunIsCredited

\* However processes die and executions stop: no run is driven by two browsers
\* at once, its event goes out once at most and says what its row says, and a
\* completed run whose job is over has been credited (recoverStuckJobs,
\* completeRun's guard, claimRunBookkeeping and finalizeRunAccounting).
THEOREM OnceHolds == ASSUME Calm PROVE Spec => []DoneOnce
<1>1. Init => IInv /\ SoleInv /\ Reported /\ OnceInv
  BY InitInv, SoleInit, ReportInit, OnceInit
<1>2. /\ IInv /\ SoleInv /\ Reported /\ OnceInv /\ [Next]_vars
      => IInv' /\ SoleInv' /\ Reported' /\ OnceInv'
  BY Calm, StepInv, SoleNext, ReportNext, OnceNext DEF Calm
<1>3. IInv /\ SoleInv /\ Reported /\ OnceInv => DoneOnce
  BY Calm, OnceImplies
<1> QED
  BY <1>1, <1>2, <1>3, PTL DEF Spec

-----------------------------------------------------------------------------
(* The versions of a skill.                                                *)

LEMMA LeastNatural ==
  ASSUME NEW T \in SUBSET Nat, T # {}
  PROVE  \E m \in T : \A k \in T : m <= k
<1> DEFINE R == OpToRel(<, Nat)
<1>1. IsWellFoundedOn(R, Nat)
  BY NatLessThanWellFounded, Zenon
<1>2. R = {ss \in Nat \X Nat : ss[1] < ss[2]}
  BY Zenon DEF OpToRel
<1> HIDE DEF R
<1>3. PICK m \in T : \A k \in T : ~(<<k, m>> \in R)
  BY <1>1, WFMin
<1>4. ASSUME NEW k \in T PROVE m <= k
  <2>1. <<k, m>> \in Nat \X Nat
    OBVIOUS
  <2>2. ~(k < m)
    BY <1>2, <1>3, <2>1
  <2> QED
    BY <2>2
<1> QED
  BY <1>4

\* There is a newest version, and 0 stands for it in an empty history.
LEMMA NewestSays ==
  ASSUME DOMAIN history \subseteq Version
  PROVE  /\ Newest \in 0..MaxVersion /\ (Newest = 0 \/ Newest \in DOMAIN history)
         /\ \A v \in DOMAIN history : v <= Newest
<1> USE VersionsAssumption
<1> DEFINE T == {k \in 0..MaxVersion : \A v \in DOMAIN history : v <= k}
<1>1. T \in SUBSET Nat /\ MaxVersion \in T
  BY DEF Version
<1>2. PICK m \in T : \A k \in T : m <= k
  BY <1>1, LeastNatural
<1>3. m = 0 \/ m \in DOMAIN history
  <2> SUFFICES ASSUME m # 0, m \notin DOMAIN history PROVE FALSE
    OBVIOUS
  <2>1. m - 1 \in 0..MaxVersion
    OBVIOUS
  <2>2. \A v \in DOMAIN history : v <= m - 1
    BY DEF Version
  <2> QED
    BY <1>2, <2>1, <2>2
<1>4. \E n \in 0..MaxVersion : /\ n = 0 \/ n \in DOMAIN history
                              /\ \A v \in DOMAIN history : v <= n
  BY <1>2, <1>3
<1> QED
  BY <1>4 DEF Newest

\* What w carries is what it read, as long as nobody has written since.
Undisturbed(w) ==
    LET me == writer[w] IN
    /\ me.pc \in {"update", "snapshot"} => \A v \in DOMAIN history : v < me.version
    /\ me.pc = "snapshot" => skill = [plan |-> me.plan, form |-> me.form,
                                      published |-> skill.published,
                                      version |-> me.version]
    /\ me.pc \in {"max", "update"} /\ skill.published => me.published
    /\ me.pc = "heal" => me.plan = skill.plan
    /\ me.pc = "publish" => Publishable

\* The contents that w carries.
Carries(w) ==
    LET me == writer[w] IN
    /\ me.pc \in {"load", "max", "update", "snapshot"} =>
          me.plan \in Content /\ me.form \in Content
    /\ me.pc = "heal" => me.plan \in Content
    /\ me.pc \in {"update", "snapshot"} => me.version \in Version

\* The row is what its newest snapshot restores.
Restorable ==
    There /\ ~torn =>
        /\ skill.version \in DOMAIN history
        /\ \A v \in DOMAIN history : v <= skill.version
        /\ history[skill.version] = [plan |-> skill.plan, form |-> skill.form]

SkillInv ==
    /\ SkillTypeOK
    /\ There => skill.form \in Content
    /\ ~There => DOMAIN history = {} /\ \A w \in Writer : Unoccupied(w)
    /\ \A w \in Writer : Carries(w) /\ (~writer[w].overtaken => Undisturbed(w))
    /\ Restorable /\ PublishedRuns

WriterRecord == [pc : {"idle", "load", "max", "update", "snapshot", "prune", "heal",
                       "publish"},
                 plan : Maybe, form : Maybe, published : BOOLEAN,
                 version : 0..MaxVersion, overtaken : BOOLEAN]

LEMMA WriterTypes ==
  ASSUME SkillTypeOK
  PROVE  /\ writer \in [Writer -> WriterRecord]
         /\ \A w \in Writer : writer[w] \in WriterRecord
BY DEF SkillTypeOK, WriterRecord

\* A call in progress, and what it is after another one wrote.
Passed(s) == IF s.pc \in {"idle", "prune"} THEN s ELSE [s EXCEPT !.overtaken = TRUE]

LEMMA PassedType ==
  ASSUME NEW s \in WriterRecord
  PROVE  /\ Passed(s) \in WriterRecord
         /\ Passed(s).pc = s.pc /\ Passed(s).plan = s.plan /\ Passed(s).form = s.form
         /\ Passed(s).version = s.version /\ Passed(s).published = s.published
         /\ s.pc \notin {"idle", "prune"} => Passed(s).overtaken
BY DEF Passed, WriterRecord

LEMMA WroteSays ==
  ASSUME SkillTypeOK, NEW w \in Writer, NEW me \in WriterRecord, Wrote(w, me)
  PROVE  /\ writer' \in [Writer -> WriterRecord] /\ writer'[w] = me
         /\ \A u \in Writer \ {w} : writer'[u] = Passed(writer[u])
<1>1. \A u \in Writer : writer[u] \in WriterRecord
  BY WriterTypes
<1>2. writer' = [u \in Writer |-> IF u = w THEN me ELSE Passed(writer[u])]
  BY DEF Wrote, Passed
<1> QED
  BY <1>1, <1>2, PassedType

LEMMA GoToSays ==
  ASSUME SkillTypeOK, NEW w \in Writer, NEW me \in WriterRecord, GoTo(w, me)
  PROVE  /\ writer' \in [Writer -> WriterRecord] /\ writer'[w] = me
         /\ \A u \in Writer \ {w} : writer'[u] = writer[u]
BY WriterTypes DEF GoTo

\* What w carries is there, and undisturbed if nobody overtook it.
Sound(w) == Carries(w) /\ (~writer[w].overtaken => Undisturbed(w))

LEMMA IdleSound ==
  ASSUME NEW w, writer[w].pc \in {"idle", "prune"}
  PROVE  Sound(w)
BY DEF Sound, Carries, Undisturbed

\* Whoever is passed by a write carries what it carried.
LEMMA PassedSound ==
  ASSUME SkillInv, NEW u \in Writer, writer'[u] = Passed(writer[u])
  PROVE  Sound(u)'
<1>1. writer[u] \in WriterRecord /\ Carries(u)
  BY WriterTypes DEF SkillInv
<1>2. /\ writer'[u].pc = writer[u].pc /\ writer'[u].plan = writer[u].plan
      /\ writer'[u].form = writer[u].form /\ writer'[u].version = writer[u].version
      /\ writer[u].pc \notin {"idle", "prune"} => writer'[u].overtaken
  BY <1>1, PassedType
<1>3. Carries(u)'
  BY <1>1, <1>2 DEF Carries
<1>4. CASE writer[u].pc \in {"idle", "prune"}
  BY <1>2, <1>4 DEF Sound, Carries, Undisturbed
<1>5. CASE writer[u].pc \notin {"idle", "prune"}
  BY <1>2, <1>3, <1>5 DEF Sound
<1> QED
  BY <1>4, <1>5

\* Whoever does not move keeps what it has while the row and the history stand.
LEMMA StandingSound ==
  ASSUME SkillInv, NEW u \in Writer, writer'[u] = writer[u],
         DOMAIN history' \subseteq DOMAIN history,
         skill' = skill
  PROVE  Sound(u)'
<1>1. Sound(u)
  BY DEF SkillInv, Sound
<1> QED
  BY <1>1 DEF Sound, Carries, Undisturbed, Publishable

\* A step of w that writes neither the row nor the history.
LEMMA QuietStep ==
  ASSUME SkillInv, NEW w \in Writer, NEW me \in WriterRecord, GoTo(w, me),
         UNCHANGED <<skill, history, torn, crossed>>, breaks' \in 0..MaxBreaks,
         Sound(w)', There \/ me.pc = "idle"
  PROVE  SkillInv'
<1>1. /\ writer' \in [Writer -> WriterRecord] /\ writer'[w] = me
      /\ \A u \in Writer \ {w} : writer'[u] = writer[u]
  BY GoToSays DEF SkillInv
<1>2. SkillTypeOK'
  BY <1>1 DEF SkillInv, SkillTypeOK, WriterRecord
<1>3. \A u \in Writer : Sound(u)'
  BY <1>1, StandingSound
<1>4. /\ There' => skill'.form \in Content
      /\ ~There' => DOMAIN history' = {} /\ \A u \in Writer : Unoccupied(u)'
  BY <1>1 DEF SkillInv, There, Unoccupied
<1>5. Restorable' /\ PublishedRuns'
  BY DEF SkillInv, Restorable, PublishedRuns, There
<1> QED
  BY <1>2, <1>3, <1>4, <1>5 DEF SkillInv, Sound

LEMMA Types ==
  ASSUME SkillInv
  PROVE  /\ skill \in [plan : Maybe, form : Maybe, published : BOOLEAN, version : 0..MaxVersion]
         /\ DOMAIN history \subseteq Version /\ \A v \in DOMAIN history : history[v] \in Snapshots
         /\ \A w \in Writer : writer[w] \in WriterRecord /\ Sound(w)
         /\ NoContent \notin Content /\ (There => skill.plan \in Content /\ skill.form \in Content)
         /\ breaks \in 0..MaxBreaks /\ torn \in BOOLEAN /\ crossed \in BOOLEAN
<1>1. \A w \in Writer : writer[w] \in WriterRecord /\ Sound(w)
  BY WriterTypes DEF SkillInv, Sound
<1> QED
  BY <1>1, ContentAssumption DEF SkillInv, SkillTypeOK, There, Maybe

LEMMA NoWriterType ==
  NoWriter \in WriterRecord /\ NoWriter.pc = "idle" /\ NoWriter.overtaken = FALSE
BY VersionsAssumption DEF NoWriter, WriterRecord, Maybe

LEMMA CreateStep ==
  ASSUME SkillInv, NEW w \in Writer, NEW x \in Content, CreateSkill(w, x)
  PROVE  SkillInv'
<1> DEFINE me == [NoWriter EXCEPT !.pc = "snapshot", !.plan = x, !.form = x,
                                  !.version = FirstVersion]
<1> USE VersionsAssumption DEF FirstVersion
<1>1. /\ ~There /\ DOMAIN history = {} /\ \A u \in Writer : writer[u].pc = "idle"
  BY DEF CreateSkill, SkillInv, Unoccupied
<1>2. /\ me \in WriterRecord /\ me.pc = "snapshot" /\ me.plan = x /\ me.form = x
      /\ me.version = 1 /\ me.overtaken = FALSE
  <2>1. 1 \in 0..MaxVersion
    OBVIOUS
  <2> QED
    BY <2>1, NoWriterType DEF WriterRecord, Maybe
<1>3. Wrote(w, me)
  BY DEF CreateSkill
<1> HIDE DEF me
<1>4. /\ writer' \in [Writer -> WriterRecord] /\ writer'[w] = me
      /\ \A u \in Writer \ {w} : writer'[u] = Passed(writer[u])
  BY <1>2, <1>3, WroteSays DEF SkillInv
<1>5. /\ skill' = [plan |-> x, form |-> x, published |-> FALSE, version |-> 1]
      /\ torn' = TRUE /\ UNCHANGED <<history, breaks, crossed>>
  BY DEF CreateSkill
<1>6. SkillTypeOK'
  BY <1>4, <1>5, Types DEF SkillInv, SkillTypeOK, WriterRecord, Maybe
<1>7. Sound(w)'
  <2>1. Carries(w)'
    BY <1>2, <1>4 DEF Carries, Version
  <2>2. skill'.published = FALSE /\ DOMAIN history' = {}
    BY <1>1, <1>5
  <2>3. skill' = [plan |-> x, form |-> x, published |-> skill'.published, version |-> 1]
    BY <1>5, <2>2
  <2> QED
    BY <1>2, <1>4, <2>1, <2>2, <2>3 DEF Sound, Undisturbed
<1>8. \A u \in Writer : Sound(u)'
  BY <1>4, <1>7, PassedSound
<1>9. There' /\ skill'.form \in Content
  BY <1>5, Types DEF There
<1> QED
  BY <1>5, <1>6, <1>8, <1>9 DEF SkillInv, Sound, Restorable, PublishedRuns

LEMMA LoadingStep ==
  ASSUME SkillInv, NEW w \in Writer, NEW plan \in Content, NEW form \in Content, There,
         GoTo(w, [NoWriter EXCEPT !.pc = "load", !.plan = plan, !.form = form]),
         UNCHANGED <<skill, history, breaks, torn, crossed>>
  PROVE  SkillInv'
<1> DEFINE me == [NoWriter EXCEPT !.pc = "load", !.plan = plan, !.form = form]
<1>1. /\ me \in WriterRecord /\ me.pc = "load" /\ me.plan = plan /\ me.form = form
  BY VersionsAssumption, NoWriterType DEF WriterRecord, Maybe
<1>2. GoTo(w, me)
  OBVIOUS
<1> HIDE DEF me
<1>3. writer'[w] = me
  BY <1>1, <1>2, GoToSays DEF SkillInv
<1>4. Sound(w)'
  BY <1>1, <1>3 DEF Sound, Carries, Undisturbed
<1> QED
  BY <1>1, <1>2, <1>4, Types, QuietStep

LEMMA EditStep ==
  ASSUME SkillInv, NEW w \in Writer, NEW edit \in Edits, EditSkill(w, edit[1], edit[2])
  PROVE  SkillInv'
<1> DEFINE plan == IF edit[1] = NoContent THEN skill.plan ELSE edit[1]
           form == IF edit[2] = NoContent THEN skill.form ELSE edit[2]
<1>1. There /\ plan \in Content /\ form \in Content
  BY Types, ContentAssumption DEF EditSkill
<1>2. /\ GoTo(w, [NoWriter EXCEPT !.pc = "load", !.plan = plan, !.form = form])
      /\ UNCHANGED <<skill, history, breaks, torn, crossed>>
  BY DEF EditSkill
<1> HIDE DEF plan, form
<1> QED
  BY <1>1, <1>2, LoadingStep

LEMMA RestoreStep ==
  ASSUME SkillInv, NEW w \in Writer, NEW v \in Version, RestoreSkill(w, v)
  PROVE  SkillInv'
<1>1. history[v].plan \in Content /\ history[v].form \in Content
  BY Types DEF RestoreSkill, Snapshots
<1> QED
  BY <1>1, LoadingStep DEF RestoreSkill

LEMMA OccupiedThere ==
  ASSUME SkillInv, NEW w \in Writer, writer[w].pc # "idle"
  PROVE  There
BY DEF SkillInv, Unoccupied

LEMMA LoadStep == ASSUME SkillInv, NEW w \in Writer, LoadRow(w) PROVE SkillInv'
<1> DEFINE me == [writer[w] EXCEPT !.pc = "max", !.published = skill.published]
<1>1. writer[w].pc = "load" /\ writer[w] \in WriterRecord /\ Sound(w)
  BY Types DEF LoadRow
<1>2. /\ me \in WriterRecord /\ me.pc = "max" /\ me.plan = writer[w].plan
      /\ me.form = writer[w].form /\ me.published = skill.published
  BY <1>1, Types DEF WriterRecord
<1>3. GoTo(w, me) /\ UNCHANGED <<skill, history, breaks, torn, crossed>>
  BY DEF LoadRow
<1> HIDE DEF me
<1>4. writer'[w] = me
  BY <1>2, <1>3, GoToSays DEF SkillInv
<1>5. Sound(w)'
  BY <1>1, <1>2, <1>3, <1>4 DEF Sound, Carries, Undisturbed
<1> QED
  BY <1>1, <1>2, <1>3, <1>5, Types, QuietStep, OccupiedThere

LEMMA MaxStep == ASSUME SkillInv, NEW w \in Writer, ReadMax(w) PROVE SkillInv'
<1> DEFINE me == [writer[w] EXCEPT !.pc = "update", !.version = NextVersion]
<1>1. writer[w].pc = "max" /\ writer[w] \in WriterRecord /\ Sound(w)
  BY Types DEF ReadMax
<1>2. NextVersion \in Version /\ \A v \in DOMAIN history : v < NextVersion
  <2>1. NextVersion = Newest + 1 /\ NextVersion <= MaxVersion
    BY DEF NextVersion, ReadMax
  <2> QED
    BY <2>1, Types, NewestSays, VersionsAssumption DEF Version
<1>3. /\ me \in WriterRecord /\ me.pc = "update" /\ me.plan = writer[w].plan
      /\ me.form = writer[w].form /\ me.published = writer[w].published
      /\ me.version = NextVersion /\ me.overtaken = writer[w].overtaken
  <2>1. NextVersion \in 0..MaxVersion
    BY <1>2, VersionsAssumption DEF Version
  <2> QED
    BY <1>1, <2>1 DEF WriterRecord
<1>4. GoTo(w, me) /\ UNCHANGED <<skill, history, breaks, torn, crossed>>
  BY DEF ReadMax
<1> HIDE DEF me
<1>5. writer'[w] = me
  BY <1>3, <1>4, GoToSays DEF SkillInv
<1>6. Sound(w)'
  BY <1>1, <1>2, <1>3, <1>4, <1>5 DEF Sound, Carries, Undisturbed
<1> QED
  BY <1>1, <1>3, <1>4, <1>6, Types, QuietStep, OccupiedThere

LEMMA UpdateStep == ASSUME SkillInv, NEW w \in Writer, UpdateRow(w) PROVE SkillInv'
<1> DEFINE old == writer[w]
           me == [old EXCEPT !.pc = "snapshot", !.published = FALSE]
<1>1. old.pc = "update" /\ old \in WriterRecord /\ Sound(w)
  BY Types DEF UpdateRow
<1>2. /\ me \in WriterRecord /\ me.pc = "snapshot" /\ me.plan = old.plan
      /\ me.form = old.form /\ me.version = old.version /\ me.overtaken = old.overtaken
  BY <1>1 DEF WriterRecord
<1>3. /\ Wrote(w, me) /\ torn' = TRUE /\ crossed' = old.overtaken
      /\ UNCHANGED <<history, breaks>>
      /\ skill' = [plan |-> old.plan, form |-> old.form, version |-> old.version,
                   published |-> skill.published /\ ~Unpublishes(w)]
  BY DEF UpdateRow
<1> HIDE DEF me
<1>4. /\ writer' \in [Writer -> WriterRecord] /\ writer'[w] = me
      /\ \A u \in Writer \ {w} : writer'[u] = Passed(writer[u])
  BY <1>2, <1>3, WroteSays DEF SkillInv
<1>5. old.plan \in Content /\ old.form \in Content /\ old.version \in Version
  BY <1>1 DEF Sound, Carries
<1>6. /\ skill'.plan = old.plan /\ skill'.form = old.form /\ skill'.version = old.version
      /\ skill'.published = (skill.published /\ ~Unpublishes(w))
  BY <1>3
<1>7. SkillTypeOK'
  <2>1. skill.published \in BOOLEAN /\ old.overtaken \in BOOLEAN
    BY <1>1, Types DEF WriterRecord
  <2> QED
    BY <1>3, <1>4, <1>5, <2>1, Types DEF SkillTypeOK, WriterRecord, Maybe, Version
<1>8. Sound(w)'
  <2>1. Carries(w)'
    BY <1>2, <1>4, <1>5 DEF Carries
  <2>2. ASSUME ~old.overtaken PROVE \A v \in DOMAIN history : v < old.version
    BY <1>1, <2>2 DEF Sound, Undisturbed
  <2>3. skill' = [plan |-> me.plan, form |-> me.form, published |-> skill'.published,
                  version |-> me.version]
    BY <1>2, <1>3, <1>6
  <2> QED
    BY <1>2, <1>3, <1>4, <2>1, <2>2, <2>3 DEF Sound, Undisturbed
<1>9. \A u \in Writer : Sound(u)'
  BY <1>4, <1>8, PassedSound
<1>10. There' /\ skill'.form \in Content
  BY <1>5, <1>6, Types DEF There
<1>11. PublishedRuns'
  <2> SUFFICES ASSUME skill'.published, ~crossed'
               PROVE  <<skill'.plan, skill'.form>> \in Runs
    BY DEF PublishedRuns
  <2>1. old.published
    BY <1>1, <1>3, <1>6 DEF Sound, Undisturbed
  <2> QED
    BY <1>6, <2>1 DEF Unpublishes
<1> QED
  BY <1>3, <1>7, <1>9, <1>10, <1>11 DEF SkillInv, Sound, Restorable

LEMMA InsertStep == ASSUME SkillInv, NEW w \in Writer, InsertSnapshot(w) PROVE SkillInv'
<1> DEFINE me == writer[w]
           it == [plan |-> me.plan, form |-> me.form]
<1>1. me.pc = "snapshot" /\ me \in WriterRecord /\ Sound(w) /\ There
  BY Types, OccupiedThere DEF InsertSnapshot
<1>2. CASE me.version \in DOMAIN history
  <2>1. GoTo(w, NoWriter) /\ UNCHANGED <<skill, history, breaks, torn, crossed>>
    BY <1>2 DEF InsertSnapshot
  <2>2. writer'[w] = NoWriter
    BY <2>1, GoToSays, NoWriterType DEF SkillInv
  <2>3. Sound(w)'
    BY <2>2, NoWriterType DEF Sound, Carries, Undisturbed
  <2> QED
    BY <2>1, <2>3, NoWriterType, QuietStep, Types
<1>3. CASE me.version \notin DOMAIN history
  <2> DEFINE next == [NoWriter EXCEPT !.pc = "prune"]
  <2>1. next \in WriterRecord /\ next.pc = "prune"
    BY VersionsAssumption, NoWriterType DEF WriterRecord, Maybe
  <2>2. /\ Wrote(w, next) /\ torn' = me.overtaken /\ UNCHANGED <<skill, breaks, crossed>>
        /\ history' = [v \in DOMAIN history \cup {me.version} |->
                          IF v = me.version THEN it ELSE history[v]]
    BY <1>3 DEF InsertSnapshot
  <2> HIDE DEF next
  <2>3. /\ writer' \in [Writer -> WriterRecord] /\ writer'[w] = next
        /\ \A u \in Writer \ {w} : writer'[u] = Passed(writer[u])
    BY <2>1, <2>2, WroteSays DEF SkillInv
  <2>4. it \in Snapshots /\ me.version \in Version /\ me.overtaken \in BOOLEAN
    BY <1>1 DEF Sound, Carries, Snapshots, WriterRecord
  <2>5. /\ DOMAIN history' = DOMAIN history \cup {me.version}
        /\ history'[me.version] = it
        /\ \A v \in DOMAIN history : v # me.version => history'[v] = history[v]
    BY <2>2
  <2>6. SkillTypeOK'
    BY <2>2, <2>3, <2>4, <2>5, Types DEF SkillTypeOK, WriterRecord
  <2>7. \A u \in Writer : Sound(u)'
    <3>1. Sound(w)'
      BY <2>1, <2>3 DEF Sound, Carries, Undisturbed
    <3> QED
      BY <2>3, <3>1, PassedSound
  <2>8. Restorable'
    <3> SUFFICES ASSUME ~me.overtaken
                 PROVE  /\ skill.version \in DOMAIN history'
                        /\ \A v \in DOMAIN history' : v <= skill.version
                        /\ history'[skill.version] = [plan |-> skill.plan,
                                                      form |-> skill.form]
      BY <2>2 DEF Restorable
    <3>1. /\ \A v \in DOMAIN history : v < me.version
          /\ skill = [plan |-> me.plan, form |-> me.form, published |-> skill.published,
                      version |-> me.version]
      BY <1>1 DEF Sound, Undisturbed
    <3>2. skill.version = me.version /\ skill.plan = me.plan /\ skill.form = me.form
      BY <3>1
    <3>3. \A v \in DOMAIN history' : v <= me.version
      BY <2>4, <2>5, <3>1, Types DEF Version
    <3> QED
      BY <2>5, <3>2, <3>3
  <2> QED
    BY <1>1, <2>2, <2>6, <2>7, <2>8, Types DEF SkillInv, Sound, PublishedRuns, There
<1> QED
  BY <1>2, <1>3

LEMMA PruneStep == ASSUME SkillInv, NEW w \in Writer, PruneHistory(w) PROVE SkillInv'
<1>1. /\ GoTo(w, NoWriter) /\ UNCHANGED <<skill, breaks, torn, crossed>>
      /\ writer[w].pc = "prune" /\ There
      /\ history' = [v \in {v \in DOMAIN history : ~Outdated(v)} |-> history[v]]
  BY OccupiedThere DEF PruneHistory
<1>2. /\ writer' \in [Writer -> WriterRecord] /\ writer'[w] = NoWriter
      /\ \A u \in Writer \ {w} : writer'[u] = writer[u]
  BY <1>1, GoToSays, NoWriterType DEF SkillInv
<1>3. /\ DOMAIN history' \subseteq DOMAIN history
      /\ \A v \in DOMAIN history' : history'[v] = history[v]
      /\ \A v \in DOMAIN history : ~Outdated(v) => v \in DOMAIN history'
  BY <1>1
<1>4. SkillTypeOK'
  BY <1>1, <1>2, <1>3, Types DEF SkillTypeOK, WriterRecord
<1>5. Sound(w)'
  BY <1>2, NoWriterType DEF Sound, Carries, Undisturbed
<1>6. \A u \in Writer : Sound(u)'
  BY <1>1, <1>2, <1>3, <1>5, StandingSound
<1>7. Restorable'
  <2> SUFFICES ASSUME ~torn
               PROVE  /\ skill.version \in DOMAIN history'
                      /\ \A v \in DOMAIN history' : v <= skill.version
                      /\ history'[skill.version] = [plan |-> skill.plan,
                                                    form |-> skill.form]
    BY <1>1 DEF Restorable
  <2>1. /\ skill.version \in DOMAIN history
        /\ \A v \in DOMAIN history : v <= skill.version
        /\ history[skill.version] = [plan |-> skill.plan, form |-> skill.form]
    BY <1>1 DEF SkillInv, Restorable
  <2>2. ~Outdated(skill.version)
    <3>1. /\ Newest \in 0..MaxVersion /\ (Newest = 0 \/ Newest \in DOMAIN history)
      BY Types, NewestSays
    <3>2. skill.version \in Version /\ Newest <= skill.version
      BY <2>1, <3>1, Types DEF Version
    <3> QED
      BY <3>1, <3>2, VersionsAssumption DEF Outdated, Version
  <2> QED
    BY <1>3, <2>1, <2>2
<1> QED
  BY <1>1, <1>4, <1>6, <1>7, Types DEF SkillInv, Sound, PublishedRuns, There

LEMMA ReadPlanStep == ASSUME SkillInv, NEW w \in Writer, ReadPlan(w) PROVE SkillInv'
<1> DEFINE me == [NoWriter EXCEPT !.pc = "heal", !.plan = skill.plan]
<1>1. There /\ skill.plan \in Content
  BY Types DEF ReadPlan
<1>2. me \in WriterRecord /\ me.pc = "heal" /\ me.plan = skill.plan
  BY <1>1, VersionsAssumption, NoWriterType DEF WriterRecord, Maybe
<1>3. GoTo(w, me) /\ UNCHANGED <<skill, history, breaks, torn, crossed>>
  BY DEF ReadPlan
<1> HIDE DEF me
<1>4. writer'[w] = me
  BY <1>2, <1>3, GoToSays DEF SkillInv
<1>5. Sound(w)'
  BY <1>1, <1>2, <1>3, <1>4 DEF Sound, Carries, Undisturbed
<1> QED
  BY <1>1, <1>2, <1>3, <1>5, Types, QuietStep

LEMMA WritePlanStep == ASSUME SkillInv, NEW w \in Writer, WritePlan(w) PROVE SkillInv'
<1> DEFINE me == writer[w]
<1>1. me.pc = "heal" /\ me \in WriterRecord /\ Sound(w) /\ There /\ me.plan \in Content
  BY Types, OccupiedThere DEF WritePlan, Sound, Carries
<1>2. /\ Wrote(w, NoWriter) /\ UNCHANGED <<history, breaks>>
      /\ skill' = [skill EXCEPT !.plan = me.plan]
      /\ torn' = (torn \/ me.overtaken) /\ crossed' = (crossed \/ me.overtaken)
  BY DEF WritePlan
<1>3. /\ writer' \in [Writer -> WriterRecord] /\ writer'[w] = NoWriter
      /\ \A u \in Writer \ {w} : writer'[u] = Passed(writer[u])
  BY <1>2, NoWriterType, WroteSays DEF SkillInv
<1>4. /\ skill'.plan = me.plan /\ skill'.form = skill.form
      /\ skill'.published = skill.published /\ skill'.version = skill.version
  BY <1>2, Types
<1>5. SkillTypeOK'
  <2>1. skill' \in [plan : Maybe, form : Maybe, published : BOOLEAN, version : 0..MaxVersion]
    BY <1>1, <1>2, Types DEF Maybe
  <2>2. torn' \in BOOLEAN /\ crossed' \in BOOLEAN
    BY <1>1, <1>2, Types DEF WriterRecord
  <2> QED
    BY <1>2, <1>3, <2>1, <2>2, Types DEF SkillTypeOK, WriterRecord
<1>6. \A u \in Writer : Sound(u)'
  <2>1. Sound(w)'
    BY <1>3, NoWriterType DEF Sound, Carries, Undisturbed
  <2> QED
    BY <1>3, <2>1, PassedSound
<1>7. There' /\ skill'.form \in Content
  BY <1>1, <1>4, Types DEF There
<1>8. ~me.overtaken => skill'.plan = skill.plan
  BY <1>1, <1>4 DEF Sound, Undisturbed
<1>9. Restorable' /\ PublishedRuns'
  BY <1>1, <1>2, <1>4, <1>8 DEF SkillInv, Restorable, PublishedRuns
<1> QED
  BY <1>5, <1>6, <1>7, <1>9 DEF SkillInv, Sound

LEMMA CheckSkillStep == ASSUME SkillInv, NEW w \in Writer, CheckSkill(w) PROVE SkillInv'
<1> DEFINE me == [NoWriter EXCEPT !.pc = "publish"]
<1>1. me \in WriterRecord /\ me.pc = "publish"
  BY VersionsAssumption, NoWriterType DEF WriterRecord, Maybe
<1>2. GoTo(w, me) /\ UNCHANGED <<skill, history, breaks, torn, crossed>> /\ There /\ Publishable
  BY DEF CheckSkill
<1> HIDE DEF me
<1>3. writer'[w] = me
  BY <1>1, <1>2, GoToSays DEF SkillInv
<1>4. Sound(w)'
  BY <1>1, <1>2, <1>3 DEF Sound, Carries, Undisturbed, Publishable
<1> QED
  BY <1>1, <1>2, <1>4, Types, QuietStep

LEMMA PublishStep == ASSUME SkillInv, NEW w \in Writer, Publish(w) PROVE SkillInv'
<1> DEFINE me == writer[w]
<1>1. me.pc = "publish" /\ me \in WriterRecord /\ Sound(w) /\ There
  BY Types, OccupiedThere DEF Publish
<1>2. /\ Wrote(w, NoWriter) /\ UNCHANGED <<history, breaks, torn>>
      /\ skill' = [skill EXCEPT !.published = TRUE] /\ crossed' = me.overtaken
  BY DEF Publish
<1>3. /\ writer' \in [Writer -> WriterRecord] /\ writer'[w] = NoWriter
      /\ \A u \in Writer \ {w} : writer'[u] = Passed(writer[u])
  BY <1>2, NoWriterType, WroteSays DEF SkillInv
<1>4. /\ skill'.plan = skill.plan /\ skill'.form = skill.form
      /\ skill'.version = skill.version
  BY <1>2, Types
<1>5. SkillTypeOK'
  <2>1. skill' \in [plan : Maybe, form : Maybe, published : BOOLEAN, version : 0..MaxVersion]
    BY <1>2, Types
  <2>2. crossed' \in BOOLEAN
    BY <1>1, <1>2 DEF WriterRecord
  <2> QED
    BY <1>2, <1>3, <2>1, <2>2, Types DEF SkillTypeOK, WriterRecord
<1>6. \A u \in Writer : Sound(u)'
  <2>1. Sound(w)'
    BY <1>3, NoWriterType DEF Sound, Carries, Undisturbed
  <2> QED
    BY <1>3, <2>1, PassedSound
<1>7. PublishedRuns'
  BY <1>1, <1>2, <1>4 DEF PublishedRuns, Sound, Undisturbed, Publishable
<1>8. Restorable' /\ There' /\ skill'.form \in Content
  BY <1>1, <1>2, <1>4, Types DEF SkillInv, Restorable, There
<1> QED
  BY <1>5, <1>6, <1>7, <1>8 DEF SkillInv, Sound

LEMMA UnpublishStep == ASSUME SkillInv, Unpublish PROVE SkillInv'
<1>1. /\ skill' = [skill EXCEPT !.published = FALSE]
      /\ UNCHANGED <<history, writer, breaks, torn, crossed>>
  BY DEF Unpublish
<1>2. /\ skill'.plan = skill.plan /\ skill'.form = skill.form
      /\ skill'.version = skill.version /\ skill'.published = FALSE
      /\ skill' \in [plan : Maybe, form : Maybe, published : BOOLEAN, version : 0..MaxVersion]
  BY <1>1, Types
<1>3. ASSUME NEW u \in Writer PROVE Sound(u)'
  <2>1. Sound(u)
    BY Types
  <2>2. Carries(u)'
    BY <1>1, <2>1 DEF Sound, Carries
  <2>3. ASSUME writer[u].pc = "snapshot", ~writer[u].overtaken
        PROVE  skill' = [plan |-> writer[u].plan, form |-> writer[u].form,
                         published |-> skill'.published, version |-> writer[u].version]
    <3>1. skill = [plan |-> writer[u].plan, form |-> writer[u].form,
                   published |-> skill.published, version |-> writer[u].version]
      BY <2>1, <2>3 DEF Sound, Undisturbed
    <3>2. /\ skill.plan = writer[u].plan /\ skill.form = writer[u].form
          /\ skill.version = writer[u].version
      BY <3>1
    <3>3. skill' = [plan |-> skill.plan, form |-> skill.form,
                    published |-> skill'.published, version |-> skill.version]
      BY <1>1, <1>2, Types
    <3> QED
      BY <3>2, <3>3
  <2> QED
    BY <1>1, <1>2, <2>1, <2>2, <2>3 DEF Sound, Undisturbed, Publishable
<1>4. SkillTypeOK'
  BY <1>1, <1>2 DEF SkillInv, SkillTypeOK
<1> QED
  BY <1>1, <1>2, <1>3, <1>4 DEF SkillInv, Sound, Restorable, PublishedRuns, There, Unoccupied

LEMMA BreakOffStep == ASSUME SkillInv, NEW w \in Writer, BreakOff(w) PROVE SkillInv'
<1>1. GoTo(w, NoWriter) /\ UNCHANGED <<skill, history, torn, crossed>>
  BY DEF BreakOff
<1>2. writer'[w] = NoWriter
  BY <1>1, GoToSays, NoWriterType DEF SkillInv
<1>3. Sound(w)'
  BY <1>2, NoWriterType DEF Sound, Carries, Undisturbed
<1>4. breaks' \in 0..MaxBreaks
  BY Types, VersionsAssumption DEF BreakOff
<1> QED
  BY <1>1, <1>3, <1>4, NoWriterType, QuietStep

LEMMA SkillStep == SkillInv /\ [SkillNext]_skillVars => SkillInv'
<1> SUFFICES ASSUME SkillInv, [SkillNext]_skillVars PROVE SkillInv'
  OBVIOUS
<1>1. CASE UNCHANGED skillVars
  BY <1>1 DEF skillVars, SkillInv, SkillTypeOK, There, Unoccupied, Carries, Undisturbed,
              Publishable, Restorable, PublishedRuns
<1> QED
  BY <1>1, CreateStep, EditStep, RestoreStep, LoadStep, MaxStep, UpdateStep, InsertStep,
     PruneStep, ReadPlanStep, WritePlanStep, CheckSkillStep, PublishStep, BreakOffStep,
     UnpublishStep DEF SkillNext

\* The inductive invariant of the versions.
THEOREM SkillInvariant == SkillSpec => []SkillInv
<1>1. SkillInit => SkillInv
  <2> SUFFICES ASSUME SkillInit PROVE SkillInv
    OBVIOUS
  <2>1. ~There /\ DOMAIN history = {} /\ \A w \in Writer : writer[w] = NoWriter
    BY DEF SkillInit, There
  <2>2. SkillTypeOK
    <3>1. writer \in [Writer -> WriterRecord]
      BY NoWriterType DEF SkillInit
    <3>2. skill \in [plan : Maybe, form : Maybe, published : BOOLEAN, version : 0..MaxVersion]
      BY VersionsAssumption DEF SkillInit, Maybe
    <3>3. breaks \in 0..MaxBreaks
      BY VersionsAssumption DEF SkillInit
    <3>4. torn \in BOOLEAN /\ crossed \in BOOLEAN
      BY DEF SkillInit
    <3> QED
      BY <2>1, <3>1, <3>2, <3>3, <3>4 DEF SkillTypeOK, WriterRecord
  <2> QED
    BY <2>1, <2>2, NoWriterType DEF SkillInit, SkillInv, Carries, Undisturbed, Unoccupied,
       Restorable, PublishedRuns
<1> QED
  BY <1>1, SkillStep, PTL DEF SkillSpec

\* Type correctness of a skill's row, its history and its writers.
THEOREM SkillTyping == SkillSpec => []SkillTypeOK
<1>1. SkillInv => SkillTypeOK
  BY DEF SkillInv
<1> QED
  BY <1>1, SkillInvariant, PTL

\* However many calls edit, restore, heal, publish and prune at once, and break off
\* half way: an edit that nobody overtook is recorded under a version of its own and
\* can be restored, and what is published can run unless a decision was overtaken.
THEOREM VersionsKept == SkillSpec => []SkillKept
<1>1. SkillInv => SkillKept
  <2> SUFFICES ASSUME SkillInv PROVE SkillKept
    OBVIOUS
  <2>1. \A w \in Writer : writer[w].pc = "snapshot" /\ ~writer[w].overtaken =>
           writer[w].version \notin DOMAIN history
    BY Types DEF SkillInv, Carries, Undisturbed, Version
  <2> QED
    BY <2>1 DEF SkillInv, SkillKept, EditRecorded, Restorable
<1> QED
  BY <1>1, SkillInvariant, PTL

-----------------------------------------------------------------------------
(* The two together.                                                       *)

\* What the theorems say of the runs and of the edits holds where both may
\* move: a step of the composition is a step of one and stutters for the other.
THEOREM SkillRunsParts == SkillRunsSpec => Spec /\ SkillSpec
<1>1. SkillRunsInit => Init /\ SkillInit
  BY DEF SkillRunsInit
<1>2. [SkillRunsNext]_<<part, vars, skillVars>> => [Next]_vars /\ [SkillNext]_skillVars
  BY DEF SkillRunsNext
<1> QED
  BY <1>1, <1>2, PTL DEF SkillRunsSpec, Spec, SkillSpec

\* The types of both, wherever a process dies around a skill.
THEOREM SkillRunsTyping == SkillRunsSpec => []SkillRunsTypeOK
<1>1. TypeOK /\ SkillTypeOK => SkillRunsTypeOK
  BY DEF SkillRunsTypeOK
<1> QED
  BY <1>1, SkillRunsParts, Typing, SkillTyping, PTL
=============================================================================
