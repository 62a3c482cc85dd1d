----------------------------- MODULE SkillRuns ------------------------------
(***************************************************************************)
(* The two modules in which a process may die around a skill: the runs of  *)
(* RunQueue, and the edits of SkillVersions.  Neither reads what the other *)
(* changes: a behaviour of this module is one of either, the other at rest.*)
(***************************************************************************)
EXTENDS RunQueue, SkillVersions

VARIABLE part      \* which of the two moves

SkillRunsInit == part \in {"runs", "skill"} /\ Init /\ SkillInit

SkillRunsNext ==
    /\ \/ part = "runs" /\ Next /\ UNCHANGED skillVars
       \/ part = "skill" /\ SkillNext /\ UNCHANGED vars
    /\ UNCHANGED part

SkillRunsSpec == SkillRunsInit /\ [][SkillRunsNext]_<<part, vars, skillVars>>

\* The rows and the executions of runs, and the history and the writers of a
\* skill, have their types.
SkillRunsTypeOK == TypeOK /\ SkillTypeOK
=============================================================================
