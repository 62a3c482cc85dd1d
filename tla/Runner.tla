------------------------------- MODULE Runner -------------------------------
(***************************************************************************)
(* The modules around lib/runner.ts.  An execution of LiveHandoff that     *)
(* holds its slot goes through a plan of PlanRun; what it goes through     *)
(* comes from a Recording.  None of them reads what another one changes:   *)
(* a behaviour of this module is one of the three, the others at rest.     *)
(***************************************************************************)
EXTENDS LiveHandoff, PlanRun, Recording

VARIABLE part      \* which of the three moves

\* The plan of the other parts, which nobody executes.
AnyPlan == CHOOSE q \in Plans : TRUE

RunnerInit ==
    /\ part \in {"slots", "plan", "record"}
    /\ Init /\ PlanInit /\ RecInit
    /\ part # "plan" => plan = AnyPlan /\ skips = {}

RunnerNext ==
    /\ \/ part = "slots" /\ Next /\ UNCHANGED <<planVars, recVars>>
       \/ part = "plan" /\ PlanNext /\ UNCHANGED <<vars, recVars>>
       \/ part = "record" /\ ~mixed /\ RecNext /\ UNCHANGED <<vars, planVars>>
    /\ UNCHANGED part

\* Nothing of Fairness and RecFairness is enabled in their initial states.
RunnerSpec ==
    /\ RunnerInit /\ [][RunnerNext]_<<part, vars, planVars, recVars>>
    /\ Fairness /\ RecFairness
    /\ WF_planVars(part = "plan" /\ Forward)

\* No run goes on for ever: it gets its slot, its pauses end, and, in the part that has
\* a plan to end, it "parks in needs_review rather than looping".
RunsEnd == NobodyKeepsWaiting /\ (part = "plan" => PlanEnds)

\* Executions, slots and live sessions, the state of a plan, and recordings
\* have their types.
RunnerTypeOK == TypeOK /\ PlanTypeOK /\ RecTypeOK
=============================================================================
