---------------------------- MODULE RunContract ----------------------------
(***************************************************************************)
(* What the run service promises about one run's outcome and its           *)
(* accounting, without jobs, workers, pauses, retries or crashes: the      *)
(* abstract specification that RunQueue implements.                        *)
(***************************************************************************)
CONSTANTS Run, SkillOf, RunnerOf, OwnerOf

VARIABLES
    outcome,    \* none, running, or the terminal status of each run
    credited,   \* the runs whose completion credited their skill's owner
    booked      \* the runs whose bookkeeping has been done

contractVars == <<outcome, credited, booked>>

Outcome == {"completed", "failed", "needs_review"}

Earns(r) == outcome[r] = "completed" /\ OwnerOf[SkillOf[r]] # RunnerOf[r]
PairCredited(r) == \E c \in credited : /\ SkillOf[c] = SkillOf[r]
                                       /\ RunnerOf[c] = RunnerOf[r]

Init ==
    /\ outcome = [r \in Run |-> "none"]
    /\ credited = {}
    /\ booked = {}

Open(r) ==
    /\ outcome[r] = "none"
    /\ outcome' = [outcome EXCEPT ![r] = "running"]
    /\ UNCHANGED <<credited, booked>>

\* The outcome is decided once.
Settle(r, o) ==
    /\ outcome[r] = "running"
    /\ outcome' = [outcome EXCEPT ![r] = o]
    /\ UNCHANGED <<credited, booked>>

\* The first completed run of a pair earns its skill's owner the fee.
Credit(r) ==
    /\ Earns(r) /\ ~PairCredited(r)
    /\ credited' = credited \cup {r}
    /\ UNCHANGED <<outcome, booked>>

\* Booking closes a settled run; a credit that is due comes first.
Book(r) ==
    /\ outcome[r] \in Outcome /\ r \notin booked
    /\ Earns(r) => PairCredited(r)
    /\ booked' = booked \cup {r}
    /\ UNCHANGED <<outcome, credited>>

Next == \E r \in Run :
    \/ Open(r) \/ Credit(r) \/ Book(r)
    \/ \E o \in Outcome : Settle(r, o)

Spec == Init /\ [][Next]_contractVars

=============================================================================
