--------------------------- MODULE WatchContract ---------------------------
(***************************************************************************)
(* What a watch promises its owner: a check that could read the page while *)
(* nobody asked for quiet reports a crossing of the rule, measured from    *)
(* the reading the owner is up to date with, and nothing else; a quiet     *)
(* check, or one that read nothing, leaves the owner where they were.  The *)
(* abstract specification that Watch implements.                           *)
(***************************************************************************)
EXTENDS Naturals

CONSTANTS Check, Reading, Blank, Satisfying, Unreadable, None, Failed

VARIABLES
    rule,    \* the rule in force
    known,   \* the reading the owner is up to date with, or None
    hushed,  \* the last check was quiet
    input,   \* the observation each check is about to judge, or None
    owed,    \* the crossing each check is about to report, or None
    raced    \* somebody wrote over a state it had not read: no promise holds

contractVars == <<rule, known, hushed, input, owed, raced>>

Conclusive(r, seen) ==
    /\ seen # Failed
    /\ r.op = "level" => seen \notin Unreadable

Crosses(r, prev, next) ==
    \/ r.op = "changed" /\ prev \notin {None, next}
    \/ r.op = "appears" /\ prev = Blank /\ next # Blank
    \/ r.op = "level" /\ prev \notin Satisfying /\ next \in Satisfying

Observation == [sees : Reading \cup {Failed}, quiet : BOOLEAN]

Init ==
    /\ known = None /\ hushed = FALSE /\ raced = FALSE
    /\ input = [c \in Check |-> None]
    /\ owed = [c \in Check |-> None]

Take(c, i) ==
    /\ input[c] = None /\ owed[c] = None
    /\ input' = [input EXCEPT ![c] = i]
    /\ UNCHANGED <<rule, known, hushed, owed, raced>>

Judged(c) == input[c] # None /\ input' = [input EXCEPT ![c] = None]

\* Quiet, or nothing was read: the owner stays where they are.
Pass(c) ==
    /\ Judged(c)
    /\ input[c].quiet \/ (~hushed /\ ~Conclusive(rule, input[c].sees))
    /\ hushed' = input[c].quiet
    /\ UNCHANGED <<rule, known, owed, raced>>

\* An owner who was up to date with nothing is, as the quiet goes on, with a value
\* that was read during it.
TakeUp(c) ==
    /\ Judged(c) /\ input[c].quiet
    /\ hushed /\ known = None /\ known' \in Reading
    /\ UNCHANGED <<rule, hushed, owed, raced>>

\* A reading: a crossing is reported, and then the owner is up to date with it.
Judge(c) ==
    LET seen == input[c].sees IN
    /\ Judged(c) /\ ~input[c].quiet /\ Conclusive(rule, seen)
    /\ known' = seen /\ hushed' = FALSE
    /\ owed' = [owed EXCEPT ![c] = IF Crosses(rule, known, seen) THEN seen ELSE None]
    /\ UNCHANGED <<rule, raced>>

\* A crossing seen too few times yet.
Defer(c) ==
    /\ Judged(c) /\ ~input[c].quiet /\ Crosses(rule, known, input[c].sees)
    /\ rule.confirm > 1 /\ ~hushed
    /\ UNCHANGED <<rule, known, hushed, owed, raced>>

\* A crossing too soon after the last one.
Suppress(c) ==
    /\ Judged(c) /\ ~input[c].quiet /\ Crosses(rule, known, input[c].sees)
    /\ rule.cooldown
    /\ known' = input[c].sees /\ hushed' = FALSE
    /\ UNCHANGED <<rule, owed, raced>>

\* The first check after a quiet.
Resumes(c) ==
    /\ Judged(c) /\ hushed /\ ~input[c].quiet
    /\ known' \in Reading \cup {None} /\ hushed' = FALSE
    /\ UNCHANGED <<rule, raced>>

\* Exception: it read no number, or its rule wants the crossing confirmed.  What
\* crossed in the quiet is forgotten, and nothing reported.
Forget(c) ==
    /\ Resumes(c) /\ input[c].sees # Failed
    /\ ~Conclusive(rule, input[c].sees) \/ rule.confirm > 1
    /\ UNCHANGED owed

\* Exception: it failed.  Whatever was last read is reported as a change if it is not
\* what the owner was up to date with, and a value that was never read as Blank;
\* unless the owner is told that the watch is broken.
MistakeForChange(c) ==
    /\ Resumes(c) /\ input[c].sees = Failed
    /\ LET to == IF known' = None THEN Blank ELSE known' IN
       \/ owed' = [owed EXCEPT ![c] = IF to = known THEN None ELSE to]
       \/ UNCHANGED owed

Report(c) ==
    /\ owed[c] # None
    /\ owed' = [owed EXCEPT ![c] = None]
    /\ UNCHANGED <<rule, known, hushed, input, raced>>

\* A crash, or an error, ends checks half way.
Lose(C) ==
    /\ input' = [c \in Check |-> IF c \in C THEN None ELSE input[c]]
    /\ owed' = [c \in Check |-> IF c \in C THEN None ELSE owed[c]]
    /\ UNCHANGED <<rule, known, hushed, raced>>

\* A new rule starts from a clean slate.
Replace ==
    /\ known' = None /\ hushed' = FALSE
    /\ UNCHANGED <<input, owed, raced>>

Next ==
    \/ \E c \in Check : \/ \E i \in Observation : Take(c, i)
                        \/ Pass(c) \/ TakeUp(c) \/ Judge(c) \/ Defer(c) \/ Suppress(c)
                        \/ Forget(c) \/ MistakeForChange(c) \/ Report(c)
    \/ \E C \in SUBSET Check : Lose(C)
    \/ Replace
    \/ raced'

Spec == Init /\ [][Next]_contractVars
=============================================================================
