-------------------------------- MODULE Watch --------------------------------
(***************************************************************************)
(* A watch: a schedule with a rule over one field its skill extracts       *)
(* (lib/watches.ts, lib/schedules.ts).  Every settled run of the schedule  *)
(* is a check (evaluateWatchForRun of lib/watch-runner.ts): it reads the   *)
(* row, decides, writes the state back and only then acts and alerts.      *)
(* The scheduler's stall notice (lib/scheduler.ts) reads and writes the    *)
(* same state, and the owner mutes the watch or replaces its rule at any   *)
(* moment.                                                                 *)
(*                                                                         *)
(* A reading is a normalised value, Blank the empty string; a value that   *)
(* was never read is None.  Satisfying are those that meet the operand of  *)
(* a level rule (equals, contains, not_contains, above, below), Unreadable *)
(* those in which it finds no number; disappears mirrors appears.          *)
(***************************************************************************)
EXTENDS Naturals, FiniteSets

CONSTANTS
    Check,       \* the checks that may be under way at once
    Reading, Blank, Satisfying, Unreadable,
    Rule,        \* the rules an owner may set
    Action,      \* the actions an owner may set
    BrokenAfter, \* 3 in the code
    None, Undef, Failed,
    MaxFailures  \* bound of the model on crashes and errors

ASSUME ReadingsAssumption ==
    /\ Blank \in Reading
    /\ Satisfying \subseteq Reading /\ Unreadable \subseteq Reading \ Satisfying
    /\ None \notin Reading /\ Undef \notin Reading \cup {None}
    /\ Failed \notin Reading
    /\ None \notin [sees : Reading \cup {Failed}, quiet : BOOLEAN]
ASSUME SettingsAssumption ==
    /\ Rule \subseteq [op : {"changed", "appears", "level"}, confirm : Nat \ {0},
                       cooldown : BOOLEAN]
    /\ Action \subseteq {"alert", "run", "runAlert"}
    /\ BrokenAfter \in Nat \ {0} /\ MaxFailures \in Nat

VARIABLES
    watch,    \* the row: rule, action, muted, state
    check,    \* the checks under way
    notice,   \* tellOwner of the scheduler
    based,    \* history: a check since the rule was set read a value
    streak,   \* history: broken alerts since the last check that completed
    raced,    \* history: a write replaced a state its writer had not read
    failures

vars == <<watch, check, notice, based, streak, raced, failures>>

WatchState ==
    [lastValue : Reading \cup {None}, pendingValue : Reading \cup {None},
     pendingCount : Nat, alerted : BOOLEAN, \* lastAlertAt is within cooldownMs
     failStreak : Nat, mutedFrom : Reading \cup {None, Undef}]

EmptyState == [lastValue |-> None, pendingValue |-> None, pendingCount |-> 0,
               alerted |-> FALSE, failStreak |-> 0, mutedFrom |-> Undef]

Row == [rule : Rule, action : Action, muted : BOOLEAN, state : WatchState]

CheckPC == {"idle", "persist", "act", "tell", "broken"}
NoCheck == [pc |-> "idle", row |-> None, action |-> None, sees |-> None,
            based |-> FALSE, to |-> None]

TypeOK ==
    /\ watch \in Row
    /\ \A c \in Check :
          \/ check[c] = NoCheck
          \/ check[c] \in [pc : {"persist"}, row : Row, action : {None},
                           sees : Reading \cup {Failed}, based : BOOLEAN, to : {None}]
          \/ check[c] \in [pc : CheckPC \ {"idle", "persist"}, row : {None},
                           action : Action, sees : Reading \cup {Failed},
                           based : BOOLEAN, to : Reading]
    /\ notice \in WatchState \cup {None}
    /\ based \in BOOLEAN /\ streak \in Nat /\ raced \in BOOLEAN
    /\ failures \in Nat

Init ==
    /\ watch \in [rule : Rule, action : Action, muted : {FALSE}, state : {EmptyState}]
    /\ check = [c \in Check |-> NoCheck]
    /\ notice = None
    /\ based = FALSE /\ streak = 0 /\ raced = FALSE
    /\ failures = 0

-----------------------------------------------------------------------------
(* evaluate and evaluateFailure                                            *)

\* A level rule that finds no number: null.
Inconclusive(rule, next) == rule.op = "level" /\ next \in Unreadable

\* Mutated form: a level rule that compares no readings.
MatchesAlways(rule, prev, next) ==
    IF rule.op = "level" THEN next \in Satisfying ELSE prev \notin {None, next}

\* matches: "changed" and "appears" need a baseline, a level rule does not.
Matches(rule, prev, next) ==
    CASE rule.op = "changed" -> prev # None /\ prev # next
      [] rule.op = "appears" -> prev = Blank /\ next # Blank
      [] rule.op = "level" -> next \in Satisfying /\ ~(prev # None /\ prev \in Satisfying)

\* A streak past BrokenAfter is like any other.
Longer(n) == IF n > BrokenAfter THEN n ELSE n + 1

\* Mutated form: at the threshold and after it.
CrossesThresholdAgain(n) == n >= BrokenAfter

CrossesThreshold(n) == n = BrokenAfter

EvaluateFailure(state) ==
    LET n == Longer(state.failStreak) IN
    [notify |-> CrossesThreshold(n), broken |-> CrossesThreshold(n),
     state |-> [state EXCEPT !.failStreak = n]]

Held(state, next) == IF state.pendingValue = next THEN state.pendingCount + 1 ELSE 1

Evaluate(rule, state, next) ==
    LET base == [state EXCEPT !.failStreak = 0]
        moved == [base EXCEPT !.lastValue = next, !.pendingValue = None,
                              !.pendingCount = 0]
        Silent(s) == [notify |-> FALSE, broken |-> FALSE, state |-> s] IN
    CASE Inconclusive(rule, next) -> Silent(base)
      [] ~Inconclusive(rule, next) /\ ~Matches(rule, state.lastValue, next) ->
            Silent(moved)
      [] Matches(rule, state.lastValue, next) /\ Held(state, next) < rule.confirm ->
            Silent([base EXCEPT !.pendingValue = next,
                                !.pendingCount = Held(state, next)])
      [] OTHER ->
            IF rule.cooldown /\ state.alerted THEN Silent(moved)
            ELSE [notify |-> TRUE, broken |-> FALSE,
                  state |-> [EmptyState EXCEPT !.lastValue = next,
                                               !.alerted = rule.cooldown]]

Decide(row, sees) ==
    IF sees = Failed THEN EvaluateFailure(row.state)
    ELSE Evaluate(row.rule, row.state, sees)

-----------------------------------------------------------------------------
(* evaluateWatchForRun                                                     *)

\* A run of the schedule has settled; getWatch reads the row.
Begin(c, sees) ==
    /\ check[c].pc = "idle"
    /\ check' = [check EXCEPT ![c] = [NoCheck EXCEPT !.pc = "persist", !.row = watch,
                                                     !.sees = sees, !.based = based]]
    /\ UNCHANGED <<watch, notice, based, streak, raced, failures>>

\* The value from before the quiet; a quiet that began with none takes the last one.
KeptAside(state) ==
    IF state.mutedFrom \in {None, Undef} THEN state.lastValue ELSE state.mutedFrom

ToPersist(row, sees) ==
    [Decide(row, sees).state EXCEPT
        !.mutedFrom = IF row.muted THEN KeptAside(row.state) ELSE Undef]

Lifted(row) == ~row.muted /\ row.state.mutedFrom # Undef

\* lastValue ?? ""
Told(value) == IF value = None THEN Blank ELSE value

\* Mutated form: whenever the two values differ.
AcrossAnyway(row, sees) == row.state.mutedFrom # Told(Decide(row, sees).state.lastValue)

\* The comparison across the quiet: by the rule if there is a reading, and by
\* raw difference if the check failed, which a value never read makes one.
Across(row, sees) ==
    LET from == row.state.mutedFrom IN
    IF sees = Failed THEN from # Told(Decide(row, sees).state.lastValue)
    ELSE Evaluate(row.rule, [row.state EXCEPT !.lastValue = from, !.pendingValue = None,
                                              !.pendingCount = 0], sees).notify

\* Mutated form: every baseline will do.
FromBaselineAny(value) == TRUE

\* Only an action waits for a baseline.
FromBaseline(value) == value # None

\* What remains to be done once the state is written.
Following(row, sees) ==
    LET decision == Decide(row, sees)
        Change(from) == IF FromBaseline(from) THEN "act" ELSE "tell" IN
    CASE Lifted(row) /\ ~decision.broken ->
            IF Across(row, sees) THEN Change(row.state.mutedFrom) ELSE "idle"
      [] ~(Lifted(row) /\ ~decision.broken) /\ decision.notify /\ ~row.muted ->
            IF decision.broken THEN "broken" ELSE Change(row.state.lastValue)
      [] OTHER -> "idle"

\* Mutated form: the observation stays.
LeaveHalfway(c) == check' = [check EXCEPT ![c].pc = "idle"]

Leave(c) == check' = [check EXCEPT ![c] = NoCheck]

\* A write of a state derived from a row that is no longer the one in force.
Races(rule, state) == raced' = (raced \/ rule # watch.rule \/ state # watch.state)

\* setWatchState: unconditional.
Persist(c) ==
    LET me == check[c]
        new == ToPersist(me.row, me.sees)
        next == Following(me.row, me.sees) IN
    /\ me.pc = "persist"
    /\ watch' = [watch EXCEPT !.state = new]
    /\ check' = [check EXCEPT ![c] =
                     IF next = "idle" THEN NoCheck
                     ELSE [me EXCEPT !.pc = next, !.row = None, !.action = me.row.action,
                                     !.to = Told(new.lastValue)]]
    /\ Races(me.row.rule, me.row.state)
    /\ based' = (based \/ (me.sees # Failed /\ ~Inconclusive(me.row.rule, me.sees)))
    /\ streak' = IF me.sees # Failed THEN 0
                 ELSE IF next = "broken" THEN streak + 1 ELSE streak
    /\ UNCHANGED <<notice, failures>>

\* fireWatchAction never throws: a run is started, or the action is refused.
Act(c) ==
    /\ check[c].pc = "act"
    /\ \/ check[c].action = "run" /\ Leave(c)
       \/ check' = [check EXCEPT ![c].pc = "tell"]
    /\ UNCHANGED <<watch, notice, based, streak, raced, failures>>

\* The sink is told of a change, or that the watch is broken.
Tell(c) ==
    /\ check[c].pc \in {"tell", "broken"}
    /\ Leave(c)
    /\ UNCHANGED <<watch, notice, based, streak, raced, failures>>

-----------------------------------------------------------------------------
(* The other writers of the row                                            *)

\* tellOwner, when its last notice is STALL_NOTICE_EVERY_MS ago: it reads the
\* state and tells the owner that the watch could not run.
BeginNotice ==
    /\ notice = None
    /\ notice' = watch.state
    /\ UNCHANGED <<watch, check, based, streak, raced, failures>>

\* The whole state goes back as it was read, with the time of the notice.
EndNotice ==
    /\ notice # None
    /\ watch' = [watch EXCEPT !.state = notice]
    /\ notice' = None
    /\ Races(watch.rule, notice)
    /\ UNCHANGED <<check, based, streak, failures>>

\* muteUntil, or a mute that runs out.
Mute(on) ==
    /\ watch.muted # on
    /\ watch' = [watch EXCEPT !.muted = on]
    /\ UNCHANGED <<check, notice, based, streak, raced, failures>>

\* setWatch: a new rule, and a clean slate.
SetWatch(r) ==
    /\ watch' = [watch EXCEPT !.rule = r, !.state = EmptyState]
    /\ based' = FALSE /\ streak' = 0
    /\ UNCHANGED <<check, notice, raced, failures>>

SetWatchAction(a) ==
    /\ watch.action # a
    /\ watch' = [watch EXCEPT !.action = a]
    /\ UNCHANGED <<check, notice, based, streak, raced, failures>>

\* cooldownMs goes by, for every copy of the state.
Cooled(state) == [state EXCEPT !.alerted = FALSE]

Cool ==
    /\ watch.state.alerted
    /\ watch' = [watch EXCEPT !.state = Cooled(watch.state)]
    /\ check' = [c \in Check |->
                     IF check[c].pc # "persist" THEN check[c]
                     ELSE [check[c] EXCEPT !.row.state = Cooled(check[c].row.state)]]
    /\ notice' = IF notice = None THEN None ELSE Cooled(notice)
    /\ UNCHANGED <<based, streak, raced, failures>>

Fail == failures < MaxFailures /\ failures' = failures + 1

\* An error ends a check: it is caught, and only logged.
FailCheck(c) ==
    /\ check[c].pc \in {"persist", "tell", "broken"} /\ Fail
    /\ Leave(c)
    /\ UNCHANGED <<watch, notice, based, streak, raced>>

FailNotice ==
    /\ notice # None /\ Fail
    /\ notice' = None
    /\ UNCHANGED <<watch, check, based, streak, raced>>

\* The process dies.
Crash ==
    /\ Fail
    /\ check' = [c \in Check |-> NoCheck]
    /\ notice' = None
    /\ UNCHANGED <<watch, based, streak, raced>>

Next ==
    \/ \E c \in Check :
          \/ \E sees \in Reading \cup {Failed} : Begin(c, sees)
          \/ Persist(c) \/ Act(c) \/ Tell(c) \/ FailCheck(c)
    \/ BeginNotice \/ EndNotice \/ FailNotice
    \/ \E on \in BOOLEAN : Mute(on)
    \/ \E r \in Rule : SetWatch(r)
    \/ \E a \in Action : SetWatchAction(a)
    \/ Cool \/ Crash

Spec == Init /\ [][Next]_vars

-----------------------------------------------------------------------------
(* Properties.                                                             *)

Input(c) == IF check[c].pc = "persist"
            THEN [sees |-> check[c].sees, quiet |-> check[c].row.muted] ELSE None
Owed(c) == IF check[c].pc \in {"act", "tell"} THEN check[c].to ELSE None

\* The reading the owner is up to date with.
UpToDate(state) == IF state.mutedFrom = Undef THEN state.lastValue ELSE state.mutedFrom

Contract == INSTANCE WatchContract WITH
    rule <- watch.rule,
    known <- UpToDate(watch.state),
    hushed <- watch.state.mutedFrom # Undef,
    input <- [c \in Check |-> Input(c)],
    owed <- [c \in Check |-> Owed(c)]

\* Until a write lands on a state its writer never read, the watch reports the
\* crossings of its rule and nothing else, through mutes, failures, crashes and
\* stall notices.  Excepted is the first check after a mute: one that fails reports
\* whatever is not the value from before, and even a value nobody read ("A failure
\* must NEVER look like a change" does not hold of it); one that reads no number, or
\* whose rule confirms, forgets what crossed.
ImplementsContract == Contract!Spec

\* "The ACTION separately waits for a baseline": an action follows a reading
\* made under the same rule before the one that fired it.
ActNeedsBaseline ==
    \A c \in Check : check[c].pc = "act" /\ ~raced => check[c].based

\* The owner hears at most once in a streak of failed checks that it is broken.
BrokenToldOnce == ~raced => streak <= 1
=============================================================================
