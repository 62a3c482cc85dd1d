----------------------------- MODULE WatchProofs -----------------------------
(***************************************************************************)
(* Theorems about Watch for every set of checks, readings, rules and       *)
(* actions, with any number of failures, writes that race included.        *)
(***************************************************************************)
EXTENDS Watch, TLAPS

-----------------------------------------------------------------------------
(* What a decision is.                                                     *)

USE ReadingsAssumption, SettingsAssumption

LEMMA RuleTypes ==
  ASSUME NEW rule \in Rule
  PROVE  /\ rule.op \in {"changed", "appears", "level"}
         /\ rule.confirm \in Nat \ {0} /\ rule.cooldown \in BOOLEAN
OBVIOUS

LEMMA EmptyTypes ==
  /\ EmptyState \in WatchState /\ EmptyState.lastValue = None
  /\ EmptyState.mutedFrom = Undef /\ EmptyState.failStreak = 0
BY DEF EmptyState, WatchState

\* The arms of Evaluate exclude each other.
LEMMA Arms ==
  ASSUME NEW rule \in Rule, NEW prev, NEW next \in Reading, Matches(rule, prev, next)
  PROVE  ~Inconclusive(rule, next)
BY DEF Matches, Inconclusive

LEMMA HeldCounts ==
  ASSUME NEW s \in WatchState, NEW next \in Reading
  PROVE  Held(s, next) \in Nat \ {0} /\ (s.pendingValue = None => Held(s, next) = 1)
BY DEF Held, WatchState

\* What Evaluate decides: nothing, a new baseline, one more sighting, an alert too
\* soon after another, or an alert.
EvaluateFacts(rule, s, next) ==
    /\ Evaluate(rule, s, next).notify \in BOOLEAN
    /\ Evaluate(rule, s, next).broken = FALSE
    /\ Evaluate(rule, s, next).state \in WatchState
    /\ Evaluate(rule, s, next).state.failStreak = 0
    /\ Inconclusive(rule, next) =>
          /\ ~Evaluate(rule, s, next).notify
          /\ Evaluate(rule, s, next).state.lastValue = s.lastValue
    /\ ~Inconclusive(rule, next) /\ ~Matches(rule, s.lastValue, next) =>
          /\ ~Evaluate(rule, s, next).notify
          /\ Evaluate(rule, s, next).state.lastValue = next
    /\ Matches(rule, s.lastValue, next) /\ Held(s, next) < rule.confirm =>
          /\ ~Evaluate(rule, s, next).notify
          /\ Evaluate(rule, s, next).state.lastValue = s.lastValue
    /\ Matches(rule, s.lastValue, next) /\ ~(Held(s, next) < rule.confirm) =>
          /\ Evaluate(rule, s, next).notify = ~(rule.cooldown /\ s.alerted)
          /\ Evaluate(rule, s, next).state.lastValue = next

LEMMA EvaluateSays ==
  ASSUME NEW rule \in Rule, NEW s \in WatchState, NEW next \in Reading
  PROVE  EvaluateFacts(rule, s, next)
<1> DEFINE d == Evaluate(rule, s, next)
           base == [s EXCEPT !.failStreak = 0]
           moved == [base EXCEPT !.lastValue = next, !.pendingValue = None,
                                 !.pendingCount = 0]
           held == [base EXCEPT !.pendingValue = next, !.pendingCount = Held(s, next)]
           told == [EmptyState EXCEPT !.lastValue = next, !.alerted = rule.cooldown]
           Silent(t) == [notify |-> FALSE, broken |-> FALSE, state |-> t]
           crosses == Matches(rule, s.lastValue, next)
           few == Held(s, next) < rule.confirm
<1>1. rule.cooldown \in BOOLEAN /\ s.alerted \in BOOLEAN
  BY RuleTypes DEF WatchState
<1>2. base \in WatchState /\ base.lastValue = s.lastValue /\ base.failStreak = 0
  BY DEF WatchState
<1>3. moved \in WatchState /\ moved.lastValue = next /\ moved.failStreak = 0
  BY <1>2 DEF WatchState
<1>4. held \in WatchState /\ held.lastValue = s.lastValue /\ held.failStreak = 0
  BY <1>2, HeldCounts DEF WatchState
<1>5. told \in WatchState /\ told.lastValue = next /\ told.failStreak = 0
  BY <1>1, EmptyTypes DEF WatchState
<1>6. ASSUME Inconclusive(rule, next)
      PROVE  /\ d.notify \in BOOLEAN /\ d.broken = FALSE
             /\ d.state \in WatchState /\ d.state.failStreak = 0
             /\ d.state.lastValue = s.lastValue /\ ~d.notify
  <2>1. ~crosses
    BY <1>6, Arms
  <2>2. d = Silent(base)
    BY <1>6, <2>1 DEF Evaluate
  <2> HIDE DEF base, crosses
  <2> QED
    BY <1>2, <2>2
<1>7. ASSUME ~Inconclusive(rule, next) /\ ~crosses
      PROVE  /\ d.notify \in BOOLEAN /\ d.broken = FALSE
             /\ d.state \in WatchState /\ d.state.failStreak = 0
             /\ d.state.lastValue = next /\ ~d.notify
  <2>1. d = Silent(moved)
    BY <1>7 DEF Evaluate
  <2> HIDE DEF moved
  <2> QED
    BY <1>3, <1>7, <2>1
<1>8. ASSUME ~Inconclusive(rule, next) /\ crosses /\ few
      PROVE  /\ d.notify \in BOOLEAN /\ d.broken = FALSE
             /\ d.state \in WatchState /\ d.state.failStreak = 0
             /\ d.state.lastValue = s.lastValue /\ ~d.notify
  <2>1. d = Silent(held)
    BY <1>8 DEF Evaluate
  <2> HIDE DEF held
  <2> QED
    BY <1>4, <1>8, <2>1
<1>9. ASSUME ~Inconclusive(rule, next) /\ crosses /\ ~few
      PROVE  /\ d.notify \in BOOLEAN /\ d.broken = FALSE
             /\ d.state \in WatchState /\ d.state.failStreak = 0
             /\ d.state.lastValue = next /\ d.notify = ~(rule.cooldown /\ s.alerted)
  <2> DEFINE alert == [notify |-> TRUE, broken |-> FALSE, state |-> told]
  <2>1. d = IF rule.cooldown /\ s.alerted THEN Silent(moved) ELSE alert
    BY <1>9 DEF Evaluate
  <2>2. CASE rule.cooldown /\ s.alerted
    <3>1. d = Silent(moved)
      BY <2>1, <2>2
    <3> HIDE DEF moved, d
    <3> QED
      BY <1>3, <2>2, <3>1
  <2>3. CASE ~(rule.cooldown /\ s.alerted)
    <3>1. d = alert
      BY <2>1, <2>3
    <3> HIDE DEF told, d
    <3> QED
      BY <1>5, <2>3, <3>1
  <2> QED
    BY <2>2, <2>3
<1>10. crosses => ~Inconclusive(rule, next)
  BY Arms
<1> HIDE DEF d, crosses, few
<1> QED
  BY <1>6, <1>7, <1>8, <1>9, <1>10 DEF EvaluateFacts, d, crosses, few

LEMMA FailureSays ==
  ASSUME NEW s \in WatchState
  PROVE  LET d == EvaluateFailure(s) IN
         /\ d.notify \in BOOLEAN /\ d.broken = d.notify
         /\ d.state \in WatchState /\ d.state.lastValue = s.lastValue
         /\ d.state.failStreak = Longer(s.failStreak)
         /\ d.notify = (Longer(s.failStreak) = BrokenAfter)
<1> DEFINE n == Longer(s.failStreak)
           t == [s EXCEPT !.failStreak = n]
<1>1. n \in Nat
  BY DEF WatchState, Longer
<1> HIDE DEF n
<1>2. t \in WatchState /\ t.lastValue = s.lastValue /\ t.failStreak = n
  BY <1>1 DEF WatchState
<1>3. EvaluateFailure(s) = [notify |-> n = BrokenAfter, broken |-> n = BrokenAfter,
                            state |-> t]
  BY DEF EvaluateFailure, CrossesThreshold, n
<1> HIDE DEF t
<1> QED
  BY <1>2, <1>3 DEF n

LEMMA DecideSays ==
  ASSUME NEW row \in Row, NEW sees \in Reading \cup {Failed}
  PROVE  LET d == Decide(row, sees) IN
         /\ d.state \in WatchState
         /\ d.notify \in BOOLEAN /\ d.broken \in BOOLEAN
         /\ d.broken => sees = Failed /\ Longer(row.state.failStreak) = BrokenAfter
         /\ d.state.failStreak =
               IF sees = Failed THEN Longer(row.state.failStreak) ELSE 0
         /\ sees = Failed => d.notify = d.broken
         /\ \/ d.state.lastValue = row.state.lastValue
            \/ /\ d.state.lastValue = sees /\ sees # Failed
               /\ ~Inconclusive(row.rule, sees)
<1> row.rule \in Rule /\ row.state \in WatchState
  BY DEF Row
<1>1. CASE sees = Failed
  BY <1>1, FailureSays DEF Decide
<1>2. CASE sees # Failed
  <2>1. Decide(row, sees) = Evaluate(row.rule, row.state, sees) /\ sees \in Reading
    BY <1>2 DEF Decide
  <2> DEFINE d == Evaluate(row.rule, row.state, sees)
  <2>2. EvaluateFacts(row.rule, row.state, sees)
    BY <2>1, EvaluateSays
  <2>3. /\ d.notify \in BOOLEAN /\ d.broken = FALSE
        /\ d.state \in WatchState /\ d.state.failStreak = 0
        /\ \/ d.state.lastValue = row.state.lastValue
           \/ d.state.lastValue = sees /\ ~Inconclusive(row.rule, sees)
    BY <2>2 DEF EvaluateFacts
  <2> HIDE DEF d
  <2> QED
    BY <1>2, <2>1, <2>3 DEF d
<1> QED
  BY <1>1, <1>2

LEMMA KeptAsideType == ASSUME NEW s \in WatchState PROVE KeptAside(s) \in Reading \cup {None}
BY DEF KeptAside, WatchState

LEMMA ToldType ==
  ASSUME NEW v \in Reading \cup {None}
  PROVE  Told(v) \in Reading /\ (v \in Reading => Told(v) = v)
BY DEF Told

\* There is a baseline to act from: the last value, or the one from before the quiet.
HasBaseline(s) == s.lastValue # None \/ s.mutedFrom \notin {None, Undef}

\* What a check writes, and what it goes on to do.
LEMMA PersistSays ==
  ASSUME NEW row \in Row, NEW sees \in Reading \cup {Failed}
  PROVE  LET new == ToPersist(row, sees)
             next == Following(row, sees)
             d == Decide(row, sees) IN
         /\ new \in WatchState
         /\ new.lastValue = d.state.lastValue /\ new.failStreak = d.state.failStreak
         /\ new.mutedFrom = IF row.muted THEN KeptAside(row.state) ELSE Undef
         /\ next \in {"idle", "act", "tell", "broken"}
         /\ next = "broken" <=> d.broken /\ ~row.muted
         /\ row.muted => next = "idle"
         /\ next = "act" => HasBaseline(row.state)
<1> DEFINE d == Decide(row, sees)
           next == Following(row, sees)
           from == IF row.muted THEN KeptAside(row.state) ELSE Undef
           new == [d.state EXCEPT !.mutedFrom = from]
           Change(v) == IF FromBaseline(v) THEN "act" ELSE "tell"
<1>1. /\ row.rule \in Rule /\ row.state \in WatchState /\ row.muted \in BOOLEAN
      /\ d.state \in WatchState /\ d.broken \in BOOLEAN /\ d.notify \in BOOLEAN
      /\ d.broken => d.notify
  BY DecideSays DEF Row
<1>2. from \in Reading \cup {None, Undef}
  BY <1>1, KeptAsideType
<1>3. /\ ToPersist(row, sees) = new /\ new \in WatchState
      /\ new.lastValue = d.state.lastValue /\ new.failStreak = d.state.failStreak
      /\ new.mutedFrom = from
  BY <1>1, <1>2 DEF ToPersist, WatchState
<1>4. next = IF Lifted(row) /\ ~d.broken
             THEN IF Across(row, sees) THEN Change(row.state.mutedFrom) ELSE "idle"
             ELSE IF d.notify /\ ~row.muted
                  THEN IF d.broken THEN "broken" ELSE Change(row.state.lastValue)
                  ELSE "idle"
  BY DEF Following
<1>5. Lifted(row) => ~row.muted /\ row.state.mutedFrom # Undef
  BY DEF Lifted
<1>6. \A v : Change(v) = "act" => v # None
  BY DEF FromBaseline
<1>7. \A v : Change(v) \in {"act", "tell"}
  OBVIOUS
<1> HIDE DEF Change, d, next
<1>8. /\ next \in {"idle", "act", "tell", "broken"}
      /\ next = "broken" <=> d.broken /\ ~row.muted
      /\ row.muted => next = "idle"
  BY <1>1, <1>4, <1>5, <1>7
<1>9. next = "act" => HasBaseline(row.state)
  BY <1>4, <1>5, <1>6 DEF HasBaseline
<1> QED
  BY <1>3, <1>8, <1>9 DEF d, next

-----------------------------------------------------------------------------
(* Types.                                                                  *)

CheckState ==
    {NoCheck}
    \cup [pc : {"persist"}, row : Row, action : {None}, sees : Reading \cup {Failed},
          based : BOOLEAN, to : {None}]
    \cup [pc : CheckPC \ {"idle", "persist"}, row : {None}, action : Action,
          sees : Reading \cup {Failed}, based : BOOLEAN, to : Reading]

\* The type invariant, of a function.
TInv == TypeOK /\ check \in [Check -> CheckState]

LEMMA TypeInit == Init => TInv
<1> SUFFICES ASSUME Init PROVE TInv
  OBVIOUS
<1>1. watch \in Row
  BY EmptyTypes DEF Init, Row
<1>2. check \in [Check -> CheckState] /\ \A c \in Check : check[c] = NoCheck
  BY DEF Init, CheckState
<1> QED
  BY <1>1, <1>2 DEF Init, TInv, TypeOK

LEMMA TypesNext ==
  ASSUME watch' \in Row, check' \in [Check -> CheckState],
         notice' \in WatchState \cup {None}, based' \in BOOLEAN, streak' \in Nat,
         raced' \in BOOLEAN, failures' \in Nat
  PROVE  TInv'
BY DEF TInv, TypeOK, CheckState

\* Check c, alone, becomes s.
CheckSet(c, s) == /\ check' \in [Check -> CheckState]
                  /\ check'[c] = s /\ \A d \in Check \ {c} : check'[d] = check[d]

LEMMA CheckMoves ==
  ASSUME TInv, NEW c \in Check, NEW s \in CheckState, check' = [check EXCEPT ![c] = s]
  PROVE  CheckSet(c, s)
BY DEF TInv, CheckSet

LEMMA LeaveMoves == ASSUME TInv, NEW c \in Check, Leave(c) PROVE CheckSet(c, NoCheck)
BY CheckMoves DEF Leave, CheckState

\* What a check holds at its steps.
LEMMA CheckHolds ==
  ASSUME TInv, NEW c \in Check
  PROVE  /\ check[c].pc \in CheckPC
         /\ check[c].pc = "idle" <=> check[c] = NoCheck
         /\ check[c].pc = "persist" => /\ check[c].row \in Row
                                      /\ check[c].sees \in Reading \cup {Failed}
                                      /\ check[c].based \in BOOLEAN
         /\ check[c].pc \in {"act", "tell", "broken"} =>
               /\ check[c].action \in Action /\ check[c].row = None
               /\ check[c].sees \in Reading \cup {Failed}
               /\ check[c].based \in BOOLEAN /\ check[c].to \in Reading
<1>1. check[c] \in CheckState
  BY DEF TInv
<1>2. CASE check[c] = NoCheck
  BY <1>2 DEF NoCheck, CheckPC
<1>3. CASE check[c] \in [pc : {"persist"}, row : Row, action : {None},
                        sees : Reading \cup {Failed}, based : BOOLEAN, to : {None}]
  <2>1. check[c].pc = "persist"
    BY <1>3
  <2> QED
    BY <1>3, <2>1 DEF NoCheck, CheckPC
<1>4. CASE check[c] \in [pc : CheckPC \ {"idle", "persist"}, row : {None},
                        action : Action, sees : Reading \cup {Failed},
                        based : BOOLEAN, to : Reading]
  <2>1. check[c].pc \in CheckPC \ {"idle", "persist"}
    BY <1>4
  <2> QED
    BY <1>4, <2>1 DEF NoCheck, CheckPC
<1> QED
  BY <1>1, <1>2, <1>3, <1>4 DEF CheckState

LEMMA BeginEffect ==
  ASSUME TInv, NEW c \in Check, NEW sees \in Reading \cup {Failed}, Begin(c, sees)
  PROVE  /\ CheckSet(c, check'[c])
         /\ check'[c].pc = "persist" /\ check'[c].row = watch
         /\ check'[c].sees = sees /\ check'[c].based = based
<1> DEFINE s == [NoCheck EXCEPT !.pc = "persist", !.row = watch, !.sees = sees,
                                !.based = based]
<1>1. check' = [check EXCEPT ![c] = s]
  BY DEF Begin
<1>2. /\ s \in CheckState /\ s.pc = "persist" /\ s.row = watch /\ s.sees = sees
      /\ s.based = based
  BY DEF NoCheck, CheckState, TInv, TypeOK
<1> HIDE DEF s
<1> QED
  BY <1>1, <1>2, CheckMoves DEF CheckSet

LEMMA PersistEffect ==
  ASSUME TInv, NEW c \in Check, Persist(c)
  PROVE  LET me == check[c]
             new == ToPersist(me.row, me.sees)
             next == Following(me.row, me.sees) IN
         /\ me.pc = "persist" /\ me.row \in Row /\ me.sees \in Reading \cup {Failed}
         /\ watch' = [watch EXCEPT !.state = new]
         /\ watch' \in Row /\ watch'.state = new /\ watch'.rule = watch.rule
         /\ watch'.muted = watch.muted
         /\ CheckSet(c, check'[c])
         /\ next = "idle" => check'[c] = NoCheck
         /\ next # "idle" => /\ check'[c].pc = next /\ check'[c].based = me.based
                            /\ check'[c].to = Told(new.lastValue)
<1> DEFINE me == check[c]
           new == ToPersist(me.row, me.sees)
           next == Following(me.row, me.sees)
           s == [me EXCEPT !.pc = next, !.row = None, !.action = me.row.action,
                           !.to = Told(new.lastValue)]
<1>1. /\ me.pc = "persist" /\ me.row \in Row /\ me.sees \in Reading \cup {Failed}
      /\ me \in CheckState
  BY CheckHolds DEF Persist, TInv
<1>2. me \in [pc : {"persist"}, row : Row, action : {None},
              sees : Reading \cup {Failed}, based : BOOLEAN, to : {None}]
  BY <1>1 DEF CheckState, NoCheck
<1>3. new \in WatchState /\ next \in {"idle", "act", "tell", "broken"}
  BY <1>1, PersistSays
<1>4. /\ watch' = [watch EXCEPT !.state = new]
      /\ check' = [check EXCEPT ![c] = IF next = "idle" THEN NoCheck ELSE s]
  BY DEF Persist
<1> HIDE DEF new, next
<1>5. /\ watch' \in Row /\ watch'.state = new /\ watch'.rule = watch.rule
      /\ watch'.muted = watch.muted
  BY <1>3, <1>4 DEF TInv, TypeOK, Row
<1>6. ASSUME next # "idle"
      PROVE  /\ s \in CheckState /\ s.pc = next /\ s.based = me.based
             /\ s.to = Told(new.lastValue)
  <2>1. me.row.action \in Action /\ Told(new.lastValue) \in Reading
    BY <1>1, <1>3, ToldType DEF Row, WatchState
  <2>2. next \in CheckPC \ {"idle", "persist"}
    BY <1>3, <1>6 DEF CheckPC
  <2> QED
    BY <1>2, <2>1, <2>2 DEF CheckState
<1> HIDE DEF s
<1>7. CheckSet(c, IF next = "idle" THEN NoCheck ELSE s)
  BY <1>4, <1>6, CheckMoves DEF CheckState
<1> QED
  BY <1>1, <1>4, <1>5, <1>6, <1>7 DEF CheckSet, new, next
\* The row's state becomes s.
LEMMA StateMoves ==
  ASSUME TInv, NEW s \in WatchState, watch' = [watch EXCEPT !.state = s]
  PROVE  /\ watch' \in Row /\ watch'.state = s /\ watch'.rule = watch.rule
         /\ watch'.muted = watch.muted
BY DEF TInv, TypeOK, Row

\* What a race leaves behind, and what it does not.
LEMMA RacesSay ==
  ASSUME TInv, NEW rule, NEW state, Races(rule, state)
  PROVE  /\ raced' \in BOOLEAN
         /\ ~raced' => ~raced /\ rule = watch.rule /\ state = watch.state
BY DEF Races, TInv, TypeOK

LEMMA CooledType ==
  ASSUME NEW s \in WatchState
  PROVE  /\ Cooled(s) \in WatchState
         /\ Cooled(s).lastValue = s.lastValue /\ Cooled(s).mutedFrom = s.mutedFrom
         /\ Cooled(s).failStreak = s.failStreak
BY DEF Cooled, WatchState

\* The cooldown's end touches the states the checks hold and nothing else of them.
CooledRow(row) == [row EXCEPT !.state = Cooled(row.state)]
CooledCheck(s) == [s EXCEPT !.row.state = Cooled(s.row.state)]

LEMMA CooledRowType ==
  ASSUME NEW row \in Row
  PROVE  /\ CooledRow(row) \in Row /\ CooledRow(row).state = Cooled(row.state)
         /\ CooledRow(row).muted = row.muted /\ CooledRow(row).rule = row.rule
         /\ CooledRow(row).action = row.action
BY CooledType DEF CooledRow, Row

LEMMA CooledCheckType ==
  ASSUME NEW s \in CheckState, s.pc = "persist"
  PROVE  /\ CooledCheck(s) \in CheckState /\ CooledCheck(s).pc = "persist"
         /\ CooledCheck(s).row = CooledRow(s.row)
         /\ CooledCheck(s).sees = s.sees /\ CooledCheck(s).based = s.based
<1>1. s \in [pc : {"persist"}, row : Row, action : {None},
             sees : Reading \cup {Failed}, based : BOOLEAN, to : {None}]
  BY DEF CheckState, NoCheck
<1>2. CooledCheck(s) = [s EXCEPT !.row = CooledRow(s.row)]
  BY <1>1 DEF CooledCheck, CooledRow
<1> QED
  BY <1>1, <1>2, CooledRowType DEF CheckState

LEMMA CoolEffect ==
  ASSUME TInv, Cool
  PROVE  /\ watch' \in Row /\ watch'.state = Cooled(watch.state)
         /\ watch'.rule = watch.rule /\ watch'.muted = watch.muted
         /\ check' \in [Check -> CheckState]
         /\ \A c \in Check : check[c].pc = "persist" => check'[c] = CooledCheck(check[c])
         /\ \A c \in Check : check[c].pc # "persist" => check'[c] = check[c]
<1>1. /\ watch' \in Row /\ watch'.state = Cooled(watch.state)
      /\ watch'.rule = watch.rule /\ watch'.muted = watch.muted
  <2>1. Cooled(watch.state) \in WatchState
    BY CooledType DEF TInv, TypeOK, Row
  <2> QED
    BY <2>1, StateMoves DEF Cool
<1>2. \A c \in Check : check[c] \in CheckState
  BY DEF TInv
<1>3. check' = [c \in Check |-> IF check[c].pc # "persist" THEN check[c]
                               ELSE CooledCheck(check[c])]
  BY DEF Cool, CooledCheck
<1>4. check' \in [Check -> CheckState]
  BY <1>2, <1>3, CooledCheckType
<1> QED
  BY <1>1, <1>3, <1>4

LEMMA TypeStep == TInv /\ [Next]_vars => TInv'
<1> SUFFICES ASSUME TInv, [Next]_vars PROVE TInv'
  OBVIOUS
<1>1. /\ watch \in Row /\ watch.state \in WatchState
      /\ check \in [Check -> CheckState]
      /\ notice \in WatchState \cup {None} /\ based \in BOOLEAN /\ streak \in Nat
      /\ raced \in BOOLEAN /\ failures \in Nat
  BY DEF TInv, TypeOK, Row
<1>2. \A c \in Check : CheckSet(c, check'[c]) => check' \in [Check -> CheckState]
  BY DEF CheckSet
<1>3. ASSUME NEW c \in Check, Leave(c) PROVE check' \in [Check -> CheckState]
  BY <1>3, LeaveMoves DEF CheckSet
<1>4. ASSUME NEW c \in Check, NEW sees \in Reading \cup {Failed}, Begin(c, sees)
      PROVE  TInv'
  BY <1>1, <1>2, <1>4, BeginEffect, TypesNext DEF Begin
<1>5. ASSUME NEW c \in Check, Persist(c) PROVE TInv'
  <2>1. watch' \in Row /\ check' \in [Check -> CheckState]
    BY <1>2, <1>5, PersistEffect
  <2>2. based' \in BOOLEAN
    BY <1>1, <1>5 DEF Persist
  <2>3. streak' \in Nat
    <3>1. streak' \in {0, streak, streak + 1}
      BY <1>5 DEF Persist
    <3> QED
      BY <1>1, <3>1
  <2>4. raced' \in BOOLEAN /\ UNCHANGED <<notice, failures>>
    BY <1>5, RacesSay DEF Persist
  <2> QED
    BY <1>1, <2>1, <2>2, <2>3, <2>4, TypesNext
<1>6. ASSUME NEW c \in Check, Act(c) PROVE TInv'
  <2>1. CASE Leave(c)
    BY <1>1, <1>3, <1>6, <2>1, TypesNext DEF Act
  <2>2. CASE check' = [check EXCEPT ![c].pc = "tell"]
    <3> DEFINE s == [check[c] EXCEPT !.pc = "tell"]
    <3>1. check[c].pc = "act" /\ check[c] \in CheckState
      BY <1>1, <1>6 DEF Act
    <3>2. check[c] \in [pc : CheckPC \ {"idle", "persist"}, row : {None},
                        action : Action, sees : Reading \cup {Failed},
                        based : BOOLEAN, to : Reading]
      BY <3>1 DEF CheckState, NoCheck
    <3>3. s \in CheckState
      BY <3>2 DEF CheckState, CheckPC
    <3>4. check' = [check EXCEPT ![c] = s]
      BY <2>2
    <3> HIDE DEF s
    <3>5. check' \in [Check -> CheckState]
      BY <1>1, <3>3, <3>4
    <3> QED
      BY <1>1, <1>6, <3>5, TypesNext DEF Act
  <2> QED
    BY <1>6, <2>1, <2>2 DEF Act
<1>7. ASSUME NEW c \in Check, Tell(c) PROVE TInv'
  BY <1>1, <1>3, <1>7, TypesNext DEF Tell
<1>8. ASSUME NEW c \in Check, FailCheck(c) PROVE TInv'
  BY <1>1, <1>3, <1>8, TypesNext DEF FailCheck, Fail
<1>9. CASE BeginNotice
  BY <1>1, <1>9, TypesNext DEF BeginNotice
<1>10. CASE EndNotice
  <2>1. notice \in WatchState
    BY <1>1, <1>10 DEF EndNotice
  <2>2. watch' \in Row
    BY <1>10, <2>1, StateMoves DEF EndNotice
  <2>3. raced' \in BOOLEAN
    BY <1>10, RacesSay DEF EndNotice
  <2> QED
    BY <1>1, <1>10, <2>2, <2>3, TypesNext DEF EndNotice
<1>11. CASE FailNotice
  BY <1>1, <1>11, TypesNext DEF FailNotice, Fail
<1>12. ASSUME NEW on \in BOOLEAN, Mute(on) PROVE TInv'
  <2>1. watch' \in Row
    BY <1>1, <1>12 DEF Mute, Row
  <2> QED
    BY <1>1, <1>12, <2>1, TypesNext DEF Mute
<1>13. ASSUME NEW r \in Rule, SetWatch(r) PROVE TInv'
  <2>1. watch' \in Row
    BY <1>1, <1>13, EmptyTypes DEF SetWatch, Row
  <2> QED
    BY <1>1, <1>13, <2>1, TypesNext DEF SetWatch
<1>14. ASSUME NEW a \in Action, SetWatchAction(a) PROVE TInv'
  <2>1. watch' \in Row
    BY <1>1, <1>14 DEF SetWatchAction, Row
  <2> QED
    BY <1>1, <1>14, <2>1, TypesNext DEF SetWatchAction
<1>15. CASE Cool
  <2>1. notice' \in WatchState \cup {None}
    BY <1>1, <1>15, CooledType DEF Cool
  <2> QED
    BY <1>1, <1>15, <2>1, CoolEffect, TypesNext DEF Cool
<1>16. CASE Crash
  <2>1. check' \in [Check -> CheckState]
    BY <1>16 DEF Crash, CheckState
  <2> QED
    BY <1>1, <1>16, <2>1, TypesNext DEF Crash, Fail
<1>17. CASE UNCHANGED vars
  BY <1>1, <1>17, TypesNext DEF vars
<1> QED
  BY <1>4, <1>5, <1>6, <1>7, <1>8, <1>9, <1>10, <1>11, <1>12, <1>13, <1>14, <1>15,
     <1>16, <1>17 DEF Next

-----------------------------------------------------------------------------
(* The baseline, and the word that the watch is broken.                    *)

\* As long as no write has raced, whatever the row or a check compares with was
\* read under the rule in force, or under the one in force when the check began.
BaselineRead ==
    ~raced => /\ HasBaseline(watch.state) => based
              /\ \A c \in Check :
                    check[c].pc = "persist" /\ HasBaseline(check[c].row.state)
                    => check[c].based

\* Below the threshold the owner has heard nothing yet.
ToldAtThreshold ==
    ~raced => /\ streak <= 1
              /\ watch.state.failStreak < BrokenAfter => streak = 0

IInv == TInv /\ BaselineRead /\ ActNeedsBaseline /\ ToldAtThreshold

LEMMA IInvInit == Init => IInv
<1> SUFFICES ASSUME Init PROVE IInv
  OBVIOUS
<1>1. TInv
  BY TypeInit
<1>2. watch.state = EmptyState
  BY DEF Init
<1>3. ~HasBaseline(watch.state)
  BY <1>2, EmptyTypes DEF HasBaseline
<1>4. \A c \in Check : check[c].pc = "idle"
  BY DEF Init, NoCheck
<1> QED
  BY <1>1, <1>3, <1>4 DEF IInv, BaselineRead, ActNeedsBaseline, ToldAtThreshold, Init

\* Checks and row stay in step when both change in nothing that matters here.
LEMMA BaselineStays ==
  ASSUME IInv, ~raced' => ~raced, (~raced' => (HasBaseline(watch'.state) => based')),
         \A c \in Check : \/ check'[c].pc \in {"idle", "tell", "broken"}
                          \/ check'[c] = check[c]
  PROVE  (BaselineRead /\ ActNeedsBaseline)'
BY DEF IInv, BaselineRead, ActNeedsBaseline

LEMMA LeftAlone ==
  ASSUME TInv, NEW c \in Check, Leave(c)
  PROVE  \A d \in Check : check'[d].pc = "idle" \/ check'[d] = check[d]
BY LeaveMoves DEF CheckSet, NoCheck

LEMMA PersistBaseline ==
  ASSUME IInv, NEW c \in Check, Persist(c)
  PROVE  (BaselineRead /\ ActNeedsBaseline)'
<1> SUFFICES ASSUME ~raced'
             PROVE  /\ HasBaseline(watch'.state) => based'
                    /\ \A d \in Check :
                          check'[d].pc = "persist" /\ HasBaseline(check'[d].row.state)
                          => check'[d].based
                    /\ \A d \in Check : check'[d].pc = "act" => check'[d].based
  BY DEF BaselineRead, ActNeedsBaseline
<1> DEFINE me == check[c]
           new == ToPersist(me.row, me.sees)
           next == Following(me.row, me.sees)
           d0 == Decide(me.row, me.sees)
<1>1. /\ me.pc = "persist" /\ me.row \in Row /\ me.sees \in Reading \cup {Failed}
      /\ watch'.state = new /\ CheckSet(c, check'[c])
      /\ next = "idle" => check'[c] = NoCheck
      /\ next # "idle" => check'[c].pc = next /\ check'[c].based = me.based
  BY PersistEffect DEF IInv
<1>2. ~raced /\ me.row.rule = watch.rule /\ me.row.state = watch.state
  BY RacesSay DEF IInv, Persist
<1>3. /\ new.lastValue = d0.state.lastValue
      /\ new.mutedFrom = IF me.row.muted THEN KeptAside(me.row.state) ELSE Undef
      /\ next = "act" => HasBaseline(me.row.state)
      /\ next \in {"idle", "act", "tell", "broken"}
  BY <1>1, PersistSays
<1>4. \/ d0.state.lastValue = me.row.state.lastValue
      \/ me.sees # Failed /\ ~Inconclusive(me.row.rule, me.sees)
  BY <1>1, DecideSays
<1>5. based' = (based \/ (me.sees # Failed /\ ~Inconclusive(me.row.rule, me.sees)))
  BY DEF Persist
<1> HIDE DEF new, next, d0
<1>6. ASSUME HasBaseline(watch'.state) PROVE based'
  <2>1. CASE me.sees # Failed /\ ~Inconclusive(me.row.rule, me.sees)
    BY <1>5, <2>1
  <2>2. CASE d0.state.lastValue = me.row.state.lastValue
    <3>1. HasBaseline(me.row.state)
      BY <1>1, <1>3, <1>6, <2>2 DEF HasBaseline, KeptAside
    <3> QED
      BY <1>2, <1>5, <3>1 DEF IInv, BaselineRead
  <2> QED
    BY <1>4, <2>1, <2>2
<1>7. next = "act" => me.based
  BY <1>1, <1>2, <1>3 DEF IInv, BaselineRead
<1>8. /\ check'[c].pc # "persist" /\ (check'[c].pc = "act" => check'[c].based)
  BY <1>1, <1>3, <1>7 DEF NoCheck
<1> QED
  BY <1>1, <1>2, <1>6, <1>8 DEF CheckSet, IInv, BaselineRead, ActNeedsBaseline

LEMMA CoolBaseline ==
  ASSUME IInv, Cool
  PROVE  (BaselineRead /\ ActNeedsBaseline)'
<1>1. /\ watch'.state = Cooled(watch.state)
      /\ \A c \in Check : check[c].pc = "persist" => check'[c] = CooledCheck(check[c])
      /\ \A c \in Check : check[c].pc # "persist" => check'[c] = check[c]
  BY CoolEffect DEF IInv
<1>2. UNCHANGED <<based, raced>>
  BY DEF Cool
<1>3. HasBaseline(watch'.state) => HasBaseline(watch.state)
  BY <1>1, CooledType DEF HasBaseline, IInv, TInv, TypeOK, Row
<1>4. ASSUME NEW c \in Check, check[c].pc = "persist"
      PROVE  /\ check'[c].pc = "persist" /\ check'[c].based = check[c].based
             /\ HasBaseline(check'[c].row.state) => HasBaseline(check[c].row.state)
  <2>1. check[c] \in CheckState /\ check[c].row \in Row /\ check[c].row.state \in WatchState
    BY <1>4, CheckHolds DEF IInv, TInv, Row
  <2>2. /\ check'[c].pc = "persist" /\ check'[c].based = check[c].based
        /\ check'[c].row.state = Cooled(check[c].row.state)
    BY <1>1, <1>4, <2>1, CooledCheckType, CooledRowType
  <2> QED
    BY <2>1, <2>2, CooledType DEF HasBaseline
<1> QED
  BY <1>1, <1>2, <1>3, <1>4 DEF IInv, BaselineRead, ActNeedsBaseline

LEMMA BaselineStep == IInv /\ [Next]_vars => (BaselineRead /\ ActNeedsBaseline)'
<1> SUFFICES ASSUME IInv, [Next]_vars PROVE (BaselineRead /\ ActNeedsBaseline)'
  OBVIOUS
<1>1. TInv /\ raced \in BOOLEAN /\ (~raced => (HasBaseline(watch.state) => based))
  BY DEF IInv, TInv, TypeOK, BaselineRead
<1>2. ASSUME NEW c \in Check, NEW sees \in Reading \cup {Failed}, Begin(c, sees)
      PROVE  (BaselineRead /\ ActNeedsBaseline)'
  <2>1. /\ CheckSet(c, check'[c]) /\ check'[c].pc = "persist"
        /\ check'[c].row = watch /\ check'[c].based = based
    BY <1>1, <1>2, BeginEffect
  <2>2. UNCHANGED <<watch, based, raced>>
    BY <1>2 DEF Begin
  <2> QED
    BY <1>1, <2>1, <2>2 DEF CheckSet, IInv, BaselineRead, ActNeedsBaseline
<1>3. ASSUME NEW c \in Check, Act(c) PROVE (BaselineRead /\ ActNeedsBaseline)'
  <2>1. UNCHANGED <<watch, based, raced>>
    BY <1>3 DEF Act
  <2>2. CASE Leave(c)
    BY <1>1, <2>1, <2>2, LeftAlone, BaselineStays
  <2>3. CASE check' = [check EXCEPT ![c].pc = "tell"]
    <3>1. \A d \in Check : check'[d].pc = "tell" \/ check'[d] = check[d]
      <4>1. check \in [Check -> CheckState] /\ check[c].pc = "act"
        BY <1>1, <1>3 DEF TInv, Act
      <4>2. check[c] \in [pc : CheckPC \ {"idle", "persist"}, row : {None},
                          action : Action, sees : Reading \cup {Failed},
                          based : BOOLEAN, to : Reading]
        BY <4>1 DEF CheckState, NoCheck
      <4>3. check'[c].pc = "tell"
        BY <2>3, <4>1, <4>2
      <4> QED
        BY <2>3, <4>1, <4>3
    <3> QED
      BY <1>1, <2>1, <3>1, BaselineStays
  <2> QED
    BY <1>3, <2>2, <2>3 DEF Act
<1>4. ASSUME NEW c \in Check, Tell(c) PROVE (BaselineRead /\ ActNeedsBaseline)'
  BY <1>1, <1>4, LeftAlone, BaselineStays DEF Tell
<1>5. ASSUME NEW c \in Check, FailCheck(c) PROVE (BaselineRead /\ ActNeedsBaseline)'
  BY <1>1, <1>5, LeftAlone, BaselineStays DEF FailCheck
<1>6. CASE BeginNotice \/ FailNotice
  BY <1>1, <1>6, BaselineStays DEF BeginNotice, FailNotice
<1>7. CASE EndNotice
  <2>1. watch'.state = notice
    BY <1>1, <1>7 DEF EndNotice, TInv, TypeOK, Row
  <2>2. ~raced' => ~raced /\ notice = watch.state
    BY <1>1, <1>7, RacesSay DEF EndNotice
  <2> QED
    BY <1>1, <1>7, <2>1, <2>2, BaselineStays DEF EndNotice
<1>8. ASSUME NEW on \in BOOLEAN, Mute(on) PROVE (BaselineRead /\ ActNeedsBaseline)'
  <2>1. watch'.state = watch.state
    BY <1>1, <1>8 DEF Mute, TInv, TypeOK, Row
  <2> QED
    BY <1>1, <1>8, <2>1, BaselineStays DEF Mute
<1>9. ASSUME NEW r \in Rule, SetWatch(r) PROVE (BaselineRead /\ ActNeedsBaseline)'
  <2>1. watch'.state = EmptyState
    BY <1>1, <1>9 DEF SetWatch, TInv, TypeOK, Row
  <2>2. ~HasBaseline(watch'.state)
    BY <2>1, EmptyTypes DEF HasBaseline
  <2> QED
    BY <1>1, <1>9, <2>2, BaselineStays DEF SetWatch
<1>10. ASSUME NEW a \in Action, SetWatchAction(a)
       PROVE  (BaselineRead /\ ActNeedsBaseline)'
  <2>1. watch'.state = watch.state
    BY <1>1, <1>10 DEF SetWatchAction, TInv, TypeOK, Row
  <2> QED
    BY <1>1, <1>10, <2>1, BaselineStays DEF SetWatchAction
<1>11. CASE Crash
  <2>1. \A c \in Check : check'[c].pc = "idle"
    BY <1>11 DEF Crash, NoCheck
  <2> QED
    BY <1>1, <1>11, <2>1, BaselineStays DEF Crash
<1>12. CASE UNCHANGED vars
  BY <1>1, <1>12, BaselineStays DEF vars
<1> QED
  BY <1>2, <1>3, <1>4, <1>5, <1>6, <1>7, <1>8, <1>9, <1>10, <1>11, <1>12,
     PersistBaseline, CoolBaseline DEF Next

LEMMA ToldStep == IInv /\ [Next]_vars => ToldAtThreshold'
<1> SUFFICES ASSUME IInv, [Next]_vars, ~raced'
             PROVE  /\ streak' <= 1
                    /\ watch'.state.failStreak < BrokenAfter => streak' = 0
  BY DEF ToldAtThreshold
<1>1. /\ TInv /\ streak \in Nat /\ watch.state \in WatchState
      /\ watch.state.failStreak \in Nat
  BY DEF IInv, TInv, TypeOK, Row, WatchState
<1>2. ASSUME ~raced, streak' = streak,
             watch'.state.failStreak = watch.state.failStreak
      PROVE  /\ streak' <= 1
             /\ watch'.state.failStreak < BrokenAfter => streak' = 0
  BY <1>2 DEF IInv, ToldAtThreshold
<1>3. ASSUME NEW c \in Check, Persist(c)
      PROVE  /\ streak' <= 1
             /\ watch'.state.failStreak < BrokenAfter => streak' = 0
  <2> DEFINE me == check[c]
             next == Following(me.row, me.sees)
             n == Longer(watch.state.failStreak)
  <2>1. ~raced /\ me.row.state = watch.state
    BY <1>1, <1>3, RacesSay DEF Persist
  <2>2. /\ me.row \in Row /\ me.sees \in Reading \cup {Failed}
        /\ watch'.state = ToPersist(me.row, me.sees)
    BY <1>1, <1>3, PersistEffect
  <2>3. /\ watch'.state.failStreak = IF me.sees = Failed THEN n ELSE 0
        /\ next = "broken" => n = BrokenAfter
    BY <2>1, <2>2, PersistSays, DecideSays
  <2>4. streak' = IF me.sees # Failed THEN 0
                  ELSE IF next = "broken" THEN streak + 1 ELSE streak
    BY <1>3 DEF Persist
  <2>5. streak <= 1 /\ (watch.state.failStreak < BrokenAfter => streak = 0)
    BY <2>1 DEF IInv, ToldAtThreshold
  <2> HIDE DEF next
  <2> QED
    BY <1>1, <2>3, <2>4, <2>5 DEF Longer
<1>4. ASSUME NEW c \in Check, NEW sees \in Reading \cup {Failed},
             Begin(c, sees) \/ Act(c) \/ Tell(c) \/ FailCheck(c)
      PROVE  UNCHANGED <<watch, streak, raced>>
  BY <1>4 DEF Begin, Act, Tell, FailCheck
<1>5. CASE BeginNotice \/ FailNotice \/ Crash \/ UNCHANGED vars
  BY <1>2, <1>5 DEF BeginNotice, FailNotice, Crash, vars
<1>6. CASE EndNotice
  <2>1. watch'.state = notice
    BY <1>1, <1>6 DEF EndNotice, TInv, TypeOK, Row
  <2>2. ~raced /\ notice = watch.state
    BY <1>1, <1>6, RacesSay DEF EndNotice
  <2> QED
    BY <1>2, <1>6, <2>1, <2>2 DEF EndNotice
<1>7. ASSUME NEW on \in BOOLEAN, Mute(on)
      PROVE  /\ streak' <= 1
             /\ watch'.state.failStreak < BrokenAfter => streak' = 0
  <2>1. watch'.state = watch.state /\ UNCHANGED <<streak, raced>>
    BY <1>1, <1>7 DEF Mute, TInv, TypeOK, Row
  <2> QED
    BY <1>2, <2>1
<1>8. ASSUME NEW r \in Rule, SetWatch(r)
      PROVE  /\ streak' <= 1
             /\ watch'.state.failStreak < BrokenAfter => streak' = 0
  BY <1>8 DEF SetWatch
<1>9. CASE Cool
  <2>1. watch'.state = Cooled(watch.state) /\ UNCHANGED <<streak, raced>>
    BY <1>1, <1>9, CoolEffect DEF Cool
  <2> QED
    BY <1>1, <1>2, <2>1, CooledType
<1>10. ASSUME NEW c \in Check, NEW sees \in Reading \cup {Failed},
              Begin(c, sees) \/ Act(c) \/ Tell(c) \/ FailCheck(c)
       PROVE  /\ streak' <= 1
              /\ watch'.state.failStreak < BrokenAfter => streak' = 0
  BY <1>2, <1>4, <1>10
<1>11. ASSUME NEW a \in Action, SetWatchAction(a)
       PROVE  /\ streak' <= 1
              /\ watch'.state.failStreak < BrokenAfter => streak' = 0
  <2>1. watch'.state = watch.state /\ UNCHANGED <<streak, raced>>
    BY <1>1, <1>11 DEF SetWatchAction, TInv, TypeOK, Row
  <2> QED
    BY <1>2, <2>1
<1> QED
  BY <1>3, <1>5, <1>6, <1>7, <1>8, <1>9, <1>10, <1>11 DEF Next

LEMMA IInvStep == IInv /\ [Next]_vars => IInv'
<1> SUFFICES ASSUME IInv, [Next]_vars PROVE IInv'
  OBVIOUS
<1>1. TInv'
  BY TypeStep DEF IInv
<1> QED
  BY <1>1, BaselineStep, ToldStep DEF IInv

\* The inductive invariant that the two below rest on.
THEOREM Invariant == Spec => []IInv
BY IInvInit, IInvStep, PTL DEF Spec

\* Type correctness of the watch, its checks and the scheduler's notice.
THEOREM Typing == Spec => []TypeOK
<1>1. IInv => TypeOK
  BY DEF IInv, TInv
<1> QED
  BY <1>1, Invariant, PTL

\* A watch whose state nobody overwrote acts only after an earlier reading, made
\* under the same rule.
THEOREM ActsFromBaseline == Spec => []ActNeedsBaseline
<1>1. IInv => ActNeedsBaseline
  BY DEF IInv
<1> QED
  BY <1>1, Invariant, PTL

\* In one streak of failed checks the owner hears at most once that the watch is
\* broken, however long the streak and wherever mutes, errors and crashes fall.
THEOREM ToldOnce == Spec => []BrokenToldOnce
<1>1. IInv => BrokenToldOnce
  BY DEF IInv, ToldAtThreshold, BrokenToldOnce
<1> QED
  BY <1>1, Invariant, PTL

-----------------------------------------------------------------------------
(* Watch implements WatchContract.                                         *)

Concludes(row, sees) == sees # Failed /\ ~Inconclusive(row.rule, sees)

\* The crossing a check goes on to report, if it does.
Reported(row, sees) ==
    IF Following(row, sees) \in {"act", "tell"} THEN Told(ToPersist(row, sees).lastValue)
    ELSE None

LEMMA MatchesIsCrossing ==
  ASSUME NEW rule \in Rule, NEW prev \in Reading \cup {None}, NEW next \in Reading
  PROVE  Matches(rule, prev, next) <=> Contract!Crosses(rule, prev, next)
<1>1. rule.op \in {"changed", "appears", "level"}
  BY RuleTypes
<1> QED
  BY <1>1 DEF Matches, Contract!Crosses

LEMMA ConcludesIsConclusive ==
  ASSUME NEW row \in Row, NEW sees
  PROVE  Concludes(row, sees) <=> Contract!Conclusive(row.rule, sees)
BY DEF Concludes, Inconclusive, Contract!Conclusive

\* A quiet check reports nothing; one that read nothing leaves the value alone.
LEMMA QuietVerdict ==
  ASSUME NEW row \in Row, NEW sees \in Reading \cup {Failed}, row.muted
  PROVE  Reported(row, sees) = None
BY PersistSays DEF Reported

LEMMA BlindVerdict ==
  ASSUME NEW row \in Row, NEW sees \in Reading \cup {Failed}, ~row.muted,
         ~Concludes(row, sees), row.state.mutedFrom = Undef
  PROVE  /\ Reported(row, sees) = None
         /\ ToPersist(row, sees).lastValue = row.state.lastValue
<1> DEFINE d == Decide(row, sees)
<1>1. /\ row.rule \in Rule /\ row.state \in WatchState
      /\ d.notify \in BOOLEAN /\ d.broken \in BOOLEAN
      /\ ToPersist(row, sees).lastValue = d.state.lastValue
  BY DecideSays, PersistSays DEF Row
<1>2. d.state.lastValue = row.state.lastValue /\ (d.notify => d.broken)
  <2>1. CASE sees = Failed
    <3>1. d = EvaluateFailure(row.state)
      BY <2>1 DEF Decide
    <3> HIDE DEF d
    <3> QED
      BY <1>1, <3>1, FailureSays
  <2>2. CASE sees # Failed
    <3>1. /\ d = Evaluate(row.rule, row.state, sees) /\ sees \in Reading
          /\ Inconclusive(row.rule, sees)
      BY <2>2 DEF Decide, Concludes
    <3>2. EvaluateFacts(row.rule, row.state, sees)
      BY <1>1, <3>1, EvaluateSays
    <3> HIDE DEF d
    <3> QED
      BY <3>1, <3>2 DEF EvaluateFacts
  <2> QED
    BY <2>1, <2>2
<1>3. ~Lifted(row)
  BY DEF Lifted
<1>4. Following(row, sees) \in {"idle", "broken"}
  BY <1>1, <1>2, <1>3 DEF Following
<1> QED
  BY <1>1, <1>2, <1>4 DEF Reported

\* A reading while nobody is quiet, under a rule that neither confirms nor spaces
\* its alerts or after a check that was not quiet.
LEMMA PlainVerdict ==
  ASSUME NEW row \in Row, NEW sees \in Reading, ~row.muted, Concludes(row, sees),
         row.state.mutedFrom = Undef
  PROVE  LET prev == row.state.lastValue
             new == ToPersist(row, sees).lastValue IN
         \/ /\ new = sees
            /\ Reported(row, sees) = IF Matches(row.rule, prev, sees) THEN sees ELSE None
         \/ /\ Matches(row.rule, prev, sees) /\ row.rule.confirm > 1
            /\ new = prev /\ Reported(row, sees) = None
         \/ /\ Matches(row.rule, prev, sees) /\ row.rule.cooldown
            /\ new = sees /\ Reported(row, sees) = None
<1> DEFINE d == Decide(row, sees)
           prev == row.state.lastValue
           crosses == Matches(row.rule, prev, sees)
           few == Held(row.state, sees) < row.rule.confirm
           new == ToPersist(row, sees).lastValue
<1>1. /\ row.rule \in Rule /\ row.state \in WatchState /\ sees # Failed
      /\ ~Inconclusive(row.rule, sees)
  BY DEF Row, Concludes
<1>2. new = d.state.lastValue
  BY PersistSays
<1>3. d = Evaluate(row.rule, row.state, sees)
  BY <1>1 DEF Decide
<1>4. EvaluateFacts(row.rule, row.state, sees)
  BY <1>1, EvaluateSays
<1>5. Following(row, sees) = IF d.notify /\ ~row.muted
                             THEN IF d.broken THEN "broken"
                                  ELSE IF FromBaseline(prev) THEN "act" ELSE "tell"
                             ELSE "idle"
  BY DEF Following, Lifted
<1>6. Held(row.state, sees) \in Nat \ {0} /\ row.rule.confirm \in Nat
  BY <1>1, HeldCounts, RuleTypes
<1>7. d.notify \in BOOLEAN /\ d.broken = FALSE
  BY <1>3, <1>4 DEF EvaluateFacts
<1>8. Reported(row, sees) = IF d.notify THEN Told(new) ELSE None
  BY <1>5, <1>7 DEF Reported
<1>0. Told(sees) = sees
  BY ToldType
<1>9. /\ ~crosses => ~d.notify /\ d.state.lastValue = sees
      /\ crosses /\ few => ~d.notify /\ d.state.lastValue = prev
      /\ crosses /\ ~few =>
            /\ d.notify = ~(row.rule.cooldown /\ row.state.alerted)
            /\ d.state.lastValue = sees
  BY <1>1, <1>3, <1>4 DEF EvaluateFacts
<1> HIDE DEF d, new, crosses
<1>10. CASE ~crosses
  BY <1>2, <1>8, <1>9, <1>10 DEF crosses, new
<1>11. CASE crosses /\ few
  <2>1. row.rule.confirm > 1
    BY <1>6, <1>11
  <2> QED
    BY <1>2, <1>8, <1>9, <1>11, <2>1 DEF crosses, new
<1>12. CASE crosses /\ ~few
  BY <1>0, <1>2, <1>7, <1>8, <1>9, <1>12 DEF crosses, new
<1> QED
  BY <1>10, <1>11, <1>12

\* The first check after a quiet: it judges what it reads against the value from before,
\* unless that is no number or the rule confirms.
LEMMA LiftedVerdict ==
  ASSUME NEW row \in Row, NEW sees \in Reading, ~row.muted, row.state.mutedFrom # Undef
  PROVE  LET from == row.state.mutedFrom
             new == ToPersist(row, sees).lastValue IN
         \/ /\ ~Concludes(row, sees) \/ row.rule.confirm > 1
            /\ Reported(row, sees) = None
         \/ /\ Concludes(row, sees) /\ new = sees
            /\ Reported(row, sees) = IF Matches(row.rule, from, sees) THEN sees ELSE None
         \/ /\ Concludes(row, sees) /\ new = sees /\ Matches(row.rule, from, sees)
            /\ row.rule.cooldown /\ Reported(row, sees) = None
<1> DEFINE d == Decide(row, sees)
           from == row.state.mutedFrom
           quiet == [row.state EXCEPT !.lastValue = from, !.pendingValue = None,
                                      !.pendingCount = 0]
           e == Evaluate(row.rule, quiet, sees)
           new == ToPersist(row, sees).lastValue
           crosses == Matches(row.rule, from, sees)
<1>1. /\ row.rule \in Rule /\ row.state \in WatchState /\ sees # Failed
      /\ row.rule.confirm \in Nat \ {0} /\ from \in Reading \cup {None}
  BY RuleTypes DEF Row, WatchState
<1>2. new = d.state.lastValue /\ d = Evaluate(row.rule, row.state, sees)
  BY <1>1, PersistSays DEF Decide
<1>3. quiet \in WatchState /\ quiet.lastValue = from /\ quiet.pendingValue = None
  BY <1>1 DEF WatchState
<1> HIDE DEF quiet
<1>4. /\ EvaluateFacts(row.rule, row.state, sees)
      /\ EvaluateFacts(row.rule, quiet, sees)
  BY <1>1, <1>3, EvaluateSays
<1>5. Held(row.state, sees) \in Nat \ {0} /\ Held(quiet, sees) = 1
  BY <1>1, <1>3, HeldCounts
<1>6. d.broken = FALSE /\ e.notify \in BOOLEAN
  BY <1>2, <1>4 DEF EvaluateFacts
<1>7. Lifted(row) /\ Across(row, sees) = e.notify
  BY <1>1 DEF Lifted, Across, quiet
<1>8. Following(row, sees) = IF e.notify
                             THEN IF FromBaseline(from) THEN "act" ELSE "tell"
                             ELSE "idle"
  BY <1>6, <1>7 DEF Following
<1>9. Reported(row, sees) = IF e.notify THEN Told(new) ELSE None
  BY <1>8 DEF Reported
<1>10. CASE ~Concludes(row, sees)
  <2>1. ~e.notify
    BY <1>1, <1>3, <1>4, <1>10 DEF EvaluateFacts, Concludes
  <2> QED
    BY <1>9, <1>10, <2>1
<1>11. CASE row.rule.confirm > 1
  <2>1. Held(quiet, sees) < row.rule.confirm
    BY <1>1, <1>5, <1>11
  <2>2. ~e.notify
    BY <1>3, <1>4, <2>1 DEF EvaluateFacts
  <2> QED
    BY <1>9, <1>11, <2>2
<1>12. CASE Concludes(row, sees) /\ ~(row.rule.confirm > 1)
  <2>1. /\ ~Inconclusive(row.rule, sees)
        /\ ~(Held(row.state, sees) < row.rule.confirm)
        /\ ~(Held(quiet, sees) < row.rule.confirm)
    BY <1>1, <1>5, <1>12 DEF Concludes
  <2>2. new = sees
    BY <1>2, <1>4, <2>1 DEF EvaluateFacts
  <2>3. /\ ~crosses => ~e.notify
        /\ crosses => e.notify = ~(row.rule.cooldown /\ quiet.alerted)
    BY <1>3, <1>4, <2>1 DEF EvaluateFacts
  <2>4. Told(new) = sees
    BY <2>2, ToldType
  <2> HIDE DEF e, new, crosses
  <2>5. CASE e.notify
    BY <1>6, <1>9, <1>12, <2>2, <2>3, <2>4, <2>5 DEF crosses, new
  <2>6. CASE ~e.notify
    <3>1. ~crosses \/ (crosses /\ row.rule.cooldown)
      BY <2>3, <2>6
    <3> QED
      BY <1>9, <1>12, <2>2, <2>6, <3>1 DEF crosses, new
  <2> QED
    BY <2>5, <2>6
<1> QED
  BY <1>10, <1>11, <1>12

\* The first check after a quiet fails: whatever it had last read is a change, unless it
\* is the value from before, or the watch is broken.
LEMMA FailedVerdict ==
  ASSUME NEW row \in Row, ~row.muted, row.state.mutedFrom # Undef
  PROVE  LET new == ToPersist(row, Failed).lastValue IN
         Reported(row, Failed) \in
             {None, IF Told(new) = row.state.mutedFrom THEN None ELSE Told(new)}
<1> DEFINE d == Decide(row, Failed)
           from == row.state.mutedFrom
           new == ToPersist(row, Failed).lastValue
<1>1. /\ d.notify \in BOOLEAN /\ d.broken \in BOOLEAN /\ d.notify = d.broken
      /\ new = d.state.lastValue
  BY DecideSays, PersistSays
<1>2. Lifted(row) /\ Across(row, Failed) = (from # Told(d.state.lastValue))
  BY DEF Lifted, Across
<1>3. Following(row, Failed) =
          IF ~d.broken
          THEN IF from # Told(d.state.lastValue)
               THEN IF FromBaseline(from) THEN "act" ELSE "tell" ELSE "idle"
          ELSE "broken"
  BY <1>1, <1>2 DEF Following, Lifted
<1> HIDE DEF d
<1>4. CASE d.broken
  BY <1>3, <1>4 DEF Reported
<1>5. CASE ~d.broken
  BY <1>1, <1>3, <1>5 DEF Reported
<1> QED
  BY <1>1, <1>4, <1>5

\* The variables of the contract.
Known == UpToDate(watch.state)
Hushed == watch.state.mutedFrom # Undef
Inputs == [c \in Check |-> Input(c)]
Owing == [c \in Check |-> Owed(c)]

InputOf(s) == IF s.pc = "persist" THEN [sees |-> s.sees, quiet |-> s.row.muted] ELSE None
OwedOf(s) == IF s.pc \in {"act", "tell"} THEN s.to ELSE None

LEMMA InputsAre == \A c \in Check : /\ Inputs[c] = InputOf(check[c])
                                   /\ Owing[c] = OwedOf(check[c])
BY DEF Inputs, Owing, Input, Owed, InputOf, OwedOf

LEMMA InputsMove ==
  ASSUME NEW c \in Check, NEW s, CheckSet(c, s)
  PROVE  /\ Inputs' = [Inputs EXCEPT ![c] = InputOf(s)]
         /\ Owing' = [Owing EXCEPT ![c] = OwedOf(s)]
BY DEF Inputs, Owing, Input, Owed, InputOf, OwedOf, CheckSet

LEMMA SameValues ==
  ASSUME NEW c \in Check, Inputs' = [Inputs EXCEPT ![c] = Inputs[c]],
         Owing' = [Owing EXCEPT ![c] = Owing[c]]
  PROVE  UNCHANGED <<Inputs, Owing>>
BY DEF Inputs, Owing

\* Nothing the contract knows of changes.
LEMMA Stutters ==
  ASSUME watch'.rule = watch.rule, UNCHANGED <<Known, Hushed, Inputs, Owing, raced>>
  PROVE  UNCHANGED Contract!contractVars
BY DEF Contract!contractVars, Known, Hushed, Inputs, Owing

LEMMA SameState ==
  ASSUME watch'.state = watch.state
  PROVE  UNCHANGED <<Known, Hushed>>
BY DEF Known, Hushed

LEMMA BeginMaps ==
  ASSUME TInv, NEW c \in Check, NEW sees \in Reading \cup {Failed}, Begin(c, sees)
  PROVE  Contract!Next
<1> DEFINE i == [sees |-> sees, quiet |-> watch.muted]
<1>1. /\ CheckSet(c, check'[c]) /\ check'[c].pc = "persist"
      /\ check'[c].row = watch /\ check'[c].sees = sees
  BY BeginEffect
<1>2. InputOf(check'[c]) = i /\ OwedOf(check'[c]) = None
  BY <1>1 DEF InputOf, OwedOf
<1>3. InputOf(check[c]) = None /\ OwedOf(check[c]) = None
  BY DEF Begin, InputOf, OwedOf
<1>4. i \in Contract!Observation
  BY DEF TInv, TypeOK, Row, Contract!Observation
<1> HIDE DEF i
<1>5. /\ Inputs[c] = None /\ Owing[c] = None
      /\ Inputs' = [Inputs EXCEPT ![c] = i] /\ Owing' = [Owing EXCEPT ![c] = None]
  BY <1>1, <1>2, <1>3, InputsAre, InputsMove
<1>6. Owing' = Owing
  BY <1>5 DEF Owing
<1>7. Contract!Take(c, i)
  BY <1>5, <1>6 DEF Contract!Take, Begin, Inputs, Owing
<1> QED
  BY <1>4, <1>7 DEF Contract!Next

LEMMA PersistMaps ==
  ASSUME TInv, NEW c \in Check, Persist(c)
  PROVE  Contract!Next
<1> SUFFICES ASSUME ~raced' PROVE Contract!Next
  BY DEF Contract!Next
<1> DEFINE row == check[c].row
           sees == check[c].sees
           i == [sees |-> sees, quiet |-> row.muted]
           new == ToPersist(row, sees)
           o == Reported(row, sees)
           concl == Concludes(row, sees)
<1>1. /\ check[c].pc = "persist" /\ row \in Row /\ sees \in Reading \cup {Failed}
      /\ watch'.state = new /\ watch'.rule = watch.rule
      /\ CheckSet(c, check'[c])
      /\ Following(row, sees) = "idle" => check'[c] = NoCheck
      /\ Following(row, sees) # "idle" => /\ check'[c].pc = Following(row, sees)
                                         /\ check'[c].to = Told(new.lastValue)
  BY PersistEffect
<1>2. ~raced /\ raced' = raced /\ row.rule = watch.rule /\ row.state = watch.state
  BY RacesSay DEF Persist, TInv, TypeOK
<1>3. /\ row.rule \in Rule /\ row.state \in WatchState /\ row.muted \in BOOLEAN
      /\ new \in WatchState
      /\ new.mutedFrom = IF row.muted THEN KeptAside(row.state) ELSE Undef
      /\ Following(row, sees) \in {"idle", "act", "tell", "broken"}
  BY <1>1, PersistSays DEF Row
<1>4. OwedOf(check'[c]) = o /\ InputOf(check'[c]) = None
  <2>1. CASE Following(row, sees) = "idle"
    BY <1>1, <2>1 DEF OwedOf, InputOf, NoCheck, Reported
  <2>2. CASE Following(row, sees) # "idle"
    BY <1>1, <1>3, <2>2 DEF OwedOf, InputOf, Reported
  <2> QED
    BY <2>1, <2>2
<1>5. /\ Inputs[c] = i /\ i # None /\ Owing[c] = None
      /\ Inputs' = [Inputs EXCEPT ![c] = None] /\ Owing' = [Owing EXCEPT ![c] = o]
  <2>1. i # None
    BY <1>1, <1>3
  <2>2. InputOf(check[c]) = i /\ OwedOf(check[c]) = None
    BY <1>1 DEF InputOf, OwedOf
  <2> QED
    BY <1>1, <1>4, <2>1, <2>2, InputsAre, InputsMove
<1>6. o = None => Owing' = Owing
  BY <1>5 DEF Owing
<1>7. /\ Known' = IF row.muted THEN KeptAside(row.state) ELSE new.lastValue
      /\ Hushed' = row.muted
      /\ Known \in Reading \cup {None} /\ new.lastValue \in Reading \cup {None}
      /\ KeptAside(row.state) \in Reading \cup {None}
      /\ KeptAside(row.state) = Known \/ (Known = None /\ Hushed)
  <2>1. KeptAside(row.state) \in Reading \cup {None}
    BY <1>3, KeptAsideType
  <2>2. Known \in Reading \cup {None} /\ new.lastValue \in Reading \cup {None}
    BY <1>2, <1>3 DEF Known, UpToDate, WatchState
  <2>3. KeptAside(row.state) # Undef
    BY <2>1
  <2>4. Known' = IF row.muted THEN KeptAside(row.state) ELSE new.lastValue
    BY <1>1, <1>3, <2>3 DEF Known, UpToDate
  <2>5. Hushed' = row.muted
    BY <1>1, <1>3, <2>3 DEF Hushed
  <2>6. KeptAside(row.state) = Known \/ (Known = None /\ Hushed)
    BY <1>2 DEF Known, Hushed, UpToDate, KeptAside
  <2> QED
    BY <2>1, <2>2, <2>4, <2>5, <2>6
<1>8. /\ ~Hushed => Known = row.state.lastValue /\ row.state.mutedFrom = Undef
      /\ Hushed => Known = row.state.mutedFrom /\ row.state.mutedFrom # Undef
  BY <1>2 DEF Known, Hushed, UpToDate
<1>9. concl <=> Contract!Conclusive(watch.rule, sees)
  BY <1>1, <1>2, ConcludesIsConclusive
<1>10. concl => sees \in Reading
  BY <1>1 DEF Concludes
<1>11. concl => (Matches(row.rule, Known, sees) <=> Contract!Crosses(watch.rule, Known, sees))
  BY <1>2, <1>3, <1>7, <1>10, MatchesIsCrossing
<1>12. o \in Reading \cup {None}
  BY <1>7, ToldType DEF Reported
<1>13. i.quiet = row.muted /\ i.sees = sees
  OBVIOUS
<1> HIDE DEF i, new, o, concl
<1>14. Contract!Judged(c)
  BY <1>5 DEF Contract!Judged, Inputs
<1>15. ASSUME row.muted PROVE Contract!Next
  <2>1. o = None
    BY <1>1, <1>15, QuietVerdict DEF o
  <2>2. CASE KeptAside(row.state) = Known
    <3>1. Contract!Pass(c)
      BY <1>1, <1>2, <1>3, <1>5, <1>6, <1>7, <1>13, <1>14, <1>15, <2>1, <2>2
         DEF Contract!Pass, Inputs, Owing, Known, Hushed, Persist
    <3> QED
      BY <3>1 DEF Contract!Next
  <2>3. CASE KeptAside(row.state) # Known
    <3>1. Known = None /\ Hushed /\ Hushed' /\ Known' \in Reading
      BY <1>7, <1>15, <2>3
    <3>2. Contract!TakeUp(c)
      BY <1>1, <1>2, <1>5, <1>6, <1>13, <1>14, <1>15, <2>1, <3>1
         DEF Contract!TakeUp, Inputs, Owing, Known, Hushed
    <3> QED
      BY <3>2 DEF Contract!Next
  <2> QED
    BY <2>2, <2>3
<1>16. ASSUME ~row.muted, Hushed PROVE Contract!Resumes(c)
  <2>1. Known' \in Reading \cup {None} /\ ~Hushed'
    BY <1>7, <1>16
  <2> QED
    BY <1>1, <1>2, <1>5, <1>13, <1>14, <1>16, <2>1
       DEF Contract!Resumes, Inputs, Known, Hushed
<1>17. ASSUME ~row.muted, ~Hushed, ~concl PROVE Contract!Next
  <2>1. o = None /\ new.lastValue = row.state.lastValue
    BY <1>1, <1>8, <1>17, BlindVerdict DEF o, new, concl
  <2>2. Contract!Pass(c)
    BY <1>1, <1>2, <1>3, <1>5, <1>6, <1>7, <1>8, <1>9, <1>13, <1>14, <1>17, <2>1
       DEF Contract!Pass, Inputs, Owing, Known, Hushed
  <2> QED
    BY <2>2 DEF Contract!Next
<1>18. ASSUME ~row.muted, concl, new.lastValue = sees,
              o = IF Matches(row.rule, Known, sees) THEN sees ELSE None
       PROVE  Contract!Next
  <2>1. Contract!Judge(c)
    BY <1>1, <1>2, <1>5, <1>7, <1>9, <1>11, <1>13, <1>14, <1>18
       DEF Contract!Judge, Inputs, Owing, Known, Hushed
  <2> QED
    BY <2>1 DEF Contract!Next
<1>19. ASSUME ~row.muted, concl, ~Hushed, Matches(row.rule, Known, sees),
              row.rule.confirm > 1, new.lastValue = Known, o = None
       PROVE  Contract!Next
  <2>1. Contract!Defer(c)
    BY <1>1, <1>2, <1>5, <1>6, <1>7, <1>11, <1>13, <1>14, <1>19
       DEF Contract!Defer, Inputs, Owing, Known, Hushed
  <2> QED
    BY <2>1 DEF Contract!Next
<1>20. ASSUME ~row.muted, concl, Matches(row.rule, Known, sees),
              row.rule.cooldown, new.lastValue = sees, o = None
       PROVE  Contract!Next
  <2>1. Contract!Suppress(c)
    BY <1>1, <1>2, <1>5, <1>6, <1>7, <1>11, <1>13, <1>14, <1>20
       DEF Contract!Suppress, Inputs, Owing, Known, Hushed
  <2> QED
    BY <2>1 DEF Contract!Next
<1>21. ASSUME ~row.muted, concl, ~Hushed PROVE Contract!Next
  <2>1. /\ row.state.mutedFrom = Undef /\ row.state.lastValue = Known
        /\ sees \in Reading
    BY <1>8, <1>10, <1>21
  <2>2. \/ /\ new.lastValue = sees
           /\ o = IF Matches(row.rule, Known, sees) THEN sees ELSE None
        \/ /\ Matches(row.rule, Known, sees) /\ row.rule.confirm > 1
           /\ new.lastValue = Known /\ o = None
        \/ /\ Matches(row.rule, Known, sees) /\ row.rule.cooldown
           /\ new.lastValue = sees /\ o = None
    BY <1>1, <1>21, <2>1, PlainVerdict DEF o, new, concl
  <2> QED
    BY <1>18, <1>19, <1>20, <1>21, <2>2
<1>22. ASSUME ~row.muted, Hushed, sees \in Reading PROVE Contract!Next
  <2>1. /\ row.state.mutedFrom # Undef /\ row.state.mutedFrom = Known /\ sees # Failed
    BY <1>8, <1>22
  <2>2. \/ (~concl \/ row.rule.confirm > 1) /\ o = None
        \/ /\ concl /\ new.lastValue = sees
           /\ o = IF Matches(row.rule, Known, sees) THEN sees ELSE None
        \/ /\ concl /\ new.lastValue = sees /\ Matches(row.rule, Known, sees)
           /\ row.rule.cooldown /\ o = None
    BY <1>1, <1>22, <2>1, LiftedVerdict DEF o, new, concl
  <2>3. ASSUME ~concl \/ row.rule.confirm > 1, o = None PROVE Contract!Next
    <3>1. Contract!Forget(c)
      BY <1>2, <1>5, <1>6, <1>9, <1>13, <1>16, <1>22, <2>1, <2>3
         DEF Contract!Forget, Inputs, Owing
    <3> QED
      BY <3>1 DEF Contract!Next
  <2> QED
    BY <1>18, <1>20, <1>22, <2>2, <2>3
<1>23. ASSUME ~row.muted, Hushed, sees = Failed PROVE Contract!Next
  <2>1. /\ row.state.mutedFrom # Undef /\ row.state.mutedFrom = Known
        /\ Known' = new.lastValue
    BY <1>7, <1>8, <1>23
  <2>2. o \in {None, IF Told(new.lastValue) = Known THEN None ELSE Told(new.lastValue)}
    BY <1>1, <1>23, <2>1, FailedVerdict DEF o, new
  <2>3. Told(new.lastValue) = IF Known' = None THEN Blank ELSE Known'
    BY <2>1 DEF Told
  <2>4. Contract!MistakeForChange(c)
    BY <1>5, <1>6, <1>13, <1>16, <1>23, <2>1, <2>2, <2>3
       DEF Contract!MistakeForChange, Inputs, Owing, Known
  <2> QED
    BY <2>4 DEF Contract!Next
<1> QED
  BY <1>1, <1>15, <1>17, <1>21, <1>22, <1>23

\* A check is done with, or goes from its action to its alert.
LEMMA ReportMaps ==
  ASSUME TInv, NEW c \in Check, NEW s, CheckSet(c, s), s.pc \notin {"persist", "act"},
         check[c].pc # "persist", UNCHANGED <<watch, raced>>,
         OwedOf(s) \in {None, OwedOf(check[c])}
  PROVE  [Contract!Next]_(Contract!contractVars)
<1>1. /\ watch'.rule = watch.rule /\ UNCHANGED <<Known, Hushed, raced>>
      /\ InputOf(s) = None /\ InputOf(check[c]) = None
  BY SameState DEF InputOf
<1>2. /\ Inputs' = [Inputs EXCEPT ![c] = Inputs[c]]
      /\ Owing' = [Owing EXCEPT ![c] = OwedOf(s)] /\ Owing[c] = OwedOf(check[c])
  BY <1>1, InputsAre, InputsMove
<1>3. CASE OwedOf(s) = OwedOf(check[c])
  BY <1>1, <1>2, <1>3, SameValues, Stutters
<1>4. CASE OwedOf(s) = None /\ OwedOf(check[c]) # None
  <2>1. Inputs' = Inputs
    BY <1>2 DEF Inputs
  <2>2. Contract!Report(c)
    BY <1>1, <1>2, <1>4, <2>1 DEF Contract!Report, Inputs, Owing, Known, Hushed
  <2> QED
    BY <2>2 DEF Contract!Next
<1> QED
  BY <1>3, <1>4

LEMMA LoseMaps ==
  ASSUME NEW C \in SUBSET Check, UNCHANGED <<watch, raced>>,
         \A c \in C : check'[c] = NoCheck, \A c \in Check \ C : check'[c] = check[c]
  PROVE  Contract!Next
<1>1. /\ Inputs' = [c \in Check |-> IF c \in C THEN None ELSE Inputs[c]]
      /\ Owing' = [c \in Check |-> IF c \in C THEN None ELSE Owing[c]]
  BY DEF Inputs, Owing, Input, Owed, NoCheck
<1>2. Contract!Lose(C)
  BY <1>1 DEF Contract!Lose, Inputs, Owing
<1> QED
  BY <1>2 DEF Contract!Next

\* Only the row changes, and not in what the owner knows.
LEMMA RowMaps ==
  ASSUME watch'.rule = watch.rule, watch'.state = watch.state, UNCHANGED <<check, raced>>
  PROVE  UNCHANGED Contract!contractVars
<1>1. UNCHANGED <<Inputs, Owing>>
  BY DEF Inputs, Owing, Input, Owed
<1> QED
  BY <1>1, SameState, Stutters

LEMMA RefineStep ==
  ASSUME TInv, [Next]_vars
  PROVE  [Contract!Next]_(Contract!contractVars)
<1>1. ASSUME NEW c \in Check, NEW sees \in Reading \cup {Failed}, Begin(c, sees)
      PROVE  Contract!Next
  BY <1>1, BeginMaps
<1>2. ASSUME NEW c \in Check, Persist(c) PROVE Contract!Next
  BY <1>2, PersistMaps
<1>3. ASSUME NEW c \in Check, Act(c) PROVE [Contract!Next]_(Contract!contractVars)
  <2>1. check[c].pc = "act" /\ UNCHANGED <<watch, raced>>
    BY <1>3 DEF Act
  <2>2. CASE Leave(c)
    BY <2>1, <2>2, LeaveMoves, ReportMaps DEF NoCheck, OwedOf
  <2>3. CASE check' = [check EXCEPT ![c].pc = "tell"]
    <3> DEFINE s == [check[c] EXCEPT !.pc = "tell"]
    <3>1. check[c] \in [pc : CheckPC \ {"idle", "persist"}, row : {None},
                        action : Action, sees : Reading \cup {Failed},
                        based : BOOLEAN, to : Reading]
      BY <2>1 DEF TInv, CheckState, NoCheck
    <3>2. s \in CheckState /\ s.pc = "tell" /\ s.to = check[c].to
      BY <3>1 DEF CheckState, CheckPC
    <3>3. check' = [check EXCEPT ![c] = s]
      BY <2>3
    <3> HIDE DEF s
    <3>4. CheckSet(c, s) /\ OwedOf(s) = OwedOf(check[c])
      BY <2>1, <3>2, <3>3, CheckMoves DEF OwedOf
    <3> QED
      BY <2>1, <3>2, <3>4, ReportMaps
  <2> QED
    BY <1>3, <2>2, <2>3 DEF Act
<1>4. ASSUME NEW c \in Check, Tell(c) PROVE [Contract!Next]_(Contract!contractVars)
  <2>1. check[c].pc # "persist" /\ UNCHANGED <<watch, raced>> /\ Leave(c)
    BY <1>4 DEF Tell
  <2> QED
    BY <2>1, LeaveMoves, ReportMaps DEF NoCheck, OwedOf
<1>5. ASSUME NEW c \in Check, FailCheck(c) PROVE Contract!Next
  <2>1. UNCHANGED <<watch, raced>> /\ CheckSet(c, NoCheck)
    BY <1>5, LeaveMoves DEF FailCheck
  <2>2. /\ {c} \in SUBSET Check /\ \A d \in {c} : check'[d] = NoCheck
        /\ \A d \in Check \ {c} : check'[d] = check[d]
    BY <2>1 DEF CheckSet
  <2> QED
    BY <2>1, <2>2, LoseMaps
<1>6. CASE BeginNotice \/ FailNotice
  BY <1>6, RowMaps DEF BeginNotice, FailNotice
<1>7. CASE EndNotice
  <2>1. CASE raced'
    BY <2>1 DEF Contract!Next
  <2>2. CASE ~raced'
    <3>1. raced' = raced /\ notice = watch.state
      BY <1>7, <2>2, RacesSay DEF EndNotice, TInv, TypeOK
    <3>2. watch'.state = watch.state /\ watch'.rule = watch.rule
      BY <1>7, <3>1 DEF EndNotice, TInv, TypeOK, Row
    <3> QED
      BY <1>7, <3>1, <3>2, RowMaps DEF EndNotice
  <2> QED
    BY <2>1, <2>2
<1>8. ASSUME NEW on \in BOOLEAN, Mute(on) PROVE UNCHANGED Contract!contractVars
  <2>1. watch'.rule = watch.rule /\ watch'.state = watch.state
    BY <1>8 DEF Mute, TInv, TypeOK, Row
  <2> QED
    BY <1>8, <2>1, RowMaps DEF Mute
<1>9. ASSUME NEW r \in Rule, SetWatch(r) PROVE Contract!Next
  <2>1. watch'.state = EmptyState
    BY <1>9 DEF SetWatch, TInv, TypeOK, Row
  <2>2. Known' = None /\ ~Hushed'
    BY <2>1, EmptyTypes DEF Known, Hushed, UpToDate
  <2>3. UNCHANGED <<Inputs, Owing, raced>>
    BY <1>9 DEF SetWatch, Inputs, Owing, Input, Owed
  <2>4. Contract!Replace
    BY <2>2, <2>3 DEF Contract!Replace, Inputs, Owing, Known, Hushed
  <2> QED
    BY <2>4 DEF Contract!Next
<1>10. ASSUME NEW a \in Action, SetWatchAction(a) PROVE UNCHANGED Contract!contractVars
  <2>1. watch'.rule = watch.rule /\ watch'.state = watch.state
    BY <1>10 DEF SetWatchAction, TInv, TypeOK, Row
  <2> QED
    BY <1>10, <2>1, RowMaps DEF SetWatchAction
<1>11. CASE Cool
  <2>1. /\ watch'.state = Cooled(watch.state) /\ watch'.rule = watch.rule
        /\ \A c \in Check : check[c].pc = "persist" => check'[c] = CooledCheck(check[c])
        /\ \A c \in Check : check[c].pc # "persist" => check'[c] = check[c]
    BY <1>11, CoolEffect
  <2>2. UNCHANGED <<Known, Hushed>>
    BY <2>1, CooledType DEF Known, Hushed, UpToDate, TInv, TypeOK, Row
  <2>3. ASSUME NEW c \in Check PROVE Input(c)' = Input(c) /\ Owed(c)' = Owed(c)
    <3>1. CASE check[c].pc # "persist"
      BY <2>1, <3>1 DEF Input, Owed
    <3>2. CASE check[c].pc = "persist"
      <4>1. check[c] \in CheckState /\ check[c].row \in Row
        BY <3>2, CheckHolds DEF TInv
      <4>2. /\ check'[c].pc = "persist" /\ check'[c].sees = check[c].sees
            /\ check'[c].row.muted = check[c].row.muted
        BY <2>1, <3>2, <4>1, CooledCheckType, CooledRowType
      <4> QED
        BY <3>2, <4>2 DEF Input, Owed
    <3> QED
      BY <3>1, <3>2
  <2>4. UNCHANGED <<Inputs, Owing>>
    BY <2>3 DEF Inputs, Owing
  <2> QED
    BY <1>11, <2>1, <2>2, <2>4, Stutters DEF Cool
<1>12. CASE Crash
  BY <1>12, LoseMaps DEF Crash
<1>13. CASE UNCHANGED vars
  BY <1>13, RowMaps DEF vars
<1> QED
  BY <1>1, <1>2, <1>3, <1>4, <1>5, <1>6, <1>7, <1>8, <1>9, <1>10, <1>11, <1>12,
     <1>13 DEF Next

\* The watch keeps its promise to the owner: until a write lands on a state its
\* writer never read, every step of checks, notices, mutes, errors and crashes is a
\* step the contract allows.
THEOREM Implements == Spec => ImplementsContract
<1>1. Init => Contract!Init
  <2> SUFFICES ASSUME Init PROVE Contract!Init
    OBVIOUS
  <2>1. watch.state = EmptyState /\ \A c \in Check : check[c].pc = "idle"
    BY DEF Init, NoCheck
  <2> QED
    BY <2>1, EmptyTypes DEF Init, Contract!Init, UpToDate, Input, Owed
<1>2. TInv /\ [Next]_vars => [Contract!Next]_(Contract!contractVars)
  BY RefineStep
<1>3. IInv => TInv
  BY DEF IInv
<1> QED
  BY <1>1, <1>2, <1>3, Invariant, PTL DEF Spec, Contract!Spec, ImplementsContract

=============================================================================
