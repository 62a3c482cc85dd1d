---------------------------- MODULE RunnerProofs ----------------------------
(***************************************************************************)
(* Theorems about Runner and the three modules it is made of, which share  *)
(* no variable: LiveHandoff, for any executions, runs, pauses and slots,      *)
(* however the sessions of a run are tangled; PlanRun, for every plan,     *)
(* every limit and every choice of the reviewer and the page; and          *)
(* Recording, for any number of starts, actions and browsers that crash.   *)
(***************************************************************************)
EXTENDS Runner, FiniteSetTheorems, SequenceTheorems, TLAPS

-----------------------------------------------------------------------------
(* Typing.                                                                 *)

LEMMA NoneIsNoSession == None \notin Session /\ None \notin Exec
BY ConstantsAssumption DEF Session

LEMMA ObjectFacts ==
  ASSUME NEW ses \in [Session -> Object], NEW s \in Session
  PROVE  /\ \A b \in BOOLEAN : [ses EXCEPT ![s].requested = b] \in [Session -> Object]
         /\ \A w \in Exec \cup {None} : [ses EXCEPT ![s].waiter = w] \in [Session -> Object]
<1>1. ses[s] \in Object
  OBVIOUS
<1>2. ASSUME NEW b \in BOOLEAN PROVE [ses[s] EXCEPT !.requested = b] \in Object
  BY <1>1 DEF Object
<1>3. ASSUME NEW w \in Exec \cup {None} PROVE [ses[s] EXCEPT !.waiter = w] \in Object
  BY <1>1 DEF Object
<1> QED
  BY <1>2, <1>3

\* What the end of a wait does, whoever ends it.
LEMMA EndWaitType ==
  ASSUME TypeOK, NEW e \in Exec, NEW how \in {"resumed", "timeout"},
         NEW ses \in [Session -> Object], NEW tms \in [Exec -> Session \cup {None}],
         EndWait(e, how, ses, tms)
  PROVE  /\ outcome' \in [Exec -> {"none", "resumed", "timeout"}]
         /\ promised' \subseteq Exec
         /\ session' \in [Session -> Object]
         /\ timer' \in [Exec -> Session \cup {None}]
         /\ pc' \in [Exec -> PC]
         /\ \E to \in Holding : pc' = [pc EXCEPT ![e] = to]
<1> DEFINE s == live[RunOf[e]]
<1>1. s \in Session \cup {None}
  BY ConstantsAssumption DEF TypeOK
<1>2. AfterPause(s, how) \in Holding /\ AfterPause(s, how) \in PC
  BY DEF AfterPause, Holding, PC
<1>3. session' \in [Session -> Object]
  <2>1. CASE s = None
    BY <2>1 DEF EndWait, Cut
  <2>2. CASE s # None
    BY <1>1, <2>2 DEF EndWait, Cut, Object
  <2> QED
    BY <2>1, <2>2
<1>4. timer' \in [Exec -> Session \cup {None}]
  BY DEF EndWait, Cleared
<1> QED
  BY <1>2, <1>3, <1>4 DEF EndWait, Goto, TypeOK

LEMMA TypeWait ==
  ASSUME TypeOK, NEW e \in Exec, WaitForResume(e) PROVE TypeOK'
<1> USE DEF WaitForResume, slots
<1> DEFINE s == live[RunOf[e]]
<1>1. s \in Session \cup {None}
  BY ConstantsAssumption DEF TypeOK
<1>2. UNCHANGED <<active, queue, pauses, live, tangled>>
  OBVIOUS
<1>3. CASE s = None
  <2>1. EndWait(e, "timeout", session, timer)
    BY <1>3
  <2> QED
    BY <1>2, <2>1, EndWaitType DEF TypeOK
<1>4. CASE s # None /\ session[s].requested
  <2>1. EndWait(e, "resumed", [session EXCEPT ![s].requested = FALSE], timer)
    BY <1>4
  <2>2. [session EXCEPT ![s].requested = FALSE] \in [Session -> Object]
    BY <1>1, <1>4 DEF TypeOK, Object
  <2> QED
    BY <1>2, <2>1, <2>2, EndWaitType DEF TypeOK
<1>5. CASE s # None /\ ~session[s].requested
  <2>1. session' \in [Session -> Object]
    <3>1. session' = [session EXCEPT ![s].waiter = e] /\ session \in [Session -> Object]
      BY <1>5 DEF TypeOK
    <3> QED
      BY <1>1, <1>5, <3>1, ObjectFacts
  <2>2. timer' \in [Exec -> Session \cup {None}]
    BY <1>1, <1>5 DEF TypeOK, TimerOf
  <2> QED
    BY <1>2, <1>5, <2>1, <2>2 DEF TypeOK, Goto, PC
<1> QED
  BY <1>3, <1>4, <1>5

LEMMA TypeTimeOut ==
  ASSUME TypeOK, NEW e \in Exec, TimeOut(e) PROVE TypeOK'
<1> DEFINE s == timer[e]
<1>1. s \in Session
  BY DEF TypeOK, TimeOut
<1>2. Cut(session, s) \in [Session -> Object]
  BY <1>1, NoneIsNoSession DEF TypeOK, Cut, Object
<1>3. [timer EXCEPT ![e] = None] \in [Exec -> Session \cup {None}]
  BY DEF TypeOK
<1>4. EndWait(e, "timeout", Cut(session, s), [timer EXCEPT ![e] = None])
  BY DEF TimeOut
<1>5. UNCHANGED <<active, queue, pauses, live, tangled>>
  BY DEF TimeOut, slots
<1> HIDE DEF s
<1> QED
  BY <1>2, <1>3, <1>4, <1>5, EndWaitType DEF TypeOK

LEMMA TypeResume ==
  ASSUME TypeOK, NEW r \in Run, ResumeLive(r) PROVE TypeOK'
<1> DEFINE s == live[r]
           w == session[s].waiter
<1>1. s \in Session /\ s[1] \in Exec /\ w \in Exec \cup {None}
  <2>1. s \in Session
    BY DEF TypeOK, ResumeLive
  <2> QED
    BY <2>1 DEF TypeOK, Object, Session
<1>2. UNCHANGED <<active, queue, pauses, live, tangled>>
  BY DEF ResumeLive, slots
<1>3. Remembered(s) \in [Session -> Object]
  BY <1>1, ObjectFacts DEF TypeOK, Remembered
<1>4. CASE w # None /\ pc[w] = "wait"
  <2>1. EndWait(w, "resumed", Remembered(s), [timer EXCEPT ![w] = None])
    BY <1>4 DEF ResumeLive
  <2>2. [timer EXCEPT ![w] = None] \in [Exec -> Session \cup {None}]
    BY DEF TypeOK
  <2>3. w \in Exec
    BY <1>1, <1>4
  <2> HIDE DEF w, s
  <2> QED
    BY <1>2, <1>3, <2>1, <2>2, <2>3, EndWaitType DEF TypeOK
<1>5. CASE ~(w # None /\ pc[w] = "wait")
  <2>1. /\ session' = Remembered(s)
        /\ promised' = promised \cup {s[1]} \/ promised' = promised
        /\ UNCHANGED <<pc, timer, outcome>>
    BY <1>5 DEF ResumeLive
  <2> HIDE DEF s
  <2> QED
    BY <1>1, <1>2, <1>3, <2>1 DEF TypeOK
<1> QED
  BY <1>4, <1>5

LEMMA TypeRegister ==
  ASSUME TypeOK, NEW e \in Exec, RegisterLive(e) PROVE TypeOK'
<1> DEFINE s == <<e, pauses[e] + 1>>
<1>1. RunOf[e] \in Run /\ pauses[e] + 1 \in 1..MaxPauses
  <2>1. pauses[e] \in 0..MaxPauses /\ pauses[e] < MaxPauses /\ MaxPauses \in Nat
    BY ConstantsAssumption DEF TypeOK, RegisterLive
  <2>2. pauses[e] + 1 \in 1..MaxPauses
    BY <2>1
  <2> QED
    BY <2>2, ConstantsAssumption
<1>2. s \in Session
  BY <1>1 DEF Session
<1>3. /\ pauses' = [pauses EXCEPT ![e] = @ + 1]
      /\ live' = [live EXCEPT ![RunOf[e]] = s]
      /\ session' = [session EXCEPT ![s] = Fresh]
      /\ tangled' = tangled \/ tangled' = tangled \cup {RunOf[e]}
      /\ pc' = [pc EXCEPT ![e] = "setup"]
      /\ UNCHANGED <<active, queue, timer, outcome, promised>>
  BY DEF RegisterLive, Goto, slots
<1>4. Fresh \in Object
  BY DEF Fresh, Object
<1> HIDE DEF s
<1>5. pauses' \in [Exec -> 0..MaxPauses]
  BY <1>1, <1>3 DEF TypeOK
<1>6. /\ live' \in [Run -> Session \cup {None}] /\ session' \in [Session -> Object]
      /\ tangled' \subseteq Run /\ pc' \in [Exec -> PC]
  BY <1>1, <1>2, <1>3, <1>4 DEF TypeOK, PC
<1> QED
  BY <1>3, <1>5, <1>6 DEF TypeOK

LEMMA TypeDelete ==
  ASSUME TypeOK, NEW e \in Exec, Delete(e) PROVE TypeOK'
BY ConstantsAssumption DEF TypeOK, Delete, Goto, AfterPause, PC, slots

-----------------------------------------------------------------------------
(* The slots.                                                              *)

\* The executions that wait for a slot are those in the queue, once each; the
\* count is that of the holders, and nobody waits beside a free slot.
SlotInv ==
    /\ \A i, j \in 1..Len(queue) : queue[i] = queue[j] => i = j
    /\ \A e \in Exec : pc[e] = "queued" <=> \E i \in 1..Len(queue) : queue[i] = e
    /\ IsFiniteSet(Holders) /\ active = Cardinality(Holders) /\ active <= Max
    /\ queue # <<>> => active = Max

SlotIInv == TypeOK /\ SlotInv

\* A step of executions that keep their slots.
LEMMA Keeping ==
  ASSUME SlotIInv, UNCHANGED <<active, queue>>,
         \A e \in Exec : pc'[e] # pc[e] => pc[e] \in Holding /\ pc'[e] \in Holding
  PROVE  SlotInv'
<1>1. Holders' = Holders
  BY DEF Holders
<1>2. \A e \in Exec : pc'[e] = "queued" <=> pc[e] = "queued"
  BY DEF Holding
<1> QED
  BY <1>1, <1>2 DEF SlotIInv, SlotInv

LEMMA KeepSlots ==
  ASSUME SlotIInv, NEW e \in Exec, pc[e] \in Holding, UNCHANGED <<active, queue>>,
         NEW to \in Holding, pc' = [pc EXCEPT ![e] = to]
  PROVE  SlotInv'
<1>1. \A f \in Exec : pc'[f] # pc[f] => pc[f] \in Holding /\ pc'[f] \in Holding
  BY DEF SlotIInv, TypeOK
<1> QED
  BY <1>1, Keeping

LEMMA StepAcquire ==
  ASSUME SlotIInv, NEW e \in Exec, Acquire(e) PROVE SlotIInv'
<1>1. /\ TypeOK /\ SlotInv /\ Len(queue) \in Nat /\ active \in Nat /\ pc[e] = "idle"
      /\ e \notin Holders
  BY DEF SlotIInv, TypeOK, Acquire, Holders, Holding
<1>2. CASE active < Max
  <2>1. active' = active + 1 /\ queue' = queue /\ pc' = [pc EXCEPT ![e] = "run"]
    BY <1>2 DEF Acquire, Goto
  <2>2. TypeOK'
    BY <1>1, <2>1 DEF Acquire, TypeOK, PC, sessions
  <2>3. queue = <<>>
    BY <1>1, <1>2, ConstantsAssumption DEF SlotInv
  <2>4. Holders' = Holders \cup {e}
    BY <1>1, <2>1 DEF Holders, Holding, TypeOK
  <2>5. IsFiniteSet(Holders') /\ Cardinality(Holders') = active + 1
    BY <1>1, <2>4, FS_AddElement DEF SlotInv
  <2>6. \A f \in Exec : pc'[f] = "queued" <=> pc[f] = "queued"
    BY <1>1, <2>1 DEF TypeOK
  <2>7. SlotInv'
    BY <1>1, <1>2, <2>1, <2>3, <2>5, <2>6, ConstantsAssumption DEF SlotInv
  <2> QED
    BY <2>2, <2>7 DEF SlotIInv
<1>3. CASE ~(active < Max)
  <2>1. active' = active /\ queue' = Append(queue, e) /\ pc' = [pc EXCEPT ![e] = "queued"]
    BY <1>3 DEF Acquire, Goto
  <2>2. active = Max
    BY <1>1, <1>3, ConstantsAssumption DEF SlotInv
  <2>3. /\ queue' \in Seq(Exec) /\ Len(queue') = Len(queue) + 1
        /\ \A i \in 1..Len(queue) : queue'[i] = queue[i]
        /\ queue'[Len(queue) + 1] = e
    BY <1>1, <2>1 DEF TypeOK
  <2>4. TypeOK'
    BY <1>1, <2>1, <2>3 DEF Acquire, TypeOK, PC, sessions
  <2>5. Holders' = Holders
    BY <1>1, <2>1 DEF Holders, Holding, TypeOK
  <2>6. \A i \in 1..Len(queue) : queue[i] # e
    BY <1>1 DEF SlotInv
  <2>7. \A i, j \in 1..Len(queue') : queue'[i] = queue'[j] => i = j
    BY <1>1, <2>3, <2>6 DEF SlotInv
  <2>8. ASSUME NEW f \in Exec
        PROVE  pc'[f] = "queued" <=> \E i \in 1..Len(queue') : queue'[i] = f
    <3>1. (\E i \in 1..Len(queue') : queue'[i] = f) <=>
              (\E i \in 1..Len(queue) : queue[i] = f) \/ f = e
      BY <1>1, <2>3
    <3> QED
      BY <1>1, <2>1, <3>1 DEF SlotInv, TypeOK
  <2>9. SlotInv'
    BY <1>1, <2>1, <2>2, <2>5, <2>7, <2>8 DEF SlotInv
  <2> QED
    BY <2>4, <2>9 DEF SlotIInv
<1> QED
  BY <1>2, <1>3

LEMMA StepRelease ==
  ASSUME SlotIInv, NEW e \in Exec, Release(e) PROVE SlotIInv'
<1>1. /\ TypeOK /\ SlotInv /\ Len(queue) \in Nat /\ active \in Nat
      /\ queue \in Seq(Exec) /\ pc[e] = "release" /\ e \in Holders
  BY DEF SlotIInv, TypeOK, Release, Holders, Holding
<1>2. IsFiniteSet(Holders \ {e}) /\ Cardinality(Holders \ {e}) = active - 1 /\ active > 0
  <2>1. IsFiniteSet(Holders \ {e}) /\ Cardinality(Holders \ {e}) = Cardinality(Holders) - 1
    BY <1>1, FS_RemoveElement DEF SlotInv
  <2>2. Cardinality(Holders \ {e}) \in Nat
    BY <2>1, FS_CardinalityType
  <2> QED
    BY <1>1, <2>1, <2>2 DEF SlotInv
<1>3. CASE queue # <<>>
  <2> DEFINE h == Head(queue)
  <2>1. /\ queue' = Tail(queue) /\ active' = active
        /\ pc' = [pc EXCEPT ![e] = "done", ![h] = "run"]
    BY <1>3 DEF Release, HandOver
  <2>2. /\ h \in Exec /\ h = queue[1] /\ Len(queue) >= 1
        /\ queue' \in Seq(Exec) /\ Len(queue') = Len(queue) - 1
        /\ \A i \in 1..(Len(queue) - 1) : queue'[i] = queue[i + 1]
    BY <1>1, <1>3, <2>1
  <2>3. pc[h] = "queued" /\ h # e /\ h \notin Holders
    BY <1>1, <2>2 DEF SlotInv, Holders, Holding
  <2> HIDE DEF h
  <2>4. /\ pc' \in [Exec -> PC] /\ pc'[e] = "done" /\ pc'[h] = "run"
        /\ \A f \in Exec \ {e, h} : pc'[f] = pc[f]
    BY <1>1, <2>1, <2>2, <2>3 DEF TypeOK, PC
  <2>5. TypeOK'
    BY <1>1, <2>1, <2>2, <2>4 DEF Release, TypeOK, sessions
  <2>6. Holders' = (Holders \ {e}) \cup {h}
    BY <1>1, <2>2, <2>3, <2>4 DEF Holders, Holding
  <2>7. IsFiniteSet(Holders') /\ Cardinality(Holders') = active
    <3>1. h \notin Holders \ {e}
      BY <2>3
    <3>2. /\ IsFiniteSet((Holders \ {e}) \cup {h})
          /\ Cardinality((Holders \ {e}) \cup {h}) = Cardinality(Holders \ {e}) + 1
      BY <1>2, <3>1, FS_AddElement
    <3> QED
      BY <1>1, <1>2, <2>6, <3>2
  <2>8. \A i, j \in 1..Len(queue') : queue'[i] = queue'[j] => i = j
    <3> SUFFICES ASSUME NEW i \in 1..Len(queue'), NEW j \in 1..Len(queue'),
                        queue'[i] = queue'[j]
                 PROVE  i = j
      OBVIOUS
    <3>1. i + 1 \in 1..Len(queue) /\ j + 1 \in 1..Len(queue) /\ queue[i + 1] = queue[j + 1]
      BY <1>1, <2>2
    <3>2. i + 1 = j + 1
      BY <1>1, <3>1 DEF SlotInv
    <3> QED
      BY <1>1, <2>2, <3>2
  <2>9. ASSUME NEW f \in Exec
        PROVE  pc'[f] = "queued" <=> \E i \in 1..Len(queue') : queue'[i] = f
    <3>1. (\E i \in 1..Len(queue') : queue'[i] = f) =>
              f # h /\ \E i \in 1..Len(queue) : queue[i] = f
      <4> SUFFICES ASSUME NEW i \in 1..Len(queue'), queue'[i] = f
                   PROVE  f # h /\ \E k \in 1..Len(queue) : queue[k] = f
        OBVIOUS
      <4>1. i + 1 \in 1..Len(queue) /\ queue[i + 1] = f /\ i + 1 # 1 /\ 1 \in 1..Len(queue)
        BY <1>1, <2>2
      <4> QED
        BY <1>1, <2>2, <4>1 DEF SlotInv
    <3>2. ASSUME f # h, NEW k \in 1..Len(queue), queue[k] = f
          PROVE  \E i \in 1..Len(queue') : queue'[i] = f
      <4>1. k # 1
        BY <2>2, <3>2
      <4>2. k - 1 \in 1..Len(queue') /\ queue'[k - 1] = queue[k]
        BY <1>1, <2>2, <4>1
      <4> QED
        BY <3>2, <4>2
    <3>3. pc[f] = "queued" <=> \E i \in 1..Len(queue) : queue[i] = f
      BY <1>1 DEF SlotInv
    <3> QED
      BY <1>1, <2>3, <2>4, <3>1, <3>2, <3>3
  <2>10. queue' # <<>> => active' = Max
    BY <1>1, <1>3, <2>1 DEF SlotInv
  <2>11. active' <= Max
    BY <1>1, <2>1 DEF SlotInv
  <2>12. SlotInv'
    BY <2>1, <2>7, <2>8, <2>9, <2>10, <2>11 DEF SlotInv
  <2> QED
    BY <2>5, <2>12 DEF SlotIInv
<1>4. CASE queue = <<>>
  <2>1. /\ queue' = queue /\ active' = active - 1 /\ pc' = [pc EXCEPT ![e] = "done"]
    BY <1>2, <1>4 DEF Release, HandOver, Goto
  <2>2. TypeOK'
    BY <1>1, <1>2, <2>1 DEF Release, TypeOK, PC, sessions
  <2>3. Holders' = Holders \ {e}
    BY <1>1, <2>1 DEF Holders, Holding, TypeOK
  <2>4. \A f \in Exec : pc'[f] = "queued" <=> pc[f] = "queued"
    BY <1>1, <2>1 DEF TypeOK
  <2>5. active' <= Max
    BY <1>1, <2>1, ConstantsAssumption DEF SlotInv
  <2>6. SlotInv'
    BY <1>1, <1>2, <1>4, <2>1, <2>3, <2>4, <2>5 DEF SlotInv
  <2> QED
    BY <2>2, <2>6 DEF SlotIInv
<1> QED
  BY <1>3, <1>4

-----------------------------------------------------------------------------
LEMMA StepFinish ==
  ASSUME SlotIInv, NEW e \in Exec, Finish(e) PROVE SlotIInv'
<1>1. /\ pc[e] \in Holding /\ "release" \in Holding /\ pc' = [pc EXCEPT ![e] = "release"]
      /\ UNCHANGED <<active, queue>>
  BY DEF Finish, Goto, Holding, slots
<1>2. TypeOK'
  BY DEF SlotIInv, TypeOK, Finish, Goto, PC, slots, sessions
<1> QED
  BY <1>1, <1>2, KeepSlots DEF SlotIInv

LEMMA StepRegister ==
  ASSUME SlotIInv, NEW e \in Exec, RegisterLive(e) PROVE SlotIInv'
<1>1. /\ pc[e] \in Holding /\ "setup" \in Holding /\ pc' = [pc EXCEPT ![e] = "setup"]
      /\ UNCHANGED <<active, queue>>
  BY DEF RegisterLive, Goto, Holding, slots
<1> QED
  BY <1>1, TypeRegister, KeepSlots DEF SlotIInv

LEMMA StepDelete ==
  ASSUME SlotIInv, NEW e \in Exec, Delete(e) PROVE SlotIInv'
<1> DEFINE to == AfterPause(None, outcome[e])
<1>1. /\ pc[e] \in Holding /\ pc' = [pc EXCEPT ![e] = to]
      /\ UNCHANGED <<active, queue>>
  BY DEF Delete, Goto, Holding, slots
<1>2. to \in Holding
  BY DEF AfterPause, Holding
<1> HIDE DEF to
<1> QED
  BY <1>1, <1>2, TypeDelete, KeepSlots DEF SlotIInv

\* A step that ends the wait of e keeps the slot of e.
LEMMA StepEndWait ==
  ASSUME SlotIInv, NEW e \in Exec, pc[e] \in Holding, UNCHANGED <<active, queue>>,
         NEW how \in {"resumed", "timeout"},
         NEW ses \in [Session -> Object], NEW tms \in [Exec -> Session \cup {None}],
         EndWait(e, how, ses, tms)
  PROVE  SlotInv'
<1>1. PICK to \in Holding : pc' = [pc EXCEPT ![e] = to]
  BY EndWaitType DEF SlotIInv
<1> QED
  BY <1>1, KeepSlots

LEMMA StepWait ==
  ASSUME SlotIInv, NEW e \in Exec, WaitForResume(e) PROVE SlotIInv'
<1> DEFINE s == live[RunOf[e]]
<1>1. /\ TypeOK /\ pc[e] = "setup" /\ pc[e] \in Holding /\ UNCHANGED <<active, queue>>
      /\ session \in [Session -> Object] /\ timer \in [Exec -> Session \cup {None}]
      /\ s \in Session \cup {None}
  BY ConstantsAssumption DEF SlotIInv, TypeOK, WaitForResume, Holding, slots
<1>2. CASE s = None
  <2>1. EndWait(e, "timeout", session, timer)
    BY <1>2 DEF WaitForResume
  <2> QED
    BY <1>1, <2>1, StepEndWait, TypeWait DEF SlotIInv
<1>3. CASE s # None /\ session[s].requested
  <2>1. EndWait(e, "resumed", [session EXCEPT ![s].requested = FALSE], timer)
    BY <1>3 DEF WaitForResume
  <2>2. [session EXCEPT ![s].requested = FALSE] \in [Session -> Object]
    BY <1>1, <1>3 DEF Object
  <2> QED
    BY <1>1, <2>1, <2>2, StepEndWait, TypeWait DEF SlotIInv
<1>4. CASE s # None /\ ~session[s].requested
  <2>1. pc' = [pc EXCEPT ![e] = "wait"] /\ "wait" \in Holding
    BY <1>4 DEF WaitForResume, Goto, Holding
  <2> QED
    BY <1>1, <2>1, KeepSlots, TypeWait DEF SlotIInv
<1> QED
  BY <1>2, <1>3, <1>4

LEMMA StepTimeOut ==
  ASSUME SlotIInv, NEW e \in Exec, TimeOut(e) PROVE SlotIInv'
<1>1. /\ TypeOK /\ pc[e] \in Holding /\ UNCHANGED <<active, queue>>
      /\ timer[e] \in Session
  BY DEF SlotIInv, TypeOK, TimeOut, Holding, slots
<1>2. /\ Cut(session, timer[e]) \in [Session -> Object]
      /\ [timer EXCEPT ![e] = None] \in [Exec -> Session \cup {None}]
  BY <1>1, NoneIsNoSession DEF TypeOK, Cut, Object
<1>3. EndWait(e, "timeout", Cut(session, timer[e]), [timer EXCEPT ![e] = None])
  BY DEF TimeOut
<1> QED
  BY <1>1, <1>2, <1>3, StepEndWait, TypeTimeOut DEF SlotIInv

LEMMA StepResume ==
  ASSUME SlotIInv, NEW r \in Run, ResumeLive(r) PROVE SlotIInv'
<1> DEFINE s == live[r]
           w == session[s].waiter
<1>1. /\ TypeOK /\ UNCHANGED <<active, queue>> /\ s \in Session
      /\ w \in Exec \cup {None}
  BY DEF SlotIInv, TypeOK, ResumeLive, slots, Object
<1>2. CASE w # None /\ pc[w] = "wait"
  <2>1. EndWait(w, "resumed", Remembered(s), [timer EXCEPT ![w] = None])
    BY <1>2 DEF ResumeLive
  <2>2. /\ Remembered(s) \in [Session -> Object]
        /\ [timer EXCEPT ![w] = None] \in [Exec -> Session \cup {None}]
    BY <1>1, ObjectFacts DEF TypeOK, Remembered
  <2>3. w \in Exec /\ pc[w] \in Holding
    BY <1>1, <1>2 DEF Holding
  <2> HIDE DEF s, w
  <2> QED
    BY <1>1, <2>1, <2>2, <2>3, StepEndWait, TypeResume DEF SlotIInv
<1>3. CASE ~(w # None /\ pc[w] = "wait")
  <2>1. pc' = pc
    BY <1>3 DEF ResumeLive
  <2> QED
    BY <1>1, <2>1, Keeping, TypeResume DEF SlotIInv
<1> QED
  BY <1>2, <1>3

-----------------------------------------------------------------------------
LEMMA InitIInv == Init => SlotIInv
<1> SUFFICES ASSUME Init PROVE SlotIInv
  OBVIOUS
<1>1. TypeOK
  BY ConstantsAssumption DEF Init, TypeOK, PC, Fresh, Object
<1>2. Holders = {}
  BY DEF Init, Holders, Holding
<1> QED
  BY <1>1, <1>2, FS_EmptySet, ConstantsAssumption DEF Init, SlotIInv, SlotInv

LEMMA StepIInv == SlotIInv /\ [Next]_vars => SlotIInv'
<1> SUFFICES ASSUME SlotIInv, [Next]_vars PROVE SlotIInv'
  OBVIOUS
<1>1. CASE UNCHANGED vars
  BY <1>1 DEF vars, SlotIInv, TypeOK, SlotInv, Holders
<1>2. ASSUME NEW e \in Exec,
             \/ Acquire(e) \/ RunOn(e) \/ Release(e)
             \/ WaitForResume(e) \/ TimeOut(e) \/ Delete(e)
      PROVE  SlotIInv'
  BY <1>2, StepAcquire, StepRegister, StepFinish, StepRelease, StepWait, StepTimeOut,
     StepDelete DEF RunOn
<1>3. ASSUME NEW r \in Run, ResumeLive(r) PROVE SlotIInv'
  BY <1>3, StepResume
<1> QED
  BY <1>1, <1>2, <1>3 DEF Next

\* The slots and the sessions keep their types, and the queue is as it should be.
THEOREM SlotInvariant == Spec => []SlotIInv
<1> QED
  BY InitIInv, StepIInv, PTL DEF Spec

\* Slots and sessions keep their types (Semaphore, __aemLive).
THEOREM HandoffTyping == Spec => []TypeOK
<1>1. SlotIInv => TypeOK
  BY DEF SlotIInv
<1> QED
  BY <1>1, SlotInvariant, PTL

\* The count of the semaphore is that of the executions between acquire and
\* release, and none of them waits beside a free slot (Semaphore.release).
THEOREM SlotsCounted == Spec => []SlotsExact
<1>1. SlotIInv => SlotsExact
  <2> SUFFICES ASSUME SlotIInv PROVE SlotsExact
    OBVIOUS
  <2>1. ASSUME NEW e \in Exec, pc[e] = "queued" PROVE active = Max
    BY <2>1 DEF SlotIInv, TypeOK, SlotInv
  <2> QED
    BY <2>1 DEF SlotIInv, SlotInv, SlotsExact
<1> QED
  BY <1>1, SlotInvariant, PTL

-----------------------------------------------------------------------------
(* A resume that comes before the wait.                                    *)

Own(e) == <<e, pauses[e]>>
Pausing == {"setup", "wait", "delete"}
Untangled(e) == RunOf[e] \notin tangled

\* The session in the map is of its run; one of a run that is not tangled is that of
\* the one execution that pauses, and its resolver and timer are that execution's.
MapInv ==
    /\ \A r \in Run : live[r] # None =>
          /\ RunOf[live[r][1]] = r
          /\ r \notin tangled => pc[live[r][1]] \in Pausing
    /\ \A e \in Exec : Untangled(e) =>
          /\ pc[e] \in Pausing => live[RunOf[e]] = Own(e)
          /\ outcome[e] = "none" <=> pc[e] # "delete"
          /\ pc[e] = "wait" => session[Own(e)].waiter = e
    /\ \A s \in Session : session[s].waiter # None =>
          RunOf[session[s].waiter] = RunOf[s[1]]
    /\ \A e \in Exec : timer[e] # None =>
          /\ RunOf[timer[e][1]] = RunOf[e]
          /\ Untangled(e) => timer[e][1] = e

\* What was promised is remembered until the wait begins.
PromiseInv ==
    \A e \in promised : Untangled(e) =>
        pc[e] = "setup" /\ session[Own(e)].requested

PauseInv == SlotIInv /\ MapInv /\ PromiseInv

LEMMA PauseTypes ==
  ASSUME SlotIInv
  PROVE  /\ pc \in [Exec -> PC] /\ pauses \in [Exec -> 0..MaxPauses]
         /\ live \in [Run -> Session \cup {None}] /\ session \in [Session -> Object]
         /\ timer \in [Exec -> Session \cup {None}]
         /\ outcome \in [Exec -> {"none", "resumed", "timeout"}]
         /\ promised \subseteq Exec /\ tangled \subseteq Run
         /\ \A e \in Exec : RunOf[e] \in Run
         /\ \A s \in Session : s[1] \in Exec /\ s # None
         /\ None \notin Exec /\ MaxPauses \in Nat
         /\ \A e \in Exec : Own(e) # None /\ Own(e)[1] = e
<1>1. \A e \in Exec : Own(e) # None
  BY ConstantsAssumption DEF SlotIInv, TypeOK, Own
<1> QED
  BY <1>1, ConstantsAssumption, NoneIsNoSession DEF SlotIInv, TypeOK, Session, Own

\* An execution that pauses in a run that is not tangled has its session in the map.
LEMMA OwnLive ==
  ASSUME PauseInv, NEW e \in Exec, Untangled(e), pc[e] \in Pausing
  PROVE  /\ live[RunOf[e]] = Own(e) /\ Own(e) \in Session
         /\ \A f \in Exec \ {e} : RunOf[f] = RunOf[e] => pc[f] \notin Pausing
<1>1. live[RunOf[e]] = Own(e) /\ live[RunOf[e]] \in Session
  BY PauseTypes DEF PauseInv, MapInv
<1>2. ASSUME NEW f \in Exec \ {e}, RunOf[f] = RunOf[e], pc[f] \in Pausing PROVE FALSE
  <2>1. live[RunOf[f]] = Own(f)
    BY <1>2 DEF PauseInv, MapInv, Untangled
  <2> QED
    BY <1>1, <1>2, <2>1 DEF Own
<1> QED
  BY <1>1, <1>2

\* A step outside the pauses.
LEMMA OutsidePauses ==
  ASSUME PauseInv, SlotIInv', UNCHANGED <<pauses, live, session, timer, outcome, promised, tangled>>,
         \A e \in Exec : pc'[e] = pc[e] \/ (pc[e] \notin Pausing /\ pc'[e] \notin Pausing)
  PROVE  PauseInv'
<1>a. \A e \in Exec : Own(e)' = Own(e) /\ (Untangled(e)' <=> Untangled(e))
  BY DEF Own, Untangled
<1>b. \A e \in Exec : /\ pc'[e] \in Pausing <=> pc[e] \in Pausing
                      /\ pc'[e] = "delete" <=> pc[e] = "delete"
                      /\ pc'[e] = "wait" <=> pc[e] = "wait"
                      /\ pc'[e] = "setup" <=> pc[e] = "setup"
  BY DEF Pausing
<1>2. MapInv'
  <2>1. ASSUME NEW r \in Run, live[r] # None
        PROVE  /\ RunOf[live[r][1]] = r
               /\ r \notin tangled => pc'[live[r][1]] \in Pausing
    <3>1. live[r][1] \in Exec
      BY <2>1, PauseTypes DEF PauseInv
    <3> QED
      BY <1>b, <2>1, <3>1 DEF PauseInv, MapInv
  <2>2. ASSUME NEW e \in Exec, Untangled(e)'
        PROVE  /\ pc'[e] \in Pausing => live[RunOf[e]] = Own(e)'
               /\ outcome[e] = "none" <=> pc'[e] # "delete"
               /\ pc'[e] = "wait" => session[Own(e)'].waiter = e
    BY <1>a, <1>b, <2>2 DEF PauseInv, MapInv
  <2>3. \A e \in Exec : timer[e] # None =>
          /\ RunOf[timer[e][1]] = RunOf[e]
          /\ Untangled(e)' => timer[e][1] = e
    BY <1>a DEF PauseInv, MapInv
  <2>4. \A x \in Session : session[x].waiter # None =>
          RunOf[session[x].waiter] = RunOf[x[1]]
    BY DEF PauseInv, MapInv
  <2> QED
    BY <2>1, <2>2, <2>3, <2>4 DEF MapInv
<1>3. PromiseInv'
  <2> SUFFICES ASSUME NEW f \in promised, Untangled(f)'
               PROVE  pc'[f] = "setup" /\ session[Own(f)'].requested
    BY DEF PromiseInv
  <2>1. f \in Exec
    BY PauseTypes DEF PauseInv
  <2> QED
    BY <1>a, <1>b, <2>1 DEF PauseInv, PromiseInv
<1> QED
  BY <1>2, <1>3 DEF PauseInv

LEMMA PauseRegister ==
  ASSUME PauseInv, SlotIInv', NEW e \in Exec, RegisterLive(e)
  PROVE  PauseInv'
<1> DEFINE r == RunOf[e]
           s == <<e, pauses[e] + 1>>
<1>1. /\ pc[e] = "run" /\ pauses[e] < MaxPauses
      /\ pauses' = [pauses EXCEPT ![e] = @ + 1] /\ live' = [live EXCEPT ![r] = s]
      /\ session' = [session EXCEPT ![s] = Fresh]
      /\ tangled' = IF live[r] = None THEN tangled ELSE tangled \cup {r}
      /\ pc' = [pc EXCEPT ![e] = "setup"] /\ UNCHANGED <<timer, outcome, promised>>
  BY DEF RegisterLive, Goto
<1>2. /\ pc \in [Exec -> PC] /\ pauses \in [Exec -> 0..MaxPauses]
      /\ live \in [Run -> Session \cup {None}] /\ session \in [Session -> Object]
      /\ promised \subseteq Exec /\ r \in Run /\ None \notin Exec
      /\ \A x \in Session : x[1] \in Exec
      /\ \A f \in Exec : RunOf[f] \in Run
      /\ timer \in [Exec -> Session \cup {None}]
  BY PauseTypes DEF PauseInv
<1>3. s \in Session /\ s[1] = e
  <2>1. pauses[e] \in 0..MaxPauses /\ MaxPauses \in Nat
    BY <1>2, ConstantsAssumption
  <2>2. pauses[e] + 1 \in 1..MaxPauses
    BY <1>1, <2>1
  <2> QED
    BY <2>2 DEF Session
<1>4. /\ Own(e)' = s /\ \A f \in Exec \ {e} : Own(f)' = Own(f)
      /\ live'[r] = s /\ \A q \in Run \ {r} : live'[q] = live[q]
      /\ pc'[e] = "setup" /\ \A f \in Exec \ {e} : pc'[f] = pc[f]
      /\ session'[s] = Fresh /\ \A x \in Session \ {s} : session'[x] = session[x]
  BY <1>1, <1>2, <1>3 DEF Own
<1> HIDE DEF s, r
<1>5. \A f \in Exec : Untangled(f)' => Untangled(f)
  BY <1>1 DEF Untangled
<1>6. ASSUME NEW f \in Exec \ {e}, RunOf[f] = r, Untangled(f)' PROVE pc[f] \notin Pausing
  <2>1. live[r] = None
    BY <1>1, <1>6 DEF Untangled
  <2> QED
    BY <1>5, <1>6, <2>1, PauseTypes DEF PauseInv, MapInv
<1>7. ASSUME NEW q \in Run, live'[q] # None
      PROVE  /\ RunOf[live'[q][1]] = q
             /\ q \notin tangled' => pc'[live'[q][1]] \in Pausing
  <2>1. CASE q = r
    BY <1>3, <1>4, <2>1 DEF Pausing, r
  <2>2. CASE q # r
    <3>1. /\ RunOf[live[q][1]] = q /\ (q \notin tangled => pc[live[q][1]] \in Pausing)
          /\ live[q][1] \in Exec /\ live'[q] = live[q]
      BY <1>2, <1>4, <1>7, <2>2 DEF PauseInv, MapInv
    <3>2. live[q][1] # e
      BY <2>2, <3>1 DEF r
    <3> QED
      BY <1>1, <1>4, <3>1, <3>2
  <2> QED
    BY <2>1, <2>2
<1>8. ASSUME NEW f \in Exec, Untangled(f)'
      PROVE  /\ pc'[f] \in Pausing => live'[RunOf[f]] = Own(f)'
             /\ outcome'[f] = "none" <=> pc'[f] # "delete"
             /\ pc'[f] = "wait" => session'[Own(f)'].waiter = f
  <2>1. CASE f = e
    BY <1>1, <1>4, <1>5, <1>8, <2>1 DEF PauseInv, MapInv, r
  <2>2. CASE f # e
    <3>1. /\ pc[f] \in Pausing => live[RunOf[f]] = Own(f)
          /\ outcome[f] = "none" <=> pc[f] # "delete"
          /\ pc[f] = "wait" => session[Own(f)].waiter = f
      BY <1>5, <1>8 DEF PauseInv, MapInv
    <3>2. Own(f) # s
      BY <1>3, <2>2, PauseTypes DEF PauseInv
    <3>3. pc[f] \in Pausing => RunOf[f] # r
      BY <1>6, <1>8, <2>2
    <3>4. pc[f] = "wait" => Own(f) \in Session
      BY <1>5, <1>8, OwnLive DEF Pausing
    <3> QED
      BY <1>1, <1>2, <1>4, <2>2, <3>1, <3>2, <3>3, <3>4
  <2> QED
    BY <2>1, <2>2
<1>9. ASSUME NEW x \in Session, session'[x].waiter # None
      PROVE  RunOf[session'[x].waiter] = RunOf[x[1]]
  BY <1>4, <1>9 DEF Fresh, PauseInv, MapInv
<1>10. \A f \in Exec : timer'[f] # None =>
           /\ RunOf[timer'[f][1]] = RunOf[f]
           /\ Untangled(f)' => timer'[f][1] = f
  BY <1>1, <1>5 DEF PauseInv, MapInv
<1>11. MapInv'
  BY <1>7, <1>8, <1>9, <1>10 DEF MapInv
<1>12. PromiseInv'
  <2> SUFFICES ASSUME NEW f \in promised, Untangled(f)'
               PROVE  pc'[f] = "setup" /\ session'[Own(f)'].requested
    BY <1>1 DEF PromiseInv
  <2>1. /\ f \in Exec /\ pc[f] = "setup" /\ session[Own(f)].requested /\ Untangled(f)
    BY <1>2, <1>5 DEF PauseInv, PromiseInv
  <2>2. f # e
    BY <1>1, <2>1
  <2>3. Own(f) \in Session /\ Own(f) # s
    BY <1>3, <2>1, <2>2, OwnLive, PauseTypes DEF Pausing, PauseInv
  <2> QED
    BY <1>4, <2>1, <2>2, <2>3
<1> QED
  BY <1>11, <1>12 DEF PauseInv

\* The end of a wait, which first changes the sessions to ses and the timers to tms.
LEMMA PauseEndsWait ==
  ASSUME PauseInv, SlotIInv', NEW e \in Exec, pc[e] \in {"setup", "wait"},
         NEW how \in {"resumed", "timeout"},
         NEW ses \in [Session -> Object], NEW tms \in [Exec -> Session \cup {None}],
         EndWait(e, how, ses, tms), UNCHANGED <<pauses, live, tangled>>,
         \A x \in Session : ses[x].waiter \in {None, session[x].waiter},
         \A f \in Exec \ {e} : Untangled(f) /\ Own(f) \in Session =>
             /\ session[Own(f)].requested => ses[Own(f)].requested
             /\ ses[Own(f)].waiter = session[Own(f)].waiter,
         \A f \in Exec : tms[f] \in {None, timer[f]}
  PROVE  PauseInv'
<1> DEFINE s == live[RunOf[e]]
           to == AfterPause(s, how)
<1>1. /\ outcome' = [outcome EXCEPT ![e] = how] /\ promised' = promised \ {e}
      /\ session' = Cut(ses, s) /\ timer' = Cleared(ses, tms, s)
      /\ pc' = [pc EXCEPT ![e] = to]
  BY DEF EndWait, Goto
<1>2. /\ pc \in [Exec -> PC] /\ outcome \in [Exec -> {"none", "resumed", "timeout"}]
      /\ live \in [Run -> Session \cup {None}]
      /\ \A x \in Session : x[1] \in Exec
      /\ \A f \in Exec : RunOf[f] \in Run /\ Own(f) # None
      /\ s \in Session \cup {None}
  BY PauseTypes DEF PauseInv
<1>3. /\ pc'[e] = to /\ outcome'[e] = how
      /\ \A f \in Exec \ {e} : pc'[f] = pc[f] /\ outcome'[f] = outcome[f]
  BY <1>1, <1>2
<1>4. \A x \in Session : session'[x].requested = ses[x].requested
  BY <1>1, <1>2 DEF Cut, Object
<1>4a. \A x \in Session : session'[x].waiter \in {None, ses[x].waiter}
  BY <1>1, <1>2 DEF Cut, Object
<1>4b. \A x \in Session : x # s => session'[x] = ses[x]
  BY <1>1, <1>2 DEF Cut, Object
<1>5. \A f \in Exec : timer'[f] \in {None, tms[f]}
  BY <1>1 DEF Cleared
<1>6. \A f \in Exec : Own(f)' = Own(f) /\ (Untangled(f)' <=> Untangled(f))
  BY DEF Own, Untangled
<1>7. /\ Untangled(e) => s = Own(e) /\ to = "delete"
      /\ to \in {"delete", "run", "release"}
  <2>1. Untangled(e) => s = Own(e)
    BY DEF PauseInv, MapInv, Pausing
  <2> QED
    BY <1>2, <2>1 DEF AfterPause
<1> HIDE DEF to
<1>8. ASSUME NEW q \in Run, live[q] # None
      PROVE  /\ RunOf[live[q][1]] = q
             /\ q \notin tangled => pc'[live[q][1]] \in Pausing
  <2>1. /\ RunOf[live[q][1]] = q /\ (q \notin tangled => pc[live[q][1]] \in Pausing)
        /\ live[q][1] \in Exec
    BY <1>2, <1>8 DEF PauseInv, MapInv
  <2>2. CASE live[q][1] = e
    BY <1>3, <1>7, <2>1, <2>2 DEF Untangled, Pausing
  <2>3. CASE live[q][1] # e
    BY <1>3, <2>1, <2>3
  <2> QED
    BY <2>1, <2>2, <2>3
<1>9. ASSUME NEW f \in Exec \ {e}, Untangled(f), pc[f] \in Pausing
      PROVE  Own(f) \in Session /\ session'[Own(f)] = ses[Own(f)]
  <2>1. Own(f) \in Session /\ Own(f)[1] = f
    BY <1>9, OwnLive, PauseTypes DEF PauseInv
  <2>2. Own(f) # s
    <3> SUFFICES ASSUME Own(f) = s PROVE FALSE
      OBVIOUS
    <3>1. RunOf[f] = RunOf[e]
      BY <1>2, <2>1 DEF PauseInv, MapInv
    <3> QED
      BY <1>9, <3>1, OwnLive DEF Pausing
  <2> QED
    BY <1>4b, <2>1, <2>2
<1>10. ASSUME NEW f \in Exec, Untangled(f)
       PROVE  /\ pc'[f] \in Pausing => live[RunOf[f]] = Own(f)
              /\ outcome'[f] = "none" <=> pc'[f] # "delete"
              /\ pc'[f] = "wait" => session'[Own(f)].waiter = f
  <2>1. CASE f = e
    BY <1>3, <1>7, <1>10, <2>1
  <2>2. CASE f # e
    <3>1. /\ pc[f] \in Pausing => live[RunOf[f]] = Own(f)
          /\ outcome[f] = "none" <=> pc[f] # "delete"
          /\ pc[f] = "wait" => session[Own(f)].waiter = f
      BY <1>10 DEF PauseInv, MapInv
    <3>2. ASSUME pc[f] = "wait" PROVE session'[Own(f)].waiter = f
      <4>1. Own(f) \in Session /\ session'[Own(f)] = ses[Own(f)]
        BY <1>9, <1>10, <2>2, <3>2 DEF Pausing
      <4> QED
        BY <1>10, <2>2, <3>1, <3>2, <4>1
    <3> QED
      BY <1>3, <2>2, <3>1, <3>2
  <2> QED
    BY <2>1, <2>2
<1>11. MapInv'
  <2>1. \A x \in Session : session'[x].waiter # None =>
            RunOf[session'[x].waiter] = RunOf[x[1]]
    <3> SUFFICES ASSUME NEW x \in Session, session'[x].waiter # None
                 PROVE  RunOf[session'[x].waiter] = RunOf[x[1]]
      OBVIOUS
    <3>1. session'[x].waiter = session[x].waiter
      BY <1>4a
    <3> QED
      BY <3>1 DEF PauseInv, MapInv
  <2>2. \A f \in Exec : timer'[f] # None => timer'[f] = timer[f]
    BY <1>5
  <2>3. \A f \in Exec : timer'[f] # None =>
            /\ RunOf[timer'[f][1]] = RunOf[f]
            /\ Untangled(f) => timer'[f][1] = f
    BY <2>2 DEF PauseInv, MapInv
  <2> QED
    BY <1>6, <1>8, <1>10, <2>1, <2>3 DEF MapInv
<1>12. PromiseInv'
  <2> SUFFICES ASSUME NEW f \in promised \ {e}, Untangled(f)
               PROVE  pc'[f] = "setup" /\ session'[Own(f)].requested
    BY <1>1 DEF PromiseInv, Own, Untangled
  <2>1. f \in Exec /\ pc[f] = "setup" /\ session[Own(f)].requested
    BY PauseTypes DEF PauseInv, PromiseInv
  <2>2. Own(f) \in Session
    BY <1>9, <2>1 DEF Pausing
  <2>3. ses[Own(f)].requested
    BY <2>1, <2>2
  <2>4. session'[Own(f)].requested
    BY <1>4, <2>2, <2>3
  <2> QED
    BY <1>3, <2>1, <2>4
<1> QED
  BY <1>11, <1>12 DEF PauseInv

LEMMA PauseWait ==
  ASSUME PauseInv, SlotIInv', NEW e \in Exec, WaitForResume(e)
  PROVE  PauseInv'
<1> DEFINE s == live[RunOf[e]]
<1>1. /\ pc[e] = "setup" /\ UNCHANGED <<pauses, live, tangled>>
      /\ s \in Session \cup {None} /\ session \in [Session -> Object]
      /\ timer \in [Exec -> Session \cup {None}] /\ pc \in [Exec -> PC]
      /\ \A x \in Session : x[1] \in Exec
  BY PauseTypes DEF PauseInv, WaitForResume, slots
<1>2. CASE s = None
  <2>1. EndWait(e, "timeout", session, timer)
    BY <1>2 DEF WaitForResume
  <2> QED
    BY <1>1, <2>1, PauseEndsWait
<1>3. CASE s # None /\ session[s].requested
  <2> DEFINE ses == [session EXCEPT ![s].requested = FALSE]
  <2>1. EndWait(e, "resumed", ses, timer)
    BY <1>3 DEF WaitForResume
  <2>2. ses \in [Session -> Object]
    BY <1>1, <1>3, ObjectFacts
  <2>3. /\ \A x \in Session : ses[x].waiter = session[x].waiter
        /\ \A x \in Session \ {s} : ses[x] = session[x]
    BY <1>1, <1>3 DEF Object
  <2>4. ASSUME NEW f \in Exec \ {e}, Untangled(f), Own(f) \in Session PROVE Own(f) # s
    <3> SUFFICES ASSUME Own(f) = s PROVE FALSE
      OBVIOUS
    <3>1. RunOf[f] = RunOf[e]
      BY <1>3, PauseTypes DEF PauseInv, MapInv
    <3>2. s = Own(e)
      BY <1>1, <2>4, <3>1 DEF PauseInv, MapInv, Untangled, Pausing
    <3> QED
      BY <2>4, <3>2 DEF Own
  <2> HIDE DEF ses, s
  <2> QED
    BY <1>1, <2>1, <2>2, <2>3, <2>4, PauseEndsWait
<1>4. CASE s # None /\ ~session[s].requested
  <2>1. /\ session' = [session EXCEPT ![s].waiter = e]
        /\ timer' = [timer EXCEPT ![e] = s] /\ pc' = [pc EXCEPT ![e] = "wait"]
        /\ UNCHANGED <<outcome, promised>>
    BY <1>4 DEF WaitForResume, Goto, TimerOf
  <2>2. s \in Session /\ RunOf[s[1]] = RunOf[e] /\ (Untangled(e) => s = Own(e))
    BY <1>1, <1>4, PauseTypes DEF PauseInv, MapInv, Pausing
  <2> HIDE DEF s
  <2>3. /\ session'[s].waiter = e /\ \A x \in Session \ {s} : session'[x] = session[x]
        /\ \A x \in Session : session'[x].requested = session[x].requested
        /\ pc'[e] = "wait" /\ \A f \in Exec \ {e} : pc'[f] = pc[f]
        /\ timer'[e] = s /\ \A f \in Exec \ {e} : timer'[f] = timer[f]
    BY <1>1, <2>1, <2>2 DEF Object
  <2>4. \A f \in Exec : Own(f)' = Own(f) /\ (Untangled(f)' <=> Untangled(f))
    BY <1>1 DEF Own, Untangled
  <2>5. ASSUME NEW q \in Run, live[q] # None
        PROVE  /\ RunOf[live[q][1]] = q
               /\ q \notin tangled => pc'[live[q][1]] \in Pausing
    <3>1. /\ RunOf[live[q][1]] = q /\ (q \notin tangled => pc[live[q][1]] \in Pausing)
          /\ live[q][1] \in Exec
      BY <2>5, PauseTypes DEF PauseInv, MapInv
    <3> QED
      BY <2>3, <3>1 DEF Pausing
  <2>6. ASSUME NEW f \in Exec, Untangled(f)
        PROVE  /\ pc'[f] \in Pausing => live[RunOf[f]] = Own(f)
               /\ outcome[f] = "none" <=> pc'[f] # "delete"
               /\ pc'[f] = "wait" => session'[Own(f)].waiter = f
    <3>1. /\ pc[f] \in Pausing => live[RunOf[f]] = Own(f)
          /\ outcome[f] = "none" <=> pc[f] # "delete"
          /\ pc[f] = "wait" => session[Own(f)].waiter = f
      BY <2>6 DEF PauseInv, MapInv
    <3>2. CASE f = e
      BY <1>1, <2>2, <2>3, <2>6, <3>1, <3>2 DEF Pausing
    <3>3. CASE f # e
      <4>1. ASSUME pc[f] = "wait" PROVE Own(f) # s /\ Own(f) \in Session
        <5>1. Own(f) \in Session /\ live[RunOf[f]] = Own(f) /\ Own(f)[1] = f
          BY <2>6, <4>1, OwnLive, PauseTypes DEF Pausing, PauseInv
        <5>2. RunOf[f] # RunOf[e]
          BY <1>1, <2>6, <3>3, <4>1, OwnLive DEF Pausing
        <5> QED
          BY <2>2, <5>1, <5>2
      <4> QED
        BY <2>3, <3>1, <3>3, <4>1
    <3> QED
      BY <3>2, <3>3
  <2>7. \A x \in Session : session'[x].waiter # None =>
            RunOf[session'[x].waiter] = RunOf[x[1]]
    BY <2>2, <2>3 DEF PauseInv, MapInv
  <2>8. \A f \in Exec : timer'[f] # None =>
            /\ RunOf[timer'[f][1]] = RunOf[f]
            /\ Untangled(f) => timer'[f][1] = f
    BY <2>2, <2>3, PauseTypes DEF PauseInv, MapInv
  <2>9. MapInv'
    BY <1>1, <2>1, <2>4, <2>5, <2>6, <2>7, <2>8 DEF MapInv
  <2>10. PromiseInv'
    <3> SUFFICES ASSUME NEW f \in promised, Untangled(f)
                 PROVE  pc'[f] = "setup" /\ session'[Own(f)].requested
      BY <1>1, <2>1 DEF PromiseInv, Own, Untangled
    <3>1. f \in Exec /\ pc[f] = "setup" /\ session[Own(f)].requested
      BY PauseTypes DEF PauseInv, PromiseInv
    <3>2. Own(f) \in Session
      BY <3>1, OwnLive DEF Pausing
    <3>3. f # e
      BY <1>4, <2>2, <3>1
    <3> QED
      BY <2>3, <3>1, <3>2, <3>3
  <2> QED
    BY <2>9, <2>10 DEF PauseInv
<1> QED
  BY <1>2, <1>3, <1>4

LEMMA PauseTimeOut ==
  ASSUME PauseInv, SlotIInv', NEW e \in Exec, TimeOut(e)
  PROVE  PauseInv'
<1> DEFINE s == timer[e]
           ses == Cut(session, s)
           tms == [timer EXCEPT ![e] = None]
<1>1. /\ pc[e] = "wait" /\ s # None /\ UNCHANGED <<pauses, live, tangled>>
      /\ EndWait(e, "timeout", ses, tms)
  BY DEF TimeOut
<1>2. /\ session \in [Session -> Object] /\ timer \in [Exec -> Session \cup {None}]
      /\ s \in Session
  BY <1>1, PauseTypes DEF PauseInv
<1>3. ses = [session EXCEPT ![s].waiter = None]
  BY <1>1 DEF Cut
<1>4. ses \in [Session -> Object] /\ tms \in [Exec -> Session \cup {None}]
  <2>1. [session EXCEPT ![s].waiter = None] \in [Session -> Object]
    BY <1>2, ObjectFacts
  <2>2. tms \in [Exec -> Session \cup {None}]
    BY <1>2
  <2> QED
    BY <1>3, <2>1, <2>2
<1>5. /\ \A x \in Session : ses[x].waiter \in {None, session[x].waiter}
      /\ \A x \in Session \ {s} : ses[x] = session[x]
  BY <1>2, <1>3 DEF Object
<1>6. \A f \in Exec : tms[f] \in {None, timer[f]}
  BY <1>2
<1>7. ASSUME NEW f \in Exec \ {e}, Untangled(f), Own(f) \in Session PROVE Own(f) # s
  <2> SUFFICES ASSUME Own(f) = s PROVE FALSE
    OBVIOUS
  <2>1. s[1] = f
    BY PauseTypes DEF PauseInv
  <2>2. RunOf[f] = RunOf[e]
    BY <1>1, <2>1 DEF PauseInv, MapInv
  <2>3. s[1] = e
    BY <1>1, <1>7, <2>2 DEF PauseInv, MapInv, Untangled
  <2> QED
    BY <1>7, <2>1, <2>3
<1> HIDE DEF ses, tms, s
<1>8. \A f \in Exec \ {e} : Untangled(f) /\ Own(f) \in Session =>
          /\ session[Own(f)].requested => ses[Own(f)].requested
          /\ ses[Own(f)].waiter = session[Own(f)].waiter
  BY <1>5, <1>7
<1> QED
  BY <1>1, <1>4, <1>5, <1>6, <1>8, PauseEndsWait

LEMMA PauseResume ==
  ASSUME PauseInv, SlotIInv', NEW r \in Run, ResumeLive(r)
  PROVE  PauseInv'
<1> DEFINE s == live[r]
           w == session[s].waiter
           ses == Remembered(s)
<1>1. s # None /\ UNCHANGED <<pauses, live, tangled>>
  BY DEF ResumeLive
<1>2. /\ session \in [Session -> Object] /\ timer \in [Exec -> Session \cup {None}]
      /\ s \in Session /\ s[1] \in Exec /\ RunOf[s[1]] = r
  BY <1>1, PauseTypes DEF PauseInv, MapInv
<1>3. ses = [session EXCEPT ![s].requested = TRUE]
  BY DEF Remembered
<1>4. ses \in [Session -> Object]
  <2>1. [session EXCEPT ![s].requested = TRUE] \in [Session -> Object]
    BY <1>2, ObjectFacts
  <2> QED
    BY <1>3, <2>1
<1>5. \A x \in Session : ses[x].waiter = session[x].waiter
  BY <1>2, <1>3 DEF Object
<1>5b. \A x \in Session : session[x].requested => ses[x].requested
  BY <1>2, <1>3 DEF Object
<1>5a. ses[s].requested
  BY <1>2, <1>3 DEF Object
<1> HIDE DEF ses
<1>6. CASE w # None /\ pc[w] = "wait"
  <2> DEFINE tms == [timer EXCEPT ![w] = None]
  <2>1. EndWait(w, "resumed", ses, tms)
    BY <1>6 DEF ResumeLive, ses
  <2>2. w \in Exec
    BY <1>2, <1>6 DEF Object
  <2>3. tms \in [Exec -> Session \cup {None}] /\ \A f \in Exec : tms[f] \in {None, timer[f]}
    BY <1>2
  <2>4. \A f \in Exec \ {w} : Untangled(f) /\ Own(f) \in Session =>
          /\ session[Own(f)].requested => ses[Own(f)].requested
          /\ ses[Own(f)].waiter = session[Own(f)].waiter
    BY <1>5, <1>5b
  <2>5. \A x \in Session : ses[x].waiter \in {None, session[x].waiter}
    BY <1>5
  <2> HIDE DEF tms, w, ses
  <2> QED
    BY <1>1, <1>4, <1>6, <2>1, <2>2, <2>3, <2>4, <2>5, PauseEndsWait
<1>7. CASE ~(w # None /\ pc[w] = "wait")
  <2>1. /\ session' = ses /\ UNCHANGED <<pc, timer, outcome>>
        /\ promised' = IF outcome[s[1]] = "none" THEN promised \cup {s[1]} ELSE promised
    BY <1>7 DEF ResumeLive, ses
  <2>2. MapInv'
    <3>1. ASSUME NEW f \in Exec, Untangled(f), pc[f] = "wait"
          PROVE  session'[Own(f)].waiter = f
      <4>1. Own(f) \in Session
        BY <3>1, OwnLive DEF Pausing
      <4> QED
        BY <1>5, <2>1, <3>1, <4>1 DEF PauseInv, MapInv
    <3>2. \A f \in Exec : Own(f)' = Own(f) /\ (Untangled(f)' <=> Untangled(f))
      BY <1>1 DEF Own, Untangled
    <3>3. \A q \in Run : live'[q] # None =>
             /\ RunOf[live'[q][1]] = q
             /\ q \notin tangled' => pc'[live'[q][1]] \in Pausing
      BY <1>1, <2>1 DEF PauseInv, MapInv
    <3>4. \A f \in Exec : Untangled(f) =>
             /\ pc'[f] \in Pausing => live'[RunOf[f]] = Own(f)
             /\ outcome'[f] = "none" <=> pc'[f] # "delete"
             /\ pc'[f] = "wait" => session'[Own(f)].waiter = f
      BY <1>1, <2>1, <3>1 DEF PauseInv, MapInv
    <3>5. \A x \in Session : session'[x].waiter # None =>
             RunOf[session'[x].waiter] = RunOf[x[1]]
      BY <1>5, <2>1 DEF PauseInv, MapInv
    <3>6. \A f \in Exec : timer'[f] # None =>
             /\ RunOf[timer'[f][1]] = RunOf[f]
             /\ Untangled(f) => timer'[f][1] = f
      BY <2>1 DEF PauseInv, MapInv
    <3> QED
      BY <3>2, <3>3, <3>4, <3>5, <3>6 DEF MapInv
  <2>3. PromiseInv'
    <3> SUFFICES ASSUME NEW f \in promised', Untangled(f)
                 PROVE  pc[f] = "setup" /\ session'[Own(f)].requested
      BY <1>1, <2>1 DEF PromiseInv, Own, Untangled
    <3>1. CASE f \in promised
      <4>1. f \in Exec /\ pc[f] = "setup" /\ session[Own(f)].requested
        BY <3>1, PauseTypes DEF PauseInv, PromiseInv
      <4>2. Own(f) \in Session
        BY <4>1, OwnLive DEF Pausing
      <4> QED
        BY <1>5b, <2>1, <4>1, <4>2
    <3>2. CASE f \notin promised
      <4>1. f = s[1] /\ outcome[f] = "none" /\ f \in Exec
        BY <1>2, <2>1, <3>2
      <4>2. pc[f] \in Pausing
        BY <1>1, <1>2, <4>1 DEF PauseInv, MapInv, Untangled
      <4>3. Own(f) = s
        BY <1>2, <4>1, <4>2, OwnLive
      <4>4. pc[f] # "delete"
        BY <4>1 DEF PauseInv, MapInv
      <4>5. pc[f] # "wait"
        <5>1. pc[f] = "wait" => w = f
          BY <4>1, <4>3 DEF PauseInv, MapInv
        <5>2. f # None
          BY <4>1, PauseTypes DEF PauseInv
        <5> QED
          BY <1>7, <5>1, <5>2
      <4> QED
        BY <1>5a, <2>1, <4>2, <4>3, <4>4, <4>5 DEF Pausing
    <3> QED
      BY <3>1, <3>2
  <2> QED
    BY <2>2, <2>3 DEF PauseInv
<1> QED
  BY <1>6, <1>7

LEMMA PauseDelete ==
  ASSUME PauseInv, SlotIInv', NEW e \in Exec, Delete(e)
  PROVE  PauseInv'
<1> DEFINE r == RunOf[e]
           to == AfterPause(None, outcome[e])
<1>1. /\ pc[e] = "delete" /\ live' = [live EXCEPT ![r] = None]
      /\ outcome' = [outcome EXCEPT ![e] = "none"] /\ pc' = [pc EXCEPT ![e] = to]
      /\ UNCHANGED <<pauses, session, timer, promised, tangled>>
  BY DEF Delete, Goto
<1>2. /\ pc \in [Exec -> PC] /\ outcome \in [Exec -> {"none", "resumed", "timeout"}]
      /\ live \in [Run -> Session \cup {None}] /\ r \in Run
      /\ \A f \in Exec : RunOf[f] \in Run
      /\ \A x \in Session : x[1] \in Exec
  BY PauseTypes DEF PauseInv
<1>3. to \in {"run", "release"}
  BY DEF AfterPause
<1> HIDE DEF to, r
<1>4. /\ pc'[e] = to /\ \A f \in Exec \ {e} : pc'[f] = pc[f]
      /\ outcome'[e] = "none" /\ \A f \in Exec \ {e} : outcome'[f] = outcome[f]
      /\ live'[r] = None /\ \A q \in Run \ {r} : live'[q] = live[q]
  BY <1>1, <1>2
<1>5. \A f \in Exec : Own(f)' = Own(f) /\ (Untangled(f)' <=> Untangled(f))
  BY <1>1 DEF Own, Untangled
<1>6. ASSUME NEW q \in Run, live'[q] # None
      PROVE  /\ RunOf[live'[q][1]] = q
             /\ q \notin tangled' => pc'[live'[q][1]] \in Pausing
  <2>1. q # r /\ live'[q] = live[q]
    BY <1>4, <1>6
  <2>2. /\ RunOf[live[q][1]] = q /\ (q \notin tangled => pc[live[q][1]] \in Pausing)
        /\ live[q][1] \in Exec
    BY <1>2, <1>6, <2>1 DEF PauseInv, MapInv
  <2>3. live[q][1] # e
    BY <2>1, <2>2 DEF r
  <2> QED
    BY <1>1, <1>4, <2>1, <2>2, <2>3
<1>7. ASSUME NEW f \in Exec, Untangled(f)
      PROVE  /\ pc'[f] \in Pausing => live'[RunOf[f]] = Own(f)
             /\ outcome'[f] = "none" <=> pc'[f] # "delete"
             /\ pc'[f] = "wait" => session[Own(f)].waiter = f
  <2>1. CASE f = e
    BY <1>3, <1>4, <2>1 DEF Pausing
  <2>2. CASE f # e
    <3>1. /\ pc[f] \in Pausing => live[RunOf[f]] = Own(f)
          /\ outcome[f] = "none" <=> pc[f] # "delete"
          /\ pc[f] = "wait" => session[Own(f)].waiter = f
      BY <1>7 DEF PauseInv, MapInv
    <3>2. pc[f] \in Pausing => RunOf[f] # r
      <4> SUFFICES ASSUME pc[f] \in Pausing, RunOf[f] = r PROVE FALSE
        OBVIOUS
      <4>1. Untangled(e)
        BY <1>7 DEF Untangled, r
      <4> QED
        BY <1>1, <2>2, <4>1, OwnLive DEF Pausing, r
    <3> QED
      BY <1>2, <1>4, <2>2, <3>1, <3>2
  <2> QED
    BY <2>1, <2>2
<1>8. MapInv'
  <2>1. \A x \in Session : session[x].waiter # None =>
          RunOf[session[x].waiter] = RunOf[x[1]]
    BY DEF PauseInv, MapInv
  <2>2. \A f \in Exec : timer[f] # None =>
            /\ RunOf[timer[f][1]] = RunOf[f]
            /\ Untangled(f) => timer[f][1] = f
    BY DEF PauseInv, MapInv
  <2> QED
    BY <1>1, <1>5, <1>6, <1>7, <2>1, <2>2 DEF MapInv
<1>9. PromiseInv'
  <2> SUFFICES ASSUME NEW f \in promised, Untangled(f)
               PROVE  pc'[f] = "setup" /\ session[Own(f)].requested
    BY <1>1 DEF PromiseInv, Own, Untangled
  <2>1. f \in Exec /\ pc[f] = "setup" /\ session[Own(f)].requested
    BY PauseTypes DEF PauseInv, PromiseInv
  <2> QED
    BY <1>1, <1>4, <2>1
<1> QED
  BY <1>8, <1>9 DEF PauseInv

LEMMA PauseInit == Init => PauseInv
<1> SUFFICES ASSUME Init PROVE PauseInv
  OBVIOUS
<1>1. \A r \in Run : live[r] = None
  BY DEF Init
<1>2. \A e \in Exec : pc[e] = "idle" /\ outcome[e] = "none" /\ timer[e] = None
  BY DEF Init
<1>3. \A s \in Session : session[s].waiter = None
  BY DEF Init, Fresh
<1>4. MapInv
  BY <1>1, <1>2, <1>3 DEF MapInv, Pausing
<1>5. PromiseInv
  BY DEF Init, PromiseInv
<1> QED
  BY <1>4, <1>5, InitIInv DEF PauseInv

LEMMA PauseStep == PauseInv /\ [Next]_vars => PauseInv'
<1> SUFFICES ASSUME PauseInv, [Next]_vars PROVE PauseInv'
  OBVIOUS
<1>1. SlotIInv' /\ pc \in [Exec -> PC]
  BY StepIInv, PauseTypes DEF PauseInv
<1>2. ASSUME NEW e \in Exec, Acquire(e) PROVE PauseInv'
  <2>1. \A f \in Exec : pc'[f] = pc[f] \/ (pc[f] \notin Pausing /\ pc'[f] \notin Pausing)
    BY <1>1, <1>2 DEF Acquire, Goto, Pausing
  <2>2. UNCHANGED <<pauses, live, session, timer, outcome, promised, tangled>>
    BY <1>2 DEF Acquire, sessions
  <2> QED
    BY <1>1, <2>1, <2>2, OutsidePauses
<1>3. ASSUME NEW e \in Exec, Finish(e) PROVE PauseInv'
  <2>1. \A f \in Exec : pc'[f] = pc[f] \/ (pc[f] \notin Pausing /\ pc'[f] \notin Pausing)
    BY <1>1, <1>3 DEF Finish, Goto, Pausing
  <2>2. UNCHANGED <<pauses, live, session, timer, outcome, promised, tangled>>
    BY <1>3 DEF Finish, sessions
  <2> QED
    BY <1>1, <2>1, <2>2, OutsidePauses
<1>4. ASSUME NEW e \in Exec, Release(e) PROVE PauseInv'
  <2>1. \A f \in Exec : pc'[f] = pc[f] \/ (pc[f] \notin Pausing /\ pc'[f] \notin Pausing)
    <3>1. pc[e] = "release"
      BY <1>4 DEF Release
    <3>2. CASE queue # <<>>
      <4>1. pc' = [pc EXCEPT ![e] = "done", ![Head(queue)] = "run"]
        BY <1>4, <3>2 DEF Release, HandOver
      <4>2. Head(queue) \in Exec /\ pc[Head(queue)] = "queued"
        <5>1. queue \in Seq(Exec) /\ Head(queue) = queue[1] /\ 1 \in 1..Len(queue)
          BY <3>2 DEF PauseInv, SlotIInv, TypeOK
        <5> QED
          BY <5>1 DEF PauseInv, SlotIInv, SlotInv
      <4> QED
        BY <1>1, <3>1, <4>1, <4>2 DEF Pausing
    <3>3. CASE queue = <<>>
      BY <1>1, <1>4, <3>1, <3>3 DEF Release, HandOver, Goto, Pausing
    <3> QED
      BY <3>2, <3>3
  <2>2. UNCHANGED <<pauses, live, session, timer, outcome, promised, tangled>>
    BY <1>4 DEF Release, sessions
  <2> QED
    BY <1>1, <2>1, <2>2, OutsidePauses
<1>5. CASE UNCHANGED vars
  <2>1. /\ UNCHANGED <<pauses, live, session, timer, outcome, promised, tangled>>
        /\ \A f \in Exec : pc'[f] = pc[f]
    BY <1>5 DEF vars
  <2> QED
    BY <1>1, <2>1, OutsidePauses
<1> QED
  BY <1>1, <1>2, <1>3, <1>4, <1>5, PauseRegister, PauseWait, PauseTimeOut, PauseResume,
     PauseDelete DEF Next, RunOn

LEMMA PauseInvariant == Spec => []PauseInv
<1> QED
  BY PauseInit, PauseStep, PTL DEF Spec

\* A wait of another execution that ends changes nothing of this one's outcome.
LEMMA OnlyItsOwn ==
  ASSUME PauseInv, NEW w \in Exec, NEW how \in {"resumed", "timeout"}, NEW ses, NEW tms,
         EndWait(w, how, ses, tms), NEW e \in Exec,
         outcome[e] = "none", outcome'[e] = "timeout"
  PROVE  e = w /\ how = "timeout"
<1>1. outcome' = [outcome EXCEPT ![w] = how]
  BY DEF EndWait
<1>2. outcome \in [Exec -> {"none", "resumed", "timeout"}]
  BY PauseTypes DEF PauseInv
<1> QED
  BY <1>1, <1>2

\* ResumeHonoured: an execution with a promise is before its wait, and finds the
\* request when it looks its session up.
THEOREM ResumeKept == Spec => ResumeHonoured
<1> DEFINE Kept == \A e \in Exec : outcome[e] = "none" /\ outcome'[e] = "timeout"
                        => e \notin promised \/ RunOf[e] \in tangled
<1>1. PauseInv /\ [Next]_vars => [Kept]_vars
  <2> SUFFICES ASSUME PauseInv, Next, NEW e \in Exec,
                      outcome[e] = "none", outcome'[e] = "timeout",
                      e \in promised, Untangled(e)
               PROVE  FALSE
    BY DEF Untangled
  <2>1. pc[e] = "setup" /\ session[Own(e)].requested
    BY DEF PauseInv, PromiseInv
  <2>2. live[RunOf[e]] = Own(e) /\ Own(e) # None
    BY <2>1, OwnLive, PauseTypes DEF Pausing, PauseInv
  <2>3. /\ outcome \in [Exec -> {"none", "resumed", "timeout"}]
        /\ session \in [Session -> Object] /\ live \in [Run -> Session \cup {None}]
    BY PauseTypes DEF PauseInv
  <2>4. outcome' # outcome
    OBVIOUS
  <2>5. ASSUME NEW w \in Exec, WaitForResume(w) PROVE FALSE
    <3> DEFINE s == live[RunOf[w]]
               ses == [session EXCEPT ![s].requested = FALSE]
    <3>1. CASE s = None
      <4>1. EndWait(w, "timeout", session, timer)
        BY <2>5, <3>1 DEF WaitForResume
      <4>2. e = w
        BY <4>1, OnlyItsOwn
      <4> QED
        BY <2>2, <3>1, <4>2
    <3>2. CASE s # None /\ session[s].requested
      <4>1. EndWait(w, "resumed", ses, timer)
        BY <2>5, <3>2 DEF WaitForResume
      <4> HIDE DEF ses
      <4> QED
        BY <4>1, OnlyItsOwn
    <3>3. CASE s # None /\ ~session[s].requested
      BY <2>4, <2>5, <3>3 DEF WaitForResume
    <3> QED
      BY <3>1, <3>2, <3>3
  <2>6. ASSUME NEW w \in Exec, TimeOut(w) PROVE FALSE
    <3>1. /\ pc[w] = "wait"
          /\ EndWait(w, "timeout", Cut(session, timer[w]), [timer EXCEPT ![w] = None])
      BY <2>6 DEF TimeOut
    <3>2. e = w
      BY <3>1, OnlyItsOwn
    <3> QED
      BY <2>1, <3>1, <3>2
  <2>7. ASSUME NEW r \in Run, ResumeLive(r) PROVE FALSE
    <3> DEFINE w == session[live[r]].waiter
    <3>1. live[r] # None /\ live[r] \in Session
      BY <2>3, <2>7 DEF ResumeLive
    <3>2. CASE w # None /\ pc[w] = "wait"
      <4>1. EndWait(w, "resumed", Remembered(live[r]), [timer EXCEPT ![w] = None])
        BY <2>7, <3>2 DEF ResumeLive
      <4>2. w \in Exec
        BY <2>3, <3>1, <3>2 DEF Object
      <4> HIDE DEF w
      <4> QED
        BY <4>1, <4>2, OnlyItsOwn
    <3>3. CASE ~(w # None /\ pc[w] = "wait")
      BY <2>4, <2>7, <3>3 DEF ResumeLive
    <3> QED
      BY <3>2, <3>3
  <2>8. ASSUME NEW w \in Exec, Delete(w) PROVE FALSE
    <3>1. outcome' = [outcome EXCEPT ![w] = "none"]
      BY <2>8 DEF Delete
    <3> QED
      BY <2>3, <3>1
  <2>9. ASSUME NEW w \in Exec, Acquire(w) \/ RunOn(w) \/ Release(w) PROVE FALSE
    BY <2>4, <2>9 DEF Acquire, RunOn, RegisterLive, Finish, Release, sessions
  <2> QED
    BY <2>5, <2>6, <2>7, <2>8, <2>9 DEF Next
<1> QED
  BY <1>1, PauseInvariant, PTL DEF Spec, ResumeHonoured

-----------------------------------------------------------------------------
(* The steps of a plan.                                                   *)

\* What the assumptions say of a plan.
LEMMA PlanFacts ==
  ASSUME PlanTypeOK
  PROVE  /\ plan \in Seq(PlanStep) /\ Len(plan) \in Nat
         /\ DOMAIN plan = 1..Len(plan)
         /\ \A p \in 1..Len(plan) : /\ plan[p].kind \in Kind /\ plan[p].span \in Nat
                                    /\ plan[p].wait \in Nat /\ plan[p].wait <= WaitTime
                                    /\ plan[p].strict \in BOOLEAN
<1>1. plan \in Seq(PlanStep)
  BY PlansAssumption DEF PlanTypeOK
<1>2. \A p \in 1..Len(plan) : plan[p] \in PlanStep
  BY <1>1
<1> QED
  BY <1>1, <1>2, ClockAssumption DEF PlanStep

-----------------------------------------------------------------------------
(* The invariant.                                                          *)

\* Where the run is, and what the steps before have left.
StageOK ==
    /\ stage \in {"paused", "step"} => at <= Len(plan)
    /\ stage \in {"top", "paused", "step"} => Len(record) = at - 1
    /\ stage \in {"settle", "done"} =>
          \/ Len(record) = at - 1 /\ (verdict = "completed" => at = Len(plan) + 1)
          \/ Len(record) = at /\ verdict # "completed"
    /\ \A n \in 1..Len(record) : record[n].at = n
    /\ Len(record) <= Len(plan)

\* A failed step is the last one of its attempt.
FailedLast ==
    \A n \in 1..Len(record) : record[n].how = "failed" =>
        /\ n = Len(record) /\ verdict = "failed"
        /\ stage \notin {"top", "paused", "step"}

\* Time is the run's own, or granted out of the budget; a step begins in time.
ClockOK ==
    /\ left + spent + budget = RunTime + WaitTime
    /\ left >= -StepTime
    /\ stage = "step" => left >= 0

\* In record rec of plan p, step n was left out, and took step x with it.
Covers(p, rec, n, x) ==
    rec[n].how = "skipped" /\ p[n].span > 0 /\ x < n + p[n].span

\* Step n is one to leave out: refused for itself, or covered by an earlier one.
Out(p, rec, ref, n) == n \in ref \/ \E m \in 1..(n - 1) : Covers(p, rec, m, n)

\* The steps to leave out are noted as skipped, or could not be noted so.
Branched(p, rec, ref) ==
    /\ ref \subseteq 1..Len(rec)
    /\ \A n \in 1..Len(rec) :
          /\ rec[n].how = "skipped" => Out(p, rec, ref, n)
          /\ Out(p, rec, ref, n) => rec[n].how \in {"skipped", "failed"}

\* What is skipped through is what the steps left out cover.
Reaches(p, rec, to) ==
    \A x \in Nat \ {0} : x <= to <=> \E n \in 1..Len(rec) : Covers(p, rec, n, x)

BranchOK ==
    /\ Branched(plan, record, refused)
    /\ stage \in {"top", "paused", "step"} => Reaches(plan, record, through)

PlanInv == PlanTypeOK /\ StageOK /\ ClockOK /\ FailedLast /\ BranchOK

-----------------------------------------------------------------------------
(* Notes.                                                                  *)

How == {"done", "skipped", "flagged", "failed"}

LEMMA NoteFacts ==
  ASSUME PlanTypeOK, NEW how \in How, Recorded(how)
  PROVE  /\ record' \in Seq(Note) /\ Len(record) \in Nat
         /\ Len(record') = Len(record) + 1
         /\ \A n \in 1..Len(record) : record'[n] = record[n]
         /\ record'[Len(record) + 1].at = at
         /\ record'[Len(record) + 1].how = how
<1> DEFINE e == [at |-> at, how |-> how]
<1>1. at \in Nat
  BY PlanFacts DEF PlanTypeOK
<1>2. e \in Note /\ e.at = at /\ e.how = how
  BY <1>1 DEF Note, How
<1> HIDE DEF e
<1>3. record \in Seq(Note) /\ record' = Append(record, e)
  BY DEF PlanTypeOK, Recorded, e
<1> QED
  BY <1>2, <1>3

\* One more note leaves what the notes before it cover as it was.
LEMMA SameCover ==
  ASSUME NEW p, NEW rec, NEW new, NEW n, new[n] = rec[n], NEW x
  PROVE  Covers(p, new, n, x) <=> Covers(p, rec, n, x)
BY DEF Covers

\* One more note keeps the branches right, if it is of a step that was left out just
\* when it should be.
LEMMA NoteBranch ==
  ASSUME NEW p, NEW rec, NEW new, NEW to, NEW ref, NEW ref2,
         NEW k \in Nat, Len(rec) = k, Len(new) = k + 1,
         \A n \in 1..k : new[n] = rec[n],
         Branched(p, rec, ref), Reaches(p, rec, to),
         ref2 = ref \/ ref2 = ref \cup {k + 1},
         new[k + 1].how = "skipped" => k + 1 \in ref2 \/ k + 1 <= to,
         k + 1 \in ref2 \/ k + 1 <= to => new[k + 1].how \in {"skipped", "failed"}
  PROVE  Branched(p, new, ref2)
<1> DEFINE Old(n, x) == Covers(p, rec, n, x)
           New(n, x) == Covers(p, new, n, x)
<1>1. /\ ref \subseteq 1..k
      /\ \A n \in 1..k :
            /\ rec[n].how = "skipped" => n \in ref \/ \E m \in 1..(n - 1) : Old(m, n)
            /\ n \in ref \/ (\E m \in 1..(n - 1) : Old(m, n)) =>
                  rec[n].how \in {"skipped", "failed"}
  BY DEF Branched, Out
<1>2. k + 1 <= to <=> \E n \in 1..k : Old(n, k + 1)
  BY DEF Reaches
<1>3. \A n \in 1..k : \A x : New(n, x) <=> Old(n, x)
  BY SameCover
<1> HIDE DEF Old, New
<1>4. ref2 \subseteq 1..(k + 1)
  <2>1. 1..k \subseteq 1..(k + 1) /\ k + 1 \in 1..(k + 1)
    OBVIOUS
  <2> QED
    BY <1>1, <2>1
<1>5. ASSUME NEW n \in 1..(k + 1)
      PROVE  /\ new[n].how = "skipped" => n \in ref2 \/ \E m \in 1..(n - 1) : New(m, n)
             /\ n \in ref2 \/ (\E m \in 1..(n - 1) : New(m, n)) =>
                   new[n].how \in {"skipped", "failed"}
  <2>1. CASE n \in 1..k
    <3>1. (n \in ref2 <=> n \in ref) /\ new[n] = rec[n]
      BY <2>1
    <3>2. (\E m \in 1..(n - 1) : New(m, n)) <=> \E m \in 1..(n - 1) : Old(m, n)
      BY <1>3, <2>1
    <3> QED
      BY <1>1, <2>1, <3>1, <3>2
  <2>2. CASE n = k + 1
    <3>1. k + 1 <= to <=> \E m \in 1..k : New(m, k + 1)
      BY <1>2, <1>3
    <3> QED
      BY <2>2, <3>1
  <2> QED
    BY <2>1, <2>2
<1> QED
  BY <1>4, <1>5 DEF Branched, Out, New

\* What is skipped through grows by what the new note covers.
LEMMA NoteReach ==
  ASSUME NEW p, NEW rec, NEW new, NEW to, NEW to2,
         NEW k \in Nat, Len(rec) = k, Len(new) = k + 1,
         \A n \in 1..k : new[n] = rec[n],
         Reaches(p, rec, to),
         \A x \in Nat \ {0} : x <= to2 <=> x <= to \/ Covers(p, new, k + 1, x)
  PROVE  Reaches(p, new, to2)
<1> DEFINE Old(n, x) == Covers(p, rec, n, x)
           New(n, x) == Covers(p, new, n, x)
<1>1. \A x \in Nat \ {0} : x <= to <=> \E n \in 1..k : Old(n, x)
  BY DEF Reaches
<1>2. \A x \in Nat \ {0} : x <= to2 <=> x <= to \/ New(k + 1, x)
  OBVIOUS
<1>3. \A n \in 1..k : \A x : New(n, x) <=> Old(n, x)
  BY SameCover
<1> HIDE DEF Old, New
<1>4. ASSUME NEW x \in Nat \ {0} PROVE x <= to2 <=> \E n \in 1..(k + 1) : New(n, x)
  <2>1. (\E n \in 1..(k + 1) : New(n, x)) <=> (\E n \in 1..k : New(n, x)) \/ New(k + 1, x)
    OBVIOUS
  <2> QED
    BY <1>1, <1>2, <1>3, <2>1
<1> QED
  BY <1>4 DEF Reaches, New

-----------------------------------------------------------------------------
(* The steps that run.                                                     *)

\* What every end of a step that was not left out does to the clock.
ClockKept ==
    /\ left' \in Int /\ budget' \in 0..WaitTime /\ spent' \in Nat
    /\ left' >= -StepTime
    /\ left' + spent' + budget' = left + spent + budget

Worked ==
    /\ stage = "step" /\ at > through
    /\ UNCHANGED <<fixed, branches>>
    /\ \/ \E how \in {"done", "flagged"} : GoOn(how)
       \/ \E as \in {"failed", "needs_review"} : Stop("flagged", as)
       \/ Stop("failed", "failed")
    /\ ClockKept

LEMMA TakesTime ==
  ASSUME PlanInv, stage = "step", NEW d \in 0..StepTime, Takes(d)
  PROVE  ClockKept
BY ClockAssumption DEF PlanInv, PlanTypeOK, ClockOK, Takes, ClockKept

LEMMA StillClock ==
  ASSUME PlanInv, stage = "step", UNCHANGED clock
  PROVE  ClockKept
BY ClockAssumption DEF PlanInv, PlanTypeOK, ClockOK, clock, ClockKept

LEMMA WaitsTime ==
  ASSUME PlanInv, stage = "step",
         NEW e \in 0..Larger(0, Smaller(plan[at].wait, left + Grant)), Waited(e)
  PROVE  ClockKept
<1> DEFINE w == plan[at].wait
           g == Grant
           u == Unused(e)
<1>1. w \in Nat /\ budget \in 0..WaitTime /\ left \in Int /\ left >= 0 /\ spent \in Nat
  BY PlanFacts DEF PlanInv, PlanTypeOK, StageOK, ClockOK
<1>2. g = IF w < budget THEN w ELSE budget
  BY DEF Grant, Smaller
<1>3. u = IF 0 > g - e THEN 0 ELSE g - e
  BY DEF Unused, Larger
<1>4. e \in Nat /\ e <= w /\ e <= left + g
  <2> HIDE DEF w, g
  <2>1. e \in 0..Larger(0, Smaller(w, left + g))
    BY DEF w, g
  <2>2. g \in Nat
    BY <1>1, <1>2, ClockAssumption
  <2> QED
    BY <1>1, <2>1, <2>2 DEF Larger, Smaller
<1>5. left' = left + g - e - u /\ budget' = budget - g + u /\ spent' = spent + e
  BY DEF Waited
<1> HIDE DEF w, g, u
<1> QED
  BY <1>1, <1>2, <1>3, <1>4, <1>5, ClockAssumption DEF ClockKept

LEMMA KeptClock ==
  ASSUME ClockOK, ClockKept, stage' # "step"
  PROVE  ClockOK'
BY DEF ClockOK, ClockKept

LEMMA CheckpointWorks == ASSUME PlanInv, Checkpoint PROVE Worked
BY StillClock DEF Checkpoint, Entered, Worked

LEMMA PerformWorks ==
  ASSUME PlanInv, NEW d \in 0..StepTime, Perform(d) PROVE Worked
BY TakesTime DEF Perform, Entered, Worked

LEMMA WithholdWorks == ASSUME PlanInv, Withhold PROVE Worked
<1>1. 0 \in 0..StepTime
  BY ClockAssumption
<1> QED
  BY <1>1, TakesTime DEF Withhold, Entered, Worked

LEMMA NotFoundWorks ==
  ASSUME PlanInv, NEW d \in 0..StepTime, NotFound(d) PROVE Worked
BY TakesTime DEF NotFound, Entered, Worked

LEMMA StepFailsWorks ==
  ASSUME PlanInv, NEW d \in 0..StepTime, StepFails(d) PROVE Worked
BY TakesTime DEF StepFails, Entered, Worked

LEMMA WaitForWorks == ASSUME PlanInv, WaitFor PROVE Worked
<1> DEFINE most == Larger(0, Smaller(plan[at].wait, left + Grant))
<1>1. stage = "step" /\ at > through /\ UNCHANGED <<fixed, branches>>
  BY DEF WaitFor, Entered
<1>2. most \in Nat
  <2>1. plan[at].wait \in Nat /\ left \in Int /\ budget \in Nat
    BY <1>1, PlanFacts, ClockAssumption DEF PlanInv, PlanTypeOK, StageOK
  <2> QED
    BY <2>1 DEF Larger, Smaller, Grant
<1>3. \E e \in 0..most : Waited(e)
  BY <1>2 DEF WaitFor
<1>4. ClockKept
  BY <1>1, <1>3, WaitsTime
<1>5. GoOn("done") \/ GoOn("flagged") \/ Stop("flagged", "needs_review")
      \/ Stop("failed", "failed")
  BY DEF WaitFor
<1> QED
  BY <1>1, <1>4, <1>5 DEF Worked

-----------------------------------------------------------------------------
(* Every action keeps the invariant.                                       *)

LEMMA StepWorked == ASSUME PlanInv, Worked PROVE PlanInv'
<1> USE DEF Worked, fixed, branches
<1>1. /\ PlanTypeOK /\ StageOK /\ ClockOK /\ FailedLast /\ BranchOK
      /\ Len(plan) \in Nat /\ at \in Nat /\ at <= Len(plan) /\ through \in Nat
      /\ Len(record) = at - 1 /\ Len(record) \in Nat
  <2>1. /\ PlanTypeOK /\ StageOK /\ ClockOK /\ FailedLast /\ BranchOK
    BY DEF PlanInv
  <2>2. Len(plan) \in Nat /\ at \in Nat /\ at <= Len(plan) /\ through \in Nat
    BY <2>1, PlanFacts DEF PlanTypeOK, StageOK
  <2>3. Len(record) = at - 1 /\ Len(record) \in Nat
    BY <2>1, <2>2 DEF PlanTypeOK, StageOK
  <2> QED
    BY <2>1, <2>2, <2>3
<1>2. PICK how \in How \ {"skipped"} :
         /\ Recorded(how)
         /\ \/ stage' = "top" /\ at' = at + 1 /\ UNCHANGED <<captchas, verdict>>
               /\ how # "failed"
            \/ /\ stage' = "settle" /\ verdict' \in {"failed", "needs_review"}
               /\ how = "failed" => verdict' = "failed"
               /\ UNCHANGED <<at, captchas>>
  BY DEF GoOn, Stop, Settle, How
<1>3. /\ record' \in Seq(Note) /\ Len(record') = Len(record) + 1
      /\ \A n \in 1..Len(record) : record'[n] = record[n]
      /\ record'[Len(record) + 1].at = at /\ record'[Len(record) + 1].how = how
  BY <1>1, <1>2, NoteFacts
<1>4. PlanTypeOK'
  BY <1>1, <1>2, <1>3 DEF PlanTypeOK, ClockKept
<1>5. StageOK'
  BY <1>1, <1>2, <1>3 DEF StageOK
<1>6. ClockOK'
  <2>1. ClockKept /\ stage' # "step"
    BY <1>2
  <2> QED
    BY <1>1, <2>1, KeptClock
<1>7. FailedLast'
  BY <1>1, <1>2, <1>3 DEF FailedLast
<1>8. BranchOK'
  <2> DEFINE k == Len(record)
  <2>1. Branched(plan, record, refused) /\ Reaches(plan, record, through)
    BY <1>1 DEF BranchOK
  <2>2. refused \subseteq 1..k
    BY <2>1 DEF Branched
  <2>3. record'[k + 1].how # "skipped" /\ ~(k + 1 \in refused) /\ ~(k + 1 <= through)
    BY <1>1, <1>2, <1>3, <2>2
  <2>4. \A x : ~Covers(plan, record', k + 1, x)
    BY <2>3 DEF Covers
  <2>5. Branched(plan, record', refused)
    BY <1>1, <1>3, <2>1, <2>3, NoteBranch
  <2>6. Reaches(plan, record', through)
    BY <1>1, <1>3, <2>1, <2>4, NoteReach
  <2> QED
    BY <2>5, <2>6 DEF BranchOK
<1> QED
  BY <1>4, <1>5, <1>6, <1>7, <1>8 DEF PlanInv

\* A step to leave out, whatever its note is.
LEMMA StepLeftOut ==
  ASSUME PlanInv, NEW d \in 0..StepTime, LeftOut, Takes(d),
         NEW how \in {"skipped", "failed"}, Recorded(how), UNCHANGED captchas,
         \/ how = "skipped" /\ stage' = "top" /\ at' = at + 1 /\ verdict' = verdict
         \/ how = "failed" /\ stage' = "settle" /\ at' = at /\ verdict' = "failed"
  PROVE  PlanInv'
<1> USE DEF fixed
<1>1. /\ PlanTypeOK /\ StageOK /\ ClockOK /\ FailedLast /\ BranchOK /\ stage = "step"
      /\ Len(plan) \in Nat /\ at \in Nat /\ at <= Len(plan) /\ through \in Nat
      /\ Len(record) = at - 1 /\ Len(record) \in Nat /\ plan[at].span \in Nat
  BY PlanFacts DEF PlanInv, StageOK, PlanTypeOK, LeftOut
<1>2. UNCHANGED <<plan, skips, tries, throws>>
  BY DEF LeftOut
<1>3. /\ record' \in Seq(Note) /\ Len(record') = Len(record) + 1
      /\ \A n \in 1..Len(record) : record'[n] = record[n]
      /\ record'[Len(record) + 1].at = at /\ record'[Len(record) + 1].how = how
  BY <1>1, NoteFacts DEF How
<1>4. \/ refused' = refused \cup {at}
      \/ refused' = refused /\ at <= through
  BY DEF LeftOut
<1>5. through' = IF plan[at].span = 0 THEN through
                 ELSE IF through > at + plan[at].span - 1 THEN through
                      ELSE at + plan[at].span - 1
  BY DEF LeftOut, SkipThrough, Larger
<1>6. ClockKept
  BY <1>1, TakesTime
<1>7. PlanTypeOK'
  <2>1. at \in DOMAIN plan /\ at + 1 \in 1..(Len(plan) + 1)
    BY <1>1, PlanFacts DEF PlanTypeOK
  <2>2. refused' \subseteq DOMAIN plan
    BY <1>1, <1>4, <2>1 DEF PlanTypeOK
  <2>3. through' \in Nat
    BY <1>1, <1>5
  <2>4. /\ stage' \in {"top", "settle"} /\ at' \in 1..(Len(plan) + 1)
        /\ verdict' \in {"completed", "failed", "needs_review"}
    BY <1>1, <2>1 DEF PlanTypeOK
  <2> QED
    BY <1>1, <1>2, <1>3, <1>6, <2>2, <2>3, <2>4 DEF PlanTypeOK, ClockKept
<1>8. StageOK'
  BY <1>1, <1>2, <1>3 DEF StageOK
<1>9. ClockOK'
  BY <1>1, <1>6, KeptClock
<1>10. FailedLast'
  BY <1>1, <1>3 DEF FailedLast
<1>11. BranchOK'
  <2> DEFINE k == Len(record)
  <2>1. Branched(plan, record, refused) /\ Reaches(plan, record, through)
    BY <1>1 DEF BranchOK
  <2>2. k + 1 \in refused' \/ k + 1 <= through
    BY <1>1, <1>4
  <2>3. refused' = refused \/ refused' = refused \cup {k + 1}
    BY <1>1, <1>4
  <2>4. Branched(plan, record', refused')
    BY <1>1, <1>3, <2>1, <2>2, <2>3, NoteBranch
  <2>5. ASSUME how = "skipped" PROVE Reaches(plan, record', through')
    <3>1. \A x \in Nat \ {0} :
             x <= through' <=> x <= through \/ Covers(plan, record', k + 1, x)
      BY <1>1, <1>3, <1>5, <2>5 DEF Covers
    <3> QED
      BY <1>1, <1>3, <2>1, <3>1, NoteReach
  <2> QED
    BY <1>2, <2>4, <2>5 DEF BranchOK
<1> QED
  BY <1>7, <1>8, <1>9, <1>10, <1>11 DEF PlanInv

LEMMA StepSkip ==
  ASSUME PlanInv, NEW d \in 0..StepTime, Skip(d) \/ SkipFails(d) PROVE PlanInv'
<1>1. CASE Skip(d)
  BY <1>1, StepLeftOut DEF Skip, Skipped, GoOn
<1>2. CASE SkipFails(d)
  BY <1>2, StepLeftOut DEF SkipFails, Stop, Settle
<1> QED
  BY <1>1, <1>2

\* Between the steps nothing is noted, and the clock stands still.
LEMMA StepBetween ==
  ASSUME PlanInv,
         \/ PlanThrough \/ OutOfTime \/ Captcha \/ AfterCaptcha \/ NoCaptcha
         \/ FinishRow \/ Throw
  PROVE  PlanInv'
<1> USE DEF fixed, clock, branches, Settle
<1>1. /\ PlanTypeOK /\ StageOK /\ ClockOK /\ FailedLast /\ BranchOK
      /\ Len(plan) \in Nat /\ at \in Nat /\ Len(record) \in Nat
  BY PlanFacts DEF PlanInv, PlanTypeOK
<1>2. UNCHANGED <<plan, skips, clock, branches, record, at>>
  BY DEF PlanThrough, OutOfTime, Captcha, AfterCaptcha, NoCaptcha, FinishRow, Throw
<1>3. PlanTypeOK'
  BY <1>1, <1>2, ClockAssumption
     DEF PlanTypeOK, PlanThrough, OutOfTime, Captcha, AfterCaptcha, NoCaptcha,
         FinishRow, Throw, Counted
<1>4. StageOK'
  BY <1>1, <1>2
     DEF StageOK, PlanTypeOK, PlanThrough, OutOfTime, Captcha, AfterCaptcha, NoCaptcha,
         FinishRow, Throw
<1>5. ClockOK'
  BY <1>1, <1>2
     DEF ClockOK, PlanThrough, OutOfTime, Captcha, AfterCaptcha, NoCaptcha,
         FinishRow, Throw
<1>6. BranchOK'
  <2>1. UNCHANGED <<plan, record, through, refused>>
    BY <1>2
  <2>2. stage' \in {"top", "paused", "step"} => stage \in {"top", "paused", "step"}
    BY DEF PlanThrough, OutOfTime, Captcha, AfterCaptcha, NoCaptcha, FinishRow, Throw
  <2> QED
    BY <1>1, <2>1, <2>2 DEF BranchOK
<1>7. FailedLast'
  <2>1. record' = record
    BY <1>2
  <2>2. \/ stage \in {"top", "paused", "step"}
        \/ verdict' = verdict /\ stage' \notin {"top", "paused", "step"}
    BY DEF PlanThrough, OutOfTime, Captcha, AfterCaptcha, NoCaptcha, FinishRow, Throw
  <2> QED
    BY <1>1, <2>1, <2>2 DEF FailedLast
<1> QED
  BY <1>3, <1>4, <1>5, <1>6, <1>7 DEF PlanInv

\* The locals of an attempt are new ones.
LEMMA FreshRecord ==
  ASSUME NEW p PROVE Branched(p, <<>>, {}) /\ Reaches(p, <<>>, 0)
BY DEF Branched, Reaches

LEMMA StepLaunch == ASSUME PlanInv, Launch PROVE PlanInv'
<1> USE DEF Launch, fixed
<1>1. PlanTypeOK /\ Len(plan) \in Nat
  BY PlanFacts DEF PlanInv
<1>2. PlanTypeOK'
  BY <1>1, ClockAssumption DEF PlanTypeOK
<1>3. StageOK'
  BY <1>1 DEF StageOK
<1>4. ClockOK'
  BY <1>1, ClockAssumption DEF ClockOK
<1>5. FailedLast' /\ BranchOK'
  BY FreshRecord DEF FailedLast, BranchOK
<1> QED
  BY <1>2, <1>3, <1>4, <1>5 DEF PlanInv

-----------------------------------------------------------------------------
\* The invariant: the plan's branches, the record and the clock, at every step of
\* every attempt.
THEOREM PlanInvariant == PlanSpec => []PlanInv
<1>1. PlanInit => PlanInv
  <2> SUFFICES ASSUME PlanInit PROVE PlanInv
    OBVIOUS
  <2>1. plan \in Seq(PlanStep) /\ Len(plan) \in Nat
    BY PlansAssumption DEF PlanInit
  <2>2. PlanTypeOK
    BY <2>1, ClockAssumption DEF PlanInit, PlanTypeOK
  <2>3. StageOK /\ ClockOK /\ FailedLast
    BY <2>1, ClockAssumption DEF PlanInit, StageOK, ClockOK, FailedLast
  <2> QED
    BY <2>2, <2>3, FreshRecord DEF PlanInit, PlanInv, BranchOK
<1>2. PlanInv /\ [PlanNext]_planVars => PlanInv'
  <2> SUFFICES ASSUME PlanInv, [PlanNext]_planVars PROVE PlanInv'
    OBVIOUS
  <2>1. CASE UNCHANGED planVars
    BY <2>1 DEF planVars, PlanInv, PlanTypeOK, StageOK, ClockOK, FailedLast, BranchOK
  <2>2. CASE Launch
    BY <2>2, StepLaunch
  <2>3. CASE \/ PlanThrough \/ OutOfTime \/ Captcha \/ AfterCaptcha \/ NoCaptcha
             \/ FinishRow \/ Throw
    BY <2>3, StepBetween
  <2>4. CASE \E d \in 0..StepTime : Skip(d) \/ SkipFails(d)
    BY <2>4, StepSkip
  <2>5. CASE Checkpoint \/ WaitFor \/ Withhold
    BY <2>5, CheckpointWorks, WaitForWorks, WithholdWorks, StepWorked
  <2>6. CASE \E d \in 0..StepTime : Perform(d) \/ NotFound(d) \/ StepFails(d)
    BY <2>6, PerformWorks, NotFoundWorks, StepFailsWorks, StepWorked
  <2> QED
    BY <2>1, <2>2, <2>3, <2>4, <2>5, <2>6 DEF PlanNext, Forward
<1> QED
  BY <1>1, <1>2, PTL DEF PlanSpec

\* The variables of executeRun keep their types.
THEOREM PlanTyping == PlanSpec => []PlanTypeOK
<1>1. PlanInv => PlanTypeOK
  BY DEF PlanInv
<1> QED
  BY <1>1, PlanInvariant, PTL

\* However many waits a plan has, an attempt's own time is bounded (waitBudget).
THEOREM InTime == PlanSpec => []TimeBounded
<1>1. PlanInv => TimeBounded
  BY ClockAssumption DEF PlanInv, PlanTypeOK, ClockOK, TimeBounded
<1> QED
  BY <1>1, PlanInvariant, PTL

\* The record has every step once and in order, and those left out are whole groups;
\* the last step of a failed attempt may be one that could not be noted as left out
\* (skipThrough, skipStep, recordStep and the catch around the step).
THEOREM RecordHolds == PlanSpec => []RecordFaithful
<1>1. PlanInv => RecordFaithful
  <2> SUFFICES ASSUME PlanInv PROVE RecordFaithful
    OBVIOUS
  <2>1. /\ record \in Seq(Note) /\ Len(record) \in Nat
        /\ DOMAIN record = 1..Len(record)
        /\ \A n \in 1..Len(record) : record[n].at = n
    BY DEF PlanInv, PlanTypeOK, StageOK
  <2>2. RecordComplete
    <3>1. PlanTypeOK /\ StageOK
      BY DEF PlanInv
    <3>2. Len(plan) \in Nat /\ at \in Int
      BY <3>1, PlanFacts DEF PlanTypeOK
    <3>3. stage \in {"settle", "done"} /\ verdict = "completed" => Len(record) = Len(plan)
      BY <2>1, <3>1, <3>2 DEF StageOK
    <3> QED
      BY <2>1, <3>3 DEF RecordComplete
  <2>3. SkipsAreGroups
    <3>1. ASSUME NEW n \in 1..Len(record)
          PROVE  InSkippedBranch(n) <=>
                     \E m \in 1..(n - 1) : Covers(plan, record, m, n)
      BY <2>1 DEF InSkippedBranch, Covers
    <3>2. ASSUME NEW n \in 1..Len(record)
          PROVE  Out(plan, record, refused, n) <=>
                     record[n].at \in refused \/ InSkippedBranch(n)
      BY <2>1, <3>1 DEF Out
    <3>3. FailedLast /\ Branched(plan, record, refused)
      BY DEF PlanInv, BranchOK
    <3> QED
      BY <2>1, <3>2, <3>3 DEF FailedLast, Branched, SkipsAreGroups
  <2> QED
    BY <2>2, <2>3 DEF RecordFaithful
<1> QED
  BY <1>1, PlanInvariant, PTL

-----------------------------------------------------------------------------
(* A recording.                                                            *)

RecState == [session : Recordings, status : {"recording", "stopped", "saved"},
             trace : Seq(Entry), saved : Someone]
StopRow == [at : {"none", "drain", "close", "save"}, last : Action \cup {NoAction},
         owed : 0..MaxActions, of : Someone, kept : Nat]

RecTypes ==
    /\ state \in RecState \cup {Nobody} /\ handle \in Someone
    /\ chromium \in [Recordings -> {"none", "open", "closing", "closed"}]
    /\ accepted \in 0..MaxActions /\ slot \in 0..MaxActions
    /\ tail \in Seq(Action)
    /\ wedged \in BOOLEAN /\ idle \in BOOLEAN /\ mixed \in BOOLEAN
    /\ closers \subseteq [who : Recordings \cup {"stop", "idle", "event"}, of : Someone]
    /\ starting \in [Recordings -> [at : {"none", "drain", "close", "launch", "goto",
                                        "fail", "done"},
                                  last : Action \cup {NoAction}]]
    /\ stopping \in StopRow /\ gone \in 0..MaxGone

\* A callback that runs is the first of the queue, and a queue that is rejected is empty.
QueueInv ==
    /\ slot < MaxActions => tail # <<>>
    /\ wedged => tail = <<>>

\* The trace has the first actions of the recording.
TraceInv ==
    state # Nobody =>
        /\ \A i \in 1..Len(state.trace) :
              state.trace[i] = [by |-> state.session, n |-> i, idx |-> i - 1]
        /\ slot < MaxActions =>
              /\ slot = Len(state.trace)
              /\ tail[1] = [by |-> state.session, n |-> slot + 1]

\* The queue of a recording that goes on has the others that were accepted.
TailInv ==
    IsBusy =>
        /\ \A i \in 1..Len(tail) :
              tail[i] = [by |-> state.session, n |-> Len(state.trace) + i]
        /\ ~wedged => accepted = Len(state.trace) + Len(tail)

\* What a stop is owed is in the queue up to the action it awaits, or in the trace,
\* unless the queue is rejected: then the trace is empty.
Owing ==
    /\ IsBusy /\ ~wedged /\ stopping.owed <= accepted
    /\ \/ stopping.last = NoAction /\ stopping.owed <= Len(state.trace)
       \/ stopping.last = [by |-> state.session, n |-> stopping.owed]

StopInv ==
    /\ state # Nobody =>
         /\ stopping.at = "drain" /\ stopping.owed > 0 /\ ~wedged => Owing
         /\ stopping.at = "close" /\ ~wedged => stopping.owed <= Len(state.trace)
         /\ stopping.at = "save" => stopping.of = state.session
         /\ state.status = "saved" => state.saved = state.session
         /\ wedged => state.trace = <<>>
    /\ stopping.at = "save" => stopping.kept >= stopping.owed

RecInv == RecTypes /\ QueueInv /\ (~mixed => TraceInv /\ TailInv /\ StopInv)

-----------------------------------------------------------------------------
(* The types of what the recorder keeps.                                   *)

LEMMA StoppedFacts ==
  ASSUME RecTypes
  PROVE  /\ Stopped \in RecState \cup {Nobody}
         /\ state = Nobody => Stopped = Nobody
         /\ state # Nobody => /\ Stopped.session = state.session
                              /\ Stopped.trace = state.trace
                              /\ Stopped.saved = state.saved
                              /\ IsBusy => Stopped.status = "stopped"
                              /\ ~IsBusy => Stopped.status = state.status
<1>1. CASE IsBusy
  <2>1. state \in RecState /\ state # Nobody
    BY <1>1 DEF RecTypes, IsBusy
  <2>2. Stopped = [state EXCEPT !.status = "stopped"]
    BY <1>1 DEF Stopped
  <2> QED
    BY <1>1, <2>1, <2>2 DEF RecState
<1>2. CASE ~IsBusy
  <2>1. Stopped = state
    BY <1>2 DEF Stopped
  <2> QED
    BY <1>2, <2>1 DEF RecTypes
<1> QED
  BY <1>1, <1>2

LEMMA CloseType ==
  ASSUME RecTypes, NEW who \in Recordings \cup {"stop", "idle", "event"}, CloseBrowser(who)
  PROVE  /\ idle' \in BOOLEAN
         /\ closers' \subseteq [who : Recordings \cup {"stop", "idle", "event"}, of : Someone]
         /\ chromium' \in [Recordings -> {"none", "open", "closing", "closed"}]
<1>1. idle' = FALSE /\ closers' = closers \cup {[who |-> who, of |-> handle]}
  BY DEF CloseBrowser
<1>2. chromium' = [s \in Recordings |->
                     IF s = handle /\ chromium[s] = "open" THEN "closing" ELSE chromium[s]]
  BY DEF CloseBrowser
<1>3. chromium' \in [Recordings -> {"none", "open", "closing", "closed"}]
  BY <1>2 DEF RecTypes
<1>4. [who |-> who, of |-> handle]
          \in [who : Recordings \cup {"stop", "idle", "event"}, of : Someone]
  BY DEF RecTypes
<1> QED
  BY <1>1, <1>3, <1>4 DEF RecTypes

LEMMA ReturnsType ==
  ASSUME RecTypes, NEW who, Returns(who)
  PROVE  /\ handle' \in Someone
         /\ closers' \subseteq [who : Recordings \cup {"stop", "idle", "event"}, of : Someone]
BY DEF RecTypes, Returns, Someone

LEMMA StartAtType ==
  ASSUME RecTypes, NEW s \in Recordings,
         NEW where \in {"none", "drain", "close", "launch", "goto", "fail", "done"},
         NEW last \in Action \cup {NoAction},
         starting' = [starting EXCEPT ![s] = [at |-> where, last |-> last]]
  PROVE  starting' \in [Recordings -> [at : {"none", "drain", "close", "launch", "goto",
                                             "fail", "done"},
                                       last : Action \cup {NoAction}]]
BY DEF RecTypes

LEMMA EnqueueType ==
  ASSUME RecTypes, Enqueue
  PROVE  accepted' \in 0..MaxActions /\ tail' \in Seq(Action)
<1>1. accepted \in 0..MaxActions /\ tail \in Seq(Action) /\ MaxActions \in Nat
  BY RecorderAssumption DEF RecTypes
<1>2. CASE IsBusy /\ accepted < MaxActions
  <2>1. state.session \in Recordings
    BY <1>2 DEF RecTypes, IsBusy, RecState
  <2>2. accepted' = accepted + 1 /\ accepted' \in 1..MaxActions
    BY <1>1, <1>2 DEF Enqueue
  <2>3. [by |-> state.session, n |-> accepted + 1] \in Action
    BY <2>1, <2>2 DEF Action
  <2>4. tail' = IF wedged THEN tail
                ELSE Append(tail, [by |-> state.session, n |-> accepted + 1])
    BY <1>2 DEF Enqueue
  <2> QED
    BY <1>1, <2>2, <2>3, <2>4
<1>3. CASE ~(IsBusy /\ accepted < MaxActions)
  BY <1>1, <1>3 DEF Enqueue
<1> QED
  BY <1>2, <1>3

LEMMA BeginType ==
  ASSUME RecTypes, NEW s \in Recordings, NEW pending, Begin(s, pending)
  PROVE  /\ state' \in RecState \cup {Nobody} /\ accepted' \in 0..MaxActions
         /\ mixed' \in BOOLEAN
         /\ starting' \in [Recordings -> [at : {"none", "drain", "close", "launch", "goto",
                                                "fail", "done"},
                                          last : Action \cup {NoAction}]]
<1>1. /\ state' = [session |-> s, status |-> "recording", trace |-> <<>>, saved |-> Nobody]
      /\ accepted' = 0
      /\ starting' = [starting EXCEPT ![s] = [at |-> "launch", last |-> NoAction]]
  BY DEF Begin, NoneAccepted, StartAt
<1>2. mixed' \in BOOLEAN
  BY DEF Begin
<1>3. <<>> \in Seq(Entry)
  OBVIOUS
<1>4. state' \in RecState
  BY <1>1, <1>3 DEF RecState, Someone
<1>5. accepted' \in 0..MaxActions
  BY <1>1, RecorderAssumption
<1> QED
  BY <1>1, <1>2, <1>4, <1>5, StartAtType

LEMMA LastType == ASSUME RecTypes PROVE LastOfTail \in Action \cup {NoAction}
BY DEF RecTypes, LastOfTail

LEMMA RecTypesStart == ASSUME RecTypes, NEW s \in Recordings, Start(s) PROVE RecTypes'
<1>1. CASE IsBusy
  <2>1. /\ starting' = [starting EXCEPT ![s] = [at |-> "drain", last |-> LastOfTail]]
        /\ UNCHANGED <<state, accepted, mixed, handle, chromium, tail, slot, wedged, idle,
                       closers, stopping, gone>>
    BY <1>1 DEF Start
  <2> QED
    BY <2>1, StartAtType, LastType DEF RecTypes
<1>2. CASE ~IsBusy
  <2>1. /\ Begin(s, closers)
        /\ UNCHANGED <<handle, chromium, tail, slot, wedged, idle, closers, stopping, gone>>
    BY <1>2 DEF Start
  <2> QED
    BY <2>1, BeginType DEF RecTypes
<1> QED
  BY <1>1, <1>2

LEMMA RecTypesGoesOn ==
  ASSUME RecTypes, NEW s \in Recordings, StartGoesOn(s) PROVE RecTypes'
<1>1. CASE TearDown(s)
  <2>1. /\ CloseBrowser(s) /\ StartAt(s, "close")
        /\ UNCHANGED <<state, handle, accepted, tail, slot, wedged, stopping, gone, mixed>>
    BY <1>1 DEF TearDown
  <2>2. starting' \in [Recordings -> [at : {"none", "drain", "close", "launch", "goto",
                                            "fail", "done"},
                                      last : Action \cup {NoAction}]]
    BY <2>1, StartAtType DEF StartAt
  <2> QED
    BY <2>1, <2>2, CloseType DEF RecTypes
<1>2. CASE BeginFresh(s)
  <2>1. /\ Returns(s) /\ Begin(s, closers')
        /\ UNCHANGED <<chromium, tail, slot, wedged, idle, stopping, gone>>
    BY <1>2 DEF BeginFresh
  <2> QED
    BY <2>1, ReturnsType, BeginType DEF RecTypes
<1>3. CASE LaunchBrowser(s)
  <2>1. /\ StartAt(s, "goto") /\ chromium' = [chromium EXCEPT ![s] = "open"] /\ handle' = s
        /\ mixed' = (mixed \/ closers # {})
        /\ UNCHANGED <<state, accepted, tail, slot, wedged, idle, closers, stopping, gone>>
    BY <1>3 DEF LaunchBrowser
  <2>2. starting' \in [Recordings -> [at : {"none", "drain", "close", "launch", "goto",
                                            "fail", "done"},
                                      last : Action \cup {NoAction}]]
    BY <2>1, StartAtType DEF StartAt
  <2>3. mixed' \in BOOLEAN
    BY <2>1
  <2>4. chromium' \in [Recordings -> {"none", "open", "closing", "closed"}]
    BY <2>1 DEF RecTypes
  <2> QED
    BY <2>1, <2>2, <2>3, <2>4 DEF RecTypes, Someone
<1>4. CASE Loaded(s)
  <2>1. /\ Enqueue /\ idle' = TRUE /\ StartAt(s, "done")
        /\ UNCHANGED <<state, handle, chromium, slot, wedged, closers, stopping, gone, mixed>>
    BY <1>4 DEF Loaded, Touch
  <2>2. starting' \in [Recordings -> [at : {"none", "drain", "close", "launch", "goto",
                                            "fail", "done"},
                                      last : Action \cup {NoAction}]]
    BY <2>1, StartAtType DEF StartAt
  <2> QED
    BY <2>1, <2>2, EnqueueType DEF RecTypes
<1>5. CASE SetupFails(s)
  <2>1. /\ CloseBrowser(s) /\ StartAt(s, "fail")
        /\ UNCHANGED <<state, handle, accepted, tail, slot, wedged, stopping, gone, mixed>>
    BY <1>5 DEF SetupFails, Free
  <2>2. starting' \in [Recordings -> [at : {"none", "drain", "close", "launch", "goto",
                                            "fail", "done"},
                                      last : Action \cup {NoAction}]]
    BY <2>1, StartAtType DEF StartAt
  <2> QED
    BY <2>1, <2>2, CloseType DEF RecTypes
<1>6. CASE FailedStart(s)
  <2>1. /\ Returns(s) /\ StartAt(s, "done") /\ state' = Nobody
        /\ UNCHANGED <<chromium, accepted, tail, slot, wedged, idle, stopping, gone, mixed>>
    BY <1>6 DEF FailedStart
  <2>2. starting' \in [Recordings -> [at : {"none", "drain", "close", "launch", "goto",
                                            "fail", "done"},
                                      last : Action \cup {NoAction}]]
    BY <2>1, StartAtType DEF StartAt
  <2> QED
    BY <2>1, <2>2, ReturnsType DEF RecTypes
<1> QED
  BY <1>1, <1>2, <1>3, <1>4, <1>5, <1>6 DEF StartGoesOn

LEMMA CutShortType == ASSUME RecTypes, CutShort PROVE stopping' \in StopRow
<1>1. /\ stopping \in StopRow /\ MaxActions \in Nat
      /\ stopping' = [stopping EXCEPT !.owed = IF IsBusy THEN 0 ELSE @]
  BY RecorderAssumption DEF RecTypes, CutShort
<1> QED
  BY <1>1 DEF StopRow

LEMMA RecTypesEnds ==
  ASSUME RecTypes, TimerFires \/ \E s \in Recordings : ContextCloses(s) PROVE RecTypes'
<1>1. CASE TimerFires
  <2>1. /\ CloseBrowser("idle") /\ state' = Stopped /\ CutShort
        /\ UNCHANGED <<handle, accepted, tail, slot, wedged, starting, gone, mixed>>
    BY <1>1 DEF TimerFires
  <2> QED
    BY <2>1, CloseType, StoppedFacts, CutShortType DEF RecTypes
<1>2. ASSUME NEW s \in Recordings, ContextCloses(s) PROVE RecTypes'
  <2>1. /\ state' = Stopped /\ idle' = FALSE /\ CutShort
        /\ closers' = closers \cup {[who |-> "event", of |-> handle]}
        /\ chromium' = [t \in Recordings |-> IF t = s THEN "closed"
                                           ELSE IF t = handle /\ chromium[t] = "open"
                                           THEN "closing" ELSE chromium[t]]
        /\ UNCHANGED <<handle, accepted, tail, slot, wedged, starting, mixed>>
    BY <1>2 DEF ContextCloses
  <2>2. gone' \in 0..MaxGone
    BY <1>2, RecorderAssumption DEF ContextCloses, RecTypes
  <2>3. chromium' \in [Recordings -> {"none", "open", "closing", "closed"}]
    BY <2>1 DEF RecTypes
  <2>4. [who |-> "event", of |-> handle]
            \in [who : Recordings \cup {"stop", "idle", "event"}, of : Someone]
    BY DEF RecTypes
  <2>5. closers' \subseteq [who : Recordings \cup {"stop", "idle", "event"}, of : Someone]
    BY <2>1, <2>4 DEF RecTypes
  <2> QED
    BY <2>1, <2>2, <2>3, <2>5, StoppedFacts, CutShortType DEF RecTypes
<1> QED
  BY <1>1, <1>2

LEMMA PushedType ==
  ASSUME RecTypes, QueueInv, Push, state # Nobody
  PROVE  /\ state' \in RecState /\ tail' = Tail(tail) /\ tail # <<>>
         /\ state'.session = state.session /\ state'.status = state.status
         /\ state'.saved = state.saved
         /\ state'.trace = Append(state.trace,
                                  [by |-> tail[1].by, n |-> tail[1].n, idx |-> slot])
<1> DEFINE new == [by |-> tail[1].by, n |-> tail[1].n, idx |-> slot]
<1>1. /\ state \in RecState /\ tail \in Seq(Action) /\ tail # <<>> /\ MaxActions \in Nat
      /\ slot \in 0..MaxActions /\ slot < MaxActions
  BY RecorderAssumption DEF RecTypes, QueueInv, Push
<1>2. tail[1] \in Action
  BY <1>1
<1>3. slot \in 0..(MaxActions - 1)
  BY <1>1
<1>4. new \in Entry
  BY <1>2, <1>3 DEF Action, Entry
<1>5. state' = [state EXCEPT !.trace = Append(@, new)] /\ tail' = Tail(tail)
  BY DEF Push
<1> HIDE DEF new
<1>6. Append(state.trace, new) \in Seq(Entry)
  BY <1>1, <1>4 DEF RecState
<1>7. state' \in RecState
  BY <1>1, <1>5, <1>6 DEF RecState
<1>8. /\ state'.session = state.session /\ state'.status = state.status
      /\ state'.saved = state.saved /\ state'.trace = Append(state.trace, new)
  BY <1>1, <1>5 DEF RecState
<1> QED
  BY <1>1, <1>5, <1>7, <1>8 DEF new

LEMMA RecTypesQueue == ASSUME RecTypes, QueueInv, QueueGoesOn PROVE RecTypes'
<1>1. CASE TakeUp
  <2>1. /\ tail # <<>> /\ tail' \in {tail, Tail(tail)}
        /\ UNCHANGED <<state, handle, chromium, accepted, wedged, idle, closers,
                       starting, stopping, gone, mixed>>
    BY <1>1 DEF TakeUp
  <2>2. tail' \in Seq(Action)
    <3>1. tail \in Seq(Action)
      BY DEF RecTypes
    <3> QED
      BY <2>1, <3>1
  <2>3. slot' \in 0..MaxActions
    <3>1. slot' = slot \/ (IsBusy /\ ~(Len(state.trace) >= MaxActions) /\ slot' = Len(state.trace))
      BY <1>1 DEF TakeUp
    <3>2. CASE slot' = slot
      BY <3>2 DEF RecTypes
    <3>3. CASE IsBusy /\ ~(Len(state.trace) >= MaxActions) /\ slot' = Len(state.trace)
      <4>1. Len(state.trace) \in Nat
        BY <3>3 DEF RecTypes, IsBusy, RecState
      <4> QED
        BY <3>3, <4>1, RecorderAssumption
    <3> QED
      BY <3>1, <3>2, <3>3
  <2> QED
    BY <2>1, <2>2, <2>3 DEF RecTypes
<1>2. CASE Push
  <2>1. /\ slot' = MaxActions
        /\ UNCHANGED <<handle, chromium, accepted, idle, closers, starting, stopping,
                       gone, mixed>>
    BY <1>2 DEF Push
  <2>2. slot' \in 0..MaxActions
    BY <2>1, RecorderAssumption
  <2>3. CASE state = Nobody
    <3>1. wedged' = TRUE /\ tail' = <<>> /\ state' = state
      BY <1>2, <2>3 DEF Push
    <3>2. tail' \in Seq(Action)
      BY <3>1
    <3> QED
      BY <2>1, <2>2, <3>1, <3>2 DEF RecTypes
  <2>4. CASE state # Nobody
    <3>1. wedged' = wedged
      BY <1>2, <2>4 DEF Push
    <3>2. tail' = Tail(tail) /\ tail # <<>> /\ state' \in RecState
      BY <1>2, <2>4, PushedType
    <3>3. tail' \in Seq(Action)
      BY <3>2 DEF RecTypes
    <3> QED
      BY <2>1, <2>2, <3>1, <3>2, <3>3 DEF RecTypes
  <2> QED
    BY <2>3, <2>4
<1> QED
  BY <1>1, <1>2 DEF QueueGoesOn

LEMMA RecTypesStop == ASSUME RecTypes, StopCalled \/ StopGoesOn PROVE RecTypes'
<1>1. CASE StopCalled
  <2>1. /\ stopping' = [NoStop EXCEPT !.at = "drain", !.last = LastOfTail,
                                      !.owed = IF IsBusy THEN accepted ELSE 0]
        /\ UNCHANGED <<state, handle, chromium, accepted, tail, slot, wedged, idle,
                       closers, starting, gone, mixed>>
    BY <1>1 DEF StopCalled, AwaitsTail
  <2>2. (IF IsBusy THEN accepted ELSE 0) \in 0..MaxActions
    BY RecorderAssumption DEF RecTypes
  <2>3. stopping' \in StopRow
    BY <2>1, <2>2, LastType DEF NoStop, StopRow, Someone
  <2> QED
    BY <2>1, <2>3 DEF RecTypes
<1>2. CASE StopDrained
  <2>1. /\ CloseBrowser("stop") /\ state' = Stopped
        /\ stopping' = [stopping EXCEPT !.at = "close", !.last = NoAction]
        /\ UNCHANGED <<handle, accepted, tail, slot, wedged, starting, gone, mixed>>
    BY <1>2 DEF StopDrained
  <2>2. stopping' \in StopRow
    BY <2>1 DEF StopRow, RecTypes
  <2> QED
    BY <2>1, <2>2, CloseType, StoppedFacts DEF RecTypes
<1>3. CASE TakeSnapshot
  <2>1. /\ Returns("stop")
        /\ UNCHANGED <<state, chromium, accepted, tail, slot, wedged, idle, starting,
                       gone, mixed>>
        /\ \/ stopping' = NoStop
           \/ /\ state # Nobody
              /\ stopping' = [stopping EXCEPT !.at = "save", !.of = state.session,
                                              !.kept = Len(state.trace)]
    BY <1>3 DEF TakeSnapshot
  <2>2. NoStop \in StopRow
    BY RecorderAssumption DEF StopRow, NoStop, Someone
  <2>3. ASSUME state # Nobody PROVE state.session \in Someone /\ Len(state.trace) \in Nat
    BY <2>3 DEF RecTypes, RecState, Someone
  <2>4. stopping' \in StopRow
    <3>1. CASE stopping' = NoStop
      BY <2>2, <3>1
    <3>2. CASE /\ state # Nobody
               /\ stopping' = [stopping EXCEPT !.at = "save", !.of = state.session,
                                               !.kept = Len(state.trace)]
      BY <2>3, <3>2 DEF RecTypes, StopRow
    <3> QED
      BY <2>1, <3>1, <3>2
  <2> QED
    BY <2>1, <2>4, ReturnsType DEF RecTypes
<1>4. CASE Saved
  <2>1. /\ stopping' = NoStop
        /\ UNCHANGED <<handle, chromium, accepted, tail, slot, wedged, idle, closers,
                       starting, gone, mixed>>
        /\ \/ state' = state
           \/ /\ state # Nobody
              /\ state' = [state EXCEPT !.status = "saved", !.saved = stopping.of]
    BY <1>4 DEF Saved
  <2>2. NoStop \in StopRow
    BY RecorderAssumption DEF StopRow, NoStop, Someone
  <2>3. state' \in RecState \cup {Nobody}
    BY <2>1 DEF RecTypes, RecState, StopRow
  <2> QED
    BY <2>1, <2>2, <2>3 DEF RecTypes
<1> QED
  BY <1>1, <1>2, <1>3, <1>4 DEF StopGoesOn

LEMMA RecTypesRest ==
  ASSUME RecTypes, Frame \/ Closed \/ (\E s \in Recordings : Act(s)) \/ UNCHANGED recVars
  PROVE  RecTypes'
<1>1. CASE Frame
  BY <1>1 DEF Frame, RecTypes
<1>2. CASE Closed
  <2>1. /\ Returns("idle") \/ Returns("event")
        /\ UNCHANGED <<state, chromium, accepted, tail, slot, wedged, idle, starting,
                       stopping, gone, mixed>>
    BY <1>2 DEF Closed
  <2> QED
    BY <2>1, ReturnsType DEF RecTypes
<1>3. ASSUME NEW s \in Recordings, Act(s) PROVE RecTypes'
  <2>1. /\ Enqueue
        /\ UNCHANGED <<state, handle, chromium, slot, wedged, idle, closers, starting,
                       stopping, gone, mixed>>
    BY <1>3 DEF Act
  <2> QED
    BY <2>1, EnqueueType DEF RecTypes
<1>4. CASE UNCHANGED recVars
  BY <1>4 DEF recVars, RecTypes
<1> QED
  BY <1>1, <1>2, <1>3, <1>4

-----------------------------------------------------------------------------
(* A recording that met nothing of another one.                            *)

Apart == TraceInv /\ TailInv /\ StopInv

LEMMA RecFacts ==
  ASSUME RecTypes
  PROVE  /\ MaxActions \in Nat /\ accepted \in 0..MaxActions /\ slot \in 0..MaxActions
         /\ tail \in Seq(Action) /\ Len(tail) \in Nat
         /\ stopping \in StopRow /\ stopping.owed \in 0..MaxActions
         /\ state # Nobody => /\ state \in RecState /\ state.session \in Recordings
                              /\ state.trace \in Seq(Entry) /\ Len(state.trace) \in Nat
BY RecorderAssumption DEF RecTypes, RecState, StopRow

LEMMA OneMore ==
  ASSUME NEW a \in Nat, NEW b \in Nat, NEW i \in Nat
  PROVE  /\ i = a + b => i + 1 = a + (b + 1)
         /\ a + (b + 1) = (a + 1) + b
         /\ i <= a => i <= a + 1
OBVIOUS

LEMMA RecSame ==
  ASSUME RecInv, RecTypes', UNCHANGED <<state, accepted, tail, slot, wedged, stopping>>,
         mixed => mixed'
  PROVE  RecInv'
<1>1. QueueInv'
  BY DEF RecInv, QueueInv
<1>2. Apart => Apart'
  BY DEF Apart, TraceInv, TailInv, StopInv, Owing, IsBusy
<1> QED
  BY <1>1, <1>2 DEF RecInv, Apart

LEMMA RecBegin ==
  ASSUME RecInv, RecTypes', NEW s \in Recordings, NEW pending, Begin(s, pending),
         UNCHANGED <<tail, slot, wedged, stopping>>
  PROVE  RecInv'
<1>1. QueueInv'
  BY DEF RecInv, QueueInv
<1>2. /\ state' = [session |-> s, status |-> "recording", trace |-> <<>>, saved |-> Nobody]
      /\ accepted' = 0
  BY DEF Begin, NoneAccepted
<1>3. ASSUME ~mixed' PROVE TraceInv' /\ TailInv' /\ StopInv'
  <2>1. tail = <<>> /\ stopping = NoStop
    BY <1>3 DEF Begin
  <2>2. ~(slot' < MaxActions) /\ tail' = <<>>
    BY <1>1, <2>1 DEF QueueInv
  <2>3. /\ state'.trace = <<>> /\ state'.status = "recording" /\ Len(state'.trace) = 0
        /\ Len(tail') = 0
    BY <1>2, <2>2
  <2>4. TraceInv'
    BY <2>2, <2>3 DEF TraceInv
  <2>5. TailInv'
    BY <1>2, <2>3 DEF TailInv
  <2>6. stopping'.at = "none"
    BY <2>1 DEF NoStop
  <2>7. StopInv'
    BY <2>3, <2>6 DEF StopInv
  <2> QED
    BY <2>4, <2>5, <2>7
<1> QED
  BY <1>1, <1>3 DEF RecInv

LEMMA RecEnqueue ==
  ASSUME RecInv, RecTypes', Enqueue, UNCHANGED <<state, slot, wedged, stopping, mixed>>
  PROVE  RecInv'
<1> DEFINE new == [by |-> state.session, n |-> accepted + 1]
<1>1. CASE ~(IsBusy /\ accepted < MaxActions /\ ~wedged)
  <2>1. /\ tail' = tail
        /\ accepted' = accepted \/ (IsBusy /\ wedged /\ accepted' = accepted + 1)
    BY <1>1 DEF Enqueue
  <2>2. accepted <= accepted' /\ (accepted' = accepted \/ wedged)
    BY <2>1, RecFacts DEF RecInv
  <2>3. QueueInv'
    BY <2>1 DEF RecInv, QueueInv
  <2>4. TraceInv => TraceInv'
    BY <2>1 DEF TraceInv
  <2>5. TailInv => TailInv'
    BY <2>1, <2>2 DEF TailInv, IsBusy
  <2>6. StopInv => StopInv'
    <3>1. Owing => Owing'
      BY <2>2 DEF Owing, IsBusy
    <3> QED
      BY <3>1 DEF StopInv
  <2> QED
    BY <2>3, <2>4, <2>5, <2>6 DEF RecInv
<1>2. CASE IsBusy /\ accepted < MaxActions /\ ~wedged
  <2>1. tail' = Append(tail, new) /\ accepted' = accepted + 1
    BY <1>2 DEF Enqueue
  <2>2. /\ new \in Action /\ tail \in Seq(Action) /\ accepted \in Nat /\ Len(tail) \in Nat
        /\ Len(state.trace) \in Nat /\ stopping.owed \in Nat /\ state # Nobody
        /\ MaxActions \in Nat
    <3>1. IsBusy => state # Nobody
      BY DEF IsBusy
    <3>2. state.session \in Recordings /\ accepted + 1 \in 1..MaxActions
      BY <1>2, <3>1, RecFacts DEF RecInv
    <3> QED
      BY <1>2, <3>1, <3>2, RecFacts DEF RecInv, Action
  <2> HIDE DEF new
  <2>3. /\ tail' # <<>> /\ Len(tail') = Len(tail) + 1 /\ tail'[Len(tail) + 1] = new
        /\ \A i \in 1..Len(tail) : tail'[i] = tail[i]
    BY <2>1, <2>2
  <2>4. QueueInv'
    BY <1>2, <2>3 DEF RecInv, QueueInv
  <2>5. TraceInv => TraceInv'
    <3>1. tail # <<>> => tail'[1] = tail[1]
      BY <2>2, <2>3
    <3> QED
      BY <3>1 DEF RecInv, TraceInv, QueueInv
  <2>6. TailInv => TailInv'
    <3> SUFFICES ASSUME TailInv PROVE TailInv'
      OBVIOUS
    <3>1. \A i \in 1..Len(tail) :
              tail[i] = [by |-> state.session, n |-> Len(state.trace) + i]
      BY <1>2 DEF TailInv
    <3>a. PICK k \in Nat : k = Len(state.trace)
      BY <2>2, Zenon
    <3>c. PICK l \in Nat : l = Len(tail)
      BY <2>2, Zenon
    <3>d. accepted = k + l
      BY <1>2, <3>a, <3>c DEF TailInv
    <3>e. accepted + 1 = k + (l + 1)
      BY <3>d
    <3>b. accepted + 1 = Len(state.trace) + (Len(tail) + 1)
      BY <3>a, <3>c, <3>e
    <3>2. ASSUME NEW i \in 1..Len(tail')
          PROVE  tail'[i] = [by |-> state.session, n |-> Len(state.trace) + i]
      <4>1. CASE i = Len(tail) + 1
        <5>1. accepted + 1 = Len(state.trace) + i
          BY <3>b, <4>1
        <5> QED
          BY <2>3, <4>1, <5>1 DEF new
      <4>2. CASE i # Len(tail) + 1
        <5>1. i \in 1..Len(tail)
          BY <2>2, <2>3, <4>2
        <5> QED
          BY <2>3, <3>1, <5>1
      <4> QED
        BY <4>1, <4>2
    <3>3. accepted' = Len(state.trace) + Len(tail')
      BY <2>1, <2>3, <3>b
    <3> QED
      BY <3>2, <3>3 DEF TailInv
  <2>7. StopInv => StopInv'
    <3>1. Owing => Owing'
      BY <2>1, <2>2 DEF Owing, IsBusy
    <3> QED
      BY <3>1 DEF StopInv
  <2> QED
    BY <2>4, <2>5, <2>6, <2>7 DEF RecInv
<1> QED
  BY <1>1, <1>2

\* A failed start leaves no recording.
LEMMA RecFails ==
  ASSUME RecInv, RecTypes', state' = Nobody,
         UNCHANGED <<accepted, tail, slot, wedged, stopping, mixed>>
  PROVE  RecInv'
<1>1. QueueInv'
  BY DEF RecInv, QueueInv
<1>2. TraceInv' /\ TailInv'
  BY DEF TraceInv, TailInv, IsBusy
<1>3. StopInv => StopInv'
  BY DEF StopInv
<1> QED
  BY <1>1, <1>2, <1>3 DEF RecInv

\* A recording is stopped: nothing of its trace changes.
LEMMA RecStopped ==
  ASSUME RecInv, state' = Stopped, state' # Nobody
  PROVE  /\ state # Nobody /\ ~IsBusy'
         /\ state'.session = state.session /\ state'.trace = state.trace
         /\ state'.saved = state.saved
         /\ state'.status = "saved" => state.status = "saved"
<1>1. state # Nobody
  BY StoppedFacts DEF RecInv
<1>2. /\ state'.session = state.session /\ state'.trace = state.trace
      /\ state'.saved = state.saved
      /\ IsBusy => state'.status = "stopped"
      /\ ~IsBusy => state'.status = state.status
  BY <1>1, StoppedFacts DEF RecInv
<1>3. ~IsBusy => state.status # "recording"
  BY <1>1 DEF IsBusy
<1>4. state'.status # "recording" /\ (state'.status = "saved" => state.status = "saved")
  BY <1>2, <1>3
<1>5. ~IsBusy'
  BY <1>4 DEF IsBusy
<1> QED
  BY <1>1, <1>2, <1>4, <1>5

LEMMA RecTakeUp == ASSUME RecInv, RecTypes', TakeUp PROVE RecInv'
<1>1. /\ tail # <<>> /\ ~(slot < MaxActions)
      /\ UNCHANGED <<state, accepted, wedged, stopping, mixed>>
  BY RecorderAssumption DEF TakeUp
<1>2. ~wedged
  BY <1>1 DEF RecInv, QueueInv
<1>3. CASE ~IsBusy
  <2>1. tail' = Tail(tail) /\ slot' = slot
    BY <1>3 DEF TakeUp
  <2>2. QueueInv'
    BY <1>1, <1>2, <2>1 DEF QueueInv
  <2>3. TraceInv => TraceInv'
    BY <1>1, <2>1 DEF TraceInv
  <2>4. TailInv'
    BY <1>1, <1>3 DEF TailInv, IsBusy
  <2>5. StopInv => StopInv'
    <3>1. ~Owing
      BY <1>3 DEF Owing
    <3> QED
      BY <1>1, <3>1 DEF StopInv
  <2> QED
    BY <1>1, <2>2, <2>3, <2>4, <2>5 DEF RecInv
<1>4. CASE IsBusy
  <2>1. state # Nobody /\ Len(state.trace) \in Nat /\ tail \in Seq(Action)
    BY <1>4, RecFacts DEF RecInv, IsBusy
  <2>2. CASE Len(state.trace) >= MaxActions
    <3>1. tail' = Tail(tail) /\ slot' = slot
      BY <1>4, <2>2 DEF TakeUp
    <3>2. QueueInv'
      BY <1>1, <1>2, <3>1 DEF QueueInv
    <3>3. TailInv => FALSE
      <4>1. TailInv => accepted = Len(state.trace) + Len(tail)
        BY <1>2, <1>4 DEF TailInv
      <4>2. Len(tail) \in Nat /\ Len(tail) > 0
        BY <1>1, <2>1
      <4>3. accepted \in 0..MaxActions /\ MaxActions \in Nat
        BY RecFacts DEF RecInv
      <4> QED
        BY <2>1, <2>2, <4>1, <4>2, <4>3
    <3> QED
      BY <1>1, <3>2, <3>3 DEF RecInv
  <2>3. CASE ~(Len(state.trace) >= MaxActions)
    <3>1. slot' = Len(state.trace) /\ tail' = tail
      BY <1>4, <2>3 DEF TakeUp
    <3>2. QueueInv'
      BY <1>1, <1>2, <3>1 DEF QueueInv
    <3>3. TraceInv /\ TailInv => TraceInv'
      <4>1. TailInv => tail[1] = [by |-> state.session, n |-> Len(state.trace) + 1]
        <5>1. 1 \in 1..Len(tail)
          BY <1>1, <2>1
        <5> QED
          BY <1>4, <5>1 DEF TailInv
      <4> QED
        BY <1>1, <2>1, <3>1, <4>1 DEF TraceInv
    <3>4. TailInv => TailInv'
      BY <1>1, <3>1 DEF TailInv, IsBusy
    <3>5. StopInv => StopInv'
      BY <1>1, <3>1 DEF StopInv, Owing, IsBusy
    <3> QED
      BY <1>1, <3>2, <3>3, <3>4, <3>5 DEF RecInv
  <2> QED
    BY <2>2, <2>3
<1> QED
  BY <1>3, <1>4

LEMMA RecPush == ASSUME RecInv, RecTypes', Push PROVE RecInv'
<1>1. slot < MaxActions /\ slot' = MaxActions /\ UNCHANGED <<accepted, stopping, mixed>>
  BY DEF Push
<1>2. ~(slot' < MaxActions) /\ tail # <<>> /\ ~wedged
  BY <1>1, RecorderAssumption DEF RecInv, QueueInv
<1>3. CASE state = Nobody
  <2>1. wedged' = TRUE /\ tail' = <<>> /\ state' = Nobody
    BY <1>3 DEF Push
  <2>2. QueueInv'
    BY <1>2, <2>1 DEF QueueInv
  <2>3. TraceInv' /\ TailInv'
    BY <2>1 DEF TraceInv, TailInv, IsBusy
  <2>4. StopInv => StopInv'
    BY <1>1, <2>1 DEF StopInv
  <2> QED
    BY <1>1, <2>2, <2>3, <2>4 DEF RecInv
<1>4. CASE state # Nobody
  <2> DEFINE new == [by |-> tail[1].by, n |-> tail[1].n, idx |-> slot]
             k == Len(state.trace)
  <2>1. /\ wedged' = wedged /\ tail' = Tail(tail) /\ state' \in RecState
        /\ state'.session = state.session /\ state'.status = state.status
        /\ state'.saved = state.saved /\ state'.trace = Append(state.trace, new)
    BY <1>4, PushedType DEF RecInv, Push
  <2> HIDE DEF new
  <2>2. /\ state.trace \in Seq(Entry) /\ k \in Nat /\ tail \in Seq(Action)
        /\ accepted \in Nat /\ MaxActions \in Nat /\ stopping.owed \in Nat
    BY <1>4, RecFacts DEF RecInv
  <2>3. /\ Len(state'.trace) = k + 1 /\ state'.trace[k + 1] = new
        /\ \A i \in 1..k : state'.trace[i] = state.trace[i]
    BY <2>1, <2>2
  <2>4. /\ Len(tail) \in Nat /\ Len(tail') = Len(tail) - 1
        /\ \A i \in 1..Len(tail') : i + 1 \in 1..Len(tail) /\ tail'[i] = tail[i + 1]
    BY <1>2, <2>1, <2>2
  <2>5. QueueInv'
    BY <1>2, <2>1 DEF QueueInv
  <2>6. TraceInv => TraceInv'
    <3> SUFFICES ASSUME TraceInv,
                        NEW i \in 1..Len(state'.trace)
                 PROVE  state'.trace[i] = [by |-> state.session, n |-> i, idx |-> i - 1]
      BY <1>2, <2>1 DEF TraceInv
    <3>1. slot = k /\ tail[1] = [by |-> state.session, n |-> k + 1]
      BY <1>1, <1>4 DEF TraceInv
    <3>2. CASE i = k + 1
      <4>1. i - 1 = k
        BY <2>2, <3>2
      <4>2. new = [by |-> state.session, n |-> k + 1, idx |-> k]
        BY <3>1 DEF new
      <4> QED
        BY <2>3, <3>2, <4>1, <4>2
    <3>3. CASE i # k + 1
      <4>1. i \in 1..k
        BY <2>2, <2>3, <3>3
      <4> QED
        BY <1>4, <2>3, <4>1 DEF TraceInv
    <3> QED
      BY <3>2, <3>3
  <2>7. TailInv => TailInv'
    <3> SUFFICES ASSUME TailInv, IsBusy PROVE TailInv'
      BY <1>4, <2>1 DEF TailInv, IsBusy
    <3>1. \A i \in 1..Len(tail) : tail[i] = [by |-> state.session, n |-> k + i]
      BY DEF TailInv
    <3>2. accepted = k + Len(tail)
      BY <1>2 DEF TailInv
    <3>3. ASSUME NEW i \in 1..Len(tail')
          PROVE  tail'[i] = [by |-> state'.session, n |-> Len(state'.trace) + i]
      <4>1. k + (i + 1) = Len(state'.trace) + i
        <5>1. PICK m \in Nat : m = k
          BY <2>2, Zenon
        <5>2. Len(state'.trace) = m + 1 /\ i \in Nat
          BY <2>3, <2>4, <5>1
        <5>3. m + (i + 1) = (m + 1) + i
          BY <5>2
        <5> HIDE DEF k
        <5> QED
          BY <5>1, <5>2, <5>3
      <4>2. tail'[i] = [by |-> state.session, n |-> k + (i + 1)]
        BY <2>4, <3>1
      <4> QED
        BY <2>1, <4>1, <4>2
    <3>4. accepted' = Len(state'.trace) + Len(tail')
      BY <1>1, <2>2, <2>3, <2>4, <3>2
    <3> QED
      BY <3>3, <3>4 DEF TailInv
  <2>8. StopInv => StopInv'
    <3>2. stopping.owed <= k => stopping.owed <= Len(state'.trace)
      <4>1. PICK m \in Nat : m = k
        BY <2>2, Zenon
      <4>2. PICK o \in Nat : o = stopping.owed
        BY <2>2, Zenon
      <4>3. Len(state'.trace) = m + 1
        BY <2>3, <4>1, Zenon
      <4>4. o <= m => o <= m + 1
        OBVIOUS
      <4> HIDE DEF k
      <4> QED
        BY <4>1, <4>2, <4>3, <4>4, Zenon
    <3>1. state' # Nobody /\ Owing => Owing'
      BY <1>1, <1>4, <2>1, <3>2 DEF Owing, IsBusy
    <3> QED
      BY <1>1, <1>2, <1>4, <2>1, <3>1, <3>2 DEF StopInv
  <2> QED
    BY <1>1, <2>5, <2>6, <2>7, <2>8 DEF RecInv
<1> QED
  BY <1>3, <1>4

\* The timer or the browser ends a recording: it owes nothing any more.
LEMMA RecCutShort ==
  ASSUME RecInv, RecTypes', state' = Stopped, CutShort,
         UNCHANGED <<accepted, tail, slot, wedged, mixed>>
  PROVE  RecInv'
<1>1. stopping \in StopRow /\ stopping' = [stopping EXCEPT !.owed = IF IsBusy THEN 0 ELSE @]
  BY DEF RecInv, RecTypes, CutShort
<1>2. /\ stopping'.at = stopping.at /\ stopping'.last = stopping.last
      /\ stopping'.of = stopping.of /\ stopping'.kept = stopping.kept
      /\ stopping'.owed = IF IsBusy THEN 0 ELSE stopping.owed
  BY <1>1 DEF StopRow
<1>3. stopping.owed \in Nat /\ stopping.kept \in Nat
  BY <1>1, RecorderAssumption DEF StopRow
<1>4. QueueInv'
  BY DEF RecInv, QueueInv
<1>5. TraceInv => TraceInv'
  BY RecStopped DEF TraceInv
<1>6. TailInv'
  <2>1. ~IsBusy'
    BY RecStopped DEF IsBusy
  <2> QED
    BY <2>1 DEF TailInv
<1>7. StopInv => StopInv'
  <2> SUFFICES ASSUME StopInv PROVE StopInv'
    OBVIOUS
  <2>1. stopping.at = "save" => stopping'.kept >= stopping'.owed
    BY <1>2, <1>3 DEF StopInv
  <2>2. ASSUME state' # Nobody
        PROVE  /\ stopping.at = "drain" /\ stopping'.owed > 0 /\ ~wedged => FALSE
               /\ stopping.at = "close" /\ ~wedged => stopping'.owed <= Len(state'.trace)
               /\ stopping.at = "save" => stopping'.of = state'.session
               /\ state'.status = "saved" => state'.saved = state'.session
               /\ wedged => state'.trace = <<>>
    <3>1. /\ state # Nobody
          /\ state'.session = state.session /\ state'.trace = state.trace
          /\ state'.saved = state.saved
          /\ state'.status = "saved" => state.status = "saved"
      BY <2>2, RecStopped
    <3>2. Len(state.trace) \in Nat
      BY <3>1, RecFacts DEF RecInv
    <3>3. stopping.at = "drain" /\ stopping'.owed > 0 /\ ~wedged => FALSE
      BY <1>2, <1>3, <3>1 DEF StopInv, Owing
    <3>4. stopping.at = "close" /\ ~wedged => stopping'.owed <= Len(state'.trace)
      BY <1>2, <1>3, <3>1, <3>2 DEF StopInv
    <3> QED
      BY <1>2, <3>1, <3>3, <3>4 DEF StopInv
  <2> QED
    BY <1>2, <2>1, <2>2 DEF StopInv
<1> QED
  BY <1>4, <1>5, <1>6, <1>7 DEF RecInv

LEMMA RecStopCalled == ASSUME RecInv, RecTypes', StopCalled PROVE RecInv'
<1>1. /\ stopping.at = "none"
      /\ stopping' = [NoStop EXCEPT !.at = "drain", !.last = LastOfTail,
                                    !.owed = IF IsBusy THEN accepted ELSE 0]
      /\ UNCHANGED <<state, accepted, tail, slot, wedged, mixed>>
  BY DEF StopCalled, AwaitsTail
<1>2. /\ stopping'.at = "drain" /\ stopping'.last = LastOfTail
      /\ stopping'.owed = IF IsBusy THEN accepted ELSE 0
  BY <1>1 DEF NoStop
<1>3. QueueInv'
  BY <1>1 DEF RecInv, QueueInv
<1>4. (TraceInv => TraceInv') /\ (TailInv => TailInv')
  BY <1>1 DEF TraceInv, TailInv, IsBusy
<1>5. StopInv /\ TailInv => StopInv'
  <2> SUFFICES ASSUME StopInv, TailInv, state' # Nobody, stopping'.owed > 0, ~wedged
               PROVE  Owing'
    BY <1>1, <1>2 DEF StopInv
  <2>1. IsBusy /\ ~wedged /\ stopping'.owed = accepted
    BY <1>2
  <2>2. /\ state # Nobody /\ tail \in Seq(Action) /\ accepted \in Nat
        /\ Len(state.trace) \in Nat /\ Len(tail) \in Nat
    BY <2>1, RecFacts DEF RecInv, IsBusy
  <2>3. accepted = Len(state.trace) + Len(tail)
    BY <2>1 DEF TailInv
  <2>4. CASE tail = <<>>
    <3>1. LastOfTail = NoAction
      BY <2>4 DEF LastOfTail
    <3>2. accepted <= Len(state.trace)
      BY <2>2, <2>3, <2>4
    <3> QED
      BY <1>1, <1>2, <2>1, <2>2, <3>1, <3>2 DEF Owing, IsBusy
  <2>5. CASE tail # <<>>
    <3>1. Len(tail) \in 1..Len(tail)
      BY <2>2, <2>5
    <3>2. LastOfTail = [by |-> state.session, n |-> Len(state.trace) + Len(tail)]
      BY <2>1, <2>5, <3>1 DEF LastOfTail, TailInv
    <3>3. stopping'.last = [by |-> state'.session, n |-> stopping'.owed]
      BY <1>1, <1>2, <2>1, <2>3, <3>2
    <3> QED
      BY <1>1, <2>1, <2>2, <3>3 DEF Owing, IsBusy
  <2> QED
    BY <2>4, <2>5
<1> QED
  BY <1>1, <1>3, <1>4, <1>5 DEF RecInv

LEMMA RecStopDrained == ASSUME RecInv, RecTypes', StopDrained PROVE RecInv'
<1>1. /\ stopping.at = "drain" /\ Drained(stopping.last) /\ state' = Stopped
      /\ stopping' = [stopping EXCEPT !.at = "close", !.last = NoAction]
      /\ UNCHANGED <<accepted, tail, slot, wedged, mixed>>
  BY DEF StopDrained
<1>2. stopping'.at = "close" /\ stopping'.owed = stopping.owed
  BY <1>1 DEF RecInv, RecTypes, StopRow
<1>3. QueueInv'
  BY <1>1 DEF RecInv, QueueInv
<1>4. TraceInv => TraceInv'
  BY <1>1, RecStopped DEF TraceInv
<1>5. TailInv'
  <2>1. ~IsBusy'
    BY <1>1, RecStopped DEF IsBusy
  <2> QED
    BY <2>1 DEF TailInv
<1>6. StopInv /\ TailInv => StopInv'
  <2> SUFFICES ASSUME StopInv, TailInv, state' # Nobody
               PROVE  /\ ~wedged => stopping.owed <= Len(state'.trace)
                      /\ state'.status = "saved" => state'.saved = state'.session
                      /\ wedged => state'.trace = <<>>
    BY <1>1, <1>2 DEF StopInv
  <2>1. /\ state # Nobody
        /\ state'.session = state.session /\ state'.trace = state.trace
        /\ state'.saved = state.saved
        /\ state'.status = "saved" => state.status = "saved"
    BY <1>1, RecStopped
  <2>2. /\ Len(state.trace) \in Nat /\ stopping.owed \in Nat /\ tail \in Seq(Action)
        /\ accepted \in Nat /\ Len(tail) \in Nat
    BY <2>1, RecFacts DEF RecInv
  <2>3. ~wedged => stopping.owed <= Len(state.trace)
    <3> SUFFICES ASSUME ~wedged, stopping.owed > Len(state.trace) PROVE FALSE
      BY <2>2
    <3>1. Owing
      BY <1>1, <2>1, <2>2 DEF StopInv
    <3>2. /\ IsBusy /\ ~wedged /\ stopping.owed <= accepted
          /\ stopping.last = [by |-> state.session, n |-> stopping.owed]
      BY <2>2, <3>1 DEF Owing
    <3>3. accepted = Len(state.trace) + Len(tail)
      BY <3>2 DEF TailInv
    <3> DEFINE i == stopping.owed - Len(state.trace)
    <3>4. i \in 1..Len(tail) /\ Len(state.trace) + i = stopping.owed
      BY <2>2, <3>2, <3>3
    <3>5. tail[i] = [by |-> state.session, n |-> Len(state.trace) + i]
      BY <3>2, <3>4 DEF TailInv
    <3>6. i \in DOMAIN tail
      BY <2>2, <3>4
    <3> HIDE DEF i
    <3> QED
      BY <1>1, <3>2, <3>4, <3>5, <3>6 DEF Drained
  <2> QED
    BY <2>1, <2>3 DEF StopInv
<1> QED
  BY <1>1, <1>3, <1>4, <1>5, <1>6 DEF RecInv

LEMMA RecSnapshot == ASSUME RecInv, RecTypes', TakeSnapshot PROVE RecInv'
<1>1. stopping.at = "close" /\ UNCHANGED <<state, accepted, tail, slot, wedged, mixed>>
  BY DEF TakeSnapshot
<1>2. QueueInv'
  BY <1>1 DEF RecInv, QueueInv
<1>3. (TraceInv => TraceInv') /\ (TailInv => TailInv')
  BY <1>1 DEF TraceInv, TailInv, IsBusy
<1>4. StopInv => StopInv'
  <2>1. CASE stopping' = NoStop
    <3>1. stopping'.at = "none"
      BY <2>1 DEF NoStop
    <3> QED
      BY <1>1, <3>1 DEF StopInv
  <2>2. CASE /\ state # Nobody /\ state.trace # <<>>
             /\ stopping' = [stopping EXCEPT !.at = "save", !.of = state.session,
                                             !.kept = Len(state.trace)]
    <3>1. /\ stopping'.at = "save" /\ stopping'.owed = stopping.owed
          /\ stopping'.of = state.session /\ stopping'.kept = Len(state.trace)
      BY <2>2 DEF RecInv, RecTypes, StopRow
    <3>2. Len(state.trace) \in Nat /\ stopping.owed \in Nat
      BY <2>2, RecFacts DEF RecInv
    <3> QED
      BY <1>1, <2>2, <3>1, <3>2 DEF StopInv
  <2> QED
    BY <2>1, <2>2 DEF TakeSnapshot
<1> QED
  BY <1>1, <1>2, <1>3, <1>4 DEF RecInv

LEMMA RecSaved == ASSUME RecInv, RecTypes', Saved PROVE RecInv'
<1>1. /\ stopping.at = "save" /\ stopping' = NoStop
      /\ UNCHANGED <<accepted, tail, slot, wedged, mixed>>
  BY DEF Saved
<1>2. stopping'.at = "none"
  BY <1>1 DEF NoStop
<1>3. QueueInv'
  BY <1>1 DEF RecInv, QueueInv
<1>4. CASE state' = state
  <2>1. (TraceInv => TraceInv') /\ (TailInv => TailInv')
    BY <1>1, <1>4 DEF TraceInv, TailInv, IsBusy
  <2>2. StopInv => StopInv'
    BY <1>1, <1>2, <1>4 DEF StopInv
  <2> QED
    BY <1>1, <1>3, <2>1, <2>2 DEF RecInv
<1>5. CASE /\ state # Nobody
           /\ state' = [state EXCEPT !.status = "saved", !.saved = stopping.of]
  <2>1. /\ state'.session = state.session /\ state'.trace = state.trace
        /\ state'.status = "saved" /\ state'.saved = stopping.of
    BY <1>5 DEF RecInv, RecTypes, RecState
  <2>2. TraceInv => TraceInv'
    BY <1>1, <1>5, <2>1 DEF TraceInv
  <2>3. TailInv'
    BY <2>1 DEF TailInv, IsBusy
  <2>4. StopInv => StopInv'
    BY <1>1, <1>2, <1>5, <2>1 DEF StopInv
  <2> QED
    BY <1>1, <1>3, <2>2, <2>3, <2>4 DEF RecInv
<1> QED
  BY <1>4, <1>5 DEF Saved

LEMMA RecInitial == RecInit => RecInv
<1> SUFFICES ASSUME RecInit PROVE RecInv
  OBVIOUS
<1>1. /\ state = Nobody /\ handle = Nobody /\ accepted = 0 /\ tail = <<>>
      /\ slot = MaxActions /\ wedged = FALSE /\ idle = FALSE /\ closers = {}
      /\ stopping = NoStop /\ gone = 0 /\ mixed = FALSE
      /\ chromium = [s \in Recordings |-> "none"]
      /\ starting = [s \in Recordings |-> [at |-> "none", last |-> NoAction]]
  BY DEF RecInit
<1>2. NoStop \in StopRow
  BY RecorderAssumption DEF StopRow, NoStop, Someone
<1>3. starting \in [Recordings -> [at : {"none", "drain", "close", "launch", "goto",
                                         "fail", "done"},
                                   last : Action \cup {NoAction}]]
  BY <1>1
<1>4. chromium \in [Recordings -> {"none", "open", "closing", "closed"}]
  BY <1>1
<1>5. RecTypes
  <2>1. /\ accepted \in 0..MaxActions /\ slot \in 0..MaxActions /\ gone \in 0..MaxGone
        /\ tail \in Seq(Action)
    BY <1>1, RecorderAssumption
  <2>2. /\ state \in RecState \cup {Nobody} /\ handle \in Someone
        /\ wedged \in BOOLEAN /\ idle \in BOOLEAN /\ mixed \in BOOLEAN
        /\ closers \subseteq [who : Recordings \cup {"stop", "idle", "event"}, of : Someone]
    BY <1>1 DEF Someone
  <2> QED
    BY <1>1, <1>2, <1>3, <1>4, <2>1, <2>2 DEF RecTypes
<1>6. QueueInv
  BY <1>1, RecorderAssumption DEF QueueInv
<1>7. TraceInv /\ TailInv
  BY <1>1 DEF TraceInv, TailInv, IsBusy
<1>8. StopInv
  BY <1>1 DEF StopInv, NoStop
<1> QED
  BY <1>5, <1>6, <1>7, <1>8 DEF RecInv

LEMMA RecStep == RecInv /\ [RecNext]_recVars => RecInv'
<1> SUFFICES ASSUME RecInv, [RecNext]_recVars PROVE RecInv'
  OBVIOUS
<1> USE DEF RecInv
<1>1. ASSUME NEW s \in Recordings, Start(s) PROVE RecInv'
  <2>1. RecTypes'
    BY <1>1, RecTypesStart
  <2>2. CASE IsBusy
    BY <1>1, <2>1, <2>2, RecSame DEF Start
  <2>3. CASE ~IsBusy
    BY <1>1, <2>1, <2>3, RecBegin DEF Start
  <2> QED
    BY <2>2, <2>3
<1>2. ASSUME NEW s \in Recordings, StartGoesOn(s) PROVE RecInv'
  <2>1. RecTypes'
    BY <1>2, RecTypesGoesOn
  <2>2. CASE TearDown(s)
    BY <2>1, <2>2, RecSame DEF TearDown
  <2>3. CASE BeginFresh(s)
    BY <2>1, <2>3, RecBegin DEF BeginFresh
  <2>4. CASE LaunchBrowser(s)
    BY <2>1, <2>4, RecSame DEF LaunchBrowser
  <2>5. CASE Loaded(s)
    BY <2>1, <2>5, RecEnqueue DEF Loaded
  <2>6. CASE SetupFails(s)
    BY <2>1, <2>6, RecSame DEF SetupFails
  <2>7. CASE FailedStart(s)
    BY <2>1, <2>7, RecFails DEF FailedStart
  <2> QED
    BY <1>2, <2>2, <2>3, <2>4, <2>5, <2>6, <2>7 DEF StartGoesOn
<1>3. ASSUME NEW s \in Recordings, Act(s) PROVE RecInv'
  BY <1>3, RecTypesRest, RecEnqueue DEF Act
<1>4. ASSUME NEW s \in Recordings, ContextCloses(s) PROVE RecInv'
  BY <1>4, RecTypesEnds, RecCutShort DEF ContextCloses
<1>5. CASE TimerFires
  BY <1>5, RecTypesEnds, RecCutShort DEF TimerFires
<1>6. CASE QueueGoesOn
  BY <1>6, RecTypesQueue, RecTakeUp, RecPush DEF QueueGoesOn
<1>7. CASE Frame \/ Closed \/ UNCHANGED recVars
  <2>1. RecTypes'
    BY <1>7, RecTypesRest
  <2>2. UNCHANGED <<state, accepted, tail, slot, wedged, stopping, mixed>>
    BY <1>7 DEF Frame, Closed, recVars
  <2> QED
    BY <2>1, <2>2, RecSame
<1>8. CASE StopCalled
  BY <1>8, RecTypesStop, RecStopCalled
<1>9. CASE StopGoesOn
  BY <1>9, RecTypesStop, RecStopDrained, RecSnapshot, RecSaved DEF StopGoesOn
<1> QED
  BY <1>1, <1>2, <1>3, <1>4, <1>5, <1>6, <1>7, <1>8, <1>9 DEF RecNext

\* RecInv: of a recording that met nothing of another one, the trace and the queue
\* together are the actions it accepted, in their order.
THEOREM RecordingInvariant == RecSpec => []RecInv
<1> QED
  BY RecInitial, RecStep, PTL DEF RecSpec

\* RecTypeOK: the values of what the recorder keeps.
THEOREM RecordingTyping == RecSpec => []RecTypeOK
<1>1. RecInv => RecTypeOK
  <2> SUFFICES ASSUME RecTypes PROVE RecTypeOK
    BY DEF RecInv
  <2>1. state = Nobody \/
         /\ state.session \in Recordings /\ state.saved \in Someone
         /\ state.status \in {"recording", "stopped", "saved"}
         /\ \A i \in DOMAIN state.trace : state.trace[i] \in Entry
    <3>1. ASSUME state # Nobody
          PROVE  /\ state.session \in Recordings /\ state.saved \in Someone
                 /\ state.status \in {"recording", "stopped", "saved"}
                 /\ state.trace \in Seq(Entry)
      BY <3>1 DEF RecTypes, RecState
    <3> QED
      BY <3>1
  <2>2. \A i \in DOMAIN tail : tail[i] \in Action
    BY DEF RecTypes
  <2>3. stopping.at \in {"none", "drain", "close", "save"}
    BY DEF RecTypes, StopRow
  <2>4. {wedged, idle, mixed} \subseteq BOOLEAN
    BY DEF RecTypes
  <2> QED
    BY <2>1, <2>2, <2>3, <2>4 DEF RecTypes, RecTypeOK
<1> QED
  BY <1>1, RecordingInvariant, PTL

\* RecordingIntact (lib/recorder.ts: enqueue, stop, snapshot and markSaved): the trace
\* holds what was accepted, in its order, and a stop saves all that it is owed, of a
\* recording that is not mixed with another and whose queue has not been rejected.
THEOREM RecordingKept == RecSpec => []RecordingIntact
<1>1. RecInv => RecordingIntact
  <2> SUFFICES ASSUME RecInv PROVE RecordingIntact
    OBVIOUS
  <2>1. TraceInOrder
    <3> SUFFICES ASSUME state # Nobody, ~mixed
                 PROVE  /\ \A i \in DOMAIN state.trace :
                              state.trace[i] = [by |-> state.session, n |-> i, idx |-> i - 1]
                        /\ state.status = "saved" => state.saved = state.session
      BY DEF TraceInOrder
    <3>1. DOMAIN state.trace = 1..Len(state.trace)
      BY RecFacts DEF RecInv
    <3> QED
      BY <3>1 DEF RecInv, TraceInv, StopInv
  <2>2. StopKeepsAll
    <3>1. stopping.owed \in Nat /\ (state # Nobody => Len(state.trace) \in Nat)
      BY RecFacts DEF RecInv
    <3> QED
      BY <3>1 DEF StopKeepsAll, RecInv, StopInv
  <2> QED
    BY <2>1, <2>2 DEF RecordingIntact
<1> QED
  BY <1>1, RecordingInvariant, PTL

-----------------------------------------------------------------------------
(* The three together.                                                     *)

\* What the theorems say of slots, plans and recordings holds where all three
\* may move: a step of the composition is a step of one and stutters for the
\* others.
THEOREM RunnerParts == RunnerSpec => Spec /\ PlanSpec /\ RecSpec
<1>1. RunnerInit => Init /\ PlanInit /\ RecInit
  BY DEF RunnerInit
<1>2. [RunnerNext]_<<part, vars, planVars, recVars>>
        => [Next]_vars /\ [PlanNext]_planVars /\ [RecNext]_recVars
  BY DEF RunnerNext
<1> QED
  BY <1>1, <1>2, PTL DEF RunnerSpec, Spec, PlanSpec, RecSpec

\* The types of all three, whatever an execution, a plan or a recording does.
THEOREM RunnerTyping == RunnerSpec => []RunnerTypeOK
<1>1. TypeOK /\ PlanTypeOK /\ RecTypeOK => RunnerTypeOK
  BY DEF RunnerTypeOK
<1> QED
  BY <1>1, RunnerParts, HandoffTyping, PlanTyping, RecordingTyping, PTL
=============================================================================
