--------------------------- MODULE RunIntakeProofs ---------------------------
(***************************************************************************)
(* Theorems about RunIntake for any requests, bulk runs, passes, schedules *)
(* and limits, whatever fails.                                             *)
(***************************************************************************)
EXTENDS RunIntake, FiniteSetTheorems, TLAPS

-----------------------------------------------------------------------------
(* The inductive invariant.                                                *)

\* Which steps a call can be at.
ActorOK ==
    /\ \A q \in Request :
          /\ proc[q].pc \in {"idle", "quota", "reserve", "create", "enqueue", "answer",
                             "release"}
          /\ proc[q].pc \in {"reserve", "answer", "release"} => proc[q].key \in Key
    /\ \A b \in Bulk : proc[b].pc \in {"idle", "create", "enqueue", "record"}
    /\ \A t \in Ticker :
          /\ proc[t].pc \in {"idle", "claim", "owner", "create", "enqueue"}
          /\ proc[t].pc \in {"owner", "create", "enqueue"} => proc[t].sched \in Schedule

\* The request that holds the reservation of k.
Holds(q, k) == proc[q].key = k /\ proc[q].pc \in {"create", "enqueue", "answer", "release"}

\* A key has one holder, and a run only once its holder has queued it.
KeyOK ==
    \A k \in Key :
        /\ \A q, r \in Request : Holds(q, k) /\ Holds(r, k) => q = r
        /\ \A q \in Request : Holds(q, k) => key[k] = "reserved"
        /\ k \notin excused =>
              /\ jobs[k] <= 1
              /\ key[k] = "free" => jobs[k] = 0
              /\ \A q \in Request :
                    Holds(q, k) /\ proc[q].pc # "answer" => jobs[k] = 0

\* The pass that has claimed the time x of s.
Fires(t, s, x) ==
    proc[t].sched = s /\ proc[t].slot = x /\ proc[t].pc \in {"owner", "create", "enqueue"}

\* A time that was claimed, or has a run, is behind the schedule.
FireOK ==
    \A s \in Schedule, x \in Time :
        /\ \A t, u \in Ticker : Fires(t, s, x) /\ Fires(u, s, x) => t = u
        /\ \A t \in Ticker : Fires(t, s, x) => x < sched[s].next /\ jobs[<<s, x>>] = 0
        /\ jobs[<<s, x>>] <= 1
        /\ jobs[<<s, x>>] > 0 => x < sched[s].next

\* A bulk run in progress has counted the children it has queued.
BulkOK ==
    \A b \in Bulk :
        /\ proc[b].pc # "idle" =>
              /\ total[b] = None /\ jobs[b] = proc[b].started
              /\ proc[b].started + proc[b].left <= Rows
        /\ proc[b].pc \in {"create", "enqueue"} => proc[b].left >= 1
        /\ total[b] # None => total[b] = jobs[b]

\* The passes that have read the count and not yet used it.
Creating == {t \in Ticker : proc[t].pc = "create"}

QuotaOK ==
    /\ recent["metered"] <= Limit
    /\ Used + Cardinality(Creating) <= Limit + Cardinality(Ticker)

IInv == TypeOK /\ ActorOK /\ KeyOK /\ FireOK /\ BulkOK /\ QuotaOK

-----------------------------------------------------------------------------
(* Typing.                                                                 *)

LEMMA NoProcType == NoProc \in ProcState
BY BoundsAssumption DEF NoProc, ProcState, ProcPC, Time

LEMMA PassOnType == ASSUME NEW me \in ProcState PROVE PassOn(me) \in ProcState
<1>1. CASE me.todo = {}
  BY <1>1, NoProcType DEF PassOn
<1>2. CASE me.todo # {}
  BY <1>2, NoProcType DEF PassOn, ProcState, ProcPC, NoProc
<1> QED
  BY <1>1, <1>2

LEMMA RowDoneType ==
  ASSUME NEW me \in ProcState, NEW n \in 0..Rows, me.left >= 1
  PROVE  RowDone(me, n) \in ProcState
<1> DEFINE left == me.left - 1
<1>1. left \in 0..Rows
  BY BoundsAssumption DEF ProcState
<1>2. CASE left = 0 /\ n = 0
  BY <1>2, NoProcType DEF RowDone
<1>3. CASE ~(left = 0 /\ n = 0)
  <2>1. RowDone(me, n) = [me EXCEPT !.pc = IF left = 0 THEN "record" ELSE "create",
                                    !.left = left, !.started = n]
    BY <1>3 DEF RowDone
  <2> HIDE DEF left
  <2> QED
    BY <1>1, <2>1 DEF ProcState, ProcPC
<1> QED
  BY <1>2, <1>3

\* Where calls of each kind go on.
LEMMA RequestGoesOn ==
  ASSUME NEW q \in Request
  PROVE  /\ Thrown(q) = IF proc[q].key = None THEN NoProc ELSE [proc[q] EXCEPT !.pc = "release"]
         /\ Answered(q) = IF proc[q].key = None THEN NoProc ELSE [proc[q] EXCEPT !.pc = "answer"]
         /\ Kind(q) = "metered" /\ OriginOf(q) = proc[q].key
BY ActorsAssumption DEF Thrown, Answered, Kind, OriginOf

LEMMA BulkGoesOn ==
  ASSUME NEW b \in Bulk
  PROVE  /\ Thrown(b) = RowDone(proc[b], proc[b].started)
         /\ Answered(b) = RowDone(proc[b], proc[b].started + 1)
         /\ Kind(b) = "metered" /\ OriginOf(b) = b
BY ActorsAssumption DEF Thrown, Answered, Kind, OriginOf

LEMMA TickerGoesOn ==
  ASSUME NEW t \in Ticker
  PROVE  /\ Thrown(t) = PassOn(proc[t]) /\ Answered(t) = PassOn(proc[t])
         /\ Kind(t) = "scheduled" /\ OriginOf(t) = <<proc[t].sched, proc[t].slot>>
BY DEF Thrown, Answered, Kind, OriginOf

LEMMA GoesOnType ==
  ASSUME IInv, NEW p \in Proc, proc[p].pc # "idle"
  PROVE  /\ p \in Bulk /\ proc[p].pc \in {"create", "enqueue"}
            => Thrown(p) \in ProcState /\ Answered(p) \in ProcState
         /\ p \notin Bulk => Thrown(p) \in ProcState /\ Answered(p) \in ProcState
<1> DEFINE me == proc[p]
<1>1. me \in ProcState
  BY DEF IInv, TypeOK
<1>2. CASE p \in Bulk
  <2>1. ASSUME me.pc \in {"create", "enqueue"}
        PROVE  me.left >= 1 /\ me.started \in 0..Rows /\ me.started + 1 \in 0..Rows
    <3>1. me.left >= 1 /\ me.started + me.left <= Rows
      BY <1>2, <2>1 DEF IInv, BulkOK
    <3>2. me.left \in 0..Rows /\ me.started \in 0..Rows
      BY <1>1 DEF ProcState
    <3> QED
      BY <3>1, <3>2, BoundsAssumption
  <2> QED
    BY <1>1, <1>2, <2>1, BulkGoesOn, RowDoneType
<1>3. CASE p \in Request
  BY <1>1, <1>3, RequestGoesOn, NoProcType, ActorsAssumption DEF ProcState, ProcPC
<1>4. CASE p \in Ticker
  BY <1>1, <1>4, TickerGoesOn, PassOnType, ActorsAssumption
<1> QED
  BY <1>2, <1>3, <1>4 DEF Proc

\* One call takes a step, to a record of its type.
LEMMA BecomeType ==
  ASSUME TypeOK, NEW p \in Proc, NEW me \in ProcState,
         me.pc = "idle" => me = NoProc, Become(p, me)
  PROVE  /\ proc' \in [Proc -> ProcState]
         /\ \A r \in Proc : proc'[r].pc = "idle" => proc'[r] = NoProc
         /\ proc'[p] = me /\ \A r \in Proc \ {p} : proc'[r] = proc[r]
BY DEF TypeOK, Become

-----------------------------------------------------------------------------
(* What a step leaves alone.                                               *)

\* Where a call of its kind may be.
Fits(p, me) ==
    /\ p \in Request =>
          /\ me.pc \in {"idle", "quota", "reserve", "create", "enqueue", "answer", "release"}
          /\ me.pc \in {"reserve", "answer", "release"} => me.key \in Key
    /\ p \in Bulk => me.pc \in {"idle", "create", "enqueue", "record"}
    /\ p \in Ticker =>
          /\ me.pc \in {"idle", "claim", "owner", "create", "enqueue"}
          /\ me.pc \in {"owner", "create", "enqueue"} => me.sched \in Schedule

LEMMA ActorStep ==
  ASSUME IInv, NEW p \in Proc, NEW me \in ProcState, Become(p, me), Fits(p, me)
  PROVE  ActorOK'
<1>1. proc'[p] = me /\ \A r \in Proc \ {p} : proc'[r] = proc[r]
  BY DEF IInv, TypeOK, Become
<1>2. ASSUME NEW q \in Request
      PROVE  (/\ proc[q].pc \in {"idle", "quota", "reserve", "create", "enqueue", "answer",
                                 "release"}
              /\ proc[q].pc \in {"reserve", "answer", "release"} => proc[q].key \in Key)'
  BY <1>1 DEF IInv, ActorOK, Proc, Fits
<1>3. ASSUME NEW b \in Bulk
      PROVE  (proc[b].pc \in {"idle", "create", "enqueue", "record"})'
  BY <1>1 DEF IInv, ActorOK, Proc, Fits
<1>4. ASSUME NEW t \in Ticker
      PROVE  (/\ proc[t].pc \in {"idle", "claim", "owner", "create", "enqueue"}
              /\ proc[t].pc \in {"owner", "create", "enqueue"} => proc[t].sched \in Schedule)'
  BY <1>1 DEF IInv, ActorOK, Proc, Fits
<1> QED
  BY <1>2, <1>3, <1>4 DEF ActorOK

LEMMA KeyFrame ==
  ASSUME IInv, UNCHANGED key, excused \subseteq excused',
         \A k \in Key : jobs'[k] = jobs[k],
         \A q \in Request, k \in Key :
            Holds(q, k)' => /\ Holds(q, k)
                            /\ \/ proc'[q].pc = "answer" \/ proc[q].pc # "answer"
                               \/ k \in excused'
  PROVE  KeyOK'
<1> SUFFICES ASSUME NEW k \in Key
             PROVE  (/\ \A q, r \in Request : Holds(q, k) /\ Holds(r, k) => q = r
                     /\ \A q \in Request : Holds(q, k) => key[k] = "reserved"
                     /\ k \notin excused =>
                           /\ jobs[k] <= 1
                           /\ key[k] = "free" => jobs[k] = 0
                           /\ \A q \in Request :
                                 Holds(q, k) /\ proc[q].pc # "answer" => jobs[k] = 0)'
  BY DEF KeyOK
<1>1. \A q, r \in Request : Holds(q, k)' /\ Holds(r, k)' => q = r
  BY DEF IInv, KeyOK
<1>2. \A q \in Request : Holds(q, k)' => key[k] = "reserved"
  BY DEF IInv, KeyOK
<1>3. ASSUME k \notin excused' PROVE jobs[k] <= 1 /\ (key[k] = "free" => jobs[k] = 0)
  BY <1>3 DEF IInv, KeyOK
<1>4. ASSUME k \notin excused', NEW q \in Request, Holds(q, k)', proc'[q].pc # "answer"
      PROVE  jobs[k] = 0
  BY <1>4 DEF IInv, KeyOK
<1> QED
  BY <1>1, <1>2, <1>3, <1>4

LEMMA FireFrame ==
  ASSUME IInv,
         \A s \in Schedule, x \in Time : jobs'[<<s, x>>] = jobs[<<s, x>>],
         \A s \in Schedule : sched'[s].next = sched[s].next,
         \A t \in Ticker, s \in Schedule, x \in Time : Fires(t, s, x)' => Fires(t, s, x)
  PROVE  FireOK'
<1> SUFFICES ASSUME NEW s \in Schedule, NEW x \in Time
             PROVE  (/\ \A t, u \in Ticker : Fires(t, s, x) /\ Fires(u, s, x) => t = u
                     /\ \A t \in Ticker : Fires(t, s, x) => x < sched[s].next /\ jobs[<<s, x>>] = 0
                     /\ jobs[<<s, x>>] <= 1
                     /\ jobs[<<s, x>>] > 0 => x < sched[s].next)'
  BY DEF FireOK
<1>1. \A t, u \in Ticker : Fires(t, s, x)' /\ Fires(u, s, x)' => t = u
  BY DEF IInv, FireOK
<1>2. \A t \in Ticker : Fires(t, s, x)' => x < sched[s].next /\ jobs[<<s, x>>] = 0
  BY DEF IInv, FireOK
<1>3. jobs[<<s, x>>] <= 1 /\ (jobs[<<s, x>>] > 0 => x < sched[s].next)
  BY DEF IInv, FireOK
<1> QED
  BY <1>1, <1>2, <1>3

LEMMA BulkFrame ==
  ASSUME IInv,
         \A b \in Bulk : /\ total'[b] = total[b] /\ jobs'[b] = jobs[b]
                         /\ proc'[b] = proc[b] \/ proc'[b].pc = "idle"
  PROVE  BulkOK'
<1> SUFFICES ASSUME NEW b \in Bulk
             PROVE  (/\ proc[b].pc # "idle" =>
                          /\ total[b] = None /\ jobs[b] = proc[b].started
                          /\ proc[b].started + proc[b].left <= Rows
                     /\ proc[b].pc \in {"create", "enqueue"} => proc[b].left >= 1
                     /\ total[b] # None => total[b] = jobs[b])'
  BY DEF BulkOK
<1>1. CASE proc'[b] = proc[b]
  BY <1>1 DEF IInv, BulkOK
<1>2. CASE proc'[b].pc = "idle"
  BY <1>2 DEF IInv, BulkOK
<1> QED
  BY <1>1, <1>2

LEMMA CountsAreNat ==
  ASSUME IInv
  PROVE  /\ Used \in Nat /\ recent["metered"] \in Nat /\ recent["scheduled"] \in Nat
         /\ IsFiniteSet(Creating) /\ Cardinality(Creating) \in Nat
         /\ Cardinality(Ticker) \in Nat
<1>1. Creating \subseteq Ticker
  BY DEF Creating
<1>2. IsFiniteSet(Creating) /\ IsFiniteSet(Ticker)
  BY <1>1, ActorsAssumption, FS_Subset
<1>3. Cardinality(Creating) \in Nat /\ Cardinality(Ticker) \in Nat
  BY <1>2, FS_CardinalityType
<1> QED
  BY <1>2, <1>3 DEF IInv, TypeOK, Used

LEMMA QuotaFrame ==
  ASSUME IInv, UNCHANGED recent,
         \A t \in Ticker : proc'[t].pc = "create" => proc[t].pc = "create"
  PROVE  QuotaOK'
<1>1. Creating' \subseteq Creating
  BY DEF Creating
<1>2. Cardinality(Creating') \in Nat /\ Cardinality(Creating') <= Cardinality(Creating)
  <2>1. IsFiniteSet(Creating')
    BY <1>1, CountsAreNat, FS_Subset
  <2> QED
    BY <1>1, <2>1, CountsAreNat, FS_Subset, FS_CardinalityType
<1>3. Used' = Used /\ recent'["metered"] = recent["metered"]
  BY DEF Used
<1> QED
  BY <1>2, <1>3, CountsAreNat, BoundsAssumption DEF IInv, QuotaOK

\* A run of the metered kind is inserted when there is room for it.
LEMMA QuotaMetered ==
  ASSUME IInv, Used < Limit, recent' = [recent EXCEPT !["metered"] = @ + 1],
         \A t \in Ticker : proc'[t] = proc[t]
  PROVE  QuotaOK'
<1>1. /\ recent'["metered"] = recent["metered"] + 1
      /\ recent'["scheduled"] = recent["scheduled"]
  BY DEF IInv, TypeOK
<1>2. Creating' = Creating
  BY DEF Creating
<1>3. Used' = Used + 1
  BY <1>1, CountsAreNat DEF Used
<1>4. Cardinality(Creating) <= Cardinality(Ticker)
  BY ActorsAssumption, FS_Subset DEF Creating
<1> QED
  BY <1>1, <1>2, <1>3, <1>4, CountsAreNat, BoundsAssumption DEF Used, QuotaOK

\* A request, a bulk run or a pass that takes a step touches nothing of the others.
LEMMA RequestAlone ==
  ASSUME IInv, NEW q \in Request, NEW me \in ProcState, Become(q, me),
         UNCHANGED <<sched, total>>, \A o \in Origin \ Key : jobs'[o] = jobs[o]
  PROVE  FireOK' /\ BulkOK' /\ \A t \in Ticker : proc'[t] = proc[t]
<1>1. \A r \in Proc \ {q} : proc'[r] = proc[r]
  BY DEF IInv, TypeOK, Become
<1>2. /\ \A t \in Ticker : proc'[t] = proc[t]
      /\ \A b \in Bulk : proc'[b] = proc[b]
  BY <1>1, ActorsAssumption DEF Proc
<1>3. \A b \in Bulk : jobs'[b] = jobs[b]
  BY ActorsAssumption DEF Origin
<1>4. \A s \in Schedule, x \in Time : jobs'[<<s, x>>] = jobs[<<s, x>>]
  BY ActorsAssumption DEF Origin, Firing, Time
<1>5. FireOK'
  BY <1>2, <1>4, FireFrame DEF Fires
<1>6. BulkOK'
  BY <1>2, <1>3, BulkFrame
<1> QED
  BY <1>2, <1>5, <1>6

LEMMA BulkAlone ==
  ASSUME IInv, NEW b \in Bulk, NEW me \in ProcState, Become(b, me),
         UNCHANGED <<sched, key, excused>>, \A o \in Origin \ Bulk : jobs'[o] = jobs[o]
  PROVE  FireOK' /\ KeyOK' /\ \A t \in Ticker : proc'[t] = proc[t]
<1>1. \A r \in Proc \ {b} : proc'[r] = proc[r]
  BY DEF IInv, TypeOK, Become
<1>2. /\ \A t \in Ticker : proc'[t] = proc[t]
      /\ \A q \in Request : proc'[q] = proc[q]
  BY <1>1, ActorsAssumption DEF Proc
<1>3. \A k \in Key : jobs'[k] = jobs[k]
  BY ActorsAssumption DEF Origin
<1>4. \A s \in Schedule, x \in Time : jobs'[<<s, x>>] = jobs[<<s, x>>]
  BY ActorsAssumption DEF Origin, Firing, Time
<1>5. FireOK'
  BY <1>2, <1>4, FireFrame DEF Fires
<1>6. KeyOK'
  BY <1>2, <1>3, KeyFrame DEF Holds
<1> QED
  BY <1>2, <1>5, <1>6

LEMMA TickerAlone ==
  ASSUME IInv, NEW t \in Ticker, NEW me \in ProcState, Become(t, me),
         UNCHANGED <<total, key, excused>>, \A o \in Key \cup Bulk : jobs'[o] = jobs[o]
  PROVE  KeyOK' /\ BulkOK' /\ \A u \in Ticker \ {t} : proc'[u] = proc[u]
<1>1. \A r \in Proc \ {t} : proc'[r] = proc[r]
  BY DEF IInv, TypeOK, Become
<1>2. /\ \A q \in Request : proc'[q] = proc[q]
      /\ \A b \in Bulk : proc'[b] = proc[b]
      /\ \A u \in Ticker \ {t} : proc'[u] = proc[u]
  BY <1>1, ActorsAssumption DEF Proc
<1>3. KeyOK'
  BY <1>2, KeyFrame DEF Holds
<1>4. BulkOK'
  BY <1>2, BulkFrame
<1> QED
  BY <1>2, <1>3, <1>4

-----------------------------------------------------------------------------
(* The requests.                                                           *)

Held == {"create", "enqueue", "answer", "release"}

\* A step of a request that changes no row.
LEMMA QuietRequest ==
  ASSUME IInv, NEW q \in Request, NEW me \in ProcState, me.pc = "idle" => me = NoProc,
         Become(q, me), Fits(q, me), UNCHANGED <<recent, jobs, key, sched, total, clock>>,
         failures' \in 0..MaxFailures, excused' \subseteq Key, excused \subseteq excused',
         me.pc \in Held /\ me.key \in Key =>
            /\ me.key = proc[q].key /\ proc[q].pc \in Held
            /\ me.pc = "answer" \/ proc[q].pc # "answer" \/ me.key \in excused'
  PROVE  IInv'
<1>1. q \in Proc
  BY DEF Proc
<1>2. proc'[q] = me /\ \A r \in Proc \ {q} : proc'[r] = proc[r]
  BY <1>1, BecomeType DEF IInv
<1>3. TypeOK'
  BY <1>1, BecomeType DEF IInv, TypeOK
<1>4. FireOK' /\ BulkOK' /\ \A t \in Ticker : proc'[t] = proc[t]
  BY RequestAlone
<1>5. QuotaOK'
  BY <1>4, QuotaFrame
<1>6. ASSUME NEW r \in Request, NEW k \in Key, Holds(r, k)'
      PROVE  /\ Holds(r, k)
             /\ \/ proc'[r].pc = "answer" \/ proc[r].pc # "answer" \/ k \in excused'
  <2>1. CASE r = q
    BY <1>2, <1>6, <2>1 DEF Holds, Held
  <2>2. CASE r # q
    BY <1>2, <1>6, <2>2 DEF Holds, Proc
  <2> QED
    BY <2>1, <2>2
<1>7. KeyOK'
  BY <1>6, KeyFrame
<1> QED
  BY <1>1, <1>3, <1>4, <1>5, <1>7, ActorStep DEF IInv

\* The records a request goes through.
LEMMA RequestRecords ==
  ASSUME IInv, NEW q \in Request
  PROVE  /\ q \in Proc /\ proc[q] \in ProcState
         /\ \A pc \in {"reserve", "create", "enqueue", "answer", "release"} :
               LET me == [proc[q] EXCEPT !.pc = pc] IN
               me \in ProcState /\ me.pc = pc /\ me.key = proc[q].key
         /\ NoProc \in ProcState /\ NoProc.pc = "idle" /\ Fits(q, NoProc)
<1>1. q \in Proc /\ proc[q] \in ProcState
  BY DEF IInv, TypeOK, Proc
<1>2. \A pc \in {"reserve", "create", "enqueue", "answer", "release"} :
         LET me == [proc[q] EXCEPT !.pc = pc] IN
         me \in ProcState /\ me.pc = pc /\ me.key = proc[q].key
  BY <1>1 DEF ProcState, ProcPC
<1>3. Fits(q, NoProc)
  BY ActorsAssumption DEF Fits, NoProc
<1> QED
  BY <1>1, <1>2, <1>3, NoProcType DEF NoProc

LEMMA RequestFits ==
  ASSUME NEW q \in Request, NEW me,
         me.pc \in {"idle", "quota", "reserve", "create", "enqueue", "answer", "release"},
         me.pc \in {"reserve", "answer", "release"} => me.key \in Key
  PROVE  Fits(q, me)
BY ActorsAssumption DEF Fits

LEMMA StepPost ==
  ASSUME IInv, NEW q \in Request, NEW k \in Key \cup {None}, Post(q, k) PROVE IInv'
<1> DEFINE me == [NoProc EXCEPT !.pc = "quota", !.key = k]
<1>1. me \in ProcState /\ me.pc = "quota"
  BY NoProcType DEF ProcState, ProcPC, NoProc
<1>2. Become(q, me) /\ UNCHANGED <<recent, jobs, key, sched, total, clock, failures, excused>>
  BY DEF Post
<1>3. failures \in 0..MaxFailures /\ excused \subseteq Key
  BY DEF IInv, TypeOK
<1> HIDE DEF me
<1>4. Fits(q, me)
  BY <1>1, RequestFits
<1> QED
  BY <1>1, <1>2, <1>3, <1>4, QuietRequest DEF Held

LEMMA StepQuota ==
  ASSUME IInv, NEW q \in Request, CheckQuota(q) PROVE IInv'
<1>1. /\ UNCHANGED <<recent, jobs, key, sched, total, clock, failures, excused>>
      /\ proc[q].pc = "quota" /\ failures \in 0..MaxFailures /\ excused \subseteq Key
  BY DEF CheckQuota, IInv, TypeOK
<1>2. CASE Used >= Limit
  <2>1. Become(q, NoProc)
    BY <1>2 DEF CheckQuota
  <2> QED
    BY <1>1, <2>1, RequestRecords, QuietRequest DEF Held
<1>3. CASE ~(Used >= Limit)
  <2> DEFINE pc == IF proc[q].key = None THEN "create" ELSE "reserve"
             me == [proc[q] EXCEPT !.pc = pc]
  <2>1. Become(q, me)
    BY <1>3, RequestRecords DEF CheckQuota, Goto, Become, IInv, TypeOK
  <2>2. me \in ProcState /\ me.pc = pc /\ me.key = proc[q].key
    BY RequestRecords
  <2>3. proc[q].key \in Key \cup {None}
    BY RequestRecords DEF ProcState
  <2> HIDE DEF me
  <2>4. Fits(q, me)
    BY <2>2, <2>3, RequestFits
  <2>5. me.pc # "idle" /\ ~(me.pc \in Held /\ me.key \in Key)
    BY <2>2, <2>3, ActorsAssumption DEF Held
  <2> QED
    BY <1>1, <2>1, <2>2, <2>4, <2>5, QuietRequest
<1> QED
  BY <1>2, <1>3

\* A step of a request that changes its key, and what it has to see to.
LEMMA KeyStep ==
  ASSUME IInv, NEW q \in Request, NEW k \in Key, NEW me \in ProcState,
         me.pc = "idle" => me = NoProc, Become(q, me), Fits(q, me),
         proc[q].key = k, UNCHANGED <<recent, jobs, sched, total, clock, failures, excused>>,
         NEW to \in {"free", "reserved", "done"}, key' = [key EXCEPT ![k] = to],
         \/ proc[q].pc = "reserve" /\ key[k] = "free" /\ to = "reserved"
                /\ me.pc = "create" /\ me.key = k
         \/ proc[q].pc = "answer" /\ to = "done" /\ me = NoProc
         \/ proc[q].pc = "release" /\ to = "free" /\ me = NoProc
  PROVE  IInv'
<1>1. q \in Proc /\ NoProc.pc = "idle"
  BY DEF Proc, NoProc
<1>2. proc'[q] = me /\ \A r \in Request \ {q} : proc'[r] = proc[r]
  BY <1>1, BecomeType DEF IInv, Proc
<1>3. TypeOK'
  BY <1>1, BecomeType DEF IInv, TypeOK
<1>4. FireOK' /\ BulkOK' /\ \A t \in Ticker : proc'[t] = proc[t]
  BY RequestAlone
<1>5. QuotaOK'
  BY <1>4, QuotaFrame
<1>6. key'[k] = to /\ \A j \in Key \ {k} : key'[j] = key[j]
  BY DEF IInv, TypeOK
<1>7. KeyOK'
  <2> SUFFICES ASSUME NEW j \in Key
               PROVE  (/\ \A p, r \in Request : Holds(p, j) /\ Holds(r, j) => p = r
                       /\ \A p \in Request : Holds(p, j) => key[j] = "reserved"
                       /\ j \notin excused =>
                             /\ jobs[j] <= 1
                             /\ key[j] = "free" => jobs[j] = 0
                             /\ \A p \in Request :
                                   Holds(p, j) /\ proc[p].pc # "answer" => jobs[j] = 0)'
    BY DEF KeyOK
  <2>1. /\ \A p, r \in Request : Holds(p, j) /\ Holds(r, j) => p = r
        /\ \A p \in Request : Holds(p, j) => key[j] = "reserved"
        /\ j \notin excused =>
              /\ jobs[j] <= 1
              /\ key[j] = "free" => jobs[j] = 0
              /\ \A p \in Request :
                    Holds(p, j) /\ proc[p].pc # "answer" => jobs[j] = 0
    BY DEF IInv, KeyOK
  <2>2. \A r \in Request \ {q} : Holds(r, j)' <=> Holds(r, j)
    BY <1>2 DEF Holds
  <2>3. CASE j # k
    <3>1. ~Holds(q, j)'
      BY <1>1, <1>2, <2>3 DEF Holds
    <3> QED
      BY <1>2, <1>6, <2>1, <2>2, <2>3, <3>1
  <2>4. CASE j = k /\ proc[q].pc = "reserve"
    <3>1. key[j] = "free" /\ key'[j] = "reserved" /\ \A r \in Request : ~Holds(r, j)
      BY <1>1, <1>6, <2>1, <2>4
    <3> QED
      BY <1>2, <2>1, <2>2, <3>1
  <2>5. CASE j = k /\ proc[q].pc = "answer"
    <3>1. Holds(q, j) /\ key'[j] = "done" /\ ~Holds(q, j)'
      BY <1>1, <1>2, <1>6, <2>5 DEF Holds
    <3>2. \A r \in Request : ~Holds(r, j)'
      BY <2>1, <2>2, <3>1
    <3> QED
      BY <2>1, <3>1, <3>2
  <2>6. CASE j = k /\ proc[q].pc = "release"
    <3>1. Holds(q, j) /\ key'[j] = "free" /\ ~Holds(q, j)'
      BY <1>1, <1>2, <1>6, <2>6 DEF Holds
    <3>2. \A r \in Request : ~Holds(r, j)'
      BY <2>1, <2>2, <3>1
    <3>3. j \notin excused => jobs[j] = 0
      BY <2>1, <2>6, <3>1
    <3> QED
      BY <2>1, <3>1, <3>2, <3>3
  <2> QED
    BY <2>3, <2>4, <2>5, <2>6
<1> QED
  BY <1>1, <1>3, <1>4, <1>5, <1>7, ActorStep DEF IInv

LEMMA StepReserve ==
  ASSUME IInv, NEW q \in Request, Reserve(q) PROVE IInv'
<1> DEFINE k == proc[q].key
           me == [proc[q] EXCEPT !.pc = "create"]
<1>1. /\ UNCHANGED <<recent, jobs, sched, total, clock, failures, excused>>
      /\ proc[q].pc = "reserve" /\ failures \in 0..MaxFailures /\ excused \subseteq Key
      /\ k \in Key /\ key[k] \in {"free", "reserved", "done"}
  BY DEF Reserve, IInv, TypeOK, ActorOK
<1>2. CASE Taken(k)
  <2>1. Become(q, NoProc) /\ UNCHANGED key
    BY <1>2 DEF Reserve
  <2> QED
    BY <1>1, <2>1, RequestRecords, QuietRequest DEF Held
<1>3. CASE ~Taken(k)
  <2>1. key' = [key EXCEPT ![k] = "reserved"] /\ Become(q, me)
    BY <1>3 DEF Reserve, Goto, Become
  <2>2. me \in ProcState /\ me.pc = "create" /\ me.key = k
    BY RequestRecords
  <2> HIDE DEF me
  <2>3. Fits(q, me)
    BY <2>2, RequestFits
  <2>4. key[k] = "free"
    BY <1>3 DEF Taken
  <2> QED
    BY <1>1, <2>1, <2>2, <2>3, <2>4, KeyStep
<1> QED
  BY <1>2, <1>3

LEMMA StepAnswer ==
  ASSUME IInv, NEW q \in Request, Answer(q) PROVE IInv'
<1> DEFINE k == proc[q].key
<1>1. /\ UNCHANGED <<recent, jobs, sched, total, clock, failures, excused>>
      /\ proc[q].pc = "answer" /\ failures \in 0..MaxFailures /\ excused \subseteq Key
      /\ k \in Key /\ Become(q, NoProc)
  BY DEF Answer, IInv, TypeOK, ActorOK
<1>2. CASE Taken(k)
  <2>1. key' = [key EXCEPT ![k] = "done"]
    BY <1>2 DEF Answer
  <2> QED
    BY <1>1, <2>1, RequestRecords, KeyStep
<1>3. CASE ~Taken(k)
  <2>1. UNCHANGED key
    BY <1>3 DEF Answer
  <2> QED
    BY <1>1, <2>1, RequestRecords, QuietRequest DEF Held
<1> QED
  BY <1>2, <1>3

LEMMA StepRelease ==
  ASSUME IInv, NEW q \in Request, Release(q) PROVE IInv'
<1>1. /\ UNCHANGED <<recent, jobs, sched, total, clock, failures, excused>>
      /\ proc[q].pc = "release" /\ proc[q].key \in Key /\ Become(q, NoProc)
      /\ key' = [key EXCEPT ![proc[q].key] = "free"]
  BY DEF Release, IInv, ActorOK
<1> QED
  BY <1>1, RequestRecords, KeyStep

LEMMA StepRequestCreates ==
  ASSUME IInv, NEW q \in Request, CreateRun(q) PROVE IInv'
<1>1. /\ UNCHANGED <<jobs, key, sched, total, clock, failures, excused>>
      /\ proc[q].pc = "create" /\ failures \in 0..MaxFailures /\ excused \subseteq Key
      /\ proc[q].key \in Key \cup {None}
  BY RequestRecords DEF CreateRun, IInv, TypeOK, ProcState
<1>2. CASE Refused(q)
  <2>1. Become(q, Thrown(q)) /\ UNCHANGED recent
    BY <1>2 DEF CreateRun
  <2>2. CASE proc[q].key = None
    <3>1. Thrown(q) = NoProc
      BY <2>2, RequestGoesOn
    <3> QED
      BY <1>1, <2>1, <3>1, RequestRecords, QuietRequest DEF Held
  <2>3. CASE proc[q].key # None
    <3> DEFINE me == [proc[q] EXCEPT !.pc = "release"]
    <3>1. Become(q, me)
      BY <2>1, <2>3, RequestGoesOn
    <3>2. me \in ProcState /\ me.pc = "release" /\ me.key = proc[q].key
      BY RequestRecords
    <3> HIDE DEF me
    <3>3. Fits(q, me)
      BY <1>1, <2>3, <3>2, RequestFits
    <3> QED
      BY <1>1, <2>1, <3>1, <3>2, <3>3, QuietRequest DEF Held
  <2> QED
    BY <2>2, <2>3
<1>3. CASE ~Refused(q)
  <2> DEFINE me == [proc[q] EXCEPT !.pc = "enqueue"]
  <2>1. /\ recent' = [recent EXCEPT !["metered"] = @ + 1]
        /\ Become(q, me) /\ Used < Limit
    BY <1>3, RequestGoesOn, CountsAreNat, BoundsAssumption
       DEF CreateRun, Refused, Goto, Become
  <2>2. me \in ProcState /\ me.pc = "enqueue" /\ me.key = proc[q].key
    BY RequestRecords
  <2> HIDE DEF me
  <2>3. Fits(q, me)
    BY <2>2, RequestFits
  <2>4. q \in Proc
    BY DEF Proc
  <2>5. recent' \in [{"metered", "scheduled"} -> Nat]
    BY <2>1 DEF IInv, TypeOK
  <2>6. TypeOK'
    BY <1>1, <2>1, <2>2, <2>4, <2>5, BecomeType DEF IInv, TypeOK
  <2>7. FireOK' /\ BulkOK' /\ \A t \in Ticker : proc'[t] = proc[t]
    BY <1>1, <2>1, <2>2, RequestAlone
  <2>8. QuotaOK'
    BY <2>1, <2>7, QuotaMetered
  <2>9. KeyOK'
    <3>1. proc'[q] = me /\ \A r \in Request \ {q} : proc'[r] = proc[r]
      BY <2>1, <2>2, <2>4, BecomeType DEF IInv, Proc
    <3>2. ASSUME NEW r \in Request, NEW k \in Key, Holds(r, k)'
          PROVE  Holds(r, k) /\ (proc'[r].pc = "answer" \/ proc[r].pc # "answer")
      BY <1>1, <2>2, <3>1, <3>2 DEF Holds
    <3> QED
      BY <1>1, <3>2, KeyFrame
  <2> QED
    BY <2>1, <2>2, <2>3, <2>4, <2>6, <2>7, <2>8, <2>9, ActorStep DEF IInv
<1> QED
  BY <1>2, <1>3

LEMMA StepRequestQueues ==
  ASSUME IInv, NEW q \in Request, EnqueueRunJob(q) PROVE IInv'
<1> DEFINE k == proc[q].key
<1>0. OriginOf(q) = k
  BY RequestGoesOn
<1>1. /\ UNCHANGED <<recent, key, sched, total, clock, failures, excused>>
      /\ proc[q].pc = "enqueue" /\ failures \in 0..MaxFailures /\ excused \subseteq Key
      /\ k \in Key \cup {None} /\ Become(q, Answered(q))
  BY RequestRecords DEF EnqueueRunJob, IInv, TypeOK, ProcState
<1>q. jobs' = IF k \in Origin /\ jobs[k] < MaxCount
             THEN [jobs EXCEPT ![k] = @ + 1] ELSE jobs
  BY <1>0 DEF EnqueueRunJob
<1>2. CASE k = None
  <2>1. None \notin Origin
    BY ActorsAssumption DEF Origin, Firing, Time
  <2>2. UNCHANGED jobs /\ Become(q, NoProc)
    BY <1>1, <1>q, <1>2, <2>1, RequestGoesOn
  <2> QED
    BY <1>1, <2>2, RequestRecords, QuietRequest DEF Held
<1>3. CASE k \in Key
  <2> DEFINE me == [proc[q] EXCEPT !.pc = "answer"]
  <2>1. Become(q, me)
    BY <1>1, <1>3, RequestGoesOn, ActorsAssumption
  <2>2. me \in ProcState /\ me.pc = "answer" /\ me.key = k
    BY RequestRecords
  <2> HIDE DEF me
  <2>3. Fits(q, me) /\ q \in Proc
    BY <1>3, <2>2, RequestFits DEF Proc
  <2>4. /\ jobs' \in [Origin -> 0..MaxCount]
        /\ \A o \in Origin \ {k} : jobs'[o] = jobs[o]
        /\ jobs'[k] <= jobs[k] + 1 /\ jobs[k] \in Nat /\ jobs'[k] \in Nat
    <3>1. jobs \in [Origin -> 0..MaxCount] /\ MaxCount \in Nat /\ k \in Origin
      BY <1>3, BoundsAssumption DEF IInv, TypeOK, Origin
    <3>2. CASE jobs[k] < MaxCount
      <4>1. jobs' = [jobs EXCEPT ![k] = jobs[k] + 1]
        BY <1>q, <3>1, <3>2
      <4>2. jobs[k] + 1 \in 0..MaxCount
        BY <3>1, <3>2
      <4> QED
        BY <3>1, <4>1, <4>2
    <3>3. CASE ~(jobs[k] < MaxCount)
      BY <1>q, <3>1, <3>3
    <3> QED
      BY <3>2, <3>3
  <2>5. TypeOK'
    BY <1>1, <2>1, <2>2, <2>3, <2>4, BecomeType DEF IInv, TypeOK
  <2>6. FireOK' /\ BulkOK' /\ \A t \in Ticker : proc'[t] = proc[t]
    BY <1>1, <1>3, <2>1, <2>2, <2>4, RequestAlone
  <2>7. QuotaOK'
    BY <1>1, <2>6, QuotaFrame
  <2>8. KeyOK'
    <3>1. proc'[q] = me /\ \A r \in Request \ {q} : proc'[r] = proc[r]
      BY <2>1, <2>2, <2>3, BecomeType DEF IInv, Proc
    <3>2. SUFFICES ASSUME NEW j \in Key
                   PROVE  (/\ \A p, r \in Request : Holds(p, j) /\ Holds(r, j) => p = r
                           /\ \A p \in Request : Holds(p, j) => key[j] = "reserved"
                           /\ j \notin excused =>
                                 /\ jobs[j] <= 1
                                 /\ key[j] = "free" => jobs[j] = 0
                                 /\ \A p \in Request :
                                       Holds(p, j) /\ proc[p].pc # "answer" => jobs[j] = 0)'
      BY DEF KeyOK
    <3>3. /\ \A p, r \in Request : Holds(p, j) /\ Holds(r, j) => p = r
          /\ \A p \in Request : Holds(p, j) => key[j] = "reserved"
          /\ j \notin excused =>
                /\ jobs[j] <= 1
                /\ key[j] = "free" => jobs[j] = 0
                /\ \A p \in Request :
                      Holds(p, j) /\ proc[p].pc # "answer" => jobs[j] = 0
      BY DEF IInv, KeyOK
    <3>4. \A r \in Request : Holds(r, j)' <=> Holds(r, j)
      BY <1>1, <2>2, <3>1 DEF Holds
    <3>5. CASE j # k
      <4>1. jobs'[j] = jobs[j]
        BY <2>4, <3>5 DEF Origin
      <4>2. \A r \in Request : Holds(r, j) => proc'[r] = proc[r]
        BY <3>1, <3>5 DEF Holds
      <4> QED
        BY <1>1, <3>3, <3>4, <4>1, <4>2
    <3>6. CASE j = k
      <4>1. Holds(q, j) /\ proc[q].pc # "answer" /\ proc'[q].pc = "answer"
        BY <1>1, <2>2, <3>1, <3>6 DEF Holds
      <4>2. key[j] = "reserved"
        BY <3>3, <4>1
      <4>3. \A r \in Request : Holds(r, j)' => r = q
        BY <3>3, <3>4, <4>1
      <4>4. j \notin excused => jobs'[j] <= 1
        BY <2>4, <3>3, <3>6, <4>1
      <4> QED
        BY <1>1, <3>3, <3>4, <4>1, <4>2, <4>3, <4>4
    <3> QED
      BY <3>5, <3>6
  <2> QED
    BY <2>1, <2>2, <2>3, <2>5, <2>6, <2>7, <2>8, ActorStep DEF IInv
<1> QED
  BY <1>1, <1>2, <1>3

LEMMA StepRequestFails ==
  ASSUME IInv, NEW q \in Request, FailStatement(q) PROVE IInv'
<1>1. /\ UNCHANGED <<recent, jobs, key, sched, total, clock>>
      /\ proc[q].pc \in {"quota", "reserve", "create", "enqueue", "answer", "release"}
      /\ proc[q].pc = "answer" => proc[q].key \in Key
      /\ Become(q, Failed(q))
      /\ excused' = IF proc[q].pc = "answer" THEN excused \cup {proc[q].key} ELSE excused
  BY DEF FailStatement, IInv, ActorOK
<1>2. failures' \in 0..MaxFailures
  BY BoundsAssumption DEF FailStatement, Fail, IInv, TypeOK
<1>3. excused' \subseteq Key /\ excused \subseteq excused'
  BY <1>1 DEF IInv, TypeOK
<1>4. CASE Failed(q) = NoProc
  BY <1>1, <1>2, <1>3, <1>4, RequestRecords, QuietRequest DEF Held
<1>5. CASE Failed(q) # NoProc
  <2> DEFINE me == [proc[q] EXCEPT !.pc = "release"]
  <2>1. /\ Failed(q) = me /\ proc[q].key # None
        /\ proc[q].pc \in {"create", "enqueue", "answer"}
    BY <1>1, <1>5, RequestGoesOn DEF Failed
  <2>2. me \in ProcState /\ me.pc = "release" /\ me.key = proc[q].key
    BY RequestRecords
  <2>3. proc[q].key \in Key
    BY <2>1, RequestRecords DEF ProcState
  <2>4. proc[q].pc = "answer" => proc[q].key \in excused'
    BY <1>1
  <2> HIDE DEF me
  <2>5. Fits(q, me)
    BY <2>2, <2>3, RequestFits
  <2> QED
    BY <1>1, <1>2, <1>3, <2>1, <2>2, <2>3, <2>4, <2>5, QuietRequest DEF Held
<1> QED
  BY <1>4, <1>5

-----------------------------------------------------------------------------
(* The bulk runs.                                                          *)

\* What a step of a bulk run has to see to.
LEMMA BulkStep ==
  ASSUME IInv, NEW b \in Bulk, NEW me \in ProcState, me.pc = "idle" => me = NoProc,
         Become(b, me), UNCHANGED <<key, sched, clock, excused>>, QuotaOK',
         me.pc \in {"idle", "create", "enqueue", "record"},
         recent' \in [{"metered", "scheduled"} -> Nat], failures' \in 0..MaxFailures,
         jobs' \in [Origin -> 0..MaxCount], \A o \in Origin \ {b} : jobs'[o] = jobs[o],
         total' \in [Bulk -> {None} \cup 0..Rows],
         \A c \in Bulk \ {b} : total'[c] = total[c],
         me.pc # "idle" => /\ total'[b] = None /\ jobs'[b] = me.started
                           /\ me.started + me.left <= Rows,
         me.pc \in {"create", "enqueue"} => me.left >= 1,
         total'[b] # None => total'[b] = jobs'[b]
  PROVE  IInv'
<1>1. b \in Proc /\ Fits(b, me)
  BY ActorsAssumption DEF Proc, Fits
<1>2. proc'[b] = me /\ \A r \in Proc \ {b} : proc'[r] = proc[r]
  BY <1>1, BecomeType DEF IInv
<1>3. TypeOK'
  BY <1>1, BecomeType DEF IInv, TypeOK
<1>4. FireOK' /\ KeyOK'
  BY BulkAlone
<1>5. BulkOK'
  <2> SUFFICES ASSUME NEW c \in Bulk
               PROVE  (/\ proc[c].pc # "idle" =>
                            /\ total[c] = None /\ jobs[c] = proc[c].started
                            /\ proc[c].started + proc[c].left <= Rows
                       /\ proc[c].pc \in {"create", "enqueue"} => proc[c].left >= 1
                       /\ total[c] # None => total[c] = jobs[c])'
    BY DEF BulkOK
  <2>1. CASE c = b
    BY <1>2, <2>1
  <2>2. CASE c # b
    <3>1. proc'[c] = proc[c] /\ jobs'[c] = jobs[c] /\ total'[c] = total[c]
      BY <1>2, <2>2 DEF Proc, Origin
    <3> QED
      BY <3>1 DEF IInv, BulkOK
  <2> QED
    BY <2>1, <2>2
<1> QED
  BY <1>1, <1>3, <1>4, <1>5, ActorStep DEF IInv

\* What is known of a bulk run in progress.
LEMMA BulkRecords ==
  ASSUME IInv, NEW b \in Bulk
  PROVE  /\ b \in Proc /\ b \in Origin /\ proc[b] \in ProcState
         /\ proc[b].started \in 0..Rows /\ proc[b].left \in 0..Rows
         /\ jobs \in [Origin -> 0..MaxCount] /\ total \in [Bulk -> {None} \cup 0..Rows]
         /\ recent \in [{"metered", "scheduled"} -> Nat] /\ failures \in 0..MaxFailures
         /\ proc[b].pc # "idle" =>
               /\ total[b] = None /\ jobs[b] = proc[b].started
               /\ proc[b].started + proc[b].left <= Rows
         /\ proc[b].pc \in {"create", "enqueue"} => proc[b].left >= 1
         /\ total[b] # None => total[b] = jobs[b]
         /\ \A t \in Ticker : t # b
<1>1. b \in Proc /\ b \in Origin
  BY DEF Proc, Origin
<1>2. proc[b] \in ProcState
  BY <1>1 DEF IInv, TypeOK
<1>3. proc[b].started \in 0..Rows /\ proc[b].left \in 0..Rows
  BY <1>2 DEF ProcState
<1> QED
  BY <1>1, <1>2, <1>3, ActorsAssumption DEF IInv, TypeOK, BulkOK

\* The next row, after n children: it has at most the rows that are left.
LEMMA RowDoneSteps ==
  ASSUME NEW me \in ProcState, NEW n \in 0..Rows, me.left >= 1,
         n + me.left <= Rows + 1
  PROVE  LET next == RowDone(me, n) IN
         /\ next \in ProcState /\ next.pc \in {"idle", "create", "record"}
         /\ next.pc = "idle" => next = NoProc
         /\ next.pc # "idle" => next.started = n /\ next.started + next.left <= Rows
         /\ next.pc = "create" => next.left >= 1
<1> DEFINE left == me.left - 1
<1>0. me.left \in 0..Rows
  BY DEF ProcState
<1>1. left \in 0..Rows /\ n + left <= Rows
  BY <1>0, BoundsAssumption
<1>2. RowDone(me, n) \in ProcState
  BY RowDoneType
<1>3. CASE left = 0 /\ n = 0
  <2>1. RowDone(me, n) = NoProc /\ NoProc.pc = "idle"
    BY <1>3 DEF RowDone, NoProc
  <2> QED
    BY <1>2, <2>1
<1>4. CASE ~(left = 0 /\ n = 0)
  <2>1. RowDone(me, n) = [me EXCEPT !.pc = IF left = 0 THEN "record" ELSE "create",
                                    !.left = left, !.started = n]
    BY <1>4 DEF RowDone
  <2> HIDE DEF left
  <2>2. /\ RowDone(me, n).pc = IF left = 0 THEN "record" ELSE "create"
        /\ RowDone(me, n).left = left /\ RowDone(me, n).started = n
    BY <2>1 DEF ProcState
  <2> QED
    BY <1>1, <1>2, <2>2
<1> QED
  BY <1>3, <1>4

LEMMA StepStartBulk ==
  ASSUME IInv, NEW b \in Bulk, StartBulk(b) PROVE IInv'
<1> DEFINE me == [NoProc EXCEPT !.pc = "create", !.left = Rows]
<1>1. /\ UNCHANGED <<recent, jobs, key, sched, total, clock, failures, excused>>
      /\ total[b] = None /\ jobs[b] = 0 /\ Become(b, me)
  BY DEF StartBulk
<1>2. Rows \in 0..Rows /\ Rows >= 1 /\ 0 + Rows <= Rows
  BY BoundsAssumption
<1>3. me \in ProcState /\ me.pc = "create" /\ me.left = Rows /\ me.started = 0
  BY <1>2, NoProcType DEF ProcState, ProcPC, NoProc
<1> HIDE DEF me
<1>4. \A t \in Ticker : proc'[t] = proc[t]
  BY <1>1, BulkRecords, BecomeType DEF IInv, TypeOK, Become, Proc
<1>5. QuotaOK'
  BY <1>1, <1>4, QuotaFrame
<1> QED
  BY <1>1, <1>2, <1>3, <1>5, BulkRecords, BulkStep

LEMMA StepBulkCreates ==
  ASSUME IInv, NEW b \in Bulk, CreateRun(b) PROVE IInv'
<1>1. /\ UNCHANGED <<jobs, key, sched, total, clock, failures, excused>>
      /\ proc[b].pc = "create"
  BY DEF CreateRun
<1>2. CASE Refused(b)
  <2> DEFINE me == RowDone(proc[b], proc[b].started)
  <2>1. Become(b, me) /\ UNCHANGED recent
    BY <1>2, BulkGoesOn DEF CreateRun
  <2>2. /\ me \in ProcState /\ me.pc \in {"idle", "create", "record"}
        /\ me.pc = "idle" => me = NoProc
        /\ me.pc # "idle" => me.started = proc[b].started /\ me.started + me.left <= Rows
        /\ me.pc = "create" => me.left >= 1
    BY <1>1, BulkRecords, RowDoneSteps, BoundsAssumption
  <2> HIDE DEF me
  <2>3. \A t \in Ticker : proc'[t] = proc[t]
    BY <2>1, BulkRecords DEF IInv, TypeOK, Become, Proc
  <2>4. QuotaOK'
    BY <2>1, <2>3, QuotaFrame
  <2> QED
    BY <1>1, <2>1, <2>2, <2>4, BulkRecords, BulkStep
<1>3. CASE ~Refused(b)
  <2> DEFINE me == [proc[b] EXCEPT !.pc = "enqueue"]
  <2>1. /\ recent' = [recent EXCEPT !["metered"] = @ + 1]
        /\ Become(b, me) /\ Used < Limit
    BY <1>3, BulkGoesOn, CountsAreNat, BoundsAssumption
       DEF CreateRun, Refused, Goto, Become
  <2>2. /\ me \in ProcState /\ me.pc = "enqueue" /\ me.left = proc[b].left
        /\ me.started = proc[b].started
    BY BulkRecords DEF ProcState, ProcPC
  <2> HIDE DEF me
  <2>3. \A t \in Ticker : proc'[t] = proc[t]
    BY <2>1, BulkRecords DEF IInv, TypeOK, Become, Proc
  <2>4. QuotaOK'
    BY <2>1, <2>3, QuotaMetered
  <2>5. recent' \in [{"metered", "scheduled"} -> Nat]
    BY <2>1, BulkRecords
  <2> QED
    BY <1>1, <2>1, <2>2, <2>4, <2>5, BulkRecords, BulkStep
<1> QED
  BY <1>2, <1>3

LEMMA StepBulkQueues ==
  ASSUME IInv, NEW b \in Bulk, EnqueueRunJob(b) PROVE IInv'
<1> DEFINE me == RowDone(proc[b], proc[b].started + 1)
<1>0. OriginOf(b) = b /\ Answered(b) = me
  BY BulkGoesOn
<1>1. /\ UNCHANGED <<recent, key, sched, total, clock, failures, excused>>
      /\ proc[b].pc = "enqueue" /\ Become(b, me)
  BY <1>0 DEF EnqueueRunJob
<1>2. /\ proc[b].started + 1 \in 0..Rows /\ jobs[b] = proc[b].started
      /\ jobs[b] + 1 \in 0..MaxCount /\ jobs[b] < MaxCount /\ total[b] = None
      /\ proc[b].started + 1 + proc[b].left <= Rows + 1
  BY <1>1, BulkRecords, BoundsAssumption
<1>3. jobs' = [jobs EXCEPT ![b] = jobs[b] + 1]
  BY <1>0, <1>2, BulkRecords DEF EnqueueRunJob
<1>4. /\ jobs' \in [Origin -> 0..MaxCount] /\ jobs'[b] = proc[b].started + 1
      /\ \A o \in Origin \ {b} : jobs'[o] = jobs[o]
  BY <1>2, <1>3, BulkRecords
<1>5. /\ me \in ProcState /\ me.pc \in {"idle", "create", "record"}
      /\ me.pc = "idle" => me = NoProc
      /\ me.pc # "idle" => me.started = proc[b].started + 1 /\ me.started + me.left <= Rows
      /\ me.pc = "create" => me.left >= 1
  BY <1>1, <1>2, BulkRecords, RowDoneSteps
<1> HIDE DEF me
<1>6. \A t \in Ticker : proc'[t] = proc[t]
  BY <1>1, BulkRecords DEF IInv, TypeOK, Become, Proc
<1>7. QuotaOK'
  BY <1>1, <1>6, QuotaFrame
<1> QED
  BY <1>1, <1>2, <1>4, <1>5, <1>7, BulkRecords, BulkStep

\* A bulk run that is over leaves its total, or none.
LEMMA BulkEnds ==
  ASSUME IInv, NEW b \in Bulk, Become(b, NoProc), proc[b].pc # "idle",
         UNCHANGED <<recent, jobs, key, sched, clock, excused>>,
         failures' \in 0..MaxFailures,
         total' = total \/ total' = [total EXCEPT ![b] = proc[b].started]
  PROVE  IInv'
<1>1. NoProc \in ProcState /\ NoProc.pc = "idle"
  BY NoProcType DEF NoProc
<1>2. \A t \in Ticker : proc'[t] = proc[t]
  BY BulkRecords DEF IInv, TypeOK, Become, Proc
<1>3. QuotaOK'
  BY <1>2, QuotaFrame
<1>4. /\ total' \in [Bulk -> {None} \cup 0..Rows]
      /\ \A c \in Bulk \ {b} : total'[c] = total[c]
      /\ total'[b] # None => total'[b] = jobs'[b]
  BY BulkRecords
<1> QED
  BY <1>1, <1>3, <1>4, BulkRecords, BulkStep

LEMMA StepRecordBulk ==
  ASSUME IInv, NEW b \in Bulk, RecordBulk(b) PROVE IInv'
<1>1. /\ UNCHANGED <<recent, jobs, key, sched, clock, failures, excused>>
      /\ proc[b].pc = "record" /\ Become(b, NoProc)
      /\ total' = [total EXCEPT ![b] = proc[b].started]
  BY DEF RecordBulk, TotalOf
<1> QED
  BY <1>1, BulkEnds, BulkRecords

LEMMA StepBulkFails ==
  ASSUME IInv, NEW b \in Bulk, FailStatement(b) PROVE IInv'
<1>1. /\ UNCHANGED <<recent, jobs, key, sched, total, clock, excused>>
      /\ proc[b].pc \in {"create", "enqueue", "record"} /\ Become(b, Failed(b))
  BY DEF FailStatement, IInv, ActorOK
<1>2. failures' \in 0..MaxFailures
  BY BoundsAssumption, BulkRecords DEF FailStatement, Fail
<1>3. CASE proc[b].pc = "record"
  <2>1. Failed(b) = NoProc
    BY <1>3 DEF Failed
  <2> QED
    BY <1>1, <1>2, <2>1, BulkEnds
<1>4. CASE proc[b].pc \in {"create", "enqueue"}
  <2> DEFINE me == RowDone(proc[b], proc[b].started)
  <2>1. Become(b, me)
    BY <1>1, <1>4, BulkGoesOn DEF Failed
  <2>2. /\ me \in ProcState /\ me.pc \in {"idle", "create", "record"}
        /\ me.pc = "idle" => me = NoProc
        /\ me.pc # "idle" => me.started = proc[b].started /\ me.started + me.left <= Rows
        /\ me.pc = "create" => me.left >= 1
    BY <1>4, BulkRecords, RowDoneSteps, BoundsAssumption
  <2> HIDE DEF me
  <2>3. \A t \in Ticker : proc'[t] = proc[t]
    BY <2>1, BulkRecords DEF IInv, TypeOK, Become, Proc
  <2>4. QuotaOK'
    BY <1>1, <2>3, QuotaFrame
  <2> QED
    BY <1>1, <1>2, <2>1, <2>2, <2>4, BulkRecords, BulkStep
<1> QED
  BY <1>1, <1>3, <1>4

-----------------------------------------------------------------------------
(* The scheduler.                                                          *)

\* What a step of a pass has to see to.
LEMMA TickerStep ==
  ASSUME IInv, NEW t \in Ticker, NEW me \in ProcState, me.pc = "idle" => me = NoProc,
         Become(t, me), UNCHANGED <<key, total, clock, excused>>, QuotaOK', FireOK',
         me.pc \in {"idle", "claim", "owner", "create", "enqueue"},
         me.pc \in {"owner", "create", "enqueue"} => me.sched \in Schedule,
         recent' \in [{"metered", "scheduled"} -> Nat], failures' \in 0..MaxFailures,
         jobs' \in [Origin -> 0..MaxCount], \A o \in Key \cup Bulk : jobs'[o] = jobs[o],
         sched' \in [Schedule -> [active : BOOLEAN, next : Time]]
  PROVE  IInv'
<1>1. t \in Proc /\ Fits(t, me)
  BY ActorsAssumption DEF Proc, Fits
<1>2. TypeOK'
  BY <1>1, BecomeType DEF IInv, TypeOK
<1>3. KeyOK' /\ BulkOK'
  BY TickerAlone
<1> QED
  BY <1>1, <1>2, <1>3, ActorStep DEF IInv

\* What is known of a pass.
LEMMA TickerRecords ==
  ASSUME IInv, NEW t \in Ticker
  PROVE  /\ t \in Proc /\ proc[t] \in ProcState /\ proc[t].slot \in Time
         /\ proc[t].now \in 0..MaxClock /\ proc[t].now + 1 \in Time
         /\ proc[t].todo \subseteq Schedule
         /\ jobs \in [Origin -> 0..MaxCount] /\ failures \in 0..MaxFailures
         /\ sched \in [Schedule -> [active : BOOLEAN, next : Time]]
         /\ recent \in [{"metered", "scheduled"} -> Nat]
         /\ proc[t].pc \in {"idle", "claim", "owner", "create", "enqueue"}
         /\ proc[t].pc \in {"owner", "create", "enqueue"} => proc[t].sched \in Schedule
         /\ \A s \in Schedule : /\ sched[s].active \in BOOLEAN /\ sched[s].next \in Time
                                /\ sched[s].next \in Int
<1>1. t \in Proc
  BY DEF Proc
<1>2. proc[t] \in ProcState
  BY <1>1 DEF IInv, TypeOK
<1>3. /\ proc[t].slot \in Time /\ proc[t].now \in 0..MaxClock
      /\ proc[t].todo \subseteq Schedule
  BY <1>2 DEF ProcState
<1>4. proc[t].now + 1 \in Time
  BY <1>3, BoundsAssumption DEF Time
<1>5. /\ jobs \in [Origin -> 0..MaxCount] /\ failures \in 0..MaxFailures
      /\ sched \in [Schedule -> [active : BOOLEAN, next : Time]]
      /\ recent \in [{"metered", "scheduled"} -> Nat]
  BY DEF IInv, TypeOK
<1>6. \A s \in Schedule : /\ sched[s].active \in BOOLEAN /\ sched[s].next \in Time
                          /\ sched[s].next \in Int
  BY <1>5 DEF Time
<1> QED
  BY <1>1, <1>2, <1>3, <1>4, <1>5, <1>6 DEF IInv, ActorOK

\* What the next of a pass is.
LEMMA PassOnSteps ==
  ASSUME NEW me \in ProcState
  PROVE  /\ PassOn(me) \in ProcState /\ PassOn(me).pc \in {"idle", "claim"}
         /\ PassOn(me).pc = "idle" => PassOn(me) = NoProc
<1>1. PassOn(me) \in ProcState
  BY PassOnType
<1>2. CASE me.todo = {}
  BY <1>1, <1>2 DEF PassOn, NoProc
<1>3. CASE me.todo # {}
  <2>1. PassOn(me).pc = "claim"
    BY <1>3 DEF PassOn, NoProc
  <2> QED
    BY <1>1, <2>1
<1> QED
  BY <1>2, <1>3

\* A step of a pass that has no firing in hand afterwards and changes no count.
LEMMA PassMoves ==
  ASSUME IInv, NEW t \in Ticker, NEW me \in ProcState, me.pc \in {"idle", "claim"},
         me.pc = "idle" => me = NoProc, Become(t, me),
         UNCHANGED <<recent, jobs, key, total, clock, excused>>,
         failures' \in 0..MaxFailures,
         sched' \in [Schedule -> [active : BOOLEAN, next : Time]],
         \A s \in Schedule : sched'[s].next = sched[s].next
  PROVE  IInv'
<1>1. proc'[t] = me /\ \A r \in Proc \ {t} : proc'[r] = proc[r]
  BY TickerRecords, BecomeType DEF IInv
<1>2. \A u \in Ticker : proc'[u] = proc[u] \/ u = t
  BY <1>1 DEF Proc
<1>3. QuotaOK'
  BY <1>1, <1>2, QuotaFrame
<1>4. FireOK'
  BY <1>1, <1>2, FireFrame DEF Fires
<1> QED
  BY <1>3, <1>4, TickerRecords, TickerStep

LEMMA StepTick ==
  ASSUME IInv, NEW t \in Ticker, Tick(t) PROVE IInv'
<1> DEFINE todo == {s \in Schedule : Due(s)}
           me == [NoProc EXCEPT !.pc = "claim", !.now = clock, !.todo = todo]
<1>1. /\ UNCHANGED <<recent, jobs, key, sched, total, clock, failures, excused>>
      /\ Become(t, me)
  BY DEF Tick
<1>2. clock \in 0..MaxClock /\ todo \subseteq Schedule
  BY DEF IInv, TypeOK
<1> HIDE DEF todo
<1>3. me \in ProcState /\ me.pc = "claim"
  BY <1>2, NoProcType DEF ProcState, ProcPC, NoProc
<1> HIDE DEF me
<1> QED
  BY <1>1, <1>3, TickerRecords, PassMoves

\* Whoever claims a time has it alone: it was not behind the schedule before.
LEMMA StepClaim ==
  ASSUME IInv, NEW t \in Ticker, ClaimSchedule(t) PROVE IInv'
<1>1. /\ UNCHANGED <<recent, jobs, key, total, clock, failures, excused>>
      /\ proc[t].pc = "claim"
  BY DEF ClaimSchedule
<1>2. PICK s \in proc[t].todo :
         LET me == [proc[t] EXCEPT !.todo = @ \ {s}] IN
         IF Claimable(t, s)
         THEN /\ sched' = [sched EXCEPT ![s].next = proc[t].now + 1]
              /\ Become(t, [me EXCEPT !.pc = "owner", !.sched = s,
                                      !.slot = sched[s].next])
         ELSE UNCHANGED sched /\ Become(t, PassOn(me))
  BY DEF ClaimSchedule
<1> DEFINE me == [proc[t] EXCEPT !.todo = @ \ {s}]
<1>3. s \in Schedule /\ me \in ProcState
  BY TickerRecords DEF ProcState
<1>4. CASE ~Claimable(t, s)
  <2>1. UNCHANGED sched /\ Become(t, PassOn(me))
    BY <1>2, <1>4
  <2> HIDE DEF me
  <2> QED
    BY <1>1, <1>3, <2>1, TickerRecords, PassOnSteps, PassMoves
<1>5. CASE Claimable(t, s)
  <2> DEFINE x == sched[s].next
             n == proc[t].now + 1
             mine == [me EXCEPT !.pc = "owner", !.sched = s, !.slot = x]
  <2>1. sched' = [sched EXCEPT ![s].next = n] /\ Become(t, mine)
    BY <1>2, <1>5
  <2>2. x \in Time /\ n \in Time /\ x < n /\ n \in Int /\ x \in Int
    BY <1>3, <1>5, TickerRecords, BoundsAssumption DEF Claimable, Time
  <2> HIDE DEF x, n, me
  <2>3. mine \in ProcState /\ mine.pc = "owner" /\ mine.sched = s /\ mine.slot = x
    BY <1>3, <2>2 DEF ProcState, ProcPC
  <2> HIDE DEF mine
  <2>4. /\ sched' \in [Schedule -> [active : BOOLEAN, next : Time]]
        /\ sched'[s].next = n /\ \A r \in Schedule \ {s} : sched'[r] = sched[r]
    <3>1. [sched[s] EXCEPT !.next = n] \in [active : BOOLEAN, next : Time]
      BY <1>3, <2>2, TickerRecords
    <3> QED
      BY <1>3, <2>1, <3>1, TickerRecords
  <2>5. proc'[t] = mine /\ \A r \in Ticker \ {t} : proc'[r] = proc[r]
    BY <2>1, <2>3, TickerRecords, BecomeType DEF IInv, Proc
  <2>6. QuotaOK'
    BY <1>1, <2>3, <2>5, QuotaFrame
  <2>7. FireOK'
    <3> SUFFICES ASSUME NEW r \in Schedule, NEW y \in Time
                 PROVE  (/\ \A u, v \in Ticker : Fires(u, r, y) /\ Fires(v, r, y) => u = v
                         /\ \A u \in Ticker : Fires(u, r, y) =>
                               y < sched[r].next /\ jobs[<<r, y>>] = 0
                         /\ jobs[<<r, y>>] <= 1
                         /\ jobs[<<r, y>>] > 0 => y < sched[r].next)'
      BY DEF FireOK
    <3>1. /\ \A u, v \in Ticker : Fires(u, r, y) /\ Fires(v, r, y) => u = v
          /\ \A u \in Ticker : Fires(u, r, y) =>
                y < sched[r].next /\ jobs[<<r, y>>] = 0
          /\ jobs[<<r, y>>] <= 1
          /\ jobs[<<r, y>>] > 0 => y < sched[r].next
      BY DEF IInv, FireOK
    <3>2. jobs[<<r, y>>] \in Nat /\ y \in Int
      BY TickerRecords DEF Origin, Firing, Time
    <3>3. \A u \in Ticker \ {t} : Fires(u, r, y)' <=> Fires(u, r, y)
      BY <2>5 DEF Fires
    <3>4. Fires(t, r, y)' <=> (r = s /\ y = x)
      BY <2>3, <2>5 DEF Fires
    <3>5. CASE r = s /\ y = x
      <4>1. ~(y < sched[r].next)
        BY <2>2, <3>5 DEF x
      <4>2. jobs[<<r, y>>] = 0 /\ \A u \in Ticker : ~Fires(u, r, y)
        BY <3>1, <3>2, <4>1
      <4>3. y < sched'[r].next /\ jobs'[<<r, y>>] = 0
        BY <1>1, <2>2, <2>4, <3>5, <4>2
      <4> QED
        BY <3>3, <4>2, <4>3
    <3>6. CASE ~(r = s /\ y = x)
      <4>1. y < sched[r].next => y < sched'[r].next
        BY <2>2, <2>4, <3>2 DEF x
      <4>2. \A u \in Ticker : Fires(u, r, y)' => Fires(u, r, y)
        BY <3>3, <3>4, <3>6
      <4> QED
        BY <1>1, <3>1, <4>1, <4>2
    <3> QED
      BY <3>5, <3>6
  <2> QED
    BY <1>1, <1>3, <2>1, <2>3, <2>4, <2>6, <2>7, TickerRecords, TickerStep
<1> QED
  BY <1>4, <1>5

LEMMA SchedStops ==
  ASSUME IInv, NEW s \in Schedule, NEW on \in BOOLEAN, sched' = [sched EXCEPT ![s].active = on]
  PROVE  /\ sched' \in [Schedule -> [active : BOOLEAN, next : Time]]
         /\ \A r \in Schedule : sched'[r].next = sched[r].next
<1>1. sched \in [Schedule -> [active : BOOLEAN, next : Time]]
  BY DEF IInv, TypeOK
<1>2. /\ [sched[s] EXCEPT !.active = on] \in [active : BOOLEAN, next : Time]
      /\ [sched[s] EXCEPT !.active = on].next = sched[s].next
  BY <1>1
<1> QED
  BY <1>1, <1>2

\* A pass that read the count too low takes its own place among the passes.
LEMMA StepOwner ==
  ASSUME IInv, NEW t \in Ticker, CheckOwner(t) PROVE IInv'
<1>1. /\ UNCHANGED <<recent, jobs, key, total, clock, failures, excused>>
      /\ proc[t].pc = "owner" /\ proc[t].sched \in Schedule
  BY TickerRecords DEF CheckOwner
<1>2. CASE UNCHANGED sched /\ Become(t, PassOn(proc[t]))
  BY <1>1, <1>2, TickerRecords, PassOnSteps, PassMoves
<1>3. CASE Deactivate(proc[t].sched) /\ Become(t, PassOn(proc[t]))
  BY <1>1, <1>3, TickerRecords, PassOnSteps, PassMoves, SchedStops DEF Deactivate
<1>4. CASE ~Full /\ UNCHANGED sched /\ Goto(t, "create")
  <2> DEFINE me == [proc[t] EXCEPT !.pc = "create"]
  <2>1. Become(t, me) /\ Used < Limit
    BY <1>4, CountsAreNat, BoundsAssumption DEF Goto, Become, Full
  <2>2. /\ me \in ProcState /\ me.pc = "create" /\ me.sched = proc[t].sched
        /\ me.slot = proc[t].slot
    BY TickerRecords DEF ProcState, ProcPC
  <2> HIDE DEF me
  <2>3. proc'[t] = me /\ \A r \in Ticker \ {t} : proc'[r] = proc[r]
    BY <2>1, <2>2, TickerRecords, BecomeType DEF IInv, Proc
  <2>4. FireOK'
    BY <1>1, <1>4, <2>2, <2>3, FireFrame DEF Fires
  <2>5. QuotaOK'
    <3>1. Creating' \subseteq Ticker
      BY DEF Creating
    <3>2. Cardinality(Creating') \in Nat /\ Cardinality(Creating') <= Cardinality(Ticker)
      BY <3>1, ActorsAssumption, FS_Subset, FS_CardinalityType
    <3>3. Used' = Used /\ recent' = recent
      BY <1>1 DEF Used
    <3> QED
      BY <2>1, <3>2, <3>3, CountsAreNat, BoundsAssumption DEF QuotaOK, IInv
  <2> QED
    BY <1>1, <1>4, <2>1, <2>2, <2>4, <2>5, TickerRecords, TickerStep
<1> QED
  BY <1>2, <1>3, <1>4 DEF CheckOwner

LEMMA StepTickerCreates ==
  ASSUME IInv, NEW t \in Ticker, CreateRun(t) PROVE IInv'
<1> DEFINE me == [proc[t] EXCEPT !.pc = "enqueue"]
<1>1. /\ UNCHANGED <<jobs, key, sched, total, clock, failures, excused>>
      /\ proc[t].pc = "create" /\ proc[t].sched \in Schedule
  BY TickerRecords DEF CreateRun
<1>2. ~Refused(t) /\ Kind(t) = "scheduled"
  BY DEF Refused, Kind
<1>3. Become(t, me) /\ recent' = [recent EXCEPT !["scheduled"] = @ + 1]
  BY <1>2 DEF CreateRun, Goto, Become
<1>4. /\ me \in ProcState /\ me.pc = "enqueue" /\ me.sched = proc[t].sched
      /\ me.slot = proc[t].slot
  BY TickerRecords DEF ProcState, ProcPC
<1> HIDE DEF me
<1>5. proc'[t] = me /\ \A r \in Ticker \ {t} : proc'[r] = proc[r]
  BY <1>3, <1>4, TickerRecords, BecomeType DEF IInv, Proc
<1>6. FireOK'
  BY <1>1, <1>4, <1>5, FireFrame DEF Fires
<1>7. /\ recent'["scheduled"] = recent["scheduled"] + 1
      /\ recent'["metered"] = recent["metered"]
      /\ recent' \in [{"metered", "scheduled"} -> Nat]
  BY <1>3, TickerRecords
<1>8. QuotaOK'
  <2>1. Creating' = Creating \ {t} /\ t \in Creating
    BY <1>1, <1>4, <1>5 DEF Creating
  <2>2. Cardinality(Creating') = Cardinality(Creating) - 1
    BY <2>1, CountsAreNat, FS_RemoveElement
  <2>3. Used' = Used + 1
    BY <1>7, CountsAreNat DEF Used
  <2> QED
    BY <1>7, <2>2, <2>3, CountsAreNat, BoundsAssumption DEF QuotaOK, IInv
<1> QED
  BY <1>1, <1>3, <1>4, <1>6, <1>7, <1>8, TickerRecords, TickerStep

LEMMA StepTickerQueues ==
  ASSUME IInv, NEW t \in Ticker, EnqueueRunJob(t) PROVE IInv'
<1> DEFINE s == proc[t].sched
           x == proc[t].slot
           o == <<s, x>>
           me == PassOn(proc[t])
<1>0. OriginOf(t) = o /\ Answered(t) = me
  BY TickerGoesOn
<1>1. /\ UNCHANGED <<recent, key, sched, total, clock, failures, excused>>
      /\ proc[t].pc = "enqueue" /\ Become(t, me)
  BY <1>0 DEF EnqueueRunJob
<1>2. s \in Schedule /\ x \in Time /\ o \in Origin /\ o \notin Key \cup Bulk
  BY <1>1, TickerRecords, ActorsAssumption DEF Origin, Firing, Time
<1>3. jobs[o] = 0 /\ x < sched[s].next /\ \A u \in Ticker : Fires(u, s, x) => u = t
  <2>1. Fires(t, s, x)
    BY <1>1 DEF Fires
  <2> QED
    BY <1>2, <2>1 DEF IInv, FireOK
<1>4. 0 < MaxCount /\ 1 \in 0..MaxCount /\ 0 + 1 = 1
  BY BoundsAssumption
<1>5. jobs' = [jobs EXCEPT ![o] = 1]
  <2>1. jobs' = [jobs EXCEPT ![o] = jobs[o] + 1]
    BY <1>0, <1>2, <1>3, <1>4, TickerRecords DEF EnqueueRunJob
  <2> QED
    BY <1>3, <1>4, <2>1
<1>6. /\ jobs' \in [Origin -> 0..MaxCount] /\ jobs'[o] = 1
      /\ \A p \in Origin \ {o} : jobs'[p] = jobs[p]
  BY <1>2, <1>4, <1>5, TickerRecords
<1>7. /\ me \in ProcState /\ me.pc \in {"idle", "claim"}
      /\ me.pc = "idle" => me = NoProc
  BY TickerRecords, PassOnSteps
<1> HIDE DEF me
<1>8. proc'[t] = me /\ \A r \in Ticker \ {t} : proc'[r] = proc[r]
  BY <1>1, <1>7, TickerRecords, BecomeType DEF IInv, Proc
<1>9. QuotaOK'
  BY <1>1, <1>7, <1>8, QuotaFrame
<1>10. FireOK'
  <2> SUFFICES ASSUME NEW r \in Schedule, NEW y \in Time
               PROVE  (/\ \A u, v \in Ticker : Fires(u, r, y) /\ Fires(v, r, y) => u = v
                       /\ \A u \in Ticker : Fires(u, r, y) =>
                             y < sched[r].next /\ jobs[<<r, y>>] = 0
                       /\ jobs[<<r, y>>] <= 1
                       /\ jobs[<<r, y>>] > 0 => y < sched[r].next)'
    BY DEF FireOK
  <2>1. /\ \A u, v \in Ticker : Fires(u, r, y) /\ Fires(v, r, y) => u = v
        /\ \A u \in Ticker : Fires(u, r, y) =>
              y < sched[r].next /\ jobs[<<r, y>>] = 0
        /\ jobs[<<r, y>>] <= 1
        /\ jobs[<<r, y>>] > 0 => y < sched[r].next
    BY DEF IInv, FireOK
  <2>2. \A u \in Ticker : Fires(u, r, y)' => u # t /\ Fires(u, r, y)
    BY <1>7, <1>8 DEF Fires
  <2>3. CASE r = s /\ y = x
    <3>1. \A u \in Ticker : ~Fires(u, r, y)'
      BY <1>3, <2>2, <2>3
    <3>2. jobs'[<<r, y>>] = 1 /\ y < sched'[r].next
      BY <1>1, <1>3, <1>6, <2>3
    <3> QED
      BY <3>1, <3>2
  <2>4. CASE ~(r = s /\ y = x)
    <3>1. jobs'[<<r, y>>] = jobs[<<r, y>>]
      <4>1. <<r, y>> \in Origin /\ <<r, y>> # o
        BY <2>4 DEF Origin, Firing
      <4> QED
        BY <1>6, <4>1
    <3> QED
      BY <1>1, <2>1, <2>2, <3>1
  <2> QED
    BY <2>3, <2>4
<1>11. \A p \in Key \cup Bulk : jobs'[p] = jobs[p]
  BY <1>2, <1>6 DEF Origin
<1> QED
  BY <1>1, <1>6, <1>7, <1>9, <1>10, <1>11, TickerRecords, TickerStep

LEMMA StepTickerFails ==
  ASSUME IInv, NEW t \in Ticker, FailStatement(t) PROVE IInv'
<1>1. /\ UNCHANGED <<recent, jobs, key, sched, total, clock, excused>>
      /\ proc[t].pc \in {"claim", "owner", "create", "enqueue"}
  BY TickerRecords DEF FailStatement
<1>2. failures' \in 0..MaxFailures
  BY BoundsAssumption, TickerRecords DEF FailStatement, Fail
<1>3. CASE proc[t].pc = "claim"
  <2>1. PICK s \in proc[t].todo : Become(t, PassOn([proc[t] EXCEPT !.todo = @ \ {s}]))
    BY <1>3 DEF FailStatement
  <2> DEFINE me == [proc[t] EXCEPT !.todo = @ \ {s}]
  <2>2. me \in ProcState
    BY TickerRecords DEF ProcState
  <2> HIDE DEF me
  <2>3. Become(t, PassOn(me))
    BY <2>1 DEF me
  <2> QED
    BY <1>1, <1>2, <2>2, <2>3, TickerRecords, PassOnSteps, PassMoves
<1>4. CASE proc[t].pc # "claim"
  <2>1. Become(t, PassOn(proc[t]))
    BY <1>1, <1>4, TickerGoesOn DEF FailStatement, Failed
  <2> QED
    BY <1>1, <1>2, <2>1, TickerRecords, PassOnSteps, PassMoves
<1> QED
  BY <1>3, <1>4

-----------------------------------------------------------------------------
(* The environment.                                                        *)

\* What every step of the environment may rely on.
LEMMA Typed ==
  ASSUME IInv
  PROVE  /\ recent \in [{"metered", "scheduled"} -> Nat]
         /\ jobs \in [Origin -> 0..MaxCount]
         /\ key \in [Key -> {"free", "reserved", "done"}]
         /\ sched \in [Schedule -> [active : BOOLEAN, next : Time]]
         /\ total \in [Bulk -> {None} \cup 0..Rows]
         /\ proc \in [Proc -> ProcState]
         /\ \A p \in Proc : proc[p].pc = "idle" => proc[p] = NoProc
         /\ clock \in 0..MaxClock /\ failures \in 0..MaxFailures /\ excused \subseteq Key
         /\ MaxClock \in Nat /\ MaxFailures \in Nat /\ MaxCount \in Nat
BY BoundsAssumption DEF IInv, TypeOK

LEMMA StepSetActive ==
  ASSUME IInv, NEW s \in Schedule, SetScheduleActive(s) PROVE IInv'
<1>1. UNCHANGED <<recent, jobs, key, total, proc, clock, failures, excused>>
  BY DEF SetScheduleActive
<1>2. sched' = [sched EXCEPT ![s].active = ~sched[s].active]
  BY DEF SetScheduleActive
<1>3. PICK on \in BOOLEAN : sched' = [sched EXCEPT ![s].active = on]
  <2>1. CASE sched[s].active = TRUE
    BY <1>2, <2>1
  <2>2. CASE sched[s].active = FALSE
    BY <1>2, <2>2
  <2>3. sched[s].active \in BOOLEAN
    BY Typed
  <2> QED
    BY <2>1, <2>2, <2>3
<1>4. /\ sched' \in [Schedule -> [active : BOOLEAN, next : Time]]
      /\ \A r \in Schedule : sched'[r].next = sched[r].next
  BY <1>3, SchedStops
<1>5. TypeOK'
  BY <1>1, <1>4, Typed DEF TypeOK
<1>6. FireOK'
  BY <1>1, <1>4, FireFrame DEF Fires
<1>7. ActorOK' /\ BulkOK'
  BY <1>1 DEF IInv, ActorOK, BulkOK
<1>8. KeyOK'
  BY <1>1, KeyFrame DEF Holds
<1>9. QuotaOK'
  BY <1>1, QuotaFrame
<1> QED
  BY <1>5, <1>6, <1>7, <1>8, <1>9 DEF IInv

LEMMA StepPrune ==
  ASSUME IInv, NEW k \in Key, Prune(k) PROVE IInv'
<1>1. /\ UNCHANGED <<recent, sched, total, proc, clock, failures>>
      /\ key' = [key EXCEPT ![k] = "free"] /\ jobs' = [jobs EXCEPT ![k] = 0]
      /\ excused' = excused \ {k} /\ \A q \in Request : proc[q].key # k
  BY DEF Prune
<1>2. /\ key'[k] = "free" /\ jobs'[k] = 0
      /\ \A o \in Origin \ {k} : jobs'[o] = jobs[o]
      /\ \A j \in Key \ {k} : key'[j] = key[j] /\ jobs'[j] = jobs[j]
  BY <1>1, Typed DEF Origin
<1>3. TypeOK'
  <2>1. jobs' \in [Origin -> 0..MaxCount]
    <3>1. 0 \in 0..MaxCount
      BY Typed
    <3> QED
      BY <1>1, <3>1, Typed
  <2>2. key' \in [Key -> {"free", "reserved", "done"}] /\ excused' \subseteq Key
    BY <1>1, Typed
  <2> QED
    BY <1>1, <2>1, <2>2, Typed DEF TypeOK
<1>4. ActorOK'
  BY <1>1 DEF IInv, ActorOK
<1>5. BulkOK'
  <2>1. \A b \in Bulk : jobs'[b] = jobs[b]
    BY <1>2, ActorsAssumption DEF Origin
  <2> QED
    BY <1>1, <2>1, BulkFrame
<1>6. FireOK'
  <2>1. \A s \in Schedule, x \in Time : jobs'[<<s, x>>] = jobs[<<s, x>>]
    BY <1>2, ActorsAssumption DEF Origin, Firing, Time
  <2> QED
    BY <1>1, <2>1, FireFrame DEF Fires
<1>7. KeyOK'
  <2> SUFFICES ASSUME NEW j \in Key
               PROVE  (/\ \A q, r \in Request : Holds(q, j) /\ Holds(r, j) => q = r
                       /\ \A q \in Request : Holds(q, j) => key[j] = "reserved"
                       /\ j \notin excused =>
                             /\ jobs[j] <= 1
                             /\ key[j] = "free" => jobs[j] = 0
                             /\ \A q \in Request :
                                   Holds(q, j) /\ proc[q].pc # "answer" => jobs[j] = 0)'
    BY DEF KeyOK
  <2>1. \A r \in Request : Holds(r, j)' <=> Holds(r, j)
    BY <1>1 DEF Holds
  <2>2. CASE j = k
    <3>1. \A r \in Request : ~Holds(r, j)'
      BY <1>1, <2>1, <2>2 DEF Holds
    <3> QED
      BY <1>2, <2>2, <3>1
  <2>3. CASE j # k
    BY <1>1, <1>2, <2>1, <2>3 DEF IInv, KeyOK
  <2> QED
    BY <2>2, <2>3
<1>8. QuotaOK'
  BY <1>1, QuotaFrame
<1> QED
  BY <1>3, <1>4, <1>5, <1>6, <1>7, <1>8 DEF IInv

LEMMA StepCrash ==
  ASSUME IInv, Crash PROVE IInv'
<1>1. /\ UNCHANGED <<recent, jobs, key, sched, total, clock, excused>>
      /\ proc' = [p \in Proc |-> NoProc] /\ failures' = failures + 1 /\ failures < MaxFailures
  BY DEF Crash, Fail
<1>2. \A p \in Proc : proc'[p] = NoProc
  BY <1>1
<1>3. NoProc.pc = "idle" /\ NoProc \in ProcState
  BY NoProcType DEF NoProc
<1>4. /\ \A q \in Request : proc'[q].pc = "idle"
      /\ \A b \in Bulk : proc'[b].pc = "idle"
      /\ \A t \in Ticker : proc'[t].pc = "idle"
  BY <1>2, <1>3 DEF Proc
<1>5. TypeOK'
  <2>1. failures' \in 0..MaxFailures
    BY <1>1, Typed
  <2>2. proc' \in [Proc -> ProcState] /\ \A p \in Proc : proc'[p].pc = "idle" => proc'[p] = NoProc
    BY <1>1, <1>3
  <2> QED
    BY <1>1, <2>1, <2>2, Typed DEF TypeOK
<1>6. ActorOK'
  BY <1>4 DEF ActorOK
<1>7. KeyOK'
  BY <1>1, <1>4, KeyFrame DEF Holds
<1>8. FireOK'
  BY <1>1, <1>4, FireFrame DEF Fires
<1>9. BulkOK'
  BY <1>1, <1>4, BulkFrame
<1>10. QuotaOK'
  BY <1>1, <1>4, QuotaFrame
<1> QED
  BY <1>5, <1>6, <1>7, <1>8, <1>9, <1>10 DEF IInv

LEMMA StepExpire ==
  ASSUME IInv, Expire PROVE IInv'
<1>1. UNCHANGED <<jobs, key, sched, total, proc, clock, failures, excused>>
  BY DEF Expire
<1>2. PICK kind \in {"metered", "scheduled"} :
         recent[kind] > 0 /\ recent' = [recent EXCEPT ![kind] = @ - 1]
  BY DEF Expire
<1>3. /\ recent' \in [{"metered", "scheduled"} -> Nat]
      /\ recent'["metered"] <= recent["metered"]
      /\ recent'["scheduled"] <= recent["scheduled"]
  <2>1. recent[kind] - 1 \in Nat
    BY <1>2, Typed
  <2> QED
    BY <1>2, <2>1, Typed
<1>4. TypeOK'
  BY <1>1, <1>3, Typed DEF TypeOK
<1>5. ActorOK' /\ BulkOK'
  BY <1>1 DEF IInv, ActorOK, BulkOK
<1>6. KeyOK'
  BY <1>1, KeyFrame DEF Holds
<1>7. FireOK'
  BY <1>1, FireFrame DEF Fires
<1>8. QuotaOK'
  <2>1. Creating' = Creating
    BY <1>1 DEF Creating
  <2>2. Used' <= Used /\ Used' \in Nat /\ recent'["metered"] \in Nat
    BY <1>3, CountsAreNat DEF Used
  <2> QED
    BY <1>3, <2>1, <2>2, CountsAreNat, BoundsAssumption DEF IInv, QuotaOK
<1> QED
  BY <1>4, <1>5, <1>6, <1>7, <1>8 DEF IInv

LEMMA StepPass ==
  ASSUME IInv, Pass \/ UNCHANGED vars PROVE IInv'
<1>1. UNCHANGED <<recent, jobs, key, sched, total, proc, failures, excused>>
  BY DEF Pass, vars
<1>2. clock' \in 0..MaxClock
  BY Typed DEF Pass, vars
<1>3. TypeOK'
  BY <1>1, <1>2, Typed DEF TypeOK
<1>4. ActorOK' /\ BulkOK'
  BY <1>1 DEF IInv, ActorOK, BulkOK
<1>5. KeyOK'
  BY <1>1, KeyFrame DEF Holds
<1>6. FireOK'
  BY <1>1, FireFrame DEF Fires
<1>7. QuotaOK'
  BY <1>1, QuotaFrame
<1> QED
  BY <1>3, <1>4, <1>5, <1>6, <1>7 DEF IInv

-----------------------------------------------------------------------------
(* The theorems.                                                           *)

LEMMA StartHolds == Init => IInv
<1> SUFFICES ASSUME Init PROVE IInv
  OBVIOUS
<1>0. /\ recent = [kind \in {"metered", "scheduled"} |-> 0]
      /\ jobs = [o \in Origin |-> 0] /\ key = [k \in Key |-> "free"]
      /\ sched = [s \in Schedule |-> [active |-> TRUE, next |-> 0]]
      /\ total = [b \in Bulk |-> None] /\ proc = [p \in Proc |-> NoProc]
      /\ clock = 0 /\ failures = 0 /\ excused = {}
  BY DEF Init
<1>1. NoProc \in ProcState /\ NoProc.pc = "idle"
  BY NoProcType DEF NoProc
<1>2. TypeOK
  <2>1. 0 \in Time /\ 0 \in 0..MaxClock /\ 0 \in 0..MaxFailures /\ 0 \in 0..MaxCount
    BY BoundsAssumption DEF Time
  <2>2. /\ recent \in [{"metered", "scheduled"} -> Nat]
        /\ jobs \in [Origin -> 0..MaxCount]
        /\ key \in [Key -> {"free", "reserved", "done"}]
        /\ total \in [Bulk -> {None} \cup 0..Rows]
    BY <1>0, <2>1
  <2>3. sched \in [Schedule -> [active : BOOLEAN, next : Time]]
    BY <1>0, <2>1
  <2>4. proc \in [Proc -> ProcState] /\ \A p \in Proc : proc[p].pc = "idle" => proc[p] = NoProc
    BY <1>0, <1>1
  <2> QED
    BY <1>0, <2>1, <2>2, <2>3, <2>4 DEF TypeOK
<1>3. /\ \A q \in Request : proc[q].pc = "idle"
      /\ \A b \in Bulk : proc[b].pc = "idle"
      /\ \A t \in Ticker : proc[t].pc = "idle"
  BY <1>0, <1>1 DEF Proc
<1>4. ActorOK
  BY <1>3 DEF ActorOK
<1>5. KeyOK
  BY <1>0, <1>3 DEF KeyOK, Holds, Origin
<1>6. FireOK
  <2>1. \A s \in Schedule, x \in Time : jobs[<<s, x>>] = 0
    BY <1>0 DEF Origin, Firing
  <2>2. \A t \in Ticker, s \in Schedule, x \in Time : ~Fires(t, s, x)
    BY <1>3 DEF Fires
  <2>3. 0 <= 1 /\ ~(0 > 0)
    OBVIOUS
  <2> QED
    BY <2>1, <2>2, <2>3 DEF FireOK
<1>7. BulkOK
  BY <1>0, <1>3 DEF BulkOK
<1>8. QuotaOK
  <2>1. Creating = {}
    BY <1>3 DEF Creating
  <2>2. Cardinality(Creating) = 0 /\ Cardinality(Ticker) \in Nat
    BY <2>1, ActorsAssumption, FS_EmptySet, FS_CardinalityType
  <2>3. recent["metered"] = 0 /\ Used = 0
    BY <1>0 DEF Used
  <2> QED
    BY <2>2, <2>3, BoundsAssumption DEF QuotaOK
<1> QED
  BY <1>2, <1>4, <1>5, <1>6, <1>7, <1>8 DEF IInv

LEMMA RequestSteps ==
  ASSUME IInv, NEW q \in Request, Step(q) \/ FailStatement(q) PROVE IInv'
<1>1. ~RecordBulk(q) /\ ~ClaimSchedule(q) /\ ~CheckOwner(q)
  BY DEF IInv, ActorOK, RecordBulk, ClaimSchedule, CheckOwner
<1> QED
  BY <1>1, StepQuota, StepReserve, StepAnswer, StepRelease, StepRequestCreates,
     StepRequestQueues, StepRequestFails DEF Step

LEMMA BulkSteps ==
  ASSUME IInv, NEW b \in Bulk, Step(b) \/ FailStatement(b) PROVE IInv'
<1>1. /\ ~CheckQuota(b) /\ ~Reserve(b) /\ ~Answer(b) /\ ~Release(b)
      /\ ~ClaimSchedule(b) /\ ~CheckOwner(b)
  BY DEF IInv, ActorOK, CheckQuota, Reserve, Answer, Release, ClaimSchedule, CheckOwner
<1> QED
  BY <1>1, StepBulkCreates, StepBulkQueues, StepRecordBulk, StepBulkFails DEF Step

LEMMA TickerSteps ==
  ASSUME IInv, NEW t \in Ticker, Step(t) \/ FailStatement(t) PROVE IInv'
<1>1. /\ ~CheckQuota(t) /\ ~Reserve(t) /\ ~Answer(t) /\ ~Release(t) /\ ~RecordBulk(t)
  BY DEF IInv, ActorOK, CheckQuota, Reserve, Answer, Release, RecordBulk
<1> QED
  BY <1>1, StepClaim, StepOwner, StepTickerCreates, StepTickerQueues, StepTickerFails
     DEF Step

LEMMA NextHolds == IInv /\ [Next]_vars => IInv'
<1> SUFFICES ASSUME IInv, [Next]_vars PROVE IInv'
  OBVIOUS
<1>1. ASSUME NEW q \in Request, NEW k \in Key \cup {None}, Post(q, k) PROVE IInv'
  BY <1>1, StepPost
<1>2. ASSUME NEW b \in Bulk, StartBulk(b) PROVE IInv'
  BY <1>2, StepStartBulk
<1>3. ASSUME NEW t \in Ticker, Tick(t) PROVE IInv'
  BY <1>3, StepTick
<1>4. ASSUME NEW s \in Schedule, SetScheduleActive(s) PROVE IInv'
  BY <1>4, StepSetActive
<1>5. ASSUME NEW p \in Proc, Step(p) \/ FailStatement(p) PROVE IInv'
  BY <1>5, RequestSteps, BulkSteps, TickerSteps DEF Proc
<1>6. ASSUME NEW k \in Key, Prune(k) PROVE IInv'
  BY <1>6, StepPrune
<1>7. CASE Crash
  BY <1>7, StepCrash
<1>8. CASE Expire
  BY <1>8, StepExpire
<1>9. CASE Pass \/ UNCHANGED vars
  BY <1>9, StepPass
<1> QED
  BY <1>1, <1>2, <1>3, <1>4, <1>5, <1>6, <1>7, <1>8, <1>9 DEF Next

\* Every reachable state satisfies the inductive invariant: a key and a time of a
\* schedule have one holder (lib/idempotency.ts, claimSchedule), a bulk run has
\* counted its children, and the count leaves room for every pass that has read it.
THEOREM Invariant == Spec => []IInv
<1>1. Init => IInv
  BY StartHolds
<1>2. IInv /\ [Next]_vars => IInv'
  BY NextHolds
<1> QED
  BY <1>1, <1>2, PTL DEF Spec

\* The variables keep their types, whatever calls overlap and fail.
THEOREM Typing == Spec => []TypeOK
<1>1. IInv => TypeOK
  BY DEF IInv
<1> QED
  BY <1>1, Invariant, PTL

\* A key gets one run until it is pruned, unless its answer could not be stored,
\* and a time of a schedule gets one run (withIdempotency, claimSchedule).
THEOREM StartsOnce == Spec => []StartedOnce
<1>1. IInv => StartedOnce
  <2> SUFFICES ASSUME IInv PROVE KeyOnce /\ FiredOnce
    BY DEF StartedOnce
  <2>1. KeyOnce
    BY DEF IInv, KeyOK, KeyOnce
  <2>2. FiredOnce
    <3> SUFFICES ASSUME NEW f \in Firing PROVE jobs[f] <= 1
      BY DEF FiredOnce
    <3>1. PICK s \in Schedule, x \in Time : f = <<s, x>>
      BY DEF Firing
    <3> QED
      BY <3>1 DEF IInv, FireOK
  <2> QED
    BY <2>1, <2>2
<1> QED
  BY <1>1, Invariant, PTL

\* The runs that are counted as they are inserted stay within the quota, and the
\* scheduled ones exceed it by at most one for each pass (createRun, runDue).
THEOREM QuotaHeld == Spec => []QuotaKept
<1>1. IInv => QuotaKept
  <2> SUFFICES ASSUME IInv PROVE QuotaHolds /\ ExcessBounded
    BY DEF QuotaKept
  <2>1. QuotaHolds
    BY DEF IInv, QuotaOK, QuotaHolds
  <2>2. ExcessBounded
    BY CountsAreNat, BoundsAssumption DEF IInv, QuotaOK, ExcessBounded
  <2> QED
    BY <2>1, <2>2
<1> QED
  BY <1>1, Invariant, PTL

\* The total of a bulk run is the number of its runs that were queued, whatever
\* row failed (createBulkRun).
THEOREM TotalsHold == Spec => []TotalIsChildren
<1>1. IInv => TotalIsChildren
  BY DEF IInv, BulkOK, TotalIsChildren
<1> QED
  BY <1>1, Invariant, PTL
==============================================================================
