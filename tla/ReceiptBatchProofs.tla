------------------------- MODULE ReceiptBatchProofs -------------------------
(***************************************************************************)
(* Theorems about ReceiptBatch for every set of runs, batches, processes   *)
(* and executions, and any number of crashes and failed statements.  Only  *)
(* ProofStays assumes Prompt: see README.                                  *)
(***************************************************************************)
EXTENDS ReceiptBatch, TLAPS

-----------------------------------------------------------------------------
(* The inductive invariant, of any batchers.                               *)

\* A slot that is free holds nothing, one that writes has its digest.
TailOK(e) ==
    /\ tail[e].pc = "idle" => tail[e] = NoTail
    /\ tail[e].pc = "write" => tail[e].digest \in Nat

\* As long as a run had one tail, the receipt it leaves is that of the data.
HashOK(r) ==
    /\ \A e \in Exec : tail[e].run = r => finals[r] > 0
    /\ finals[r] = 0 => run[r].hash = None
    /\ TailedOnce(r) =>
          /\ \A e, f \in Exec : tail[e].run = r /\ tail[f].run = r => e = f
          /\ \A e \in Exec : tail[e].run = r =>
                /\ run[r].hash = None
                /\ tail[e].pc = "write" => tail[e].digest = run[r].data
          /\ run[r].hash \in {None, run[r].data}

\* Tree t holds the receipt of every run that had one tail, where it holds any.
Faithful(t) == \A r \in Run : /\ t[r] # None => run[r].hash # None
                              /\ TailedOnce(r) => t[r] \in {None, run[r].hash}

\* An archive is of leaves that batch b was anchored with.
Within(t, b) == \A r \in Run : TailedOnce(r) => t[r] \in {None, row[b].root[r]}

RowOK(b) ==
    /\ ~row[b].stored => row[b] = NoRow
    /\ row[b].sig \in {None, b}
    /\ Faithful(row[b].root)
    /\ Within(row[b].bundle, b)

\* What a run was proven with is what its batch was stored with.
RunOK(r) ==
    LET b == run[r].proof IN
    /\ run[r].batch # None => run[r].hash # None
    /\ b # None =>
          /\ run[r].batch = b /\ row[b].stored
          /\ run[r].leaf = row[b].root[r] /\ run[r].leaf # None
          /\ run[r].sig # None => run[r].sig = b /\ row[b].sig # None

BatcherOK(p) ==
    LET b == batcher[p].batch IN
    /\ batcher[p].pc = "idle" => batcher[p] = NoBatcher
    /\ batcher[p].pc # "idle" => b \in Batch
    /\ batcher[p].pc \in {"select", "anchor", "insert"} => ~row[b].stored
    /\ batcher[p].pc = "store" =>
          /\ row[b].stored /\ row[b].root = batcher[p].tree
          /\ batcher[p].sig # None => row[b].sig # None
          /\ \A r \in batcher[p].todo : batcher[p].tree[r] # None
    /\ batcher[p].pc \in {"read", "upload"} => row[b].stored
    /\ batcher[p].pc = "upload" => Within(batcher[p].bundle, b)
    /\ batcher[p].sig \in {None, b}
    /\ Faithful(batcher[p].tree)

\* No two batchers share a batch.
BatchersApart ==
    \A p, q \in Proc : batcher[p].batch # None /\ batcher[p].batch = batcher[q].batch => p = q

SweepOK(p) ==
    /\ \A b \in sweep[p].todo : row[b].stored
    /\ sweep[p].pc = "upload" =>
          /\ sweep[p].batch \in Batch /\ row[sweep[p].batch].stored
          /\ Within(sweep[p].bundle, sweep[p].batch)

PassOK(p) ==
    /\ \A b \in pass[p].todo : row[b].stored
    /\ pass[p].pc \in {"batch", "runs"} => pass[p].batch \in Batch /\ row[pass[p].batch].stored
    /\ pass[p].pc = "runs" => row[pass[p].batch].sig # None

\* A pass has signed batch b, and not yet its runs.
BeingSigned(b) == \E p \in Proc : pass[p].pc = "runs" /\ pass[p].batch = b

\* A batch that shows its anchor, and is not exempt, owes it to its proven runs, and
\* its batcher knows.
Owed(b) == row[b].sig # None /\ b \notin missed /\ ~BeingSigned(b)
Shown(b) ==
    /\ \A r \in Run : run[r].proof = b /\ TailedOnce(r) => run[r].sig = b
    /\ \A p \in Proc : batcher[p].pc = "store" /\ batcher[p].batch = b
                           => batcher[p].sig = b
SignedOK(b) == Owed(b) => Shown(b)

IInv ==
    /\ TypeOK
    /\ \A e \in Exec : TailOK(e)
    /\ \A r \in Run : HashOK(r) /\ RunOK(r)
    /\ \A b \in Batch : RowOK(b) /\ SignedOK(b)
    /\ \A p \in Proc : BatcherOK(p) /\ SweepOK(p) /\ PassOK(p)
    /\ BatchersApart

-----------------------------------------------------------------------------
(* The strengthening for ProofStays, of batchers that are done in time.    *)

\* The runs that a batcher is about to prove are in its batch, and not proven.
Reserved(p, r) == run[r].batch = batcher[p].batch /\ run[r].proof = None

HeldOK(p) ==
    /\ batcher[p].pc \in {"select", "anchor", "insert", "store", "release"}
          => batcher[p].batch \notin stale
    /\ batcher[p].pc \in {"anchor", "insert"} =>
          \A r \in Run : batcher[p].tree[r] # None => Reserved(p, r)
    /\ batcher[p].pc = "store" => \A r \in batcher[p].todo : Reserved(p, r)

HInv == IInv /\ \A p \in Proc : HeldOK(p)
-----------------------------------------------------------------------------
(* What the steps write, and its types.                                    *)

USE RunsAssumption, SettingsAssumption

LEMMA NullTypes ==
  /\ Nothing \in Tree /\ NoRow \in Row /\ NoBatcher \in Batcher /\ NoSweep \in Sweep
  /\ NoPass \in Pass /\ NoTail \in Tail /\ NewRun \in RunRow
BY DEF Nothing, Tree, NoRow, Row, NoBatcher, Batcher, NoSweep, Sweep, NoPass, Pass,
       NoTail, Tail, NewRun, RunRow, BatcherPC, TailPC, Leaf

LEMMA InitType == Init => TypeOK
BY NullTypes DEF Init, TypeOK, NoTail

\* The parts of the type that the tails write.
TailsTyped ==
    /\ tail \in [Exec -> Tail]
    /\ \A e \in Exec : tail[e].pc # "idle" => tail[e].run \in Run

\* Tail e, alone, becomes t.
TailSet(e, t) == /\ TailsTyped'
                 /\ tail'[e] = t /\ \A f \in Exec \ {e} : tail'[f] = tail[f]

LEMMA TailMoves ==
  ASSUME TypeOK, NEW e \in Exec, NEW t \in Tail, t.pc # "idle" => t.run \in Run,
         tail' = [tail EXCEPT ![e] = t]
  PROVE  TailSet(e, t)
BY DEF TypeOK, TailSet, TailsTyped

LEMMA TailGoes ==
  ASSUME TypeOK, NEW e \in Exec, tail[e].pc # "idle", NEW pc \in TailPC, GoTail(e, pc)
  PROVE  \E t \in Tail : TailSet(e, t) /\ t.pc = pc /\ t.run = tail[e].run
<1> DEFINE t == [tail[e] EXCEPT !.pc = pc]
<1>1. tail[e] \in Tail /\ tail' = [tail EXCEPT ![e] = t]
  BY DEF GoTail, TypeOK, Tail
<1>2. t \in Tail /\ t.pc = pc /\ t.run = tail[e].run
  BY <1>1 DEF Tail
<1> HIDE DEF t
<1>3. t.run \in Run
  BY <1>2 DEF TypeOK
<1> QED
  BY <1>1, <1>2, <1>3, TailMoves

LEMMA TailEnds ==
  ASSUME TypeOK, NEW e \in Exec, EndTail(e)
  PROVE  TailSet(e, NoTail)
BY NullTypes, TailMoves DEF EndTail, NoTail

\* Run r, alone, is rewritten, except for what the batches write.
Rehashed(r) ==
    /\ run' \in [Run -> RunRow]
    /\ \A s \in Run \ {r} : run'[s] = run[s]
    /\ run'[r].batch = run[r].batch /\ run'[r].proof = run[r].proof
    /\ run'[r].leaf = run[r].leaf

\* A step of tail e of run r: its data change, its digest is taken, or written.
TailEffect(e, r) ==
    /\ Rehashed(r) /\ TailsTyped'
    /\ \A f \in Exec \ {e} : tail'[f] = tail[f]
    /\ tail'[e] # NoTail => tail'[e].run = r /\ tail'[e].pc # "idle"
    /\ \/ /\ run'[r].hash = run[r].hash /\ run'[r].sig = run[r].sig
          /\ tail'[e].pc # "write"
       \/ /\ UNCHANGED run
          /\ tail'[e].pc = "write" /\ tail'[e].digest = run[r].data
       \/ /\ tail[e].pc = "write" /\ tail'[e] = NoTail
          /\ run'[r].hash = tail[e].digest /\ run'[r].data = run[r].data
          /\ run'[r].sig = None

LEMMA TouchEffect ==
  ASSUME TypeOK, NEW r \in Run, Touch(r) \/ UNCHANGED run
  PROVE  Rehashed(r) /\ run'[r].hash = run[r].hash /\ run'[r].sig = run[r].sig
<1> DEFINE x == [run[r] EXCEPT !.data = NextData(r)]
<1>1. run[r] \in RunRow /\ NextData(r) \in Nat
  BY DEF TypeOK, NextData, RunRow
<1>2. CASE Touch(r)
  <2>1. run' = [run EXCEPT ![r] = x]
    BY <1>1, <1>2 DEF Touch, TypeOK, RunRow
  <2>2. x \in RunRow /\ x.hash = run[r].hash /\ x.sig = run[r].sig
        /\ x.batch = run[r].batch /\ x.proof = run[r].proof /\ x.leaf = run[r].leaf
    BY <1>1 DEF RunRow
  <2> HIDE DEF x
  <2> QED
    BY <2>1, <2>2 DEF TypeOK, Rehashed
<1> QED
  BY <1>2 DEF TypeOK, Rehashed

LEMMA TailStepEffect ==
  ASSUME TypeOK, NEW e \in Exec, TailStep(e)
  PROVE  tail[e].run \in Run /\ tail[e].pc # "idle" /\ TailEffect(e, tail[e].run)
<1> DEFINE r == tail[e].run
<1>1. tail[e].pc # "idle" /\ r \in Run
  BY DEF TailStep, Commit, Outcome, ReadAgenc, WriteAgenc, Digest, UpdateReceipt, TypeOK
<1>2. tail[e] \in Tail /\ run[r] \in RunRow
  BY <1>1 DEF TypeOK
<1>3. CASE Commit(e) \/ Outcome(e) \/ ReadAgenc(e)
  <2>1. PICK pc \in TailPC \ {"idle", "write"} : GoTail(e, pc)
    BY <1>3 DEF Commit, Outcome, ReadAgenc, TailPC
  <2>2. Touch(r) \/ UNCHANGED run
    BY <1>3 DEF Commit, Outcome, ReadAgenc
  <2> QED
    BY <1>1, <2>1, <2>2, TailGoes, TouchEffect DEF TailEffect, TailSet
<1>4. CASE WriteAgenc(e)
  <2> DEFINE x == [run[r] EXCEPT !.data = NextData(r), !.agenc = TRUE]
  <2>0. NextData(r) \in Nat
    BY <1>2 DEF RunRow, NextData
  <2>1. run' = [run EXCEPT ![r] = x]
    BY <1>1, <1>2, <1>4, <2>0 DEF WriteAgenc, TypeOK, RunRow
  <2>2. x \in RunRow /\ x.hash = run[r].hash /\ x.sig = run[r].sig
        /\ x.batch = run[r].batch /\ x.proof = run[r].proof /\ x.leaf = run[r].leaf
    BY <1>2, <2>0 DEF RunRow
  <2> HIDE DEF x
  <2>3. Rehashed(r) /\ run'[r].hash = run[r].hash /\ run'[r].sig = run[r].sig
    BY <1>1, <2>1, <2>2 DEF TypeOK, Rehashed
  <2>4. GoTail(e, "digest") /\ "digest" \in TailPC
    BY <1>4 DEF WriteAgenc, TailPC
  <2> QED
    BY <1>1, <2>3, <2>4, TailGoes DEF TailEffect, TailSet
<1>5. CASE Digest(e)
  <2> DEFINE t == [tail[e] EXCEPT !.pc = "write", !.digest = run[r].data]
  <2>1. tail' = [tail EXCEPT ![e] = t]
    BY <1>2, <1>5 DEF Digest, TypeOK, Tail
  <2>2. t \in Tail /\ t.pc = "write" /\ t.run = r /\ t.digest = run[r].data
    BY <1>2 DEF Tail, TailPC, RunRow, Leaf
  <2> HIDE DEF t
  <2>3. TailSet(e, t)
    BY <1>1, <2>1, <2>2, TailMoves
  <2>4. Rehashed(r) /\ UNCHANGED run
    BY <1>5 DEF Digest, Rehashed, TypeOK
  <2> QED
    BY <1>1, <2>2, <2>3, <2>4 DEF TailEffect, TailSet
<1>6. CASE UpdateReceipt(e)
  <2> DEFINE x == [run[r] EXCEPT !.hash = tail[e].digest, !.sig = None]
  <2>1. run' = [run EXCEPT ![r] = x]
    BY <1>1, <1>2, <1>6 DEF UpdateReceipt, TypeOK, RunRow
  <2>2. x \in RunRow /\ x.hash = tail[e].digest /\ x.sig = None /\ x.data = run[r].data
        /\ x.batch = run[r].batch /\ x.proof = run[r].proof /\ x.leaf = run[r].leaf
    BY <1>2 DEF RunRow, Tail
  <2> HIDE DEF x
  <2>3. /\ Rehashed(r) /\ run'[r].hash = tail[e].digest /\ run'[r].sig = None
        /\ run'[r].data = run[r].data
    BY <1>1, <2>1, <2>2 DEF TypeOK, Rehashed
  <2>4. TailSet(e, NoTail) /\ tail[e].pc = "write"
    BY <1>6, TailEnds DEF UpdateReceipt
  <2> QED
    BY <1>1, <2>3, <2>4 DEF TailEffect, TailSet
<1> QED
  BY <1>1, <1>3, <1>4, <1>5, <1>6 DEF TailStep

LEMMA FailTailEffect ==
  ASSUME TypeOK, NEW e \in Exec, FailTail(e)
  PROVE  tail[e].run \in Run /\ tail[e].pc # "idle" /\ TailEffect(e, tail[e].run)
<1> DEFINE r == tail[e].run
<1>1. tail[e].pc # "idle" /\ r \in Run
  BY DEF FailTail, TypeOK
<1>2. Rehashed(r) /\ run'[r].hash = run[r].hash /\ run'[r].sig = run[r].sig
  BY <1>1, TouchEffect DEF FailTail
<1>3. CASE EndTail(e)
  <2>1. TailSet(e, NoTail) /\ NoTail.pc # "write"
    BY <1>3, TailEnds DEF NoTail
  <2> QED
    BY <1>1, <1>2, <2>1 DEF TailEffect, TailSet
<1>4. CASE GoTail(e, "outcome") \/ GoTail(e, "digest")
  BY <1>1, <1>2, <1>4, TailGoes DEF TailEffect, TailSet, TailPC
<1> QED
  BY <1>1, <1>3, <1>4 DEF FailTail

LEMMA BeginEffect ==
  ASSUME TypeOK, NEW e \in Exec, NEW r \in Run, BeginTail(e, r)
  PROVE  /\ tail[e].pc = "idle" /\ UNCHANGED run
         /\ TailSet(e, [pc |-> "commit", run |-> r, digest |-> None])
         /\ finals' \in [Run -> Nat] /\ finals'[r] = finals[r] + 1
         /\ \A s \in Run \ {r} : finals'[s] = finals[s]
<1> DEFINE t == [pc |-> "commit", run |-> r, digest |-> None]
<1>1. t \in Tail
  BY DEF Tail, TailPC, Leaf
<1>2. TailSet(e, t)
  BY <1>1, TailMoves DEF BeginTail
<1> QED
  BY <1>2 DEF BeginTail, TypeOK

\* Batcher p, alone, becomes s.
BatcherSet(p, s) == /\ batcher' \in [Proc -> Batcher]
                    /\ batcher'[p] = s /\ \A q \in Proc \ {p} : batcher'[q] = batcher[q]

LEMMA BatcherMoves ==
  ASSUME TypeOK, NEW p \in Proc, NEW s \in Batcher, batcher' = [batcher EXCEPT ![p] = s]
  PROVE  BatcherSet(p, s)
BY DEF TypeOK, BatcherSet

LEMMA BatcherEnds ==
  ASSUME TypeOK, NEW p \in Proc, EndBatcher(p)
  PROVE  BatcherSet(p, NoBatcher)
BY NullTypes, BatcherMoves DEF EndBatcher

LEMMA BatcherGoes ==
  ASSUME TypeOK, NEW p \in Proc, NEW pc \in BatcherPC, GoBatcher(p, pc)
  PROVE  /\ BatcherSet(p, batcher'[p])
         /\ batcher'[p].pc = pc /\ batcher'[p].batch = batcher[p].batch
         /\ batcher'[p].tree = batcher[p].tree /\ batcher'[p].sig = batcher[p].sig
<1> DEFINE s == [batcher[p] EXCEPT !.pc = pc]
<1>1. batcher[p] \in Batcher /\ batcher' = [batcher EXCEPT ![p] = s]
  BY DEF GoBatcher, TypeOK, Batcher
<1>2. /\ s \in Batcher /\ s.pc = pc /\ s.batch = batcher[p].batch
      /\ s.tree = batcher[p].tree /\ s.sig = batcher[p].sig
  BY <1>1 DEF Batcher
<1> HIDE DEF s
<1> QED
  BY <1>1, <1>2, BatcherMoves DEF BatcherSet

\* The statements of the batches leave the receipts alone.
DataKept == \A r \in Run : run'[r].data = run[r].data /\ run'[r].hash = run[r].hash

\* Run r keeps the proof it has.
Unproven(r) == /\ run'[r].proof = run[r].proof /\ run'[r].leaf = run[r].leaf
               /\ run'[r].sig = run[r].sig

LEMMA ClaimEffect ==
  ASSUME TypeOK, NEW p \in Proc, NEW b \in Batch, NEW S \in SUBSET Run, ClaimSlice(p, b, S)
  PROVE  /\ run' \in [Run -> RunRow] /\ DataKept
         /\ \A r \in Run : Unproven(r) /\ run'[r].batch = IF r \in S THEN b ELSE run[r].batch
         /\ BatcherSet(p, batcher'[p])
         /\ batcher'[p].pc = "select" /\ batcher'[p].batch = b
         /\ batcher'[p].tree = Nothing /\ batcher'[p].sig = None
<1> DEFINE s == [NoBatcher EXCEPT !.pc = "select", !.batch = b]
<1>1. batcher' = [batcher EXCEPT ![p] = s]
  BY DEF ClaimSlice
<1>2. /\ s \in Batcher /\ s.pc = "select" /\ s.batch = b /\ s.tree = Nothing
      /\ s.sig = None
  BY NullTypes DEF NoBatcher, Batcher, BatcherPC
<1> HIDE DEF s
<1>3. /\ run' \in [Run -> RunRow] /\ DataKept
      /\ \A r \in Run : Unproven(r) /\ run'[r].batch = IF r \in S THEN b ELSE run[r].batch
  <2>1. run' = [r \in Run |-> IF r \in S THEN [run[r] EXCEPT !.batch = b] ELSE run[r]]
    BY DEF ClaimSlice
  <2>2. ASSUME NEW r \in Run
        PROVE  /\ run'[r] \in RunRow
               /\ run'[r].data = run[r].data /\ run'[r].hash = run[r].hash
               /\ Unproven(r) /\ run'[r].batch = IF r \in S THEN b ELSE run[r].batch
    <3> DEFINE x == [run[r] EXCEPT !.batch = b]
    <3>1. run[r] \in RunRow
      BY DEF TypeOK
    <3>2. run'[r] = IF r \in S THEN x ELSE run[r]
      BY <2>1
    <3>3. /\ x \in RunRow /\ x.batch = b /\ x.data = run[r].data /\ x.hash = run[r].hash
          /\ x.proof = run[r].proof /\ x.leaf = run[r].leaf /\ x.sig = run[r].sig
      BY <3>1 DEF RunRow
    <3> HIDE DEF x
    <3> QED
      BY <3>1, <3>2, <3>3 DEF Unproven
  <2> QED
    BY <2>1, <2>2 DEF DataKept
<1> QED
  BY <1>1, <1>2, <1>3, BatcherMoves DEF BatcherSet

LEMMA SelectEffect ==
  ASSUME TypeOK, NEW p \in Proc, SelectAndBuild(p)
  PROVE  /\ BatcherSet(p, batcher'[p])
         /\ batcher'[p] # NoBatcher =>
               /\ batcher'[p].pc = "anchor" /\ batcher'[p].batch = batcher[p].batch
               /\ batcher'[p].tree = Leaves(batcher[p].batch)
               /\ batcher'[p].sig = batcher[p].sig
<1> DEFINE b == batcher[p].batch
           s == [batcher[p] EXCEPT !.pc = "anchor", !.tree = Leaves(b)]
<1>1. batcher[p] \in Batcher /\ Leaves(b) \in Tree
  BY DEF TypeOK, Leaves, Tree, RunRow, Leaf
<1>2. EndBatcher(p) \/ batcher' = [batcher EXCEPT ![p] = s]
  BY <1>1 DEF SelectAndBuild, TypeOK, Batcher
<1>3. /\ s \in Batcher /\ s.pc = "anchor" /\ s.batch = b /\ s.tree = Leaves(b)
      /\ s.sig = batcher[p].sig
  BY <1>1 DEF Batcher, BatcherPC
<1> HIDE DEF s
<1> QED
  BY <1>2, <1>3, BatcherEnds, BatcherMoves DEF BatcherSet

LEMMA AnchorEffect ==
  ASSUME TypeOK, NEW p \in Proc, batcher[p].batch \in Batch, Anchor(p)
  PROVE  /\ BatcherSet(p, batcher'[p])
         /\ batcher'[p].pc = "insert" /\ batcher'[p].batch = batcher[p].batch
         /\ batcher'[p].tree = batcher[p].tree
         /\ batcher'[p].sig \in {None, batcher[p].batch}
<1> PICK g \in {None, batcher[p].batch} :
        batcher' = [batcher EXCEPT ![p].pc = "insert", ![p].sig = g]
  BY DEF Anchor
<1> DEFINE s == [batcher[p] EXCEPT !.pc = "insert", !.sig = g]
<1>1. batcher[p] \in Batcher /\ batcher' = [batcher EXCEPT ![p] = s]
  BY DEF TypeOK, Batcher
<1>2. /\ s \in Batcher /\ s.pc = "insert" /\ s.batch = batcher[p].batch
      /\ s.tree = batcher[p].tree /\ s.sig = g
  BY <1>1 DEF Batcher, BatcherPC
<1> HIDE DEF s
<1> QED
  BY <1>1, <1>2, BatcherMoves DEF BatcherSet

\* The row of batch b, alone, becomes x.
RowSet(b, x) == /\ row' \in [Batch -> Row]
                /\ row'[b] = x /\ \A d \in Batch \ {b} : row'[d] = row[d]

LEMMA RowMoves ==
  ASSUME TypeOK, NEW b \in Batch, NEW x \in Row, row' = [row EXCEPT ![b] = x]
  PROVE  RowSet(b, x)
BY DEF TypeOK, RowSet

LEMMA InsertEffect ==
  ASSUME TypeOK, NEW p \in Proc, batcher[p].batch \in Batch, InsertBatch(p)
  PROVE  LET b == batcher[p].batch IN
         /\ BatcherSet(p, batcher'[p])
         /\ batcher'[p].pc = "store" /\ batcher'[p].batch = b
         /\ batcher'[p].tree = batcher[p].tree /\ batcher'[p].sig = batcher[p].sig
         /\ batcher'[p].todo = {r \in Run : batcher[p].tree[r] # None}
         /\ RowSet(b, row'[b])
         /\ row'[b].stored /\ row'[b].root = batcher[p].tree
         /\ row'[b].sig = batcher[p].sig /\ row'[b].bundle = Nothing
<1> DEFINE b == batcher[p].batch
           T == {r \in Run : batcher[p].tree[r] # None}
           s == [batcher[p] EXCEPT !.pc = "store", !.todo = T]
           x == [NoRow EXCEPT !.stored = TRUE, !.root = batcher[p].tree,
                              !.sig = batcher[p].sig]
<1>1. /\ batcher[p] \in Batcher /\ T \in SUBSET Run
      /\ batcher' = [batcher EXCEPT ![p] = s]
      /\ row' = [row EXCEPT ![b] = x]
  BY DEF InsertBatch, TypeOK, Batcher
<1>2. /\ s \in Batcher /\ s.pc = "store" /\ s.batch = b /\ s.tree = batcher[p].tree
      /\ s.sig = batcher[p].sig /\ s.todo = T
  BY <1>1 DEF Batcher, BatcherPC
<1>3. /\ x \in Row /\ x.stored /\ x.root = batcher[p].tree /\ x.sig = batcher[p].sig
      /\ x.bundle = Nothing
  BY <1>1, NullTypes DEF NoRow, Row, Batcher
<1> HIDE DEF s, x
<1> QED
  BY <1>1, <1>2, <1>3, BatcherMoves, RowMoves DEF BatcherSet, RowSet

LEMMA SetRunEffect ==
  ASSUME TypeOK, NEW p \in Proc, batcher[p].batch \in Batch, NEW r \in Run,
         SetRunBatch(p, r)
  PROVE  LET me == batcher[p] IN
         /\ me.pc = "store" /\ r \in me.todo
         /\ run' \in [Run -> RunRow] /\ DataKept
         /\ \A s \in Run \ {r} : run'[s] = run[s]
         /\ run'[r].batch = me.batch /\ run'[r].proof = me.batch
         /\ run'[r].leaf = me.tree[r] /\ run'[r].sig = me.sig
         /\ BatcherSet(p, batcher'[p])
         /\ batcher'[p] # NoBatcher =>
               /\ batcher'[p].pc \in {"store", "read"} /\ batcher'[p].batch = me.batch
               /\ batcher'[p].tree = me.tree /\ batcher'[p].sig = me.sig
               /\ batcher'[p].todo \subseteq me.todo \ {r}
<1> DEFINE me == batcher[p]
           x == BatchColumns(run[r], me.batch, me.tree[r], me.sig)
           s == [me EXCEPT !.pc = "read", !.todo = {}]
           t == [me EXCEPT !.todo = me.todo \ {r}]
<1>1. /\ me \in Batcher /\ run[r] \in RunRow /\ me.pc = "store" /\ r \in me.todo
      /\ run' = [run EXCEPT ![r] = x]
      /\ \/ batcher' = [batcher EXCEPT ![p] = s]
         \/ batcher' = [batcher EXCEPT ![p] = t]
         \/ batcher' = [batcher EXCEPT ![p] = NoBatcher]
  BY DEF SetRunBatch, TypeOK
<1>2. /\ x \in RunRow /\ x.batch = me.batch /\ x.proof = me.batch /\ x.leaf = me.tree[r]
      /\ x.sig = me.sig /\ x.data = run[r].data /\ x.hash = run[r].hash
  BY <1>1 DEF BatchColumns, RunRow, Batcher, Tree
<1>3. /\ s \in Batcher /\ s.pc = "read" /\ s.batch = me.batch /\ s.tree = me.tree
      /\ s.sig = me.sig /\ s.todo = {}
  BY <1>1 DEF Batcher, BatcherPC
<1>4. /\ t \in Batcher /\ t.pc = "store" /\ t.batch = me.batch /\ t.tree = me.tree
      /\ t.sig = me.sig /\ t.todo = me.todo \ {r}
  BY <1>1 DEF Batcher, BatcherPC
<1> HIDE DEF s, t, x
<1>5. /\ run' \in [Run -> RunRow] /\ run'[r] = x /\ DataKept
      /\ \A u \in Run \ {r} : run'[u] = run[u]
  BY <1>1, <1>2 DEF TypeOK, DataKept
<1>6. \/ BatcherSet(p, s) \/ BatcherSet(p, t) \/ BatcherSet(p, NoBatcher)
  BY <1>1, <1>3, <1>4, NullTypes, BatcherMoves
<1> QED
  BY <1>1, <1>2, <1>3, <1>4, <1>5, <1>6 DEF BatcherSet

LEMMA ReleaseEffect ==
  ASSUME TypeOK, NEW B, Release(Releasable(B))
  PROVE  /\ run' \in [Run -> RunRow] /\ DataKept
         /\ \A r \in Run : Unproven(r)
                           /\ (run'[r].batch # run[r].batch =>
                                  /\ run'[r].batch = None /\ run[r].batch \in B
                                  /\ run[r].proof = None)
BY DEF Release, Releasable, TypeOK, RunRow, DataKept, Unproven

LEMMA ReadBundleEffect ==
  ASSUME TypeOK, NEW p \in Proc, ReadBundle(p)
  PROVE  /\ BatcherSet(p, batcher'[p])
         /\ batcher'[p].pc = "upload" /\ batcher'[p].batch = batcher[p].batch
         /\ batcher'[p].tree = batcher[p].tree /\ batcher'[p].sig = batcher[p].sig
         /\ batcher'[p].bundle = Bundle(batcher[p].batch)
<1> DEFINE b == batcher[p].batch
           s == [batcher[p] EXCEPT !.pc = "upload", !.bundle = Bundle(b)]
<1>1. batcher[p] \in Batcher /\ Bundle(b) \in Tree
  BY DEF TypeOK, Bundle, Tree, RunRow, Leaf
<1>2. batcher' = [batcher EXCEPT ![p] = s]
  BY <1>1 DEF ReadBundle, TypeOK, Batcher
<1>3. /\ s \in Batcher /\ s.pc = "upload" /\ s.batch = b /\ s.tree = batcher[p].tree
      /\ s.sig = batcher[p].sig /\ s.bundle = Bundle(b)
  BY <1>1 DEF Batcher, BatcherPC
<1> HIDE DEF s
<1> QED
  BY <1>2, <1>3, BatcherMoves DEF BatcherSet

\* Batch b is archived with the leaves of t, or is not.
ArchiveSet(b, t) ==
    /\ row' \in [Batch -> Row]
    /\ \A d \in Batch : /\ row'[d].stored = row[d].stored /\ row'[d].root = row[d].root
                        /\ row'[d].sig = row[d].sig
                        /\ row'[d] # row[d] => d = b /\ row'[d].bundle = t

LEMMA ArchiveEffect ==
  ASSUME TypeOK, NEW b \in Batch, NEW t \in Tree, Archived(b, t) \/ UNCHANGED row
  PROVE  ArchiveSet(b, t)
<1> DEFINE x == [row[b] EXCEPT !.archived = TRUE, !.bundle = t]
<1>1. row[b] \in Row
  BY DEF TypeOK
<1>2. UNCHANGED row \/ row' = [row EXCEPT ![b] = x]
  BY <1>1 DEF Archived, TypeOK, Row
<1>3. /\ x \in Row /\ x.stored = row[b].stored /\ x.root = row[b].root
      /\ x.sig = row[b].sig /\ x.bundle = t
  BY <1>1 DEF Row
<1> HIDE DEF x
<1> QED
  BY <1>2, <1>3 DEF TypeOK, ArchiveSet

\* The sweep of p, alone, becomes s.
SweepSet(p, s) == /\ sweep' \in [Proc -> Sweep]
                  /\ sweep'[p] = s /\ \A q \in Proc \ {p} : sweep'[q] = sweep[q]

LEMMA SweepMoves ==
  ASSUME TypeOK, NEW p \in Proc, NEW s \in Sweep, sweep' = [sweep EXCEPT ![p] = s]
  PROVE  SweepSet(p, s)
BY DEF TypeOK, SweepSet

LEMMA UploadEffect ==
  ASSUME TypeOK, NEW p \in Proc, batcher[p].batch \in Batch, Upload(p)
  PROVE  /\ BatcherSet(p, NoBatcher)
         /\ ArchiveSet(batcher[p].batch, batcher[p].bundle)
         /\ SweepSet(p, sweep'[p])
         /\ sweep'[p] # sweep[p] => sweep'[p].pc = "list" /\ sweep'[p].todo = sweep[p].todo
<1> DEFINE s == [sweep[p] EXCEPT !.pc = "list"]
<1>1. sweep[p] \in Sweep /\ batcher[p].bundle \in Tree
  BY DEF TypeOK, Batcher
<1>2. sweep' = sweep \/ sweep' = [sweep EXCEPT ![p] = s]
  BY <1>1 DEF Upload, TypeOK, Sweep
<1>3. s \in Sweep /\ s.pc = "list" /\ s.todo = sweep[p].todo
  BY <1>1 DEF Sweep
<1> HIDE DEF s
<1>4. SweepSet(p, sweep'[p])
      /\ (sweep'[p] # sweep[p] => sweep'[p].pc = "list" /\ sweep'[p].todo = sweep[p].todo)
  BY <1>2, <1>3, SweepMoves DEF SweepSet, TypeOK
<1> QED
  BY <1>1, <1>4, BatcherEnds, ArchiveEffect DEF Upload

LEMMA ListMissingEffect ==
  ASSUME TypeOK, NEW p \in Proc, NEW B \in SUBSET Batch, ListMissing(p, B)
  PROVE  SweepSet(p, sweep'[p]) /\ sweep'[p].pc # "upload" /\ sweep'[p].todo \subseteq B
<1> DEFINE s == [NoSweep EXCEPT !.pc = "read", !.todo = B]
<1>1. s \in Sweep /\ s.pc = "read" /\ s.todo = B
  BY NullTypes DEF NoSweep, Sweep
<1>2. NoSweep \in Sweep /\ NoSweep.pc = "idle" /\ NoSweep.todo = {}
  BY NullTypes DEF NoSweep
<1>3. sweep' = [sweep EXCEPT ![p] = s] \/ sweep' = [sweep EXCEPT ![p] = NoSweep]
  BY DEF ListMissing
<1> HIDE DEF s
<1>4. SweepSet(p, s) \/ SweepSet(p, NoSweep)
  BY <1>1, <1>2, <1>3, SweepMoves
<1> QED
  BY <1>1, <1>2, <1>4 DEF SweepSet

LEMMA SweepReadEffect ==
  ASSUME TypeOK, NEW p \in Proc, NEW b \in Batch, SweepRead(p, b)
  PROVE  /\ SweepSet(p, sweep'[p])
         /\ sweep'[p].pc = "upload" /\ sweep'[p].batch = b /\ sweep'[p].bundle = Bundle(b)
         /\ sweep'[p].todo \subseteq sweep[p].todo
<1> DEFINE s == [pc |-> "upload", todo |-> sweep[p].todo \ {b}, batch |-> b,
                 bundle |-> Bundle(b)]
<1>1. sweep[p] \in Sweep /\ Bundle(b) \in Tree
  BY DEF TypeOK, Bundle, Tree, RunRow, Leaf
<1>2. s \in Sweep
  BY <1>1 DEF Sweep
<1>3. sweep' = [sweep EXCEPT ![p] = s]
  BY DEF SweepRead, TypeOK
<1>4. SweepSet(p, s)
  BY <1>2, <1>3, SweepMoves
<1> QED
  BY <1>4 DEF SweepSet

LEMMA SweepUploadEffect ==
  ASSUME TypeOK, NEW p \in Proc, sweep[p].batch \in Batch, SweepUpload(p)
  PROVE  /\ ArchiveSet(sweep[p].batch, sweep[p].bundle)
         /\ SweepSet(p, sweep'[p])
         /\ sweep'[p].pc # "upload" /\ sweep'[p].todo \subseteq sweep[p].todo
<1> DEFINE s == [NoSweep EXCEPT !.pc = "read", !.todo = sweep[p].todo]
<1>1. sweep[p] \in Sweep /\ sweep[p].bundle \in Tree
  BY DEF TypeOK, Sweep
<1>2. s \in Sweep /\ s.pc = "read" /\ s.todo = sweep[p].todo
  BY <1>1, NullTypes DEF NoSweep, Sweep
<1>3. NoSweep \in Sweep /\ NoSweep.pc = "idle" /\ NoSweep.todo = {}
  BY NullTypes DEF NoSweep
<1>4. sweep' = [sweep EXCEPT ![p] = s] \/ sweep' = [sweep EXCEPT ![p] = NoSweep]
  BY DEF SweepUpload
<1> HIDE DEF s
<1>5. SweepSet(p, s) \/ SweepSet(p, NoSweep)
  BY <1>2, <1>3, <1>4, SweepMoves
<1> QED
  BY <1>1, <1>2, <1>3, <1>5, ArchiveEffect DEF SweepSet, SweepUpload

\* The pass of p, alone, becomes s.
PassSet(p, s) == /\ pass' \in [Proc -> Pass]
                 /\ pass'[p] = s /\ \A q \in Proc \ {p} : pass'[q] = pass[q]

LEMMA PassMoves ==
  ASSUME TypeOK, NEW p \in Proc, NEW s \in Pass, pass' = [pass EXCEPT ![p] = s]
  PROVE  PassSet(p, s)
BY DEF TypeOK, PassSet

\* A pass goes on to the next of its batches, or ends.
Onwards(p) == /\ PassSet(p, pass'[p])
              /\ pass'[p].pc \in {"idle", "anchor"} /\ pass'[p].todo \subseteq pass[p].todo

LEMMA NextUnsignedEffect ==
  ASSUME TypeOK, NEW p \in Proc, NextUnsigned(p)
  PROVE  Onwards(p)
<1> DEFINE s == [NoPass EXCEPT !.pc = "anchor", !.todo = pass[p].todo]
<1>1. pass[p] \in Pass
  BY DEF TypeOK
<1>2. s \in Pass /\ s.pc = "anchor" /\ s.todo = pass[p].todo
  BY <1>1 DEF NoPass, Pass
<1>3. NoPass \in Pass /\ NoPass.pc = "idle" /\ NoPass.todo = {}
  BY NullTypes DEF NoPass
<1>4. pass' = [pass EXCEPT ![p] = s] \/ pass' = [pass EXCEPT ![p] = NoPass]
  BY DEF NextUnsigned
<1> HIDE DEF s
<1>5. PassSet(p, s) \/ PassSet(p, NoPass)
  BY <1>2, <1>3, <1>4, PassMoves
<1> QED
  BY <1>2, <1>3, <1>5 DEF PassSet, Onwards

LEMMA ListUnsignedEffect ==
  ASSUME TypeOK, NEW p \in Proc, ListUnsigned(p)
  PROVE  PassSet(p, pass'[p]) /\ pass'[p].pc = "anchor" /\ pass'[p].todo = Unsigned
<1> DEFINE s == [pc |-> "anchor", todo |-> Unsigned, batch |-> None]
<1>1. s \in Pass /\ pass' = [pass EXCEPT ![p] = s]
  BY DEF ListUnsigned, Pass, Unsigned
<1>2. PassSet(p, s)
  BY <1>1, PassMoves
<1> QED
  BY <1>2 DEF PassSet

LEMMA PassAnchoredEffect ==
  ASSUME TypeOK, NEW p \in Proc, NEW b \in Batch, PassAnchored(p, b)
  PROVE  /\ PassSet(p, pass'[p])
         /\ pass'[p].pc = "batch" /\ pass'[p].batch = b
         /\ pass'[p].todo \subseteq pass[p].todo
<1> DEFINE s == [pc |-> "batch", todo |-> pass[p].todo \ {b}, batch |-> b]
<1>1. pass[p] \in Pass
  BY DEF TypeOK
<1>2. s \in Pass /\ pass' = [pass EXCEPT ![p] = s]
  BY <1>1 DEF PassAnchored, Pass
<1>3. PassSet(p, s)
  BY <1>2, PassMoves
<1> QED
  BY <1>3 DEF PassSet

LEMMA PassUnanchoredEffect ==
  ASSUME TypeOK, NEW p \in Proc, NEW b \in Batch, PassUnanchored(p, b)
  PROVE  Onwards(p)
<1> DEFINE left == pass[p].todo \ {b}
           s == [pass[p] EXCEPT !.todo = left]
<1>1. pass[p] \in Pass /\ pass[p].pc = "anchor"
  BY DEF TypeOK, PassUnanchored
<1>2. pass' = [pass EXCEPT ![p] = s] \/ pass' = [pass EXCEPT ![p] = NoPass]
  BY <1>1 DEF PassUnanchored, TypeOK, Pass
<1>3. s \in Pass /\ s.pc = "anchor" /\ s.todo \subseteq pass[p].todo
  BY <1>1 DEF Pass
<1>4. NoPass \in Pass /\ NoPass.pc = "idle" /\ NoPass.todo = {}
  BY NullTypes DEF NoPass
<1> HIDE DEF s
<1>5. PassSet(p, s) \/ PassSet(p, NoPass)
  BY <1>2, <1>3, <1>4, PassMoves
<1> QED
  BY <1>3, <1>4, <1>5 DEF PassSet, Onwards

LEMMA PassSetBatchEffect ==
  ASSUME TypeOK, NEW p \in Proc, pass[p].batch \in Batch, PassSetBatch(p)
  PROVE  LET b == pass[p].batch IN
         /\ pass[p].pc = "batch"
         /\ PassSet(p, pass'[p])
         /\ pass'[p].pc = "runs" /\ pass'[p].batch = b /\ pass'[p].todo = pass[p].todo
         /\ row' \in [Batch -> Row]
         /\ \A d \in Batch : /\ row'[d].stored = row[d].stored
                             /\ row'[d].root = row[d].root
                             /\ row'[d].bundle = row[d].bundle
                             /\ row'[d] # row[d] => d = b /\ row[b].sig = None
         /\ row'[b].sig = IF row[b].sig = None THEN b ELSE row[b].sig
<1> DEFINE b == pass[p].batch
           s == [pass[p] EXCEPT !.pc = "runs"]
           x == [row[b] EXCEPT !.sig = b]
<1>1. pass[p] \in Pass /\ row[b] \in Row /\ pass[p].pc = "batch"
  BY DEF TypeOK, PassSetBatch
<1>2. /\ pass' = [pass EXCEPT ![p] = s]
      /\ row' = IF row[b].sig = None THEN [row EXCEPT ![b] = x] ELSE row
  BY <1>1 DEF PassSetBatch, TypeOK, Pass, Row
<1>3. s \in Pass /\ s.pc = "runs" /\ s.batch = b /\ s.todo = pass[p].todo
  BY <1>1 DEF Pass
<1>4. /\ x \in Row /\ x.stored = row[b].stored /\ x.root = row[b].root /\ x.sig = b
      /\ x.bundle = row[b].bundle
  BY <1>1 DEF Row
<1> HIDE DEF s, x
<1>5. PassSet(p, s)
  BY <1>2, <1>3, PassMoves
<1> QED
  BY <1>1, <1>2, <1>3, <1>4, <1>5 DEF PassSet, TypeOK

LEMMA PassSetRunsEffect ==
  ASSUME TypeOK, NEW p \in Proc, pass[p].batch \in Batch, PassSetRuns(p)
  PROVE  LET b == pass[p].batch IN
         /\ pass[p].pc = "runs" /\ Onwards(p)
         /\ run' \in [Run -> RunRow] /\ DataKept
         /\ \A r \in Run :
               /\ run'[r].batch = run[r].batch /\ run'[r].proof = run[r].proof
               /\ run'[r].leaf = run[r].leaf
               /\ run'[r].sig = IF run[r].batch = b /\ run[r].sig = None THEN b
                                ELSE run[r].sig
<1> DEFINE b == pass[p].batch
<1>1. run' = [r \in Run |-> IF r \in UnsignedRuns(b) THEN [run[r] EXCEPT !.sig = b]
                                                  ELSE run[r]]
  BY DEF PassSetRuns
<1>2. ASSUME NEW r \in Run
      PROVE  /\ run'[r] \in RunRow
             /\ run'[r].data = run[r].data /\ run'[r].hash = run[r].hash
             /\ run'[r].batch = run[r].batch /\ run'[r].proof = run[r].proof
             /\ run'[r].leaf = run[r].leaf
             /\ run'[r].sig = IF run[r].batch = b /\ run[r].sig = None THEN b
                              ELSE run[r].sig
  <2> DEFINE x == [run[r] EXCEPT !.sig = b]
  <2>1. run[r] \in RunRow
    BY DEF TypeOK
  <2>2. run'[r] = IF r \in UnsignedRuns(b) THEN x ELSE run[r]
    BY <1>1
  <2>3. /\ x \in RunRow /\ x.batch = run[r].batch /\ x.data = run[r].data
        /\ x.hash = run[r].hash /\ x.proof = run[r].proof /\ x.leaf = run[r].leaf
        /\ x.sig = b
    BY <2>1 DEF RunRow
  <2> HIDE DEF x
  <2> QED
    BY <2>1, <2>2, <2>3 DEF UnsignedRuns
<1>3. pass[p].pc = "runs" /\ Onwards(p)
  BY NextUnsignedEffect DEF PassSetRuns
<1> QED
  BY <1>1, <1>2, <1>3 DEF DataKept

LEMMA CrashEffect ==
  ASSUME TypeOK, NEW p \in Proc, Crash(p)
  PROVE  /\ BatcherSet(p, NoBatcher) /\ SweepSet(p, NoSweep) /\ PassSet(p, NoPass)
         /\ TailsTyped' /\ \A e \in Exec : tail'[e] \in {tail[e], NoTail}
<1>1. BatcherSet(p, NoBatcher) /\ SweepSet(p, NoSweep) /\ PassSet(p, NoPass)
  BY NullTypes, BatcherMoves, SweepMoves, PassMoves DEF Crash
<1>2. NoTail \in Tail /\ NoTail.pc = "idle"
  BY NullTypes DEF NoTail
<1> QED
  BY <1>1, <1>2 DEF Crash, TypeOK, TailsTyped

-----------------------------------------------------------------------------
(* What every step keeps.                                                  *)

TailNext(e) == (\E r \in Run : BeginTail(e, r)) \/ TailStep(e) \/ FailTail(e)

BatchNext(p) ==
    \/ Claim(p) \/ Batching(p) \/ Sweeping(p) \/ ListUnsigned(p)
    \/ \E b \in Batch : PassAnchored(p, b) \/ PassUnanchored(p, b)
    \/ Signing(p) \/ Crash(p) \/ Boot(p) \/ FailBatcher(p) \/ FailPass(p)

LEMMA NextParts ==
  [Next]_vars => \/ \E e \in Exec : TailNext(e)
                 \/ \E p \in Proc : BatchNext(p)
                 \/ \E b \in Batch : AgeBatch(b)
                 \/ UNCHANGED vars
BY DEF Next, TailNext, BatchNext

\* What a step of a tail leaves alone.
LEMMA TailLeaves ==
  ASSUME NEW e \in Exec, TailNext(e)
  PROVE  UNCHANGED <<row, stale, batcher, sweep, pass, up, dropped, missed>>
BY DEF TailNext, BeginTail, TailStep, Commit, Outcome, ReadAgenc, WriteAgenc, Digest,
       UpdateReceipt, FailTail

\* What the steps of tails do to the receipts: only a run with one tail is safe.
LEMMA TailReceipts ==
  ASSUME IInv, NEW e \in Exec, TailNext(e)
  PROVE  /\ run' \in [Run -> RunRow] /\ TailsTyped' /\ finals' \in [Run -> Nat]
         /\ \A r \in Run :
               /\ TailedOnce(r)' => TailedOnce(r)
               /\ run'[r].batch = run[r].batch /\ run'[r].proof = run[r].proof
               /\ run'[r].leaf = run[r].leaf /\ run'[r].sig \in {None, run[r].sig}
               /\ run[r].hash # None =>
                     /\ run'[r].hash # None
                     /\ TailedOnce(r)' => /\ run'[r].hash = run[r].hash
                                          /\ run'[r].sig = run[r].sig
<1> TypeOK
  BY DEF IInv
<1>1. CASE \E r \in Run : BeginTail(e, r)
  <2> PICK r \in Run : BeginTail(e, r)
    BY <1>1
  <2>1. /\ UNCHANGED run /\ TailsTyped' /\ finals' \in [Run -> Nat]
        /\ \A s \in Run : finals'[s] \in {finals[s], finals[s] + 1}
    BY BeginEffect DEF TailSet
  <2> QED
    BY <2>1 DEF TailedOnce, TypeOK
<1>2. CASE TailStep(e) \/ FailTail(e)
  <2> DEFINE r == tail[e].run
  <2>1. r \in Run /\ tail[e].pc # "idle" /\ TailEffect(e, r)
    BY <1>2, TailStepEffect, FailTailEffect
  <2>2. finals' = finals
    BY <1>2 DEF TailStep, Commit, Outcome, ReadAgenc, WriteAgenc, Digest, UpdateReceipt,
                FailTail
  <2>3. /\ TailedOnce(r) => run[r].hash = None
        /\ tail[e].pc = "write" => tail[e].digest # None
    BY <2>1 DEF IInv, HashOK, TailOK
  <2> QED
    BY <2>1, <2>2, <2>3 DEF TailEffect, Rehashed, TailedOnce, TypeOK
<1> QED
  BY <1>1, <1>2 DEF TailNext

\* What the other steps do to them: nothing.
LEMMA BatchReceipts ==
  ASSUME IInv, NEW p \in Proc, BatchNext(p)
  PROVE  /\ run' \in [Run -> RunRow] /\ DataKept
         /\ UNCHANGED finals
         /\ TailsTyped' /\ \A e \in Exec : tail'[e] \in {tail[e], NoTail}
<1> TypeOK /\ BatcherOK(p) /\ PassOK(p)
  BY DEF IInv
<1> USE DEF DataKept
<1>1. CASE Claim(p)
  <2> PICK b \in Batch, S \in SUBSET Run : ClaimSlice(p, b, S)
    BY <1>1 DEF Claim
  <2> QED
    BY ClaimEffect DEF ClaimSlice, TypeOK, TailsTyped
<1>2. CASE Batching(p)
  <2>1. ASSUME NEW r \in Run, SetRunBatch(p, r)
        PROVE  run' \in [Run -> RunRow] /\ DataKept /\ UNCHANGED <<finals, tail>>
    <3>1. batcher[p].batch \in Batch
      BY <2>1 DEF SetRunBatch, BatcherOK
    <3> QED
      BY <2>1, <3>1, SetRunEffect DEF SetRunBatch
  <2>2. CASE ReleaseUnproven(p)
    BY <2>2, ReleaseEffect DEF ReleaseUnproven, TypeOK, TailsTyped
  <2> QED
    BY <1>2, <2>1, <2>2 DEF Batching, SelectAndBuild, Anchor, InsertBatch, ReadBundle,
                            Upload, TypeOK, TailsTyped
<1>3. CASE Signing(p)
  <2>1. CASE PassSetRuns(p)
    <3>1. pass[p].batch \in Batch
      BY <2>1 DEF PassSetRuns, PassOK
    <3> QED
      BY <2>1, <3>1, PassSetRunsEffect DEF PassSetRuns, TypeOK, TailsTyped
  <2> QED
    BY <1>3, <2>1 DEF Signing, PassSetBatch, TypeOK, TailsTyped
<1>4. CASE Crash(p)
  <2>1. UNCHANGED <<run, finals>>
    BY <1>4 DEF Crash
  <2> QED
    BY <1>4, <2>1, CrashEffect DEF TypeOK
<1>5. CASE Boot(p)
  <2>1. UNCHANGED <<tail, finals>> /\ (Release(Releasable(stale)) \/ UNCHANGED run)
    BY <1>5 DEF Boot, Orphaned
  <2> QED
    BY <2>1, ReleaseEffect DEF TypeOK, TailsTyped
<1>6. CASE \/ Sweeping(p) \/ ListUnsigned(p) \/ FailBatcher(p) \/ FailPass(p)
           \/ \E b \in Batch : PassAnchored(p, b) \/ PassUnanchored(p, b)
  <2>1. UNCHANGED <<run, tail, finals>>
    BY <1>6 DEF Sweeping, ListMissing, SweepRead, SweepUpload, ListUnsigned, PassAnchored,
                PassUnanchored, FailBatcher, FailPass
  <2> QED
    BY <2>1 DEF TypeOK, TailsTyped
<1> QED
  BY <1>1, <1>2, <1>3, <1>4, <1>5, <1>6 DEF BatchNext

\* The rows of the batches: a stored batch keeps its tree and its signature.
RowKept(b) ==
    /\ row[b].stored =>
          /\ row'[b].stored /\ row'[b].root = row[b].root
          /\ row[b].sig # None => row'[b].sig # None
    /\ row'[b] # row[b] => row'[b].stored

LEMMA RowsKept ==
  ASSUME IInv, NEW p \in Proc, BatchNext(p)
  PROVE  row' \in [Batch -> Row] /\ \A b \in Batch : RowKept(b)
<1> TypeOK /\ BatcherOK(p) /\ PassOK(p) /\ SweepOK(p)
  BY DEF IInv
<1>1. CASE InsertBatch(p)
  <2>1. batcher[p].batch \in Batch /\ ~row[batcher[p].batch].stored
    BY <1>1 DEF InsertBatch, BatcherOK
  <2> QED
    BY <1>1, <2>1, InsertEffect DEF RowSet, RowKept
<1>2. CASE Upload(p)
  <2>1. batcher[p].batch \in Batch /\ row[batcher[p].batch].stored
    BY <1>2 DEF Upload, BatcherOK
  <2> QED
    BY <1>2, <2>1, UploadEffect DEF ArchiveSet, RowKept
<1>3. CASE SweepUpload(p)
  <2>1. sweep[p].batch \in Batch /\ row[sweep[p].batch].stored
    BY <1>3 DEF SweepUpload, SweepOK
  <2> QED
    BY <1>3, <2>1, SweepUploadEffect DEF ArchiveSet, RowKept
<1>4. CASE PassSetBatch(p)
  <2>1. pass[p].batch \in Batch /\ row[pass[p].batch].stored
    BY <1>4 DEF PassSetBatch, PassOK
  <2> QED
    BY <1>4, <2>1, PassSetBatchEffect DEF RowKept
<1>5. CASE UNCHANGED row
  BY <1>5 DEF TypeOK, RowKept
<1> QED
  BY <1>1, <1>2, <1>3, <1>4, <1>5
  DEF BatchNext, Claim, ClaimSlice, Batching, SelectAndBuild, Anchor, SetRunBatch,
      ReleaseUnproven, ReadBundle, Sweeping, ListMissing, SweepRead, ListUnsigned,
      PassAnchored, PassUnanchored, Signing, PassSetRuns, Crash, Boot, FailBatcher,
      FailPass

\* The three together, of any step.
ReceiptKept(r) ==
    /\ TailedOnce(r)' => TailedOnce(r)
    /\ run[r].hash # None => /\ run'[r].hash # None
                             /\ TailedOnce(r)' => run'[r].hash = run[r].hash

LEMMA StepKeeps ==
  ASSUME IInv, [Next]_vars
  PROVE  (\A r \in Run : ReceiptKept(r)) /\ (\A b \in Batch : RowKept(b))
<1>1. ASSUME NEW e \in Exec, TailNext(e)
      PROVE  (\A r \in Run : ReceiptKept(r)) /\ (\A b \in Batch : RowKept(b))
  BY <1>1, TailLeaves, TailReceipts DEF ReceiptKept, RowKept
<1>2. ASSUME NEW p \in Proc, BatchNext(p)
      PROVE  (\A r \in Run : ReceiptKept(r)) /\ (\A b \in Batch : RowKept(b))
  BY <1>2, BatchReceipts, RowsKept DEF ReceiptKept, TailedOnce, DataKept
<1>3. CASE (\E b \in Batch : AgeBatch(b)) \/ UNCHANGED vars
  BY <1>3 DEF AgeBatch, vars, ReceiptKept, RowKept, TailedOnce
<1> QED
  BY <1>1, <1>2, <1>3, NextParts

\* What a tree holds stays true of the receipts, of an archive that of the root.
LEMMA TreesKept ==
  ASSUME IInv, [Next]_vars, NEW t \in Tree
  PROVE  /\ Faithful(t) => Faithful(t)'
         /\ \A b \in Batch : row[b].stored /\ Within(t, b) => Within(t, b)'
<1>1. (\A r \in Run : ReceiptKept(r)) /\ (\A b \in Batch : RowKept(b))
  BY StepKeeps
<1>2. Faithful(t) => Faithful(t)'
  BY <1>1 DEF Faithful, ReceiptKept
<1>3. ASSUME NEW b \in Batch, row[b].stored, Within(t, b) PROVE Within(t, b)'
  BY <1>1, <1>3 DEF Within, ReceiptKept, RowKept
<1> QED
  BY <1>2, <1>3

-----------------------------------------------------------------------------
(* The invariant, part by part: types.                                     *)

LEMMA TypeTail == ASSUME IInv, NEW e \in Exec, TailNext(e) PROVE TypeOK'
<1>1. TypeOK
  BY DEF IInv
<1>2. failures' \in Nat
  BY <1>1 DEF TailNext, BeginTail, TailStep, Commit, Outcome, ReadAgenc, WriteAgenc,
              Digest, UpdateReceipt, FailTail, Fail, TypeOK
<1> QED
  BY <1>1, <1>2, TailLeaves, TailReceipts DEF TypeOK, TailsTyped

\* The steps of the batcher of p, in short.
LEMMA BatcherSteps ==
  ASSUME IInv, NEW p \in Proc, BatchNext(p)
  PROVE  /\ BatcherSet(p, batcher'[p])
         /\ batcher'[p] # NoBatcher /\ batcher'[p].batch # batcher[p].batch => Claim(p)
<1> TypeOK /\ BatcherOK(p)
  BY DEF IInv
<1>1. CASE Claim(p)
  BY <1>1, ClaimEffect DEF Claim
<1>2. CASE Batching(p)
  <2>1. batcher[p].pc # "idle" /\ batcher[p].batch \in Batch
    BY <1>2 DEF Batching, SelectAndBuild, Anchor, InsertBatch, SetRunBatch,
                ReleaseUnproven, ReadBundle, Upload, BatcherOK
  <2>2. CASE ReleaseUnproven(p) \/ Upload(p)
    BY <2>2, BatcherEnds DEF ReleaseUnproven, Upload, BatcherSet
  <2>3. ASSUME NEW r \in Run, SetRunBatch(p, r)
        PROVE  /\ BatcherSet(p, batcher'[p])
               /\ batcher'[p] # NoBatcher => batcher'[p].batch = batcher[p].batch
    BY <2>1, <2>3, SetRunEffect
  <2>4. CASE SelectAndBuild(p) \/ Anchor(p) \/ InsertBatch(p) \/ ReadBundle(p)
    BY <2>1, <2>4, SelectEffect, AnchorEffect, InsertEffect, ReadBundleEffect
  <2> QED
    BY <1>2, <2>2, <2>3, <2>4 DEF Batching
<1>3. CASE Crash(p)
  BY <1>3, CrashEffect DEF BatcherSet
<1>4. CASE FailBatcher(p)
  <2>1. EndBatcher(p) \/ GoBatcher(p, "release")
    BY <1>4 DEF FailBatcher
  <2> QED
    BY <2>1, BatcherEnds, BatcherGoes DEF BatcherSet, BatcherPC
<1>5. CASE UNCHANGED batcher
  BY <1>5 DEF BatcherSet, TypeOK
<1> QED
  BY <1>1, <1>2, <1>3, <1>4, <1>5
  DEF BatchNext, Sweeping, ListMissing, SweepRead, SweepUpload, ListUnsigned,
      PassAnchored, PassUnanchored, Signing, PassSetBatch, PassSetRuns, Boot, FailPass

\* The steps of the sweep of p, and of its pass.
LEMMA SweepSteps ==
  ASSUME IInv, NEW p \in Proc, BatchNext(p)
  PROVE  /\ SweepSet(p, sweep'[p])
         /\ sweep'[p].todo \subseteq sweep[p].todo \cup Missing
         /\ sweep'[p].pc = "upload" /\ sweep'[p] # sweep[p] =>
                \E b \in sweep[p].todo : /\ sweep'[p].batch = b
                                         /\ sweep'[p].bundle = Bundle(b)
<1> TypeOK /\ BatcherOK(p) /\ SweepOK(p)
  BY DEF IInv
<1>1. CASE Upload(p)
  <2>1. batcher[p].batch \in Batch
    BY <1>1 DEF Upload, BatcherOK
  <2> QED
    BY <1>1, <2>1, UploadEffect
<1>2. CASE \E B \in SUBSET Batch : ListMissing(p, B)
  <2> PICK B \in SUBSET Batch : ListMissing(p, B)
    BY <1>2
  <2>1. B \subseteq Missing
    BY DEF ListMissing
  <2> QED
    BY <2>1, ListMissingEffect
<1>3. CASE \E b \in Batch : SweepRead(p, b)
  <2> PICK b \in Batch : SweepRead(p, b)
    BY <1>3
  <2>1. b \in sweep[p].todo
    BY DEF SweepRead
  <2> QED
    BY <2>1, SweepReadEffect
<1>4. CASE SweepUpload(p)
  <2>1. sweep[p].batch \in Batch
    BY <1>4 DEF SweepUpload, SweepOK
  <2> QED
    BY <1>4, <2>1, SweepUploadEffect
<1>5. CASE Crash(p)
  <2>1. NoSweep.pc = "idle" /\ NoSweep.todo = {}
    BY DEF NoSweep
  <2> QED
    BY <1>5, <2>1, CrashEffect DEF SweepSet
<1>6. CASE UNCHANGED sweep
  BY <1>6 DEF SweepSet, TypeOK
<1> QED
  BY <1>1, <1>2, <1>3, <1>4, <1>5, <1>6
  DEF BatchNext, Claim, ClaimSlice, Batching, SelectAndBuild, Anchor, InsertBatch,
      SetRunBatch, ReleaseUnproven, ReadBundle, Sweeping, ListUnsigned, PassAnchored,
      PassUnanchored, Signing, PassSetBatch, PassSetRuns, Boot, FailBatcher, FailPass

LEMMA PassSteps ==
  ASSUME IInv, NEW p \in Proc, BatchNext(p)
  PROVE  /\ PassSet(p, pass'[p])
         /\ pass'[p].todo \subseteq pass[p].todo \cup Unsigned
         /\ pass'[p].pc = "batch" =>
                \/ pass'[p] = pass[p]
                \/ pass'[p].batch \in pass[p].todo
         /\ pass'[p].pc = "runs" =>
                \/ pass'[p] = pass[p]
                \/ PassSetBatch(p) /\ pass'[p].batch = pass[p].batch
<1> TypeOK /\ PassOK(p)
  BY DEF IInv
<1>1. CASE ListUnsigned(p)
  BY <1>1, ListUnsignedEffect
<1>2. CASE \E b \in Batch : PassAnchored(p, b)
  <2> PICK b \in Batch : PassAnchored(p, b)
    BY <1>2
  <2>1. b \in pass[p].todo
    BY DEF PassAnchored
  <2> QED
    BY <2>1, PassAnchoredEffect
<1>3. CASE \E b \in Batch : PassUnanchored(p, b)
  BY <1>3, PassUnanchoredEffect DEF Onwards
<1>4. CASE PassSetBatch(p)
  <2>1. pass[p].batch \in Batch
    BY <1>4 DEF PassSetBatch, PassOK
  <2> QED
    BY <1>4, <2>1, PassSetBatchEffect
<1>5. CASE PassSetRuns(p) \/ FailPass(p)
  <2>1. Onwards(p)
    BY <1>5, NextUnsignedEffect DEF PassSetRuns, FailPass
  <2> QED
    BY <2>1 DEF Onwards
<1>6. CASE Crash(p)
  <2>1. NoPass.pc = "idle" /\ NoPass.todo = {}
    BY DEF NoPass
  <2> QED
    BY <1>6, <2>1, CrashEffect DEF PassSet
<1>7. CASE UNCHANGED pass
  BY <1>7 DEF PassSet, TypeOK
<1> QED
  BY <1>1, <1>2, <1>3, <1>4, <1>5, <1>6, <1>7
  DEF BatchNext, Claim, ClaimSlice, Batching, SelectAndBuild, Anchor, InsertBatch,
      SetRunBatch, ReleaseUnproven, ReadBundle, Upload, Sweeping, ListMissing, SweepRead,
      SweepUpload, Signing, Boot, FailBatcher

LEMMA TypeBatch == ASSUME IInv, NEW p \in Proc, BatchNext(p) PROVE TypeOK'
<1> TypeOK /\ BatcherOK(p) /\ PassOK(p)
  BY DEF IInv
<1>1. /\ batcher' \in [Proc -> Batcher] /\ sweep' \in [Proc -> Sweep]
      /\ pass' \in [Proc -> Pass] /\ row' \in [Batch -> Row]
  BY BatcherSteps, SweepSteps, PassSteps, RowsKept DEF BatcherSet, SweepSet, PassSet
<1>2. run' \in [Run -> RunRow] /\ TailsTyped' /\ finals' = finals
  BY BatchReceipts
<1>3. Unfinished(p) \subseteq Batch /\ HalfSigned(p) \subseteq Batch
  BY DEF Unfinished, HalfSigned, BatcherOK, PassOK, TypeOK, Batcher, BatcherPC
<1>3a. failures' \in {failures, failures + 1}
  BY DEF BatchNext, Claim, ClaimSlice, Batching, SelectAndBuild, Anchor, InsertBatch,
         SetRunBatch, ReleaseUnproven, ReadBundle, Upload, Sweeping, ListMissing,
         SweepRead, SweepUpload, ListUnsigned, PassAnchored, PassUnanchored, Signing,
         PassSetBatch, PassSetRuns, Crash, Boot, FailBatcher, FailPass, Fail
<1>3b. up' \subseteq up \cup {p}
  BY DEF BatchNext, Claim, ClaimSlice, Batching, SelectAndBuild, Anchor, InsertBatch,
         SetRunBatch, ReleaseUnproven, ReadBundle, Upload, Sweeping, ListMissing,
         SweepRead, SweepUpload, ListUnsigned, PassAnchored, PassUnanchored, Signing,
         PassSetBatch, PassSetRuns, Crash, Boot, FailBatcher, FailPass
<1>4. failures' \in Nat /\ up' \subseteq Proc
  BY <1>3a, <1>3b DEF TypeOK
<1>5. stale' \subseteq Batch
  BY DEF BatchNext, Claim, ClaimSlice, Batching, SelectAndBuild, Anchor, InsertBatch,
         SetRunBatch, ReleaseUnproven, ReadBundle, Upload, Sweeping, ListMissing,
         SweepRead, SweepUpload, ListUnsigned, PassAnchored, PassUnanchored, Signing,
         PassSetBatch, PassSetRuns, Crash, Boot, FailBatcher, FailPass, TypeOK
<1>6. dropped' \subseteq Batch
  <2>1. CASE FailBatcher(p)
    BY <2>1 DEF FailBatcher, BatcherOK, TypeOK
  <2> QED
    BY <1>3, <2>1
    DEF BatchNext, Claim, ClaimSlice, Batching, SelectAndBuild, Anchor, InsertBatch,
        SetRunBatch, ReleaseUnproven, ReadBundle, Upload, Sweeping, ListMissing,
        SweepRead, SweepUpload, ListUnsigned, PassAnchored, PassUnanchored, Signing,
        PassSetBatch, PassSetRuns, Crash, Boot, FailPass, TypeOK
<1>7. missed' \subseteq Batch
  <2>1. CASE PassSetRuns(p)
    BY <2>1 DEF PassSetRuns, PassOK, TypeOK
  <2> QED
    BY <1>3, <2>1
    DEF BatchNext, Claim, ClaimSlice, Batching, SelectAndBuild, Anchor, InsertBatch,
        SetRunBatch, ReleaseUnproven, ReadBundle, Upload, Sweeping, ListMissing,
        SweepRead, SweepUpload, ListUnsigned, PassAnchored, PassUnanchored, Signing,
        PassSetBatch, Crash, Boot, FailBatcher, FailPass, TypeOK
<1> QED
  BY <1>1, <1>2, <1>4, <1>5, <1>6, <1>7 DEF TypeOK, TailsTyped

LEMMA TypeStep == IInv /\ [Next]_vars => TypeOK'
<1>1. ASSUME IInv, UNCHANGED vars PROVE TypeOK'
  BY <1>1 DEF IInv, TypeOK, vars
<1>2. ASSUME IInv, NEW b \in Batch, AgeBatch(b) PROVE TypeOK'
  BY <1>2 DEF IInv, TypeOK, AgeBatch
<1> QED
  BY <1>1, <1>2, NextParts, TypeTail, TypeBatch

-----------------------------------------------------------------------------
(* The receipts of runs.                                                   *)

LEMMA ReceiptsTail ==
  ASSUME IInv, NEW e \in Exec, TailNext(e)
  PROVE  (\A f \in Exec : TailOK(f)') /\ (\A r \in Run : HashOK(r)')
<1> TypeOK /\ (\A f \in Exec : TailOK(f)) /\ (\A r \in Run : HashOK(r))
  BY DEF IInv
<1>0. NoTail.pc = "idle" /\ NoTail.run = None
  BY DEF NoTail
<1>1. CASE \E r \in Run : BeginTail(e, r)
  <2> PICK r \in Run : BeginTail(e, r)
    BY <1>1
  <2> DEFINE t == [pc |-> "commit", run |-> r, digest |-> None]
  <2>1. /\ tail[e] = NoTail /\ UNCHANGED run
        /\ tail'[e] = t /\ \A f \in Exec \ {e} : tail'[f] = tail[f]
        /\ finals'[r] = finals[r] + 1 /\ \A s \in Run \ {r} : finals'[s] = finals[s]
    BY BeginEffect DEF TailOK, TailSet
  <2>2. t.pc = "commit" /\ t.run = r
    OBVIOUS
  <2> HIDE DEF t
  <2>3. ASSUME NEW f \in Exec PROVE TailOK(f)'
    BY <2>1, <2>2 DEF TailOK
  <2>4. ASSUME NEW s \in Run \ {r} PROVE HashOK(s)'
    <3>1. \A f \in Exec : tail'[f].run = s => tail'[f] = tail[f]
      BY <2>1, <2>2
    <3> QED
      BY <2>1, <3>1 DEF HashOK, TailedOnce
  <2>5. HashOK(r)'
    <3>1. finals[r] \in Nat
      BY DEF TypeOK
    <3>2. finals'[r] > 0 /\ finals'[r] # 0
      BY <2>1, <3>1
    <3>3. ASSUME TailedOnce(r)'
          PROVE  /\ \A f \in Exec : tail'[f].run = r => f = e
                 /\ run'[r].hash = None
      <4>1. finals[r] = 0
        BY <2>1, <3>1, <3>3 DEF TailedOnce
      <4>2. run[r].hash = None /\ \A f \in Exec : tail[f].run # r
        BY <4>1 DEF HashOK
      <4> QED
        BY <2>1, <4>2
    <3> QED
      BY <2>1, <2>2, <3>2, <3>3 DEF HashOK
  <2> QED
    BY <2>3, <2>4, <2>5
<1>2. CASE TailStep(e) \/ FailTail(e)
  <2> PICK r \in Run : tail[e].run = r
    BY <1>2, TailStepEffect, FailTailEffect
  <2>1. tail[e].run = r /\ tail[e].pc # "idle" /\ TailEffect(e, r)
    BY <1>2, TailStepEffect, FailTailEffect
  <2>2. finals' = finals
    BY <1>2 DEF TailStep, Commit, Outcome, ReadAgenc, WriteAgenc, Digest, UpdateReceipt,
                FailTail
  <2>3. ASSUME NEW f \in Exec PROVE TailOK(f)'
    <3>1. f # e => TailOK(f)'
      BY <2>1 DEF TailOK, TailEffect
    <3>2. f = e => TailOK(f)'
      <4>1. run[r].data \in Nat
        BY <2>1 DEF TypeOK, RunRow
      <4> QED
        BY <1>0, <2>1, <4>1 DEF TailOK, TailEffect
    <3> QED
      BY <3>1, <3>2
  <2>4. ASSUME NEW s \in Run \ {r} PROVE HashOK(s)'
    <3>1. \A f \in Exec : tail'[f].run = s => tail'[f] = tail[f]
      BY <1>0, <2>1 DEF TailEffect
    <3>2. run'[s] = run[s]
      BY <2>1 DEF TailEffect, Rehashed
    <3> QED
      BY <2>2, <3>1, <3>2 DEF HashOK, TailedOnce
  <2>5. HashOK(r)'
    <3>1. finals[r] > 0 /\ finals[r] \in Nat
      BY <2>1 DEF HashOK, TypeOK
    <3>2. \A f \in Exec : tail'[f].run = r => tail[f].run = r
      BY <1>0, <2>1 DEF TailEffect
    <3>3. ASSUME TailedOnce(r)
          PROVE  /\ \A f \in Exec : tail'[f].run = r => f = e
                 /\ tail'[e].run = r => /\ run'[r].hash = None
                                        /\ tail'[e].pc = "write" =>
                                               tail'[e].digest = run'[r].data
                 /\ run'[r].hash \in {None, run'[r].data}
      <4>1. /\ \A f \in Exec : tail[f].run = r => f = e
            /\ run[r].hash = None
            /\ tail[e].pc = "write" => tail[e].digest = run[r].data
        BY <2>1, <3>3 DEF HashOK
      <4> QED
        BY <1>0, <2>1, <3>2, <4>1 DEF TailEffect
    <3> QED
      BY <2>2, <3>1, <3>2, <3>3 DEF HashOK, TailedOnce
  <2> QED
    BY <2>3, <2>4, <2>5
<1> QED
  BY <1>1, <1>2 DEF TailNext

LEMMA ReceiptsStep ==
  IInv /\ [Next]_vars => (\A e \in Exec : TailOK(e)') /\ (\A r \in Run : HashOK(r)')
<1>1. ASSUME IInv, NEW p \in Proc, BatchNext(p)
      PROVE  (\A e \in Exec : TailOK(e)') /\ (\A r \in Run : HashOK(r)')
  <2> TypeOK /\ (\A f \in Exec : TailOK(f)) /\ (\A r \in Run : HashOK(r))
    BY <1>1 DEF IInv
  <2>1. DataKept /\ UNCHANGED finals /\ \A e \in Exec : tail'[e] \in {tail[e], NoTail}
    BY <1>1, BatchReceipts
  <2>2. NoTail.pc = "idle" /\ NoTail.run = None
    BY DEF NoTail
  <2>3. ASSUME NEW e \in Exec PROVE TailOK(e)'
    BY <2>1, <2>2 DEF TailOK
  <2>4. ASSUME NEW r \in Run PROVE HashOK(r)'
    <3>1. \A e \in Exec : tail'[e].run = r => tail'[e] = tail[e]
      BY <2>1, <2>2
    <3> QED
      BY <2>1, <3>1 DEF HashOK, TailedOnce, DataKept
  <2> QED
    BY <2>3, <2>4
<1>2. ASSUME IInv, (\E b \in Batch : AgeBatch(b)) \/ UNCHANGED vars
      PROVE  (\A e \in Exec : TailOK(e)') /\ (\A r \in Run : HashOK(r)')
  <2>1. UNCHANGED <<run, tail, finals>>
    BY <1>2 DEF AgeBatch, vars
  <2> QED
    BY <1>2, <2>1 DEF IInv, TailOK, HashOK, TailedOnce
<1> QED
  BY <1>1, <1>2, NextParts, ReceiptsTail

-----------------------------------------------------------------------------
(* The rows of batches and runs.                                           *)

LEMMA BundleWithin ==
  ASSUME IInv, NEW b \in Batch
  PROVE  Bundle(b) \in Tree /\ Within(Bundle(b), b)
<1>1. Bundle(b) \in Tree
  BY DEF IInv, TypeOK, Bundle, Tree, RunRow, Leaf
<1>2. ASSUME NEW r \in Run, TailedOnce(r) PROVE Bundle(b)[r] \in {None, row[b].root[r]}
  <2>1. Bundle(b)[r] = IF run[r].proof = b /\ run[r].batch = b THEN run[r].hash ELSE None
    BY DEF Bundle
  <2>2. run[r].proof = b => row[b].root[r] # None
    BY DEF IInv, RunOK
  <2>3. row[b].root[r] \in {None, run[r].hash}
    BY <1>2 DEF IInv, RowOK, Faithful
  <2> QED
    BY <2>1, <2>2, <2>3
<1> QED
  BY <1>1, <1>2 DEF Within

\* Whoever writes the row of a batch writes leaves and a signature of its own.
LEMMA RowWrites ==
  ASSUME IInv, NEW p \in Proc, BatchNext(p), NEW b \in Batch, row'[b] # row[b]
  PROVE  \E t, u \in Tree :
            /\ row'[b].root = t /\ row'[b].bundle = u
            /\ Faithful(t) /\ \A r \in Run : TailedOnce(r) => u[r] \in {None, t[r]}
            /\ row'[b].sig \in {None, b}
<1> /\ TypeOK /\ BatcherOK(p) /\ PassOK(p) /\ SweepOK(p) /\ RowOK(b)
    /\ row[b] \in Row /\ batcher[p] \in Batcher /\ sweep[p] \in Sweep
  BY DEF IInv, TypeOK
<1>0. row[b].root \in Tree /\ row[b].bundle \in Tree
  BY DEF Row
<1>1. CASE InsertBatch(p)
  <2>1. batcher[p].batch \in Batch /\ batcher[p].tree \in Tree /\ Nothing \in Tree
    BY <1>1, NullTypes DEF InsertBatch, BatcherOK, Batcher
  <2>2. /\ b = batcher[p].batch /\ row'[b].root = batcher[p].tree
        /\ row'[b].bundle = Nothing /\ row'[b].sig = batcher[p].sig
    BY <1>1, <2>1, InsertEffect DEF RowSet
  <2>3. \A r \in Run : Nothing[r] = None
    BY DEF Nothing
  <2> QED
    BY <2>1, <2>2, <2>3 DEF BatcherOK
<1>2. CASE Upload(p)
  <2>1. batcher[p].batch \in Batch /\ batcher[p].bundle \in Tree
    BY <1>2 DEF Upload, BatcherOK, Batcher
  <2>2. /\ b = batcher[p].batch /\ row'[b].root = row[b].root
        /\ row'[b].bundle = batcher[p].bundle /\ row'[b].sig = row[b].sig
    BY <1>2, <2>1, UploadEffect DEF ArchiveSet
  <2>3. Within(batcher[p].bundle, b)
    BY <1>2, <2>2 DEF Upload, BatcherOK
  <2> QED
    BY <1>0, <2>1, <2>2, <2>3 DEF RowOK, Within
<1>3. CASE SweepUpload(p)
  <2>1. sweep[p].batch \in Batch /\ sweep[p].bundle \in Tree
    BY <1>3 DEF SweepUpload, SweepOK, Sweep
  <2>2. /\ b = sweep[p].batch /\ row'[b].root = row[b].root
        /\ row'[b].bundle = sweep[p].bundle /\ row'[b].sig = row[b].sig
    BY <1>3, <2>1, SweepUploadEffect DEF ArchiveSet
  <2>3. Within(sweep[p].bundle, b)
    BY <1>3, <2>2 DEF SweepUpload, SweepOK
  <2> QED
    BY <1>0, <2>1, <2>2, <2>3 DEF RowOK, Within
<1>4. CASE PassSetBatch(p)
  <2>1. pass[p].batch \in Batch
    BY <1>4 DEF PassSetBatch, PassOK
  <2>2. /\ b = pass[p].batch /\ row'[b].root = row[b].root
        /\ row'[b].bundle = row[b].bundle /\ row'[b].sig = b
    BY <1>4, <2>1, PassSetBatchEffect
  <2> QED
    BY <1>0, <2>2 DEF RowOK, Within
<1> QED
  BY <1>1, <1>2, <1>3, <1>4
  DEF BatchNext, Claim, ClaimSlice, Batching, SelectAndBuild, Anchor, SetRunBatch,
      ReleaseUnproven, ReadBundle, Sweeping, ListMissing, SweepRead, ListUnsigned,
      PassAnchored, PassUnanchored, Signing, PassSetRuns, Crash, Boot, FailBatcher,
      FailPass

LEMMA RowStep == IInv /\ [Next]_vars => \A b \in Batch : RowOK(b)'
<1> SUFFICES ASSUME IInv, [Next]_vars, NEW b \in Batch PROVE RowOK(b)'
  OBVIOUS
<1>0. TypeOK /\ RowOK(b) /\ row[b] \in Row /\ RowKept(b)
  BY StepKeeps DEF IInv, TypeOK
<1>1. PICK t, u \in Tree :
         /\ row'[b].root = t /\ row'[b].bundle = u
         /\ Faithful(t) /\ \A r \in Run : TailedOnce(r) => u[r] \in {None, t[r]}
         /\ row'[b].sig \in {None, b}
  <2>1. CASE row'[b] = row[b]
    BY <1>0, <2>1 DEF RowOK, Within, Row
  <2>2. CASE row'[b] # row[b]
    <3>1. \E p \in Proc : BatchNext(p)
      BY <2>2, NextParts, TailLeaves DEF AgeBatch, vars
    <3> QED
      BY <2>2, <3>1, RowWrites
  <2> QED
    BY <2>1, <2>2
<1>2. Faithful(t)'
  BY <1>1, TreesKept
<1>3. \A r \in Run : TailedOnce(r)' => u[r] \in {None, t[r]}
  BY <1>1, StepKeeps DEF ReceiptKept
<1> QED
  BY <1>0, <1>1, <1>2, <1>3 DEF RowOK, RowKept, Faithful, Within

\* A run is claimed, released or signed, and keeps its proof, or is proven.
LEMMA RunWrites ==
  ASSUME IInv, NEW p \in Proc, BatchNext(p), NEW r \in Run
  PROVE  \/ /\ run'[r].proof = run[r].proof /\ run'[r].leaf = run[r].leaf
            /\ run'[r].batch # run[r].batch =>
                  /\ run[r].proof = None
                  /\ run'[r].batch # None => run[r].hash # None
            /\ \/ run'[r].sig = run[r].sig
               \/ /\ PassSetRuns(p) /\ run[r].batch = pass[p].batch /\ run[r].sig = None
                  /\ run'[r].sig = run[r].batch
         \/ SetRunBatch(p, r)
<1> TypeOK /\ BatcherOK(p) /\ PassOK(p) /\ RunOK(r)
  BY DEF IInv
<1>1. CASE Claim(p)
  <2> PICK b \in Batch, S \in SUBSET Run : ClaimSlice(p, b, S)
    BY <1>1 DEF Claim
  <2>1. r \in S => run[r].batch = None /\ run[r].hash # None /\ run[r].proof = None
    BY DEF ClaimSlice, Unbatched, RunOK, TypeOK, RunRow
  <2> QED
    BY <2>1, ClaimEffect DEF Unproven
<1>2. ASSUME NEW s \in Run, SetRunBatch(p, s) PROVE s = r \/ run'[r] = run[r]
  <2>1. batcher[p].batch \in Batch
    BY <1>2 DEF SetRunBatch, BatcherOK
  <2> QED
    BY <1>2, <2>1, SetRunEffect
<1>3. CASE ReleaseUnproven(p) \/ Boot(p)
  <2>1. (\E B : Release(Releasable(B))) \/ UNCHANGED run
    BY <1>3 DEF ReleaseUnproven, Boot, Orphaned
  <2> QED
    BY <2>1, ReleaseEffect DEF Unproven
<1>4. CASE PassSetRuns(p)
  <2>1. pass[p].batch \in Batch
    BY <1>4 DEF PassSetRuns, PassOK
  <2> QED
    BY <1>4, <2>1, PassSetRunsEffect
<1>5. CASE UNCHANGED run
  BY <1>5
<1> QED
  BY <1>1, <1>2, <1>3, <1>4, <1>5
  DEF BatchNext, Batching, SelectAndBuild, Anchor, InsertBatch, ReadBundle, Upload,
      Sweeping, ListMissing, SweepRead, SweepUpload, ListUnsigned, PassAnchored,
      PassUnanchored, Signing, PassSetBatch, Crash, FailBatcher, FailPass

LEMMA RunStep == IInv /\ [Next]_vars => \A r \in Run : RunOK(r)'
<1> SUFFICES ASSUME IInv, [Next]_vars, NEW r \in Run PROVE RunOK(r)'
  OBVIOUS
<1>0. /\ TypeOK /\ RunOK(r) /\ ReceiptKept(r) /\ run[r].proof \in Batch \cup {None}
      /\ \A b \in Batch : RowKept(b)
  BY StepKeeps DEF IInv, TypeOK, RunRow
<1>1. ASSUME /\ run'[r].proof = run[r].proof /\ run'[r].leaf = run[r].leaf
             /\ run'[r].batch # run[r].batch =>
                   /\ run[r].proof = None
                   /\ run'[r].batch # None => run[r].hash # None
             /\ run[r].proof # None /\ run'[r].sig # None =>
                   run'[r].sig = run[r].proof /\ row[run[r].proof].sig # None
      PROVE  RunOK(r)'
  <2>1. run'[r].batch # None => run'[r].hash # None
    BY <1>0, <1>1 DEF RunOK, ReceiptKept
  <2>2. ASSUME run[r].proof # None
        PROVE  /\ run'[r].batch = run[r].proof /\ row'[run[r].proof].stored
               /\ run'[r].leaf = row'[run[r].proof].root[r] /\ run'[r].leaf # None
               /\ row[run[r].proof].sig # None => row'[run[r].proof].sig # None
    BY <1>0, <1>1, <2>2 DEF RunOK, RowKept
  <2> QED
    BY <1>1, <2>1, <2>2 DEF RunOK
<1>2. ASSUME NEW e \in Exec, TailNext(e) PROVE RunOK(r)'
  BY <1>0, <1>1, <1>2, TailReceipts DEF RunOK
<1>3. ASSUME NEW p \in Proc, BatchNext(p) PROVE RunOK(r)'
  <2> BatcherOK(p) /\ PassOK(p)
    BY DEF IInv
  <2>1. CASE SetRunBatch(p, r)
    <3> PICK b \in Batch : b = batcher[p].batch
      BY <2>1 DEF SetRunBatch, BatcherOK
    <3>1. /\ run'[r].batch = b /\ run'[r].proof = b
          /\ run'[r].leaf = batcher[p].tree[r] /\ run'[r].sig = batcher[p].sig
          /\ batcher[p].pc = "store" /\ r \in batcher[p].todo
      BY <1>0, <2>1, SetRunEffect
    <3>2. /\ row[b].stored /\ row[b].root = batcher[p].tree /\ batcher[p].tree[r] # None
          /\ batcher[p].sig \in {None, b}
          /\ batcher[p].sig # None => row[b].sig # None
      BY <3>1 DEF BatcherOK
    <3>3. run[r].hash # None
      BY <3>2 DEF BatcherOK, Faithful
    <3>4. run'[r].hash # None /\ row' = row
      BY <1>0, <2>1, <3>3 DEF ReceiptKept, SetRunBatch
    <3> QED
      BY <3>1, <3>2, <3>4 DEF RunOK
  <2>2. CASE PassSetRuns(p) /\ run[r].batch = pass[p].batch /\ run'[r].sig = run[r].batch
    <3>1. run[r].proof # None => run[r].batch = run[r].proof /\ row[run[r].proof].sig # None
      BY <1>0, <2>2 DEF PassSetRuns, PassOK, RunOK
    <3>2. /\ run'[r].proof = run[r].proof /\ run'[r].leaf = run[r].leaf
          /\ run'[r].batch = run[r].batch
      BY <2>2, PassSetRunsEffect DEF PassSetRuns, PassOK
    <3> QED
      BY <1>1, <2>2, <3>1, <3>2
  <2> QED
    BY <1>0, <1>1, <1>3, <2>1, <2>2, RunWrites DEF RunOK
<1>4. CASE (\E b \in Batch : AgeBatch(b)) \/ UNCHANGED vars
  BY <1>0, <1>1, <1>4 DEF AgeBatch, vars, RunOK
<1> QED
  BY <1>2, <1>3, <1>4, NextParts

-----------------------------------------------------------------------------
(* The batchers, the sweeps and the passes.                                *)

\* An actor that does not move keeps what holds of it.
LEMMA ActorsKept ==
  ASSUME IInv, [Next]_vars, NEW p \in Proc
  PROVE  /\ batcher'[p] = batcher[p] /\ (batcher[p].pc \in {"select", "anchor", "insert"}
               => ~row'[batcher[p].batch].stored) => BatcherOK(p)'
         /\ sweep'[p] = sweep[p] => SweepOK(p)'
         /\ pass'[p] = pass[p] => PassOK(p)'
<1>0. /\ TypeOK /\ BatcherOK(p) /\ SweepOK(p) /\ PassOK(p)
      /\ \A b \in Batch : RowKept(b)
      /\ batcher[p] \in Batcher /\ sweep[p] \in Sweep /\ pass[p] \in Pass
  BY StepKeeps DEF IInv, TypeOK
<1>1. ASSUME batcher'[p] = batcher[p],
             batcher[p].pc \in {"select", "anchor", "insert"}
                => ~row'[batcher[p].batch].stored
      PROVE  BatcherOK(p)'
  <2> DEFINE b == batcher[p].batch
  <2>1. batcher[p].tree \in Tree /\ batcher[p].bundle \in Tree
    BY <1>0 DEF Batcher
  <2>2. Faithful(batcher[p].tree) => Faithful(batcher[p].tree)'
    <3> PICK t \in Tree : t = batcher[p].tree
      BY <2>1
    <3> QED
      BY <1>1, TreesKept DEF Faithful
  <2>3. batcher[p].pc = "upload" => Within(batcher[p].bundle, batcher[p].batch)'
    <3> PICK t \in Tree : t = batcher[p].bundle
      BY <2>1
    <3>1. batcher[p].pc = "upload" =>
             b \in Batch /\ row[b].stored /\ Within(batcher[p].bundle, b)
      BY <1>0 DEF BatcherOK
    <3> QED
      BY <1>1, <3>1, TreesKept DEF Within
  <2> QED
    BY <1>0, <1>1, <2>2, <2>3 DEF BatcherOK, RowKept
<1>2. ASSUME sweep'[p] = sweep[p] PROVE SweepOK(p)'
  <2>1. sweep[p].pc = "upload" => Within(sweep[p].bundle, sweep[p].batch)'
    <3> PICK t \in Tree : t = sweep[p].bundle
      BY <1>0 DEF Sweep
    <3> QED
      BY <1>0, <1>2, TreesKept DEF Within, SweepOK
  <2> QED
    BY <1>0, <1>2, <2>1 DEF SweepOK, RowKept, Sweep
<1>3. ASSUME pass'[p] = pass[p] PROVE PassOK(p)'
  BY <1>0, <1>3 DEF PassOK, RowKept, Pass
<1> QED
  BY <1>1, <1>2, <1>3

LEMMA BatcherApart ==
  ASSUME IInv, NEW p \in Proc, NEW q \in Proc, p # q, batcher[q].pc # "idle"
  PROVE  batcher[p].batch # batcher[q].batch
BY DEF IInv, BatchersApart, BatcherOK, TypeOK

LEMMA ApartStep == IInv /\ [Next]_vars => BatchersApart'
<1> SUFFICES ASSUME IInv, [Next]_vars PROVE BatchersApart'
  OBVIOUS
<1> BatchersApart
  BY DEF IInv
<1>1. ASSUME NEW p \in Proc, BatchNext(p) PROVE BatchersApart'
  <2>1. BatcherSet(p, batcher'[p])
    BY <1>1, BatcherSteps
  <2>2. CASE batcher'[p].batch = batcher[p].batch \/ batcher'[p].batch = None
    BY <2>1, <2>2 DEF BatchersApart, BatcherSet
  <2>3. CASE Claim(p)
    <3> PICK b \in Batch, S \in SUBSET Run : ClaimSlice(p, b, S)
      BY <2>3 DEF Claim
    <3>1. batcher'[p].batch = b /\ \A q \in Proc : batcher[q].batch # b
      BY ClaimEffect DEF ClaimSlice, Unused, IInv
    <3> QED
      BY <2>1, <3>1 DEF BatchersApart, BatcherSet
  <2> QED
    BY <1>1, <2>2, <2>3, BatcherSteps DEF NoBatcher
<1>2. ASSUME UNCHANGED batcher PROVE BatchersApart'
  BY <1>2 DEF BatchersApart
<1> QED
  BY <1>1, <1>2, NextParts, TailLeaves DEF AgeBatch, vars

\* A batcher that moves.
\* A batcher that moves.
LEMMA BatcherMove ==
  ASSUME IInv, NEW p \in Proc, BatchNext(p), batcher'[p] # batcher[p]
  PROVE  BatcherOK(p)'
<1>a. TypeOK /\ BatcherOK(p) /\ batcher[p] \in Batcher
  BY DEF IInv, TypeOK
<1>b. [Next]_vars
  BY DEF Next, BatchNext
<1>c. \A b \in Batch : RowKept(b)
  BY <1>b, StepKeeps
<1>1. ASSUME batcher'[p] = NoBatcher PROVE BatcherOK(p)'
  BY <1>1 DEF BatcherOK, NoBatcher, Faithful, Nothing
\* A batcher of b that goes on with tree t.
<1>2. ASSUME NEW b \in Batch, NEW t \in Tree, Faithful(t),
             batcher'[p].batch = b, batcher'[p].tree = t, batcher'[p].pc # "idle",
             batcher'[p].sig \in {None, b},
             batcher'[p].pc \in {"select", "anchor", "insert"} => ~row'[b].stored,
             batcher'[p].pc = "store" =>
                /\ row'[b].stored /\ row'[b].root = t
                /\ batcher'[p].sig # None => row'[b].sig # None
                /\ \A r \in batcher'[p].todo : t[r] # None,
             batcher'[p].pc \in {"read", "upload"} => row[b].stored,
             batcher'[p].pc = "upload" => batcher'[p].bundle = Bundle(b)
      PROVE  BatcherOK(p)'
  <2>1. Faithful(t)'
    BY <1>2, <1>b, TreesKept
  <2> PICK u \in Tree : u = Bundle(b) /\ Within(u, b)
    BY BundleWithin
  <2>2. row[b].stored => Within(u, b)'
    BY <1>b, TreesKept
  <2>3. batcher'[p].pc = "upload" => batcher'[p].bundle = u /\ Within(u, b)'
    BY <1>2, <2>2
  <2>4. Faithful(batcher[p].tree)'
    BY <1>2, <2>1 DEF Faithful
  <2>5. batcher'[p].pc = "upload" => Within(batcher[p].bundle, batcher[p].batch)'
    BY <1>2, <2>3 DEF Within
  <2> QED
    BY <1>2, <1>c, <2>4, <2>5 DEF BatcherOK, RowKept
<1>3. CASE Claim(p)
  <2> PICK b \in Batch, S \in SUBSET Run : ClaimSlice(p, b, S)
    BY <1>3 DEF Claim
  <2>1. ~row[b].stored /\ row' = row /\ Nothing \in Tree /\ Faithful(Nothing)
    BY NullTypes DEF ClaimSlice, Unused, Faithful, Nothing
  <2>2. /\ batcher'[p].pc = "select" /\ batcher'[p].batch = b
        /\ batcher'[p].tree = Nothing /\ batcher'[p].sig = None
    BY <1>a, ClaimEffect
  <2> QED
    BY <1>2, <2>1, <2>2
<1>4. ASSUME NEW b \in Batch, b = batcher[p].batch, batcher'[p] # NoBatcher,
             \/ SelectAndBuild(p) \/ Anchor(p) \/ InsertBatch(p) \/ ReadBundle(p)
             \/ (\E r \in Run : SetRunBatch(p, r))
             \/ FailBatcher(p)
      PROVE  BatcherOK(p)'
  <2>0. batcher[p].tree \in Tree /\ Faithful(batcher[p].tree) /\ batcher[p].sig \in {None, b}
    BY <1>a, <1>4 DEF BatcherOK, Batcher
  <2>1. CASE SelectAndBuild(p)
    <3>1. Leaves(b) \in Tree /\ Faithful(Leaves(b))
      BY <1>a DEF Leaves, Tree, TypeOK, RunRow, Leaf, Faithful
    <3>2. /\ batcher'[p].pc = "anchor" /\ batcher'[p].batch = b
          /\ batcher'[p].tree = Leaves(b) /\ batcher'[p].sig = batcher[p].sig
      BY <1>a, <1>4, <2>1, SelectEffect
    <3>3. ~row[b].stored /\ row' = row
      BY <1>a, <1>4, <2>1 DEF SelectAndBuild, BatcherOK
    <3> QED
      BY <1>2, <2>0, <3>1, <3>2, <3>3
  <2>2. CASE Anchor(p)
    <3>1. /\ batcher'[p].pc = "insert" /\ batcher'[p].batch = b
          /\ batcher'[p].tree = batcher[p].tree /\ batcher'[p].sig \in {None, b}
      BY <1>a, <1>4, <2>2, AnchorEffect
    <3>2. ~row[b].stored /\ row' = row
      BY <1>a, <1>4, <2>2 DEF Anchor, BatcherOK
    <3> QED
      BY <1>2, <2>0, <3>1, <3>2
  <2>3. CASE InsertBatch(p)
    <3>1. /\ batcher'[p].pc = "store" /\ batcher'[p].batch = b
          /\ batcher'[p].tree = batcher[p].tree /\ batcher'[p].sig = batcher[p].sig
          /\ batcher'[p].todo = {r \in Run : batcher[p].tree[r] # None}
          /\ row'[b].stored /\ row'[b].root = batcher[p].tree
          /\ row'[b].sig = batcher[p].sig
      BY <1>a, <1>4, <2>3, InsertEffect
    <3> QED
      BY <1>2, <2>0, <3>1
  <2>4. CASE ReadBundle(p)
    <3>1. /\ batcher'[p].pc = "upload" /\ batcher'[p].batch = b
          /\ batcher'[p].tree = batcher[p].tree /\ batcher'[p].sig = batcher[p].sig
          /\ batcher'[p].bundle = Bundle(b)
      BY <1>a, <1>4, <2>4, ReadBundleEffect
    <3>2. row[b].stored
      BY <1>a, <1>4, <2>4 DEF ReadBundle, BatcherOK
    <3> QED
      BY <1>2, <2>0, <3>1, <3>2
  <2>5. ASSUME NEW r \in Run, SetRunBatch(p, r) PROVE BatcherOK(p)'
    <3>1. /\ batcher'[p].pc \in {"store", "read"} /\ batcher'[p].batch = b
          /\ batcher'[p].tree = batcher[p].tree /\ batcher'[p].sig = batcher[p].sig
          /\ batcher'[p].todo \subseteq batcher[p].todo /\ batcher[p].pc = "store"
      BY <1>a, <1>4, <2>5, SetRunEffect
    <3>2. /\ row[b].stored /\ row[b].root = batcher[p].tree /\ row' = row
          /\ batcher[p].sig # None => row[b].sig # None
          /\ \A s \in batcher[p].todo : batcher[p].tree[s] # None
      BY <1>a, <1>4, <2>5, <3>1 DEF SetRunBatch, BatcherOK
    <3> QED
      BY <1>2, <2>0, <3>1, <3>2
  <2>6. CASE FailBatcher(p)
    <3>1. GoBatcher(p, "release")
      BY <1>a, <1>4, <2>6, BatcherEnds DEF FailBatcher, BatcherSet
    <3>2. /\ batcher'[p].pc = "release" /\ batcher'[p].batch = b
          /\ batcher'[p].tree = batcher[p].tree /\ batcher'[p].sig = batcher[p].sig
      BY <1>a, <1>4, <3>1, BatcherGoes DEF BatcherPC
    <3> QED
      BY <1>2, <2>0, <3>2
  <2> QED
    BY <1>4, <2>1, <2>2, <2>3, <2>4, <2>5, <2>6
<1>5. CASE ReleaseUnproven(p) \/ Upload(p) \/ Crash(p)
  <2>1. batcher'[p] = NoBatcher
    BY <1>a, <1>5, BatcherEnds, CrashEffect DEF ReleaseUnproven, Upload, BatcherSet
  <2> QED
    BY <1>1, <2>1
<1>6. CASE \/ SelectAndBuild(p) \/ Anchor(p) \/ InsertBatch(p) \/ ReadBundle(p)
           \/ (\E r \in Run : SetRunBatch(p, r))
           \/ FailBatcher(p)
  <2>1. batcher[p].batch \in Batch
    BY <1>a, <1>6 DEF SelectAndBuild, Anchor, InsertBatch, ReadBundle, SetRunBatch,
                      FailBatcher, BatcherOK
  <2> QED
    BY <1>1, <1>4, <1>6, <2>1
<1> QED
  BY <1>3, <1>5, <1>6
  DEF BatchNext, Batching, Sweeping, ListMissing, SweepRead, SweepUpload, ListUnsigned,
      PassAnchored, PassUnanchored, Signing, PassSetBatch, PassSetRuns, Boot, FailPass

LEMMA BatcherStep == IInv /\ [Next]_vars => \A p \in Proc : BatcherOK(p)'
<1> SUFFICES ASSUME IInv, [Next]_vars, NEW p \in Proc PROVE BatcherOK(p)'
  OBVIOUS
<1>1. CASE batcher' = batcher /\ row' = row
  BY <1>1, ActorsKept DEF IInv, BatcherOK
<1>2. ASSUME NEW q \in Proc, BatchNext(q) PROVE BatcherOK(p)'
  <2>1. CASE batcher'[p] # batcher[p]
    <3>1. p = q
      BY <1>2, <2>1, BatcherSteps DEF BatcherSet
    <3> QED
      BY <1>2, <2>1, <3>1, BatcherMove
  <2>2. CASE batcher'[p] = batcher[p]
    <3>1. ASSUME batcher[p].pc \in {"select", "anchor", "insert"},
                 row'[batcher[p].batch].stored
          PROVE  FALSE
      <4> PICK b \in Batch : b = batcher[p].batch /\ ~row[b].stored
        BY <3>1 DEF IInv, BatcherOK
      <4>1. row'[b].stored # row[b].stored
        BY <3>1
      <4>2. InsertBatch(q) /\ b = batcher[q].batch
        <5>1. TypeOK /\ BatcherOK(q) /\ SweepOK(q) /\ PassOK(q)
          BY DEF IInv
        <5>2. CASE InsertBatch(q)
          BY <4>1, <5>1, <5>2, InsertEffect DEF RowSet, InsertBatch, BatcherOK
        <5>3. CASE Upload(q)
          BY <4>1, <5>1, <5>3, UploadEffect DEF ArchiveSet, Upload, BatcherOK
        <5>4. CASE SweepUpload(q)
          BY <4>1, <5>1, <5>4, SweepUploadEffect DEF ArchiveSet, SweepUpload, SweepOK
        <5>5. CASE PassSetBatch(q)
          BY <4>1, <5>1, <5>5, PassSetBatchEffect DEF PassSetBatch, PassOK
        <5> QED
          BY <1>2, <4>1, <5>2, <5>3, <5>4, <5>5
          DEF BatchNext, Claim, ClaimSlice, Batching, SelectAndBuild, Anchor,
              SetRunBatch, ReleaseUnproven, ReadBundle, Sweeping, ListMissing, SweepRead,
              ListUnsigned, PassAnchored, PassUnanchored, Signing, PassSetRuns, Crash,
              Boot, FailBatcher, FailPass
      <4>3. batcher'[q].pc = "store" /\ batcher[q].pc = "insert"
        BY <4>2, InsertEffect DEF IInv, InsertBatch
      <4>4. p # q
        BY <2>2, <3>1, <4>3
      <4> QED
        BY <4>2, <4>3, <4>4, BatcherApart
    <3> QED
      BY <2>2, <3>1, ActorsKept
  <2> QED
    BY <2>1, <2>2
<1> QED
  BY <1>1, <1>2, NextParts, TailLeaves DEF AgeBatch, vars

LEMMA SweepStep == IInv /\ [Next]_vars => \A p \in Proc : SweepOK(p)'
<1> SUFFICES ASSUME IInv, [Next]_vars, NEW p \in Proc PROVE SweepOK(p)'
  OBVIOUS
<1>0. TypeOK /\ SweepOK(p) /\ sweep[p] \in Sweep /\ \A b \in Batch : RowKept(b)
  BY StepKeeps DEF IInv, TypeOK
<1>1. CASE sweep'[p] = sweep[p]
  BY <1>1, ActorsKept
<1>2. CASE sweep'[p] # sweep[p]
  <2>1. BatchNext(p)
    <3>1. ASSUME NEW q \in Proc, BatchNext(q) PROVE q = p
      BY <1>2, <3>1, SweepSteps DEF SweepSet
    <3> QED
      BY <1>2, <3>1, NextParts, TailLeaves DEF AgeBatch, vars
  <2>2. \A b \in sweep'[p].todo : b \in Batch /\ row[b].stored
    BY <1>0, <2>1, SweepSteps DEF SweepOK, Sweep, Missing
  <2>3. ASSUME sweep'[p].pc = "upload"
        PROVE  /\ sweep'[p].batch \in Batch /\ row'[sweep'[p].batch].stored
               /\ Within(sweep[p].bundle, sweep[p].batch)'
    <3> PICK b \in sweep[p].todo : sweep'[p].batch = b /\ sweep'[p].bundle = Bundle(b)
      BY <1>2, <2>1, <2>3, SweepSteps
    <3>1. b \in Batch /\ row[b].stored
      BY <1>0 DEF SweepOK, Sweep
    <3> PICK u \in Tree : u = Bundle(b) /\ Within(u, b)
      BY <3>1, BundleWithin
    <3>2. Within(u, b)'
      BY <3>1, TreesKept
    <3> QED
      BY <1>0, <3>1, <3>2 DEF RowKept, Within
  <2> QED
    BY <1>0, <2>2, <2>3 DEF SweepOK, RowKept
<1> QED
  BY <1>1, <1>2

LEMMA PassStep == IInv /\ [Next]_vars => \A p \in Proc : PassOK(p)'
<1> SUFFICES ASSUME IInv, [Next]_vars, NEW p \in Proc PROVE PassOK(p)'
  OBVIOUS
<1>0. TypeOK /\ PassOK(p) /\ pass[p] \in Pass /\ \A b \in Batch : RowKept(b)
  BY StepKeeps DEF IInv, TypeOK
<1>1. CASE pass'[p] = pass[p]
  BY <1>1, ActorsKept
<1>2. CASE pass'[p] # pass[p]
  <2>1. BatchNext(p)
    <3>1. ASSUME NEW q \in Proc, BatchNext(q) PROVE q = p
      BY <1>2, <3>1, PassSteps DEF PassSet
    <3> QED
      BY <1>2, <3>1, NextParts, TailLeaves DEF AgeBatch, vars
  <2>2. \A b \in pass'[p].todo : b \in Batch /\ row[b].stored
    BY <1>0, <2>1, PassSteps DEF PassOK, Pass, Unsigned
  <2>3. pass'[p].pc = "batch" => pass'[p].batch \in Batch /\ row[pass'[p].batch].stored
    BY <1>0, <1>2, <2>1, PassSteps DEF PassOK, Pass
  <2>4. ASSUME pass'[p].pc = "runs"
        PROVE  /\ pass'[p].batch \in Batch /\ row[pass'[p].batch].stored
               /\ row'[pass'[p].batch].sig # None
    <3>1. PassSetBatch(p) /\ pass'[p].batch = pass[p].batch
      BY <1>2, <2>1, <2>4, PassSteps
    <3>2. pass[p].batch \in Batch /\ row[pass[p].batch].stored
      BY <1>0, <3>1 DEF PassSetBatch, PassOK
    <3> QED
      BY <1>0, <3>1, <3>2, PassSetBatchEffect
  <2> QED
    BY <1>0, <2>2, <2>3, <2>4 DEF PassOK, RowKept
<1> QED
  BY <1>1, <1>2


-----------------------------------------------------------------------------
(* What the runs of a signed batch show.                                   *)

\* A step that leaves a batch as it is, but for what it proves or signs.
LEMMA ShownKept ==
  ASSUME NEW b \in Batch, Shown(b),
         \A r \in Run : /\ TailedOnce(r)' => TailedOnce(r)
                        /\ run'[r].proof = b /\ TailedOnce(r)' =>
                              \/ run'[r].sig = b
                              \/ run[r].proof = b /\ run'[r].sig = run[r].sig,
         \A p \in Proc : batcher'[p].pc = "store" /\ batcher'[p].batch = b =>
                              \/ batcher'[p].sig = b
                              \/ /\ batcher[p].pc = "store" /\ batcher[p].batch = b
                                 /\ batcher'[p].sig = batcher[p].sig
  PROVE  Shown(b)'
BY DEF Shown

\* A batch that is owed something was so before p moved, unless p ended its signing.
LEMMA OwedBefore ==
  ASSUME IInv, NEW p \in Proc, BatchNext(p), NEW b \in Batch, Owed(b)',
         row[b].sig # None, b \in missed => b \in missed',
         pass[p].pc = "runs" /\ pass[p].batch = b => b \in missed'
  PROVE  Owed(b)
<1>1. PassSet(p, pass'[p])
  BY PassSteps
<1> QED
  BY <1>1 DEF Owed, BeingSigned, PassSet

\* The steps of a batcher that write no row and no run.
LEMMA StorersKept ==
  ASSUME IInv, NEW p \in Proc, BatchNext(p), ~InsertBatch(p), NEW q \in Proc,
         batcher'[q].pc = "store"
  PROVE  /\ batcher[q].pc = "store" /\ batcher'[q].batch = batcher[q].batch
         /\ batcher'[q].sig = batcher[q].sig
<1> TypeOK /\ BatcherOK(p)
  BY DEF IInv
<1>1. q # p => batcher'[q] = batcher[q]
  BY BatcherSteps DEF BatcherSet
<1>2. CASE q = p /\ batcher'[p] # batcher[p]
  <2>1. batcher'[p] # NoBatcher
    BY <1>2 DEF NoBatcher
  <2>2. CASE Claim(p)
    BY <1>2, <2>2, ClaimEffect DEF Claim
  <2>3. CASE SelectAndBuild(p) \/ ReadBundle(p)
    BY <1>2, <2>1, <2>3, SelectEffect, ReadBundleEffect
  <2>4. CASE Anchor(p)
    BY <1>2, <2>4, AnchorEffect DEF Anchor, BatcherOK
  <2>5. ASSUME NEW r \in Run, SetRunBatch(p, r)
        PROVE  /\ batcher[p].pc = "store" /\ batcher'[p].batch = batcher[p].batch
               /\ batcher'[p].sig = batcher[p].sig
    BY <2>1, <2>5, SetRunEffect DEF SetRunBatch, BatcherOK
  <2>6. CASE ReleaseUnproven(p) \/ Upload(p) \/ Crash(p)
    BY <2>1, <2>6, BatcherEnds, CrashEffect DEF ReleaseUnproven, Upload, BatcherSet
  <2>7. CASE FailBatcher(p)
    <3>1. EndBatcher(p) \/ GoBatcher(p, "release")
      BY <2>7 DEF FailBatcher
    <3> QED
      BY <1>2, <2>1, <3>1, BatcherEnds, BatcherGoes DEF BatcherSet, BatcherPC
  <2> QED
    BY <1>2, <2>2, <2>3, <2>4, <2>5, <2>6, <2>7
    DEF BatchNext, Batching, Sweeping, ListMissing, SweepRead, SweepUpload,
        ListUnsigned, PassAnchored, PassUnanchored, Signing, PassSetBatch, PassSetRuns,
        Boot, FailPass
<1> QED
  BY <1>1, <1>2

LEMMA SignedBatch ==
  ASSUME IInv, NEW p \in Proc, BatchNext(p), NEW b \in Batch
  PROVE  SignedOK(b)'
<1> SUFFICES ASSUME Owed(b)' PROVE Shown(b)'
  BY DEF SignedOK
<1>a. TypeOK /\ SignedOK(b) /\ RowOK(b) /\ BatcherOK(p) /\ PassOK(p)
  BY DEF IInv
<1>b. \A r \in Run : RunOK(r) /\ ReceiptKept(r)
  BY StepKeeps DEF IInv, Next, BatchNext
<1>1. CASE InsertBatch(p) /\ batcher[p].batch = b
  <2>1. /\ ~row[b].stored /\ batcher[p].pc = "insert" /\ run' = run
        /\ batcher'[p].sig = row'[b].sig /\ row'[b].sig = batcher[p].sig
        /\ batcher'[p].pc = "store"
    BY <1>1, <1>a, InsertEffect DEF InsertBatch, BatcherOK
  <2>2. \A r \in Run : run'[r].proof # b
    BY <2>1, <1>b DEF RunOK
  <2>3. row'[b].sig = b
    BY <1>1, <1>a, <2>1 DEF Owed, BatcherOK
  <2>4. ASSUME NEW q \in Proc, q # p PROVE batcher'[q].batch # b
    <3>1. batcher'[q] = batcher[q]
      BY <2>4, BatcherSteps DEF BatcherSet
    <3> QED
      BY <1>1, <2>1, <2>4, <3>1, BatcherApart
  <2> QED
    BY <2>1, <2>2, <2>3, <2>4 DEF Shown
<1>2. CASE InsertBatch(p) /\ batcher[p].batch # b
  <2>1. /\ row'[b] = row[b] /\ run' = run /\ missed' = missed /\ pass' = pass
        /\ batcher'[p].batch # b
    BY <1>2, <1>a, InsertEffect DEF InsertBatch, BatcherOK, RowSet
  <2>2. Shown(b)
    BY <1>a, <2>1 DEF Owed, BeingSigned, SignedOK
  <2>3. \A q \in Proc \ {p} : batcher'[q] = batcher[q]
    BY BatcherSteps DEF BatcherSet
  <2> QED
    BY <1>b, <2>1, <2>2, <2>3, ShownKept DEF ReceiptKept
<1>3. CASE PassSetRuns(p) /\ pass[p].batch = b
  <2>1. \A r \in Run : run'[r].proof = b => run'[r].sig = b
    <3>1. \A r \in Run : /\ run'[r].proof = run[r].proof
                         /\ run[r].batch = b => run'[r].sig = IF run[r].sig = None THEN b
                                                             ELSE run[r].sig
      <4>1. pass[p].batch = b /\ PassSetRuns(p)
        BY <1>3
      <4> QED
        BY <1>a, <4>1, PassSetRunsEffect
    <3>2. \A r \in Run : run[r].proof = b => /\ run[r].batch = b
                                             /\ run[r].sig \in {None, b}
      BY <1>b DEF RunOK, TypeOK
    <3> QED
      BY <3>1, <3>2
  <2>2. ~Storing(b) /\ batcher' = batcher
    BY <1>3 DEF PassSetRuns, Owed
  <2> QED
    BY <2>1, <2>2 DEF Shown, Storing
<1>4. CASE PassSetBatch(p) /\ pass[p].batch = b
  <2>1. pass'[p].pc = "runs" /\ pass'[p].batch = b
    BY <1>4, <1>a, PassSetBatchEffect DEF PassSetBatch, PassOK
  <2> QED
    BY <2>1 DEF Owed, BeingSigned
<1>5. ASSUME ~InsertBatch(p), ~(PassSetRuns(p) /\ pass[p].batch = b),
             ~(PassSetBatch(p) /\ pass[p].batch = b)
      PROVE  Shown(b)'
  <2>1. row[b].sig # None
    <3>1. CASE row' = row
      BY <3>1 DEF Owed
    <3>2. CASE Upload(p)
      BY <3>2, <1>a, UploadEffect DEF Upload, BatcherOK, ArchiveSet, Owed
    <3>3. CASE SweepUpload(p)
      BY <3>3, <1>a, SweepUploadEffect DEF SweepUpload, SweepOK, ArchiveSet, Owed, IInv
    <3>4. CASE PassSetBatch(p)
      BY <1>5, <3>4, <1>a, PassSetBatchEffect DEF PassSetBatch, PassOK, Owed
    <3> QED
      BY <1>5, <3>1, <3>2, <3>3, <3>4
      DEF BatchNext, Claim, ClaimSlice, Batching, SelectAndBuild, Anchor, SetRunBatch,
          ReleaseUnproven, ReadBundle, Sweeping, ListMissing, SweepRead, ListUnsigned,
          PassAnchored, PassUnanchored, Signing, PassSetRuns, Crash, Boot, FailBatcher,
          FailPass
  <2>2. b \in missed => b \in missed'
    <3>1. CASE Claim(p)
      <4>1. PICK c \in Batch, S \in SUBSET Run : ClaimSlice(p, c, S)
        BY <3>1 DEF Claim
      <4>2. c # b
        BY <1>a, <2>1, <4>1 DEF ClaimSlice, Unused, RowOK, NoRow
      <4> QED
        BY <4>1, <4>2 DEF ClaimSlice
    <3>2. CASE ~Claim(p)
      BY <3>2
      DEF BatchNext, Batching, SelectAndBuild, Anchor, InsertBatch, SetRunBatch,
          ReleaseUnproven, ReadBundle, Upload, Sweeping, ListMissing, SweepRead,
          SweepUpload, ListUnsigned, PassAnchored, PassUnanchored, Signing, PassSetBatch,
          PassSetRuns, Crash, Boot, FailBatcher, FailPass
    <3> QED
      BY <3>1, <3>2
  <2>3. ASSUME pass[p].pc = "runs", pass[p].batch = b PROVE b \in missed'
    <3>1. ~PassSetBatch(p) /\ ~PassSetRuns(p)
      BY <1>5, <2>3 DEF PassSetBatch
    <3>2. CASE Crash(p) \/ FailPass(p)
      BY <2>3, <3>2 DEF Crash, FailPass, HalfSigned
    <3>3. CASE pass' = pass
      BY <2>3, <3>3 DEF Owed, BeingSigned
    <3> QED
      BY <2>3, <3>1, <3>2, <3>3
      DEF BatchNext, Claim, ClaimSlice, Batching, SelectAndBuild, Anchor, InsertBatch,
          SetRunBatch, ReleaseUnproven, ReadBundle, Upload, Sweeping, ListMissing,
          SweepRead, SweepUpload, ListUnsigned, PassAnchored, PassUnanchored, Signing,
          Boot, FailBatcher
  <2>4. Shown(b)
    BY <1>a, <2>1, <2>2, <2>3, OwedBefore DEF SignedOK
  <2>5. ASSUME NEW r \in Run, run'[r].proof = b
        PROVE  \/ run'[r].sig = b
               \/ run[r].proof = b /\ run'[r].sig = run[r].sig
    <3>1. CASE SetRunBatch(p, r)
      <4>1. /\ run'[r].proof = batcher[p].batch /\ run'[r].sig = batcher[p].sig
            /\ batcher[p].pc = "store"
        <5>1. batcher[p].batch \in Batch
          BY <1>a, <3>1 DEF SetRunBatch, BatcherOK
        <5> QED
          BY <1>a, <3>1, <5>1, SetRunEffect
      <4> QED
        BY <2>4, <2>5, <4>1 DEF Shown
    <3>2. CASE PassSetRuns(p) /\ run[r].batch = pass[p].batch
      <4>1. run'[r].proof = run[r].proof
        BY <1>a, <3>2, PassSetRunsEffect DEF PassSetRuns, PassOK
      <4> QED
        BY <1>5, <1>b, <2>5, <3>2, <4>1 DEF RunOK
    <3> QED
      BY <2>5, <3>1, <3>2, RunWrites
  <2> QED
    BY <1>5, <1>b, <2>4, <2>5, StorersKept, ShownKept DEF ReceiptKept
<1> QED
  BY <1>1, <1>2, <1>3, <1>4, <1>5

LEMMA SignedStep == IInv /\ [Next]_vars => \A b \in Batch : SignedOK(b)'
<1> SUFFICES ASSUME IInv, [Next]_vars, NEW b \in Batch PROVE SignedOK(b)'
  OBVIOUS
<1> SignedOK(b)
  BY DEF IInv
<1>1. ASSUME NEW e \in Exec, TailNext(e) PROVE SignedOK(b)'
  <2>1. UNCHANGED <<row, missed, pass, batcher>>
    BY <1>1, TailLeaves
  <2>2. ASSUME NEW r \in Run, TailedOnce(r)', run'[r].proof = b
        PROVE  TailedOnce(r) /\ run[r].proof = b /\ run'[r].sig = run[r].sig
    <3>1. run[r].proof = b => run[r].hash # None
      BY DEF IInv, RunOK, TypeOK
    <3> QED
      BY <1>1, <2>2, <3>1, TailReceipts
  <2> QED
    BY <2>1, <2>2 DEF SignedOK, Owed, BeingSigned, Shown
<1>2. CASE (\E c \in Batch : AgeBatch(c)) \/ UNCHANGED vars
  <2>1. UNCHANGED <<row, missed, pass, batcher, run, finals>>
    BY <1>2 DEF AgeBatch, vars
  <2> QED
    BY <2>1 DEF SignedOK, Owed, BeingSigned, Shown, TailedOnce
<1> QED
  BY <1>1, <1>2, NextParts, SignedBatch

-----------------------------------------------------------------------------
(* The theorems.                                                           *)

LEMMA InitIInv == Init => IInv
<1> SUFFICES ASSUME Init PROVE IInv
  OBVIOUS
<1>1. TypeOK
  BY InitType
<1>2. \A r \in Run : HashOK(r) /\ RunOK(r)
  BY DEF Init, HashOK, RunOK, NewRun, NoTail
<1>3. \A e \in Exec : TailOK(e)
  BY DEF Init, TailOK, NoTail
<1>4. \A b \in Batch : RowOK(b) /\ SignedOK(b)
  BY DEF Init, RowOK, SignedOK, Owed, NoRow, Nothing, Faithful, Within
<1>5. \A p \in Proc : BatcherOK(p) /\ SweepOK(p) /\ PassOK(p)
  BY DEF Init, BatcherOK, SweepOK, PassOK, NoBatcher, NoSweep, NoPass, Nothing, Faithful
<1>6. BatchersApart
  BY DEF Init, BatchersApart, NoBatcher
<1> QED
  BY <1>1, <1>2, <1>3, <1>4, <1>5, <1>6 DEF IInv

LEMMA StepIInv == IInv /\ [Next]_vars => IInv'
BY TypeStep, ReceiptsStep, RunStep, RowStep, SignedStep, BatcherStep, SweepStep, PassStep,
   ApartStep DEF IInv

\* The inductive invariant holds of every behaviour.
THEOREM Invariant == Spec => []IInv
BY InitIInv, StepIInv, PTL DEF Spec

\* Rows, slots and bundles keep their types (the columns of receipt-batch.ts).
THEOREM Typing == Spec => []TypeOK
<1>1. IInv => TypeOK
  BY DEF IInv
<1> QED
  BY <1>1, Invariant, PTL

\* A stored proof and an archive fit the anchored root, whatever the batchers, the
\* tails, the sweeps and the crashes do.
THEOREM StoredHolds == Spec => []StoredFits
<1>1. IInv => StoredFits
  <2> SUFFICES ASSUME IInv PROVE StoredFits
    OBVIOUS
  <2>1. ASSUME NEW r \in Run, TailedOnce(r), run[r].proof # None
        PROVE  LET b == run[r].proof IN
               /\ run[r].batch = b /\ row[b].stored
               /\ run[r].leaf = run[r].hash /\ row[b].root[r] = run[r].hash
               /\ run[r].hash = run[r].data
    <3> PICK b \in Batch : b = run[r].proof
      BY <2>1 DEF IInv, TypeOK, RunRow
    <3>1. /\ run[r].batch = b /\ row[b].stored /\ run[r].hash # None
          /\ run[r].leaf = row[b].root[r] /\ run[r].leaf # None
      BY <2>1 DEF IInv, RunOK
    <3>2. row[b].root[r] \in {None, run[r].hash}
      BY <2>1 DEF IInv, RowOK, Faithful
    <3>3. run[r].hash \in {None, run[r].data}
      BY <2>1 DEF IInv, HashOK
    <3> QED
      BY <3>1, <3>2, <3>3
  <2>2. ArchiveWithinRoot
    BY DEF IInv, RowOK, Within, ArchiveWithinRoot
  <2> QED
    BY <2>1, <2>2 DEF StoredFits, ProofVerifies
<1> QED
  BY <1>1, Invariant, PTL

\* The transaction a run shows is of its own batch, and once a batch is anchored its
\* runs show it, but for the batches in missed.
THEOREM AnchorsHold == Spec => []AnchorsAgree
<1>1. IInv => AnchorsAgree
  <2> SUFFICES ASSUME IInv PROVE AnchorsAgree
    OBVIOUS
  <2>1. SigMatchesBatch
    BY DEF IInv, RunOK, SigMatchesBatch
  <2>2. AnchorReachesRuns
    BY DEF IInv, SignedOK, Owed, Shown, BeingSigned, AnchorReachesRuns
  <2> QED
    BY <2>1, <2>2 DEF AnchorsAgree
<1> QED
  BY <1>1, Invariant, PTL

-----------------------------------------------------------------------------
(* Batchers that are done in time.                                         *)

AtWorkPC == {"select", "anchor", "insert", "store", "release"}

\* A batcher that is at work was so before, with the same batch, or claims one now.
LEMMA WorkBefore ==
  ASSUME IInv, NEW p \in Proc, BatchNext(p), batcher'[p].pc \in AtWorkPC
  PROVE  \/ Claim(p)
         \/ batcher[p].pc \in AtWorkPC /\ batcher'[p].batch = batcher[p].batch
<1> TypeOK /\ BatcherOK(p)
  BY DEF IInv
<1>1. batcher'[p] # NoBatcher
  BY DEF NoBatcher, AtWorkPC
<1>2. batcher'[p].batch # batcher[p].batch => Claim(p)
  BY <1>1, BatcherSteps
<1>3. CASE \/ SelectAndBuild(p) \/ Anchor(p) \/ InsertBatch(p)
           \/ ReleaseUnproven(p) \/ \E r \in Run : SetRunBatch(p, r)
  BY <1>2, <1>3 DEF SelectAndBuild, Anchor, InsertBatch, ReleaseUnproven, SetRunBatch,
                    AtWorkPC
<1>4. CASE ReadBundle(p)
  BY <1>4, ReadBundleEffect DEF AtWorkPC
<1>5. CASE Upload(p) \/ Crash(p)
  BY <1>1, <1>5, BatcherEnds, CrashEffect DEF Upload, BatcherSet
<1>6. CASE FailBatcher(p)
  BY <1>2, <1>6 DEF FailBatcher, AtWorkPC
<1> QED
  BY <1>2, <1>3, <1>4, <1>5, <1>6
  DEF BatchNext, Batching, Sweeping, ListMissing, SweepRead, SweepUpload, ListUnsigned,
      PassAnchored, PassUnanchored, Signing, PassSetBatch, PassSetRuns, Boot, FailPass

\* Nobody else takes, proves or releases what a batcher at work has reserved.
LEMMA ReservedKept ==
  ASSUME HInv, NEW q \in Proc, BatchNext(q), NEW p \in Proc, batcher[p].pc \in AtWorkPC,
         batcher'[p] # NoBatcher, NEW r \in Run, Reserved(p, r)
  PROVE  \/ SetRunBatch(p, r)
         \/ run'[r].batch = batcher[p].batch /\ run'[r].proof = None
<1>a. IInv /\ TypeOK /\ HeldOK(p) /\ HeldOK(q) /\ BatcherOK(q)
  BY DEF HInv, IInv
<1>b. /\ batcher[p].batch \in Batch /\ run[r].batch = batcher[p].batch
      /\ run[r].proof = None /\ batcher[p].batch \notin stale
  BY <1>a DEF IInv, BatcherOK, AtWorkPC, Reserved, HeldOK
<1>1. CASE SetRunBatch(q, r)
  <2>1. Reserved(q, r) /\ batcher[q].pc # "idle"
    BY <1>1, <1>a DEF SetRunBatch, HeldOK
  <2>2. q = p
    BY <1>a, <1>b, <2>1, BatcherApart DEF Reserved
  <2> QED
    BY <1>1, <2>2
<1>2. CASE ~SetRunBatch(q, r)
  <2>1. run'[r].proof = None
    BY <1>2, <1>a, <1>b, RunWrites
  <2>2. CASE Claim(q)
    <3> PICK b \in Batch, S \in SUBSET Run : ClaimSlice(q, b, S)
      BY <2>2 DEF Claim
    <3>1. r \notin S
      BY <1>b DEF ClaimSlice, Unbatched
    <3> QED
      BY <1>a, <1>b, <2>1, <3>1, ClaimEffect
  <2>3. CASE ReleaseUnproven(q)
    <3>1. batcher'[q] = NoBatcher /\ batcher[q].pc # "idle"
      BY <1>a, <2>3, BatcherEnds DEF ReleaseUnproven, BatcherSet
    <3>2. batcher[q].batch # batcher[p].batch
      BY <1>a, <3>1, BatcherApart
    <3>3. run'[r].batch = run[r].batch
      BY <1>a, <1>b, <2>3, <3>2, ReleaseEffect DEF ReleaseUnproven
    <3> QED
      BY <1>b, <2>1, <3>3
  <2>4. CASE Boot(q)
    <3>1. run'[r].batch = run[r].batch
      BY <1>a, <1>b, <2>4, ReleaseEffect DEF Boot, Orphaned
    <3> QED
      BY <1>b, <2>1, <3>1
  <2>5. ASSUME NEW s \in Run, SetRunBatch(q, s) PROVE run'[r].batch = run[r].batch
    <3>1. s # r /\ batcher[q].batch \in Batch
      BY <1>2, <1>a, <2>5 DEF SetRunBatch, BatcherOK
    <3> QED
      BY <1>a, <2>5, <3>1, SetRunEffect
  <2>6. CASE PassSetRuns(q)
    <3>1. pass[q].batch \in Batch
      BY <1>a, <2>6 DEF PassSetRuns, IInv, PassOK
    <3> QED
      BY <1>a, <1>b, <2>1, <2>6, <3>1, PassSetRunsEffect
  <2>7. CASE UNCHANGED run
    BY <1>b, <2>7
  <2> QED
    BY <1>b, <2>1, <2>2, <2>3, <2>4, <2>5, <2>6, <2>7
    DEF BatchNext, Batching, SelectAndBuild, Anchor, InsertBatch, ReadBundle, Upload,
        Sweeping, ListMissing, SweepRead, SweepUpload, ListUnsigned, PassAnchored,
        PassUnanchored, Signing, PassSetBatch, Crash, FailBatcher, FailPass
<1> QED
  BY <1>1, <1>2

LEMMA HeldStep ==
  ASSUME HInv, NEW q \in Proc, BatchNext(q), NEW p \in Proc
  PROVE  HeldOK(p)'
<1>a. IInv /\ TypeOK /\ HeldOK(p) /\ BatcherOK(p)
  BY DEF HInv, IInv
<1>b. BatcherSet(q, batcher'[q])
  BY <1>a, BatcherSteps
<1>1. ASSUME batcher'[p].pc \in AtWorkPC PROVE batcher'[p].batch \notin stale'
  <2>1. CASE Claim(q)
    <3> PICK b \in Batch, S \in SUBSET Run : ClaimSlice(q, b, S)
      BY <2>1 DEF Claim
    <3>1. batcher'[q].batch = b /\ stale' = stale \ {b}
      BY <1>a, ClaimEffect DEF ClaimSlice
    <3>2. q # p => batcher'[p] = batcher[p]
      BY <1>b DEF BatcherSet
    <3> QED
      BY <1>1, <1>a, <3>1, <3>2 DEF HeldOK, AtWorkPC
  <2>2. CASE ~Claim(q)
    <3>1. batcher[p].pc \in AtWorkPC /\ batcher'[p].batch = batcher[p].batch
      BY <1>1, <1>a, <1>b, <2>2, WorkBefore DEF BatcherSet
    <3>2. stale' = stale
      BY <2>2
      DEF BatchNext, Batching, SelectAndBuild, Anchor, InsertBatch, SetRunBatch,
          ReleaseUnproven, ReadBundle, Upload, Sweeping, ListMissing, SweepRead,
          SweepUpload, ListUnsigned, PassAnchored, PassUnanchored, Signing, PassSetBatch,
          PassSetRuns, Crash, Boot, FailBatcher, FailPass
    <3> QED
      BY <1>a, <3>1, <3>2 DEF HeldOK, AtWorkPC
  <2> QED
    BY <2>1, <2>2
<1>2. ASSUME NEW r \in Run, ~SetRunBatch(p, r), batcher[p].pc \in AtWorkPC,
             batcher'[p].batch = batcher[p].batch, Reserved(p, r)
      PROVE  Reserved(p, r)'
  <2>1. batcher'[p] # NoBatcher
    BY <1>2, <1>a DEF NoBatcher, BatcherOK, AtWorkPC
  <2> QED
    BY <1>2, <2>1, ReservedKept DEF Reserved
<1>3. CASE q # p \/ batcher'[p] = batcher[p]
  <2>1. batcher'[p] = batcher[p]
    BY <1>3, <1>b DEF BatcherSet
  <2>2. ASSUME NEW r \in Run, SetRunBatch(p, r) PROVE batcher'[p] # batcher[p]
    <3>1. batcher[p].batch \in Batch
      BY <1>a, <2>2 DEF SetRunBatch, BatcherOK
    <3>2. r \in batcher[p].todo /\ batcher[p] # NoBatcher
      BY <2>2 DEF SetRunBatch, NoBatcher
    <3> QED
      BY <1>a, <2>2, <3>1, <3>2, SetRunEffect
  <2> QED
    BY <1>1, <1>2, <1>a, <2>1, <2>2 DEF HeldOK, AtWorkPC, TypeOK, Batcher
<1>4. CASE q = p /\ batcher'[p].pc \in {"anchor", "insert"} /\ batcher'[p] # batcher[p]
  <2>1. CASE SelectAndBuild(p)
    <3> PICK b \in Batch : b = batcher[p].batch /\ ~row[b].stored
      BY <1>a, <2>1 DEF SelectAndBuild, BatcherOK
    <3>1. batcher'[p].batch = b /\ batcher'[p].tree = Leaves(b) /\ run' = run
      BY <1>4, <1>a, <2>1, SelectEffect DEF SelectAndBuild, NoBatcher
    <3>2. \A r \in Run : Leaves(b)[r] # None => run[r].batch = b
      BY DEF Leaves
    <3>3. \A r \in Run : run[r].batch = b => run[r].proof = None
      BY DEF IInv, HInv, RunOK
    <3> QED
      BY <1>1, <1>4, <3>1, <3>2, <3>3 DEF HeldOK, Reserved, AtWorkPC
  <2>2. CASE Anchor(p)
    <3>1. batcher[p].batch \in Batch /\ batcher[p].pc = "anchor"
      BY <1>a, <2>2 DEF Anchor, BatcherOK
    <3>2. /\ batcher'[p].pc = "insert" /\ batcher'[p].tree = batcher[p].tree
          /\ batcher'[p].batch = batcher[p].batch
      BY <1>a, <2>2, <3>1, AnchorEffect
    <3>3. \A r \in Run : ~SetRunBatch(p, r)
      BY <3>1 DEF SetRunBatch
    <3> QED
      BY <1>1, <1>2, <1>a, <3>1, <3>2, <3>3 DEF HeldOK, AtWorkPC
  <2> QED
    <3>1. batcher'[p] # NoBatcher /\ batcher'[p].pc # "select"
      BY <1>4 DEF NoBatcher
    <3>2. ~InsertBatch(p) /\ ~ReadBundle(p)
      BY <1>4, <1>a, InsertEffect, ReadBundleEffect DEF InsertBatch, BatcherOK
    <3>3. ~Claim(p)
      BY <1>a, <3>1, ClaimEffect DEF Claim
    <3>4. ~ReleaseUnproven(p) /\ ~Upload(p) /\ ~Crash(p)
      BY <1>a, <3>1, BatcherEnds, CrashEffect DEF ReleaseUnproven, Upload, BatcherSet
    <3>5. ASSUME NEW r \in Run, SetRunBatch(p, r) PROVE FALSE
      <4>1. batcher[p].batch \in Batch
        BY <1>a, <3>5 DEF SetRunBatch, BatcherOK
      <4> QED
        BY <1>4, <1>a, <3>1, <3>5, <4>1, SetRunEffect
    <3>6. ~FailBatcher(p)
      BY <1>4, <1>a, <3>1, BatcherEnds, BatcherGoes DEF FailBatcher, BatcherSet, BatcherPC
    <3> QED
      BY <1>4, <2>1, <2>2, <3>2, <3>3, <3>4, <3>5, <3>6
      DEF BatchNext, Batching, Sweeping, ListMissing, SweepRead, SweepUpload,
          ListUnsigned, PassAnchored, PassUnanchored, Signing, PassSetBatch, PassSetRuns,
          Boot, FailPass
<1>5. CASE q = p /\ batcher'[p].pc = "store" /\ batcher'[p] # batcher[p]
  <2>1. CASE InsertBatch(p)
    <3>1. batcher[p].batch \in Batch /\ batcher[p].pc = "insert"
      BY <1>a, <2>1 DEF InsertBatch, BatcherOK
    <3>2. /\ batcher'[p].batch = batcher[p].batch
          /\ batcher'[p].todo = {r \in Run : batcher[p].tree[r] # None}
      BY <1>a, <2>1, <3>1, InsertEffect
    <3>3. \A r \in Run : ~SetRunBatch(p, r)
      BY <3>1 DEF SetRunBatch
    <3> QED
      BY <1>1, <1>2, <1>5, <1>a, <3>1, <3>2, <3>3 DEF HeldOK, AtWorkPC
  <2>2. ASSUME NEW s \in Run, SetRunBatch(p, s) PROVE HeldOK(p)'
    <3>1. batcher[p].batch \in Batch /\ batcher[p].pc = "store"
      BY <1>a, <2>2 DEF SetRunBatch, BatcherOK
    <3>2. batcher'[p] # NoBatcher
      BY <1>5 DEF NoBatcher
    <3>3. /\ batcher'[p].batch = batcher[p].batch
          /\ batcher'[p].todo \subseteq batcher[p].todo \ {s}
          /\ \A r \in Run \ {s} : run'[r] = run[r]
      BY <1>a, <2>2, <3>1, <3>2, SetRunEffect
    <3>4. batcher[p].todo \subseteq Run
      BY <1>a DEF TypeOK, Batcher
    <3> QED
      BY <1>1, <1>5, <1>a, <3>1, <3>3, <3>4 DEF HeldOK, Reserved, AtWorkPC
  <2> QED
    <3>1. ~InsertBatch(p) => batcher[p].pc = "store"
      BY <1>5, <1>a, StorersKept
    <3>2. batcher'[p] # NoBatcher
      BY <1>5 DEF NoBatcher
    <3>3. ~Crash(p)
      BY <1>a, <3>2, CrashEffect DEF BatcherSet
    <3>4. ~InsertBatch(p) => ~FailBatcher(p)
      BY <1>5, <1>a, <3>1, BatcherGoes DEF FailBatcher, BatcherPC
    <3> QED
      BY <1>5, <2>1, <2>2, <3>1, <3>3, <3>4
      DEF BatchNext, Claim, ClaimSlice, Batching, SelectAndBuild, Anchor,
          ReleaseUnproven, ReadBundle, Upload, Sweeping, ListMissing, SweepRead,
          SweepUpload, ListUnsigned, PassAnchored, PassUnanchored, Signing, PassSetBatch,
          PassSetRuns, Boot, FailPass
<1>6. CASE batcher'[p].pc \notin {"anchor", "insert", "store"}
  BY <1>1, <1>6 DEF HeldOK, AtWorkPC
<1> QED
  BY <1>3, <1>4, <1>5, <1>6

LEMMA StepHInv == ASSUME Prompt, HInv, [Next]_vars PROVE HInv'
<1>1. IInv' /\ IInv
  BY StepIInv DEF HInv
<1>2. ASSUME NEW p \in Proc PROVE HeldOK(p)'
  <2>1. ASSUME NEW e \in Exec, TailNext(e) PROVE HeldOK(p)'
    <3>1. UNCHANGED <<batcher, stale>>
      BY <2>1, TailLeaves
    <3>2. \A r \in Run : run'[r].batch = run[r].batch /\ run'[r].proof = run[r].proof
      BY <1>1, <2>1, TailReceipts
    <3> QED
      BY <3>1, <3>2 DEF HInv, HeldOK, Reserved, IInv, TypeOK, Batcher
  <2>2. ASSUME NEW b \in Batch, AgeBatch(b) PROVE HeldOK(p)'
    <3>1. UNCHANGED <<batcher, run>> /\ stale' = stale \cup {b} /\ ~AtWork(b)
      BY <2>2 DEF AgeBatch
    <3> QED
      BY <3>1 DEF HInv, HeldOK, Reserved, AtWork
  <2>3. CASE UNCHANGED vars
    BY <2>3 DEF vars, HInv, HeldOK, Reserved
  <2> QED
    BY <2>1, <2>2, <2>3, NextParts, HeldStep
<1> QED
  BY <1>1, <1>2 DEF HInv

\* Where the batchers are done within BATCH_STALE_MS, nobody takes a proven run out
\* of its batch or proves it again elsewhere.
THEOREM ProofsStay == ASSUME Prompt PROVE Spec => ProofStays
<1>1. Init => HInv
  BY InitIInv DEF Init, HInv, HeldOK, NoBatcher
<1>2. HInv /\ [Next]_vars => HInv'
  BY StepHInv
<1>3. HInv /\ [Next]_vars =>
         [\A r \in Run : run[r].proof # None =>
             run'[r].proof = run[r].proof /\ run'[r].batch = run[r].batch]_vars
  <2> SUFFICES ASSUME HInv, [Next]_vars, NEW r \in Run, run[r].proof # None
               PROVE  run'[r].proof = run[r].proof /\ run'[r].batch = run[r].batch
    OBVIOUS
  <2>1. ASSUME NEW e \in Exec, TailNext(e)
        PROVE  run'[r].proof = run[r].proof /\ run'[r].batch = run[r].batch
    BY <2>1, TailReceipts DEF HInv
  <2>2. ASSUME NEW p \in Proc, BatchNext(p)
        PROVE  run'[r].proof = run[r].proof /\ run'[r].batch = run[r].batch
    <3>1. ~SetRunBatch(p, r)
      BY DEF HInv, HeldOK, Reserved, SetRunBatch
    <3> QED
      BY <2>2, <3>1, RunWrites DEF HInv
  <2> QED
    BY <2>1, <2>2, NextParts DEF AgeBatch, vars
<1> QED
  BY <1>1, <1>2, <1>3, PTL DEF Spec, ProofStays
=============================================================================
