---------------------------- MODULE ReceiptBatch ----------------------------
(***************************************************************************)
(* Receipts.  The tail of an execution (lib/runner.ts, lib/ext-run.ts)     *)
(* hashes a settled run (lib/receipt.ts); a batcher in every process       *)
(* claims unbatched receipts, anchors one Merkle root for them, writes     *)
(* each run its proof and archives the batch (lib/receipt-batch.ts); the   *)
(* reconciler anchors the batches whose signature was lost                 *)
(* (lib/reconcile.ts).                                                     *)
(*                                                                         *)
(* A digest is a version number of what it covers, a tree the leaf of each *)
(* of its runs (None for the others), a proof the batch in whose tree it   *)
(* is a path, with the leaf it starts from, and a signature the batch      *)
(* whose root its memo carries.                                            *)
(***************************************************************************)
EXTENDS FiniteSets, Naturals

CONSTANTS
    Run, Batch, None,
    Proc, Exec, Host,  \* processes, slots for executions, the process of each
    Archiver, Signer,  \* the processes with arweaveEnabled, memoAnchorEnabled
    MaxBatch,          \* opts.max, 1000 in the code
    Prompt,            \* TRUE: BATCH_STALE_MS outlasts anchoring and storing
    MaxFinals,         \* bound of the model on the executions of a run
    MaxFailures        \* bound of the model on crashes and failed calls

ASSUME RunsAssumption == None \notin Run /\ None \notin Batch /\ None \notin Nat
ASSUME SettingsAssumption ==
    /\ Host \in [Exec -> Proc] /\ Prompt \in BOOLEAN
    /\ Archiver \subseteq Proc /\ Signer \subseteq Proc
    /\ MaxBatch \in Nat \ {0} /\ MaxFinals \in Nat
    /\ MaxFailures \in Nat

VARIABLES
    run,      \* the receipt columns of runs, and what a digest would cover
    row,      \* the rows of receipt_batches
    stale,    \* the batches claimed more than BATCH_STALE_MS ago
    batcher,  \* batchPendingReceipts in each process
    sweep,    \* storeMissingBatches in each process
    pass,     \* reconcileBatchAnchors in each process
    tail,     \* the tails of executions
    finals,   \* how many tails each run has had
    up,       \* the processes that are running
    dropped,  \* batches whose batcher died or failed before storing them
    missed,   \* batches a pass signed while, or half way, others stored them
    failures

vars == <<run, row, stale, batcher, sweep, pass, tail, finals, up, dropped,
          missed, failures>>

Leaf == Nat \cup {None}
Tree == [Run -> Leaf]
Nothing == [r \in Run |-> None]
Row == [stored : BOOLEAN, root : Tree, sig : Batch \cup {None},
        archived : BOOLEAN, bundle : Tree]
NoRow == [stored |-> FALSE, root |-> Nothing, sig |-> None, archived |-> FALSE,
          bundle |-> Nothing]
RunRow == [data : Nat, agenc : BOOLEAN, hash : Leaf, batch : Batch \cup {None},
           proof : Batch \cup {None}, leaf : Leaf, sig : Batch \cup {None}]
BatcherPC == {"idle", "select", "anchor", "insert", "store", "release", "read",
              "upload"}
Batcher == [pc : BatcherPC, batch : Batch \cup {None}, tree : Tree,
            sig : Batch \cup {None}, todo : SUBSET Run, bundle : Tree]
NoBatcher == [pc |-> "idle", batch |-> None, tree |-> Nothing, sig |-> None,
              todo |-> {}, bundle |-> Nothing]
Sweep == [pc : {"idle", "list", "read", "upload"}, todo : SUBSET Batch,
          batch : Batch \cup {None}, bundle : Tree]
NoSweep == [pc |-> "idle", todo |-> {}, batch |-> None, bundle |-> Nothing]
Pass == [pc : {"idle", "anchor", "batch", "runs"}, todo : SUBSET Batch,
         batch : Batch \cup {None}]
NoPass == [pc |-> "idle", todo |-> {}, batch |-> None]
TailPC == {"idle", "commit", "outcome", "agenc", "agencWrite", "digest", "write"}
Tail == [pc : TailPC, run : Run \cup {None}, digest : Leaf]
NoTail == [pc |-> "idle", run |-> None, digest |-> None]

TypeOK ==
    /\ run \in [Run -> RunRow]
    /\ row \in [Batch -> Row]
    /\ stale \subseteq Batch
    /\ batcher \in [Proc -> Batcher]
    /\ sweep \in [Proc -> Sweep]
    /\ pass \in [Proc -> Pass]
    /\ tail \in [Exec -> Tail]
    /\ \A e \in Exec : tail[e].pc # "idle" => tail[e].run \in Run
    /\ finals \in [Run -> Nat]
    /\ up \subseteq Proc
    /\ dropped \subseteq Batch /\ missed \subseteq Batch
    /\ failures \in Nat

NewRun == [data |-> 0, agenc |-> FALSE, hash |-> None, batch |-> None,
           proof |-> None, leaf |-> None, sig |-> None]

Init ==
    /\ run = [r \in Run |-> NewRun]
    /\ row = [b \in Batch |-> NoRow]
    /\ stale = {}
    /\ batcher = [p \in Proc |-> NoBatcher]
    /\ sweep = [p \in Proc |-> NoSweep]
    /\ pass = [p \in Proc |-> NoPass]
    /\ tail = [e \in Exec |-> NoTail]
    /\ finals = [r \in Run |-> 0]
    /\ up = Proc
    /\ dropped = {} /\ missed = {}
    /\ failures = 0

-----------------------------------------------------------------------------
(* The tail of an execution: commitment, verdict, constraint hash, receipt. *)

GoTail(e, pc) == tail' = [tail EXCEPT ![e].pc = pc]

\* Mutated form: the slot keeps its step.
EndTailHalfway(e) == tail' = [tail EXCEPT ![e].run = None]

EndTail(e) == tail' = [tail EXCEPT ![e] = NoTail]

\* The digest of what r holds now has been taken.
Digested(r) ==
    \/ run[r].data \in {run[r].hash, run[r].leaf}
    \/ \E e \in Exec : tail[e].run = r /\ tail[e].digest = run[r].data
    \/ \E p \in Proc : batcher[p].tree[r] = run[r].data
    \/ \E b \in Batch : row[b].root[r] = run[r].data

\* The version after a statement that changes what a digest of r covers: a new
\* one only when the current one has been digested.
NextData(r) == IF Digested(r) THEN run[r].data + 1 ELSE run[r].data

Touch(r) == run' = [run EXCEPT ![r].data = NextData(r)]

\* finishRun has settled r in this execution.
BeginTail(e, r) ==
    /\ Host[e] \in up /\ tail[e].pc = "idle"
    /\ finals[r] < MaxFinals
    /\ finals' = [finals EXCEPT ![r] = @ + 1]
    /\ tail' = [tail EXCEPT ![e] = [pc |-> "commit", run |-> r, digest |-> None]]
    /\ UNCHANGED <<run, row, stale, batcher, sweep, pass, up, dropped, missed,
                   failures>>

\* setRunCommitment: new salts, a new root.
Commit(e) ==
    /\ tail[e].pc = "commit"
    /\ Touch(tail[e].run)
    /\ GoTail(e, "outcome")
    /\ UNCHANGED <<row, stale, batcher, sweep, pass, finals, up, dropped, missed,
                   failures>>

\* setRunOutcome, if the verifier has a verdict.
Outcome(e) ==
    /\ tail[e].pc = "outcome"
    /\ Touch(tail[e].run) \/ UNCHANGED run
    /\ GoTail(e, "agenc")
    /\ UNCHANGED <<row, stale, batcher, sweep, pass, finals, up, dropped, missed,
                   failures>>

\* attachAgenc: never twice, never under a receipt; commitRun may have nothing.
ReadAgenc(e) ==
    LET r == tail[e].run IN
    /\ tail[e].pc = "agenc"
    /\ \/ ~run[r].agenc /\ run[r].hash = None /\ GoTail(e, "agencWrite")
       \/ GoTail(e, "digest")
    /\ UNCHANGED <<run, row, stale, batcher, sweep, pass, finals, up, dropped,
                   missed, failures>>

WriteAgenc(e) ==
    LET r == tail[e].run IN
    /\ tail[e].pc = "agencWrite"
    /\ run' = [run EXCEPT ![r].data = NextData(r), ![r].agenc = TRUE]
    /\ GoTail(e, "digest")
    /\ UNCHANGED <<row, stale, batcher, sweep, pass, finals, up, dropped, missed,
                   failures>>

\* attachReceipt: digestForRun ...
Digest(e) ==
    /\ tail[e].pc = "digest"
    /\ tail' = [tail EXCEPT ![e].pc = "write", ![e].digest = run[tail[e].run].data]
    /\ UNCHANGED <<run, row, stale, batcher, sweep, pass, finals, up, dropped,
                   missed, failures>>

\* ... and updateReceipt, which clears the signature.
UpdateReceipt(e) ==
    LET r == tail[e].run IN
    /\ tail[e].pc = "write"
    /\ run' = [run EXCEPT ![r].hash = tail[e].digest, ![r].sig = None]
    /\ EndTail(e)
    /\ UNCHANGED <<row, stale, batcher, sweep, pass, finals, up, dropped, missed,
                   failures>>

-----------------------------------------------------------------------------
(* batchPendingReceipts, one at a time in each process.                    *)

GoBatcher(p, pc) == batcher' = [batcher EXCEPT ![p].pc = pc]
EndBatcher(p) == batcher' = [batcher EXCEPT ![p] = NoBatcher]

\* Mutated form: a receipt that shows a signature is passed over.
UnbatchedUnsigned == {r \in Run : /\ run[r].batch = None /\ run[r].hash # None
                                 /\ run[r].sig = None}

Unbatched == {r \in Run : run[r].batch = None /\ run[r].hash # None}

\* An id that nothing refers to: as good as a new one.
Unused(b) ==
    /\ ~row[b].stored
    /\ \A r \in Run : run[r].batch # b /\ run[r].proof # b /\ run[r].sig # b
    /\ \A p \in Proc : batcher[p].batch # b

\* The UPDATE that claims at most MaxBatch unbatched receipts.
ClaimSlice(p, b, S) ==
    /\ p \in up /\ batcher[p].pc = "idle"
    /\ Unused(b)
    /\ S # {} /\ S \subseteq Unbatched
    /\ S = Unbatched \/ Cardinality(S) = MaxBatch
    /\ Cardinality(S) <= MaxBatch
    /\ run' = [r \in Run |-> IF r \in S THEN [run[r] EXCEPT !.batch = b] ELSE run[r]]
    /\ batcher' = [batcher EXCEPT ![p] =
                       [NoBatcher EXCEPT !.pc = "select", !.batch = b]]
    /\ stale' = stale \ {b} /\ dropped' = dropped \ {b} /\ missed' = missed \ {b}
    /\ UNCHANGED <<row, sweep, pass, tail, finals, up, failures>>

\* The runs and leaves read back.
Leaves(b) == [r \in Run |-> IF run[r].batch = b THEN run[r].hash ELSE None]

\* buildMerkle over the rows read back; it throws if there are none.
SelectAndBuild(p) ==
    LET tree == Leaves(batcher[p].batch) IN
    /\ batcher[p].pc = "select"
    /\ IF tree = Nothing
       THEN EndBatcher(p)
       ELSE batcher' = [batcher EXCEPT ![p].pc = "anchor", ![p].tree = tree]
    /\ UNCHANGED <<run, row, stale, sweep, pass, tail, finals, up, dropped, missed,
                   failures>>

\* anchorWithTimeout: a signature, or none in time.
Anchor(p) ==
    /\ batcher[p].pc = "anchor"
    /\ \E sig \in IF p \in Signer THEN {batcher[p].batch, None} ELSE {None} :
          batcher' = [batcher EXCEPT ![p].pc = "insert", ![p].sig = sig]
    /\ UNCHANGED <<run, row, stale, sweep, pass, tail, finals, up, dropped, missed,
                   failures>>

InsertBatch(p) ==
    LET b == batcher[p].batch
        tree == batcher[p].tree IN
    /\ batcher[p].pc = "insert"
    /\ row' = [row EXCEPT ![b] = [NoRow EXCEPT !.stored = TRUE, !.root = tree,
                                               !.sig = batcher[p].sig]]
    /\ batcher' = [batcher EXCEPT ![p].pc = "store",
                                  ![p].todo = {r \in Run : tree[r] # None}]
    /\ UNCHANGED <<run, stale, sweep, pass, tail, finals, up, dropped, missed,
                   failures>>

\* Mutated form: the signature is left out of the run's row.
BatchColumnsUnsigned(old, b, leaf, sig) ==
    [old EXCEPT !.batch = b, !.proof = b, !.leaf = leaf, !.sig = None]

BatchColumns(old, b, leaf, sig) ==
    [old EXCEPT !.batch = b, !.proof = b, !.leaf = leaf, !.sig = sig]

\* setRunBatch, run by run; it has no guard.
SetRunBatch(p, r) ==
    LET me == batcher[p]
        left == me.todo \ {r}
        done == IF p \in Archiver THEN [me EXCEPT !.pc = "read", !.todo = {}]
                ELSE NoBatcher IN
    /\ me.pc = "store" /\ r \in me.todo
    /\ run' = [run EXCEPT ![r] = BatchColumns(run[r], me.batch, me.tree[r], me.sig)]
    /\ batcher' = [batcher EXCEPT ![p] = IF left = {} THEN done
                                         ELSE [me EXCEPT !.todo = left]]
    /\ UNCHANGED <<row, stale, sweep, pass, tail, finals, up, dropped, missed,
                   failures>>

\* Mutated form: the proof is not looked at.
ReleasableAll(B) == {r \in Run : run[r].batch \in B}

\* ... SET batch_id = NULL WHERE batch_id in B AND merkle_proof IS NULL
Releasable(B) == {r \in Run : run[r].batch \in B /\ run[r].proof = None}

Release(S) == run' = [r \in Run |-> IF r \in S THEN [run[r] EXCEPT !.batch = None]
                                                ELSE run[r]]

\* The catch of a failed store; the error is rethrown.
ReleaseUnproven(p) ==
    /\ batcher[p].pc = "release"
    /\ Release(Releasable({batcher[p].batch}))
    /\ EndBatcher(p)
    /\ UNCHANGED <<row, stale, sweep, pass, tail, finals, up, dropped, missed,
                   failures>>

-----------------------------------------------------------------------------
(* storeBatch and storeMissingBatches: the bundle is built and uploaded.   *)

\* Mutated form: any batch's leaves.
BundleAny(b) == [r \in Run |-> IF run[r].proof # None THEN run[r].hash ELSE None]

\* buildBatchBundle: a run without its proof has no place in the bundle.
Bundle(b) == [r \in Run |-> IF run[r].proof = b /\ run[r].batch = b
                            THEN run[r].hash ELSE None]

Archived(b, bundle) ==
    row' = [row EXCEPT ![b].archived = TRUE, ![b].bundle = bundle]

ReadBundle(p) ==
    /\ batcher[p].pc = "read"
    /\ batcher' = [batcher EXCEPT ![p].pc = "upload",
                                  ![p].bundle = Bundle(batcher[p].batch)]
    /\ UNCHANGED <<run, row, stale, sweep, pass, tail, finals, up, dropped, missed,
                   failures>>

\* The upload is best effort; then the sweep starts, unless one is under way.
Upload(p) ==
    /\ batcher[p].pc = "upload"
    /\ Archived(batcher[p].batch, batcher[p].bundle) \/ UNCHANGED row
    /\ EndBatcher(p)
    /\ sweep' = IF sweep[p].pc = "idle" THEN [sweep EXCEPT ![p].pc = "list"] ELSE sweep
    /\ UNCHANGED <<run, stale, pass, tail, finals, up, dropped, missed, failures>>

Missing == {b \in Batch : row[b].stored /\ ~row[b].archived}

\* Some of the recent batches that have no archive (a window and a LIMIT).
ListMissing(p, B) ==
    /\ sweep[p].pc = "list"
    /\ B \subseteq Missing
    /\ sweep' = [sweep EXCEPT ![p] =
                     IF B = {} THEN NoSweep ELSE [NoSweep EXCEPT !.pc = "read", !.todo = B]]
    /\ UNCHANGED <<run, row, stale, batcher, pass, tail, finals, up, dropped, missed,
                   failures>>

SweepRead(p, b) ==
    /\ sweep[p].pc = "read" /\ b \in sweep[p].todo
    /\ sweep' = [sweep EXCEPT ![p] = [pc |-> "upload", todo |-> @.todo \ {b},
                                      batch |-> b, bundle |-> Bundle(b)]]
    /\ UNCHANGED <<run, row, stale, batcher, pass, tail, finals, up, dropped, missed,
                   failures>>

SweepUpload(p) ==
    /\ sweep[p].pc = "upload"
    /\ Archived(sweep[p].batch, sweep[p].bundle) \/ UNCHANGED row
    /\ sweep' = [sweep EXCEPT ![p] =
                     IF sweep[p].todo = {} THEN NoSweep
                     ELSE [NoSweep EXCEPT !.pc = "read", !.todo = sweep[p].todo]]
    /\ UNCHANGED <<run, stale, batcher, pass, tail, finals, up, dropped, missed,
                   failures>>

-----------------------------------------------------------------------------
(* reconcileBatchAnchors: the batches whose signature was lost.            *)

\* Mutated form: found through the runs that show no signature.
UnsignedByRun == {b \in Batch : /\ row[b].stored /\ row[b].sig = None
                               /\ \E r \in Run : run[r].batch = b /\ run[r].sig = None}

Unsigned == {b \in Batch : row[b].stored /\ row[b].sig = None}

\* The batches left after the one at hand.
NextUnsigned(p) ==
    pass' = [pass EXCEPT ![p] =
                 IF pass[p].todo = {} THEN NoPass
                 ELSE [NoPass EXCEPT !.pc = "anchor", !.todo = pass[p].todo]]

\* The recent unsigned batches (the window and the LIMIT are left out).
ListUnsigned(p) ==
    /\ p \in up \cap Signer /\ pass[p].pc = "idle"
    /\ Unsigned # {}
    /\ pass' = [pass EXCEPT ![p] = [pc |-> "anchor", todo |-> Unsigned, batch |-> None]]
    /\ UNCHANGED <<run, row, stale, batcher, sweep, tail, finals, up, dropped,
                   missed, failures>>

\* anchorOnChain, whose memo carries the root that was listed ...
PassAnchored(p, b) ==
    /\ pass[p].pc = "anchor" /\ b \in pass[p].todo
    /\ pass' = [pass EXCEPT ![p] = [pc |-> "batch", todo |-> pass[p].todo \ {b},
                                    batch |-> b]]
    /\ UNCHANGED <<run, row, stale, batcher, sweep, tail, finals, up, dropped,
                   missed, failures>>

\* ... or no signature: the batch waits for another pass.
PassUnanchored(p, b) ==
    LET left == pass[p].todo \ {b} IN
    /\ pass[p].pc = "anchor" /\ b \in pass[p].todo
    /\ pass' = [pass EXCEPT ![p] = IF left = {} THEN NoPass
                                   ELSE [pass[p] EXCEPT !.todo = left]]
    /\ UNCHANGED <<run, row, stale, batcher, sweep, tail, finals, up, dropped,
                   missed, failures>>

\* UPDATE receipt_batches SET sig ... WHERE id = b AND sig IS NULL
PassSetBatch(p) ==
    LET b == pass[p].batch IN
    /\ pass[p].pc = "batch"
    /\ row' = IF row[b].sig = None THEN [row EXCEPT ![b].sig = b] ELSE row
    /\ pass' = [pass EXCEPT ![p].pc = "runs"]
    /\ UNCHANGED <<run, stale, batcher, sweep, tail, finals, up, dropped, missed,
                   failures>>

\* The batcher has stored b but not yet all of its runs.
Storing(b) == \E p \in Proc : batcher[p].pc = "store" /\ batcher[p].batch = b

\* Mutated form: the batch of the run is not looked at.
UnsignedRunsAny(b) == {r \in Run : run[r].batch # None /\ run[r].sig = None}

\* ... WHERE batch_id = b AND receipt_sig IS NULL
UnsignedRuns(b) == {r \in Run : run[r].batch = b /\ run[r].sig = None}

PassSetRuns(p) ==
    LET b == pass[p].batch
        S == UnsignedRuns(b) IN
    /\ pass[p].pc = "runs"
    /\ run' = [r \in Run |-> IF r \in S THEN [run[r] EXCEPT !.sig = b] ELSE run[r]]
    /\ NextUnsigned(p)
    /\ missed' = IF Storing(b) THEN missed \cup {b} ELSE missed
    /\ UNCHANGED <<row, stale, batcher, sweep, tail, finals, up, dropped, failures>>

-----------------------------------------------------------------------------
(* Time, crashes and failed statements.                                    *)

\* The batchers at work on b, from its claim to its last proof.
AtWork(b) == \E p \in Proc :
    /\ batcher[p].batch = b
    /\ batcher[p].pc \in {"select", "anchor", "insert", "store", "release"}

\* BATCH_STALE_MS have gone by since the claim of b.
AgeBatch(b) ==
    /\ b \notin stale
    /\ Releasable({b}) # {}
    /\ Prompt => ~AtWork(b)
    /\ stale' = stale \cup {b}
    /\ UNCHANGED <<run, row, batcher, sweep, pass, tail, finals, up, dropped, missed,
                   failures>>

Fail == failures < MaxFailures /\ failures' = failures + 1

\* The batches p leaves unstored, or half signed, if it stops now.
Unfinished(p) ==
    IF batcher[p].pc \in {"idle", "read", "upload"} THEN {} ELSE {batcher[p].batch}
HalfSigned(p) == IF pass[p].pc = "runs" THEN {pass[p].batch} ELSE {}

\* The process dies, with all that it was doing.
Crash(p) ==
    /\ p \in up /\ Fail
    /\ up' = up \ {p}
    /\ batcher' = [batcher EXCEPT ![p] = NoBatcher]
    /\ sweep' = [sweep EXCEPT ![p] = NoSweep]
    /\ pass' = [pass EXCEPT ![p] = NoPass]
    /\ tail' = [e \in Exec |-> IF Host[e] = p THEN NoTail ELSE tail[e]]
    /\ dropped' = dropped \cup Unfinished(p)
    /\ missed' = missed \cup HalfSigned(p)
    /\ UNCHANGED <<run, row, stale, finals>>

\* Mutated form: no age is asked for.
OrphanedAny == Releasable(Batch)

Orphaned == Releasable(stale)

\* startBatcher: recoverOrphanedBatchClaims, whose error is only logged.
Boot(p) ==
    /\ p \notin up
    /\ up' = up \cup {p}
    /\ \/ Release(Orphaned) /\ UNCHANGED failures
       \/ UNCHANGED run /\ Fail
    /\ UNCHANGED <<row, stale, batcher, sweep, pass, tail, finals, dropped, missed>>

\* The tails catch the errors of a commitment (runner.ts only), of attachAgenc
\* and of attachReceipt; any other ends them.
FailTail(e) ==
    /\ tail[e].pc # "idle" /\ Fail
    /\ \/ tail[e].pc = "commit" /\ GoTail(e, "outcome")
       \/ tail[e].pc \in {"agenc", "agencWrite"} /\ GoTail(e, "digest")
       \/ tail[e].pc \in {"commit", "outcome", "digest", "write"} /\ EndTail(e)
    /\ UNCHANGED <<run, row, stale, batcher, sweep, pass, finals, up, dropped, missed>>

\* An error before the INSERT leaves the claim; one after releases it.
FailBatcher(p) ==
    /\ Fail
    /\ \/ batcher[p].pc \in {"select", "anchor", "release"} /\ EndBatcher(p)
       \/ batcher[p].pc \in {"insert", "store"} /\ GoBatcher(p, "release")
    /\ dropped' = IF batcher[p].pc \in {"insert", "store"} THEN dropped
                  ELSE dropped \cup {batcher[p].batch}
    /\ UNCHANGED <<run, row, stale, sweep, pass, tail, finals, up, missed>>

\* The catch in the loop of a pass: the next batch.
FailPass(p) ==
    /\ pass[p].pc \in {"batch", "runs"} /\ Fail
    /\ NextUnsigned(p)
    /\ missed' = missed \cup HalfSigned(p)
    /\ UNCHANGED <<run, row, stale, batcher, sweep, tail, finals, up, dropped>>

TailStep(e) == Commit(e) \/ Outcome(e) \/ ReadAgenc(e) \/ WriteAgenc(e) \/ Digest(e)
               \/ UpdateReceipt(e)
Batching(p) == \/ SelectAndBuild(p) \/ Anchor(p) \/ InsertBatch(p)
               \/ \E r \in Run : SetRunBatch(p, r)
               \/ ReleaseUnproven(p) \/ ReadBundle(p) \/ Upload(p)
Claim(p) == \E b \in Batch, S \in SUBSET Run : ClaimSlice(p, b, S)
Sweeping(p) == \/ \E B \in SUBSET Batch : ListMissing(p, B)
               \/ \E b \in Batch : SweepRead(p, b)
               \/ SweepUpload(p)
Signing(p) == PassSetBatch(p) \/ PassSetRuns(p)

Next ==
    \/ \E e \in Exec : (\E r \in Run : BeginTail(e, r)) \/ TailStep(e) \/ FailTail(e)
    \/ \E p \in Proc : \/ Claim(p) \/ Batching(p) \/ Sweeping(p)
                       \/ ListUnsigned(p)
                       \/ \E b \in Batch : PassAnchored(p, b) \/ PassUnanchored(p, b)
                       \/ Signing(p)
                       \/ Crash(p) \/ Boot(p) \/ FailBatcher(p) \/ FailPass(p)
    \/ \E b \in Batch : AgeBatch(b)

Spec == Init /\ [][Next]_vars

\* Processes run and are restarted; the timers of the batcher and of the
\* reconciler tick; a batch that is tried again and again is anchored at last,
\* within RECONCILE_WINDOW_MS.
Fairness ==
    /\ \A e \in Exec : WF_vars(TailStep(e))
    /\ \A p \in Proc : /\ WF_vars(Claim(p)) /\ WF_vars(Batching(p))
                       /\ WF_vars(Sweeping(p)) /\ WF_vars(Boot(p))
                       /\ WF_vars(ListUnsigned(p)) /\ WF_vars(Signing(p))
                       /\ \A b \in Batch : SF_vars(PassAnchored(p, b))

FairSpec == Spec /\ Fairness

-----------------------------------------------------------------------------
(* Properties.  A run whose tail ran once is one no double execution        *)
(* touched: attachReceipt has no guard, so a second tail replaces the hash  *)
(* under a proof that stays (the hazard at receipt.ts:241).                 *)

TailedOnce(r) == finals[r] <= 1

\* The public verification of a batched receipt succeeds: the proof a run
\* carries is a path in the tree of the batch it points to, it starts from the
\* recorded hash, and that hash is the digest of what the run holds.
ProofVerifies ==
    \A r \in Run : TailedOnce(r) /\ run[r].proof # None =>
        LET b == run[r].proof IN
        /\ run[r].batch = b /\ row[b].stored
        /\ run[r].leaf = run[r].hash /\ row[b].root[r] = run[r].hash
        /\ run[r].hash = run[r].data

\* A proof handed out stays good: no batcher, reconciler or recovery takes a
\* proven run out of its batch or proves it again elsewhere.
ProofStays ==
    [][\A r \in Run : run[r].proof # None =>
          run'[r].proof = run[r].proof /\ run'[r].batch = run[r].batch]_vars

\* The transaction a run shows is one whose memo carries the root of its own
\* batch, and the batch shows one too, whoever anchored it and how often.
SigMatchesBatch ==
    \A r \in Run : run[r].proof # None /\ run[r].sig # None =>
        run[r].sig = run[r].batch /\ row[run[r].batch].sig # None

\* "On success, backfill the batch's sig AND every run in it": once a batch is
\* anchored and nobody is writing it, its runs show the anchor, except in a
\* batch a pass signed while its batcher was still storing it, or half signed.
AnchorReachesRuns ==
    \A b \in Batch \ missed, r \in Run :
        (/\ row[b].sig # None /\ run[r].proof = b /\ TailedOnce(r)
         /\ ~Storing(b)
         /\ \A p \in Proc : ~(pass[p].pc = "runs" /\ pass[p].batch = b))
        => run[r].sig = b

\* What runs and batches show of the chain, together.
AnchorsAgree == SigMatchesBatch /\ AnchorReachesRuns

\* An archive, which can never be retracted, holds no leaf the anchored root
\* does not have.
ArchiveWithinRoot ==
    \A b \in Batch, r \in Run : TailedOnce(r) /\ row[b].archived =>
        row[b].bundle[r] \in {None, row[b].root[r]}

\* What is stored for a verifier, in the run's row or in the archive, is what was
\* anchored.
StoredFits == ProofVerifies /\ ArchiveWithinRoot

\* A batch that timed out, failed or lost its answer is anchored in the end.
BatchAnchored == \A b \in Batch : row[b].stored ~> row[b].sig # None

\* Every receipt gets its proof, except one in a batch that was dropped before
\* its proofs were written (its claim is released at a boot, if ever).
ReceiptBatched ==
    \A r \in Run : run[r].hash # None ~> \/ run[r].proof # None
                                         \/ run[r].batch \in dropped

=============================================================================
