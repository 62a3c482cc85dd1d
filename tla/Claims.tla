------------------------------- MODULE Claims -------------------------------
(***************************************************************************)
(* Paying creators.  claimEarnings (lib/earnings.ts) moves a creator's     *)
(* unclaimed earnings under a fresh claim, sends one transfer carrying the *)
(* claim's id as a memo (lib/payout.ts) and records its signature.  A      *)
(* request that dies or loses the confirmation leaves the claim pending;   *)
(* reconcilePendingClaims (lib/reconcile.ts) later scans the treasury's    *)
(* history and settles the claim or gives the earnings back.               *)
(*                                                                         *)
(* Amounts are abstracted to the set of earnings they add up.  The chain   *)
(* is external: a transfer that was sent lands or lapses.  Time is reduced *)
(* to whether a claim is older than SETTLE_GRACE_MS.                       *)
(***************************************************************************)
EXTENDS FiniteSets, Naturals

CONSTANTS
    Earning, Owner,
    EarnedBy,      \* earning -> creator
    Claim,         \* claim ids
    NoClaim,       \* claim_id NULL
    Request,       \* slots for concurrent calls of claimEarnings
    Proc, Host,    \* server processes, and the process of each request
    Prompt,        \* TRUE: SETTLE_GRACE_MS outlasts a claim's preparation,
                   \* broadcast and blockhash
    AutoRollback,  \* AEMULUS_CLAIM_AUTO_ROLLBACK
    MaxCrashes,    \* bound of the model on process crashes
    MaxFaults      \* bound of the model on failed database or RPC calls

ASSUME EarningsAssumption == EarnedBy \in [Earning -> Owner]
ASSUME ClaimsAssumption == NoClaim \notin Claim
ASSUME SettingsAssumption ==
    /\ Host \in [Request -> Proc]
    /\ Prompt \in BOOLEAN /\ AutoRollback \in BOOLEAN
    /\ MaxCrashes \in Nat /\ MaxFaults \in Nat

VARIABLES
    accrued,     \* the rows of earnings
    claimOf,     \* earnings.claim_id
    claim,       \* the rows of claims, with the earnings in their amount
    transfer,    \* what became of each claim's transfer
    request,     \* the calls of claimEarnings under way
    reconciler,  \* each process's reconciliation pass
    old,         \* the claims older than SETTLE_GRACE_MS
    crashes, faults

vars == <<accrued, claimOf, claim, transfer, request, reconciler, old,
          crashes, faults>>

ClaimState == {"none", "pending", "settled", "deleted"}
ClaimRow == [state : ClaimState, amount : SUBSET Earning]
TransferState == {"none", "sent", "landed", "lapsed"}
RequestPC == {"idle", "claimed", "sending", "confirming", "settle", "unmark",
              "drop"}
Call == [pc : RequestPC, claim : Claim \cup {NoClaim}]
NoCall == [pc |-> "idle", claim |-> NoClaim]
Pass == [pc : {"idle", "scan", "apply"}, todo : SUBSET Claim,
         aged : SUBSET Claim, found : SUBSET Claim, absent : SUBSET Claim]
NoPass == [pc |-> "idle", todo |-> {}, aged |-> {}, found |-> {}, absent |-> {}]

TypeOK ==
    /\ accrued \subseteq Earning
    /\ claimOf \in [Earning -> Claim \cup {NoClaim}]
    /\ claim \in [Claim -> ClaimRow]
    /\ transfer \in [Claim -> TransferState]
    /\ request \in [Request -> Call]
    /\ \A q \in Request : request[q].pc # "idle" => request[q].claim \in Claim
    /\ reconciler \in [Proc -> Pass]
    /\ old \subseteq Claim
    /\ crashes \in Nat /\ faults \in Nat

Init ==
    /\ accrued = {}
    /\ claimOf = [x \in Earning |-> NoClaim]
    /\ claim = [c \in Claim |-> [state |-> "none", amount |-> {}]]
    /\ transfer = [c \in Claim |-> "none"]
    /\ request = [q \in Request |-> NoCall]
    /\ reconciler = [p \in Proc |-> NoPass]
    /\ old = {}
    /\ crashes = 0 /\ faults = 0

-----------------------------------------------------------------------------
(* Shared readings and writes.                                             *)

Unclaimed(o) == {x \in accrued : EarnedBy[x] = o /\ claimOf[x] = NoClaim}
Pending == {c \in Claim : claim[c].state = "pending"}   \* sig IS NULL
Landed == {c \in Claim : transfer[c] = "landed"}

\* UPDATE earnings SET claim_id = NULL WHERE claim_id = c
Unmark(c) == claimOf' = [x \in Earning |->
                            IF claimOf[x] = c THEN NoClaim ELSE claimOf[x]]

SetClaim(c, st) == claim' = [claim EXCEPT ![c].state = st]

Goto(q, pc) == request' = [request EXCEPT ![q].pc = pc]

\* The call returns or throws.
Leave(q) == request' = [request EXCEPT ![q] = NoCall]

-----------------------------------------------------------------------------
(* claimEarnings.                                                          *)

\* Outside this module: a completed run credits its creator (see RunQueue).
Accrue(x) ==
    /\ x \notin accrued
    /\ accrued' = accrued \cup {x}
    /\ UNCHANGED <<claimOf, claim, transfer, request, reconciler, old, crashes,
                   faults>>

\* One write batch marks every unclaimed earning of the owner and inserts the
\* claim row with their sum.
MarkAndInsert(q, o, c) ==
    /\ request[q].pc = "idle"
    /\ claim[c].state = "none"      \* a fresh id
    /\ claimOf' = [x \in Earning |-> IF x \in Unclaimed(o) THEN c ELSE claimOf[x]]
    /\ claim' = [claim EXCEPT ![c] = [state |-> "pending", amount |-> Unclaimed(o)]]
    /\ request' = [request EXCEPT ![q] = [pc |-> "claimed", claim |-> c]]
    /\ UNCHANGED <<accrued, transfer, reconciler, old, crashes, faults>>

\* Nothing was unclaimed: the empty claim is dropped and nothing is sent.
ReadAmount(q) ==
    LET c == request[q].claim IN
    /\ request[q].pc = "claimed"
    /\ Goto(q, IF claim[c].amount = {} THEN "drop" ELSE "sending")
    /\ UNCHANGED <<accrued, claimOf, claim, transfer, reconciler, old, crashes,
                   faults>>

\* sendPayout fails before the broadcast (PayoutPrepError) or is off (null).
PrepFails(q) ==
    /\ request[q].pc = "sending"
    /\ Goto(q, "unmark")
    /\ UNCHANGED <<accrued, claimOf, claim, transfer, reconciler, old, crashes,
                   faults>>

\* sendAndConfirmTransaction, with the claim's id in the memo.
Broadcast(q) ==
    LET c == request[q].claim IN
    /\ request[q].pc = "sending"
    /\ transfer' = [transfer EXCEPT ![c] = "sent"]
    /\ Goto(q, "confirming")
    /\ UNCHANGED <<accrued, claimOf, claim, reconciler, old, crashes, faults>>

Confirmed(q) ==
    /\ request[q].pc = "confirming"
    /\ transfer[request[q].claim] = "landed"
    /\ Goto(q, "settle")
    /\ UNCHANGED <<accrued, claimOf, claim, transfer, reconciler, old, crashes,
                   faults>>

\* Mutated form: a lost confirmation is taken for a failed payout.
RollbackUnconfirmed(q) == Goto(q, "unmark")

\* The transfer may have been broadcast: the claim is left pending.
LeavePending(q) == Leave(q)

ConfirmFails(q) ==
    /\ request[q].pc = "confirming"
    /\ LeavePending(q)
    /\ UNCHANGED <<accrued, claimOf, claim, transfer, reconciler, old, crashes,
                   faults>>

\* The last UPDATE of claimEarnings, which no sig IS NULL guards.
RecordSignature(q) ==
    LET c == request[q].claim IN
    /\ request[q].pc = "settle"
    /\ IF claim[c].state = "deleted" THEN UNCHANGED claim ELSE SetClaim(c, "settled")
    /\ Leave(q)
    /\ UNCHANGED <<accrued, claimOf, transfer, reconciler, old, crashes, faults>>

\* The roll back of claimEarnings is two statements, not a batch.
UnmarkEarnings(q) ==
    /\ request[q].pc = "unmark"
    /\ Unmark(request[q].claim)
    /\ Goto(q, "drop")
    /\ UNCHANGED <<accrued, claim, transfer, reconciler, old, crashes, faults>>

DropClaim(q) ==
    /\ request[q].pc = "drop"
    /\ SetClaim(request[q].claim, "deleted")
    /\ Leave(q)
    /\ UNCHANGED <<accrued, claimOf, transfer, reconciler, old, crashes, faults>>

-----------------------------------------------------------------------------
(* The chain and the clock.                                                *)

Land(c) ==
    /\ transfer[c] = "sent"
    /\ transfer' = [transfer EXCEPT ![c] = "landed"]
    /\ UNCHANGED <<accrued, claimOf, claim, request, reconciler, old, crashes,
                   faults>>

\* It fails, or its blockhash expires.
Lapse(c) ==
    /\ transfer[c] = "sent"
    /\ transfer' = [transfer EXCEPT ![c] = "lapsed"]
    /\ UNCHANGED <<accrued, claimOf, claim, request, reconciler, old, crashes,
                   faults>>

\* The request that will send the transfer of c has not sent it yet.
Unsent(c) == \E q \in Request : request[q].claim = c
                                /\ request[q].pc \in {"claimed", "sending"}

\* SETTLE_GRACE_MS runs from the claim's creation, not from its broadcast.
Age(c) ==
    /\ c \in Pending \ old
    /\ Prompt => transfer[c] # "sent" /\ ~Unsent(c)
    /\ old' = old \cup {c}
    /\ UNCHANGED <<accrued, claimOf, claim, transfer, request, reconciler,
                   crashes, faults>>

-----------------------------------------------------------------------------
(* reconcilePendingClaims, one pass at a time in each process.             *)

\* Mutated form: no grace period.
AnyAge(C) == C

\* The claims of the pass that are past their grace when it reads the clock.
OldEnough(C) == C \cap old

ListPending(p) ==
    /\ reconciler[p].pc = "idle"
    /\ Pending # {}
    /\ reconciler' = [reconciler EXCEPT ![p] =
          [NoPass EXCEPT !.pc = "scan", !.todo = Pending,
                         !.aged = OldEnough(Pending)]]
    /\ UNCHANGED <<accrued, claimOf, claim, transfer, request, old, crashes,
                   faults>>

\* Mutated form: a transaction that failed on chain counts as a payout.
AnyTransaction == {c \in Claim : transfer[c] \in {"landed", "lapsed"}}

\* The claims whose memo is in the treasury's history, failed ones skipped.
OnChain == Landed

\* Mutated form: the coverage comparison is the wrong way round.
AbsentUncovered(aged, covered, found) == aged \ (covered \cup found)

\* Not found, too old to land any more, and the scan reached back before it.
ConfirmedAbsent(aged, covered, found) == (aged \cap covered) \ found

\* findClaimPayouts: a bounded scan back from now.  It sees every payout of a
\* claim it reaches back to (covered) and perhaps some of the others.
ScanHistory(p, covered, found) ==
    LET todo == reconciler[p].todo
        absent == ConfirmedAbsent(reconciler[p].aged, covered, found) IN
    /\ reconciler[p].pc = "scan"
    /\ covered \subseteq todo
    /\ OnChain \cap covered \subseteq found /\ found \subseteq OnChain \cap todo
    /\ reconciler' = [reconciler EXCEPT ![p] = [pc |-> "apply", todo |-> todo,
                          aged |-> {}, found |-> found, absent |-> absent]]
    /\ UNCHANGED <<accrued, claimOf, claim, transfer, request, old, crashes,
                   faults>>

\* Mutated form: the guard on sig is inverted.
SettleUnlessPending(c) ==
    /\ IF claim[c].state = "settled" THEN SetClaim(c, "settled") ELSE UNCHANGED claim
    /\ UNCHANGED claimOf

\* settleClaim, guarded on sig IS NULL.
SettleClaim(c) ==
    /\ IF c \in Pending THEN SetClaim(c, "settled") ELSE UNCHANGED claim
    /\ UNCHANGED claimOf

\* Mutated form: the claim's row goes, its earnings stay marked.
RollbackRowOnly(c) ==
    /\ IF c \in Pending THEN SetClaim(c, "deleted") ELSE UNCHANGED claim
    /\ UNCHANGED claimOf

\* rollbackClaim: one batch, both statements guarded on sig IS NULL.
RollbackClaim(c) ==
    /\ IF claim[c].state # "settled" THEN Unmark(c) ELSE UNCHANGED claimOf
    /\ IF c \in Pending THEN SetClaim(c, "deleted") ELSE UNCHANGED claim

\* One iteration of the loop over the pending claims.
ReconcileClaim(p, c) ==
    LET left == reconciler[p].todo \ {c} IN
    /\ reconciler[p].pc = "apply" /\ c \in reconciler[p].todo
    /\ \/ c \in reconciler[p].found /\ SettleClaim(c)
       \/ /\ c \notin reconciler[p].found
          /\ IF c \in reconciler[p].absent /\ AutoRollback
             THEN RollbackClaim(c) ELSE UNCHANGED <<claim, claimOf>>
    /\ reconciler' = [reconciler EXCEPT ![p] =
          IF left = {} THEN NoPass ELSE [@ EXCEPT !.todo = left]]
    /\ UNCHANGED <<accrued, transfer, request, old, crashes, faults>>

-----------------------------------------------------------------------------
(* What goes wrong.                                                        *)

\* The call of the current step throws: the request answers 500 and leaves
\* whatever it had written.
RequestFault(q) ==
    /\ faults < MaxFaults
    /\ faults' = faults + 1
    /\ request[q].pc \in {"claimed", "settle", "unmark", "drop"}
    /\ Leave(q)
    /\ UNCHANGED <<accrued, claimOf, claim, transfer, reconciler, old, crashes>>

\* The scan or a write throws: the pass ends, the next tick starts another.
PassFault(p) ==
    /\ faults < MaxFaults
    /\ faults' = faults + 1
    /\ reconciler[p].pc # "idle"
    /\ reconciler' = [reconciler EXCEPT ![p] = NoPass]
    /\ UNCHANGED <<accrued, claimOf, claim, transfer, request, old, crashes>>

Crash(p) ==
    /\ crashes < MaxCrashes
    /\ crashes' = crashes + 1
    /\ request' = [q \in Request |-> IF Host[q] = p THEN NoCall ELSE request[q]]
    /\ reconciler' = [reconciler EXCEPT ![p] = NoPass]
    /\ UNCHANGED <<accrued, claimOf, claim, transfer, old, faults>>

-----------------------------------------------------------------------------
\* The steps of a request that is under way.
Work(q) ==
    \/ ReadAmount(q) \/ PrepFails(q) \/ Broadcast(q) \/ Confirmed(q)
    \/ ConfirmFails(q) \/ RecordSignature(q) \/ UnmarkEarnings(q) \/ DropClaim(q)

Next ==
    \/ \E x \in Earning : Accrue(x)
    \/ \E q \in Request, o \in Owner, c \in Claim : MarkAndInsert(q, o, c)
    \/ \E q \in Request : Work(q) \/ RequestFault(q)
    \/ \E c \in Claim : Land(c) \/ Lapse(c) \/ Age(c)
    \/ \E p \in Proc : ListPending(p) \/ PassFault(p) \/ Crash(p)
    \/ \E p \in Proc, C \in SUBSET Claim, F \in SUBSET Claim : ScanHistory(p, C, F)
    \/ \E p \in Proc, c \in Claim : ReconcileClaim(p, c)

Spec == Init /\ [][Next]_vars

\* Requests, the chain, the clock and the reconciler keep going; every so
\* often a scan reaches back to all the claims of its pass.
Fairness ==
    /\ \A q \in Request : WF_vars(Work(q))
    /\ \A c \in Claim : WF_vars(Land(c) \/ Lapse(c)) /\ WF_vars(Age(c))
    /\ \A p \in Proc :
          /\ WF_vars(ListPending(p))
          /\ SF_vars(ScanHistory(p, reconciler[p].todo,
                                 OnChain \cap reconciler[p].todo))
          /\ \A c \in Claim : WF_vars(ReconcileClaim(p, c))

FairSpec == Spec /\ Fairness

-----------------------------------------------------------------------------
(* What the ledger promises: see PayoutContract.                           *)

Contract == INSTANCE PayoutContract WITH
    earned <- accrued,
    transfers <- {[id |-> c, for |-> claim[c].amount] : c \in Landed}

\* Requests, lost confirmations, reconciliation and roll backs implement the
\* contract: no earning is ever paid by two transfers, nor to another creator.
ImplementsContract == Contract!Spec

-----------------------------------------------------------------------------
(* Properties.                                                             *)

\* What a transfer has paid stays under the claim that paid it, so it can
\* never be claimed, and paid, a second time.
PaidStaysClaimed ==
    \A c \in Landed : \A x \in claim[c].amount : claimOf[x] = c

\* A claim is recorded as paid only if its transfer landed.
SettledMeansPaid ==
    \A c \in Claim : claim[c].state = "settled" => transfer[c] = "landed"

\* An earning that is not claimable is in the amount of a claim that still
\* exists, where the reconciler or an operator can find it: no crash between
\* two writes strands it ("silently lost", earnings.ts).
NothingStranded ==
    \A x \in Earning : claimOf[x] # NoClaim =>
        /\ claim[claimOf[x]].state \in {"pending", "settled"}
        /\ x \in claim[claimOf[x]].amount

\* Earnings become claimable again only when no transfer that pays them has
\* landed or still may.
ReclaimOnlyUnpaid ==
    [][\A x \in Earning :
          claimOf[x] # NoClaim /\ claimOf'[x] # claimOf[x] =>
              transfer[claimOf[x]] \notin {"sent", "landed"}]_vars

\* No earning is paid twice.
NoDoublePay ==
    \A c1, c2 \in Landed : claim[c1].amount \cap claim[c2].amount # {} => c1 = c2

\* Where the earnings are, together: under the claim that paid them, or under one
\* that can be found, and paid at most once.
EarningsAccounted ==
    PaidStaysClaimed /\ SettledMeansPaid /\ NothingStranded /\ NoDoublePay

\* The transfer of c is on its way, has landed, or is still to be sent.
Payable(c) == transfer[c] \in {"sent", "landed"} \/ Unsent(c)

\* Why PaidStaysClaimed holds: while a payout can land, and ever after it has,
\* its claim exists and holds its earnings.
PayableHeld ==
    \A c \in Claim : Payable(c) =>
        /\ claim[c].state \in {"pending", "settled"}
        /\ \A x \in claim[c].amount : claimOf[x] = c

\* What a call of claimEarnings knows at each of its steps.
RequestOK(q) ==
    LET c == request[q].claim
        pc == request[q].pc IN
    /\ pc # "idle" => claim[c].state # "none"
    /\ pc \in {"claimed", "sending", "unmark", "drop"} => transfer[c] = "none"
    /\ pc = "settle" => transfer[c] = "landed"
    /\ pc = "drop" => \A x \in Earning : claimOf[x] # c

OneRequestPerClaim ==
    \A r, q \in Request : request[r].pc # "idle" /\ request[q].pc # "idle"
                             /\ request[r].claim = request[q].claim => r = q

\* A claim past its grace has no transfer under way or to come; what a pass
\* found has landed, and what it holds to be absent never will.
GraceOK ==
    /\ \A c \in old : transfer[c] # "sent" /\ ~Unsent(c) /\ claim[c].state # "none"
    /\ \A p \in Proc :
          /\ reconciler[p].aged \subseteq old
          /\ reconciler[p].found \subseteq Landed
          /\ reconciler[p].absent \subseteq old \ Landed

\* A claim pays one creator; an id not in use has no transfer.
ClaimsOK ==
    \A c \in Claim :
        IF claim[c].state = "none" THEN transfer[c] = "none"
        ELSE \E o \in Owner : claim[c].amount \subseteq
                                 {x \in accrued : EarnedBy[x] = o}

\* The inductive invariant.
IInv == /\ TypeOK /\ PayableHeld /\ NothingStranded /\ SettledMeansPaid
        /\ OneRequestPerClaim /\ GraceOK /\ ClaimsOK
        /\ \A q \in Request : RequestOK(q)

\* A transfer that landed is recorded in the end, however its request ended.
LandedIsRecorded ==
    \A c \in Claim : transfer[c] = "landed" ~> claim[c].state = "settled"

\* No claim stays pending for ever once roll backs are automatic.
PendingResolves ==
    \A c \in Claim : claim[c].state = "pending" ~> claim[c].state # "pending"

=============================================================================
