---------------------------- MODULE ClaimsProofs ----------------------------
(***************************************************************************)
(* Theorems about Claims for every set of earnings, creators, claims,      *)
(* requests and processes.  Those about money assume Prompt: see README.   *)
(***************************************************************************)
EXTENDS Claims, TLAPS

-----------------------------------------------------------------------------
(* Type correctness.                                                       *)

LEMMA InitType == Init => TypeOK
BY DEF Init, TypeOK, ClaimRow, ClaimState, TransferState, Call, RequestPC,
       NoCall, Pass, NoPass

\* The ways requests and claims are written.
LEMMA GotoType ==
  ASSUME TypeOK, NEW q \in Request, request[q].pc # "idle",
         NEW pc \in RequestPC, Goto(q, pc)
  PROVE  /\ request' \in [Request -> Call]
         /\ \A r \in Request : request'[r].pc # "idle" => request'[r].claim \in Claim
BY DEF TypeOK, Goto, Call

LEMMA LeaveType ==
  ASSUME TypeOK, NEW q \in Request, Leave(q)
  PROVE  /\ request' \in [Request -> Call]
         /\ \A r \in Request : request'[r].pc # "idle" => request'[r].claim \in Claim
BY DEF TypeOK, Leave, Call, NoCall, RequestPC

LEMMA SetClaimType ==
  ASSUME TypeOK, NEW c \in Claim, NEW st \in ClaimState, SetClaim(c, st)
  PROVE  claim' \in [Claim -> ClaimRow]
BY DEF TypeOK, SetClaim, ClaimRow

LEMMA UnmarkType ==
  ASSUME TypeOK, NEW c \in Claim, Unmark(c)
  PROVE  claimOf' \in [Earning -> Claim \cup {NoClaim}]
BY DEF TypeOK, Unmark

\* Every variable keeps its type.
LEMMA StepType == TypeOK /\ [Next]_vars => TypeOK'
<1> SUFFICES ASSUME TypeOK, [Next]_vars PROVE TypeOK'
  OBVIOUS
<1>1. ASSUME NEW x \in Earning, Accrue(x) PROVE TypeOK'
  BY <1>1 DEF Accrue, TypeOK
<1>2. ASSUME NEW q \in Request, NEW o \in Owner, NEW c \in Claim,
             MarkAndInsert(q, o, c)
      PROVE  TypeOK'
  <2>1. Unclaimed(o) \subseteq Earning
    BY DEF Unclaimed, TypeOK
  <2>2. claimOf' \in [Earning -> Claim \cup {NoClaim}]
    BY <1>2 DEF MarkAndInsert, TypeOK
  <2>3. claim' \in [Claim -> ClaimRow]
    BY <1>2, <2>1 DEF MarkAndInsert, TypeOK, ClaimRow, ClaimState
  <2>4. /\ request' \in [Request -> Call]
        /\ \A r \in Request : request'[r].pc # "idle" => request'[r].claim \in Claim
    BY <1>2 DEF MarkAndInsert, TypeOK, Call, RequestPC
  <2> QED
    BY <1>2, <2>2, <2>3, <2>4 DEF MarkAndInsert, TypeOK
<1>3. ASSUME NEW q \in Request, Work(q) PROVE TypeOK'
  <2>1. CASE ReadAmount(q) \/ PrepFails(q) \/ Confirmed(q) \/ ConfirmFails(q)
    BY <2>1, GotoType, LeaveType
       DEF ReadAmount, PrepFails, Confirmed, ConfirmFails, LeavePending, TypeOK,
           RequestPC
  <2>2. CASE Broadcast(q)
    BY <2>2, GotoType DEF Broadcast, TypeOK, RequestPC, TransferState
  <2>3. CASE RecordSignature(q) \/ DropClaim(q)
    <3>1. request[q].claim \in Claim
      BY <2>3 DEF RecordSignature, DropClaim, TypeOK
    <3>2. claim' \in [Claim -> ClaimRow]
      BY <2>3, <3>1, SetClaimType
         DEF RecordSignature, DropClaim, TypeOK, ClaimState
    <3> QED
      BY <2>3, <3>2, LeaveType DEF RecordSignature, DropClaim, TypeOK
  <2>4. CASE UnmarkEarnings(q)
    BY <2>4, UnmarkType, GotoType DEF UnmarkEarnings, TypeOK, RequestPC
  <2> QED
    BY <1>3, <2>1, <2>2, <2>3, <2>4 DEF Work
<1>4. ASSUME NEW c \in Claim, Land(c) \/ Lapse(c) \/ Age(c) PROVE TypeOK'
  BY <1>4 DEF Land, Lapse, Age, Pending, TypeOK, TransferState
<1>5. ASSUME NEW p \in Proc, ListPending(p) \/ PassFault(p) PROVE TypeOK'
  <2>1. CASE ListPending(p)
    <3>1. [NoPass EXCEPT !.pc = "scan", !.todo = Pending,
                         !.aged = OldEnough(Pending)] \in Pass
      BY DEF OldEnough, Pending, Pass, NoPass
    <3> QED
      BY <2>1, <3>1 DEF ListPending, TypeOK
  <2>2. CASE PassFault(p)
    BY <2>2 DEF PassFault, TypeOK, Pass, NoPass
  <2> QED
    BY <1>5, <2>1, <2>2
<1>6. ASSUME NEW p \in Proc, NEW C \in SUBSET Claim, NEW F \in SUBSET Claim,
             ScanHistory(p, C, F)
      PROVE  TypeOK'
  BY <1>6 DEF ScanHistory, ConfirmedAbsent, TypeOK, Pass
<1>7. ASSUME NEW p \in Proc, NEW c \in Claim, ReconcileClaim(p, c)
      PROVE  TypeOK'
  <2>1. claim' \in [Claim -> ClaimRow]
    BY <1>7, SetClaimType
       DEF ReconcileClaim, SettleClaim, RollbackClaim, TypeOK, ClaimState
  <2>2. claimOf' \in [Earning -> Claim \cup {NoClaim}]
    BY <1>7, UnmarkType DEF ReconcileClaim, SettleClaim, RollbackClaim, TypeOK
  <2>3. reconciler' \in [Proc -> Pass]
    BY <1>7 DEF ReconcileClaim, TypeOK, Pass, NoPass
  <2> QED
    BY <1>7, <2>1, <2>2, <2>3 DEF ReconcileClaim, TypeOK
<1>8. ASSUME NEW q \in Request, RequestFault(q) PROVE TypeOK'
  BY <1>8, LeaveType DEF RequestFault, TypeOK
<1>9. ASSUME NEW p \in Proc, Crash(p) PROVE TypeOK'
  BY <1>9 DEF Crash, TypeOK, Call, NoCall, RequestPC, Pass, NoPass
<1>10. CASE UNCHANGED vars
  BY <1>10 DEF vars, TypeOK
<1> QED
  BY <1>1, <1>2, <1>3, <1>4, <1>5, <1>6, <1>7, <1>8, <1>9, <1>10 DEF Next

\* The variables keep their types.
THEOREM Typing == Spec => []TypeOK
BY InitType, StepType, PTL DEF Spec

-----------------------------------------------------------------------------
(* The inductive invariant.                                                *)

\* The ledger and the chain stay as they are, and no transfer is newly to be
\* sent.
Quiet ==
    /\ UNCHANGED <<claimOf, claim, transfer>>
    /\ \A c \in Claim : Unsent(c)' => Unsent(c)

LEMMA StepCases ==
  ASSUME TypeOK, [Next]_vars
  PROVE  \/ Quiet
         \/ \E q \in Request, o \in Owner, c \in Claim : MarkAndInsert(q, o, c)
         \/ \E q \in Request : \/ Broadcast(q) \/ RecordSignature(q)
                               \/ UnmarkEarnings(q) \/ DropClaim(q)
         \/ \E c \in Claim : Land(c) \/ Lapse(c)
         \/ \E p \in Proc, c \in Claim : ReconcileClaim(p, c)
<1>1. ASSUME NEW q \in Request, Leave(q), UNCHANGED <<claimOf, claim, transfer>>
      PROVE  Quiet
  BY <1>1 DEF Quiet, Leave, Unsent, NoCall, TypeOK
<1>2. ASSUME NEW q \in Request, NEW pc, Goto(q, pc),
             pc \in {"claimed", "sending"} => request[q].pc \in {"claimed", "sending"},
             UNCHANGED <<claimOf, claim, transfer>>
      PROVE  Quiet
  BY <1>2 DEF Quiet, Goto, Unsent, TypeOK
<1>3. ASSUME UNCHANGED <<claimOf, claim, transfer, request>> PROVE Quiet
  BY <1>3 DEF Quiet, Unsent
<1>4. ASSUME NEW q \in Request,
             \/ ReadAmount(q) \/ PrepFails(q) \/ Confirmed(q) \/ ConfirmFails(q)
             \/ RequestFault(q)
      PROVE  Quiet
  BY <1>1, <1>2, <1>4
     DEF ReadAmount, PrepFails, Confirmed, ConfirmFails, LeavePending, RequestFault
<1>5. ASSUME NEW p \in Proc, Crash(p) PROVE Quiet
  BY <1>5 DEF Crash, Quiet, Unsent, NoCall
<1> QED
  BY <1>3, <1>4, <1>5
     DEF Next, Work, vars, Accrue, Age, ListPending, PassFault, ScanHistory

\* While a transfer can land, its claim exists and holds its earnings.
LEMMA HeldStep == ASSUME IInv, [Next]_vars PROVE PayableHeld'
<1> USE DEF IInv, Payable
<1>1. CASE Quiet
  BY <1>1 DEF Quiet, PayableHeld
<1>2. ASSUME NEW q \in Request, NEW o \in Owner, NEW d \in Claim,
             MarkAndInsert(q, o, d)
      PROVE  PayableHeld'
  <2> SUFFICES ASSUME NEW c \in Claim, Payable(c)'
               PROVE  /\ claim'[c].state \in {"pending", "settled"}
                      /\ \A x \in claim'[c].amount : claimOf'[x] = c
    BY DEF PayableHeld
  <2>1. Unclaimed(o) \subseteq Earning
    BY DEF Unclaimed, TypeOK
  <2>2. CASE c = d
    BY <1>2, <2>1, <2>2 DEF MarkAndInsert, TypeOK
  <2>3. CASE c # d
    <3>1. Payable(c)
      BY <1>2, <2>3 DEF MarkAndInsert, Unsent, TypeOK
    <3>2. claim'[c] = claim[c]
      BY <1>2, <2>3 DEF MarkAndInsert, TypeOK
    <3>3. \A x \in claim[c].amount : x \in Earning /\ claimOf[x] = c
      BY <3>1 DEF PayableHeld, TypeOK, ClaimRow
    <3> QED
      BY <1>2, <3>1, <3>2, <3>3, ClaimsAssumption
         DEF MarkAndInsert, Unclaimed, PayableHeld, TypeOK
  <2> QED
    BY <2>2, <2>3
<1>3. ASSUME NEW q \in Request, Broadcast(q) PROVE PayableHeld'
  <2>1. \A c \in Claim : Payable(c)' => Payable(c)
    BY <1>3 DEF Broadcast, Goto, Unsent, TypeOK
  <2> QED
    BY <1>3, <2>1 DEF Broadcast, PayableHeld
<1>4. ASSUME NEW q \in Request, RecordSignature(q) PROVE PayableHeld'
  <2>1. \A c \in Claim : Payable(c)' => Payable(c)
    BY <1>4 DEF RecordSignature, Leave, NoCall, Unsent, TypeOK
  <2>2. \A c \in Claim : /\ claim'[c].amount = claim[c].amount
                         /\ claim[c].state \in {"pending", "settled"} =>
                               claim'[c].state \in {"pending", "settled"}
    BY <1>4 DEF RecordSignature, SetClaim, TypeOK, ClaimRow
  <2> QED
    BY <1>4, <2>1, <2>2 DEF RecordSignature, PayableHeld
<1>5. ASSUME NEW q \in Request, UnmarkEarnings(q) PROVE PayableHeld'
  <2>1. \A c \in Claim : Payable(c)' => Payable(c) /\ c # request[q].claim
    BY <1>5 DEF UnmarkEarnings, Goto, Unsent, RequestOK, OneRequestPerClaim, TypeOK
  <2>2. \A c \in Claim : \A x \in claim[c].amount : x \in Earning
    BY DEF TypeOK, ClaimRow
  <2> QED
    BY <1>5, <2>1, <2>2 DEF UnmarkEarnings, Unmark, PayableHeld
<1>6. ASSUME NEW q \in Request, DropClaim(q) PROVE PayableHeld'
  <2>1. \A c \in Claim : Payable(c)' => Payable(c) /\ c # request[q].claim
    BY <1>6 DEF DropClaim, Leave, NoCall, Unsent, RequestOK, OneRequestPerClaim,
                TypeOK
  <2>2. \A c \in Claim : c # request[q].claim => claim'[c] = claim[c]
    BY <1>6 DEF DropClaim, SetClaim, TypeOK
  <2> QED
    BY <1>6, <2>1, <2>2 DEF DropClaim, PayableHeld
<1>7. ASSUME NEW d \in Claim, Land(d) \/ Lapse(d) PROVE PayableHeld'
  <2>1. \A c \in Claim : Payable(c)' => Payable(c)
    BY <1>7 DEF Land, Lapse, Unsent, TypeOK
  <2> QED
    BY <1>7, <2>1 DEF Land, Lapse, PayableHeld
<1>8. ASSUME NEW p \in Proc, NEW d \in Claim, ReconcileClaim(p, d)
      PROVE  PayableHeld'
  <2>1. \A c \in Claim : Payable(c)' => Payable(c)
    BY <1>8 DEF ReconcileClaim, Unsent
  <2>2. CASE SettleClaim(d)
    <3>1. \A c \in Claim : /\ claim'[c].amount = claim[c].amount
                           /\ claim[c].state \in {"pending", "settled"} =>
                                 claim'[c].state \in {"pending", "settled"}
      BY <2>2 DEF SettleClaim, SetClaim, TypeOK, ClaimRow
    <3> QED
      BY <2>1, <2>2, <3>1 DEF SettleClaim, PayableHeld
  <2>3. CASE d \in reconciler[p].absent /\ RollbackClaim(d)
    <3>1. ~Payable(d)
      BY <2>3 DEF GraceOK, Landed
    <3>2. \A c \in Claim : c # d => claim'[c] = claim[c]
      BY <2>3 DEF RollbackClaim, SetClaim, TypeOK
    <3>3. \A c \in Claim : \A x \in claim[c].amount : x \in Earning
      BY DEF TypeOK, ClaimRow
    <3> QED
      BY <2>1, <2>3, <3>1, <3>2, <3>3 DEF RollbackClaim, Unmark, PayableHeld
  <2>4. CASE UNCHANGED <<claim, claimOf>>
    BY <2>1, <2>4 DEF PayableHeld
  <2> QED
    BY <1>8, <2>2, <2>3, <2>4 DEF ReconcileClaim
<1> QED
  BY <1>1, <1>2, <1>3, <1>4, <1>5, <1>6, <1>7, <1>8, StepCases

\* A claimed earning is in the amount of a claim that exists.
LEMMA StrandedStep == ASSUME IInv, [Next]_vars PROVE NothingStranded'
<1> USE DEF IInv
<1> DEFINE Kept(c) == /\ claim'[c].amount = claim[c].amount
                      /\ claim[c].state \in {"pending", "settled"} =>
                            claim'[c].state \in {"pending", "settled"}
<1>1. ASSUME UNCHANGED claimOf, \A c \in Claim : Kept(c) PROVE NothingStranded'
  BY <1>1 DEF NothingStranded, TypeOK
<1>2. CASE Quiet
  BY <1>2 DEF Quiet, NothingStranded
<1>3. ASSUME NEW q \in Request, NEW o \in Owner, NEW d \in Claim,
             MarkAndInsert(q, o, d)
      PROVE  NothingStranded'
  <2> SUFFICES ASSUME NEW x \in Earning, claimOf'[x] # NoClaim
               PROVE  /\ claim'[claimOf'[x]].state \in {"pending", "settled"}
                      /\ x \in claim'[claimOf'[x]].amount
    BY DEF NothingStranded
  <2>1. CASE x \in Unclaimed(o)
    BY <1>3, <2>1 DEF MarkAndInsert, TypeOK
  <2>2. CASE x \notin Unclaimed(o)
    <3>1. claimOf'[x] = claimOf[x] /\ claimOf[x] \in Claim
      BY <1>3, <2>2 DEF MarkAndInsert, TypeOK
    <3>2. claimOf[x] # d
      BY <1>3, <3>1 DEF MarkAndInsert, NothingStranded
    <3> QED
      BY <1>3, <3>1, <3>2 DEF MarkAndInsert, NothingStranded, TypeOK
  <2> QED
    BY <2>1, <2>2
<1>4. ASSUME NEW q \in Request, Broadcast(q) \/ RecordSignature(q)
      PROVE  NothingStranded'
  <2>1. \A c \in Claim : Kept(c)
    BY <1>4 DEF Broadcast, RecordSignature, SetClaim, TypeOK, ClaimRow
  <2> QED
    BY <1>1, <1>4, <2>1 DEF Broadcast, RecordSignature
<1>5. ASSUME NEW q \in Request, UnmarkEarnings(q) PROVE NothingStranded'
  BY <1>5 DEF UnmarkEarnings, Unmark, NothingStranded, TypeOK
<1>6. ASSUME NEW q \in Request, DropClaim(q) PROVE NothingStranded'
  <2>1. \A x \in Earning : claimOf[x] # request[q].claim
    BY <1>6 DEF DropClaim, RequestOK
  <2>2. \A c \in Claim : c # request[q].claim => claim'[c] = claim[c]
    BY <1>6 DEF DropClaim, SetClaim, TypeOK
  <2> QED
    BY <1>6, <2>1, <2>2 DEF DropClaim, NothingStranded, TypeOK
<1>7. ASSUME NEW d \in Claim, Land(d) \/ Lapse(d) PROVE NothingStranded'
  BY <1>7 DEF Land, Lapse, NothingStranded
<1>8. ASSUME NEW p \in Proc, NEW d \in Claim, ReconcileClaim(p, d)
      PROVE  NothingStranded'
  <2>1. CASE SettleClaim(d)
    <3>1. \A c \in Claim : Kept(c)
      BY <2>1 DEF SettleClaim, SetClaim, TypeOK, ClaimRow
    <3> QED
      BY <1>1, <2>1, <3>1 DEF SettleClaim
  <2>2. CASE d \in reconciler[p].absent /\ RollbackClaim(d)
    <3>1. claim[d].state # "settled"
      BY <2>2 DEF GraceOK, Landed, SettledMeansPaid
    <3>2. \A c \in Claim : c # d => claim'[c] = claim[c]
      BY <2>2 DEF RollbackClaim, SetClaim, TypeOK
    <3> QED
      BY <2>2, <3>1, <3>2 DEF RollbackClaim, Unmark, NothingStranded, TypeOK
  <2>3. CASE UNCHANGED <<claim, claimOf>>
    BY <2>3 DEF NothingStranded
  <2> QED
    BY <1>8, <2>1, <2>2, <2>3 DEF ReconcileClaim
<1> QED
  BY <1>2, <1>3, <1>4, <1>5, <1>6, <1>7, <1>8, StepCases

\* What has landed stays landed, what is over without landing stays so.
LEMMA TransferSteps ==
  ASSUME IInv, [Next]_vars, NEW c \in Claim
  PROVE  /\ transfer[c] = "landed" => transfer'[c] = "landed"
         /\ transfer'[c] \in {"sent", "landed"} => Payable(c)
         /\ transfer[c] # "none" => transfer'[c] # "none"
<1> USE DEF IInv, TypeOK, Payable
<1>1. ASSUME NEW q \in Request, Broadcast(q)
      PROVE  /\ c # request[q].claim => transfer'[c] = transfer[c]
             /\ c = request[q].claim => transfer[c] = "none" /\ Unsent(c)
  BY <1>1 DEF Broadcast, Unsent, RequestOK
<1>2. ASSUME NEW d \in Claim, Land(d) \/ Lapse(d)
      PROVE  /\ transfer'[c] = transfer[c] \/ transfer[c] = "sent"
             /\ transfer[c] # "none" => transfer'[c] # "none"
  BY <1>2 DEF Land, Lapse
<1>3. CASE UNCHANGED transfer
  BY <1>3
<1>4. ASSUME NEW q \in Request, Broadcast(q)
      PROVE  /\ transfer[c] = "landed" => transfer'[c] = "landed"
             /\ transfer'[c] \in {"sent", "landed"} => Payable(c)
             /\ transfer[c] # "none" => transfer'[c] # "none"
  BY <1>1, <1>4
<1> QED
  BY <1>2, <1>3, <1>4, StepCases
     DEF Quiet, MarkAndInsert, RecordSignature, UnmarkEarnings, DropClaim,
         ReconcileClaim

\* A settled claim was paid.
LEMMA SettledStep == ASSUME IInv, [Next]_vars PROVE SettledMeansPaid'
<1> USE DEF IInv
<1> SUFFICES ASSUME NEW c \in Claim, claim'[c].state = "settled"
             PROVE  transfer'[c] = "landed"
  BY DEF SettledMeansPaid
<1>1. SUFFICES claim[c].state = "settled" \/ transfer[c] = "landed"
  BY TransferSteps DEF SettledMeansPaid
<1>2. ASSUME NEW q \in Request, RecordSignature(q)
      PROVE  claim[c].state = "settled" \/ transfer[c] = "landed"
  BY <1>2 DEF RecordSignature, SetClaim, RequestOK, TypeOK
<1>3. ASSUME NEW p \in Proc, NEW d \in Claim, ReconcileClaim(p, d)
      PROVE  claim[c].state = "settled" \/ transfer[c] = "landed"
  <2>1. CASE d \in reconciler[p].found /\ SettleClaim(d)
    <3>1. transfer[d] = "landed"
      BY <2>1 DEF GraceOK, Landed
    <3>2. c # d => claim'[c] = claim[c]
      BY <2>1 DEF SettleClaim, SetClaim, TypeOK
    <3> QED
      BY <3>1, <3>2
  <2>2. CASE RollbackClaim(d)
    <3>1. claim' = claim \/ claim' = [claim EXCEPT ![d].state = "deleted"]
      BY <2>2 DEF RollbackClaim, SetClaim
    <3>2. claim'[c].state \in {claim[c].state, "deleted"}
      BY <3>1 DEF TypeOK, ClaimRow
    <3> QED
      BY <3>2
  <2> QED
    BY <1>3, <2>1, <2>2 DEF ReconcileClaim
<1>4. ASSUME NEW q \in Request, NEW o \in Owner, NEW d \in Claim,
             MarkAndInsert(q, o, d)
      PROVE  claim[c].state = "settled"
  BY <1>4 DEF MarkAndInsert, TypeOK
<1>5. ASSUME NEW q \in Request, DropClaim(q) PROVE claim[c].state = "settled"
  BY <1>5 DEF DropClaim, SetClaim, TypeOK
<1> QED
  BY <1>2, <1>3, <1>4, <1>5, StepCases
     DEF Quiet, Broadcast, UnmarkEarnings, Land, Lapse

\* Two requests never work on one claim.
LEMMA OneRequestStep == ASSUME IInv, [Next]_vars PROVE OneRequestPerClaim'
<1> USE DEF IInv, TypeOK
<1>1. ASSUME \A q \in Request : request'[q].pc # "idle" =>
                 request[q].pc # "idle" /\ request'[q].claim = request[q].claim
      PROVE  OneRequestPerClaim'
  BY <1>1 DEF OneRequestPerClaim
<1>2. ASSUME NEW q \in Request, Leave(q) PROVE OneRequestPerClaim'
  BY <1>1, <1>2 DEF Leave, NoCall
<1>3. ASSUME NEW q \in Request, NEW pc, Goto(q, pc), request[q].pc # "idle"
      PROVE  OneRequestPerClaim'
  BY <1>1, <1>3 DEF Goto
<1>4. ASSUME NEW q \in Request, Work(q) \/ RequestFault(q)
      PROVE  OneRequestPerClaim'
  BY <1>2, <1>3, <1>4
     DEF Work, RequestFault, ReadAmount, PrepFails, Broadcast, Confirmed,
         ConfirmFails, LeavePending, RecordSignature, UnmarkEarnings, DropClaim
<1>5. ASSUME NEW q \in Request, NEW o \in Owner, NEW c \in Claim,
             MarkAndInsert(q, o, c)
      PROVE  OneRequestPerClaim'
  <2>1. \A r \in Request : request[r].pc # "idle" => request[r].claim # c
    BY <1>5 DEF MarkAndInsert, RequestOK
  <2> QED
    BY <1>5, <2>1 DEF MarkAndInsert, OneRequestPerClaim
<1>6. ASSUME NEW p \in Proc, Crash(p) PROVE OneRequestPerClaim'
  BY <1>1, <1>6 DEF Crash, NoCall
<1>7. CASE UNCHANGED request
  BY <1>7 DEF OneRequestPerClaim
<1> QED
  BY <1>4, <1>5, <1>6, <1>7
     DEF Next, vars, Accrue, Land, Lapse, Age, ListPending, PassFault,
         ScanHistory, ReconcileClaim

\* A claim that is in use stays in use, and one that is not has no transfer.
LEMMA UsedSteps ==
  ASSUME IInv, [Next]_vars, NEW c \in Claim, claim[c].state # "none"
  PROVE  /\ claim'[c].state # "none"
         /\ claim'[c].amount = claim[c].amount
<1> USE DEF IInv, TypeOK
<1>1. ASSUME NEW d \in Claim, NEW st \in ClaimState \ {"none"}, SetClaim(d, st)
      PROVE  /\ claim'[c].state # "none"
             /\ claim'[c].amount = claim[c].amount
  BY <1>1 DEF SetClaim, ClaimRow
<1>2. ASSUME NEW q \in Request, NEW o \in Owner, NEW d \in Claim,
             MarkAndInsert(q, o, d)
      PROVE  claim'[c] = claim[c]
  BY <1>2 DEF MarkAndInsert
<1>3. CASE UNCHANGED claim
  BY <1>3
<1>4. ASSUME NEW q \in Request, RecordSignature(q) \/ DropClaim(q)
      PROVE  /\ claim'[c].state # "none"
             /\ claim'[c].amount = claim[c].amount
  BY <1>1, <1>3, <1>4 DEF RecordSignature, DropClaim, ClaimState
<1>5. ASSUME NEW p \in Proc, NEW d \in Claim, ReconcileClaim(p, d)
      PROVE  /\ claim'[c].state # "none"
             /\ claim'[c].amount = claim[c].amount
  BY <1>1, <1>3, <1>5 DEF ReconcileClaim, SettleClaim, RollbackClaim, ClaimState
<1> QED
  BY <1>2, <1>3, <1>4, <1>5, StepCases
     DEF Quiet, Broadcast, UnmarkEarnings, Land, Lapse

\* An earning that is under no claim or another's does not come under a claim
\* in use.
LEMMA MarkSteps ==
  ASSUME IInv, [Next]_vars, NEW c \in Claim, claim[c].state # "none",
         NEW x \in Earning, claimOf[x] # c
  PROVE  claimOf'[x] # c
<1> USE DEF IInv, TypeOK
<1>1. ASSUME NEW d \in Claim, Unmark(d) PROVE claimOf'[x] # c
  BY <1>1, ClaimsAssumption DEF Unmark
<1>2. ASSUME NEW q \in Request, NEW o \in Owner, NEW d \in Claim,
             MarkAndInsert(q, o, d)
      PROVE  claimOf'[x] # c
  BY <1>2 DEF MarkAndInsert
<1>3. CASE UNCHANGED claimOf
  BY <1>3
<1> QED
  BY <1>1, <1>2, <1>3, StepCases
     DEF Quiet, Broadcast, RecordSignature, UnmarkEarnings, DropClaim, Land,
         Lapse, ReconcileClaim, SettleClaim, RollbackClaim

\* Each request keeps what it knows.
LEMMA RequestStep ==
  ASSUME IInv, [Next]_vars, NEW r \in Request PROVE RequestOK(r)'
<1> USE DEF IInv, TypeOK
<1> DEFINE c == request[r].claim
\* Somebody else's step.
<1>1. ASSUME UNCHANGED request[r],
             request[r].pc \in {"claimed", "sending", "unmark", "drop"}
                 => transfer'[c] = transfer[c]
      PROVE  RequestOK(r)'
  <2>1. CASE request[r].pc = "idle"
    BY <1>1, <2>1 DEF RequestOK
  <2>2. CASE request[r].pc # "idle"
    BY <1>1, <2>2, UsedSteps, MarkSteps, TransferSteps DEF RequestOK
  <2> QED
    BY <2>1, <2>2
<1>2. ASSUME request'[r].pc = "idle" PROVE RequestOK(r)'
  BY <1>2 DEF RequestOK
<1>3. ASSUME NEW q \in Request, Broadcast(q) PROVE RequestOK(r)'
  <2>1. CASE q = r
    BY <1>3, <2>1 DEF Broadcast, Goto, RequestOK
  <2>2. CASE q # r
    BY <1>1, <1>3, <2>2 DEF Broadcast, Goto, OneRequestPerClaim
  <2> QED
    BY <2>1, <2>2
<1>4. ASSUME NEW q \in Request,
             ReadAmount(q) \/ PrepFails(q) \/ Confirmed(q) \/ UnmarkEarnings(q)
      PROVE  RequestOK(r)'
  <2>1. UNCHANGED transfer
    BY <1>4 DEF ReadAmount, PrepFails, Confirmed, UnmarkEarnings
  <2>2. CASE q # r
    BY <1>1, <1>4, <2>1, <2>2
       DEF ReadAmount, PrepFails, Confirmed, UnmarkEarnings, Goto
  <2>3. CASE q = r /\ ReadAmount(q)
    <3>1. claim[c].amount = {} => \A x \in Earning : claimOf[x] # c
      BY ClaimsAssumption, <2>3 DEF ReadAmount, NothingStranded
    <3> QED
      BY <2>3, <3>1 DEF ReadAmount, Goto, RequestOK
  <2>4. CASE q = r /\ (PrepFails(q) \/ Confirmed(q))
    <3>1. UNCHANGED <<claim, claimOf, transfer>> /\ request'[r].claim = c
          /\ request'[r].pc \in {"unmark", "settle"} /\ claim[c].state # "none"
      BY <2>4 DEF PrepFails, Confirmed, Goto, RequestOK, Call
    <3>2. CASE PrepFails(q)
      BY <2>4, <3>1, <3>2 DEF PrepFails, Goto, RequestOK
    <3>3. CASE Confirmed(q)
      BY <2>4, <3>1, <3>3 DEF Confirmed, Goto, RequestOK
    <3> QED
      BY <2>4, <3>2, <3>3
  <2>5. CASE q = r /\ UnmarkEarnings(q)
    BY <2>5, ClaimsAssumption DEF UnmarkEarnings, Unmark, Goto, RequestOK
  <2> QED
    BY <1>4, <2>2, <2>3, <2>4, <2>5
<1>5. ASSUME NEW q \in Request,
             \/ ConfirmFails(q) \/ RecordSignature(q) \/ DropClaim(q)
             \/ RequestFault(q)
      PROVE  RequestOK(r)'
  <2>1. Leave(q) /\ UNCHANGED transfer
    BY <1>5 DEF ConfirmFails, LeavePending, RecordSignature, DropClaim, RequestFault
  <2> QED
    BY <1>1, <1>2, <2>1 DEF Leave, NoCall
<1>6. ASSUME NEW q \in Request, NEW o \in Owner, NEW d \in Claim,
             MarkAndInsert(q, o, d)
      PROVE  RequestOK(r)'
  <2>1. CASE q # r
    BY <1>1, <1>6, <2>1 DEF MarkAndInsert
  <2>2. CASE q = r
    <3>1. request'[r] = [pc |-> "claimed", claim |-> d] /\ claim'[d].state = "pending"
      BY <1>6, <2>2 DEF MarkAndInsert
    <3>2. transfer'[d] = "none"
      BY <1>6 DEF MarkAndInsert, ClaimsOK
    <3> QED
      BY <3>1, <3>2 DEF RequestOK
  <2> QED
    BY <2>1, <2>2
<1>7. ASSUME NEW d \in Claim, Land(d) \/ Lapse(d) PROVE RequestOK(r)'
  <2>1. request[r].pc \in {"claimed", "sending", "unmark", "drop"}
            => transfer'[c] = transfer[c]
    BY <1>7 DEF Land, Lapse, RequestOK
  <2> QED
    BY <1>1, <1>7, <2>1 DEF Land, Lapse
<1>8. ASSUME NEW p \in Proc, Crash(p) PROVE RequestOK(r)'
  BY <1>1, <1>2, <1>8 DEF Crash, NoCall
<1>9. CASE UNCHANGED <<request, transfer>>
  BY <1>1, <1>9
<1> QED
  BY <1>3, <1>4, <1>5, <1>6, <1>7, <1>8, <1>9
     DEF Next, Work, vars, Accrue, Age, ListPending, PassFault, ScanHistory,
         ReconcileClaim

\* A claim past its grace is past being paid, and stays so.
LEMMA UnsentSteps ==
  ASSUME IInv, [Next]_vars, NEW c \in Claim, claim[c].state # "none", Unsent(c)'
  PROVE  Unsent(c)
<1> USE DEF IInv, TypeOK
<1>1. ASSUME NEW q \in Request, NEW o \in Owner, NEW d \in Claim,
             MarkAndInsert(q, o, d)
      PROVE  Unsent(c)
  BY <1>1 DEF MarkAndInsert, Unsent
<1>2. ASSUME NEW q \in Request,
             \/ Broadcast(q) \/ RecordSignature(q) \/ UnmarkEarnings(q) \/ DropClaim(q)
      PROVE  Unsent(c)
  <2>1. PICK r \in Request : /\ request'[r].claim = c
                             /\ request'[r].pc \in {"claimed", "sending"}
    BY <1>2 DEF Unsent
  <2>2. CASE Goto(q, "confirming") \/ Goto(q, "drop")
    BY <2>1, <2>2 DEF Goto, Unsent, Call
  <2>3. CASE Leave(q)
    BY <2>1, <2>3 DEF Leave, NoCall, Unsent
  <2> QED
    BY <1>2, <2>2, <2>3 DEF Broadcast, RecordSignature, UnmarkEarnings, DropClaim
<1>3. CASE UNCHANGED request
  BY <1>3 DEF Unsent
<1> QED
  BY <1>1, <1>2, <1>3, StepCases DEF Quiet, Land, Lapse, ReconcileClaim

LEMMA GraceStep == ASSUME IInv, Prompt, [Next]_vars PROVE GraceOK'
<1> USE DEF IInv, TypeOK
\* The claims that were old: no transfer to come, nor ever will be.
<1>1. \A c \in old : /\ transfer'[c] # "sent" /\ ~Unsent(c)'
                     /\ claim'[c].state # "none"
                     /\ transfer[c] # "landed" => transfer'[c] # "landed"
  BY TransferSteps, UnsentSteps, UsedSteps DEF GraceOK, Payable
<1>2. \A c \in old' : transfer'[c] # "sent" /\ ~Unsent(c)' /\ claim'[c].state # "none"
  <2>1. ASSUME NEW d \in Claim, Age(d)
        PROVE  \A c \in old' : /\ transfer'[c] # "sent" /\ ~Unsent(c)'
                               /\ claim'[c].state # "none"
    BY <1>1, <2>1 DEF Age, Pending, Unsent
  <2>2. CASE UNCHANGED old
    BY <1>1, <2>2
  <2> QED
    BY <2>1, <2>2
       DEF Next, Work, vars, Accrue, MarkAndInsert, ReadAmount, PrepFails, Broadcast,
           Confirmed, ConfirmFails, RecordSignature, UnmarkEarnings, DropClaim,
           RequestFault, Land, Lapse, ListPending, PassFault, Crash, ScanHistory,
           ReconcileClaim
<1>3. old \subseteq old' /\ Landed \subseteq Landed'
  <2>1. Landed \subseteq Landed'
    BY TransferSteps DEF Landed
  <2>2. old \subseteq old'
    BY DEF Next, Work, vars, Accrue, MarkAndInsert, ReadAmount, PrepFails, Broadcast,
           Confirmed, ConfirmFails, RecordSignature, UnmarkEarnings, DropClaim,
           RequestFault, Land, Lapse, Age, ListPending, PassFault, Crash, ScanHistory,
           ReconcileClaim
  <2> QED
    BY <2>1, <2>2
<1> DEFINE Grounded(P, T, L) == /\ P.aged \subseteq T
                                /\ P.found \subseteq L
                                /\ P.absent \subseteq T \ L
<1>4. \A p \in Proc : Grounded(reconciler[p], old, Landed)
  BY DEF GraceOK
<1>5. \A p \in Proc : Grounded(reconciler[p], old', Landed')
  <2>1. (old \ Landed) \cap Landed' = {}
    BY <1>1 DEF Landed
  <2> QED
    BY <1>3, <1>4, <2>1
<1>6. Grounded(NoPass, old', Landed')
  BY DEF NoPass
<1>7. \A p \in Proc : Grounded(reconciler'[p], old', Landed')
  <2>1. ASSUME NEW p \in Proc, NEW r, reconciler' = [reconciler EXCEPT ![p] = r],
               Grounded(r, old', Landed')
        PROVE  \A k \in Proc : Grounded(reconciler'[k], old', Landed')
    <3>1. \A k \in Proc : reconciler'[k] = IF k = p THEN r ELSE reconciler[k]
      BY <2>1
    <3> QED
      BY <1>5, <2>1, <3>1
  <2>2. ASSUME NEW p \in Proc, ListPending(p)
        PROVE  \A k \in Proc : Grounded(reconciler'[k], old', Landed')
    <3>1. Grounded([NoPass EXCEPT !.pc = "scan", !.todo = Pending,
                                  !.aged = OldEnough(Pending)], old', Landed')
      BY <1>3 DEF NoPass, OldEnough
    <3> QED
      BY <2>1, <2>2, <3>1 DEF ListPending
  <2>3. ASSUME NEW p \in Proc, NEW C \in SUBSET Claim, NEW F \in SUBSET Claim,
               ScanHistory(p, C, F)
        PROVE  \A k \in Proc : Grounded(reconciler'[k], old', Landed')
    <3> DEFINE absent == ConfirmedAbsent(reconciler[p].aged, C, F)
               r == [pc |-> "apply", todo |-> reconciler[p].todo,
                     aged |-> {}, found |-> F, absent |-> absent]
    <3>1. reconciler' = [reconciler EXCEPT ![p] = r]
      BY <2>3 DEF ScanHistory
    <3>2. F \subseteq Landed /\ absent \subseteq old \ Landed
      BY <1>4, <2>3 DEF ScanHistory, ConfirmedAbsent, OnChain
    <3>3. old \ Landed \subseteq old' \ Landed'
      BY <1>1, <1>3 DEF Landed
    <3>4. Grounded(r, old', Landed')
      BY <1>3, <3>2, <3>3
    <3> QED
      BY <2>1, <3>1, <3>4
  <2>4. ASSUME NEW p \in Proc, NEW c \in Claim, ReconcileClaim(p, c)
        PROVE  \A k \in Proc : Grounded(reconciler'[k], old', Landed')
    <3> DEFINE left == reconciler[p].todo \ {c}
    <3>1. CASE left = {}
      <4>1. reconciler' = [reconciler EXCEPT ![p] = NoPass]
        BY <2>4, <3>1 DEF ReconcileClaim
      <4> QED
        BY <1>6, <2>1, <4>1
    <3>2. CASE left # {}
      <4> DEFINE r == [reconciler[p] EXCEPT !.todo = left]
      <4>1. reconciler' = [reconciler EXCEPT ![p] = r]
        BY <2>4, <3>2 DEF ReconcileClaim
      <4>2. Grounded(r, old', Landed')
        BY <1>5 DEF Pass
      <4> QED
        BY <2>1, <4>1, <4>2
    <3> QED
      BY <3>1, <3>2
  <2>5. ASSUME NEW p \in Proc, PassFault(p) \/ Crash(p)
        PROVE  \A k \in Proc : Grounded(reconciler'[k], old', Landed')
    BY <1>6, <2>1, <2>5 DEF PassFault, Crash
  <2>6. CASE UNCHANGED reconciler
    BY <1>5, <2>6
  <2> QED
    BY <2>2, <2>3, <2>4, <2>5, <2>6
       DEF Next, Work, vars, Accrue, MarkAndInsert, ReadAmount, PrepFails, Broadcast,
           Confirmed, ConfirmFails, RecordSignature, UnmarkEarnings, DropClaim,
           RequestFault, Land, Lapse, Age
<1> QED
  BY <1>2, <1>7 DEF GraceOK

\* A claim in use pays earnings of one creator.
LEMMA ClaimsStep == ASSUME IInv, [Next]_vars PROVE ClaimsOK'
<1> USE DEF IInv, TypeOK
<1> SUFFICES ASSUME NEW c \in Claim
             PROVE  IF claim'[c].state = "none" THEN transfer'[c] = "none"
                    ELSE \E o \in Owner : claim'[c].amount \subseteq
                                             {x \in accrued' : EarnedBy[x] = o}
  BY DEF ClaimsOK
<1>1. accrued \subseteq accrued'
  BY DEF Next, Work, vars, Accrue, MarkAndInsert, ReadAmount, PrepFails, Broadcast,
         Confirmed, ConfirmFails, RecordSignature, UnmarkEarnings, DropClaim,
         RequestFault, Land, Lapse, Age, ListPending, PassFault, Crash, ScanHistory,
         ReconcileClaim
<1>2. CASE claim[c].state # "none"
  <2>1. PICK o \in Owner : claim[c].amount \subseteq {x \in accrued : EarnedBy[x] = o}
    BY <1>2 DEF ClaimsOK
  <2> QED
    BY <1>1, <1>2, <2>1, UsedSteps
<1>3. CASE claim[c].state = "none"
  <2>1. transfer[c] = "none" /\ ~Payable(c)
    BY <1>3 DEF ClaimsOK, Payable, Unsent, RequestOK
  <2>2. transfer'[c] = "none"
    <3>1. ASSUME NEW q \in Request, Broadcast(q) PROVE transfer'[c] = "none"
      BY <2>1, <3>1 DEF Broadcast, Payable, Unsent
    <3>2. ASSUME NEW d \in Claim, Land(d) \/ Lapse(d) PROVE transfer'[c] = "none"
      BY <2>1, <3>2 DEF Land, Lapse
    <3>3. CASE UNCHANGED transfer
      BY <2>1, <3>3
    <3> QED
      BY <3>1, <3>2, <3>3, StepCases
         DEF Quiet, MarkAndInsert, RecordSignature, UnmarkEarnings, DropClaim,
             ReconcileClaim
  <2>3. ASSUME NEW q \in Request, NEW o \in Owner, NEW d \in Claim,
               MarkAndInsert(q, o, d)
        PROVE  IF claim'[c].state = "none" THEN transfer'[c] = "none"
               ELSE \E w \in Owner : claim'[c].amount \subseteq
                                        {x \in accrued' : EarnedBy[x] = w}
    <3>1. CASE c = d
      <4>1. claim'[c].amount = Unclaimed(o)
        BY <2>3, <3>1 DEF MarkAndInsert
      <4> QED
        BY <1>1, <2>2, <4>1 DEF Unclaimed
    <3>2. CASE c # d
      BY <1>3, <2>2, <2>3, <3>2 DEF MarkAndInsert
    <3> QED
      BY <3>1, <3>2
  <2>4. ASSUME UNCHANGED claim
        PROVE  IF claim'[c].state = "none" THEN transfer'[c] = "none"
               ELSE \E w \in Owner : claim'[c].amount \subseteq
                                        {x \in accrued' : EarnedBy[x] = w}
    BY <1>3, <2>2, <2>4
  <2>5. ASSUME NEW d \in Claim, claim[d].state # "none",
               \E st \in ClaimState : SetClaim(d, st)
        PROVE  claim'[c].state = "none"
    BY <1>3, <2>5 DEF SetClaim
  <2>6. ASSUME NEW q \in Request, RecordSignature(q) \/ DropClaim(q)
        PROVE  UNCHANGED claim \/ claim'[c].state = "none"
    <3>1. request[q].claim \in Claim /\ claim[request[q].claim].state # "none"
      BY <2>6 DEF RecordSignature, DropClaim, RequestOK
    <3> QED
      BY <2>5, <2>6, <3>1 DEF RecordSignature, DropClaim, ClaimState
  <2>7. ASSUME NEW p \in Proc, NEW d \in Claim, ReconcileClaim(p, d)
        PROVE  UNCHANGED claim \/ claim'[c].state = "none"
    BY <2>5, <2>7
       DEF ReconcileClaim, SettleClaim, RollbackClaim, Pending, ClaimState
  <2> QED
    BY <2>2, <2>3, <2>4, <2>6, <2>7, StepCases
       DEF Quiet, Broadcast, UnmarkEarnings, Land, Lapse
<1> QED
  BY <1>2, <1>3

LEMMA InitInv == Init => IInv
<1> SUFFICES ASSUME Init PROVE IInv
  OBVIOUS
<1>1. TypeOK
  BY InitType
<1>2. /\ \A c \in Claim : ~Payable(c)
      /\ \A q \in Request : RequestOK(q)
      /\ OneRequestPerClaim
  BY DEF Init, Payable, Unsent, NoCall, RequestOK, OneRequestPerClaim
<1>3. NothingStranded /\ SettledMeansPaid /\ GraceOK /\ ClaimsOK
  BY DEF Init, NothingStranded, SettledMeansPaid, GraceOK, ClaimsOK, NoPass
<1> QED
  BY <1>1, <1>2, <1>3 DEF IInv, PayableHeld

\* The invariant behind the theorems below is kept by every step, as long as
\* no transfer can land after SETTLE_GRACE_MS.
THEOREM Invariant == ASSUME Prompt PROVE Spec => []IInv
<1>1. IInv /\ [Next]_vars => IInv'
  <2> SUFFICES ASSUME IInv, [Next]_vars PROVE IInv'
    OBVIOUS
  <2>1. TypeOK'
    BY StepType DEF IInv
  <2> QED
    BY <2>1, HeldStep, StrandedStep, SettledStep, OneRequestStep, GraceStep,
       ClaimsStep, RequestStep
       DEF IInv
<1> QED
  BY <1>1, InitInv, PTL DEF Spec

-----------------------------------------------------------------------------
(* What it says of money.                                                  *)

\* What a transfer has paid stays under the claim that paid it (claimEarnings,
\* rollbackClaim), so that no second claim can take it up.
THEOREM PaidClaimHolds == ASSUME Prompt PROVE Spec => []PaidStaysClaimed
<1>1. IInv => PaidStaysClaimed
  BY DEF IInv, PayableHeld, Payable, PaidStaysClaimed, Landed
<1> QED
  BY <1>1, Invariant, PTL

\* A claim is recorded as paid only after its transfer landed, whoever records
\* it (claimEarnings, settleClaim).
THEOREM SettledIsPaid == ASSUME Prompt PROVE Spec => []SettledMeansPaid
<1>1. IInv => SettledMeansPaid
  BY DEF IInv
<1> QED
  BY <1>1, Invariant, PTL

\* No crash, failed call or roll back leaves an earning marked with a claim
\* that is gone (the two statements of claimEarnings' roll back, in their order).
THEOREM EarningsAreReachable == ASSUME Prompt PROVE Spec => []NothingStranded
<1>1. IInv => NothingStranded
  BY DEF IInv
<1> QED
  BY <1>1, Invariant, PTL

\* No earning is paid by two transfers: two claims that landed hold their
\* earnings, and an earning is held by one claim.
THEOREM PaidOnce == ASSUME Prompt PROVE Spec => []NoDoublePay
<1>1. IInv => NoDoublePay
  BY DEF IInv, PayableHeld, Payable, NoDoublePay, Landed
<1> QED
  BY <1>1, Invariant, PTL

\* All of that together: where every earning is, and that it is paid at most once
\* (claimEarnings and the reconciler, between any two of their statements).
THEOREM EarningsHold == ASSUME Prompt PROVE Spec => []EarningsAccounted
<1>1. IInv => PaidStaysClaimed /\ NoDoublePay
  BY DEF IInv, PayableHeld, Payable, PaidStaysClaimed, NoDoublePay, Landed
<1>2. IInv => EarningsAccounted
  BY <1>1 DEF IInv, EarningsAccounted
<1> QED
  BY <1>2, Invariant, PTL

\* The writes that give an earning back, and what they know of its transfer.
LEMMA ReclaimStep ==
  ASSUME IInv, [Next]_vars, NEW x \in Earning, claimOf[x] # NoClaim,
         claimOf'[x] # claimOf[x]
  PROVE  transfer[claimOf[x]] \notin {"sent", "landed"}
<1> USE DEF IInv, TypeOK
<1>1. ASSUME NEW q \in Request, UnmarkEarnings(q)
      PROVE  transfer[claimOf[x]] \notin {"sent", "landed"}
  BY <1>1 DEF UnmarkEarnings, Unmark, RequestOK
<1>2. ASSUME NEW p \in Proc, NEW d \in Claim, ReconcileClaim(p, d)
      PROVE  transfer[claimOf[x]] \notin {"sent", "landed"}
  <2>1. d \in reconciler[p].absent /\ Unmark(d)
    BY <1>2 DEF ReconcileClaim, SettleClaim, RollbackClaim
  <2> QED
    BY <2>1 DEF Unmark, GraceOK, Landed
<1>3. ASSUME NEW q \in Request, NEW o \in Owner, NEW d \in Claim,
             MarkAndInsert(q, o, d)
      PROVE  FALSE
  BY <1>3 DEF MarkAndInsert, Unclaimed
<1> QED
  BY <1>1, <1>2, <1>3, StepCases
     DEF Quiet, Broadcast, RecordSignature, DropClaim, Land, Lapse

\* Earnings are given back only when no transfer that pays them has landed or
\* still may (rollbackClaim, the roll back of claimEarnings).
THEOREM OnlyUnpaidIsReclaimed == ASSUME Prompt PROVE Spec => ReclaimOnlyUnpaid
<1>1. IInv /\ [Next]_vars =>
        [\A x \in Earning : claimOf[x] # NoClaim /\ claimOf'[x] # claimOf[x] =>
              transfer[claimOf[x]] \notin {"sent", "landed"}]_vars
  BY ReclaimStep
<1> QED
  BY <1>1, Invariant, PTL DEF Spec, ReclaimOnlyUnpaid

-----------------------------------------------------------------------------
(* Claims implements PayoutContract.                                       *)

\* A transfer that lands is a transfer of the contract.
LEMMA LandRefines ==
  ASSUME IInv, NEW c \in Claim, Land(c) PROVE Contract!Next
<1> USE DEF IInv, TypeOK
<1> DEFINE S == claim[c].amount
           T == {[id |-> d, for |-> claim[d].amount] : d \in Landed}
<1>1. claim[c].state # "none"
  BY DEF Land, PayableHeld, Payable
<1>2. PICK o \in Owner : S \subseteq {x \in accrued : EarnedBy[x] = o}
  BY <1>1 DEF ClaimsOK
<1>3. S \in SUBSET Earning
  BY DEF ClaimRow
<1>4. \A d \in Landed : d # c /\ claim[d].amount \cap S = {}
  BY DEF Land, Landed, PayableHeld, Payable
<1>5. \A t \in T : t.id # c /\ t.for \cap S = {}
  BY <1>4
<1>6. Landed' = Landed \cup {c}
  BY DEF Land, Landed
<1>7. T' = T \cup {[id |-> c, for |-> S]}
  BY <1>6 DEF Land
<1>8. PICK V \in SUBSET Earning : V = S
  BY <1>3
<1>9. Contract!Transfer(c, o, V)
  BY <1>2, <1>5, <1>7, <1>8 DEF Contract!Transfer, Land
<1> QED
  BY <1>9 DEF Contract!Next

\* Every other step but a credit leaves the contract's state alone.
LEMMA OtherStepsStutter ==
  ASSUME IInv, [Next]_vars, UNCHANGED accrued, UNCHANGED Landed
  PROVE  UNCHANGED Contract!contractVars
<1> USE DEF IInv, TypeOK
<1>1. \A c \in Landed : claim'[c].amount = claim[c].amount
  <2>1. \A c \in Landed : claim[c].state # "none"
    BY DEF Landed, PayableHeld, Payable
  <2> QED
    BY <2>1, UsedSteps DEF Landed
<1>2. {[id |-> c, for |-> claim'[c].amount] : c \in Landed}
        = {[id |-> c, for |-> claim[c].amount] : c \in Landed}
  BY <1>1
<1>3. {[id |-> c, for |-> claim'[c].amount] : c \in Landed'}
        = {[id |-> c, for |-> claim[c].amount] : c \in Landed}
  BY <1>2
<1> QED
  BY <1>3 DEF Contract!contractVars

LEMMA StepRefines ==
  ASSUME IInv, [Next]_vars PROVE [Contract!Next]_(Contract!contractVars)
<1> USE DEF IInv, TypeOK
<1>1. ASSUME NEW c \in Claim, Land(c) PROVE Contract!Next
  BY <1>1, LandRefines
<1>2. ASSUME NEW x \in Earning, Accrue(x) PROVE Contract!Next
  BY <1>2 DEF Accrue, Landed, Contract!Next, Contract!Earn
<1>3. CASE UNCHANGED transfer /\ UNCHANGED accrued
  BY <1>3, OtherStepsStutter DEF Landed
<1>4. ASSUME NEW q \in Request, Broadcast(q)
      PROVE  UNCHANGED Contract!contractVars
  <2>1. Landed' = Landed
    BY <1>4 DEF Broadcast, Landed, RequestOK
  <2> QED
    BY <1>4, <2>1, OtherStepsStutter DEF Broadcast
<1>5. ASSUME NEW c \in Claim, Lapse(c) PROVE UNCHANGED Contract!contractVars
  <2>1. Landed' = Landed
    BY <1>5 DEF Lapse, Landed
  <2> QED
    BY <1>5, <2>1, OtherStepsStutter DEF Lapse
<1> QED
  BY <1>1, <1>2, <1>3, <1>4, <1>5
     DEF Next, Work, vars, MarkAndInsert, ReadAmount, PrepFails, Confirmed,
         ConfirmFails, RecordSignature, UnmarkEarnings, DropClaim, RequestFault,
         Age, ListPending, PassFault, Crash, ScanHistory, ReconcileClaim

\* Concurrent requests, lost confirmations, reconciliation and roll backs
\* together pay each earning at most once, to the creator who earned it.
THEOREM Refinement == ASSUME Prompt PROVE Spec => ImplementsContract
<1>1. Init => Contract!Init
  BY DEF Init, Contract!Init, Landed
<1>2. IInv /\ [Next]_vars => [Contract!Next]_(Contract!contractVars)
  BY StepRefines
<1> QED
  BY <1>1, <1>2, Invariant, PTL DEF Spec, Contract!Spec, ImplementsContract

=============================================================================
