--------------------------- MODULE QboWriteProofs ---------------------------
(***************************************************************************)
(* Theorems about QboWrite for every set of invoices, bills and calls and  *)
(* any number of failures.                                                 *)
(***************************************************************************)
EXTENDS QboWrite, FiniteSetTheorems, TLAPS

-----------------------------------------------------------------------------
(* The inductive invariant, of owners that are done within STALE_MS.       *)

Owns(c, i) == call[c].owner /\ call[c].invoice = i

\* A bill made for j answers for i: its own, or a look-alike's.
IsFor(i, j) == j = i \/ LookAlike(i, j)

\* What a call knows at each of its steps.
CallOK(c) ==
    LET i == call[c].invoice
        b == call[c].bill IN
    /\ call[c].pc \in {"pre", "lookup", "create", "fail"} => call[c].owner
    /\ call[c].owner =>
          /\ call[c].pc \in {"pre", "lookup", "create", "post", "fail"}
          /\ row[i].status \in {"pending", "posted"} /\ ~row[i].stale
    /\ call[c].pc = "post" =>
          /\ b \in Bill /\ maker[b] \in Invoice
          /\ IsFor(i, maker[b])

\* A posted row names a bill that answers for its invoice.
PostedFor ==
    \A i \in Invoice : row[i].status = "posted" =>
        /\ row[i].bill \in Bill /\ maker[row[i].bill] \in Invoice
        /\ IsFor(i, maker[row[i].bill])

\* An invoice that nobody has claimed has no age.
RowOK(i) == row[i].status = "none" => ~row[i].stale

\* Two bills of an invoice are one bill.
SingleBill(i) == \A b, d \in BillsFor(i) : b = d

\* Where the invoices of a document are one, and its bill is recognised, whoever is about
\* to create a bill has looked, and there is none.
LookedWell(i) ==
    Alone(i) /\ Recognised(i) =>
        /\ SingleBill(i)
        /\ \A c \in Call : Owns(c, i) /\ call[c].pc \in {"lookup", "create"}
                              => BillsFor(i) = {}

\* Without failures, a bill is in the hands of its owner or recorded for good.
BillHeld(i) ==
    failures = 0 /\ BillsFor(i) # {} =>
        /\ SingleBill(i)
        /\ \/ \E c \in Call : Owns(c, i) /\ call[c].pc = "post"
           \/ row[i].status = "posted" /\ \A c \in Call : ~Owns(c, i)

IInv == /\ TypeOK /\ OneOwner
        /\ \A c \in Call : CallOK(c)
        /\ PostedFor
        /\ \A i \in Invoice : RowOK(i) /\ LookedWell(i) /\ BillHeld(i)

-----------------------------------------------------------------------------
(* Types.                                                                  *)

LEMMA NoCallType == NoCall \in CallState /\ NoCall.pc = "idle" /\ ~NoCall.owner
BY DEF NoCall, CallState, CallPC, Status

LEMMA TypeInit == Init => TypeOK
BY NoCallType DEF Init, TypeOK, Row, Status

\* The types of the calls.
CallsOK == /\ call \in [Call -> CallState]
           /\ \A c \in Call : IF call[c].pc = "idle" THEN call[c] = NoCall
                              ELSE call[c].invoice \in Invoice

\* A call goes to a step of its own, perhaps as the owner or with a bill.
LEMMA GotoEffect ==
  ASSUME TypeOK, NEW c \in Call, NEW pc \in CallPC \ {"idle"},
         call[c].pc # "idle", Goto(c, pc)
  PROVE  /\ CallsOK'
         /\ \A d \in Call : d # c => call'[d] = call[d]
         /\ call'[c].pc = pc /\ call'[c].invoice = call[c].invoice
         /\ call'[c].owner = call[c].owner /\ call'[c].bill = call[c].bill
BY DEF TypeOK, CallsOK, CallState, Goto

LEMMA OwnEffect ==
  ASSUME TypeOK, NEW c \in Call, call[c].pc # "idle", Own(c)
  PROVE  /\ CallsOK'
         /\ \A d \in Call : d # c => call'[d] = call[d]
         /\ call'[c].pc = "pre" /\ call'[c].invoice = call[c].invoice
         /\ call'[c].owner
<1> DEFINE s == [call[c] EXCEPT !.pc = "pre", !.owner = TRUE]
<1>1. call' = [call EXCEPT ![c] = s]
  BY DEF TypeOK, Own, CallState
<1>2. /\ s \in CallState /\ s.pc = "pre" /\ s.invoice = call[c].invoice
      /\ s.owner /\ s.invoice \in Invoice
  BY DEF TypeOK, CallState, CallPC
<1> HIDE DEF s
<1> QED
  BY <1>1, <1>2 DEF TypeOK, CallsOK

LEMMA AdoptEffect ==
  ASSUME TypeOK, NEW c \in Call, NEW b \in Bill, call[c].pc # "idle", Adopt(c, b)
  PROVE  /\ CallsOK'
         /\ \A d \in Call : d # c => call'[d] = call[d]
         /\ call'[c].pc = "post" /\ call'[c].invoice = call[c].invoice
         /\ call'[c].owner = call[c].owner /\ call'[c].bill = b
<1> DEFINE s == [call[c] EXCEPT !.pc = "post", !.bill = b]
<1>1. call' = [call EXCEPT ![c] = s]
  BY DEF TypeOK, Adopt, CallState
<1>2. /\ s \in CallState /\ s.pc = "post" /\ s.invoice = call[c].invoice
      /\ s.owner = call[c].owner /\ s.bill = b /\ s.invoice \in Invoice
  BY DEF TypeOK, CallState, CallPC
<1> HIDE DEF s
<1> QED
  BY <1>1, <1>2 DEF TypeOK, CallsOK

LEMMA LeaveEffect ==
  ASSUME TypeOK, NEW c \in Call, Leave(c)
  PROVE  /\ CallsOK'
         /\ \A d \in Call : d # c => call'[d] = call[d]
         /\ call'[c].pc = "idle" /\ ~call'[c].owner
BY NoCallType DEF TypeOK, CallsOK, Leave

\* A bill that a look for a document found is one of that document.
LEMMA FoundIsBill ==
  ASSUME TypeOK, NEW i \in Invoice, NEW b \in Found(i), b # None
  PROVE  b \in SameDoc(i) /\ b \in Bill
BY DEF Found, SameDoc

\* What passes for a bill of i is one of i or of a look-alike: the converse of the
\* tolerance and of the comparison of currencies.
LEMMA OursIsFor ==
  ASSUME TypeOK, NEW i \in Invoice, NEW b \in SameDoc(i), IsOurs(i, b)
  PROVE  maker[b] \in Invoice /\ LookAlike(i, maker[b])
<1> USE InvoicesAssumption
<1>1. PICK j \in Invoice : maker[b] = j
  BY DEF TypeOK, SameDoc
<1>2. DocOf[j] = DocOf[i]
  BY <1>1 DEF SameDoc
<1>3. AmountOf[i] \in (Total(j) - 4)..(Total(j) + 4)
  <2>1. Total(j) \in Int /\ AmountOf[i] \in Int
    BY DEF Total
  <2>2. Total(j) < AmountOf[i] + 5 /\ AmountOf[i] < Total(j) + 5
    BY <1>1 DEF IsOurs, BillMatchesAmount
  <2> QED
    BY <2>1, <2>2
<1>4. Cardinality({CurrencyOf[i], RefOf[j]} \ {None}) <= 1
  <2> DEFINE S == {CurrencyOf[i], RefOf[j]} \ {None}
  <2>1. S = {} \/ S = {CurrencyOf[i]} \/ S = {RefOf[j]}
    BY <1>1 DEF IsOurs, BillMatchesCurrency
  <2> HIDE DEF S
  <2>2. Cardinality({}) = 0
    BY FS_EmptySet
  <2>3. /\ Cardinality({CurrencyOf[i]}) = 1
        /\ Cardinality({RefOf[j]}) = 1
    BY FS_Singleton
  <2>4. Cardinality(S) = 0 \/ Cardinality(S) = 1
    BY <2>1, <2>2, <2>3
  <2> QED
    BY <2>4 DEF S
<1> QED
  BY <1>1, <1>2, <1>3, <1>4 DEF LookAlike

\* Rounding moves an amount by less than half a cent, unless it ends in one.
LEMMA RoundsClose ==
  ASSUME NEW i \in Invoice, AmountOf[i] % 10 # 5
  PROVE  Total(i) < AmountOf[i] + 5 /\ AmountOf[i] < Total(i) + 5
<1>1. AmountOf[i] \in Nat
  BY InvoicesAssumption
<1>2. ASSUME NEW a \in Nat, a % 10 # 5
      PROVE  ((a + 5) \div 10) * 10 < a + 5 /\ a < ((a + 5) \div 10) * 10 + 5
  BY <1>2
<1> QED
  BY <1>1, <1>2 DEF Total

\* A bill of its own passes for one.
LEMMA OwnIsOurs ==
  ASSUME NEW i \in Invoice, NEW b \in Bill, maker[b] = i, Recognised(i)
  PROVE  IsOurs(i, b)
<1>1. BillMatchesAmount(i, b)
  BY RoundsClose DEF BillMatchesAmount, Recognised
<1>2. BillMatchesCurrency(i, b)
  BY InvoicesAssumption DEF BillMatchesCurrency
<1> QED
  BY <1>1, <1>2, InvoicesAssumption DEF IsOurs

\* The row of an invoice is written.
LEMMA RowEffect ==
  ASSUME TypeOK, NEW i \in Invoice, NEW s \in Row, row' = [row EXCEPT ![i] = s]
  PROVE  /\ row' \in [Invoice -> Row]
         /\ row'[i] = s /\ \A h \in Invoice : h # i => row'[h] = row[h]
BY DEF TypeOK

LEMMA TypeStep == TypeOK /\ [Next]_vars => TypeOK'
<1> SUFFICES ASSUME TypeOK, [Next]_vars PROVE TypeOK'
  OBVIOUS
<1> USE NoCallType, InvoicesAssumption, SettingsAssumption
<1>1. ASSUME NEW c \in Call, NEW i \in Invoice, Start(c, i) PROVE TypeOK'
  BY <1>1 DEF TypeOK, Start, CallState, CallPC, NoCall, Row
<1>2. ASSUME NEW c \in Call, Claim(c) PROVE TypeOK'
  <2> DEFINE i == call[c].invoice
  <2>1. i \in Invoice
    BY <1>2 DEF Claim, TypeOK
  <2>2. CASE SetStatus(i, "pending") /\ Own(c)
    BY <1>2, <2>1, <2>2, OwnEffect DEF Claim, SetStatus, TypeOK, CallsOK, Row, Status
  <2>3. CASE UNCHANGED row /\ Goto(c, "read")
    BY <1>2, <2>3, GotoEffect DEF Claim, TypeOK, CallsOK, CallPC
  <2> QED
    BY <1>2, <2>2, <2>3 DEF Claim
<1>3. ASSUME NEW c \in Call, Read(c) PROVE TypeOK'
  <2>1. CASE Leave(c)
    BY <1>3, <2>1, LeaveEffect DEF Read, TypeOK, CallsOK
  <2>2. CASE ~Leave(c)
    <3> DEFINE s == [call[c] EXCEPT !.pc = "find", !.saw = row[call[c].invoice].status]
    <3>1. call[c] \in CallState /\ call[c].invoice \in Invoice
      BY <1>3 DEF Read, TypeOK
    <3>2. row[call[c].invoice].status \in Status
      BY <3>1 DEF TypeOK, Row
    <3>3. call' = [call EXCEPT ![c] = s]
      BY <1>3, <2>2, <3>1 DEF Read, TypeOK, CallState
    <3>4. s \in CallState /\ s.pc = "find" /\ s.invoice \in Invoice
      BY <3>1, <3>2 DEF CallState, CallPC
    <3> HIDE DEF s
    <3> QED
      BY <1>3, <3>3, <3>4 DEF Read, TypeOK
  <2> QED
    BY <2>1, <2>2
<1>4. ASSUME NEW c \in Call, Find(c) PROVE TypeOK'
  <2>1. PICK i \in Invoice : call[c].invoice = i
    BY <1>4 DEF Find, TypeOK
  <2>2. PICK b \in Found(i) \cup {None} :
            IF IsOurs(i, b) THEN Adopt(c, b)
            ELSE Goto(c, IF call[c].saw = "failed" THEN "retry" ELSE "reclaim")
    BY <1>4, <2>1 DEF Find
  <2>3. call[c].pc # "idle"
    BY <1>4 DEF Find
  <2>4. ASSUME IsOurs(i, b) PROVE CallsOK'
    <3>1. b \in Found(i) /\ b # None
      BY <2>2, <2>4 DEF IsOurs
    <3>2. b \in Bill
      BY <3>1, FoundIsBill
    <3> QED
      BY <2>2, <2>3, <2>4, <3>2, AdoptEffect
  <2>5. ASSUME ~IsOurs(i, b) PROVE CallsOK'
    <3>1. CASE call[c].saw = "failed"
      BY <2>2, <2>3, <2>5, <3>1, GotoEffect DEF CallPC
    <3>2. CASE call[c].saw # "failed"
      BY <2>2, <2>3, <2>5, <3>2, GotoEffect DEF CallPC
    <3> QED
      BY <3>1, <3>2
  <2> QED
    BY <1>4, <2>4, <2>5 DEF Find, TypeOK, CallsOK
<1>5. ASSUME NEW c \in Call, Retry(c) PROVE TypeOK'
  <2> DEFINE i == call[c].invoice
  <2>1. i \in Invoice
    BY <1>5 DEF Retry, TypeOK
  <2>2. CASE row' = [row EXCEPT ![i].status = "pending", ![i].stale = FALSE] /\ Own(c)
    <3> DEFINE s == [row[i] EXCEPT !.status = "pending", !.stale = FALSE]
    <3>0. row[i] \in Row
      BY <2>1 DEF TypeOK
    <3>1. s \in Row
      <4> HIDE DEF i
      <4> QED
        BY <3>0 DEF Row, Status
    <3>2. row' = [row EXCEPT ![i] = s]
      BY <2>1, <2>2 DEF TypeOK, Row
    <3> HIDE DEF s, i
    <3> QED
      BY <1>5, <2>1, <2>2, <3>1, <3>2, OwnEffect, RowEffect
         DEF Retry, TypeOK, CallsOK
  <2>3. CASE UNCHANGED row /\ Leave(c)
    BY <1>5, <2>3, LeaveEffect DEF Retry, TypeOK, CallsOK
  <2> QED
    BY <1>5, <2>2, <2>3 DEF Retry
<1>6. ASSUME NEW c \in Call, Reclaim(c) PROVE TypeOK'
  <2> DEFINE i == call[c].invoice
  <2>1. i \in Invoice
    BY <1>6 DEF Reclaim, TypeOK
  <2>2. CASE row' = [row EXCEPT ![i].stale = FALSE] /\ Own(c)
    <3> DEFINE s == [row[i] EXCEPT !.stale = FALSE]
    <3>0. row[i] \in Row
      BY <2>1 DEF TypeOK
    <3>1. s \in Row
      <4> HIDE DEF i
      <4> QED
        BY <3>0 DEF Row
    <3>2. row' = [row EXCEPT ![i] = s]
      BY <2>1, <2>2 DEF TypeOK, Row
    <3>3. call[c].pc # "idle" /\ UNCHANGED <<maker, failures>>
      BY <1>6 DEF Reclaim
    <3> HIDE DEF s, i
    <3>4. row' \in [Invoice -> Row]
      BY <2>1, <3>1, <3>2, RowEffect
    <3>5. CallsOK'
      BY <2>2, <3>3, OwnEffect
    <3> QED
      BY <3>3, <3>4, <3>5 DEF TypeOK, CallsOK
  <2>3. CASE UNCHANGED row /\ Leave(c)
    BY <1>6, <2>3, LeaveEffect DEF Reclaim, TypeOK, CallsOK
  <2> QED
    BY <1>6, <2>2, <2>3 DEF Reclaim
<1>7. ASSUME NEW c \in Call, Pre(c) PROVE TypeOK'
  <2>1. call[c].invoice \in Invoice /\ call[c].pc # "idle"
    BY <1>7 DEF Pre, TypeOK
  <2>2. PICK b \in Found(call[c].invoice) : AfterPre(c, b)
    BY <1>7 DEF Pre
  <2>3. CallsOK'
    BY <2>1, <2>2, FoundIsBill, AdoptEffect, GotoEffect DEF AfterPre, IsOurs, CallPC
  <2> QED
    BY <1>7, <2>3 DEF Pre, TypeOK, CallsOK
<1>8. ASSUME NEW c \in Call, Lookup(c) PROVE TypeOK'
  BY <1>8, GotoEffect DEF TypeOK, CallsOK, Lookup, CallPC
<1>9. ASSUME NEW c \in Call, Create(c) PROVE TypeOK'
  <2>1. call[c].invoice \in Invoice /\ call[c].pc # "idle"
    BY <1>9 DEF Create, TypeOK
  <2>2. maker' \in [Bill -> Invoice \cup {None}]
    BY <1>9, <2>1 DEF Create, TypeOK
  <2>3. CallsOK'
    BY <1>9, <2>1, AdoptEffect, GotoEffect DEF Create, CallPC
  <2> QED
    BY <1>9, <2>2, <2>3 DEF Create, TypeOK, CallsOK
<1>10. ASSUME NEW c \in Call, SetPosted(c) PROVE TypeOK'
  BY <1>10 DEF TypeOK, SetPosted, CallState, CallPC, Row, Status, Leave
<1>11. ASSUME NEW c \in Call, SetFailed(c) PROVE TypeOK'
  BY <1>11 DEF TypeOK, SetFailed, CallState, CallPC, Row, Status, SetStatus, Leave
<1>12. ASSUME NEW c \in Call, FailOwner(c) PROVE TypeOK'
  BY <1>12 DEF TypeOK, FailOwner, CallState, CallPC, Row, Fail, Goto
<1>13. ASSUME NEW c \in Call, LoseAnswer(c) PROVE TypeOK'
  BY <1>13 DEF TypeOK, LoseAnswer, CallState, CallPC, Row, Fail, Goto
<1>14. ASSUME NEW c \in Call, FailCall(c) PROVE TypeOK'
  BY <1>14 DEF TypeOK, FailCall, CallState, CallPC, Row, Fail, Leave
<1>15. ASSUME NEW i \in Invoice, Age(i) PROVE TypeOK'
  BY <1>15 DEF TypeOK, Age, Row
<1>16. ASSUME Crash PROVE TypeOK'
  BY <1>16 DEF TypeOK, Crash, Fail
<1>17. ASSUME UNCHANGED vars PROVE TypeOK'
  BY <1>17 DEF TypeOK, vars
<1> QED
  BY <1>1, <1>2, <1>3, <1>4, <1>5, <1>6, <1>7, <1>8, <1>9, <1>10, <1>11, <1>12,
     <1>13, <1>14, <1>15, <1>16, <1>17 DEF Next, Step

\* Rows, bills and calls keep their types, whatever fails and however slow an
\* owner is.
THEOREM Typing == Spec => []TypeOK
BY TypeInit, TypeStep, PTL DEF Spec

-----------------------------------------------------------------------------
(* What a step leaves alone.                                               *)

\* While QuickBooks makes nothing, its answers stay the same.
LEMMA BillsStay ==
  ASSUME UNCHANGED maker, NEW i \in Invoice
  PROVE  /\ BillsFor(i)' = BillsFor(i) /\ SameDoc(i)' = SameDoc(i)
         /\ Alone(i)' = Alone(i) /\ SingleBill(i)' = SingleBill(i)
<1>1. BillsFor(i)' = BillsFor(i) /\ SameDoc(i)' = SameDoc(i)
  BY DEF BillsFor, SameDoc
<1> QED
  BY <1>1 DEF Alone, SingleBill

\* Nobody comes to a create.
LEMMA QuietLooked ==
  ASSUME IInv, UNCHANGED maker, NEW i \in Invoice,
         \A d \in Call : Owns(d, i)' /\ call'[d].pc \in {"lookup", "create"} =>
                            Owns(d, i) /\ call[d].pc \in {"lookup", "create"}
  PROVE  LookedWell(i)'
BY BillsStay DEF IInv, LookedWell

\* Owners and status stay, and so does the owner that holds a bill.
LEMMA QuietHeld ==
  ASSUME IInv, UNCHANGED <<maker, failures>>, NEW i \in Invoice,
         row'[i].status = row[i].status,
         \A d \in Call : Owns(d, i)' <=> Owns(d, i),
         \A d \in Call : Owns(d, i) /\ call[d].pc = "post" => call'[d].pc = "post"
  PROVE  BillHeld(i)'
BY BillsStay DEF IInv, BillHeld

\* Nothing is promised of bills after a failure.
LEMMA FailedHeld ==
  ASSUME TypeOK, Fail, NEW i \in Invoice
  PROVE  BillHeld(i)'
BY DEF TypeOK, Fail, BillHeld

\* A row that is not written keeps what is said of rows.
LEMMA RowsStay ==
  ASSUME IInv, UNCHANGED <<row, maker>>
  PROVE  PostedFor' /\ \A i \in Invoice : RowOK(i)'
BY DEF IInv, PostedFor, RowOK

\* A call that a step does not move, while rows and bills stay.
LEMMA CallStays ==
  ASSUME IInv, UNCHANGED <<row, maker>>, NEW d \in Call,
         call'[d] = call[d] \/ call'[d] = NoCall
  PROVE  CallOK(d)'
BY NoCallType DEF IInv, CallOK, NoCall

-----------------------------------------------------------------------------
(* The steps.                                                              *)

LEMMA InvInit == Init => IInv
<1> SUFFICES ASSUME Init PROVE IInv
  OBVIOUS
<1>1. TypeOK
  BY TypeInit
<1>2. \A c \in Call : CallOK(c) /\ ~call[c].owner
  BY DEF Init, NoCall, CallOK
<1>3. \A i \in Invoice : BillsFor(i) = {} /\ row[i].status = "none" /\ ~row[i].stale
  BY InvoicesAssumption DEF Init, BillsFor
<1> QED
  BY <1>1, <1>2, <1>3
     DEF IInv, OneOwner, PostedFor, RowOK, LookedWell, BillHeld, SingleBill

\* One call moves, rows and bills stay, and it neither gains a row nor comes to a
\* create: Start, Read, the refusals, and what follows a look.
LEMMA StepMove ==
  ASSUME IInv, TypeOK', UNCHANGED <<row, maker, failures>>, NEW c \in Call,
         \A d \in Call : d # c => call'[d] = call[d],
         call'[c].owner <=> call[c].owner,
         call[c].owner => /\ call'[c].invoice = call[c].invoice
                          /\ call[c].pc # "post",
         call'[c].owner /\ call'[c].pc \in {"lookup", "create"} =>
             call[c].pc \in {"lookup", "create"},
         CallOK(c)'
  PROVE  IInv'
<1>1. OneOwner'
  BY DEF IInv, OneOwner
<1>2. ASSUME NEW d \in Call PROVE CallOK(d)'
  BY CallStays DEF IInv
<1>3. ASSUME NEW i \in Invoice PROVE LookedWell(i)'
  <2>1. \A d \in Call : Owns(d, i)' /\ call'[d].pc \in {"lookup", "create"} =>
                            Owns(d, i) /\ call[d].pc \in {"lookup", "create"}
    BY DEF Owns
  <2> QED
    BY <2>1, QuietLooked
<1>4. ASSUME NEW i \in Invoice PROVE BillHeld(i)'
  <2>1. \A d \in Call : Owns(d, i)' <=> Owns(d, i)
    BY DEF Owns
  <2>2. \A d \in Call : Owns(d, i) /\ call[d].pc = "post" => call'[d].pc = "post"
    BY DEF Owns
  <2> QED
    BY <2>1, <2>2, QuietHeld
<1> QED
  BY <1>1, <1>2, <1>3, <1>4, RowsStay DEF IInv

LEMMA StepStart ==
  ASSUME IInv, TypeOK', NEW c \in Call, NEW i \in Invoice, Start(c, i)
  PROVE  IInv'
<1>1. /\ \A d \in Call : d # c => call'[d] = call[d]
      /\ call'[c].pc = "claim" /\ ~call'[c].owner /\ ~call[c].owner
  BY NoCallType DEF IInv, TypeOK, Start, NoCall
<1> QED
  BY <1>1, StepMove DEF Start, CallOK

\* A call that is no owner returns.
LEMMA StepLeave ==
  ASSUME IInv, TypeOK', NEW c \in Call, ~call[c].owner, Leave(c),
         UNCHANGED <<row, maker, failures>>
  PROVE  IInv'
<1>1. TypeOK
  BY DEF IInv
<1>2. CallOK(c)'
  BY <1>1, LeaveEffect DEF CallOK
<1> QED
  BY <1>1, <1>2, LeaveEffect, StepMove

LEMMA StepRead ==
  ASSUME IInv, TypeOK', NEW c \in Call, Read(c)
  PROVE  IInv'
<1>1. ~call[c].owner
  BY DEF IInv, CallOK, Read
<1>2. CASE Leave(c)
  BY <1>1, <1>2, StepLeave DEF Read
<1>3. CASE ~Leave(c)
  <2>1. /\ \A d \in Call : d # c => call'[d] = call[d]
        /\ call'[c].pc = "find" /\ call'[c].owner = call[c].owner
    BY <1>3 DEF Read, IInv, TypeOK, CallState
  <2> QED
    BY <1>1, <2>1, StepMove DEF Read, CallOK
<1> QED
  BY <1>2, <1>3

LEMMA StepFind ==
  ASSUME IInv, TypeOK', NEW c \in Call, Find(c)
  PROVE  IInv'
<1> DEFINE i == call[c].invoice
<1>1. TypeOK /\ ~call[c].owner /\ i \in Invoice /\ call[c].pc = "find"
  BY DEF IInv, TypeOK, CallOK, Find
<1>2. PICK b \in Found(i) \cup {None} :
          IF IsOurs(i, b) THEN Adopt(c, b)
          ELSE Goto(c, IF call[c].saw = "failed" THEN "retry" ELSE "reclaim")
  BY DEF Find
<1>3. CASE IsOurs(i, b)
  <2>1. b \in SameDoc(i) /\ b \in Bill
    BY <1>1, <1>2, <1>3, FoundIsBill DEF IsOurs
  <2>2. maker[b] \in Invoice /\ IsFor(i, maker[b])
    BY <1>1, <1>3, <2>1, OursIsFor DEF IsFor
  <2>3. /\ \A d \in Call : d # c => call'[d] = call[d]
        /\ call'[c].pc = "post" /\ call'[c].invoice = i
        /\ call'[c].owner = call[c].owner /\ call'[c].bill = b
    BY <1>1, <1>2, <1>3, <2>1, AdoptEffect
  <2>4. CallOK(c)'
    BY <1>1, <2>1, <2>2, <2>3 DEF CallOK, Find
  <2> QED
    BY <1>1, <2>3, <2>4, StepMove DEF Find
<1>4. CASE ~IsOurs(i, b)
  <2>1. /\ \A d \in Call : d # c => call'[d] = call[d]
        /\ call'[c].pc \in {"retry", "reclaim"}
        /\ call'[c].owner = call[c].owner
    BY <1>1, <1>2, <1>4, GotoEffect DEF CallPC
  <2>2. CallOK(c)'
    BY <1>1, <2>1 DEF CallOK
  <2> QED
    BY <1>1, <2>1, <2>2, StepMove DEF Find
<1> QED
  BY <1>3, <1>4

\* The look before the create: an invoice alone in its document that has a bill
\* adopts it.
LEMMA StepPre ==
  ASSUME IInv, TypeOK', NEW c \in Call, Pre(c)
  PROVE  IInv'
<1> DEFINE i == call[c].invoice
<1>1. TypeOK /\ call[c].owner /\ i \in Invoice /\ call[c].pc = "pre" /\ CallOK(c)
  BY DEF IInv, TypeOK, CallOK, Pre
<1>2. PICK b \in Found(i) : AfterPre(c, b)
  BY DEF Pre
<1>3. CASE IsOurs(i, b)
  <2>1. b \in SameDoc(i) /\ b \in Bill
    BY <1>1, <1>2, <1>3, FoundIsBill DEF IsOurs
  <2>2. maker[b] \in Invoice /\ IsFor(i, maker[b])
    BY <1>1, <1>3, <2>1, OursIsFor DEF IsFor
  <2>3. /\ \A d \in Call : d # c => call'[d] = call[d]
        /\ call'[c].pc = "post" /\ call'[c].invoice = i
        /\ call'[c].owner = call[c].owner /\ call'[c].bill = b
    BY <1>1, <1>2, <1>3, <2>1, AdoptEffect DEF AfterPre
  <2>4. CallOK(c)'
    BY <1>1, <2>1, <2>2, <2>3 DEF CallOK, Pre
  <2> QED
    BY <1>1, <2>3, <2>4, StepMove DEF Pre
<1>4. CASE ~IsOurs(i, b)
  <2>1. /\ \A d \in Call : d # c => call'[d] = call[d]
        /\ call'[c].pc = "lookup" /\ call'[c].invoice = i
        /\ call'[c].owner = call[c].owner
    BY <1>1, <1>2, <1>4, GotoEffect DEF AfterPre, CallPC
  <2>2. OneOwner'
    BY <1>1, <2>1 DEF IInv, OneOwner
  <2>3. CallOK(c)'
    BY <1>1, <2>1 DEF CallOK, Pre
  <2>4. ASSUME NEW d \in Call PROVE CallOK(d)'
    BY <2>1, <2>3, CallStays DEF IInv, Pre
  <2>5. Alone(i) /\ Recognised(i) => BillsFor(i) = {}
    <3>1. SUFFICES ASSUME Alone(i), Recognised(i), NEW d \in BillsFor(i) PROVE FALSE
      OBVIOUS
    <3>2. d \in SameDoc(i)
      BY <1>1, <3>1, InvoicesAssumption DEF BillsFor, SameDoc
    <3>3. b \in SameDoc(i)
      BY <1>2, <3>2 DEF Found
    <3>4. b \in Bill /\ maker[b] = i
      BY <3>1, <3>3 DEF Alone, SameDoc
    <3> QED
      BY <1>1, <1>4, <3>1, <3>4, OwnIsOurs
  <2>6. ASSUME NEW h \in Invoice PROVE LookedWell(h)'
    <3>1. CASE h = i
      BY <2>5, <3>1, BillsStay DEF IInv, LookedWell, Pre
    <3>2. CASE h # i
      <4>1. \A d \in Call : Owns(d, h)' /\ call'[d].pc \in {"lookup", "create"} =>
                               Owns(d, h) /\ call[d].pc \in {"lookup", "create"}
        BY <2>1, <3>2 DEF Owns
      <4> QED
        BY <4>1, QuietLooked DEF Pre
    <3> QED
      BY <3>1, <3>2
  <2>7. ASSUME NEW h \in Invoice PROVE BillHeld(h)'
    <3>1. \A d \in Call : Owns(d, h)' <=> Owns(d, h)
      BY <2>1 DEF Owns
    <3>2. \A d \in Call : Owns(d, h) /\ call[d].pc = "post" => call'[d].pc = "post"
      BY <1>1, <2>1 DEF Owns
    <3> QED
      BY <3>1, <3>2, QuietHeld DEF Pre
  <2> QED
    BY <2>2, <2>4, <2>6, <2>7, RowsStay DEF IInv, Pre
<1> QED
  BY <1>3, <1>4

LEMMA StepLookup ==
  ASSUME IInv, TypeOK', NEW c \in Call, Lookup(c)
  PROVE  IInv'
<1>1. TypeOK /\ call[c].owner /\ call[c].pc = "lookup" /\ CallOK(c)
  BY DEF IInv, CallOK, Lookup
<1>2. /\ \A d \in Call : d # c => call'[d] = call[d]
      /\ call'[c].pc \in {"create", "fail"} /\ call'[c].owner = call[c].owner
      /\ call'[c].invoice = call[c].invoice
  BY <1>1, GotoEffect DEF Lookup, CallPC
<1>3. CallOK(c)'
  BY <1>1, <1>2 DEF CallOK, Lookup
<1> QED
  BY <1>1, <1>2, <1>3, StepMove DEF Lookup

\* A call becomes the owner of a row that nobody owns.
LEMMA StepOwn ==
  ASSUME IInv, TypeOK', NEW c \in Call, NEW i \in Invoice, call[c].invoice = i,
         call[c].pc # "idle", Own(c), UNCHANGED <<maker, failures>>,
         \A d \in Call : ~Owns(d, i),
         row[i].status # "posted", row'[i].status = "pending", ~row'[i].stale,
         \A h \in Invoice : h # i => row'[h] = row[h]
  PROVE  IInv'
<1>1. TypeOK
  BY DEF IInv
<1>2. /\ \A d \in Call : d # c => call'[d] = call[d]
      /\ call'[c].pc = "pre" /\ call'[c].invoice = i /\ call'[c].owner
  BY <1>1, OwnEffect
<1>3. OneOwner'
  BY <1>2 DEF IInv, OneOwner, Owns
<1>4. ASSUME NEW d \in Call PROVE CallOK(d)'
  <2>1. CASE d = c
    BY <1>2, <2>1 DEF CallOK
  <2>2. CASE d # c
    BY <1>1, <1>2, <2>2 DEF IInv, CallOK, Owns, TypeOK
  <2> QED
    BY <2>1, <2>2
<1>5. PostedFor'
  BY DEF IInv, PostedFor
<1>6. ASSUME NEW h \in Invoice PROVE RowOK(h)' /\ LookedWell(h)' /\ BillHeld(h)'
  <2>1. RowOK(h)'
    BY DEF IInv, RowOK
  <2>2. \A d \in Call : Owns(d, h)' /\ call'[d].pc \in {"lookup", "create"} =>
                           Owns(d, h) /\ call[d].pc \in {"lookup", "create"}
    BY <1>2 DEF Owns
  <2>3. LookedWell(h)'
    BY <2>2, QuietLooked
  <2>4. CASE h = i
    <3>1. failures = 0 => BillsFor(i) = {}
      BY DEF IInv, BillHeld
    <3> QED
      BY <2>1, <2>3, <2>4, <3>1, BillsStay DEF BillHeld
  <2>5. CASE h # i
    <3>1. \A d \in Call : Owns(d, h)' <=> Owns(d, h)
      BY <1>2, <2>5 DEF Owns
    <3>2. \A d \in Call : Owns(d, h) /\ call[d].pc = "post" => call'[d].pc = "post"
      BY <1>2, <2>5 DEF Owns
    <3> QED
      BY <2>1, <2>3, <2>5, <3>1, <3>2, QuietHeld
  <2> QED
    BY <2>4, <2>5
<1> QED
  BY <1>3, <1>4, <1>5, <1>6 DEF IInv

LEMMA StepClaim ==
  ASSUME IInv, TypeOK', NEW c \in Call, Claim(c)
  PROVE  IInv'
<1> DEFINE i == call[c].invoice
<1>1. TypeOK /\ i \in Invoice /\ call[c].pc = "claim" /\ CallOK(c) /\ ~call[c].owner
  BY DEF IInv, TypeOK, CallOK, Claim
<1>2. CASE row[i].status = "none"
  <2>1. SetStatus(i, "pending") /\ Own(c)
    BY <1>2 DEF Claim
  <2>2. /\ row'[i].status = "pending" /\ row'[i].stale = row[i].stale
        /\ \A h \in Invoice : h # i => row'[h] = row[h]
    BY <1>1, <2>1 DEF SetStatus, TypeOK, Row
  <2>3. ~row[i].stale
    BY <1>1, <1>2 DEF IInv, RowOK
  <2>4. \A d \in Call : ~Owns(d, i)
    BY <1>2 DEF IInv, CallOK, Owns
  <2> QED
    BY <1>1, <1>2, <2>1, <2>2, <2>3, <2>4, StepOwn DEF Claim
<1>3. CASE row[i].status # "none"
  <2>1. UNCHANGED <<row, maker, failures>> /\ Goto(c, "read")
    BY <1>3 DEF Claim
  <2>2. /\ \A d \in Call : d # c => call'[d] = call[d]
        /\ call'[c].pc = "read" /\ call'[c].owner = call[c].owner
    BY <1>1, <2>1, GotoEffect DEF CallPC
  <2>3. CallOK(c)'
    BY <1>1, <2>2 DEF CallOK
  <2> QED
    BY <1>1, <2>1, <2>2, <2>3, StepMove
<1> QED
  BY <1>2, <1>3

LEMMA StepRetry ==
  ASSUME IInv, TypeOK', NEW c \in Call, Retry(c)
  PROVE  IInv'
<1> DEFINE i == call[c].invoice
<1>1. TypeOK /\ i \in Invoice /\ call[c].pc = "retry" /\ CallOK(c) /\ ~call[c].owner
  BY DEF IInv, TypeOK, CallOK, Retry
<1>2. CASE row[i].status = "failed"
  <2>1. /\ row' = [row EXCEPT ![i].status = "pending", ![i].stale = FALSE]
        /\ Own(c)
    BY <1>2 DEF Retry
  <2>2. /\ row'[i].status = "pending" /\ ~row'[i].stale
        /\ \A h \in Invoice : h # i => row'[h] = row[h]
    BY <1>1, <2>1 DEF TypeOK, Row
  <2>3. \A d \in Call : ~Owns(d, i)
    BY <1>2 DEF IInv, CallOK, Owns
  <2> QED
    BY <1>1, <1>2, <2>1, <2>2, <2>3, StepOwn DEF Retry
<1>3. CASE row[i].status # "failed"
  BY <1>1, <1>3, StepLeave DEF Retry
<1> QED
  BY <1>2, <1>3

\* A row that is stale has no owner.
LEMMA StepReclaim ==
  ASSUME IInv, TypeOK', NEW c \in Call, Reclaim(c)
  PROVE  IInv'
<1> DEFINE i == call[c].invoice
<1>1. TypeOK /\ i \in Invoice /\ call[c].pc = "reclaim" /\ CallOK(c) /\ ~call[c].owner
  BY DEF IInv, TypeOK, CallOK, Reclaim
<1>2. CASE Reclaimable(c)
  <2>1. /\ row' = [row EXCEPT ![i].stale = FALSE] /\ Own(c)
        /\ row[i].status = "pending" /\ row[i].stale
    BY <1>2 DEF Reclaim, Reclaimable
  <2>2. /\ row'[i].status = "pending" /\ ~row'[i].stale
        /\ \A h \in Invoice : h # i => row'[h] = row[h]
    BY <1>1, <2>1 DEF TypeOK, Row
  <2>3. \A d \in Call : ~Owns(d, i)
    BY <2>1 DEF IInv, CallOK, Owns
  <2> QED
    BY <1>1, <2>1, <2>2, <2>3, StepOwn DEF Reclaim
<1>3. CASE ~Reclaimable(c)
  BY <1>1, <1>3, StepLeave DEF Reclaim
<1> QED
  BY <1>2, <1>3

\* QuickBooks makes a bill for the owner of an invoice that has none, as far as
\* anybody can know: with an answer or without.
LEMMA BillMade ==
  ASSUME IInv, NEW c \in Call, NEW i \in Invoice, NEW b \in Bill,
         call[c].pc = "create", Owns(c, i), maker[b] = None,
         maker' = [maker EXCEPT ![b] = i], UNCHANGED row,
         \A d \in Call : d # c => call'[d] = call[d],
         call'[c].pc \in {"post", "fail"}, call'[c].invoice = i, call'[c].owner
  PROVE  /\ OneOwner' /\ PostedFor'
         /\ \A d \in Call : d # c => CallOK(d)'
         /\ \A h \in Invoice : RowOK(h)' /\ LookedWell(h)'
<1> USE InvoicesAssumption
<1>1. /\ TypeOK /\ maker'[b] = i
      /\ \A x \in Bill : x # b => maker'[x] = maker[x]
  BY DEF IInv, TypeOK
<1>2. OneOwner'
  BY DEF IInv, OneOwner, Owns
<1>3. PostedFor'
  <2>1. SUFFICES ASSUME NEW h \in Invoice, row[h].status = "posted"
                 PROVE  /\ row[h].bill \in Bill /\ maker'[row[h].bill] \in Invoice
                        /\ IsFor(h, maker'[row[h].bill])
    BY DEF PostedFor
  <2>2. /\ row[h].bill \in Bill /\ maker[row[h].bill] \in Invoice
        /\ IsFor(h, maker[row[h].bill])
    BY <2>1 DEF IInv, PostedFor
  <2> QED
    BY <1>1, <2>2
<1>4. ASSUME NEW d \in Call, d # c PROVE CallOK(d)'
  <2>1. CallOK(d) /\ call'[d] = call[d]
    BY <1>4 DEF IInv
  <2> QED
    BY <1>1, <2>1 DEF CallOK
<1>5. ASSUME NEW h \in Invoice PROVE RowOK(h)' /\ LookedWell(h)'
  <2>1. RowOK(h)'
    BY DEF IInv, RowOK
  <2>2. Alone(h)' => Alone(h)
    <3>1. SameDoc(h) \subseteq SameDoc(h)'
      BY <1>1 DEF SameDoc
    <3>2. ASSUME NEW x \in SameDoc(h) PROVE maker'[x] = maker[x]
      BY <1>1 DEF SameDoc
    <3> QED
      BY <3>1, <3>2 DEF Alone
  <2>3. CASE h = i
    <3>1. SUFFICES ASSUME Alone(i), Recognised(i) PROVE LookedWell(i)'
      BY <2>1, <2>2, <2>3 DEF LookedWell
    <3>2. BillsFor(i) = {}
      BY <3>1 DEF IInv, LookedWell
    <3>3. BillsFor(i)' = {b}
      BY <1>1, <3>2 DEF BillsFor
    <3>4. \A d \in Call : Owns(d, i)' => call'[d].pc \notin {"lookup", "create"}
      BY DEF IInv, OneOwner, Owns
    <3> QED
      BY <3>3, <3>4 DEF LookedWell, SingleBill
  <2>4. CASE h # i
    <3>1. BillsFor(h)' = BillsFor(h)
      BY <1>1, <2>4 DEF BillsFor
    <3>2. \A d \in Call : Owns(d, h)' => Owns(d, h) /\ call'[d] = call[d]
      BY <2>4 DEF Owns
    <3> QED
      BY <2>1, <2>2, <3>1, <3>2 DEF IInv, LookedWell, SingleBill
  <2> QED
    BY <2>3, <2>4
<1> QED
  BY <1>2, <1>3, <1>4, <1>5

LEMMA StepCreate ==
  ASSUME IInv, TypeOK', NEW c \in Call, Create(c)
  PROVE  IInv'
<1>0. PICK i \in Invoice : call[c].invoice = i
  BY DEF IInv, TypeOK, Create
<1>1. /\ TypeOK /\ call[c].pc = "create" /\ CallOK(c)
      /\ call[c].owner /\ Owns(c, i)
  BY <1>0 DEF IInv, TypeOK, CallOK, Create, Owns
<1>2. CASE UNCHANGED maker /\ Goto(c, "fail")
  <2>1. /\ \A d \in Call : d # c => call'[d] = call[d]
        /\ call'[c].pc = "fail" /\ call'[c].owner = call[c].owner
        /\ call'[c].invoice = i
    BY <1>0, <1>1, <1>2, GotoEffect DEF CallPC
  <2>2. CallOK(c)'
    BY <1>0, <1>1, <2>1 DEF CallOK, Create
  <2> QED
    BY <1>1, <1>2, <2>1, <2>2, StepMove, <1>0 DEF Create
<1>3. ASSUME NEW b \in Bill, maker[b] = None, maker' = [maker EXCEPT ![b] = i],
             Adopt(c, b)
      PROVE  IInv'
  <2>1. /\ \A d \in Call : d # c => call'[d] = call[d]
        /\ call'[c].pc = "post" /\ call'[c].invoice = i
        /\ call'[c].owner = call[c].owner /\ call'[c].bill = b
    BY <1>0, <1>1, <1>3, AdoptEffect
  <2>2. maker'[b] = i /\ \A x \in Bill : x # b => maker'[x] = maker[x]
    BY <1>1, <1>3 DEF TypeOK
  <2>3. CallOK(c)'
    BY <1>0, <1>1, <2>1, <2>2 DEF CallOK, Create, IsFor
  <2>4. /\ OneOwner' /\ PostedFor'
        /\ \A d \in Call : d # c => CallOK(d)'
        /\ \A h \in Invoice : RowOK(h)' /\ LookedWell(h)'
    BY <1>1, <1>3, <2>1, BillMade DEF Create
  <2>5. ASSUME NEW h \in Invoice PROVE BillHeld(h)'
    <3>1. CASE h = i
      <4>1. failures = 0 => BillsFor(i) = {}
        BY <1>1 DEF IInv, BillHeld, OneOwner, Owns
      <4>2. failures = 0 => BillsFor(i)' = {b}
        BY <2>2, <4>1, <1>1, InvoicesAssumption DEF BillsFor
      <4>3. Owns(c, i)'
        BY <1>1, <2>1 DEF Owns
      <4> QED
        BY <2>1, <3>1, <4>2, <4>3 DEF BillHeld, SingleBill, Create
    <3>2. CASE h # i
      <4>1. BillsFor(h)' = BillsFor(h)
        BY <1>3, <2>2, <3>2, InvoicesAssumption DEF BillsFor
      <4>2. \A d \in Call : /\ Owns(d, h)' <=> Owns(d, h)
                            /\ Owns(d, h) => call'[d] = call[d]
        BY <1>1, <2>1, <3>2 DEF Owns
      <4> QED
        BY <4>1, <4>2 DEF IInv, BillHeld, SingleBill, Create
    <3> QED
      BY <3>1, <3>2
  <2> QED
    BY <2>3, <2>4, <2>5 DEF IInv
<1> QED
  BY <1>0, <1>2, <1>3 DEF Create

LEMMA StepPosted ==
  ASSUME IInv, TypeOK', NEW c \in Call, SetPosted(c)
  PROVE  IInv'
<1>1. PICK i \in Invoice : call[c].invoice = i
  BY DEF IInv, TypeOK, SetPosted
<1>2. TypeOK /\ call[c].pc = "post" /\ CallOK(c)
  BY DEF IInv, SetPosted
<1>3. /\ row'[i].status = "posted" /\ row'[i].bill = call[c].bill
      /\ row'[i].stale = row[i].stale
      /\ \A h \in Invoice : h # i => row'[h] = row[h]
  BY <1>1, <1>2 DEF SetPosted, TypeOK, Row
<1>4. /\ \A d \in Call : d # c => call'[d] = call[d]
      /\ call'[c].pc = "idle" /\ ~call'[c].owner
  BY <1>2, LeaveEffect DEF SetPosted
<1>5. OneOwner'
  BY <1>4 DEF IInv, OneOwner
<1>6. ASSUME NEW d \in Call PROVE CallOK(d)'
  <2>1. CASE d = c
    BY <1>4, <2>1 DEF CallOK
  <2>2. CASE d # c
    BY <1>2, <1>3, <1>4, <2>2 DEF IInv, CallOK, SetPosted, TypeOK
  <2> QED
    BY <2>1, <2>2
<1>7. PostedFor'
  <2>1. /\ call[c].bill \in Bill /\ maker[call[c].bill] \in Invoice
        /\ IsFor(i, maker[call[c].bill])
    BY <1>1, <1>2 DEF CallOK
  <2>2. maker' = maker
    BY DEF SetPosted
  <2>3. ASSUME NEW h \in Invoice, row'[h].status = "posted"
        PROVE  /\ row'[h].bill \in Bill /\ maker[row'[h].bill] \in Invoice
               /\ IsFor(h, maker[row'[h].bill])
    <3>1. CASE h = i
      BY <1>3, <2>1, <3>1
    <3>2. CASE h # i
      BY <1>3, <2>3, <3>2 DEF IInv, PostedFor
    <3> QED
      BY <3>1, <3>2
  <2> QED
    BY <2>2, <2>3 DEF PostedFor
<1>8. ASSUME NEW h \in Invoice PROVE RowOK(h)' /\ LookedWell(h)' /\ BillHeld(h)'
  <2>1. RowOK(h)'
    BY <1>3 DEF IInv, RowOK
  <2>2. \A d \in Call : Owns(d, h)' => d # c /\ Owns(d, h) /\ call'[d] = call[d]
    BY <1>4 DEF Owns
  <2>3. LookedWell(h)'
    BY <2>2, QuietLooked DEF SetPosted
  <2>4. CASE h = i
    <3>1. SUFFICES ASSUME failures = 0, BillsFor(i) # {} PROVE BillHeld(i)'
      BY <2>1, <2>3, <2>4, BillsStay DEF BillHeld, SetPosted
    <3>2. /\ SingleBill(i)
          /\ \/ \E d \in Call : Owns(d, i) /\ call[d].pc = "post"
             \/ \A d \in Call : ~Owns(d, i)
      BY <3>1 DEF IInv, BillHeld
    <3>3. CASE \E d \in Call : d # c /\ Owns(d, i) /\ call[d].pc = "post"
      <4>1. PICK d \in Call : d # c /\ Owns(d, i) /\ call[d].pc = "post"
        BY <3>3
      <4>2. Owns(d, i)' /\ call'[d].pc = "post"
        BY <1>4, <4>1 DEF Owns
      <4> QED
        BY <3>2, <4>2, BillsStay DEF BillHeld, SetPosted
    <3>4. CASE ~\E d \in Call : d # c /\ Owns(d, i) /\ call[d].pc = "post"
      <4>1. \A d \in Call : ~Owns(d, i)'
        BY <1>4, <3>2, <3>4, <2>2, <2>4 DEF IInv, OneOwner, Owns
      <4> QED
        BY <1>3, <3>2, <4>1, BillsStay DEF BillHeld, SetPosted
    <3> QED
      BY <3>3, <3>4
  <2>5. CASE h # i
    <3>1. \A d \in Call : Owns(d, h)' <=> Owns(d, h)
      BY <1>1, <1>4, <2>5 DEF Owns
    <3>2. \A d \in Call : Owns(d, h) /\ call[d].pc = "post" => call'[d].pc = "post"
      BY <1>1, <1>4, <2>5 DEF Owns
    <3> QED
      BY <1>3, <2>1, <2>3, <2>5, <3>1, <3>2, QuietHeld DEF SetPosted
  <2> QED
    BY <2>4, <2>5
<1> QED
  BY <1>5, <1>6, <1>7, <1>8 DEF IInv

LEMMA StepSetFailed ==
  ASSUME IInv, TypeOK', NEW c \in Call, SetFailed(c)
  PROVE  IInv'
<1>1. PICK i \in Invoice : call[c].invoice = i
  BY DEF IInv, TypeOK, SetFailed
<1>2. TypeOK /\ call[c].pc = "fail" /\ CallOK(c) /\ call[c].owner
  BY DEF IInv, SetFailed, CallOK
<1>3. /\ row'[i].status = "failed"
      /\ \A h \in Invoice : h # i => row'[h] = row[h]
  BY <1>1, <1>2 DEF SetFailed, SetStatus, TypeOK, Row
<1>4. /\ \A d \in Call : d # c => call'[d] = call[d]
      /\ call'[c].pc = "idle" /\ ~call'[c].owner
  BY <1>2, LeaveEffect DEF SetFailed
<1>5. OneOwner'
  BY <1>4 DEF IInv, OneOwner
<1>6. \A d \in Call : d # c => ~Owns(d, i)
  BY <1>1, <1>2 DEF IInv, OneOwner, Owns
<1>7. ASSUME NEW d \in Call PROVE CallOK(d)'
  <2>1. CASE d = c
    BY <1>4, <2>1 DEF CallOK
  <2>2. CASE d # c
    BY <1>2, <1>3, <1>4, <1>6, <2>2 DEF IInv, CallOK, SetFailed, TypeOK, Owns
  <2> QED
    BY <2>1, <2>2
<1>8. PostedFor'
  BY <1>1, <1>3 DEF IInv, PostedFor, SetFailed
<1>9. ASSUME NEW h \in Invoice PROVE RowOK(h)' /\ LookedWell(h)' /\ BillHeld(h)'
  <2>1. RowOK(h)'
    BY <1>3 DEF IInv, RowOK
  <2>2. \A d \in Call : Owns(d, h)' => d # c /\ Owns(d, h) /\ call'[d] = call[d]
    BY <1>4 DEF Owns
  <2>3. LookedWell(h)'
    BY <2>2, QuietLooked DEF SetFailed
  <2>4. CASE h = i
    <3>1. Owns(c, i)
      BY <1>1, <1>2 DEF Owns
    <3>2. failures = 0 => BillsFor(i) = {}
      BY <1>2, <1>6, <3>1 DEF IInv, BillHeld
    <3> QED
      BY <2>1, <2>3, <2>4, <3>2, BillsStay DEF BillHeld, SetFailed
  <2>5. CASE h # i
    <3>1. \A d \in Call : Owns(d, h)' <=> Owns(d, h)
      BY <1>1, <1>4, <2>5 DEF Owns
    <3>2. \A d \in Call : Owns(d, h) /\ call[d].pc = "post" => call'[d].pc = "post"
      BY <1>1, <1>4, <2>5 DEF Owns
    <3> QED
      BY <1>3, <2>1, <2>3, <2>5, <3>1, <3>2, QuietHeld DEF SetFailed
  <2> QED
    BY <2>4, <2>5
<1> QED
  BY <1>5, <1>7, <1>8, <1>9 DEF IInv

LEMMA StepFailOwner ==
  ASSUME IInv, TypeOK', NEW c \in Call, FailOwner(c)
  PROVE  IInv'
<1>1. TypeOK /\ call[c].owner /\ call[c].pc # "idle" /\ CallOK(c)
  BY DEF IInv, FailOwner
<1>2. /\ \A d \in Call : d # c => call'[d] = call[d]
      /\ call'[c].pc = "fail" /\ call'[c].owner = call[c].owner
      /\ call'[c].invoice = call[c].invoice
  BY <1>1, GotoEffect DEF FailOwner, CallPC
<1>3. OneOwner'
  BY <1>2 DEF IInv, OneOwner
<1>4. CallOK(c)'
  BY <1>1, <1>2 DEF CallOK, FailOwner
<1>5. ASSUME NEW d \in Call PROVE CallOK(d)'
  BY <1>2, <1>4, CallStays DEF FailOwner
<1>6. ASSUME NEW h \in Invoice PROVE LookedWell(h)' /\ BillHeld(h)'
  <2>1. \A d \in Call : Owns(d, h)' /\ call'[d].pc \in {"lookup", "create"} =>
                           Owns(d, h) /\ call[d].pc \in {"lookup", "create"}
    BY <1>2 DEF Owns
  <2> QED
    BY <1>1, <2>1, QuietLooked, FailedHeld DEF FailOwner
<1> QED
  BY <1>3, <1>5, <1>6, RowsStay DEF IInv, FailOwner

LEMMA StepLoseAnswer ==
  ASSUME IInv, TypeOK', NEW c \in Call, LoseAnswer(c)
  PROVE  IInv'
<1>1. PICK i \in Invoice : call[c].invoice = i
  BY DEF IInv, TypeOK, LoseAnswer
<1>2. /\ TypeOK /\ call[c].pc = "create" /\ CallOK(c)
      /\ call[c].owner /\ Owns(c, i)
  BY <1>1 DEF IInv, CallOK, LoseAnswer, Owns
<1>3. PICK b \in Bill : maker[b] = None /\ maker' = [maker EXCEPT ![b] = i]
  BY <1>1 DEF LoseAnswer
<1>4. /\ \A d \in Call : d # c => call'[d] = call[d]
      /\ call'[c].pc = "fail" /\ call'[c].invoice = i
      /\ call'[c].owner = call[c].owner
  BY <1>1, <1>2, GotoEffect DEF LoseAnswer, CallPC
<1>5. CallOK(c)'
  BY <1>1, <1>2, <1>4 DEF CallOK, LoseAnswer
<1>6. /\ OneOwner' /\ PostedFor'
      /\ \A d \in Call : d # c => CallOK(d)'
      /\ \A h \in Invoice : RowOK(h)' /\ LookedWell(h)'
  BY <1>2, <1>3, <1>4, BillMade DEF LoseAnswer
<1>7. \A h \in Invoice : BillHeld(h)'
  BY <1>2, FailedHeld DEF LoseAnswer
<1> QED
  BY <1>5, <1>6, <1>7 DEF IInv

\* Calls die, at a failure.
LEMMA StepDie ==
  ASSUME IInv, TypeOK', Fail, UNCHANGED <<row, maker>>,
         \A d \in Call : call'[d] = call[d] \/ call'[d] = NoCall
  PROVE  IInv'
<1>1. OneOwner'
  BY NoCallType DEF IInv, OneOwner
<1>2. \A d \in Call : CallOK(d)'
  BY CallStays
<1>3. ASSUME NEW h \in Invoice PROVE LookedWell(h)' /\ BillHeld(h)'
  <2>1. \A d \in Call : Owns(d, h)' => Owns(d, h) /\ call'[d] = call[d]
    BY NoCallType DEF Owns
  <2> QED
    BY <2>1, QuietLooked, FailedHeld DEF IInv
<1> QED
  BY <1>1, <1>2, <1>3, RowsStay DEF IInv

\* A claim grows stale: it has no owner, who would be done.
LEMMA StepAge ==
  ASSUME IInv, TypeOK', Prompt, NEW i \in Invoice, Age(i)
  PROVE  IInv'
<1>1. TypeOK /\ \A d \in Call : ~Owns(d, i)
  BY DEF IInv, Age, Owned, Owns
<1>2. /\ row'[i].status = row[i].status /\ row'[i].status = "pending"
      /\ \A h \in Invoice : h # i => row'[h] = row[h]
      /\ \A h \in Invoice : row'[h].status = row[h].status
  BY <1>1 DEF Age, TypeOK, Row
<1>3. OneOwner' /\ PostedFor'
  BY <1>2 DEF IInv, OneOwner, PostedFor, Age
<1>4. ASSUME NEW d \in Call PROVE CallOK(d)'
  <2>1. CallOK(d) /\ call'[d] = call[d] /\ maker' = maker
    BY DEF IInv, Age
  <2>2. call[d].owner => row'[call[d].invoice] = row[call[d].invoice]
    BY <1>1, <1>2, <2>1 DEF TypeOK, Owns, CallOK
  <2> QED
    BY <2>1, <2>2 DEF CallOK
<1>5. ASSUME NEW h \in Invoice PROVE RowOK(h)' /\ LookedWell(h)' /\ BillHeld(h)'
  <2>1. RowOK(h)'
    BY <1>2 DEF IInv, RowOK
  <2>2. call' = call /\ \A d \in Call : Owns(d, h)' <=> Owns(d, h)
    BY DEF Age, Owns
  <2> QED
    BY <1>2, <2>1, <2>2, QuietLooked, QuietHeld DEF Age
<1> QED
  BY <1>3, <1>4, <1>5 DEF IInv

LEMMA InvStep == Prompt /\ IInv /\ [Next]_vars => IInv'
<1> SUFFICES ASSUME Prompt, IInv, [Next]_vars PROVE IInv'
  OBVIOUS
<1>1. TypeOK'
  BY TypeStep DEF IInv
<1>2. ASSUME NEW c \in Call, Step(c) PROVE IInv'
  BY <1>1, <1>2, StepClaim, StepRead, StepFind, StepRetry, StepReclaim, StepPre,
     StepLookup, StepCreate, StepPosted, StepSetFailed DEF Step
<1>3. ASSUME NEW c \in Call, FailCall(c) PROVE IInv'
  <2>1. \A d \in Call : call'[d] = call[d] \/ call'[d] = NoCall
    BY <1>3 DEF FailCall, Leave, IInv, TypeOK
  <2> QED
    BY <1>1, <1>3, <2>1, StepDie DEF FailCall
<1>4. CASE Crash
  BY <1>1, <1>4, StepDie DEF Crash
<1>5. CASE UNCHANGED vars
  <2>1. \A i \in Invoice : LookedWell(i)' /\ BillHeld(i)'
    BY <1>5, QuietLooked, QuietHeld DEF vars, Owns
  <2>2. OneOwner' /\ \A c \in Call : CallOK(c)'
    BY <1>5 DEF vars, IInv, OneOwner, CallOK
  <2> QED
    BY <1>1, <1>5, <2>1, <2>2, RowsStay DEF vars, IInv
<1> QED
  BY <1>1, <1>2, <1>3, <1>4, <1>5, StepStart, StepFailOwner, StepLoseAnswer, StepAge
     DEF Next

THEOREM Invariant == ASSUME Prompt PROVE Spec => []IInv
BY InvInit, InvStep, PTL DEF Spec

-----------------------------------------------------------------------------
(* What it says of bills.                                                  *)

\* One call at a time is the writer of an invoice (the INSERT, the retry and the
\* reclaim of writeInvoiceToQbo), if no owner outlives STALE_MS.
THEOREM OwnedOnce == ASSUME Prompt PROVE Spec => []OneOwner
<1>1. IInv => OneOwner
  BY DEF IInv
<1> QED
  BY <1>1, Invariant, PTL

\* An invoice gets one bill: unless a failure meets bills of other invoices under its
\* document number, or its own bill is not recognised.  The bill of a posted row was made
\* for its invoice, or for a look-alike (the reconciliation before the create).
THEOREM BilledOnce == ASSUME Prompt PROVE Spec => []BillExact
<1>1. IInv => OneBill
  <2>1. SUFFICES ASSUME IInv, NEW i \in Invoice, failures = 0 \/ (Alone(i) /\ Recognised(i))
                 PROVE  Cardinality(BillsFor(i)) <= 1
    BY DEF OneBill
  <2>2. SingleBill(i)
    BY <2>1 DEF IInv, LookedWell, BillHeld, SingleBill
  <2>3. CASE BillsFor(i) = {}
    BY <2>3, FS_EmptySet
  <2>4. CASE BillsFor(i) # {}
    <3>1. PICK b \in BillsFor(i) : BillsFor(i) = {b}
      BY <2>2, <2>4 DEF SingleBill
    <3> QED
      BY <3>1, FS_Singleton
  <2> QED
    BY <2>3, <2>4
<1>2. IInv => PostedIsOurs
  BY InvoicesAssumption DEF IInv, PostedFor, PostedIsOurs, IsFor
<1>3. IInv => BillExact
  BY <1>1, <1>2 DEF BillExact
<1> QED
  BY <1>3, Invariant, PTL
=============================================================================
