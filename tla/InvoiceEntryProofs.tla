------------------------- MODULE InvoiceEntryProofs -------------------------
(***************************************************************************)
(* Theorems about InvoiceEntry for every set of invoices and calls, every  *)
(* limit and any number of failures.                                       *)
(***************************************************************************)
EXTENDS InvoiceEntry, FiniteSetTheorems, TLAPS

-----------------------------------------------------------------------------
(* The ways the stream and a call are written.                             *)

\* What an append leaves alone, and what it adds.
LEMMA AppendFacts ==
  ASSUME TypeOK, NEW i \in Invoice, NEW type \in EventType, NEW bill \in Bill,
         Append1(i, type, bill)
  PROVE  /\ log' \in [Invoice -> Seq(Event)]
         /\ \A h \in Invoice : h # i => log'[h] = log[h]
         /\ Len(log[i]) \in Nat /\ DOMAIN log[i] = 1 .. Len(log[i])
         /\ Len(log'[i]) = Len(log[i]) + 1
         /\ DOMAIN log'[i] = 1 .. (Len(log[i]) + 1)
         /\ \A k \in 1 .. Len(log[i]) : log'[i][k] = log[i][k]
         /\ log'[i][Len(log[i]) + 1].type = type
<1> DEFINE e == [type |-> type, bill |-> bill]
<1>1. e \in Event
  BY DEF Event
<1>2. log[i] \in Seq(Event)
  BY DEF TypeOK
<1>3. log' = [log EXCEPT ![i] = Append(log[i], e)]
  BY DEF Append1
<1>4. log'[i] = Append(log[i], e)
  BY <1>3 DEF TypeOK
<1> HIDE DEF e
<1>5. /\ Append(log[i], e) \in Seq(Event)
      /\ Len(Append(log[i], e)) = Len(log[i]) + 1
      /\ \A k \in 1 .. Len(log[i]) : Append(log[i], e)[k] = log[i][k]
      /\ Append(log[i], e)[Len(log[i]) + 1] = e
  BY <1>1, <1>2
<1>6. e.type = type
  BY DEF e
<1> QED
  BY <1>2, <1>3, <1>4, <1>5, <1>6 DEF TypeOK

\* The types a call keeps.
CallsOK == /\ call \in [Call -> CallState]
           /\ \A q \in Call : call[q].pc # "idle" => call[q].inv \in Invoice

LEMMA SetCallType ==
  ASSUME TypeOK, NEW q \in Call, NEW s \in CallState,
         s.pc # "idle" => s.inv \in Invoice, call' = [call EXCEPT ![q] = s]
  PROVE  CallsOK'
BY DEF TypeOK, CallsOK

LEMMA NoCallType == NoCall \in CallState /\ NoCall.pc = "idle"
BY DEF NoCall, Started, CallState, PC, NoBill, Bill

LEMMA StartedType ==
  ASSUME TypeOK, NEW q \in Call, NEW i \in Invoice, NEW pc \in PC,
         \/ call' = [call EXCEPT ![q] = Started(pc, i, FALSE, TRUE)]
         \/ call' = [call EXCEPT ![q] = Started(pc, i, TRUE, FALSE)]
  PROVE  CallsOK'
<1> DEFINE a == Started(pc, i, FALSE, TRUE)
           b == Started(pc, i, TRUE, FALSE)
<1>1. a \in CallState /\ a.inv \in Invoice /\ b \in CallState /\ b.inv \in Invoice
  BY DEF Started, CallState, NoBill, Bill
<1>2. call' = [call EXCEPT ![q] = a] \/ call' = [call EXCEPT ![q] = b]
  OBVIOUS
<1> HIDE DEF a, b
<1> QED
  BY <1>1, <1>2, SetCallType

\* A call that has read the length of a stream.
LEMMA ReadType ==
  ASSUME NEW c \in CallState, NEW pc \in PC, NEW n \in Nat
  PROVE  /\ [c EXCEPT !.pc = pc, !.seq = n] \in CallState
         /\ [c EXCEPT !.pc = pc, !.seq = n].inv = c.inv
BY DEF CallState

LEMMA GotoType ==
  ASSUME TypeOK, NEW q \in Call, call[q].pc # "idle", NEW pc \in PC, Goto(q, pc)
  PROVE  CallsOK'
BY DEF TypeOK, CallsOK, Goto, CallState

LEMMA LeaveType ==
  ASSUME TypeOK, NEW q \in Call, call[q].pc # "idle", Leave(q)
  PROVE  CallsOK'
BY DEF TypeOK, CallsOK, Leave, CallState, Started, NoCall, PC, NoBill, Bill

LEMMA WithBillType ==
  ASSUME TypeOK, NEW q \in Call, call[q].pc # "idle",
         NEW target \in {"ledger", "quickbooks"}, NEW no \in Nat,
         WithBill(q, target, no)
  PROVE  CallsOK'
<1> DEFINE s == [call[q] EXCEPT !.pc = "seal", !.bill = [target |-> target, no |-> no]]
<1>1. s \in CallState /\ s.inv \in Invoice
  BY DEF TypeOK, CallState, Bill, PC
<1>2. call' = [call EXCEPT ![q] = s]
  BY DEF WithBill
<1> HIDE DEF s
<1> QED
  BY <1>1, <1>2, SetCallType

-----------------------------------------------------------------------------
(* Type correctness.                                                       *)

LEMMA InitType == Init => TypeOK
BY DEF Init, TypeOK, CallState, Started, NoCall, PC, NoBill, Bill

LEMMA WorkType ==
  ASSUME TypeOK, NEW q \in Call, Work(q) PROVE TypeOK'
<1>1. CASE ProjectState(q) \/ CheckEntered(q) \/ ReadTail(q)
  <2>1. CallsOK'
    <3>1. CASE ProjectState(q)
      BY <3>1, GotoType, LeaveType DEF ProjectState, PC
    <3>2. CASE CheckEntered(q)
      <4> DEFINE s == [call[q] EXCEPT !.pc = "bill", !.seq = Len(log[call[q].inv])]
      <4>1. call[q].inv \in Invoice /\ s \in CallState /\ s.inv = call[q].inv
        <5>1. call[q] \in CallState /\ call[q].inv \in Invoice
          BY <3>2 DEF CheckEntered, TypeOK
        <5>2. Len(log[call[q].inv]) \in Nat
          BY <5>1 DEF TypeOK
        <5> QED
          BY <5>1, <5>2, ReadType DEF PC
      <4>2. call[q].pc # "idle" /\ (Leave(q) \/ call' = [call EXCEPT ![q] = s])
        BY <3>2 DEF CheckEntered
      <4> HIDE DEF s
      <4> QED
        BY <4>1, <4>2, LeaveType, SetCallType
    <3>3. CASE ReadTail(q)
      <4> DEFINE pc == IF call[q].rejects THEN "rejectWrite" ELSE "clearWrite"
                 s == [call[q] EXCEPT !.pc = pc, !.seq = Len(log[call[q].inv])]
      <4>1. s \in CallState /\ s.inv = call[q].inv /\ call[q].inv \in Invoice
        <5>1. call[q] \in CallState /\ call[q].inv \in Invoice
          BY <3>3 DEF ReadTail, TypeOK
        <5>2. Len(log[call[q].inv]) \in Nat
          BY <5>1 DEF TypeOK
        <5>3. pc \in PC
          BY DEF PC
        <5> HIDE DEF pc
        <5> QED
          BY <5>1, <5>2, <5>3, ReadType
      <4>2. call' = [call EXCEPT ![q] = s]
        BY <3>3 DEF ReadTail
      <4> HIDE DEF s
      <4> QED
        BY <4>1, <4>2, SetCallType
    <3> QED
      BY <1>1, <3>1, <3>2, <3>3
  <2> QED
    BY <1>1, <2>1 DEF ProjectState, CheckEntered, ReadTail, TypeOK, CallsOK
<1>2. CASE RejectWrite(q) \/ ClearWrite(q) \/ Receive(q) \/ SealSubmitted(q)
  <2>1. call[q].inv \in Invoice /\ call[q].pc # "idle" /\ call[q].bill \in Bill
    BY <1>2 DEF RejectWrite, ClearWrite, Receive, SealSubmitted, TypeOK, CallState
  <2>2. CallsOK'
    BY <1>2, <2>1, GotoType, LeaveType
       DEF RejectWrite, ClearWrite, Receive, SealSubmitted, PC
  <2>3. log' \in [Invoice -> Seq(Event)]
    <3>1. NoBill \in Bill
      BY DEF NoBill, Bill
    <3>2. {"rejected", "override", "received", "submitted"} \subseteq EventType
      BY DEF EventType
    <3>3. CASE log' = log
      BY <3>3 DEF TypeOK
    <3>4. CASE log' # log
      BY <1>2, <2>1, <3>1, <3>2, <3>4, AppendFacts
         DEF RejectWrite, ClearWrite, Receive, SealSubmitted
    <3> QED
      BY <3>3, <3>4
  <2> QED
    BY <1>2, <2>2, <2>3
       DEF RejectWrite, ClearWrite, Receive, SealSubmitted, TypeOK, CallsOK
<1>3. CASE RecordLedgerBill(q)
  <2>1. CallsOK'
    BY <1>3, WithBillType, GotoType DEF RecordLedgerBill, TypeOK, PC
  <2>2. ledger' \in [Invoice -> Nat] /\ lastBill' \in Nat
    BY <1>3 DEF RecordLedgerBill, TypeOK
  <2> QED
    BY <1>3, <2>1, <2>2 DEF RecordLedgerBill, TypeOK, CallsOK
<1>4. CASE SelectLedgerBill(q) \/ PostToQuickBooks(q) \/ LoseSlot(q)
  <2>1. CallsOK'
    BY <1>4, WithBillType, GotoType, LeaveType
       DEF SelectLedgerBill, PostToQuickBooks, LoseSlot, AfterLoss, TypeOK, PC
  <2> QED
    BY <1>4, <2>1 DEF SelectLedgerBill, PostToQuickBooks, LoseSlot, TypeOK, CallsOK
<1>5. CASE DeleteLedgerBill(q)
  BY <1>5, LeaveType DEF DeleteLedgerBill, TypeOK, CallsOK
<1>6. CASE ReleaseApEntry(q)
  BY <1>6 DEF ReleaseApEntry, TypeOK, CallState, Started, NoCall, PC, NoBill, Bill
<1> QED
  BY <1>1, <1>2, <1>3, <1>4, <1>5, <1>6 DEF Work

LEMMA StepType == TypeOK /\ [Next]_vars => TypeOK'
<1> SUFFICES ASSUME TypeOK, [Next]_vars PROVE TypeOK'
  OBVIOUS
<1>1. ASSUME NEW i \in Invoice, PauseForReview(i) PROVE TypeOK'
  <2>1. log' \in [Invoice -> Seq(Event)]
    BY <1>1, AppendFacts DEF PauseForReview, EventType, NoBill, Bill
  <2> QED
    BY <1>1, <2>1 DEF PauseForReview, TypeOK
<1>2. ASSUME NEW q \in Call, NEW i \in Invoice,
             BeginApprove(q, i) \/ BeginUpload(q, i) \/ BeginReject(q, i)
      PROVE  TypeOK'
  <2>1. CallsOK'
    BY <1>2, StartedType
       DEF BeginApprove, BeginUpload, Reserve, BeginReject, PC
  <2> QED
    <3>1. /\ reserved' = reserved + 1 \/ reserved' = reserved
          /\ UNCHANGED <<log, ledger, lastBill, failures>>
      BY <1>2, Zenon DEF BeginApprove, BeginUpload, Reserve, BeginReject
    <3> QED
      BY <2>1, <3>1 DEF TypeOK, CallsOK
<1>3. ASSUME NEW q \in Call, Work(q) PROVE TypeOK'
  BY <1>3, WorkType
<1>4. ASSUME NEW q \in Call, DbFault(q) PROVE TypeOK'
  <2>1. CallsOK'
    BY <1>4, LeaveType, NoCallType, SetCallType DEF DbFault
  <2> QED
    BY <1>4, <2>1 DEF DbFault, TypeOK, CallsOK
<1>5. ASSUME NEW gone \in SUBSET Call, Crash(gone) PROVE TypeOK'
  BY <1>5 DEF Crash, TypeOK, CallState, Started, NoCall, PC, NoBill, Bill
<1>6. CASE UNCHANGED vars
  BY <1>6 DEF vars, TypeOK
<1> QED
  BY <1>1, <1>2, <1>3, <1>4, <1>5, <1>6 DEF Next

\* The streams, the ledger and the calls keep their types.
THEOREM Typing == Spec => []TypeOK
BY InitType, StepType, PTL DEF Spec

-----------------------------------------------------------------------------
(* No entry on top of an entry.                                            *)

\* Among the first n events of a stream every submitted one has been rejected
\* since.
Clear(s, n) ==
    \A j \in 1 .. n : s[j].type = "submitted"
                          => \E m \in j .. n : s[m].type = "rejected"

\* The calls that have found their invoice not entered.
Knows(q) == call[q].pc \in {"bill", "select", "seal"}
Known(q) == Knows(q) => /\ call[q].seq \in 0 .. Len(log[call[q].inv])
                        /\ Clear(log[call[q].inv], call[q].seq)

\* What the projection of the whole stream tells about it.
Projected(i) == LastIs(i, "submitted") \/ Clear(log[i], Len(log[i]))

EntryInv ==
    /\ NoDoubleEntry
    /\ \A i \in Invoice : Projected(i)
    /\ \A q \in Call : Known(q)

\* Only a call that knows adds a submitted event, in the slot it knows to be
\* the next one; an invoice is put under review before anything else.
LogStep ==
    \/ UNCHANGED log
    \/ \E i \in Invoice, type \in EventType, bill \in Bill :
          /\ Append1(i, type, bill)
          /\ type = "submitted" =>
                \E q \in Call : Knows(q) /\ call[q].inv = i /\ call[q].seq = Len(log[i])
          /\ type = "review_paused" => log[i] = <<>>

\* A call comes to know by reading a stream that it does not write.
CallStep(q) ==
    Knows(q)' => \/ Knows(q) /\ call'[q].inv = call[q].inv /\ call'[q].seq = call[q].seq
                 \/ /\ UNCHANGED log
                    /\ call'[q].seq = Len(log[call'[q].inv])
                    /\ ~LastIs(call'[q].inv, "submitted")

LEMMA StepLog == TypeOK /\ [Next]_vars => LogStep
<1> SUFFICES ASSUME TypeOK, [Next]_vars, log' # log PROVE LogStep
  BY DEF LogStep
<1>1. NoBill \in Bill /\ {"rejected", "override", "received", "review_paused"} \subseteq EventType
  BY DEF NoBill, Bill, EventType
<1>2. ASSUME NEW i \in Invoice, PauseForReview(i) PROVE LogStep
  BY <1>1, <1>2 DEF PauseForReview, LogStep
<1>3. ASSUME NEW q \in Call, Work(q) PROVE LogStep
  <2>1. RejectWrite(q) \/ ClearWrite(q) \/ Receive(q) \/ SealSubmitted(q)
    BY <1>3 DEF Work, ProjectState, ReadTail, CheckEntered, RecordLedgerBill,
         SelectLedgerBill, PostToQuickBooks, LoseSlot, DeleteLedgerBill, ReleaseApEntry
  <2>2. call[q].inv \in Invoice /\ call[q].bill \in Bill
    BY <2>1 DEF RejectWrite, ClearWrite, Receive, SealSubmitted, TypeOK, CallState
  <2>3. CASE RejectWrite(q) \/ ClearWrite(q) \/ Receive(q)
    <3>1. PICK type \in {"rejected", "override", "received"} :
             Append1(call[q].inv, type, NoBill)
      BY <2>3 DEF RejectWrite, ClearWrite, Receive
    <3> QED
      BY <1>1, <2>2, <3>1 DEF LogStep
  <2>4. CASE SealSubmitted(q)
    <3>1. /\ Append1(call[q].inv, "submitted", call[q].bill)
          /\ Knows(q) /\ call[q].seq = Len(log[call[q].inv])
      BY <2>4 DEF SealSubmitted, SlotFree, Knows
    <3>2. "submitted" \in EventType
      BY DEF EventType
    <3> QED
      BY <2>2, <3>1, <3>2 DEF LogStep
  <2> QED
    BY <2>1, <2>3, <2>4
<1> QED
  BY <1>2, <1>3 DEF Next, vars, BeginApprove, BeginUpload, Reserve, BeginReject,
                    DbFault, Crash

\* The ways a step leaves the calls it is not about.
LEMMA OtherCalls ==
  ASSUME TypeOK, NEW q \in Call, NEW s, call' = [call EXCEPT ![q] = s]
  PROVE  /\ call'[q] = s
         /\ \A p \in Call \ {q} : call'[p] = call[p] /\ CallStep(p)
BY DEF TypeOK, CallStep, Knows

LEMMA StepCalls == TypeOK /\ [Next]_vars => \A q \in Call : CallStep(q)
<1> SUFFICES ASSUME TypeOK, [Next]_vars, NEW p \in Call PROVE CallStep(p)
  OBVIOUS
<1> USE DEF Knows
<1>1. CASE call' = call
  BY <1>1 DEF CallStep
<1>2. ASSUME NEW q \in Call, Leave(q) PROVE CallStep(p)
  <2> DEFINE s == IF call[q].held THEN Started("release", call[q].inv, FALSE, TRUE)
                  ELSE NoCall
  <2>1. call' = [call EXCEPT ![q] = s]
    BY <1>2 DEF Leave
  <2>2. s.pc \notin {"bill", "select", "seal"}
    BY DEF Started, NoCall
  <2> HIDE DEF s
  <2> QED
    BY <2>1, <2>2, OtherCalls DEF CallStep
<1>3. ASSUME NEW q \in Call, NEW pc, Goto(q, pc),
             pc \in {"bill", "select", "seal"} => Knows(q)
      PROVE  CallStep(p)
  BY <1>3 DEF Goto, CallStep, TypeOK, CallState
<1>4. ASSUME NEW q \in Call, NEW target, NEW no, WithBill(q, target, no), Knows(q)
      PROVE  CallStep(p)
  <2> DEFINE s == [call[q] EXCEPT !.pc = "seal",
                                  !.bill = [target |-> target, no |-> no]]
  <2>1. call' = [call EXCEPT ![q] = s]
    BY <1>4 DEF WithBill
  <2>2. s.inv = call[q].inv /\ s.seq = call[q].seq
    BY DEF TypeOK, CallState
  <2> HIDE DEF s
  <2> QED
    BY <1>4, <2>1, <2>2, OtherCalls DEF CallStep
<1>5. ASSUME NEW q \in Call, NEW i \in Invoice,
             BeginApprove(q, i) \/ BeginUpload(q, i) \/ BeginReject(q, i)
      PROVE  CallStep(p)
  <2>1. PICK s : /\ call' = [call EXCEPT ![q] = s]
                 /\ s.pc \notin {"bill", "select", "seal"}
    BY <1>5 DEF BeginApprove, BeginUpload, Reserve, BeginReject, Started
  <2> QED
    BY <2>1, OtherCalls DEF CallStep
<1>6. ASSUME NEW q \in Call, Work(q) PROVE CallStep(p)
  <2>1. CASE ReadTail(q)
    <3> DEFINE pc == IF call[q].rejects THEN "rejectWrite" ELSE "clearWrite"
               s == [call[q] EXCEPT !.pc = pc, !.seq = Len(log[call[q].inv])]
    <3>1. call' = [call EXCEPT ![q] = s]
      BY <2>1 DEF ReadTail
    <3>2. pc \notin {"bill", "select", "seal"}
      OBVIOUS
    <3> HIDE DEF pc
    <3>3. s.pc = pc
      BY DEF TypeOK, CallState
    <3> HIDE DEF s
    <3> QED
      BY <3>1, <3>2, <3>3, OtherCalls DEF CallStep
  <2>2. CASE CheckEntered(q)
    <3>1. CASE Leave(q)
      BY <3>1, <1>2
    <3>2. CASE ~Leave(q)
      <4> DEFINE s == [call[q] EXCEPT !.pc = "bill", !.seq = Len(log[call[q].inv])]
      <4>1. call' = [call EXCEPT ![q] = s]
        BY <2>2, <3>2 DEF CheckEntered
      <4>2. s.inv = call[q].inv /\ s.seq = Len(log[call[q].inv])
        BY DEF TypeOK, CallState
      <4>3. UNCHANGED log /\ ~LastIs(call[q].inv, "submitted")
        BY <2>2, <3>2 DEF CheckEntered
      <4> HIDE DEF s
      <4> QED
        BY <4>1, <4>2, <4>3, OtherCalls DEF CallStep
    <3> QED
      BY <3>1, <3>2
  <2>3. CASE ReleaseApEntry(q)
    BY <2>3, OtherCalls DEF ReleaseApEntry, NoCall, Started, CallStep
  <2>4. CASE ProjectState(q) \/ RejectWrite(q) \/ ClearWrite(q) \/ Receive(q)
             \/ SealSubmitted(q) \/ LoseSlot(q) \/ DeleteLedgerBill(q)
    BY <2>4, <1>2, <1>3
       DEF ProjectState, RejectWrite, ClearWrite, Receive, SealSubmitted, LoseSlot,
           AfterLoss, DeleteLedgerBill
  <2>5. CASE RecordLedgerBill(q) \/ SelectLedgerBill(q) \/ PostToQuickBooks(q)
    BY <2>5, <1>2, <1>3, <1>4
       DEF RecordLedgerBill, SelectLedgerBill, PostToQuickBooks
  <2> QED
    BY <1>6, <2>1, <2>2, <2>3, <2>4, <2>5 DEF Work
<1>7. ASSUME NEW q \in Call, DbFault(q) PROVE CallStep(p)
  BY <1>7, <1>2, OtherCalls DEF DbFault, NoCall, Started, CallStep
<1>8. ASSUME NEW gone \in SUBSET Call, Crash(gone) PROVE CallStep(p)
  BY <1>8 DEF Crash, NoCall, Started, CallStep
<1> QED
  BY <1>1, <1>5, <1>6, <1>7, <1>8 DEF Next, vars, PauseForReview

\* What the append of a step makes of the streams.
LEMMA AppendKeeps ==
  ASSUME TypeOK, EntryInv, LogStep, TypeOK'
  PROVE  /\ NoDoubleEntry'
         /\ \A i \in Invoice : Projected(i)'
         /\ \A i \in Invoice : Len(log[i]) \in Nat /\ Len(log'[i]) >= Len(log[i])
         /\ \A i \in Invoice : \A n \in 0 .. Len(log[i]) : Clear(log[i], n) => Clear(log'[i], n)
<1>0. \A h \in Invoice : Len(log[h]) \in Nat /\ DOMAIN log[h] = 1 .. Len(log[h])
  BY DEF TypeOK
<1>1. CASE UNCHANGED log
  BY <1>0, <1>1 DEF EntryInv, NoDoubleEntry, Projected, LastIs, Clear
<1>2. CASE log' # log
  <2>1. PICK i \in Invoice, type \in EventType, bill \in Bill :
          /\ Append1(i, type, bill)
          /\ type = "submitted" =>
                \E q \in Call : Knows(q) /\ call[q].inv = i /\ call[q].seq = Len(log[i])
          /\ type = "review_paused" => log[i] = <<>>
    BY <1>2 DEF LogStep
  <2> DEFINE n == Len(log[i])
  <2>2. /\ \A h \in Invoice : h # i => log'[h] = log[h]
        /\ n \in Nat /\ DOMAIN log[i] = 1 .. n
        /\ Len(log'[i]) = n + 1 /\ DOMAIN log'[i] = 1 .. (n + 1)
        /\ \A k \in 1 .. n : log'[i][k] = log[i][k]
        /\ log'[i][n + 1].type = type
    BY <2>1, AppendFacts
  <2>3. type = "submitted" => Clear(log[i], n)
    BY <2>1 DEF EntryInv, Known
  <2>4. type = "review_paused" => n = 0
    BY <2>1
  <2> HIDE DEF n
  <2>5. NoDoubleEntry'
    <3> SUFFICES ASSUME NEW h \in Invoice, NEW j \in DOMAIN log'[h],
                        NEW k \in DOMAIN log'[h], j < k,
                        log'[h][j].type = "submitted", log'[h][k].type = "submitted"
                 PROVE  \E m \in j .. k : log'[h][m].type = "rejected"
      BY DEF NoDoubleEntry
    <3>1. CASE h # i
      BY <2>2, <3>1 DEF EntryInv, NoDoubleEntry
    <3>2. CASE h = i /\ k \in 1 .. n
      <4>1. j \in 1 .. n
        BY <2>2, <3>2
      <4>2. PICK m \in j .. k : log[i][m].type = "rejected"
        BY <2>2, <3>2, <4>1 DEF EntryInv, NoDoubleEntry
      <4> QED
        BY <2>2, <3>2, <4>1, <4>2
    <3>3. CASE h = i /\ k = n + 1
      <4>1. j \in 1 .. n /\ Clear(log[i], n)
        BY <2>2, <2>3, <3>3
      <4>2. PICK m \in j .. n : log[i][m].type = "rejected"
        BY <2>2, <4>1, <3>3 DEF Clear
      <4>3. m \in 1 .. n /\ m \in j .. k
        BY <2>2, <3>3, <4>1
      <4>4. log'[i][m] = log[i][m]
        BY <2>2, <4>3
      <4> QED
        BY <3>3, <4>2, <4>3, <4>4
    <3> QED
      BY <2>2, <3>1, <3>2, <3>3
  <2>6. ASSUME NEW h \in Invoice, NEW l \in 0 .. Len(log[h]), Clear(log[h], l)
        PROVE  Clear(log'[h], l)
    <3>1. CASE h # i
      BY <2>2, <2>6, <3>1 DEF Clear
    <3>2. CASE h = i
      <4>1. l \in 0 .. n
        BY <3>2, <2>6 DEF n
      <4>2. \A j \in 1 .. l : log'[i][j] = log[i][j]
        <5>1. \A j \in 1 .. l : j \in 1 .. n
          BY <2>2, <4>1
        <5> QED
          BY <2>2, <5>1
      <4>3. ASSUME NEW j \in 1 .. l, log'[i][j].type = "submitted"
            PROVE  \E m \in j .. l : log'[i][m].type = "rejected"
        <5>1. PICK m \in j .. l : log[i][m].type = "rejected"
          BY <2>6, <3>2, <4>2, <4>3 DEF Clear
        <5> QED
          BY <4>1, <4>2, <5>1
      <4> QED
        BY <3>2, <4>3 DEF Clear
    <3> QED
      BY <3>1, <3>2
  <2>7. ASSUME NEW h \in Invoice PROVE Projected(h)'
    <3>1. CASE h # i
      BY <2>2, <3>1 DEF EntryInv, Projected, LastIs, Clear
    <3>2. CASE h = i /\ type = "submitted"
      BY <2>2, <3>2 DEF Projected, LastIs
    <3>3. CASE h = i /\ type = "rejected"
      BY <2>2, <3>3 DEF Projected, Clear
    <3>4. CASE h = i /\ type = "review_paused"
      BY <2>2, <2>4, <3>4 DEF Projected, Clear
    <3>5. CASE h = i /\ type \in {"received", "override"}
      <4>1. CASE LastIs(i, "submitted")
        <5>1. PICK k \in 1 .. n :
                 /\ log[i][k].type = "submitted"
                 /\ \A j \in 1 .. n : j > k => log[i][j].type \notin Deciding
          BY <2>2, <4>1 DEF LastIs
        <5>2. type \notin Deciding
          BY <3>5 DEF Deciding
        <5>3. ASSUME NEW j \in 1 .. (n + 1), j > k PROVE log'[i][j].type \notin Deciding
          <6>1. CASE j = n + 1
            BY <2>2, <5>2, <6>1
          <6>2. CASE j # n + 1
            <7>1. j \in 1 .. n
              BY <2>2, <6>2
            <7> QED
              BY <2>2, <5>1, <5>3, <7>1
          <6> QED
            BY <6>1, <6>2
        <5>4. k \in DOMAIN log'[i] /\ log'[i][k].type = "submitted"
          BY <2>2, <5>1
        <5> QED
          BY <2>2, <3>5, <5>3, <5>4 DEF Projected, LastIs
      <4>2. CASE Clear(log[i], n)
        <5>1. ASSUME NEW j \in 1 .. (n + 1), log'[i][j].type = "submitted"
              PROVE  \E m \in j .. (n + 1) : log'[i][m].type = "rejected"
          <6>1. j \in 1 .. n /\ log[i][j].type = "submitted"
            BY <2>2, <3>5, <5>1
          <6>2. PICK m \in j .. n : log[i][m].type = "rejected"
            BY <4>2, <6>1 DEF Clear
          <6>3. m \in 1 .. n /\ m \in j .. (n + 1)
            BY <2>2, <6>1
          <6> QED
            BY <2>2, <6>2, <6>3
        <5>2. Clear(log'[i], Len(log'[i]))
          BY <2>2, <5>1 DEF Clear
        <5> QED
          BY <3>5, <5>2 DEF Projected
      <4> QED
        BY <4>1, <4>2 DEF EntryInv, Projected, n
    <3> QED
      BY <3>1, <3>2, <3>3, <3>4, <3>5 DEF EventType
  <2>8. ASSUME NEW h \in Invoice PROVE Len(log'[h]) >= Len(log[h])
    BY <1>0, <2>2 DEF n
  <2> QED
    BY <1>0, <2>5, <2>6, <2>7, <2>8
<1> QED
  BY <1>1, <1>2

LEMMA InitEntry == Init => EntryInv
BY DEF Init, EntryInv, NoDoubleEntry, Projected, Clear, Known, Knows, NoCall, Started

LEMMA StepEntry == TypeOK /\ TypeOK' /\ EntryInv /\ [Next]_vars => EntryInv'
<1> SUFFICES ASSUME TypeOK, TypeOK', EntryInv, [Next]_vars PROVE EntryInv'
  OBVIOUS
<1>1. LogStep /\ \A q \in Call : CallStep(q)
  BY StepLog, StepCalls
<1>2. ASSUME NEW q \in Call, Knows(q)'
      PROVE  /\ call'[q].seq \in 0 .. Len(log'[call'[q].inv])
             /\ Clear(log'[call'[q].inv], call'[q].seq)
  <2>1. call'[q].inv \in Invoice
    BY <1>2 DEF Knows, TypeOK
  <2>2. CASE Knows(q) /\ call'[q].inv = call[q].inv /\ call'[q].seq = call[q].seq
    <3>1. /\ call[q].seq \in 0 .. Len(log[call[q].inv])
          /\ Clear(log[call[q].inv], call[q].seq)
      BY <2>2 DEF EntryInv, Known
    <3> QED
      BY <1>1, <2>1, <2>2, <3>1, AppendKeeps
  <2>3. CASE /\ UNCHANGED log
             /\ call'[q].seq = Len(log[call'[q].inv])
             /\ ~LastIs(call'[q].inv, "submitted")
    <3>1. Clear(log[call'[q].inv], Len(log[call'[q].inv]))
      BY <2>1, <2>3 DEF EntryInv, Projected
    <3>2. Len(log[call'[q].inv]) \in Nat
      BY <2>1 DEF TypeOK
    <3> QED
      BY <2>3, <3>1, <3>2 DEF Clear
  <2> QED
    BY <1>1, <1>2, <2>2, <2>3 DEF CallStep
<1> QED
  BY <1>1, <1>2, AppendKeeps DEF EntryInv, Known

\* Two submitted events of an invoice have a rejection between them, however
\* many calls enter it at the same time: at most one takes the slot after the
\* stream it projected.
THEOREM EnteredOnce == Spec => []NoDoubleEntry
<1>1. EntryInv => NoDoubleEntry
  BY DEF EntryInv
<1> QED
  BY <1>1, InitType, StepType, InitEntry, StepEntry, PTL DEF Spec

-----------------------------------------------------------------------------
(* No bill is left behind.                                                 *)

\* A call that is to seal or to roll back the ledger bill of an invoice.
Holds(q, i) == /\ call[q].pc \in {"seal", "lost", "undo"}
               /\ call[q].inv = i /\ call[q].bill.target = "ledger"

\* Until something fails, each ledger bill is submitted or in such hands.
Covered == failures = 0 =>
    \A i \in Invoice : ledger[i] # 0 => Has(i, "submitted") \/ \E q \in Call : Holds(q, i)

LEMMA HasStays ==
  ASSUME TypeOK, LogStep, NEW i \in Invoice, Has(i, "submitted")
  PROVE  Has(i, "submitted")'
<1>1. CASE UNCHANGED log
  BY <1>1 DEF Has
<1>2. ASSUME NEW h \in Invoice, NEW type \in EventType, NEW bill \in Bill,
             Append1(h, type, bill)
      PROVE  Has(i, "submitted")'
  BY <1>2, AppendFacts DEF Has
<1> QED
  BY <1>1, <1>2 DEF LogStep

\* A step whose only call is q keeps the cover of an invoice that has one.
LEMMA CoverStays ==
  ASSUME TypeOK, LogStep, NEW q \in Call, NEW i \in Invoice,
         \A p \in Call \ {q} : call'[p] = call[p],
         Has(i, "submitted") \/ \E p \in Call : Holds(p, i),
         Holds(q, i) => Has(i, "submitted")' \/ Holds(q, i)'
  PROVE  Has(i, "submitted")' \/ \E p \in Call : Holds(p, i)'
<1>1. CASE Has(i, "submitted")
  BY <1>1, HasStays
<1>2. CASE Holds(q, i)
  BY <1>2
<1>3. ASSUME NEW p \in Call \ {q}, Holds(p, i) PROVE Holds(p, i)'
  BY <1>3 DEF Holds
<1> QED
  BY <1>1, <1>2, <1>3

LEMMA WorkCovers ==
  ASSUME TypeOK, TypeOK', LogStep, Covered, NEW q \in Call, Work(q), failures' = 0
  PROVE  Covered'
<1> SUFFICES ASSUME NEW i \in Invoice, ledger'[i] # 0
             PROVE  Has(i, "submitted")' \/ \E p \in Call : Holds(p, i)'
  BY DEF Covered
<1>0. failures = 0
  BY DEF Work, ProjectState, ReadTail, RejectWrite, ClearWrite, Receive, CheckEntered,
         RecordLedgerBill, SelectLedgerBill, PostToQuickBooks, SealSubmitted, LoseSlot,
         DeleteLedgerBill, ReleaseApEntry
<1>1. \A p \in Call \ {q} : call'[p] = call[p]
  <2>1. \E s : call' = [call EXCEPT ![q] = s]
    BY DEF Work, ProjectState, ReadTail, RejectWrite, ClearWrite, Receive, CheckEntered,
           RecordLedgerBill, SelectLedgerBill, PostToQuickBooks, SealSubmitted, LoseSlot,
           AfterLoss, DeleteLedgerBill, ReleaseApEntry, Goto, Leave, WithBill
  <2> QED
    BY <2>1 DEF TypeOK
<1>2. ASSUME ledger[i] # 0, Holds(q, i) => Has(i, "submitted")' \/ Holds(q, i)'
      PROVE  Has(i, "submitted")' \/ \E p \in Call : Holds(p, i)'
  <2>1. Has(i, "submitted") \/ \E p \in Call : Holds(p, i)
    BY <1>0, <1>2 DEF Covered
  <2> QED
    BY <1>1, <1>2, <2>1, CoverStays
<1>3. CASE /\ UNCHANGED ledger
           /\ call[q].pc \notin {"seal", "lost", "undo"}
  BY <1>2, <1>3 DEF Holds
<1>4. CASE RecordLedgerBill(q)
  <2>1. CASE UNCHANGED ledger
    BY <1>3, <1>4, <2>1 DEF RecordLedgerBill
  <2>2. CASE /\ ledger' = [ledger EXCEPT ![call[q].inv] = lastBill + 1]
             /\ WithBill(q, "ledger", lastBill + 1)
    <3>1. CASE i = call[q].inv
      <4> DEFINE s == [call[q] EXCEPT !.pc = "seal",
                          !.bill = [target |-> "ledger", no |-> lastBill + 1]]
      <4>1. call'[q] = s
        BY <2>2 DEF WithBill, TypeOK
      <4>2. s.pc = "seal" /\ s.inv = call[q].inv /\ s.bill.target = "ledger"
        BY DEF TypeOK, CallState
      <4> HIDE DEF s
      <4> QED
        BY <3>1, <4>1, <4>2 DEF Holds
    <3>2. CASE i # call[q].inv
      <4>1. ledger[i] # 0
        BY <2>2, <3>2 DEF TypeOK
      <4> QED
        BY <1>2, <3>2, <4>1 DEF Holds
    <3> QED
      BY <3>1, <3>2
  <2> QED
    BY <1>4, <2>1, <2>2 DEF RecordLedgerBill
<1>5. CASE SealSubmitted(q)
  <2>0. ledger[i] # 0
    BY <1>5 DEF SealSubmitted
  <2>1. CASE Append1(call[q].inv, "submitted", call[q].bill)
    <3>1. call[q].inv \in Invoice /\ call[q].bill \in Bill /\ "submitted" \in EventType
      BY <1>5 DEF SealSubmitted, TypeOK, CallState, EventType
    <3>2. i = call[q].inv => Has(i, "submitted")'
      BY <2>1, <3>1, AppendFacts DEF Has
    <3> QED
      BY <1>2, <2>0, <3>2 DEF Holds
  <2>2. CASE Goto(q, "lost")
    <3>1. call'[q].pc = "lost" /\ call'[q].inv = call[q].inv /\ call'[q].bill = call[q].bill
      BY <2>2 DEF Goto, TypeOK, CallState
    <3> QED
      BY <1>2, <2>0, <3>1 DEF Holds
  <2> QED
    BY <1>5, <2>1, <2>2 DEF SealSubmitted
<1>6. CASE LoseSlot(q)
  <2>0. ledger[i] # 0
    BY <1>6 DEF LoseSlot
  <2>1. CASE LastIs(call[q].inv, "submitted")
    <3>1. i = call[q].inv => Has(i, "submitted")
      BY <2>1 DEF LastIs, Has
    <3>2. i = call[q].inv => Has(i, "submitted")'
      BY <3>1, HasStays
    <3> QED
      BY <1>2, <2>0, <3>2 DEF Holds
  <2>2. CASE call[q].bill.target # "ledger"
    BY <1>2, <2>0, <2>2 DEF Holds
  <2>3. CASE Goto(q, "undo")
    <3>1. call'[q].pc = "undo" /\ call'[q].inv = call[q].inv /\ call'[q].bill = call[q].bill
      BY <2>3 DEF Goto, TypeOK, CallState
    <3> QED
      BY <1>2, <2>0, <3>1 DEF Holds
  <2> QED
    BY <1>6, <2>1, <2>2, <2>3 DEF LoseSlot, AfterLoss
<1>7. CASE DeleteLedgerBill(q)
  <2>1. i # call[q].inv /\ ledger[i] # 0
    BY <1>7 DEF DeleteLedgerBill, TypeOK
  <2> QED
    BY <1>2, <2>1 DEF Holds
<1> QED
  BY <1>3, <1>4, <1>5, <1>6, <1>7
     DEF Work, ProjectState, ReadTail, RejectWrite, ClearWrite, Receive, CheckEntered,
         SelectLedgerBill, PostToQuickBooks, ReleaseApEntry

LEMMA InitCover == Init => Covered
BY DEF Init, Covered

LEMMA StepCover == TypeOK /\ TypeOK' /\ Covered /\ [Next]_vars => Covered'
<1> SUFFICES ASSUME TypeOK, TypeOK', Covered, [Next]_vars, failures' = 0 PROVE Covered'
  BY DEF Covered
<1>1. LogStep
  BY StepLog
<1>2. ASSUME NEW q \in Call, Work(q) PROVE Covered'
  BY <1>1, <1>2, WorkCovers
<1>3. ASSUME NEW q \in Call, NEW h \in Invoice,
             BeginApprove(q, h) \/ BeginUpload(q, h) \/ BeginReject(q, h)
      PROVE  Covered'
  <2>1. /\ \E s : call' = [call EXCEPT ![q] = s]
        /\ call[q].pc = "idle" /\ UNCHANGED <<ledger, failures>>
    BY <1>3 DEF BeginApprove, BeginUpload, Reserve, BeginReject
  <2>2. \A p \in Call \ {q} : call'[p] = call[p]
    BY <2>1 DEF TypeOK
  <2>3. ASSUME NEW i \in Invoice, ledger[i] # 0
        PROVE  Has(i, "submitted")' \/ \E p \in Call : Holds(p, i)'
    <3>1. Has(i, "submitted") \/ \E p \in Call : Holds(p, i)
      BY <2>1, <2>3 DEF Covered
    <3>2. ~Holds(q, i)
      BY <2>1 DEF Holds
    <3> QED
      BY <1>1, <2>2, <3>1, <3>2, CoverStays
  <2> QED
    BY <2>1, <2>3 DEF Covered
<1>4. ASSUME NEW h \in Invoice, PauseForReview(h) PROVE Covered'
  BY <1>1, <1>4, HasStays DEF PauseForReview, Covered, Holds
<1>5. ASSUME failures' = failures + 1 PROVE FALSE
  BY <1>5 DEF TypeOK
<1>6. CASE UNCHANGED vars
  BY <1>6 DEF vars, Covered, Holds, Has
<1> QED
  BY <1>2, <1>3, <1>4, <1>5, <1>6 DEF Next, DbFault, Crash

\* While nothing fails, a ledger bill whose calls are over has been submitted:
\* whoever loses the slot after recording one rolls it back.
THEOREM BillsAreSubmitted == Spec => []NoOrphanBill
<1>1. Covered => NoOrphanBill
  BY DEF Covered, Holds, NoOrphanBill
<1> QED
  BY <1>1, InitType, StepType, InitCover, StepCover, PTL DEF Spec

-----------------------------------------------------------------------------
(* The quota.                                                              *)

\* The calls with a reservation, and those of them that may still submit.
Holding == {q \in Call : call[q].held}
Pending == {q \in Holding : call[q].pc # "release"}

\* Whatever is not a rejection has a reservation.
HeldInv == \A q \in Call :
    /\ call[q].held => call[q].pc # "idle" /\ ~call[q].rejects
    /\ call[q].pc # "idle" /\ ~call[q].held
          => call[q].rejects /\ call[q].pc \in {"project", "reject", "rejectWrite"}

\* Every call that may still submit has its place below the limit; a row of
\* the reservations may outlive its call, but no call its row.
QuotaInv ==
    /\ HeldInv
    /\ IsFiniteSet(Entries) /\ IsFiniteSet(Holding)
    /\ Cardinality(Entries) + Cardinality(Pending) <= Limit
    /\ Cardinality(Holding) <= reserved

IsEntry(e) == \E h \in Invoice : \E k \in DOMAIN log[h] :
                 e = <<h, k>> /\ log[h][k].type = "submitted"

LEMMA EntryIs == \A e : e \in Entries <=> IsEntry(e)
<1>1. ASSUME NEW e \in Entries PROVE IsEntry(e)
  <2>1. PICK h \in Invoice : e \in {h} \X DOMAIN log[h]
    BY DEF Entries
  <2>2. e = <<h, e[2]>> /\ e[1] = h /\ e[2] \in DOMAIN log[h]
    BY <2>1
  <2>3. log[e[1]][e[2]].type = "submitted"
    BY DEF Entries
  <2> QED
    BY <2>2, <2>3 DEF IsEntry
<1>2. ASSUME NEW h \in Invoice, NEW k \in DOMAIN log[h], log[h][k].type = "submitted"
      PROVE  <<h, k>> \in Entries
  <2>1. <<h, k>> \in {h} \X DOMAIN log[h] /\ <<h, k>>[1] = h /\ <<h, k>>[2] = k
    OBVIOUS
  <2> QED
    BY <1>2, <2>1 DEF Entries
<1> QED
  BY <1>1, <1>2 DEF IsEntry

LEMMA EntryIsNext == (\A e : e \in Entries <=> IsEntry(e))'
BY EntryIs, PTL

LEMMA AppendEntries ==
  ASSUME TypeOK, NEW i \in Invoice, NEW type \in EventType, NEW bill \in Bill,
         Append1(i, type, bill)
  PROVE  /\ type # "submitted" => Entries' = Entries
         /\ type = "submitted" => \E e : e \notin Entries /\ Entries' = Entries \cup {e}
<1>1. /\ \A e : e \in Entries <=> IsEntry(e)
      /\ \A e : e \in Entries' <=> IsEntry(e)'
  BY EntryIs, EntryIsNext
<1> DEFINE n == Len(log[i])
<1>3. /\ \A h \in Invoice : h # i => log'[h] = log[h]
      /\ n \in Nat /\ DOMAIN log[i] = 1 .. n /\ DOMAIN log'[i] = 1 .. (n + 1)
      /\ \A k \in 1 .. n : log'[i][k] = log[i][k]
      /\ log'[i][n + 1].type = type
  BY AppendFacts
<1> HIDE DEF n
<1>4. \A h \in Invoice : \A k : h # i \/ k # n + 1 =>
         /\ k \in DOMAIN log'[h] <=> k \in DOMAIN log[h]
         /\ k \in DOMAIN log[h] => log'[h][k] = log[h][k]
  BY <1>3
<1>5. ASSUME NEW e, e # <<i, n + 1>> PROVE e \in Entries' <=> e \in Entries
  BY <1>1, <1>4, <1>5 DEF IsEntry
<1>6. <<i, n + 1>> \notin Entries
  BY <1>1, <1>3 DEF IsEntry
<1>7. <<i, n + 1>> \in Entries' <=> type = "submitted"
  BY <1>1, <1>3 DEF IsEntry
<1> QED
  BY <1>5, <1>6, <1>7

LEMMA InitQuota == Init => QuotaInv
<1> SUFFICES ASSUME Init PROVE QuotaInv
  OBVIOUS
<1>1. Entries = {} /\ Holding = {} /\ Pending = {}
  BY DEF Init, Entries, Holding, Pending, NoCall, Started
<1>2. HeldInv
  BY DEF Init, HeldInv, NoCall, Started
<1> QED
  BY <1>1, <1>2, FS_EmptySet, SettingsAssumption DEF QuotaInv, Init

LEMMA LeaveSets ==
  ASSUME TypeOK, HeldInv, NEW q \in Call, call[q].pc # "idle", Leave(q)
  PROVE  HeldInv' /\ Holding' = Holding /\ Pending' = Pending \ {q}
<1>1. /\ \A p \in Call \ {q} : call'[p] = call[p]
      /\ call'[q] = IF call[q].held THEN Started("release", call[q].inv, FALSE, TRUE)
                    ELSE NoCall
  BY DEF Leave, TypeOK
<1>2. CASE call[q].held
  <2>1. call'[q].held /\ call'[q].pc = "release" /\ ~call'[q].rejects
    BY <1>1, <1>2 DEF Started
  <2> QED
    BY <1>1, <1>2, <2>1 DEF HeldInv, Holding, Pending
<1>3. CASE ~call[q].held
  <2>1. ~call'[q].held /\ call'[q].pc = "idle"
    BY <1>1, <1>3 DEF Started, NoCall
  <2> QED
    BY <1>1, <1>3, <2>1 DEF HeldInv, Holding, Pending
<1> QED
  BY <1>2, <1>3

LEMMA MoveSets ==
  ASSUME TypeOK, HeldInv, NEW q \in Call, call[q].pc \notin {"idle", "release"},
         NEW s, call' = [call EXCEPT ![q] = s], s.pc \notin {"idle", "release"},
         s.held = call[q].held, s.rejects = call[q].rejects,
         ~call[q].held => s.pc \in {"project", "reject", "rejectWrite"}
  PROVE  HeldInv' /\ Holding' = Holding /\ Pending' = Pending
<1>1. call'[q] = s /\ \A p \in Call \ {q} : call'[p] = call[p]
  BY DEF TypeOK
<1> QED
  BY <1>1 DEF HeldInv, Holding, Pending

LEMMA QuotaKept ==
  ASSUME QuotaInv, HeldInv', Entries' = Entries, reserved' = reserved,
         Holding' \in SUBSET Holding, Pending' \in SUBSET Pending, reserved \in Int
  PROVE  QuotaInv'
<1>1. IsFiniteSet(Pending)
  BY FS_Subset DEF QuotaInv, Pending
<1>2. /\ Cardinality(Entries) \in Nat
      /\ Cardinality(Holding) \in Nat /\ Cardinality(Pending) \in Nat
  BY <1>1, FS_CardinalityType DEF QuotaInv
<1>3. /\ IsFiniteSet(Holding') /\ Cardinality(Holding') <= Cardinality(Holding)
      /\ IsFiniteSet(Pending') /\ Cardinality(Pending') <= Cardinality(Pending)
  BY <1>1, FS_Subset DEF QuotaInv
<1>4. Cardinality(Holding') \in Nat /\ Cardinality(Pending') \in Nat
  BY <1>3, FS_CardinalityType
<1> QED
  BY <1>2, <1>3, <1>4, SettingsAssumption DEF QuotaInv

LEMMA WorkQuota ==
  ASSUME TypeOK, TypeOK', QuotaInv, NEW q \in Call, Work(q)
  PROVE  QuotaInv'
<1>0. HeldInv /\ reserved \in Int
  BY DEF QuotaInv, TypeOK
<1>1. ASSUME Entries' = Entries, UNCHANGED reserved, call[q].pc # "idle", Leave(q)
      PROVE  QuotaInv'
  BY <1>0, <1>1, LeaveSets, QuotaKept
<1>2. ASSUME Entries' = Entries, UNCHANGED reserved,
             call[q].pc \notin {"idle", "release"}, NEW s, call' = [call EXCEPT ![q] = s],
             s.pc \notin {"idle", "release"}, s.held = call[q].held,
             s.rejects = call[q].rejects,
             ~call[q].held => s.pc \in {"project", "reject", "rejectWrite"}
      PROVE  QuotaInv'
  BY <1>0, <1>2, MoveSets, QuotaKept
<1>3. ASSUME Entries' = Entries, UNCHANGED reserved,
             call[q].pc \notin {"idle", "release"}, NEW pc \in PC, Goto(q, pc),
             pc \notin {"idle", "release"},
             ~call[q].held => pc \in {"project", "reject", "rejectWrite"}
      PROVE  QuotaInv'
  <2> DEFINE s == [call[q] EXCEPT !.pc = pc]
  <2>1. call' = [call EXCEPT ![q] = s]
    BY <1>3 DEF Goto
  <2>2. s.pc = pc /\ s.held = call[q].held /\ s.rejects = call[q].rejects
    BY DEF TypeOK, CallState
  <2> HIDE DEF s
  <2> QED
    BY <1>2, <1>3, <2>1, <2>2
<1>4. UNCHANGED log => Entries' = Entries
  BY DEF Entries
<1>5. CASE ProjectState(q)
  <2>1. call[q].pc = "project" /\ UNCHANGED <<log, reserved>>
    BY <1>5 DEF ProjectState
  <2>2. call[q].held => ~call[q].rejects
    BY <1>0 DEF HeldInv
  <2>3. ~call[q].held => call[q].rejects
    BY <1>0, <2>1 DEF HeldInv
  <2>4. \/ Leave(q)
        \/ call[q].rejects /\ Goto(q, "reject")
        \/ ~call[q].rejects /\ (Goto(q, "enter") \/ Goto(q, "clear"))
    BY <1>5 DEF ProjectState
  <2> QED
    BY <1>1, <1>3, <1>4, <2>1, <2>3, <2>4 DEF PC
<1>6. CASE ReadTail(q)
  <2> DEFINE pc == IF call[q].rejects THEN "rejectWrite" ELSE "clearWrite"
             s == [call[q] EXCEPT !.pc = pc, !.seq = Len(log[call[q].inv])]
  <2>1. /\ call' = [call EXCEPT ![q] = s]
        /\ call[q].pc \in {"reject", "clear"} /\ UNCHANGED <<log, reserved>>
    BY <1>6 DEF ReadTail
  <2>2. ~call[q].held => call[q].rejects
    BY <1>0, <2>1 DEF HeldInv
  <2>3. pc \notin {"idle", "release"} /\ (call[q].rejects => pc = "rejectWrite")
    OBVIOUS
  <2> HIDE DEF pc
  <2>4. s.pc = pc /\ s.held = call[q].held /\ s.rejects = call[q].rejects
    BY DEF TypeOK, CallState
  <2> HIDE DEF s
  <2> QED
    BY <1>2, <1>4, <2>1, <2>2, <2>3, <2>4
<1>7. CASE RejectWrite(q) \/ ClearWrite(q) \/ Receive(q)
  <2>1. call[q].inv \in Invoice
    BY <1>7 DEF RejectWrite, ClearWrite, Receive, TypeOK
  <2>2. NoBill \in Bill /\ {"rejected", "override", "received"} \subseteq EventType
    BY DEF NoBill, Bill, EventType
  <2>3. \/ UNCHANGED log
        \/ \E type \in {"rejected", "override", "received"} :
              Append1(call[q].inv, type, NoBill)
    BY <1>7 DEF RejectWrite, ClearWrite, Receive
  <2>4. Entries' = Entries
    BY <1>4, <2>1, <2>2, <2>3, AppendEntries
  <2>5. /\ call[q].pc \in {"rejectWrite", "clearWrite", "receive"} /\ UNCHANGED reserved
        /\ Leave(q) \/ (call[q].pc # "rejectWrite" /\ Goto(q, "enter"))
    BY <1>7 DEF RejectWrite, ClearWrite, Receive
  <2>6. call[q].pc # "rejectWrite" => call[q].held
    BY <1>0, <2>5 DEF HeldInv
  <2> QED
    BY <1>1, <1>3, <2>4, <2>5, <2>6 DEF PC
<1>8. CASE \/ CheckEntered(q) \/ RecordLedgerBill(q) \/ SelectLedgerBill(q)
           \/ PostToQuickBooks(q) \/ LoseSlot(q) \/ DeleteLedgerBill(q)
  <2>1. /\ call[q].pc \in {"enter", "bill", "select", "lost", "undo"}
        /\ UNCHANGED <<log, reserved>>
    BY <1>8 DEF CheckEntered, RecordLedgerBill, SelectLedgerBill, PostToQuickBooks,
                LoseSlot, DeleteLedgerBill
  <2>2. call[q].held
    BY <1>0, <2>1 DEF HeldInv
  <2>3. ASSUME NEW target, NEW no, WithBill(q, target, no) PROVE QuotaInv'
    <3> DEFINE s == [call[q] EXCEPT !.pc = "seal",
                                    !.bill = [target |-> target, no |-> no]]
    <3>1. call' = [call EXCEPT ![q] = s]
      BY <2>3 DEF WithBill
    <3>2. s.pc = "seal" /\ s.held = call[q].held /\ s.rejects = call[q].rejects
      BY DEF TypeOK, CallState
    <3> HIDE DEF s
    <3> QED
      BY <1>2, <1>4, <2>1, <2>2, <3>1, <3>2
  <2>4. CASE CheckEntered(q) /\ ~Leave(q)
    <3> DEFINE s == [call[q] EXCEPT !.pc = "bill", !.seq = Len(log[call[q].inv])]
    <3>1. call' = [call EXCEPT ![q] = s]
      BY <2>4 DEF CheckEntered
    <3>2. s.pc = "bill" /\ s.held = call[q].held /\ s.rejects = call[q].rejects
      BY DEF TypeOK, CallState
    <3> HIDE DEF s
    <3> QED
      BY <1>2, <1>4, <2>1, <2>2, <3>1, <3>2
  <2>5. \/ Leave(q) \/ Goto(q, "select") \/ Goto(q, "undo")
        \/ \E target, no : WithBill(q, target, no)
        \/ CheckEntered(q) /\ ~Leave(q)
    BY <1>8 DEF CheckEntered, RecordLedgerBill, SelectLedgerBill, PostToQuickBooks,
                LoseSlot, AfterLoss, DeleteLedgerBill
  <2> QED
    BY <1>1, <1>3, <1>4, <2>1, <2>2, <2>3, <2>4, <2>5 DEF PC
<1>9. CASE SealSubmitted(q)
  <2>1. call[q].pc = "seal" /\ UNCHANGED reserved
    BY <1>9 DEF SealSubmitted
  <2>2. call[q].held
    BY <1>0, <2>1 DEF HeldInv
  <2>3. CASE UNCHANGED log /\ Goto(q, "lost")
    BY <1>3, <1>4, <2>1, <2>2, <2>3 DEF PC
  <2>4. CASE Append1(call[q].inv, "submitted", call[q].bill) /\ Leave(q)
    <3>1. call[q].inv \in Invoice /\ call[q].bill \in Bill /\ "submitted" \in EventType
      BY <2>1 DEF TypeOK, CallState, EventType
    <3>2. PICK e : e \notin Entries /\ Entries' = Entries \cup {e}
      BY <2>4, <3>1, AppendEntries
    <3>3. HeldInv' /\ Holding' = Holding /\ Pending' = Pending \ {q}
      BY <1>0, <2>1, <2>4, LeaveSets
    <3>4. q \in Pending
      BY <2>1, <2>2 DEF Pending, Holding
    <3>5. IsFiniteSet(Pending)
      BY FS_Subset DEF QuotaInv, Pending
    <3>6. IsFiniteSet(Entries') /\ Cardinality(Entries') = Cardinality(Entries) + 1
      BY <3>2, FS_AddElement DEF QuotaInv
    <3>7. Cardinality(Pending') = Cardinality(Pending) - 1
      BY <3>3, <3>4, <3>5, FS_RemoveElement
    <3>8. Cardinality(Entries) \in Nat /\ Cardinality(Pending) \in Nat
      BY <3>5, FS_CardinalityType DEF QuotaInv
    <3> QED
      BY <2>1, <3>3, <3>6, <3>7, <3>8, SettingsAssumption DEF QuotaInv
  <2> QED
    BY <1>9, <2>3, <2>4 DEF SealSubmitted
<1>10. CASE ReleaseApEntry(q)
  <2>1. /\ call[q].pc = "release" /\ reserved' = reserved - 1
        /\ call' = [call EXCEPT ![q] = NoCall] /\ UNCHANGED log
    BY <1>10 DEF ReleaseApEntry
  <2>2. call[q].held
    BY <1>0, <2>1 DEF HeldInv
  <2>3. call'[q].pc = "idle" /\ ~call'[q].held /\ \A p \in Call \ {q} : call'[p] = call[p]
    BY <2>1 DEF NoCall, Started, TypeOK
  <2>4. HeldInv' /\ Holding' = Holding \ {q} /\ Pending' = Pending /\ q \in Holding
    BY <1>0, <2>1, <2>2, <2>3 DEF HeldInv, Holding, Pending
  <2>5. /\ IsFiniteSet(Holding') /\ Cardinality(Holding') = Cardinality(Holding) - 1
        /\ Cardinality(Holding) \in Nat
    BY <2>4, FS_RemoveElement, FS_CardinalityType DEF QuotaInv
  <2> QED
    BY <1>0, <1>4, <2>1, <2>4, <2>5 DEF QuotaInv
<1> QED
  BY <1>5, <1>6, <1>7, <1>8, <1>9, <1>10 DEF Work

LEMMA StepQuota == TypeOK /\ TypeOK' /\ QuotaInv /\ [Next]_vars => QuotaInv'
<1> SUFFICES ASSUME TypeOK, TypeOK', QuotaInv, [Next]_vars PROVE QuotaInv'
  OBVIOUS
<1>0. HeldInv /\ reserved \in Int /\ (UNCHANGED log => Entries' = Entries)
  BY DEF QuotaInv, TypeOK, Entries
<1>1. ASSUME NEW i \in Invoice, PauseForReview(i) PROVE QuotaInv'
  <2>1. Entries' = Entries
    BY <1>1, AppendEntries DEF PauseForReview, EventType, NoBill, Bill
  <2>2. HeldInv' /\ Holding' = Holding /\ Pending' = Pending
    BY <1>0, <1>1 DEF PauseForReview, HeldInv, Holding, Pending
  <2>3. reserved' = reserved
    BY <1>1 DEF PauseForReview
  <2> QED
    BY <1>0, <2>1, <2>2, <2>3, QuotaKept
<1>2. ASSUME NEW q \in Call, NEW i \in Invoice, NEW pc \in {"project", "receive"},
             Reserve(q, i, pc)
      PROVE  QuotaInv'
  <2>1. /\ call[q].pc = "idle" /\ Room /\ reserved' = reserved + 1 /\ UNCHANGED log
        /\ call' = [call EXCEPT ![q] = Started(pc, i, FALSE, TRUE)]
    BY <1>2 DEF Reserve
  <2>2. ~call[q].held
    BY <1>0, <2>1 DEF HeldInv
  <2>3. /\ call'[q].pc = pc /\ call'[q].held /\ ~call'[q].rejects
        /\ \A p \in Call \ {q} : call'[p] = call[p]
    BY <2>1 DEF Started, TypeOK
  <2>4. /\ HeldInv' /\ q \notin Holding /\ q \notin Pending
        /\ Holding' = Holding \cup {q} /\ Pending' = Pending \cup {q}
    BY <1>0, <2>2, <2>3 DEF HeldInv, Holding, Pending
  <2>5. IsFiniteSet(Pending) /\ Cardinality(Pending) <= Cardinality(Holding)
    BY FS_Subset DEF QuotaInv, Pending
  <2>6. /\ Cardinality(Entries) \in Nat /\ Cardinality(Pending) \in Nat
        /\ Cardinality(Holding) \in Nat
    BY <2>5, FS_CardinalityType DEF QuotaInv
  <2>7. /\ IsFiniteSet(Holding') /\ Cardinality(Holding') = Cardinality(Holding) + 1
        /\ Cardinality(Pending') = Cardinality(Pending) + 1
    BY <2>4, <2>5, FS_AddElement DEF QuotaInv
  <2>8. Cardinality(Entries) + reserved < Limit
    BY <2>1 DEF Room, Used
  <2> QED
    BY <1>0, <2>1, <2>4, <2>5, <2>6, <2>7, <2>8, SettingsAssumption DEF QuotaInv
<1>3. ASSUME NEW q \in Call, NEW i \in Invoice, BeginReject(q, i) PROVE QuotaInv'
  <2>1. /\ call[q].pc = "idle" /\ UNCHANGED <<log, reserved>>
        /\ call' = [call EXCEPT ![q] = Started("project", i, TRUE, FALSE)]
    BY <1>3 DEF BeginReject
  <2>2. ~call[q].held
    BY <1>0, <2>1 DEF HeldInv
  <2>3. /\ call'[q].pc = "project" /\ ~call'[q].held /\ call'[q].rejects
        /\ \A p \in Call \ {q} : call'[p] = call[p]
    BY <2>1 DEF Started, TypeOK
  <2>4. HeldInv' /\ Holding' = Holding /\ Pending' = Pending
    BY <1>0, <2>2, <2>3 DEF HeldInv, Holding, Pending
  <2> QED
    BY <1>0, <2>1, <2>4, QuotaKept
<1>4. ASSUME NEW q \in Call, Work(q) PROVE QuotaInv'
  BY <1>4, WorkQuota
<1>5. ASSUME NEW q \in Call, DbFault(q) PROVE QuotaInv'
  <2>1. call[q].pc # "idle" /\ UNCHANGED <<log, reserved>>
    BY <1>5 DEF DbFault
  <2>2. CASE Leave(q)
    BY <1>0, <2>1, <2>2, LeaveSets, QuotaKept
  <2>3. CASE call' = [call EXCEPT ![q] = NoCall]
    <3>1. /\ call'[q].pc = "idle" /\ ~call'[q].held
          /\ \A p \in Call \ {q} : call'[p] = call[p]
      BY <2>3 DEF NoCall, Started, TypeOK
    <3>2. HeldInv' /\ Holding' \in SUBSET Holding /\ Pending' \in SUBSET Pending
      BY <1>0, <3>1 DEF HeldInv, Holding, Pending
    <3> QED
      BY <1>0, <2>1, <3>2, QuotaKept
  <2> QED
    BY <1>5, <2>2, <2>3 DEF DbFault
<1>6. ASSUME NEW gone \in SUBSET Call, Crash(gone) PROVE QuotaInv'
  <2>1. /\ UNCHANGED <<log, reserved>>
        /\ \A p \in Call : \/ call'[p] = call[p]
                           \/ call'[p].pc = "idle" /\ ~call'[p].held
    BY <1>6 DEF Crash, NoCall, Started
  <2>2. HeldInv' /\ Holding' \in SUBSET Holding /\ Pending' \in SUBSET Pending
    BY <1>0, <2>1 DEF HeldInv, Holding, Pending
  <2> QED
    BY <1>0, <2>1, <2>2, QuotaKept
<1>7. CASE UNCHANGED vars
  BY <1>7 DEF vars, QuotaInv, HeldInv, Holding, Pending, Entries
<1> QED
  BY <1>1, <1>2, <1>3, <1>4, <1>5, <1>6, <1>7 DEF Next, BeginApprove, BeginUpload

\* A capped workspace never enters more than its limit, for any limit and any
\* number of concurrent calls, failed calls and crashes.
THEOREM WithinQuota == Spec => []QuotaHolds
<1>1. QuotaInv => QuotaHolds
  <2> SUFFICES ASSUME QuotaInv PROVE QuotaHolds
    OBVIOUS
  <2>1. IsFiniteSet(Pending)
    BY FS_Subset DEF QuotaInv, Pending
  <2>2. Cardinality(Pending) \in Nat /\ Cardinality(Entries) \in Nat
    BY <2>1, FS_CardinalityType DEF QuotaInv
  <2> QED
    BY <2>2, SettingsAssumption DEF QuotaInv, QuotaHolds, Used
<1> QED
  BY <1>1, InitType, StepType, InitQuota, StepQuota, PTL DEF Spec
=============================================================================
