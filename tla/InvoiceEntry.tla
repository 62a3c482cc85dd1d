---------------------------- MODULE InvoiceEntry ----------------------------
(***************************************************************************)
(* Entering invoices (lib/ap-controls).  Each invoice has a sealed stream  *)
(* of events (store.ts); its status is a projection of the stream          *)
(* (projections.ts).  A reviewer approves or rejects a flagged invoice     *)
(* (decide.ts), or uploads one and enters it at once (intake.ts); entering *)
(* records a bill in the built-in ledger (ledger.ts), or in QuickBooks     *)
(* when that is connected, and then seals it into the stream               *)
(* (qbo-submit.ts).  A capped workspace reserves a slot of its quota for   *)
(* the duration of the call (billing.ts).                                  *)
(*                                                                         *)
(* One workspace.  A call stops wherever it awaits a read or write that    *)
(* another call can observe; an append reads the tail of the stream and    *)
(* later inserts, refused if the slot has been taken.                      *)
(***************************************************************************)
EXTENDS Integers, Sequences, FiniteSets

CONSTANTS
    Invoice, NoInvoice,
    Uploads,       \* the invoices that arrive as uploads; the others are flagged
    Call,          \* slots for concurrent calls of the routes
    Target,        \* where a call may enter: "ledger", "quickbooks", or both
    Limit,         \* entries the workspace's plan allows per period
    MaxFailures    \* bound of the model on failed calls and crashes

ASSUME InvoicesAssumption == NoInvoice \notin Invoice /\ Uploads \subseteq Invoice
ASSUME SettingsAssumption ==
    /\ Target \subseteq {"ledger", "quickbooks"}
    /\ Limit \in Nat /\ MaxFailures \in Nat

VARIABLES
    log,         \* ap_events, per invoice
    ledger,      \* ledger_bill: the bill number of each invoice, 0 for none
    lastBill,    \* the AUTOINCREMENT counter of ledger_bill
    reserved,    \* the rows of ap_entry_reservations
    call,        \* the calls under way
    failures

vars == <<log, ledger, lastBill, reserved, call, failures>>

EventType == {"received", "review_paused", "override", "rejected", "submitted"}
Bill == [target : {"none", "ledger", "quickbooks"}, no : Nat]
NoBill == [target |-> "none", no |-> 0]
Event == [type : EventType, bill : Bill]

PC == {"idle", "project", "reject", "rejectWrite", "clear", "clearWrite",
       "receive", "enter", "bill", "select", "seal", "lost", "undo", "release"}
CallState == [pc : PC, inv : Invoice \cup {NoInvoice}, rejects : BOOLEAN,
              held : BOOLEAN, seq : Nat, bill : Bill]
Started(pc, i, rejects, held) ==
    [pc |-> pc, inv |-> i, rejects |-> rejects, held |-> held, seq |-> 0,
     bill |-> NoBill]
NoCall == Started("idle", NoInvoice, FALSE, FALSE)

TypeOK ==
    /\ log \in [Invoice -> Seq(Event)]
    /\ ledger \in [Invoice -> Nat]
    /\ lastBill \in Nat
    /\ reserved \in Int
    /\ call \in [Call -> CallState]
    /\ \A q \in Call : call[q].pc # "idle" => call[q].inv \in Invoice
    /\ failures \in Nat

Init ==
    /\ log = [i \in Invoice |-> <<>>]
    /\ ledger = [i \in Invoice |-> 0]
    /\ lastBill = 0
    /\ reserved = 0
    /\ call = [q \in Call |-> NoCall]
    /\ failures = 0

-----------------------------------------------------------------------------
(* Shared readings and writes.                                             *)

Has(i, type) == \E k \in DOMAIN log[i] : log[i][k].type = type

\* foldInvoiceEntryState: the last event that sets a status has it.
Deciding == {"review_paused", "rejected", "submitted"}
LastIs(i, type) ==
    \E k \in DOMAIN log[i] :
        /\ log[i][k].type = type
        /\ \A j \in DOMAIN log[i] : j > k => log[i][j].type \notin Deciding

\* usageThisPeriod; the model's period does not end.
Entries == {e \in UNION {{i} \X DOMAIN log[i] : i \in Invoice} :
               log[e[1]][e[2]].type = "submitted"}
Used == Cardinality(Entries)

Append1(i, type, bill) ==
    log' = [log EXCEPT ![i] = Append(@, [type |-> type, bill |-> bill])]

Goto(q, pc) == call' = [call EXCEPT ![q].pc = pc]

\* The call returns or throws; its route then releases the reservation.
Leave(q) == call' = [call EXCEPT ![q] =
                IF @.held THEN Started("release", @.inv, FALSE, TRUE) ELSE NoCall]

\* Mutated form: the sequence number is not claimed.
AnySlot(q) == call[q].seq <= Len(log[call[q].inv])

\* The (aggregate, seq) slot that the call read, or expects, is still free.
SlotFree(q) == Len(log[call[q].inv]) = call[q].seq

Fresh(i) == log[i] = <<>> /\ \A q \in Call : call[q].inv # i

-----------------------------------------------------------------------------
(* The routes and decideInvoice.                                           *)

\* An invoice is flagged for review, as the activity ticker does it.
PauseForReview(i) ==
    /\ i \notin Uploads /\ log[i] = <<>>
    /\ Append1(i, "review_paused", NoBill)
    /\ UNCHANGED <<ledger, lastBill, reserved, call, failures>>

\* Mutated form: the calls under way are not counted.
RoomChecked == Used < Limit

\* The WHERE clause of reserveApEntry.
Room == Used + reserved < Limit

\* reserveApEntry, at the start of an approval or an upload; without room
\* neither changes anything.
Reserve(q, i, pc) ==
    /\ call[q].pc = "idle" /\ Room
    /\ reserved' = reserved + 1
    /\ call' = [call EXCEPT ![q] = Started(pc, i, FALSE, TRUE)]
    /\ UNCHANGED <<log, ledger, lastBill, failures>>

BeginApprove(q, i) == log[i] # <<>> /\ Reserve(q, i, "project")

BeginUpload(q, i) == i \in Uploads /\ Fresh(i) /\ Reserve(q, i, "receive")

BeginReject(q, i) ==
    /\ call[q].pc = "idle" /\ log[i] # <<>>
    /\ call' = [call EXCEPT ![q] = Started("project", i, TRUE, FALSE)]
    /\ UNCHANGED <<log, ledger, lastBill, reserved, failures>>

\* A decision needs the invoice to be under review; a review cleared by an
\* earlier attempt is not cleared again.
ProjectState(q) ==
    LET i == call[q].inv IN
    /\ call[q].pc = "project"
    /\ IF ~LastIs(i, "review_paused") THEN Leave(q)
       ELSE Goto(q, IF call[q].rejects THEN "reject"
                    ELSE IF Has(i, "override") THEN "enter" ELSE "clear")
    /\ UNCHANGED <<log, ledger, lastBill, reserved, failures>>

\* The read of appendApEvent, for the appends that expect no particular slot.
ReadTail(q) ==
    /\ call[q].pc \in {"reject", "clear"}
    /\ call' = [call EXCEPT ![q] =
          [@ EXCEPT !.pc = IF call[q].rejects THEN "rejectWrite" ELSE "clearWrite",
                    !.seq = Len(log[call[q].inv])]]
    /\ UNCHANGED <<log, ledger, lastBill, reserved, failures>>

\* Its batch; a SequenceConflictError ends the call.
RejectWrite(q) ==
    /\ call[q].pc = "rejectWrite"
    /\ IF SlotFree(q) THEN Append1(call[q].inv, "rejected", NoBill) ELSE UNCHANGED log
    /\ Leave(q)
    /\ UNCHANGED <<ledger, lastBill, reserved, failures>>

ClearWrite(q) ==
    /\ call[q].pc = "clearWrite"
    /\ IF SlotFree(q)
       THEN Append1(call[q].inv, "override", NoBill) /\ Goto(q, "enter")
       ELSE UNCHANGED log /\ Leave(q)
    /\ UNCHANGED <<ledger, lastBill, reserved, failures>>

\* intakeEnter: the upload's id is new.
Receive(q) ==
    /\ call[q].pc = "receive"
    /\ Append1(call[q].inv, "received", NoBill)
    /\ Goto(q, "enter")
    /\ UNCHANGED <<ledger, lastBill, reserved, failures>>

-----------------------------------------------------------------------------
(* enterInvoice.                                                           *)

\* An invoice already entered is left alone, whoever entered it.
CheckEntered(q) ==
    LET i == call[q].inv IN
    /\ call[q].pc = "enter"
    /\ IF LastIs(i, "submitted") THEN Leave(q)
       ELSE call' = [call EXCEPT ![q] = [@ EXCEPT !.pc = "bill", !.seq = Len(log[i])]]
    /\ UNCHANGED <<log, ledger, lastBill, reserved, failures>>

WithBill(q, target, no) ==
    call' = [call EXCEPT ![q] =
                [@ EXCEPT !.pc = "seal", !.bill = [target |-> target, no |-> no]]]

\* recordLedgerBill: INSERT OR IGNORE, one bill per invoice.
RecordLedgerBill(q) ==
    LET i == call[q].inv IN
    /\ call[q].pc = "bill" /\ "ledger" \in Target
    /\ IF ledger[i] = 0
       THEN /\ lastBill' = lastBill + 1
            /\ ledger' = [ledger EXCEPT ![i] = lastBill + 1]
            /\ WithBill(q, "ledger", lastBill + 1)
       ELSE Goto(q, "select") /\ UNCHANGED <<ledger, lastBill>>
    /\ UNCHANGED <<log, reserved, failures>>

\* The SELECT that follows an ignored insert; a row deleted meanwhile throws.
SelectLedgerBill(q) ==
    LET i == call[q].inv IN
    /\ call[q].pc = "select"
    /\ IF ledger[i] = 0 THEN Leave(q) ELSE WithBill(q, "ledger", ledger[i])
    /\ UNCHANGED <<log, ledger, lastBill, reserved, failures>>

\* writeInvoiceToQbo, as enterInvoice uses it: posted, with one bill
\* per invoice however often it is asked, or refused.
PostToQuickBooks(q) ==
    /\ call[q].pc = "bill" /\ "quickbooks" \in Target
    /\ WithBill(q, "quickbooks", 0) \/ Leave(q)
    /\ UNCHANGED <<log, ledger, lastBill, reserved, failures>>

\* The sealed event, at exactly the slot after the projected stream.
SealSubmitted(q) ==
    /\ call[q].pc = "seal"
    /\ IF SlotFree(q)
       THEN Append1(call[q].inv, "submitted", call[q].bill) /\ Leave(q)
       ELSE UNCHANGED log /\ Goto(q, "lost")
    /\ UNCHANGED <<ledger, lastBill, reserved, failures>>

\* Mutated form: a lost race needs no roll back.
AfterLossLeave(q) == Leave(q)

\* The loser of the slot looks who won it.
AfterLoss(q) == IF LastIs(call[q].inv, "submitted") \/ call[q].bill.target # "ledger"
                THEN Leave(q) ELSE Goto(q, "undo")

LoseSlot(q) ==
    /\ call[q].pc = "lost"
    /\ AfterLoss(q)
    /\ UNCHANGED <<log, ledger, lastBill, reserved, failures>>

\* deleteLedgerBill, by invoice and not by bill number.
DeleteLedgerBill(q) ==
    /\ call[q].pc = "undo"
    /\ ledger' = [ledger EXCEPT ![call[q].inv] = 0]
    /\ Leave(q)
    /\ UNCHANGED <<log, lastBill, reserved, failures>>

ReleaseApEntry(q) ==
    /\ call[q].pc = "release"
    /\ reserved' = reserved - 1
    /\ call' = [call EXCEPT ![q] = NoCall]
    /\ UNCHANGED <<log, ledger, lastBill, failures>>

-----------------------------------------------------------------------------
(* What goes wrong.                                                        *)

\* The database call of the current step throws.
DbFault(q) ==
    /\ failures < MaxFailures
    /\ failures' = failures + 1
    /\ call[q].pc # "idle"
    /\ IF call[q].pc = "release" THEN call' = [call EXCEPT ![q] = NoCall] ELSE Leave(q)
    /\ UNCHANGED <<log, ledger, lastBill, reserved>>

\* A process dies with its calls; their reservations stay.
Crash(gone) ==
    /\ gone # {}
    /\ failures < MaxFailures
    /\ failures' = failures + 1
    /\ call' = [q \in Call |-> IF q \in gone THEN NoCall ELSE call[q]]
    /\ UNCHANGED <<log, ledger, lastBill, reserved>>

-----------------------------------------------------------------------------
Work(q) ==
    \/ ProjectState(q) \/ ReadTail(q) \/ RejectWrite(q) \/ ClearWrite(q)
    \/ Receive(q) \/ CheckEntered(q) \/ RecordLedgerBill(q) \/ SelectLedgerBill(q)
    \/ PostToQuickBooks(q) \/ SealSubmitted(q) \/ LoseSlot(q)
    \/ DeleteLedgerBill(q) \/ ReleaseApEntry(q)

Next ==
    \/ \E i \in Invoice : PauseForReview(i)
    \/ \E q \in Call, i \in Invoice :
          BeginApprove(q, i) \/ BeginUpload(q, i) \/ BeginReject(q, i)
    \/ \E q \in Call : Work(q) \/ DbFault(q)
    \/ \E gone \in SUBSET {q \in Call : call[q].pc # "idle"} : Crash(gone)

Spec == Init /\ [][Next]_vars

-----------------------------------------------------------------------------
(* Properties.                                                             *)

\* An invoice is not entered again on top of an entry: between two submitted
\* events of a stream there is a rejection.  Approvals, uploads and retries
\* may run at the same time; only one can take the slot it projected.
NoDoubleEntry ==
    \A i \in Invoice : \A j, k \in DOMAIN log[i] :
        /\ j < k /\ log[i][j].type = "submitted" /\ log[i][k].type = "submitted"
        => \E m \in j .. k : log[i][m].type = "rejected"

\* Concurrent entries never take a capped workspace past its limit, also when
\* calls fail half way and leave their reservations behind.
QuotaHolds == Used <= Limit

\* Without failures, a bill left in the ledger when its invoice's calls are
\* over has been submitted: a bill whose seal lost its slot is rolled back.
NoOrphanBill ==
    \A i \in Invoice :
        failures = 0 /\ ledger[i] # 0 /\ (\A q \in Call : call[q].inv # i)
            => Has(i, "submitted")
=============================================================================
