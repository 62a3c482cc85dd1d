------------------------------ MODULE QboWrite ------------------------------
(***************************************************************************)
(* writeInvoiceToQbo (lib/qbo/write.ts): one invoice is posted to          *)
(* QuickBooks as a bill.  The row of qbo_write is claimed, retried after a *)
(* failure and reclaimed when its claim is stale; a bill that is already   *)
(* there is adopted by its document number, amount and currency.           *)
(*                                                                         *)
(* QuickBooks gives a new bill an id, lists the bills of a document number *)
(* in an order of its own, and may lose an answer.  A bill is known by the *)
(* invoice it was made for: its document, its amount rounded to cents, and *)
(* a currency.  A request that got no answer has landed by the time of the *)
(* next one, or never will.  Amounts are counted in thousandths.           *)
(***************************************************************************)
EXTENDS FiniteSets, Integers

CONSTANTS
    Invoice, Bill, Call, None,
    DocOf, AmountOf, \* document number and amount of each invoice
    CurrencyOf,      \* its currency; None: unset, or not three letters
    RefOf,           \* the CurrencyRef of a bill made for it; None: it has none
    Untotalled,      \* the invoices whose bills are listed without a TotalAmt
    Prompt,          \* TRUE: an owner is done within STALE_MS of its `now`
    MaxFailures      \* bound of the model on crashes and failed requests

ASSUME InvoicesAssumption ==
    /\ None \notin Invoice /\ None \notin Bill
    /\ DOMAIN DocOf = Invoice /\ AmountOf \in [Invoice -> Nat]
    /\ DOMAIN CurrencyOf = Invoice /\ DOMAIN RefOf = Invoice
    /\ Untotalled \subseteq Invoice
    /\ \A i \in Invoice : None \in {CurrencyOf[i], RefOf[i]} \/ RefOf[i] = CurrencyOf[i]
ASSUME SettingsAssumption == Prompt \in BOOLEAN /\ MaxFailures \in Nat

VARIABLES
    row,      \* the rows of qbo_write
    maker,    \* QuickBooks: the invoice each bill was made for, or None
    call,     \* the calls of writeInvoiceToQbo
    failures

vars == <<row, maker, call, failures>>

Status == {"none", "pending", "posted", "failed"}
CallPC == {"idle", "claim", "read", "find", "retry", "reclaim", "pre", "lookup",
           "create", "post", "fail"}
Row == [status : Status, bill : Bill \cup {None}, stale : BOOLEAN]
CallState == [pc : CallPC, invoice : Invoice \cup {None}, owner : BOOLEAN,
              saw : Status, late : BOOLEAN, bill : Bill \cup {None}]
NoCall == [pc |-> "idle", invoice |-> None, owner |-> FALSE, saw |-> "none",
           late |-> FALSE, bill |-> None]

TypeOK ==
    /\ row \in [Invoice -> Row]
    /\ maker \in [Bill -> Invoice \cup {None}]
    /\ call \in [Call -> CallState]
    /\ \A c \in Call : IF call[c].pc = "idle" THEN call[c] = NoCall
                       ELSE call[c].invoice \in Invoice
    /\ failures \in Nat

Init ==
    /\ row = [i \in Invoice |-> [status |-> "none", bill |-> None, stale |-> FALSE]]
    /\ maker = [b \in Bill |-> None]
    /\ call = [c \in Call |-> NoCall]
    /\ failures = 0

-----------------------------------------------------------------------------
Goto(c, pc) == call' = [call EXCEPT ![c].pc = pc]
Own(c) == call' = [call EXCEPT ![c].pc = "pre", ![c].owner = TRUE]

Leave(c) == call' = [call EXCEPT ![c] = NoCall]

SetStatus(i, status) == row' = [row EXCEPT ![i].status = status]

Fail == failures < MaxFailures /\ failures' = failures + 1

\* A caller with its `now`: only a claim that is stale by then can be reclaimed
\* (a little generous: one that another call reclaims and that ages again is, too).
Start(c, i) ==
    /\ call[c].pc = "idle"
    /\ call' = [call EXCEPT ![c] = [NoCall EXCEPT !.pc = "claim", !.invoice = i,
                                                 !.late = row[i].stale]]
    /\ UNCHANGED <<row, maker, failures>>

\* INSERT OR IGNORE
Claim(c) ==
    LET i == call[c].invoice IN
    /\ call[c].pc = "claim"
    /\ IF row[i].status = "none"
       THEN SetStatus(i, "pending") /\ Own(c)
       ELSE UNCHANGED row /\ Goto(c, "read")
    /\ UNCHANGED <<maker, failures>>

\* readQboWrite: a posted invoice is answered at once.
Read(c) ==
    LET status == row[call[c].invoice].status IN
    /\ call[c].pc = "read"
    /\ IF status = "posted" THEN Leave(c)
       ELSE call' = [call EXCEPT ![c].pc = "find", ![c].saw = status]
    /\ UNCHANGED <<row, maker, failures>>

SameDoc(i) == {b \in Bill : maker[b] # None /\ DocOf[maker[b]] = DocOf[i]}

\* findBillByDocNumber: one of the bills of that document, if there is any.
Found(i) == IF SameDoc(i) = {} THEN {None} ELSE SameDoc(i)

\* createBill rounds the amount to cents, a half upwards.
Total(i) == ((AmountOf[i] + 5) \div 10) * 10

\* Mutated form: the amount is not looked at.
MatchesAnyAmount(i, b) == TRUE

\* The total is known and less than half a cent away.
BillMatchesAmount(i, b) ==
    LET j == maker[b] IN
    /\ j \notin Untotalled
    /\ Total(j) < AmountOf[i] + 5 /\ AmountOf[i] < Total(j) + 5

\* Mutated form: currency-blind.
MatchesAnyCurrency(i, b) == TRUE

\* Refused only when both are explicit, and differ.
BillMatchesCurrency(i, b) ==
    \/ RefOf[maker[b]] = None \/ CurrencyOf[i] = None
    \/ RefOf[maker[b]] = CurrencyOf[i]

IsOurs(i, b) == b # None /\ BillMatchesAmount(i, b) /\ BillMatchesCurrency(i, b)

Adopt(c, b) == call' = [call EXCEPT ![c].pc = "post", ![c].bill = b]

\* The reconciliation of a call that does not own the row; an error finds none.
Find(c) ==
    LET me == call[c] IN
    /\ me.pc = "find"
    /\ \E b \in Found(me.invoice) \cup {None} :
          IF IsOurs(me.invoice, b) THEN Adopt(c, b)
          ELSE Goto(c, IF me.saw = "failed" THEN "retry" ELSE "reclaim")
    /\ UNCHANGED <<row, maker, failures>>

\* UPDATE ... WHERE status = 'failed'
Retry(c) ==
    LET i == call[c].invoice IN
    /\ call[c].pc = "retry"
    /\ IF row[i].status = "failed"
       THEN /\ row' = [row EXCEPT ![i].status = "pending", ![i].stale = FALSE]
            /\ Own(c)
       ELSE UNCHANGED row /\ Leave(c)
    /\ UNCHANGED <<maker, failures>>

\* Mutated form: the age of the claim is not looked at.
ReclaimableAny(c) == row[call[c].invoice].status = "pending"

\* WHERE status = 'pending' AND updated_at < now - STALE_MS
Reclaimable(c) ==
    /\ row[call[c].invoice].status = "pending"
    /\ row[call[c].invoice].stale /\ call[c].late

Reclaim(c) ==
    LET i == call[c].invoice IN
    /\ call[c].pc = "reclaim"
    /\ IF Reclaimable(c)
       THEN row' = [row EXCEPT ![i].stale = FALSE] /\ Own(c)
       ELSE UNCHANGED row /\ Leave(c)
    /\ UNCHANGED <<maker, failures>>

\* Mutated form: no look before the create.
AfterPreBlind(c, b) == Goto(c, "lookup")

AfterPre(c, b) == IF IsOurs(call[c].invoice, b) THEN Adopt(c, b) ELSE Goto(c, "lookup")

\* The owner's own reconciliation, immediately before the create.
Pre(c) ==
    /\ call[c].pc = "pre"
    /\ \E b \in Found(call[c].invoice) : AfterPre(c, b)
    /\ UNCHANGED <<row, maker, failures>>

\* findVendorByName and findExpenseAccount: found, or the invoice is refused.
Lookup(c) ==
    /\ call[c].pc = "lookup"
    /\ Goto(c, "create") \/ Goto(c, "fail")
    /\ UNCHANGED <<row, maker, failures>>

\* createBill: QuickBooks makes the bill, or refuses.
Create(c) ==
    LET i == call[c].invoice IN
    /\ call[c].pc = "create"
    /\ \/ \E b \in Bill : /\ maker[b] = None
                          /\ maker' = [maker EXCEPT ![b] = i]
                          /\ Adopt(c, b)
       \/ UNCHANGED maker /\ Goto(c, "fail")
    /\ UNCHANGED <<row, failures>>

\* setPosted: no guard on the status.
SetPosted(c) ==
    LET i == call[c].invoice IN
    /\ call[c].pc = "post"
    /\ row' = [row EXCEPT ![i].status = "posted", ![i].bill = call[c].bill]
    /\ Leave(c)
    /\ UNCHANGED <<maker, failures>>

\* setFailed: no guard either.
SetFailed(c) ==
    /\ call[c].pc = "fail"
    /\ SetStatus(call[c].invoice, "failed")
    /\ Leave(c)
    /\ UNCHANGED <<maker, failures>>

\* A request or a statement of the owner fails: caught, and recorded.
FailOwner(c) ==
    /\ call[c].owner /\ call[c].pc \in {"pre", "lookup", "create", "post"} /\ Fail
    /\ Goto(c, "fail")
    /\ UNCHANGED <<row, maker>>

\* The bill is made, but its answer is lost.
LoseAnswer(c) ==
    /\ call[c].pc = "create" /\ Fail
    /\ \E b \in Bill : maker[b] = None /\ maker' = [maker EXCEPT ![b] = call[c].invoice]
    /\ Goto(c, "fail")
    /\ UNCHANGED row

\* Any other error is thrown at the caller.
FailCall(c) ==
    /\ \/ call[c].pc \in {"claim", "read", "retry", "reclaim", "fail"}
       \/ call[c].pc = "post" /\ ~call[c].owner
    /\ Fail
    /\ Leave(c)
    /\ UNCHANGED <<row, maker>>

Crash ==
    /\ Fail
    /\ call' = [c \in Call |-> NoCall]
    /\ UNCHANGED <<row, maker>>

Owned(i) == \E c \in Call : call[c].owner /\ call[c].invoice = i

\* STALE_MS have gone by since updated_at.
Age(i) ==
    /\ row[i].status = "pending" /\ ~row[i].stale
    /\ Prompt => ~Owned(i)
    /\ row' = [row EXCEPT ![i].stale = TRUE]
    /\ UNCHANGED <<maker, call, failures>>

Step(c) ==
    \/ Claim(c) \/ Read(c) \/ Find(c) \/ Retry(c) \/ Reclaim(c)
    \/ Pre(c) \/ Lookup(c) \/ Create(c) \/ SetPosted(c) \/ SetFailed(c)

Next ==
    \/ \E c \in Call : \/ \E i \in Invoice : Start(c, i)
                       \/ Step(c) \/ FailOwner(c) \/ LoseAnswer(c) \/ FailCall(c)
    \/ \E i \in Invoice : Age(i)
    \/ Crash

Spec == Init /\ [][Next]_vars

-----------------------------------------------------------------------------
(* Properties.                                                             *)

BillsFor(i) == {b \in Bill : maker[b] = i}

\* "Only the inserter (or a legitimate reclaimer) proceeds": an invoice has one
\* writer at a time, through failures, retries and reclaims.
OneOwner ==
    \A c, d \in Call :
        call[c].owner /\ call[d].owner /\ call[c].invoice = call[d].invoice => c = d

\* Bills of j pass for bills of i: one document, amounts that round to the same
\* cent, and no two currencies that differ.
LookAlike(i, j) ==
    /\ DocOf[j] = DocOf[i]
    /\ AmountOf[i] \in (Total(j) - 4)..(Total(j) + 4)
    /\ Cardinality({CurrencyOf[i], RefOf[j]} \ {None}) <= 1

\* "DocNumber is not unique in QBO, so two DISTINCT invoices sharing a vendor doc
\* number must not be deduped onto the same Bill": through retries, reclaims, lost
\* answers and other owners' bills, a posted row names the bill made for its own
\* invoice, or one made for a look-alike, which nothing in the answer tells apart.
PostedIsOurs ==
    \A i \in Invoice : row[i].status = "posted" =>
        LET j == IF row[i].bill = None THEN None ELSE maker[row[i].bill] IN
        j = i \/ (j \in Invoice /\ LookAlike(i, j))

\* The other invoices of its document have no bill.
Alone(i) == \A b \in SameDoc(i) : maker[b] = i

\* A bill of its own passes for one: its total is listed, and the amount does not end
\* in half a cent, which rounding moves by as much.
Recognised(i) == i \notin Untotalled /\ AmountOf[i] % 10 # 5

\* "Post one invoice as a QBO Bill, exactly once": through retries, reclaims,
\* crashes and lost answers an invoice gets one bill.  Excepted, once a failure has
\* happened: a document number with bills of other invoices (only the first of
\* the answer is looked at), and an invoice whose own bill is not recognised.
OneBill ==
    \A i \in Invoice :
        failures = 0 \/ (Alone(i) /\ Recognised(i)) => Cardinality(BillsFor(i)) <= 1

\* One bill, and a right one.
BillExact == OneBill /\ PostedIsOurs
=============================================================================
