\* Three concurrent calls on a flagged invoice and two uploads, with a failure.
SPECIFICATION Spec
CONSTANTS
    NoInvoice = NoInvoice
    Invoice = {i1, i2, i3}
    Uploads = {i2, i3}
    Call = {q1, q2, q3}
    Target = {"ledger", "quickbooks"}
    Limit = 2
    MaxFailures = 1
SYMMETRY Symmetry
\* When every invoice has been entered or rejected nothing is left to do.
CHECK_DEADLOCK FALSE
INVARIANTS
    NoDoubleEntry
    QuotaHolds
    NoOrphanBill
