\* Concurrent claims and reconcilers, a crash, a failed call, automatic roll backs.
SPECIFICATION Spec
CONSTANTS
    x1 = x1
    x2 = x2
    maker = maker
    q1 = q1
    q2 = q2
    p1 = p1
    p2 = p2
    c1 = c1
    c2 = c2
    NoClaim = NoClaim
    Earning = {x1, x2}
    Owner = {maker}
    EarnedBy <- OneOwner
    Claim = {c1, c2}
    Request = {q1, q2}
    Proc = {p1, p2}
    Host <- TwoHosts
    Prompt = TRUE
    AutoRollback = TRUE
    MaxCrashes = 1
    MaxFaults = 1
SYMMETRY Symmetry
\* Once everything is paid and settled nothing is left to do.
CHECK_DEADLOCK FALSE
INVARIANTS
    EarningsAccounted
PROPERTIES
    ReclaimOnlyUnpaid
    ImplementsContract
