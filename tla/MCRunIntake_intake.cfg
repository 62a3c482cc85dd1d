SPECIFICATION Spec
CONSTANTS
    None = None
    Request = {q1, q2}
    Bulk = {u1}
    Ticker = {t1, t2}
    Key = {k1}
    Schedule = {s1}
    Limit = 2
    Rows = 2
    MaxCount = 2
    MaxClock = 2
    MaxFailures = 1
    MaxCalls = 3
SYMMETRY Symmetry
\* The times of the schedules are used up.
CHECK_DEADLOCK FALSE
INVARIANTS
    StartedOnce
    QuotaKept
    TotalIsChildren
