SPECIFICATION Spec
CONSTANTS
    lo = lo
    hi = hi
    junk = junk
    c1 = c1
    c2 = c2
    None = None
    Undef = Undef
    Failed = Failed
    Check = {c1}
    Reading = {lo, hi, junk}
    Blank = lo
    Satisfying = {hi}
    Unreadable = {junk}
    Rule <- Rules
    Action = {"alert", "run"}
    BrokenAfter = 2
    MaxFailures = 1
INVARIANTS
    TypeOK
    ActNeedsBaseline
    BrokenToldOnce
PROPERTIES
    ImplementsContract
CONSTRAINT Unraced
