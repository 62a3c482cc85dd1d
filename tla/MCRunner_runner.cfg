SPECIFICATION RunnerSpec
CONSTANTS
    e1 = e1
    e2 = e2
    e3 = e3
    r1 = r1
    r2 = r2
    None = None
    Exec = {e1, e2, e3}
    Run = {r1, r2}
    RunOf <- TwoOfOne
    Max = 2
    MaxPauses = 2
    PlanLength = 3
    Plans <- SomePlans
    RunTime = 2
    WaitTime = 2
    StepTime = 1
    MaxCaptchaPauses = 1
    LiveOn = TRUE
    MaxTries = 2
    MaxThrows = 1
    Recordings = {d1, d2}
    Nobody = Nobody
    MaxActions = 2
    MaxGone = 1
\* Executions, plans and calls end.
CHECK_DEADLOCK FALSE
INVARIANTS
    RunnerTypeOK
    SlotsExact
    RecordFaithful
    TimeBounded
    RecordingIntact
PROPERTIES
    ResumeHonoured
    RunsEnd
    NothingLeaks
