\* Double executions in one process, one failed database call, a removed skill.
SPECIFICATION Spec
CONSTANTS
    r1 = r1
    r2 = r2
    sk = sk
    maker = maker
    user = user
    e1 = e1
    e2 = e2
    p1 = p1
    p2 = p2
    NoRun = NoRun
    CloudRun = {r1}
    ExtensionRun = {r2}
    Skill = {sk}
    Wallet = {maker, user}
    SkillOf <- PairSkill
    RunnerOf <- PairRunner
    OwnerOf <- OneOwner
    Exec = {e1, e2}
    Proc = {p1, p2}
    Host <- SameHost
    RunSlots = 1
    MaxAttempts = 2
    MaxPauses = 1
    Punctual = FALSE
    PauseBudget = 1
    Removable = {sk}
    MaxClaims = 3
    MaxCrashes = 0
    MaxFaults = 1
\* When every run has settled the worker only ticks.
CHECK_DEADLOCK FALSE
INVARIANTS
    AccountingExact
    CountNeverAhead
PROPERTIES
    StaleExecutionHarmless
    ImplementsContract
