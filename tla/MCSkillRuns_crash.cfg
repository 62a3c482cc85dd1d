\* A process crash at any point, of a run or of an edit; no database failure; STALE_MS long enough.
SPECIFICATION SkillRunsSpec
CONSTANTS
    r1 = r1
    r2 = r2
    sk = sk
    maker = maker
    user = user
    e1 = e1
    e2 = e2
    p1 = p1
    p2 = p2
    NoRun = NoRun
    CloudRun = {r1, r2}
    ExtensionRun = {}
    Skill = {sk}
    Wallet = {maker, user}
    SkillOf <- PairSkill
    RunnerOf <- PairRunner
    OwnerOf <- OneOwner
    Exec = {e1, e2}
    Proc = {p1, p2}
    Host <- TwoHosts
    RunSlots = 1
    MaxAttempts = 2
    MaxPauses = 1
    Punctual = TRUE
    PauseBudget = 1
    Removable = {}
    MaxClaims = 3
    MaxCrashes = 1
    MaxFaults = 0
    ca = ca
    cb = cb
    NoContent = NoContent
    Writer = {w1, w2}
    Content = {ca, cb}
    Runs <- FitPairs
    Edits <- SomeEdits
    Kept = 1
    MaxVersion = 3
    MaxBreaks = 1
\* When every run has settled the worker only ticks; a skill may have all its versions.
CHECK_DEADLOCK FALSE
INVARIANTS
    SkillRunsTypeOK
    DoneOnce
    SkillKept
