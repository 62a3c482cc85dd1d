\* Progress of two runs that contend for a slot, with a crash and a failed call.
SPECIFICATION FairSpec
CONSTANTS
    r1 = r1
    r2 = r2
    sk = sk
    maker = maker
    user = user
    e1 = e1
    e2 = e2
    p1 = p1
    p2 = p2
    NoRun = NoRun
    CloudRun = {r1, r2}
    ExtensionRun = {}
    Skill = {sk}
    Wallet = {maker, user}
    SkillOf <- PairSkill
    RunnerOf <- PairRunner
    OwnerOf <- OneOwner
    Exec = {e1, e2}
    Proc = {p1}
    Host <- SameHost
    RunSlots = 1
    MaxAttempts = 1
    MaxPauses = 1
    Punctual = TRUE
    PauseBudget = 1
    Removable = {}
    MaxClaims = 3
    MaxCrashes = 1
    MaxFaults = 1
PROPERTIES
    EveryRunSettles
    SettledRunIsAnnounced
\* When every run has settled the worker only ticks.
CHECK_DEADLOCK FALSE
