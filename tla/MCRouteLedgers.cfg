\* Two jobs, two routes and a provider that takes one call at a time.
CONSTANTS
    i = i
    j = j
    r1 = r1
    r2 = r2
    Jobs <- TwoJobs
    Routes <- TwoRoutes
    NoRoute = NoRoute
    Requests = 2
    Rpd = 3
    Interval = 0
    Concurrency = 1
    ProviderConcurrency = 1
    TTL = 2
    Cooldown = 1
    DayLength = 2
    MaxTries = 2
    MaxRounds = 0
    MaxClock = 2
    Prompt = TRUE
SYMMETRY JobSymmetry
SPECIFICATION Spec
INVARIANTS TypeOK CallReserved ConcurrencyKept DailyLimit
CHECK_DEADLOCK FALSE
