\* Two jobs that overlap on one route, retry after a 429, and the end of a day.
CONSTANTS
    i = i
    j = j
    r1 = r1
    r2 = r2
    Jobs <- TwoJobs
    Routes <- OneRoute
    NoRoute = NoRoute
    Requests = 2
    Rpd = 4
    Interval = 1
    Concurrency = 2
    ProviderConcurrency = 2
    TTL = 3
    Cooldown = 1
    DayLength = 2
    MaxTries = 1
    MaxRounds = 1
    MaxClock = 3
    Prompt = TRUE
SYMMETRY JobSymmetry
SPECIFICATION Spec
INVARIANT AdmissionsPaced
PROPERTY AtomicOperations
CHECK_DEADLOCK FALSE
