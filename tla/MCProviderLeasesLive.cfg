\* Two callers of one process, whose semaphore lets one of them at a time look
\* for one of the two slots of a domain.
CONSTANTS
    a = a
    b = b
    p = p
    q = q
    Callers <- TwoCallers
    NoCaller = NoCaller
    Processes <- TwoProcesses
    ProcessOf <- SameProcess
    Domains <- OneDomain
    Wants <- AllWantOne
    Cap <- OneEach
    SlotCount <- TwoEach
    Offset <- OffsetByProcess
    LeaseTTL = 1
    Skew = 0
    Ahead <- SecondAhead
    Horizon = 0
SPECIFICATION FairSpec
PROPERTY WaitersProgress
