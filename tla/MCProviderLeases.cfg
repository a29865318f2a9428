\* Two processes that each need one slot of both domains.
CONSTANTS
    a = a
    b = b
    p = p
    q = q
    Callers <- TwoCallers
    NoCaller = NoCaller
    Processes <- TwoProcesses
    ProcessOf <- ProcessOfTwo
    Domains <- TwoDomains
    Wants <- AllWantBoth
    Cap <- OneEach
    SlotCount <- OneEach
    Offset <- OffsetByProcess
    LeaseTTL = 1
    Skew = 0
    Ahead <- SecondAhead
    Horizon = 0
SPECIFICATION Spec
INVARIANTS TypeOK CapUntilExpiry SureIsTrue NoCircularWait
PROPERTY FreesOnlyOwn
