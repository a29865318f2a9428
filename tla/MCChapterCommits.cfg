SPECIFICATION Spec
CONSTANTS
    agendaRun = agendaRun
    locatorRun = locatorRun
    resetRun = resetRun
    agendaKey = agendaKey
    locatorKey = locatorKey
    writeKey = writeKey
    candidates = candidates
    chapters = chapters
    agendaText = agendaText
    NoRun = NoRun
    NoKey = NoKey
    Old = Old
    Absent = Absent
    Runs = {agendaRun, locatorRun, resetRun}
    Keys = {agendaKey, locatorKey, writeKey}
    Blocks = {candidates, chapters, agendaText}
    PlansFirst = {}
    Removers = {resetRun}
    Outer <- McOuter
    Inner <- McInner
    Pushes <- McPushes
    Edits <- McEdits
    LeaseTTL = 1
    Skew = 0
    MaxClock = 1
    MaxTries = 2
INVARIANTS
    TypeOK
    Exclusive
    HoldsIsTrue
PROPERTIES
    SerialCommits
CHECK_DEADLOCK FALSE
