SPECIFICATION Spec
CONSTANTS
    agendaRun = agendaRun
    locatorRun = locatorRun
    resetRun = resetRun
    agendaKey = agendaKey
    locatorKey = locatorKey
    writeKey = writeKey
    candidates = candidates
    chapters = chapters
    agendaText = agendaText
    NoRun = NoRun
    NoKey = NoKey
    Old = Old
    Absent = Absent
    Runs = {agendaRun, resetRun}
    Keys = {agendaKey, locatorKey, writeKey}
    Blocks = {candidates, chapters, agendaText}
    PlansFirst = {resetRun}
    Removers = {resetRun}
    Outer <- McOuter
    Inner <- McInner
    Pushes <- McPushes
    Edits <- McEdits
    LeaseTTL = 2
    Skew = 0
    MaxClock = 0
    MaxTries = 1
PROPERTIES
    SerialCommits
CHECK_DEADLOCK FALSE
