SPECIFICATION Spec
CONSTANTS
    o1 = o1
    o2 = o2
    o3 = o3
    Reaper = Reaper
    Owners = {o1, o2}
    NoCycle = 0
    Cycles = {1}
    McCycle2 = 1
    Est <- McEst
    CycleOf <- McCycleOf
    Cap = 2
    MaxInflight = 1
    MaxActual = 2
    MaxTries = 2
INVARIANTS
    TypeOK
    WithinLimits
    SpendCharged
    ReservationHeld
PROPERTY AtomicUpdates
CHECK_DEADLOCK FALSE
