CONSTANTS
    h1 = h1
    h2 = h2
    h3 = h3
    Nobody = Nobody
    Handles = {h1, h2, h3}
    Slow = {h1, h2, h3}
    Slots = 2
    Semaphore = TRUE
    TTL = 1
    MaxTime = 2
    MaxCalls = 5
SPECIFICATION Spec
SYMMETRY Renamings
INVARIANT TypeOK
INVARIANT StillHeld
INVARIANT OneSlot
INVARIANT DeadlockNeedsTwoRows
PROPERTY NotDenied
PROPERTY KeepsPromise
CHECK_DEADLOCK FALSE
