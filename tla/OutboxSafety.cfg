SPECIFICATION Spec
CONSTANTS
    r1 = r1
    r2 = r2
    w1 = w1
    w2 = w2
    NoRow = NoRow
    Rows = {r1, r2}
    Workers = {w1, w2}
    Requests <- ChainRequests
    Emits <- ChainEmits
    MaxAttempts = 2
    Lease = 1
    HandlerTimeout = 0
    BackoffBase = 1
    BackoffCap = 2
    DispatchLimit = 2
    Punctual = {}
    MaxCopies = 1
    MaxRetries = 1
SYMMETRY WorkerSymmetry
INVARIANTS ExactlyOnce RetryBudget
PROPERTIES OnlyHolderEnds KeepsPromise
