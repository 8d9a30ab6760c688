SPECIFICATION FairSpec
CONSTANTS
    w1 = w1
    w2 = w2
    q1 = q1
    r1 = r1
    r2 = r2
    r3 = r3
    Workers = {w1, w2}
    Sessions = {q1}
    Readers = {r1, r2, r3}
    MaxWrites = 3
    Host <- Placed
    MaxSavepoints = 3
    Kinds = {"memberships", "hosts", "roles", "uncached"}
    WritesOf <- Writing
    SavepointsOf <- Nesting
    ReadersOf <- Served
    TTL = 1
    FillAttempts = 2
    MaxInbox = 1
CHECK_DEADLOCK FALSE
INVARIANTS TypeOK NoStaleKept WritesTracked
PROPERTIES OwnWorkerFresh Answered Converges
