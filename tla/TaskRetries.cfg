SPECIFICATION FairSpec
CONSTANTS
    t1 = t1
    c1 = c1
    c2 = c2
    w1 = w1
    w2 = w2
    a = a
    b = b
    NoTask = NoTask
    Originals = {t1}
    Retries = {c1}
    Workers = {w1}
    Operators = {a}
    BeatMin = 2
    CallEvery = 1
    LostBeats = 1
    StuckAfter = 4
    MaxCopies = 1
CHECK_DEADLOCK FALSE
INVARIANTS TypeOK RowBeforeMessage HeldRetryable LinksValid
PROPERTIES OrphansFound SweepSparesLive FailSparesStarted
