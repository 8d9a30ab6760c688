SPECIFICATION FairSpec
CONSTANTS
    Keys = {k1, k2}
    NoKey = NoKey
    Requests = {q1, q2}
    Owner <- OneOwner
    Quota = 1
    TTL = 1
    MaxTx = 2
INVARIANTS BytesKept QuotaKept
PROPERTIES NoFileAfterAbort StoreDrains
