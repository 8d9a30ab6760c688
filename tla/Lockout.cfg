SPECIFICATION FairSpec
CONSTANTS
    a1 = a1
    a2 = a2
    a3 = a3
    Attempts = {a1, a2}
    Threshold = 2
    Window = 3
    Cooldown = 4
    MaxDelay = 1
    Period = 2
INVARIANTS TypeOK GuessesBounded
PROPERTIES AlwaysReopens
