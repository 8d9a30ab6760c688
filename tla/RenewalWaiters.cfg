SPECIFICATION Spec
CONSTANTS
    q1 = q1
    q2 = q2
    q3 = q3
    Logout = Logout
    Stray = Stray
    NoOne = NoOne
    Requests = {q1, q2}
    MaxTokens = 1
    TTL = 4
    Delay = 2
    WorkTime = 1
    PublishTime = 1
    OutcomeTTL = 1
SYMMETRY RequestSymmetry
CHECK_DEADLOCK FALSE
PROPERTIES WaitersLeaveCookie
