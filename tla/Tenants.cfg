SPECIFICATION FairSpec
CONSTANTS
    u1 = u1
    u2 = u2
    u3 = u3
    q1 = q1
    q2 = q2
    NoUser = NoUser
    Users = {u1, u2, u3}
    Founder = u1
    Guests = {u2, u3}
    Leavers = {u2}
    Seats = 2
    MaxAttempts = 2
    Requests = {q1, q2}
CHECK_DEADLOCK FALSE
INVARIANTS SeatsKept
PROPERTIES OwnerKept JoinsByOpenInvite DeletedLeave
