CONSTANTS
    ann = ann
    bob = bob
    cat = cat
    a1 = a1
    a2 = a2
    b1 = b1
    User = {ann, bob, cat}
    Conn = {a1, a2, b1}
    Owner <- MCOwner
    MaxPerUser = 6
    MaxCalls = 2
    MaxRelations = 0
    NoSession = NoSession
    NoConn = NoConn
    Idle = Idle
SPECIFICATION Spec
CHECK_DEADLOCK FALSE
INVARIANT TimeoutIsHangup
