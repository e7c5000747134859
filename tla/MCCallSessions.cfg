CONSTANTS
    ann = ann
    bob = bob
    cat = cat
    a1 = a1
    a2 = a2
    b1 = b1
    User = {ann, bob}
    Conn = {a1, a2, b1}
    Owner <- MCOwner
    MaxPerUser = 6
    MaxCalls = 2
    MaxRelations = 1
    NoSession = NoSession
    NoConn = NoConn
    Idle = Idle
SPECIFICATION Spec
SYMMETRY AnnsConnections
CHECK_DEADLOCK FALSE
INVARIANTS
    TypeOK
    EndsOnce
    NeverForgotten
    
PROPERTY KeepsPromise
