CONSTANTS
    ann = ann
    a1 = a1
    a2 = a2
    a3 = a3
    User = {ann}
    Conn = {a1, a2, a3}
    Owner <- MCOwner
    MaxPerUser = 6
    Channel = {lobby, den}
    MaxOusts = 1
    NoOwner = NoOwner
    NoJoin = NoJoin
SPECIFICATION Spec
CHECK_DEADLOCK FALSE
INVARIANT KickDropsVoice
