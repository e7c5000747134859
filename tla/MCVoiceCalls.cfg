CONSTANTS
    ann = ann
    a1 = a1
    a2 = a2
    a3 = a3
    User = {ann}
    Conn = {a1, a2, a3}
    Owner <- MCOwner
    MaxPerUser = 6
    Channel = {lobby, den}
    MaxOusts = 2
    NoOwner = NoOwner
    NoJoin = NoJoin
    jan = jan
    ewa = ewa
    j1 = j1
    j2 = j2
    e1 = e1
    Caller = {jan, ewa}
    Line = {j1, j2, e1}
    MaxCalls = 1
    MaxRelations = 1
    NoSession = NoSession
    NoConn = NoConn
    Idle = Idle
SPECIFICATION VoiceCallsSpec
CHECK_DEADLOCK FALSE
INVARIANTS
    TypeOK
    RosterMatchesOwner
    NoGhost
    VoiceForMembersOnly
PROPERTIES
    EndSparesLiveVoice
    GhostsLeave
    EveryCallEnds
