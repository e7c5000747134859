CONSTANTS
    ann = ann
    bob = bob
    User = {ann, bob}
    Cap = 2
    MaxJobs = 3
    MaxPanics = 1
    home = home
    work = work
    a1 = a1
    a2 = a2
    a3 = a3
    b1 = b1
    b2 = b2
    Socket = {a1, a2, a3, b1, b2}
    Address = {home, work}
    MaxTotal = 3
    MaxPerIp = 2
    MaxPerUser = 1
    From <- MCFrom
    Of <- MCOf
    Chat = {tea, tin, toy}
    QueueMax = 2
    MaxFrames = 5
    Nothing = Nothing
SPECIFICATION StateFairSpec
CHECK_DEADLOCK FALSE
INVARIANTS
    StateTypeOK
    InOrder
    Accounted
    AdmissionHolds
    LastWordWins
PROPERTY EveryJobRuns
