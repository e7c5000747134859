CONSTANTS
    one = one
    two = two
    Letter = {one, two}
    MaxAttempts = 2
    MaxSlips = 1
    pat = pat
    quin = quin
    Person = {pat, quin}
    MaxDocs = 3
    MaxHandlers = 2
    MaxCalls = 6
    MaxToggles = 4
    AtOnce = 2
    MaxReaders = 1
    MaxFiles = 3
    MaxBytes = 1
    MaxPending = 2
    UploadsAtOnce = 2
    MaxErrors = 1
    Caller = {c1, c2}
    Own = {home, work}
    Everybody = Everybody
    MaxOwn = 1
    MaxAll = 2
    Window = 2
    Guest = {g1, g2}
    Name = {ann, ben, cat}
    MaxHour = 2
    MaxDay = 2
    Hours = 2
    MaxTries = 4
    MaxFails = 1
SPECIFICATION RelationsSpec
CHECK_DEADLOCK FALSE
SYMMETRY AnyCarrier
INVARIANTS
    RelationsTypeOK
    FriendshipHolds
    CachesFollow
    
    InfectedStaysIn
    
    LimitsKept
