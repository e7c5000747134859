CONSTANTS
    ann = ann
    a1 = a1
    a2 = a2
    User = {ann}
    Conn = {a1, a2}
    Owner <- MCOwner
    MaxPerUser = 2
    MaxFrames = 2
    MaxErrors = 1
    MaxSockets = 2
    MaxAtOnce = 2
    MaxTokens = 3
    MaxRequests = 2
    MaxSecrets = 4
    MaxTwoFactor = 2
    MaxWrites = 1
    MaxStops = 2
    MaxPictures = 3
    MaxEditors = 2
SPECIFICATION AccountsFairSpec
CHECK_DEADLOCK FALSE
INVARIANTS
    AccountsTypeOK
    OnlineMatches
    SessionsEnd
    TwoFactorHolds
    
    PictureKept
PROPERTIES
    GoneGoesOffline
    DeniedAccountEnds
    DueMeansDeleted
