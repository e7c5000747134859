CONSTANTS
    one = one
    two = two
    Handler = {one, two}
    MaxMsgs = 2
    MaxTipRequests = 2
    MaxOthers = 0
    MaxErrors = 1
    NoTip = NoTip
    pat = pat
    quin = quin
    Person = {pat, quin}
    Nobody = Nobody
    Reactor = {pat, quin}
    MaxUses = 1
    MaxActing = 2
    MaxActs = 3
    MaxFaults = 1
    MaxPosts = 2
    MaxRounds = 3
    MaxAsked = 2
    MaxMishaps = 1
    MaxRequests = 5
SPECIFICATION ChatsSpec
CHECK_DEADLOCK FALSE
SYMMETRY AnyHandler
VIEW RelativeTip
INVARIANTS
    ChatsTypeOK
    ConversationsSettle
    
    MessageKept
PROPERTY DeletedStays
