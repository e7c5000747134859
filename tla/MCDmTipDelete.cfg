CONSTANTS
    one = one
    two = two
    Task = {one}
    MaxMsgs = 2
    MaxRequests = 2
    MaxOthers = 0
    MaxErrors = 0
    NoTip = NoTip
SPECIFICATION Spec
CHECK_DEADLOCK FALSE
VIEW Relative
INVARIANT TipIsLastMessage
