SPECIFICATION Spec
CONSTANTS
    MaxMessages = 2
    MaxCalls = 1
    MaxReplies = 1
    MaxStops = 1
    Occurs = {"after"}
INVARIANTS
    AnsweredOrStopped
CHECK_DEADLOCK FALSE
