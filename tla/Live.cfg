SPECIFICATION MCFairSpec
CONSTANTS
    r1 = r1
    r2 = r2
    MaxMessages = 3
    MaxCalls = 2
    MaxReplies = 2
    MaxStops = 2
    Occurs = {"question", "refuse", "stuck", "fail"}
INVARIANTS
    AnsweredOrStopped
    ReadOnce
    HeldWaits
    CallsAnswered
PROPERTIES
    MessagesCarried
    StopEnds
    AttemptsEnd
    RunsSettle
CHECK_DEADLOCK FALSE
