SPECIFICATION Spec
CONSTANTS
    Scripts = {}
    NoCheck = NoCheck
    Founded <- TwiceFailed
    MaxTime = 0
    MaxCalls = 5
    MaxRestarts = 0
    Occurs = {"roster", "older"}
INVARIANTS
    SignedOutStays
CHECK_DEADLOCK FALSE
