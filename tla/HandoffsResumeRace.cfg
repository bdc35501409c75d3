SPECIFICATION Spec
CONSTANTS
    s = s
    t = t
    Devices = {s, t}
    Source = s
    Target = t
    MaxAttempts = 2
    MaxMints = 2
    MaxRestarts = 0
    Restarting = {}
    Claims = {}
    Endings = {}
    Occurs = {"relay", "limit"}
INVARIANTS
    EveryReportArrives
CHECK_DEADLOCK FALSE
