SPECIFICATION MCSpec
CONSTANTS
    a = a
    b = b
    Devices = {a, b}
    Authority = a
    Runners = {a, b}
    Callers = {a, b}
    Edits = {"queued", "cancelled"}
    MaxRequests = 4
    MaxRuns = 2
    Restarting = {b}
    MaxRestarts = 1
    Occurs = {"unclaimed", "expire", "reupload", "refresh"}
INVARIANTS
    OneTurnAtATime
    ReplicasFollow
    NoLostUpdate
PROPERTIES
    StopsReach
    RunsFollow
CHECK_DEADLOCK FALSE
