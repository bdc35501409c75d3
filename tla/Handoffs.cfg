SPECIFICATION MCSpec
CONSTANTS
    s = s
    t = t
    Devices = {s, t}
    Source = s
    Target = t
    MaxAttempts = 2
    MaxMints = 2
    MaxRestarts = 1
    Restarting = {s, t}
    Claims = {}
    Endings = {"sent"}
    Occurs = {"relay", "answer", "expire", "limit"}
INVARIANTS
    TypeOK
    ReportsAgree
    CancellationsAgree
PROPERTIES
    OneTurnPerJob
    NoTurnAfterCancel
    SourceOutcomeFinal
    KeepsPromise
CHECK_DEADLOCK FALSE
