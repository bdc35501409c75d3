SPECIFICATION MCFairSpec
CONSTANTS
    i = i
    j = j
    p = p
    x = x
    r = r
    Devices = {i, j, p, x}
    Identity = {i, j}
    Founders = {i, p, x}
    Away = {}
    Awake = {i, j, p}
    Unpairer <- NoPairer
    Pairer <- NoPairer
    Records = {r}
    Author <- NoAuthor
    All = All
    None = None
    MaxCuts = 1
    MaxRestarts = 1
    Parts = {"rotate", "cuts", "makers", "joins", "restarts"}
INVARIANTS
    LeftOut
    KeysAgree
    MessagesTaken
PROPERTIES
    Settles
CHECK_DEADLOCK FALSE
