SPECIFICATION MCFairSpec
CONSTANTS
    p1 = p1
    p2 = p2
    v = v
    one = one
    two = two
    Processes = {p1, p2}
    Devices = {v}
    Payloads = {one, two}
    MaxCalls = 3
    MaxChanges = 1
    MaxRestarts = 2
    Occurs = {"world", "access", "edit", "reupload", "lost"}
INVARIANTS
    OneEffectPerApproval
    EffectAsApproved
    ApprovedAsShown
PROPERTIES
    EndedIsFinal
    ApprovalsEnd
CHECK_DEADLOCK FALSE
