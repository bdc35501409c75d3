SPECIFICATION MCSpec
CONSTANTS
    d1 = d1
    d2 = d2
    v = v
    w = w
    a = a
    b = b
    x = x
    y = y
    z = z
    c1 = c1
    c2 = c2
    c3 = c3
    m1 = m1
    m2 = m2
    j1 = j1
    j2 = j2
    t1 = t1
    t2 = t2
    r1 = r1
    k1 = k1
    h1 = h1
    q1 = q1
    Deliveries = {d1, d2}
    Matching = {d1, d2}
    Sent = {d1, d2}
    MaxGeneration = 2
    MaxTime = 3
    Retention = 2
    MaxCalls = 4
    MaxRestarts = 1
    Occurs = {"pause", "policy", "reconnect", "stop", "away", "moves", "busy", "drop"}
INVARIANTS
    OneHeld
    NoUnaskedRun
    TasksAcyclic
    BudgetsCount
    BudgetsBound
PROPERTIES
    CallsWithinLimits
    RoutineTakenOnce
CHECK_DEADLOCK FALSE
