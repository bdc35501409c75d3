SPECIFICATION MCSpec
CONSTANTS
    d = d
    e = e
    b1 = b1
    b2 = b2
    c1 = c1
    c2 = c2
    g = g
    m1 = m1
    m2 = m2
    m3 = m3
    n = n
    Devices = {d, e}
    Bots = {b1, b2}
    Chats = {c1, c2, g}
    Messages = {m1, m2, m3, n}
    DmOf <- Dm
    ChatOf <- ChatsOf
    Author <- AllByD
    Rows = {m2}
    Founded <- TwoBots
    Prior <- NoPrior
    Newcomers = {}
    MaxVersion = 2
    MaxChanges = 3
    MaxCuts = 1
    MaxRestarts = 1
    Failing = {"sent", "pull"}
    PageSize = 2
    OlderPage = 1
    Parts = {"rosters"}
PROPERTIES
    RostersKeepChats
CHECK_DEADLOCK FALSE
