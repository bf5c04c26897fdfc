SPECIFICATION Spec
CONSTANTS
    x1 = x1
    x2 = x2
    Transfers = {x1, x2}
    Kind <- DirectAndArchived
    Limits = {1, 2}
    History = 1
    NoTransfer = NoTransfer
    c1 = c1
    c2 = c2
    Conns = {c1, c2}
    Late = {c1}
    Limit = 2
    MaxNew = 3
    MaxTabs = 3
    t1 = t1
    t2 = t2
    Tabs = {t1, t2}
    Temporary = {t1}
    k1 = k1
    k2 = k2
    Keys = {k1, k2}
    MaxOpens = 2
    NoKey = NoKey
    h1 = h1
    h2 = h2
    Chats = {h1, h2}
    MaxExchanges = 3
    NoChat = NoChat
    MaxPolls = 3
    MaxTurns = 4
    Containers = {k1, k2}
    NoContainer = NoContainer
    MaxStreams = 2
    MaxChunks = 3
    Depth = 2
    MaxVersion = 1
    MaxLoads = 3
    MaxActs = 5
    RestoredPath = 2
INVARIANTS CancelReleases LiveIsShown ShownInSession MonitorIsAwake LogsAreOwned FilesAreCurrent
PROPERTIES RowLife TransfersEnd PanelIsFreed
CHECK_DEADLOCK FALSE
