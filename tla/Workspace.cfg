SPECIFICATION Spec
CONSTANTS
    a1 = a1
    a2 = a2
    b1 = b1
    l1 = l1
    r1 = r1
    v1 = v1
    fa = fa
    A = A
    B = B
    R = R
    V = V
    Ssh = {a1, a2, b1}
    Local = {l1}
    Rdp = {r1}
    Vnc = {}
    Files = {fa}
    Conn <- HostOf
    Scopes = {"self", "others", "right", "all"}
    MaxTabs = 3
    Nil = Nil
    s1 = s1
    s2 = s2
    s3 = s3
    Terminals = {s1, s2, s3}
    Empty = Empty
    MultiTabs = {s1, s2, s3}
    MaxSends = 1
    MaxDrops = 2
    p1 = p1
    p2 = p2
    Paths = {p1, p2}
    FirstPath = p1
    Texts = {"", "a"}
    Blank = ""
    OthersTexts = {"", "a"}
    Versions = {1, 2}
    MaxReads = 1
    MaxWrites = 1
    NoTab = NoTab
    i1 = i1
    i2 = i2
    InstanceIds = {i1, i2}
    BlankPane = BlankPane
    MaxChanges = 3
    MaxStarts = 3
    NoSnapshot = NoSnapshot
    Unreadable = Unreadable
    d1 = d1
    d2 = d2
    d3 = d3
    Desktops = {d1, d2, d3}
    RdpTabs = {d2, d3}
    Windowed = {d1}
    MaxRuns = 3
    MaxEvents = 2
    NoSession = NoSession
    MaxOutput = 2
    MaxBatch = 2
    Drafts = {0, 1}
    MaxListReads = 2
    MaxCalls = 1
    MaxDockerTurns = 2
    Profiles = {p1, p2}
    Protocols = {"ssh", "rdp", "telnet"}
    Trimmed <- TrimOf
    Stored = p1
    StoredSecret = "a"
    MaxFormTurns = 4
    Parts = {"tabs", "split", "multi", "restarts", "output"}
INVARIANTS ShownIsLive GroupIsSound LiveToPicked IdleIsStored OutputIsShown
PROPERTY FilesKeepTerminal
CHECK_DEADLOCK FALSE
