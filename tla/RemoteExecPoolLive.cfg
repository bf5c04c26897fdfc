SPECIFICATION FairSpec
CONSTANTS
    Callers = {c1, c2}
    Conns = {1}
    Sigs = {1}
    Sessions = {s1, s2}
    EntryPoints = {"mcp", "chunks", "expel"}
    MaxCached = 1
    None = None
INVARIANTS OpenAccounted
PROPERTIES RequestReturns IdleReclaimed
