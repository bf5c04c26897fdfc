SPECIFICATION Spec
CONSTANTS
    Callers = {c1, c2}
    Conns = {1}
    Sigs = {1, 2}
    Sessions = {s1, s2, s3}
    EntryPoints = {"retry", "chunks", "expel"}
    MaxCached = 1
    None = None
SYMMETRY Symmetry
INVARIANTS CachedOpen HandleMatchesConfig
PROPERTIES NoResurrection
