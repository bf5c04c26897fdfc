SPECIFICATION Spec
CONSTANTS
    Rules = {r1, r2}
    RemoteRules = {r2}
    Ports = {p1}
    Connection <- OneConnection
    Commands = {"start", "stop", "delete"}
    Tasks = {t1, t2}
    Sids = {s1, s2}
    MaxClients = 1
    Overlaps = {}
    StoreFaults = {"load", "reload", "load_stopped", "erase"}
    None = None
SYMMETRY Symmetry
INVARIANTS DownIsReleased RunningIsServing
