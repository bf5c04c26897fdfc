SPECIFICATION FairSpec
CONSTANTS
    Rules = {r1}
    RemoteRules = {}
    Ports = {p1}
    Connection <- OneConnection
    Commands = {"start", "stop", "stop_connection", "delete", "upsert"}
    Tasks = {t1, t2}
    Sids = {s1, s2}
    MaxClients = 0
    Overlaps = {r1}
    StoreFaults = {"load", "load_stopped", "erase", "list_rules", "save"}
    None = None
INVARIANTS RuntimeIsOwned
PROPERTIES Released
