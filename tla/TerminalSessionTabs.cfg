SPECIFICATION FairSpec
CONSTANTS
    Tabs = {t1, t2}
    Linked = {t1}
    Sids = {s1, s2, s3}
    EarlyEnds = TRUE
    None = None
INVARIANTS OpenIsOwned PanelAndTabAgree StoredIsRead
PROPERTIES ClosedTabReleases StaleCloseIgnored
CHECK_DEADLOCK FALSE
