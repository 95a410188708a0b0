SPECIFICATION Spec

CONSTANTS
    None = None
    home = home
    office = office
    blank = blank
    e1 = e1
    e2 = e2
    t1 = t1
    t2 = t2
    l1 = l1
    l2 = l2
    ProfileConfig <- MCProfileConfig
    Endpoints = {e1, e2}
    TunnelAddrs = {t1, t2}
    LanAddrs = {l1, l2}
    Profiles = {home, office, blank}
    WanAddrs = {w1}
    Clients = {c1, c2}
    InitDocuments <- AnyInstall
    InitWans = {None, w1}
    MaxFaults = 0
    MaxOps = 2
    MaxCrashes = 1
    StopAllowed = FALSE

SYMMETRY Symmetry

INVARIANTS
    StatusNamesDesired
    DesiredIsPersisted
    OffMeansTornDown
PROPERTIES
    ImplementsStore
