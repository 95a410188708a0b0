SPECIFICATION FairSpec

CONSTANTS
    None = None
    home = home
    office = office
    blank = blank
    e1 = e1
    e2 = e2
    t1 = t1
    t2 = t2
    l1 = l1
    l2 = l2
    ProfileConfig <- MCProfileConfig
    Endpoints = {e1, e2}
    TunnelAddrs = {t1, t2}
    LanAddrs = {l1, l2}
    Profiles = {home}
    WanAddrs = {w1, w2}
    Clients = {}
    InitDocuments <- RunningInstall
    InitWans = {None, w1}
    MaxFaults = 2
    MaxOps = 0
    MaxCrashes = 0
    StopAllowed = TRUE

CHECK_DEADLOCK FALSE

PROPERTIES
    SelfHeals
    StopReturns
