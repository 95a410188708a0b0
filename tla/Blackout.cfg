SPECIFICATION FairSpec
CONSTANTS
    None = None
    home = home
    private = private
    e1 = e1
    t1 = t1
    t2 = t2
    l1 = l1
    l2 = l2
    br0 = br0
    Profiles = {home}
    ProfileConfig <- MCProfileConfig
    Endpoints = {e1}
    TunnelAddrs = {t1, t2}
    LanAddrs = {l1, l2}
    WanAddrs = {w1}
    Interfaces = {br0}
    InterfaceOf <- MCInterfaceOf
    ConfiguredMTU <- MCConfiguredMTU
    Preferred = {t1, l1, l2}
    WanMTUs = {1492}
    InitDocuments <- Enabled
    LanMTU = 1500
    MaxFaults = 1
    MaxCrashes = 0
PROPERTIES
    BlackoutEnds
CHECK_DEADLOCK FALSE
