SPECIFICATION FairSpec

CONSTANTS
    None = None
    Torn = Torn
    Processes = {p1, p2}
    Boots = {b1}
    Installs = {i1}
    Clients = {c1}
    MaxLogBytes = 5
    ChunkSize = 3
    Lengths = {1, 3}
    MaxTailLines = 2
    MaxFaults = 1
    MaxRecords = 2

INVARIANTS
    DaemonTypeOK
    StateFileWhole
    TempsAccounted
    AloneIsReached
    TailIsLastLines
    AnswersAreTrue
PROPERTIES
    ComesUp
    
CHECK_DEADLOCK FALSE
