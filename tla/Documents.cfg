SPECIFICATION Spec

CONSTANTS
    None = None
    Blank = Blank
    DefaultId = DefaultId
    DefaultName = DefaultName
    other = other
    otherName = otherName
    good = good
    badLan = badLan
    typo = typo
    fresh = fresh
    Clients = {c1}
    Ids = {Blank, DefaultId, other}
    Names = {Blank, DefaultName, otherName}
    Contents = {good, badLan, typo, fresh}
    Filled = {good, badLan, typo}
    Complete = {good, badLan}
    Sane = {good, typo, fresh}
    DefaultContent = fresh
    DefaultPort = 9086
    Ports <- MCPorts
    ProfileLists <- MCProfileLists
    HandWritten <- MCHandWritten

INVARIANTS
    TypeOK
    RestartKeepsDocument
    OwnFilesBoot

PROPERTIES
    EditsKeepShape
    OnlyStaleClonesGoBack
