SPECIFICATION FairSpec
CONSTANTS
    INITIAL_WINDOW_SIZE = 2
    MAX_PACKET_SIZE = 1
    U32_MAX = 3
    None = None
    ID_SPACE = 3
    ServerMay = {"refuse", "deny", "closeEarly", "keepalive", "grant"}
    Windows = {1}
    MaxData = 1
    HostMay = {"send", "resize", "close"}
    Kinds = {"Exec", "Shell"}
    MaxOpens = 2
    MaxExtras <- MCMaxExtras
INVARIANTS
    TypeOK
    NoPanic
    NeverFails
    RepliesMatch
    NoStrays
PROPERTIES
    KeepsPromise
    OpenSettles
    CloseSettles
CHECK_DEADLOCK FALSE
