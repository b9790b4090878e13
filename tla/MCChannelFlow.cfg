SPECIFICATION FairSpec
CONSTANTS
    INITIAL_WINDOW_SIZE = 4
    MAX_PACKET_SIZE = 2
    U32_MAX = 4
    None = None
    ServerWindows = {0, 2}
    ServerMaxPackets = {0, 2}
    Input = 3
    Output = 5
    MaxGrant = 2
    HostRetries = TRUE
INVARIANTS
    TypeOK
    WindowsAccount
    NeverOverruns
    NeverStarves
    ChunksAreTheLoops
PROPERTIES
    AllArrives
CHECK_DEADLOCK FALSE
