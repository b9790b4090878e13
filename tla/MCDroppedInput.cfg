SPECIFICATION FairSpec
CONSTANTS
    INITIAL_WINDOW_SIZE = 4
    MAX_PACKET_SIZE = 2
    U32_MAX = 4
    None = None
    ServerWindows = {2}
    ServerMaxPackets = {2}
    Input = 3
    Output = 2
    MaxGrant = 2
    HostRetries = FALSE
INVARIANT
    InputIsSent
CHECK_DEADLOCK FALSE
