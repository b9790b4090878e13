SPECIFICATION Spec
CONSTANTS
    INITIAL_WINDOW_SIZE = 2
    MAX_PACKET_SIZE = 1
    U32_MAX = 3
    None = None
    ID_SPACE = 2
    ServerMay = {"deny", "keepalive", "talkAfterDenial"}
    Windows = {1}
    MaxData = 1
    HostMay = {}
    Kinds = {"Exec", "Shell"}
    MaxOpens = 1
    MaxExtras <- MCMaxExtras
INVARIANTS
    NeverFails
CHECK_DEADLOCK FALSE
