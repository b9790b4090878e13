SPECIFICATION SocketSpec
CONSTANTS
    Credentials = {"none", "good", "badKey"}
    Verifiers = {TRUE, FALSE}
    AutoShells = {TRUE, FALSE}
    MaxExecs = 0
    HostMay = {"close", "ctrlC", "reject"}
    ServerMay = {"lastFailure", "disconnect", "garbage"}
    MaxFailures = 2
    MaxData = 0
    MaxNesting = 0
    TransportMay = {"readError", "writeError"}
INVARIANTS
    FirstDecides
    NothingGoesOn
    OneAttempt
PROPERTIES
    QuietOnceRejected
    ConnectSettles
CHECK_DEADLOCK FALSE
