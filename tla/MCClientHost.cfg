SPECIFICATION FairSpec
CONSTANTS
    Credentials = {"none", "good"}
    Verifiers = {TRUE}
    AutoShells = {TRUE}
    MaxExecs = 1
    HostMay = {"close", "nestedClose", "exec", "ctrlC", "reject"}
    ServerMay = {"refuse", "disconnect"}
    MaxFailures = 0
    MaxData = 1
    MaxNesting = 6
INVARIANTS
    ClosesOnce
    NoOrphans
    NothingUnsent
    ResultsComplete
PROPERTIES
    ExecsSettle
    EndIsNoticed
CHECK_DEADLOCK FALSE
