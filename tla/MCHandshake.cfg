SPECIFICATION FairSpec
CONSTANTS
    Versions = {"2.0"}
    Offers <- MCSymmetricOffers
    NoOffer = NoOffer
    Quirks = {"debug", "disconnect", "globalRequest"}
    MaxLog = 9
    Credentials = {"password", "publickey"}
    HostMay = {"reject", "close"}
INVARIANTS
    TypeOK
    LockstepIn
    LockstepOut
    NeverFatal
    NoPanic
PROPERTIES
    AcceptedSettles
    RequestSettles
CHECK_DEADLOCK FALSE
