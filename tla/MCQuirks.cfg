SPECIFICATION Spec
CONSTANTS
    Versions = {"2.0", "1.5"}
    Offers <- MCAllOffers
    NoOffer = NoOffer
    Quirks = {"debug", "earlyDebug", "disconnect", "globalRequest", "banner", "rekey", "badSignature"}
    MaxLog = 8
    Credentials = {"password", "publickey"}
    HostMay = {"reject", "close", "earlyExec"}
INVARIANTS
    AcceptGate
PROPERTIES
    KeepsPromise
CHECK_DEADLOCK FALSE
