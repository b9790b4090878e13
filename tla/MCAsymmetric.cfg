SPECIFICATION Spec
CONSTANTS
    Versions = {"2.0"}
    Offers <- MCAsymmetricOffers
    NoOffer = NoOffer
    Quirks = {}
    MaxLog = 8
    Credentials = {"password"}
    HostMay = {}
INVARIANTS
    ReceiveCipherNegotiated
CHECK_DEADLOCK FALSE
