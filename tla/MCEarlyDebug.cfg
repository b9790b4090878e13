SPECIFICATION Spec
CONSTANTS
    Versions = {"2.0"}
    Offers <- MCSymmetricOffers
    NoOffer = NoOffer
    Quirks = {"earlyDebug"}
    MaxLog = 8
    Credentials = {"password"}
    HostMay = {}
INVARIANTS
    NeverFatal
CHECK_DEADLOCK FALSE
