SPECIFICATION Spec
CONSTANTS
    MAX_SCAN_BYTES = 18
    MAX_PACKET_LENGTH = 32
    TAG_LEN = 2
    BLOCK_SIZE = 16
    Banners <- MCBanners
    Idents <- MCIdents
    Payloads <- MCPayloads
    Malformed = {}
    MaxOthers = 1
INVARIANTS
    LimitedUntilKeyed
CHECK_DEADLOCK FALSE
