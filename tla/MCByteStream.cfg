SPECIFICATION Spec
CONSTANTS
    MAX_SCAN_BYTES = 18
    MAX_PACKET_LENGTH = 32
    TAG_LEN = 2
    BLOCK_SIZE = 16
    Banners <- MCBanners
    Idents <- MCIdents
    Payloads <- MCPayloads
    Malformed = {"zero", "tooLong", "padding", "empty", "tag"}
    MaxOthers = 1
INVARIANTS
    SplitsDoNotMatter
    PaddingConforms
    BufferBounded
CHECK_DEADLOCK FALSE
