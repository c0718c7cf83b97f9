SPECIFICATION TimedSpec
CONSTANTS
    WEBRTC_WINDOW = 1
    WINDOWS_KEPT = 1
    Peers = {}
    NoPeer = NoPeer
    EngineEvents <- AllEngineEvents
    TMP_LEN = 2
    RX_CAP = 0
    TX_CAP = 1
    LAST_BYTE = 3
    MAX_QUEUE = 1
    RealtimePeers = FALSE
    TICK = 2
    MAX_NOW = 5
INVARIANTS
    StopsOnlyWhenTold
    NeverAhead
    NoBurst
    NoDrift
    OneTrailingWindow
