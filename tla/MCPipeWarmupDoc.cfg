SPECIFICATION Spec
CONSTANTS
    WEBRTC_WINDOW = 1
    WINDOWS_KEPT = 1
    Peers = {p1}
    NoPeer = NoPeer
    EngineEvents <- WarmupEvents
    TMP_LEN = 2
    RX_CAP = 2
    TX_CAP = 1
    LAST_BYTE = 7
    MAX_QUEUE = 2
    RealtimePeers = FALSE
INVARIANTS
    WarmupDiscarded
