SPECIFICATION Spec
CONSTANTS
    WEBRTC_WINDOW = 1
    WINDOWS_KEPT = 2
    Peers = {p1}
    NoPeer = NoPeer
    EngineEvents <- PlayoutEvents
    TMP_LEN = 3
    RX_CAP = 0
    TX_CAP = 2
    LAST_BYTE = 9
    MAX_QUEUE = 1
    RealtimePeers = FALSE
INVARIANTS
    PlayoutSamplesIntact
