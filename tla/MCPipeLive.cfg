SPECIFICATION FairSpec
CONSTANTS
    WEBRTC_WINDOW = 1
    WINDOWS_KEPT = 1
    Peers = {p1, p2}
    NoPeer = NoPeer
    EngineEvents <- ShutdownEvents
    TMP_LEN = 2
    RX_CAP = 2
    TX_CAP = 1
    LAST_BYTE = 3
    MAX_QUEUE = 1
    RealtimePeers = TRUE
PROPERTIES
    ShutdownCompletes
    ClosedPeerReleased
    WaitingPeerAccepted
