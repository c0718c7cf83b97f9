SPECIFICATION Spec
CONSTANTS
    WEBRTC_WINDOW = 1
    WINDOWS_KEPT = 1
    Peers = {p1, p2}
    NoPeer = NoPeer
    EngineEvents <- PlayoutEvents
    TMP_LEN = 3
    RX_CAP = 0
    TX_CAP = 2
    LAST_BYTE = 5
    MAX_QUEUE = 1
    RealtimePeers = FALSE
SYMMETRY PeerSymmetry
INVARIANTS
    PlayoutForPeer
