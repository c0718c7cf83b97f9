SPECIFICATION Spec
CONSTANTS
    WEBRTC_WINDOW = 1
    WINDOWS_KEPT = 2
    Peers = {p1, p2}
    NoPeer = NoPeer
    EngineEvents <- CaptureEvents
    TMP_LEN = 3
    RX_CAP = 3
    TX_CAP = 1
    LAST_BYTE = 9
    MAX_QUEUE = 1
    RealtimePeers = FALSE
SYMMETRY PeerSymmetry
INVARIANTS
    TypeOK
    BuffersBounded
    CaptureAligned
    CaptureIsStream
    WindowsWhole
