SPECIFICATION Spec
CONSTANTS
    ConfigModes <- NoModes
    EnvModes <- NoModes
    Unset = Unset
    Predecessors = {"none"}
    Peers = {"ann"}
    CallIds = {7}
    CONFIG_CALL = 7
    Absent = Absent
    ParentLines <- AllLines
    Callbacks <- EventRunCallbacks
    MAX_LINES = 3
    MAX_EVENTS = 2
    PIPE_CAP = 1
INVARIANTS
    TypeOK
    EofLosesOnlyUnreadable
    NothingAfterHangup
    ConsistentPeer
PROPERTIES
    CommandsRelayed
    EventsRelayed
