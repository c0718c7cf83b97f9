SPECIFICATION FairSpec
CONSTANTS
    ConfigModes <- SomeModes
    EnvModes <- SomeModes
    Unset = Unset
    Predecessors = {"none", "dead", "alive"}
    Peers = {"ann"}
    CallIds = {7}
    CONFIG_CALL = 7
    Absent = Absent
    ParentLines <- EventRunLines
    Callbacks <- EventRunCallbacks
    MAX_LINES = 3
    MAX_EVENTS = 1
    PIPE_CAP = 1
INVARIANTS
    SocketReachable
    DevicesReleased
PROPERTIES
    TunnelEnds
    EventsShown
