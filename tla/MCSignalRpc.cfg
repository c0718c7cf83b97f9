SPECIFICATION Spec
CONSTANTS
    MAX_REQUESTS = 3
    MAX_EVENTS = 3
INVARIANTS
    TypeOK
    EventsKept
    OwnAnswer
PROPERTIES
    TimeoutMeansSilence
    NotificationsRelayed
