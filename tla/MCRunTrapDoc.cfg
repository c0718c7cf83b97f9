SPECIFICATION Spec
CONSTANTS
    NoBuild = NoBuild
    MAX_TRIES = 2
    MAX_SIGNALS = 1
    MayMatchItself = FALSE
INVARIANTS
    CleanOnAnyExit
