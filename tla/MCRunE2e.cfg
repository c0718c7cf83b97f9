SPECIFICATION FairSpec
CONSTANTS
    NoBuild = NoBuild
    MAX_TRIES = 2
    MAX_SIGNALS = 2
    MayMatchItself = TRUE
INVARIANTS
    TypeOK
    LinkedFromTree
    ShellMeansBoth
    NothingLeft
    ExitZeroMeansTested
PROPERTIES
    ScriptEnds
