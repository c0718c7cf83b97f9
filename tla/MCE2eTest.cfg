SPECIFICATION FairSpec
CONSTANTS
    Selections <- PairsOfScenarios
    MAX_CALLS = 2
INVARIANTS
    TypeOK
    PassMeansReached
    CallsLetGo
    ExitZeroMeansPassed
PROPERTIES
    RunnerEnds
