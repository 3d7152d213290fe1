SPECIFICATION FairSpec
CONSTANTS
    Modes = {"rrcp", "rep", "rrcprep"}
    MaxCount = 2
    Wait = 3
    Default = 2
    PerMs = 2
    Late = 1
    MaxErrors = 1
INVARIANTS
    TypeOK
    SentOncePerRound
    RepCountTrue
    LossNotNegative
PROPERTIES
    PingingEnds
CHECK_DEADLOCK FALSE
