SPECIFICATION Spec
CONSTANTS
    Modes = {"rrcp", "rep", "rrcprep"}
    MaxCount = 2
    Wait = 3
    Default = 2
    PerMs = 2
    Late = 1
    MaxErrors = 1
INVARIANTS
    RttTrue
CHECK_DEADLOCK FALSE
