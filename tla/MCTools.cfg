CONSTANTS
    NumPorts = 4
    Phys <- MCPhys
    Gigabit = {2}
    WordPorts = 2
    TagPorts = 2
    IntTags = 3
    NumSlots = 4
    Unread = Unread
    Actor = {p, q}
    Sittings <- MCSittings
    InitialHw <- MCInitialHw
    Moving <- MCMoving
    MaxCommands = 2
    IdBytes = 2
SPECIFICATION Spec
INVARIANTS
    TypeOK
    CommandExact
    LearningRestored
    VerdictTrue
    DetectionTrue
PROPERTIES
    OthersKept
SYMMETRY MCSymmetry
CHECK_DEADLOCK FALSE
