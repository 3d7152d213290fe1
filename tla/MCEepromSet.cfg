SPECIFICATION Spec
CONSTANTS
    x = x
    y = y
    NumBytes = 4
    Bytes = {x, y}
    Running <- MCRunning
    Defaults <- MCDefaults
    File <- MCFile
    Identities <- MCIdentities
    MemoryTries = 2
    MacTries = 2
    FileTries = 2
    ReadTries = 2
    MaxPolls = 2
INVARIANTS SetByteStored
