SPECIFICATION FairSpec
CONSTANTS
    NumPorts = 2
    Wait = 2
    Modulus = 8
    Excluded = {}
    EepromOff = {1}
    EepromDown = {0}
    EepromCtl = {}
INVARIANTS TypeOK NoEarlyRecovery RecordedIsOff
PROPERTIES RecordEmpties RrcpFollowsJumper
