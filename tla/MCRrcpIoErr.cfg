SPECIFICATION FairSpec
CONSTANTS
    PlainRegs = {"plain"}
    RoRegs = {}
    AuthReg = "0x209"
    ResetReg = "0x000"
    default = default
    other = other
    Vals = {default, other}
    NoVal = NoVal
    BootRegs <- MCBootRegs
    Cookies = {c1, c2, c3}
    NoCookie = NoCookie
    ReadTries = 2
    SetTries = 2
    WireCap = 1
    SendErrors = TRUE
PROPERTIES EveryCallEnds
CHECK_DEADLOCK FALSE
