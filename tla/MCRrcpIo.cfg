SPECIFICATION Spec
CONSTANTS
    PlainRegs = {"plain"}
    RoRegs = {"ro"}
    AuthReg = "0x209"
    ResetReg = "0x000"
    default = default
    other = other
    Vals = {default, other}
    NoVal = NoVal
    BootRegs <- MCBootRegs
    Cookies = {c1, c2, c3, c4}
    NoCookie = NoCookie
    ReadTries = 2
    SetTries = 2
    WireCap = 2
    SendErrors = FALSE
INVARIANTS TypeOK NoLateWrite KeyAgreement
PROPERTIES ServiceSpec
CHECK_DEADLOCK FALSE
