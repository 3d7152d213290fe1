SPECIFICATION FairSpec
CONSTANTS
    a = a
    b = b
    c = c
    NoMac = NoMac
    HelloAnswers <- MCHelloAnswers
    RepMacs <- MCRepMacs
    ZeroMacs <- MCZeroMacs
    Retries = 2
    HelloPatience = 3
    RepPatience = 2
    QuietAge = 2
    ProbeTries = 3
    Copies = 2
INVARIANTS
    TypeOK
    ReportTrue
    ReportComplete
    ProbeAnswersTarget
PROPERTIES
    ScanEnds
CHECK_DEADLOCK FALSE
