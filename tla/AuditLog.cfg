SPECIFICATION FairSpec
CONSTANTS
    Writers = {w1, w2}
    MaxEvents = 2
CHECK_DEADLOCK FALSE
INVARIANTS
    TypeOK
    EmittedReported
    ReportComplete
    PrintedOnce
    NoneSkipped
PROPERTY
    AllPrinted
