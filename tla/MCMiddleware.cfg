SPECIFICATION Spec
CONSTANTS
    MaxConf = 3
    NerMax = 2
    ColumnConf = 1
    Columns <- MCColumns
    ExemptKeys = {"file_name"}
    NerEntities = {"NAME", "PHONE"}
    NerOnly = {"NAME"}
    Engines <- MCEngines
    Tools = {"list", "get"}
    Arguments <- MCArguments
    Results <- MCResults
CHECK_DEADLOCK FALSE
INVARIANTS
    TypeOK
    ResultScrubbed
    BrakeHolds
    ToolGetsScrubbed
    AuditedFirst
    NothingInvented
