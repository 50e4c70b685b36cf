SPECIFICATION Spec
CONSTANTS
    MaxConf = 3
    NerMax = 2
    ColumnConf = 1
    Columns <- MCColumns
    ExemptKeys = {}
    NerEntities = {"NAME", "PHONE"}
    NerOnly = {"NAME"}
    Engines <- MCEngines
    Tools = {"search", "fetch"}
    Configurations <- MCConfigurations
    Known = {"NAME", "PHONE", "KEY"}
    Inputs <- MCInputs
    Responses <- MCResponses
CHECK_DEADLOCK FALSE
INVARIANTS
    TypeOK
    InputGuarded
    MessageExact
    LogMatches
