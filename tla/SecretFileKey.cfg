SPECIFICATION SecretSpec
CONSTANTS
    Procs = {p1, p2, p3}
    MaxDraws = 4
    Missing = Missing
    Empty = Empty
CHECK_DEADLOCK FALSE
INVARIANTS
    SecretTypes
    KeyOnDisk
PROPERTY
    SecretsKept
