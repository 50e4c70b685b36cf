SPECIFICATION Spec
CONSTANTS
    None = None
    Procs = {p1, p2}
    Sessions = {s1, s2}
    Raced = {s1}
    Digests = {d1, d2}
    Window = 1
    Minute = 1
    Stale = 1
    MaxPending = 1
    MaxTime = 3
SYMMETRY Symmetry
INVARIANTS
    TypeOK
    ConfirmedOnceAlone
    PromiseKept
    SessionsApart
    FilesBounded
