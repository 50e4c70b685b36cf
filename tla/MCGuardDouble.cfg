SPECIFICATION Spec
CONSTANTS
    None = None
    Procs = {p1, p2}
    Sessions = {s1}
    Raced = {s1}
    Digests = {d1}
    Window = 1
    Minute = 1
    Stale = 1
    MaxPending = 2
    MaxTime = 2
INVARIANTS
    OneConfirmationPerBlock
