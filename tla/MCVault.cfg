SPECIFICATION Spec
CONSTANTS
    t1 = t1  t2 = t2  t3 = t3  t4 = t4
    c1 = c1  c2 = c2  c3 = c3
    s1 = s1  s2 = s2
    Threads <- MCThreads
    Conns <- MCConns
    ConnOf <- MCConnOf
    Scopes = {s1, s2}
    ScopeOf <- MCScopeOf
    Labels = {PHONE}
    Values = {v1, v2}
    MaxTries = 3
    LockTimeouts = FALSE
    NoKey = NoKey
INVARIANTS
    TypeOK
    NoDoubleBooking
    IssuedDurable
    RehydrateFaithful
    NoGaps
    RoundsNeedRivals
PROPERTY
    ImplementsCoatCheck
