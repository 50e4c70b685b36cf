SPECIFICATION Spec
CONSTANTS
    t1 = t1  t2 = t2  t3 = t3  t4 = t4
    c1 = c1  c2 = c2  c3 = c3
    s1 = s1  s2 = s2
    Threads <- MCPair
    Conns <- MCPairConns
    ConnOf <- MCPairConnOf
    Scopes = {s1}
    ScopeOf <- MCPairScopeOf
    Labels = {PHONE}
    Values = {v1, v2}
    MaxTries = 2
    LockTimeouts = TRUE
    NoKey = NoKey
INVARIANTS
    StableToken
