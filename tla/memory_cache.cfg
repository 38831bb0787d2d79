\* Three keys compete for two places; deadlines pass, are renewed and outlive
\* the entry they were given to.
SPECIFICATION Spec
CONSTANTS
    Clients = {c1}
    Keys = {k1, k2, k3}
    Values = {v1, v2}
    Ttls = {0, 1}
    NoTtl = NoTtl
    NoEntry = NoEntry
    MaxSize = 2
    MaxTime = 2
INVARIANTS
    TypeOK
    Bounded
    ServableIsFresh
PROPERTY MemoryImplementsContract
