\* Two processes on one key: one operation of each, crashes, a file spoilt before.
SPECIFICATION Spec
VIEW DirectoryView
CONSTANTS
    Procs = {p1, p2}
    Keys = {k1}
    Values = {v1}
    Ttls = {0, 1}
    NoTtl = NoTtl
    NoEntry = NoEntry
    Inodes = {1, 2, 3, 4}
    NoFile = NoFile
    Empty = Empty
    Torn = Torn
    MaxTime = 1
INVARIANTS
    TypeOK
    NeverTorn
PROPERTY DiskImplementsContract
