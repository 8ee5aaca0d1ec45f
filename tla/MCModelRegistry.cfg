SPECIFICATION FairSpec
CONSTANTS
    Keys = {k1, k2, k3}
    Callers = {c1, c2}
    Models = {m1}
    Remotes = {r1}
    MaxEntries = 2
    MaxToken = 2
    MaxInsert = 4
    Default = Default
    NoRemote = NoRemote
    Nobody = Nobody
    NoKey = NoKey
INVARIANTS
    TypeOK
    AdmissionCurrent
PROPERTIES
    ImplementsSessionLock
    ClosedDrains
CHECK_DEADLOCK FALSE
