SPECIFICATION Spec
CONSTANTS
    Agents = {a, b, c}
    NoAgent = NoAgent
    Sessions = {s1, s2, s3}
    NoSession = NoSession
    Protected = {a, b}
    Desired = {b}
    Resumers = {a, b}
    MaxParked = 1
    MaxWipes = 1
SYMMETRY SessionSymmetry
INVARIANTS
    TypeOK
    OwnSessionOnly
    PromptedIsStored
    DoubtOnRecord
PROPERTIES
    ForeignRecordKept
