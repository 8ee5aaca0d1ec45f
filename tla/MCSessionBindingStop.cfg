SPECIFICATION Spec
CONSTANTS
    Agents = {a}
    NoAgent = NoAgent
    Sessions = {s1, s2, s3}
    NoSession = NoSession
    Protected = {a}
    Desired = {}
    Resumers = {a}
    MaxParked = 8
    MaxWipes = 0
SYMMETRY SessionSymmetry
INVARIANTS
    NothingAfterStop
