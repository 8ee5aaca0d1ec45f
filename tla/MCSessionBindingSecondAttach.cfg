SPECIFICATION Spec
CONSTANTS
    Agents = {a, b}
    NoAgent = NoAgent
    Sessions = {s1, s2, s3}
    NoSession = NoSession
    Protected = {a, b}
    Desired = {}
    Resumers = {a, b}
    MaxParked = 8
    MaxWipes = 0
SYMMETRY SessionSymmetry
INVARIANTS
    NoSecondAttach
