SPECIFICATION Spec
CONSTANTS
    Models = {m1, m2, m3}
    NoModel = NoModel
    Offered = {m1, m2}
    Sessions = {s1, s2}
    NoSession = NoSession
SYMMETRY SessionSymmetry
INVARIANTS
    TypeOK
    PromptUnderChoice
    SnapshotTrue
PROPERTY
    OutcomeTruthful
