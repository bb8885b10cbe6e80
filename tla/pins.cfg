SPECIFICATION Spec
CONSTANTS
    i1 = i1
    i2 = i2
    o1 = o1
    o2 = o2
    Names = {n1}
    Defs <- SomeDefs
    OldDefs <- SomeOldDefs
    Action = "block"
    Cfgs = {c1}
    Replicas = {r1, r2}
    Registrar = registrar
    Monitor = monitor
    Approvers = {a1}
    None = none
SYMMETRY PinsSymmetry
INVARIANTS
    PinsTypeOK
    DriftIsEnforced
PROPERTIES
    VerdictExact
    ApprovedAsReviewed
