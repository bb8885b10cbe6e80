SPECIFICATION Spec
CONSTANTS
    Explicit = {"reload"}
    Retries = {r1, r2}
    Cfgs = {cfgA, cfgB}
    Clients = {k1, k2, k3, k4, k5}
    MaxGen = 3
    None = None
CHECK_DEADLOCK FALSE
SYMMETRY RegSymmetry
INVARIANTS
    RegTypeOK
    InFlightHeld
PROPERTY CommitOwned
