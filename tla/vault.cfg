SPECIFICATION Spec
CONSTANTS
    Requests = {r1, r2}
    Commands = {c1}
    Daemon = daemon
    Keys = {k1}
    Vals = {v1}
    SetNames = {g1}
    Passphrases = {p1, p2}
    None = none
SYMMETRY VaultSymmetry
CONSTRAINT NotLapsed
INVARIANTS
    KeptUnlessBlind
    CacheIsCurrent
    NoPlaintextCopy
PROPERTY ImplementsVariableStore
