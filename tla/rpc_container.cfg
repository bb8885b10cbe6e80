SPECIFICATION Spec
CONSTANTS
    Kind = "container"
    Callers = {c1, c2}
    Monitor = monitor
    Free = free
    MaxCalls = 3
    MaxConns = 2
    PipeCap = 1
CHECK_DEADLOCK FALSE
SYMMETRY RPCSymmetry
INVARIANTS
    AnswersMatch
    ReaderNeverBlocks
    NoStaleEntry
PROPERTY ImplementsCallTable
