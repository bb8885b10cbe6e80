SPECIFICATION ReadingSpec
CONSTANTS
    Kind = "process"
    Callers = {c1}
    Monitor = monitor
    Free = free
    MaxCalls = 4
    MaxConns = 2
    PipeCap = 1
CHECK_DEADLOCK FALSE
INVARIANT NoneForgotten
PROPERTY CallsReturn
