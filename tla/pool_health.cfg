SPECIFICATION Spec
CONSTANTS
    Calls = {c1}
    Tickers = {"loop"}
    Policies <- Elastic
    Dispatch = "round-robin"
    MaxID = 2
    RRPeriod = 2
    MonitorOn = TRUE
    GraceCovers = TRUE
    NoThread = NoThread
INVARIANTS
    TypeOK
PROPERTY FloorKept
