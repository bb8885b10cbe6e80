SPECIFICATION FairSpec
CONSTANTS
    Calls = {c1, c2}
    Tickers = {"loop"}
    Policies <- ColdOrWarm
    Dispatch = "least-connections"
    MaxID = 2
    RRPeriod = 2
    MonitorOn = FALSE
    GraceCovers = TRUE
    NoThread = NoThread
INVARIANTS
    InFlightExact
    SpawnSerialised
PROPERTIES
    CallsEnd
    TicksEnd
    ImplementsReplicaLife
