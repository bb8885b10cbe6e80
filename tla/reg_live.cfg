SPECIFICATION FairSpec
CONSTANTS
    Explicit = {"reload", "restart"}
    Retries = {r1}
    Cfgs = {cfgA}
    Clients = {k1, k2, k3, k4, k5}
    MaxGen = 5
    None = None
CHECK_DEADLOCK FALSE
INVARIANT ClientsAccounted
PROPERTY Settles
