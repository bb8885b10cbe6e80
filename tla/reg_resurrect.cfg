SPECIFICATION Spec
CONSTANTS
    Explicit = {"reload"}
    Retries = {r1}
    Cfgs = {cfgA, cfgB}
    Clients = {k1, k2, k3}
    MaxGen = 4
    None = None
CHECK_DEADLOCK FALSE
INVARIANT NotResurrected
