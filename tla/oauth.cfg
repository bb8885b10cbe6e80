SPECIFICATION Spec
CONSTANTS
    Sources = {s1, s2}
    d1 = d1
    Daemons = {d1}
    DaemonOf <- OneDaemon
    Flows = {f1, f2}
    Admins = {a1}
    MaxTokens = 3
    MaxClients = 1
    MaxCalls = 2
    None = none
CHECK_DEADLOCK FALSE
SYMMETRY OAuthSymmetry
CONSTRAINT Unexcused
INVARIANTS
    OAuthTypeOK
    PersistedBeforeUse
    GrantUsable
    NoStaleCache
    HoldersMove
