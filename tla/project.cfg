SPECIFICATION Spec
CONSTANTS
    Kinds = {"skill", "agent", "rendered"}
    Texts = {t1}
    UserTexts = {u1}
    AuthorModels = {}
    UserModels = {m1}
    PolicyModels = {p1}
    p1 = p1
    Policies <- SomePolicies
    Linked = linked
    Elsewhere = elsewhere
    None = none
CONSTRAINT NotSwallowed
INVARIANTS
    ProjectionTypeOK
    NothingLost
    SyncSettles
    InSyncIsQuiet
    PolicyNotAdopted
