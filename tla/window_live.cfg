SPECIFICATION FairSpec
CONSTANTS
    Policies <- MixedPolicies
    Demands <- IdleOrBusy
    MaxGap = 1
    MinRetention = 3
PROPERTIES
    
    PoolRefills
    GrowsAsMeasured
    ShrinksAsMeasured
