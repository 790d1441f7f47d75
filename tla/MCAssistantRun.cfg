SPECIFICATION FairSpec
CONSTANTS
    MaxHostCalls = 4
    MaxModelCalls = 3
    Cost = 3
    Burst = 2
    MaxCrashes = 2
INVARIANTS TypeOK PreviewsAreOwned SpendingIsRecorded
PROPERTY EveryRunEnds
