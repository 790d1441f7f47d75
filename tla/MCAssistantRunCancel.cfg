SPECIFICATION Spec
CONSTANTS
    MaxHostCalls = 3
    MaxModelCalls = 3
    Cost = 2
    Burst = 2
    MaxCrashes = 2
INVARIANT NoChangeMeansNoChange
