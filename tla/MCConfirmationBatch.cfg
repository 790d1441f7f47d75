SPECIFICATION FairSpec
CONSTANTS
  N = 3
  MaxCrashes = 2
INVARIANTS
  TypeOK
  OutcomesAreTruthful
PROPERTIES
  DispatchIsOrderly
  OverdueBatchCloses
