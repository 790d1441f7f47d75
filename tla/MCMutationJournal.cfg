SPECIFICATION FairSpec
CONSTANTS
  N = 3
  Flows = {"declared", "curated", "heedless"}
  MaxCrashes = 2
  MaxFaults = 2
INVARIANTS
  TypeOK
  TruthfulJournal
  SendsAreJournaled
  DispatchIsWarranted
  SuccessIsComplete
  FailureIsDefinitive
PROPERTIES
  FinalStatusIsKept
  ImplementsTruthfulWrites
  ClaimedOperationSettles
CHECK_DEADLOCK FALSE
