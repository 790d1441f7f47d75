SPECIFICATION FairTurnSpec
CONSTANTS
    N = 3
    Ids = {i1}
    Intents = {m1, m2}
    MaxStops = 2
    MaxFaults = 2
INVARIANTS TurnTypeOK LedgerIsTruthful
PROPERTY EveryCallEnds
CHECK_DEADLOCK FALSE
