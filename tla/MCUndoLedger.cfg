SPECIFICATION Spec
CONSTANTS
    N = 3
    Archivable = {1, 2}
    Sessions = {s1, s2}
    Home = s1
    MaxCrashes = 2
    MaxFaults = 2
INVARIANTS TypeOK UndoIsTruthful ReversedOnce
CHECK_DEADLOCK FALSE
