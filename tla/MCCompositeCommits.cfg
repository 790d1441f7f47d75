\* Plans of up to three steps of each workflow, two twins made by other users,
\* two degraded records, two process deaths.
SPECIFICATION Spec
CONSTANTS
    MaxSteps = 3
    MaxTwins = 2
    MaxFaults = 2
    MaxCrashes = 2
INVARIANTS
    TypeOK
    ReceiptsAreTruthful
    ChangesStayOnOwnEntities
CHECK_DEADLOCK FALSE
