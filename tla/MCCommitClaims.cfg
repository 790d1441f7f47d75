SPECIFICATION Spec
CONSTANTS
    Confs = {c1, c2, c3}
    Beat = 1
    TTL = 2
    Window = 4
    Retention = 4
    MaxMissed = 2
    MaxTime = 5
    MaxCrashes = 1
    None = None
SYMMETRY Symmetry
INVARIANTS
    TypeOK
    ClaimIsKept
    EffectsAreApart
    AnswersAreTruthful
