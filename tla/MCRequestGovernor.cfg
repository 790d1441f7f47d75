SPECIFICATION FairSpec
CONSTANTS
  Reads = {r1}
  Mutations = {m1, m2}
  Concurrency = 2
  RateCap = 1
  Window = 2
  MaxCalls = 2
  Delays = {1, 2}
  MaxRateLimits = 2
INVARIANTS
  TypeOK
  ChargesMatchCalls
  AdmissionIsRegular
PROPERTIES
  PausesAreKept
  EveryRequestEnds
