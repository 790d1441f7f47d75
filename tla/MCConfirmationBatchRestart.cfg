SPECIFICATION Spec
CONSTANTS
  N = 2
  MaxCrashes = 1
INVARIANT ServerStarts
