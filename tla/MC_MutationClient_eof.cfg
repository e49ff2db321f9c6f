CONSTANTS
  s1 = s1
  s2 = s2
  rRandom = rRandom
  r1 = r1
  r2 = r2
  none = none
  Spaces <- MCSpaces
  Requests <- MCRequests
  RandomReq = rRandom
  NoReq = none
  MaxBatch = 2
  MaxPatches = 4
  MaxCrashes = 0
  SpawnMayFail = FALSE

SPECIFICATION Spec


INVARIANT FailsOnlyOnCrash
