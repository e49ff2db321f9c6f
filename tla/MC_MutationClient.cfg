CONSTANTS
  s1 = s1
  s2 = s2
  rRandom = rRandom
  r1 = r1
  r2 = r2
  none = none
  Spaces <- MCSpaces
  Requests <- MCRequests
  RandomReq = rRandom
  NoReq = none
  MaxBatch = 2
  MaxPatches = 4
  MaxCrashes = 1
  SpawnMayFail = TRUE

SPECIFICATION Spec

INVARIANT TypeOK
INVARIANT ResponseMatchesRequest
INVARIANT PatchConservation

PROPERTY RequestAnswered
PROPERTY ImplementsEngine
