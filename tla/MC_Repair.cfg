CONSTANTS
  slither = slither
  etc = etc
  noLimit = noLimit
  Detectors <- MCDetectors
  DetectorOrder <- MCDetectorOrder
  NoLimit = noLimit
  MaxVul = 1
  MaxPopulation = 2
  InitSizes = {1, 2, 3}
  MaxTrials = {4, noLimit}
  Operators = {"mutate", "crossover"}
  MaxInds = 6
  AssertModes = {TRUE, FALSE}
  EngineMayFail = TRUE

SPECIFICATION LiveSpec

INVARIANT TypeOK
INVARIANT ArchiveIsFront
INVARIANT MaxTrialHonoured
PROPERTY Terminates
