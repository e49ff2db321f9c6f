CONSTANTS
  slither = slither
  etc = etc
  noLimit = noLimit
  Detectors <- MCDetectors
  DetectorOrder <- MCDetectorOrder
  NoLimit = noLimit
  MaxVul = 1
  MaxPopulation = 2
  InitSizes = {1}
  MaxTrials = {4}
  Operators = {"mutate", "crossover"}
  MaxInds = 6
  AssertModes = {FALSE}
  EngineMayFail = FALSE

SPECIFICATION Spec

INVARIANT FitnessNeverRaises
