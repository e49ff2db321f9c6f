\* Two individuals, both detectors, errors and the timeout possible;
\* fastFail and the non-skippable set as detectPatch accepts them.
CONSTANTS
    i1 = i1
    i2 = i2
    noOne = noOne
    Inds <- MCInds
    NoOne <- noOne
    FastFailModes = {FALSE, TRUE}
    NotSkippableModes = {{}, {"etc"}}
    MayFail = TRUE
    MayTimeout = TRUE
SPECIFICATION Spec
INVARIANTS
    TypeOK
    RunnerOnlyUnderLock
    LockNotLeaked
    FitnessAllOrNone
PROPERTY
    EvaluationSettles
