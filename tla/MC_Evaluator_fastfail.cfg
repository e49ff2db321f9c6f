\* fastFail with both detectors skippable.
CONSTANTS
    i1 = i1
    i2 = i2
    noOne = noOne
    Inds <- MCInds
    NoOne <- noOne
    FastFailModes = {TRUE}
    NotSkippableModes = {{}}
    MayFail = FALSE
    MayTimeout = FALSE
SPECIFICATION Spec
PROPERTY
    FastFailCancelsSkippable
