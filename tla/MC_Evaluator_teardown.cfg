\* As evaluatePopulation calls detectPatch (fastFail False, nothing non-skippable).
CONSTANTS
    i1 = i1
    i2 = i2
    noOne = noOne
    Inds <- MCInds
    NoOne <- noOne
    FastFailModes = {FALSE}
    NotSkippableModes = {{}}
    MayFail = TRUE
    MayTimeout = TRUE
SPECIFICATION Spec
INVARIANT
    TeardownKillsChildren
