\* Two names, locations on two lines with two columns (ten code ranges),
\* every targeting argument the CLI can pass over them, and the default
\* repair target or one analyzer's condition changed.
CONSTANTS
    v1 = v1
    v2 = v2
    none = none
    VulNames = {v1, v2}
    Lines = {1, 2}
    Columns = {0, 1}
    NoArg = none

SPECIFICATION Spec

INVARIANT TypeOK
INVARIANT TargetingAsSpecified
INVARIANT PlausibleAgreesWithFitness
INVARIANT SpecifierAsSpecified
