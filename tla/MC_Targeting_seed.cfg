\* The targeting box of MC_Targeting.cfg, checked for the spec's rule that
\* an empty fault specifier reaches the mutation engine as no specifier.
CONSTANTS
    v1 = v1
    v2 = v2
    none = none
    VulNames = {v1, v2}
    Lines = {1, 2}
    Columns = {0, 1}
    NoArg = none
SPECIFICATION Spec
INVARIANT EmptySpecifierIsNone
