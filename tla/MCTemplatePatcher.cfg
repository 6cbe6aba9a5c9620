CONSTANTS
    Base = 4
    Width = 2
    SmallMax = 2
    Failed = failed
    Keys <- MCKeys
    Ints <- MCInts
    Templates <- MCTemplates
    Bodies <- MCBodies

SPECIFICATION Spec

INVARIANTS
    PatchedIsCompiled
    PatchesWhatFits
    ParametersReadBack
