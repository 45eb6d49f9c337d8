SPECIFICATION Spec
CONSTANTS
    Resources <- DirectResources
    Values <- TwoValues
    NoValue = NoValue
    Unset = 0
    Specs <- DirectSpecs
    MaxEdits = 3
    MaxDrifts = 1
    MaxFaults = 1
INVARIANTS TypeOK FinalizerGuardsEffects
PROPERTIES UnownedUntouched StatusIsAboutStoredSpec CleanDeletionLeavesNothing
CHECK_DEADLOCK FALSE
