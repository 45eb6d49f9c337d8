SPECIFICATION Spec
CONSTANTS
    Resources <- KindResources
    Values <- TwoValues
    NoValue = NoValue
    Unset = 0
    Specs <- KindSpecs
    MaxEdits = 2
    MaxDrifts = 1
    MaxFaults = 1
PROPERTY SyncedIsTruthful
CHECK_DEADLOCK FALSE
