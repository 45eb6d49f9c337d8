SPECIFICATION Spec
CONSTANTS
    Resources <- LiveResources
    Values <- LiveValues
    NoValue = NoValue
    Unset = 0
    Specs <- LiveSpecs
    MaxEdits = 3
    MaxDrifts = 1
    MaxFaults = 1
PROPERTIES Converges DeletionCompletes
CHECK_DEADLOCK FALSE
