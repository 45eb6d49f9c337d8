SPECIFICATION Spec
CONSTANTS
    Regions = {"eu"}
    Secrets = {"s1"}
    Limits = {0, 1}
    NoValue = NoValue
    Specs <- LiveSpecs
    MaxEdits = 2
    MaxDrifts = 1
    MaxFaults = 1
PROPERTIES Converges RestartsCease DeletionCompletes
CHECK_DEADLOCK FALSE
