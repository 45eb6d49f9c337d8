SPECIFICATION Spec
CONSTANTS
    Regions = {"eu"}
    Secrets = {"s1"}
    Limits = {0, 1}
    NoValue = NoValue
    Specs <- SyncSpecs
    MaxEdits = 2
    MaxDrifts = 1
    MaxFaults = 1
INVARIANTS TypeOK ReadyMeansConfigured
PROPERTY HashDescribesSecret
CHECK_DEADLOCK FALSE
