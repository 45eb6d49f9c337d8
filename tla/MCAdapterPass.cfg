\* Every kind of every adapter, one edit, one drift and one fault.
CONSTANTS
    Scenes <- AllScenes
    Services <- MCServices
    UserNames <- MCUserNames
    Active = "a"
    MaxEdits = 1
    MaxFaults = 1
SPECIFICATION Spec
INVARIANTS TypeOK SettledPlansNothing CleanMeansDesired CleanupLeavesNothing
PROPERTY TouchesOnlyOwned
