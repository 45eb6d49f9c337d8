SPECIFICATION Spec
CONSTANTS
    Resources <- FormatResources
    Values <- OneValue
    NoValue = NoValue
    Unset = 0
    Specs <- FormatSpecs
    MaxEdits = 2
    MaxDrifts = 1
    MaxFaults = 0
PROPERTIES UnownedFormatsUntouched
CHECK_DEADLOCK FALSE
