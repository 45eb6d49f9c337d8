\* Both modes; edits of the object, changes by others, lost requests, restarts.
CONSTANTS
    Specs <- MCSpecs
    SecretSets <- MCSecretSets
    ForeignProfile <- MCForeignProfile
    ServiceKey = "b"
    HealthAnswers <- MCHealthAnswers
    EventBound = 2
SPECIFICATION Spec
INVARIANTS TypeOK ReadyIsTrue NoDuplicateProfiles
PROPERTIES OthersKept Settles
CHECK_DEADLOCK FALSE
