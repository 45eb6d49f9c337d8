\* One configuration, moved between two ProwlarrConfigs and written by everyone.
CONSTANTS
    p1 = p1
    p2 = p2
    NoRef = NoRef
    NoKey = NoKey
    Configs <- OneConfig
    Prowlarrs = {p1, p2}
    Specs <- MoveSpecs
    Offers <- NoOffers
    SecretKey <- TypeSecrets
    MaxEdits = 3
    MaxDrifts = 0
    MaxFaults = 0
SPECIFICATION Spec
INVARIANTS RegisteredIsTruthful
PROPERTIES UnregisteredBeforeGone
