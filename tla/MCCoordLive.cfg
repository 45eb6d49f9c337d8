\* Registration in the end, whatever failed before.
CONSTANTS
    p1 = p1
    p2 = p2
    NoRef = NoRef
    NoKey = NoKey
    Configs <- OneConfig
    Prowlarrs = {p1}
    Specs <- RefSpecs
    Offers <- AllOffers
    SecretKey <- TypeSecrets
    MaxEdits = 2
    MaxDrifts = 1
    MaxFaults = 1
SPECIFICATION FairSpec
INVARIANTS TypeOK RegisteredIsTruthful
PROPERTIES NoLostUpdate RegistrationConverges
CHECK_DEADLOCK FALSE
