\* Five applications; edits, changes of the secrets and faults.
CONSTANTS
    Scenes <- MCScenes
    NameHints <- MCNameHints
    Config = "cfg"
SPECIFICATION Spec
INVARIANTS TypeOK CredentialsFromSecrets
PROPERTIES KeepsDeclared Settles DeletionFinishes
CHECK_DEADLOCK FALSE
