SPECIFICATION FairSpec
CONSTANTS
    Texts = {s1, s2}
    Secrets = {s1}
    Nothing = Nothing
    Delays = {1, 2}
    LastGeneration = 3
INVARIANTS SecretIsAccountedFor LockedSessionLeavesNoSecret
PROPERTIES ExpiryKeepsFreshCopy NewerCopySurvives ExitCompletes OwnedSecretExpires
CHECK_DEADLOCK FALSE
