SPECIFICATION Spec
CONSTANTS
    Passwords = {p1, p2}
    NoProfile = NoProfile
    Verification = 1
    MaxVaultKeys = 2
    MaxRecoveryKeys = 2
    MaxFailures = 8
INVARIANTS
    DataMatchesProfile
    MemoryMatchesDisk
    ShownKeyOpensProfile
    PinBudgetHolds
PROPERTIES
    GuessesAreSpaced
CHECK_DEADLOCK FALSE
