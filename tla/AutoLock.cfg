SPECIFICATION FairSpec
CONSTANTS
    Timeouts = {1, 2}
    NoRequest = NoRequest
    MaxClock = 4
    MaxEpoch = 5
INVARIANTS
    ArmedOnlyWhileUnlocked
    UnlockedSessionIsCovered
    NoMissedWakeup
PROPERTIES
    ActivityNeverRewinds
    QuietExpiredSessionLocks
    ShutdownEndsWorker
    CommandsFinish
CHECK_DEADLOCK FALSE
