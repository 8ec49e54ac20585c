SPECIFICATION Spec
CONSTANTS
    Timeouts = {1, 2}
    NoRequest = NoRequest
    MaxClock = 2
    MaxEpoch = 4
PROPERTIES
    NoIdleLockWhileKeyOnDisplay
CHECK_DEADLOCK FALSE
