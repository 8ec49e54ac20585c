SPECIFICATION Spec
CONSTANTS
    AutoLockOptions = {60, 1800}
    ClipboardOptions = {60}
    DefaultAutoLock = 300
    DefaultClipboard = 30
    Themes = {system, dark}
    DefaultTheme = system
    Absent = Absent
    NoFile = NoFile
    Damaged = Damaged
INVARIANTS
    DelaysNoLongerThanShown
CHECK_DEADLOCK FALSE
