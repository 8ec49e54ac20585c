\* Two instances over one file that nothing else touches.
SPECIFICATION Spec
CONSTANTS
    Instances = {i1, i2}
    Passwords = {p1, p2}
    Pins = {n1}
    Devices = {d1}
    Protecting = {d1}
    Costs <- MCCosts
    NoFile = NoFile
    Damaged = Damaged
    NoWrapper = NoWrapper
    MaxKeys = 2
    MaxRotations = 2
    MaxAlterations = 0
PROPERTIES ReplacedKeysStayInvalid
CHECK_DEADLOCK FALSE
