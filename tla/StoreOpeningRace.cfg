SPECIFICATION Spec
CONSTANTS
    Processes = {p1, p2}
    Kinds = {"vault"}
    Records = {r1}
    MaxFaults = 0
    NoProcess = NoProcess
INVARIANT DamageReportsAreTrue
CHECK_DEADLOCK FALSE
