SPECIFICATION Spec
CONSTANTS
    Processes = {p1}
    Kinds = {"vault", "notes", "folders"}
    Records = {r1}
    MaxFaults = 0
    NoProcess = NoProcess
INVARIANT OnlyOursIsOpened
CHECK_DEADLOCK FALSE
