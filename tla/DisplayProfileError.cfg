SPECIFICATION Spec
CONSTANTS
    Names = {n1, n2}
    Pictures = {p1}
    Types = {"png"}
    Default = Default
    Absent = Absent
    Spoilt = Spoilt
INVARIANTS
    FailedSaveSavesNothing
