SPECIFICATION FairSpec
CONSTANTS
    Passwords = {p1, p2}
    Pins = {n1, n2}
    Devices = {d1, d2, d3}
    Protecting = {d1, d2}
    Costs <- SomeCosts
    NoFile = NoFile
    Damaged = Damaged
    NoWrapper = NoWrapper
    MaxKeys = 2
    MaxRotations = 3
    MaxAlterations = 1
    Names = {ann, bo}
    Pictures = {portrait, sunset}
    Types = {"png", "jpg"}
    Default = Default
    Absent = Absent
    Spoilt = Spoilt
    Processes = {o1, o2, o3}
    Kinds = {"vault", "notes", "folders"}
    Records = {r1}
    MaxFaults = 2
    NoProcess = NoProcess
INVARIANTS ProfileStaysSound StoresAreWhole
PROPERTIES ProfileIsGuarded PicturesAreSound StoresKeepTheirRows StoresOpen
CHECK_DEADLOCK FALSE
