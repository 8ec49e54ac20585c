SPECIFICATION Spec
CONSTANTS
    Processes = {p1, p2}
    Credentials = {c1}
    Notes = {n1}
    Folders = {f1}
    Names = {name1}
    Texts = {t1}
    Retention = 1
    MaxClock = 2
    NoFolder = NoFolder
    Unnamed = Unnamed
PROPERTIES PurgeRespectsRetention
CHECK_DEADLOCK FALSE
