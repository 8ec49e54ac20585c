SPECIFICATION Spec
CONSTANTS
    Processes = {p1}
    Credentials = {c1, c2}
    Notes = {n1}
    Folders = {f1}
    Names = {name1}
    Texts = {t1}
    Retention = 0
    MaxClock = 1
    NoFolder = NoFolder
    Unnamed = Unnamed
PROPERTIES OverdueItemsAreRemoved
CHECK_DEADLOCK FALSE
