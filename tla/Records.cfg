SPECIFICATION OneOrTwo
CONSTANTS
    Processes = {p1, p2}
    First = p1
    Contested = {c1}
    FirstText = t1
    Credentials = {c1}
    Notes = {n1}
    Folders = {f1}
    Names = {name1}
    Texts = {t1, t2}
    Retention = 1
    MaxClock = 2
    NoFolder = NoFolder
    Unnamed = Unnamed
INVARIANTS AssignmentsNameFolders
PROPERTIES Lifecycle OneInstanceIsExact
CHECK_DEADLOCK FALSE
