SPECIFICATION FairSpec
CONSTANTS
    Clients = {c1, c2}
    Foreign = {c2}
    Quota = 1
    MaxPieces = 3
    Nobody = Nobody
PROPERTY ListensForever
CHECK_DEADLOCK FALSE
