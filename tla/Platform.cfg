SPECIFICATION PlatformSpec
CONSTANTS
    Clients = {c1, c2}
    Foreign = {c2}
    Quota = 1
    MaxPieces = 3
    Nobody = Nobody
    Ids = {i1, i2}
    ConnectTime = 3
    ExchangeTime = 40
    BrowserTime = 48
    NoId = NoId
    MaxMessages = 2
    Builds <- SoundBuilds
INVARIANT PlatformIsSound
PROPERTIES AnswersGetThrough NobodyIsHeldUp WindowsLocksKeyNest
CHECK_DEADLOCK FALSE
