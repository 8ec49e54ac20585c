SPECIFICATION Spec
CONSTANTS
    NoHost = NoHost
    NoRequest = NoRequest
    Records = {r1}
    Pages <- TwoPages
    Websites <- FewWebsites
    MaxHosts = 1
    Lifetime = 0
    MaxClock = 1
    MaxSequence = 2
    MaxLoads = 1
PROPERTY DialogStays
