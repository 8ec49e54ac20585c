SPECIFICATION Spec
CONSTANTS
    NoHost = NoHost
    NoRequest = NoRequest
    Records = {r1}
    Pages <- OddPages
    Websites <- FewWebsites
    MaxHosts = 1
    Lifetime = 1
    MaxClock = 2
    MaxSequence = 2
    MaxLoads = 1
PROPERTY ApprovedPageMatches
