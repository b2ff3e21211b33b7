SPECIFICATION CgiSpec
CONSTANTS
    Conns = {c1, c2}
    APS = 2
    ATTEMPTS = 2
INVARIANT CgiWifiInv
PROPERTY AttemptEnds
