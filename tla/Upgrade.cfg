SPECIFICATION Spec
CONSTANTS
    Tasks = {u1}
    None = None
    RETRY = 3
    L = 4
    SEC = 2
    NSEC = 3
    W = 2
    SEG = 2
    Replies <- MCReplies
INVARIANT UpgradeInv
INVARIANT StartsWholeImage
PROPERTY UpgradeEnds
