SPECIFICATION Spec
CONSTANTS
    ap = ap
    sta = sta
    app = app
    Peers = {ap, sta, app}
    ApPeers = {ap}
    Nobody = Nobody
    MAX_CONN = 2
    MAX_POST = 2
    FileReads = 2
    Requests <- MCRequests
INVARIANT FilesReleased
INVARIANT ExecutedOnce
PROPERTY RequestEnds
