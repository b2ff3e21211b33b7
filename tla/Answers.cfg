SPECIFICATION AnswersSpec
CONSTANTS
    B = 2
    W = 3
    L = 2
    INPUT = 2
    Lengths = {2, 5}
    None = None
    PERCENT = 1
    TOKEN = 2
    SENDBUFF = 5
    Expansion = 3
    IROM_AT = 96
    LINE = 16
    Pages <- MCPages
    NameOf <- MCNameOf
    Code <- MCCode
    MacOf <- MCMacOf
    IpOf <- MCIpOf
    Questions <- MCQuestions
    NotJson = NotJson
    NoSet = NoSet
    NoAnswer = NoAnswer
    Calls <- MCCalls
    Bodies <- MCBodies
    REQUESTS = 2
    REFUSALS = 1
    STOPS = TRUE
    WORD = 64
    PER = 2
    SECTORS = 2
    INTERVAL = 5
    QUERY = 2
    BYTE = 16
    TIMER_NUMBER = 10
    WAIT = 12
    ROOM = 16
    DNS_LEN = 80
    SEQ = 4
    Confs = {c1, c2}
    DefaultConf = c0
    SAVES = 7
    Tokens <- MCTokens
    ROOM_TOKEN = 2
    TOKENS = 5
INVARIANT RoundTrip
INVARIANT PageAsMeant
INVARIANT RequestsUnderstood
INVARIANT DatagramsAnswered
INVARIANT ImageChecked
INVARIANT CommandsMeant
PROPERTY AnswerEnds
PROPERTY UpgradeAsAsked
PROPERTY StoreSurvives
