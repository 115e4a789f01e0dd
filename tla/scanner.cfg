SPECIFICATION Spec
CONSTANTS
    p = p
    u = u
    x = x
    Pool = {p, u, x}
    Block <- MCBlock
    Unusable = {x}
    Unquoted = {u}
    Loop = {l1, l2}
    NoCursor = NoCursor
    NoLoop = NoLoop
    Confirmations = 1
    MaxBlockRange = 1
    FirstHead = 2
    LastHead = 3
    Lag = 1
    MaxFaults = 2
INVARIANTS NoPoolPassedBy TwiceOnlyWithCause LoopsOnlyByHandover
PROPERTY EventuallyAnnounced
CHECK_DEADLOCK FALSE
