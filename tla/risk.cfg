SPECIFICATION Spec
CONSTANTS
    Caller = {a, b}
    Worlds <- MCWorlds
    FaultMixes <- MCFaultMixes
    DetectorTimeout = 1
    CacheTtl = 2
    short = short
    long = long
    Engine = {e1, e2}
    Rule = {short, long}
    WindowOf <- MCWindow
    Threshold <- MCThreshold
    Cooldown = 2
    MaxClock = 4
    MaxSignals = 3
    MaxRestarts = 1
    telegram = telegram
    discord = discord
    Handler = {h1, h2}
    Flow = {f}
    Route <- MCRoute
    MinSeverity = 3
    DedupeTtl = 1
    RateLimit = 1
    RateWindow = 2
    MaxRetries = 1
    LastInstant = 4
    MaxPublished = 4
INVARIANTS DangerSurvivesFaults AnswerIsRecent GroupSpikeFires RateWithinTwice
PROPERTIES  DispatchReturns
CHECK_DEADLOCK FALSE
