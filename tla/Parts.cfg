\* The safety of chat, the gateway's link, the fleet and the quotas.
SPECIFICATION PartsSpec
CONSTANTS
    Worlds = {"chat", "link", "fleet", "quota"}
    Brain = {b1, b2}
    Harness = {}
    Turn = {1, 2}
    Limit = 2
    NoLimit = none
    NoAgent = nobody
    FirstBrain = b1
    NoConv = nullref
    NoTurn = 0
    MaxNames = 0
    MaxFaults = 1
    MaxEdits = 1
    MaxRestarts = 1
    Socket = {s1, s2}
    NoSocket = nosocket
    Run = {r1, r2}
    ChatRun = {}
    Subscriber = sub
    MaxTracked = 1
    MaxTroubles = 2
    Work = {t1, t2}
    Harnessed = {t2}
    Floors = {0, 2}
    Cap = 2
    NobodyId = nobodyId
    Paired = FALSE
    MaxSbx = 1
    MaxVariants = 1
    MaxFleetFaults = 1
    MaxFleetEdits = 1
    m1 = m1
    m2 = m2
    j1 = j1
    j2 = j2
    Model = {m1, m2}
    NoModel = nomodel
    Retryable = {m2}
    Job = {j1, j2}
    Prefers <- QPrefers
    ModelLimit = 1
    MaxRunning = 1
    QuotaRetryLimit = 1
    ResourceRetryLimit = 0
    LongWindow = 1
    ProbeHorizon = 0
    LastTime = 1
    MaxWalls = 1
    MaxOthers = 1
    MaxCrashes = 1
INVARIANTS
    PartsTypeOK
    AnswerIsOwnOrNext OneBrainPerConversation
    LateRefusalNamesItsRun
    RunsAsRouted
    WithinLimits
PROPERTIES
    RunNamesItsMethod
CHECK_DEADLOCK FALSE
