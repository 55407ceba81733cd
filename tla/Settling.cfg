\* What these parts must come to, under the fairness each of them has.
SPECIFICATION PartsSpec
CONSTANTS
    Worlds = {"chat", "link", "fleet", "quota"}
    Brain = {b1, b2}
    Harness = {}
    Turn = {1}
    Limit = 2
    NoLimit = none
    NoAgent = nobody
    FirstBrain = b1
    NoConv = nullref
    NoTurn = 0
    MaxNames = 1
    MaxFaults = 2
    MaxEdits = 1
    MaxRestarts = 1
    Socket = {s1, s2}
    NoSocket = nosocket
    Run = {r1}
    ChatRun = {c1}
    Subscriber = sub
    MaxTracked = 1
    MaxTroubles = 1
    Work = {t1}
    Harnessed = {}
    Floors = {0, 2}
    Cap = 2
    NobodyId = nobodyId
    Paired = TRUE
    MaxSbx = 1
    MaxVariants = 1
    MaxFleetFaults = 0
    MaxFleetEdits = 2
    m1 = m1
    m2 = m2
    j1 = j1
    j2 = j2
    Model = {m1, m2}
    NoModel = nomodel
    Retryable = {m2}
    Job = {j1}
    Prefers <- QPrefers
    ModelLimit = 1
    MaxRunning = 1
    QuotaRetryLimit = 1
    ResourceRetryLimit = 1
    LongWindow = 2
    ProbeHorizon = 0
    LastTime = 3
    MaxWalls = 1
    MaxOthers = 1
    MaxCrashes = 0
PROPERTIES
    TurnsSettle CallsReturn EventsFlow AgentsSettle TasksLeave
CHECK_DEADLOCK FALSE
