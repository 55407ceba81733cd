\* What people ask for, decide, plan and configure.
SPECIFICATION DeskSpec
CONSTANTS
    Rooms = {"catalog", "approvals", "plan", "commands", "probe", "ends"}
    Handler = {h1, h2}
    b1 = b1
    b2 = b2
    BrainId = {b1, b2}
    PolicyCell <- BPolicy
    GridDefault = b2
    InPool = {b1}
    Desk = {h1, h2}
    NobodysBrain = nb
    MaxCatalogEdits = 3
    MaxBoots = 1
    Approval = {a1, a2}
    Decider = {h1, h2}
    NoApproval = na
    MaxAttempts = 1
    MaxRevisions = 1
    Piece = {1, 2}
    After <- Chain
    Lightweight = 2
    Planner = {h1, h2}
    MaxTasks = 3
    MaxRequests = 2
    MaxPlanOps = 1
    MaxDocEdits = 1
    MaxPlanTroubles = 1
    ta = ta
    tb = tb
    Target = {ta, tb}
    IdList <- OneLine
    Person = {p1}
    Line = {h1, h2}
    NoPerson = np
    TtlTicks = 1
    LastTick = 2
    MaxQuestions = 2
    MaxStirs = 1
    MaxLines = 3
    Levels <- TwoLevels
    Sweep = {h1, h2}
    MaxWaits = 2
    Outlives = TRUE
    MaxProbes = 2
    MaxProbeTroubles = 1
    MaxFrames = 3
    MaxForgets = 1
SYMMETRY Interchangeable
INVARIANTS
    DeskTypeOK ResolvesWhatStands PolicyIsWhole NothingUnapprovedRuns
    PhasesInOrder MarksAreHonest VouchesForWhatRan CorrectedEndCounts
PROPERTIES
    NoBrainLosesItsModel AnsweredOnceInTime
CHECK_DEADLOCK FALSE
