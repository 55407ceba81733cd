\* Two writers, two attempts each, and nobody interferes.
SPECIFICATION Spec
CONSTANTS
    alpha = alpha
    t1 = t1
    t2 = t2
    Task = {t1, t2}
    Readers = {}
    Alike = {t1, t2}
    Path <- OnePath
    WorkspaceOf <- AllOnPath
    ModeOf <- ByReaders
    MaxRevision = 2
    RuntimeRetryLimit = 1
    QuotaRetryLimit = 1
    ResourceRetryLimit = 1
    GateOutcome = {"WAIT_RESOURCE"}
    RunOutcome = {"done", "failed"}
    Environment = {}
SYMMETRY Symmetry
INVARIANTS
    NoZombieRun
    GatewayExclusive
