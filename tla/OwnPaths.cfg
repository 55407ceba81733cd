\* Two writers, each in its own workspace, two attempts each, and crashes.
SPECIFICATION Spec
CONSTANTS
    alpha = alpha
    t1 = t1
    t2 = t2
    Task = {t1, t2}
    Readers = {}
    Alike = {t1, t2}
    Path <- Task
    WorkspaceOf <- OwnPath
    ModeOf <- ByReaders
    MaxRevision = 2
    RuntimeRetryLimit = 1
    QuotaRetryLimit = 0
    ResourceRetryLimit = 0
    GateOutcome = {}
    RunOutcome = {"failed"}
    Environment = {"crash"}
SYMMETRY Symmetry
INVARIANTS
    LostOnlyToItself
