\* One task that is revised and repaired while its runs end late.
SPECIFICATION Spec
CONSTANTS
    alpha = alpha
    t1 = t1
    Task = {t1}
    Readers = {}
    Alike = {}
    Path <- OnePath
    WorkspaceOf <- AllOnPath
    ModeOf <- ByReaders
    MaxRevision = 3
    RuntimeRetryLimit = 1
    QuotaRetryLimit = 1
    ResourceRetryLimit = 1
    GateOutcome = {"WAIT_RESOURCE", "BLOCKED"}
    RunOutcome = {"done", "failed"}
    Environment = {"revise", "settle"}
INVARIANTS
    BlockedIsNotRunning
    CompleteIsSettled
