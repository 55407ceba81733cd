\* One task, two attempts, and every disturbance there is.
SPECIFICATION Spec
CONSTANTS
    alpha = alpha
    t1 = t1
    Task = {t1}
    Readers = {}
    Alike = {}
    Path <- OnePath
    WorkspaceOf <- AllOnPath
    ModeOf <- ByReaders
    MaxRevision = 2
    RuntimeRetryLimit = 1
    QuotaRetryLimit = 1
    ResourceRetryLimit = 1
    GateOutcome = {"WAIT_RESOURCE", "BLOCKED"}
    RunOutcome = {"done", "failed", "aborted"}
    Environment = {"cancel", "stop", "revise", "settle", "crash", "timeout", "expiry"}
INVARIANTS
    TypeOK
    OneInFlight
    BudgetsRespected
    LiveHoldsLease
PROPERTIES
    CancelIsFinal
