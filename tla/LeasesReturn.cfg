\* One task whose frames may all be lost.
SPECIFICATION FairSpec
CONSTANTS
    alpha = alpha
    t1 = t1
    Task = {t1}
    Readers = {}
    Alike = {}
    Path <- OnePath
    WorkspaceOf <- AllOnPath
    ModeOf <- ByReaders
    MaxRevision = 2
    RuntimeRetryLimit = 1
    QuotaRetryLimit = 1
    ResourceRetryLimit = 1
    GateOutcome = {"WAIT_RESOURCE"}
    RunOutcome = {"done", "failed"}
    Environment = {"stop", "timeout", "expiry"}
PROPERTIES
    EveryLeaseReturns
    NoAttemptIsForgotten
