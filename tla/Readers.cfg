\* A writer and two readers on one path; leases expire and handoffs are lost.
SPECIFICATION Spec
CONSTANTS
    alpha = alpha
    w = w
    r1 = r1
    r2 = r2
    Task = {w, r1, r2}
    Readers = {r1, r2}
    Alike = {r1, r2}
    Path <- OnePath
    WorkspaceOf <- AllOnPath
    ModeOf <- ByReaders
    MaxRevision = 1
    RuntimeRetryLimit = 0
    QuotaRetryLimit = 0
    ResourceRetryLimit = 0
    GateOutcome = {"WAIT_RESOURCE"}
    RunOutcome = {"done"}
    Environment = {"expiry", "timeout"}
SYMMETRY Symmetry
INVARIANTS
    LeaseTableExclusive
PROPERTIES
    ImplementsLock
