\* A pass that fails after its handoffs, in one transaction.
SPECIFICATION Spec
CONSTANTS
    Replica = {r1}
    Primary = r1
    Nobody = Nobody
    Stale = Stale
    Task = {t1}
    MaxFaults = 1
INVARIANT NeverTwice
