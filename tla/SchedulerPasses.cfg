\* Two replicas, one task, two faults, under each combination of drivers.
SPECIFICATION FairSpec
CONSTANTS
    Replica = {r1, r2}
    Primary = r1
    Nobody = Nobody
    Stale = Stale
    Task = {t1}
    MaxFaults = 2
INVARIANTS TypeOK WakesAreHonoured
PROPERTIES ImplementsLedger EveryTaskIsWeighed
