\* One task submitted once, two workers, one crash, one failed MongoDB write.
SPECIFICATION LiveSpec
CONSTANTS
    Task = {t1}
    Worker = {w1, w2}
    MaxRequests = 1
    MaxCrashes = 1
    MaxFaults = 1
INVARIANT DashboardAgrees
PROPERTIES
    ImplementsLifecycle
    EveryRunSettles
    WorkerNeverBlocked
CHECK_DEADLOCK FALSE
