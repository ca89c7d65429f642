\* One task, one worker, no faults; an image pull may never end.
SPECIFICATION NoRegistrySpec
CONSTANTS
    Task = {t1}
    Worker = {w1}
    MaxRequests = 1
    MaxCrashes = 0
    MaxFaults = 0
PROPERTY WorkerNeverBlocked
CHECK_DEADLOCK FALSE
