\* One test, one fault: a lost request, a failed call or a restart.
SPECIFICATION FairSpec
CONSTANTS
    Test = {t1}
    Outcome = {"passed", "failed", "skipped"}
    MaxTimeouts = 0
    MaxFaults = 1
PROPERTIES
    VerdictLostOnlyToSweep
    EveryRunEnds
CHECK_DEADLOCK FALSE
