\* One test, no fault, no timeout.
SPECIFICATION Spec
CONSTANTS
    Test = {t1}
    Outcome = {"passed", "failed"}
    MaxTimeouts = 0
    MaxFaults = 0
INVARIANT TeardownFinalises
CHECK_DEADLOCK FALSE
