\* Two tests, no fault, no timeout: a batch in flight is enough.
SPECIFICATION Spec
CONSTANTS
    Test = {t1, t2}
    Outcome = {"passed", "failed"}
    MaxTimeouts = 0
    MaxFaults = 0
INVARIANT FailureNeedsQuarantine
CHECK_DEADLOCK FALSE
