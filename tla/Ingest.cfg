\* Two tests, one call that times out, no fault.
SPECIFICATION Spec
CONSTANTS
    Test = {t1, t2}
    Outcome = {"passed", "failed"}
    MaxTimeouts = 1
    MaxFaults = 0
SYMMETRY TestSymmetry
INVARIANTS
    TypeOK
    RunAndCycleAgree
    ResultsComplete
    BypassJustified
CHECK_DEADLOCK FALSE
