\* One task submitted twice (a client retry), two workers, one crash, one
\* failed MongoDB write.
SPECIFICATION Spec
CONSTANTS
    Task = {t1}
    Worker = {w1, w2}
    MaxRequests = 2
    MaxCrashes = 1
    MaxFaults = 1
SYMMETRY WorkerSymmetry
INVARIANTS
    TypeOK
    NoRunForgotten
    OneContainerPerTask
    FinalCallbackMatchesDocument
PROPERTY OrphanedTaskOnlyErrs
CHECK_DEADLOCK FALSE
