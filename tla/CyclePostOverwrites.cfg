\* Two automated items reported once each, no manual edit, no failure.
SPECIFICATION Spec
CONSTANTS
    Item = {a, b}
    Automated = {a, b}
    Handler = {h1, h2}
    Supplied = {"PENDING"}
    MaxReports = 1
    MaxPuts = 0
    MaxStops = 0
SYMMETRY HandlerSymmetry
INVARIANT SyncedResultKept
CHECK_DEADLOCK FALSE
