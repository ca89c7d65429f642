\* An automated and a manual item; two handlers at once; a verdict reported up
\* to twice, one manual edit, one handler failure.
SPECIFICATION FairSpec
CONSTANTS
    Item = {a, m}
    Automated = {a}
    Handler = {h1, h2}
    Supplied = {"PENDING", "PASSED"}
    MaxReports = 2
    MaxPuts = 1
    MaxStops = 1
INVARIANTS
    TypeOK
    CompletedOnlyIfClosable
    CompletionNotMissed
    SerialSummaryExact
PROPERTIES
    CompletedForGood
    CiCycleCompletes
CHECK_DEADLOCK FALSE
