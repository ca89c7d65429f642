SPECIFICATION QuarantineCodeSpec
CONSTANTS
    Streak = 3
    MaxResults = 3
    MaxSwitches = 1
INVARIANT ToggleQuarantines
CHECK_DEADLOCK FALSE
