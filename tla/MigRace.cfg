\* Two processes start on the same database.
CONSTANTS
    Procs = {p1, p2}
    Head = 2
    DDLModes = {TRUE}
    MaxCrashes = 0
    MaxFaults = 0
SPECIFICATION Spec
INVARIANTS
    NoStartupFailure
\* run_migration returns or raises: once every process has, start-up stops.
CHECK_DEADLOCK FALSE
