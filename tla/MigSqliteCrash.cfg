\* One process on SQLite, one crash.
CONSTANTS
    Procs = {p1}
    Head = 2
    DDLModes = {FALSE}
    MaxCrashes = 1
    MaxFaults = 0
SPECIFICATION Spec
PROPERTIES
    EventuallyMigrated
\* run_migration returns or raises: once every process has, start-up stops.
CHECK_DEADLOCK FALSE
