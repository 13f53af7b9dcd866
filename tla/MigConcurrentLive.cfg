\* Two processes on either engine, no crash and no transient error.
CONSTANTS
    Procs = {p1, p2}
    Head = 2
    DDLModes = {TRUE, FALSE}
    MaxCrashes = 0
    MaxFaults = 0
SPECIFICATION Spec
PROPERTIES
    EventuallyMigrated
    SchemaFollowsHistory
\* run_migration returns or raises: once every process has, start-up stops.
CHECK_DEADLOCK FALSE
