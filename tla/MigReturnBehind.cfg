\* Two processes on SQLite, one transient alembic error.
CONSTANTS
    Procs = {p1, p2}
    Head = 2
    DDLModes = {FALSE}
    MaxCrashes = 0
    MaxFaults = 1
SPECIFICATION Spec
INVARIANTS
    MigratedOnReturn
\* run_migration returns or raises: once every process has, start-up stops.
CHECK_DEADLOCK FALSE
