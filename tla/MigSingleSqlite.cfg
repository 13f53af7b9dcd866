\* One process, per-revision commits (SQLite), up to two transient alembic errors.
CONSTANTS
    Procs = {p1}
    Head = 3
    DDLModes = {FALSE}
    MaxCrashes = 0
    MaxFaults = 2
SPECIFICATION Spec
INVARIANTS
    FaultFreeStartMigrates
\* run_migration returns or raises: once every process has, start-up stops.
CHECK_DEADLOCK FALSE
