\* Two processes on a transactional-DDL engine, from every starting database,
\* with up to two restarts and one transient alembic error.
CONSTANTS
    Procs = {p1, p2}
    Head = 2
    DDLModes = {TRUE}
    MaxCrashes = 2
    MaxFaults = 1
SPECIFICATION Spec
INVARIANTS
    TypeOK
    FaultFreeStartMigrates
\* run_migration returns or raises: once every process has, start-up stops.
CHECK_DEADLOCK FALSE
