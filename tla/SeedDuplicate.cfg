\* Two application processes on the same database, a user who may delete one
\* workflow, and one restart.
CONSTANTS
    Procs = {p1, p2}
    MaxInserts = 2
    MaxCrashes = 1
    MaxDeletes = 1
SPECIFICATION SpecEdits
INVARIANTS
    NoDuplicateSeed
\* init_db_samples returns: once every process is done the seeding step stops.
CHECK_DEADLOCK FALSE
