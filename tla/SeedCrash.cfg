\* One process, restarted once at any point; no user edits.
CONSTANTS
    Procs = {p1}
    MaxInserts = 2
    MaxCrashes = 1
    MaxDeletes = 0
SPECIFICATION Spec
INVARIANTS
    SeededWorkflowsLinked
\* init_db_samples returns: once every process is done the seeding step stops.
CHECK_DEADLOCK FALSE
