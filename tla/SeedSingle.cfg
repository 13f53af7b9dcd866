\* One application process, restarted up to twice at any point, no user edits.
CONSTANTS
    Procs = {p1}
    MaxInserts = 2
    MaxCrashes = 2
    MaxDeletes = 0
SPECIFICATION Spec
INVARIANTS
    TypeOK
    NoDuplicateSeed
PROPERTIES
    EventuallySeeded
    AbstractSeeding
\* init_db_samples returns: once every process is done the seeding step stops.
CHECK_DEADLOCK FALSE
