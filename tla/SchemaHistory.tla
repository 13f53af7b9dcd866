---------------------------- MODULE SchemaHistory ----------------------------
(***************************************************************************)
(* What run_migration promises the database (database/utils.py, lines     *)
(* 110-131), with the processes, their in-memory revision and their        *)
(* crashes hidden.  The version table, once created, stays; a revision's   *)
(* DDL is applied only to the tables of the revision the version row       *)
(* records; the row is moved only to the revision whose DDL was just       *)
(* applied, or, when DDL is transactional, together with the tables to     *)
(* head.  So the row never records a revision the tables lack, and the     *)
(* tables are never more than one revision ahead of it.                    *)
(***************************************************************************)
EXTENDS Naturals

CONSTANT Head       \* number of revisions in the migration scripts

VARIABLES
    hasVersionTable,  \* does alembic_version exist?
    tables,           \* the revision the tables correspond to
    recorded          \* the revision recorded in alembic_version

histVars == <<hasVersionTable, tables, recorded>>

\* A database the application starts on: its tables match its version row.
Init ==
    /\ hasVersionTable \in BOOLEAN
    /\ recorded \in 0..Head
    /\ tables = recorded
    /\ ~hasVersionTable => recorded = 0

\* Line 113: ensure_version creates the version table.
CreateVersionTable ==
    /\ ~hasVersionTable
    /\ hasVersionTable' = TRUE
    /\ UNCHANGED <<tables, recorded>>

\* Lines 114 and 128, per-revision commits: the DDL of the next revision.
ApplyNext ==
    /\ hasVersionTable
    /\ tables = recorded
    /\ tables < Head
    /\ tables' = tables + 1
    /\ UNCHANGED <<hasVersionTable, recorded>>

\* Lines 114 and 128, per-revision commits: the row catches up with the DDL.
RecordApplied ==
    /\ hasVersionTable
    /\ tables = recorded + 1
    /\ recorded' = tables
    /\ UNCHANGED <<hasVersionTable, tables>>

\* Lines 114 and 128, transactional DDL: all revisions and the row at once.
UpgradeToHead ==
    /\ hasVersionTable
    /\ tables = recorded
    /\ tables' = Head
    /\ recorded' = Head
    /\ UNCHANGED hasVersionTable

Next == CreateVersionTable \/ ApplyNext \/ RecordApplied \/ UpgradeToHead

Spec == Init /\ [][Next]_histVars

=============================================================================
