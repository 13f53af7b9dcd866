------------------------------ MODULE Migration ------------------------------
(***************************************************************************)
(* run_migration (database/utils.py, lines 88-142): the start-up step that *)
(* brings the database schema to the alembic head revision.                *)
(*                                                                         *)
(* Each member of Procs is an application process that calls run_migration *)
(* once per (re)start.  A run is                                           *)
(*   Probe         lines 101-108  SELECT from alembic_version; any error   *)
(*                                sets should_initialize_alembic;          *)
(*   EnsureCheck,  line 113       command.ensure_version: the version      *)
(*   EnsureCreate                 table is created with checkfirst, i.e.   *)
(*                                a has_table query and then CREATE TABLE; *)
(*   Upgrade...    lines 114,128  command.upgrade(head): the current       *)
(*                                revision is read once, then the missing  *)
(*                                revisions are applied;                   *)
(*   Check1        lines 122-131  command.check; CommandError or           *)
(*                                AutogenerateDiffsDetected lead to an     *)
(*                                upgrade, any other exception is dropped; *)
(*   Check2        lines 133-142  command.check again; those two errors    *)
(*                                are logged, any other one propagates.    *)
(* A failure during initialisation raises RuntimeError (lines 116-118); a *)
(* failure of the second upgrade is only logged (lines 130-131).           *)
(*                                                                         *)
(* The revisions are 1..Head, 0 standing for an empty version table or no *)
(* table.  Revision i's DDL applies to a schema at revision i-1 only (it   *)
(* creates or alters the tables i-1 left).  When transactionalDDL holds    *)
(* (PostgreSQL) an upgrade commits all its revisions at once; otherwise    *)
(* (SQLite, the default engine) each revision's DDL and its version-stamp  *)
(* update are separate commits.                                            *)
(***************************************************************************)
EXTENDS Naturals, FiniteSets

CONSTANTS
    Procs,            \* the application processes that run the start-up code
    Head,             \* number of revisions in the migration scripts
    DDLModes,         \* the engines considered: TRUE when DDL is transactional
    MaxCrashes,       \* bound on the number of crash/restarts
    MaxFaults         \* bound on transient errors raised by alembic calls

ASSUME MigrationAssumption ==
    /\ IsFiniteSet(Procs) /\ Procs # {}
    /\ Head \in Nat \ {0}
    /\ DDLModes \subseteq BOOLEAN /\ DDLModes # {}
    /\ MaxCrashes \in Nat
    /\ MaxFaults \in Nat

VARIABLES
    transactionalDDL, \* does the engine roll back DDL with the transaction?
    versionTable,  \* "absent" or "present": does alembic_version exist?
    stamp,         \* the revision recorded in alembic_version (0 = none)
    schema,        \* the revision the tables actually correspond to
    pc,            \* pc[p]: where process p is in run_migration
    at,            \* at[p]: the revision p's running upgrade believes current
    ddlDone,       \* ddlDone[p]: DDL of revision at[p]+1 applied, stamp not yet
    sawTable,      \* sawTable[p]: result of ensure_version's has_table query
    faultsAtStart, \* faultsAtStart[p]: the value of faults when p last started
    crashes,       \* number of Restart steps taken
    faults         \* number of transient errors raised so far

vars == <<transactionalDDL, versionTable, stamp, schema, pc, at, ddlDone, sawTable,
          faultsAtStart, crashes, faults>>

Revisions == 0..Head

PcValues == {"probe", "ensure_check", "ensure_create", "init_upgrade",
             "init_upgrading", "check1", "upgrade", "upgrading", "check2",
             "done", "failed"}

(***************************************************************************)
(* The databases a start can find: a fresh one, one whose version table   *)
(* records revision r (0: the table is empty, as after a crash between     *)
(* ensure_version and upgrade; r < Head: an older release's schema), and   *)
(* an up-to-date one.                                                      *)
(***************************************************************************)
StartDBs == {[vt |-> "absent", rev |-> 0]} \cup
            {[vt |-> "present", rev |-> r] : r \in Revisions}

AtHead == stamp = Head /\ schema = Head

TypeOK ==
    /\ transactionalDDL \in DDLModes
    /\ versionTable \in {"absent", "present"}
    /\ stamp \in Revisions
    /\ schema \in Revisions
    /\ pc \in [Procs -> PcValues]
    /\ at \in [Procs -> Revisions]
    /\ ddlDone \in [Procs -> BOOLEAN]
    /\ sawTable \in [Procs -> BOOLEAN]
    /\ faultsAtStart \in [Procs -> 0..MaxFaults]
    /\ crashes \in 0..MaxCrashes
    /\ faults \in 0..MaxFaults

Init ==
    /\ transactionalDDL \in DDLModes
    /\ \E db \in StartDBs : /\ versionTable = db.vt
                            /\ stamp = db.rev
                            /\ schema = db.rev
    /\ pc = [p \in Procs |-> "probe"]
    /\ at = [p \in Procs |-> 0]
    /\ ddlDone = [p \in Procs |-> FALSE]
    /\ sawTable = [p \in Procs |-> FALSE]
    /\ faultsAtStart = [p \in Procs |-> 0]
    /\ crashes = 0
    /\ faults = 0

\* An alembic call raises a transient error (a locked or lost connection).
Fault == faults < MaxFaults /\ faults' = faults + 1

Goto(p, l) == pc' = [pc EXCEPT ![p] = l]

dbVars == <<transactionalDDL, versionTable, stamp, schema>>

(***************************************************************************)
(* Lines 101-108: the probe.  It fails when the version table is missing,  *)
(* and on any other error as well (except Exception, line 104).            *)
(***************************************************************************)
Probe(p) ==
    /\ pc[p] = "probe"
    /\ \/ /\ Goto(p, IF versionTable = "absent" THEN "ensure_check" ELSE "check1")
          /\ UNCHANGED faults
       \/ Fault /\ Goto(p, "ensure_check")
    /\ UNCHANGED <<dbVars, at, ddlDone, sawTable, faultsAtStart, crashes>>

(***************************************************************************)
(* Line 113: command.ensure_version creates alembic_version with           *)
(* checkfirst: a has_table query, then CREATE TABLE when it said no.  The  *)
(* CREATE fails when another process created the table in between, and    *)
(* the error becomes RuntimeError (lines 116-118).  Either query can also *)
(* meet a transient error, which is raised the same way.                   *)
(***************************************************************************)
EnsureCheck(p) ==
    /\ pc[p] = "ensure_check"
    /\ \/ /\ sawTable' = [sawTable EXCEPT ![p] = (versionTable = "present")]
          /\ Goto(p, "ensure_create")
          /\ UNCHANGED faults
       \/ Fault /\ Goto(p, "failed") /\ UNCHANGED sawTable
    /\ UNCHANGED <<dbVars, at, ddlDone, faultsAtStart, crashes>>

EnsureCreate(p) ==
    /\ pc[p] = "ensure_create"
    /\ \/ /\ sawTable[p] /\ Goto(p, "init_upgrade")
          /\ UNCHANGED <<versionTable, faults>>
       \/ /\ ~sawTable[p] /\ versionTable = "absent"
          /\ versionTable' = "present"
          /\ Goto(p, "init_upgrade")
          /\ UNCHANGED faults
       \/ /\ ~sawTable[p] /\ versionTable = "present"
          /\ Goto(p, "failed") /\ UNCHANGED <<versionTable, faults>>
       \/ Fault /\ Goto(p, "failed") /\ UNCHANGED versionTable
    /\ UNCHANGED <<transactionalDDL, stamp, schema, at, ddlDone, sawTable,
                   faultsAtStart, crashes>>

(***************************************************************************)
(* command.upgrade(head), at line 114 (initialisation) and at line 128    *)
(* (after a failed check).  Where it goes next, on success and on an       *)
(* exception, depends on which of the two calls it is.                     *)
(***************************************************************************)
Running           == [init_upgrade |-> "init_upgrading", upgrade |-> "upgrading"]
AfterUpgrade      == [init_upgrading |-> "check1", upgrading |-> "check2"]
AfterUpgradeError == [init_upgrading |-> "failed", upgrading |-> "check2"]

\* Mutant: the current revision read one too low.
UpgradeBeginOffByOne(p) ==
    /\ pc[p] \in DOMAIN Running
    /\ at' = [at EXCEPT ![p] = stamp - 1]
    /\ ddlDone' = [ddlDone EXCEPT ![p] = FALSE]
    /\ Goto(p, Running[pc[p]])
    /\ UNCHANGED <<dbVars, sawTable, faultsAtStart, crashes, faults>>

\* The upgrade reads the current revision once, before it applies any.
UpgradeBegin(p) ==
    /\ pc[p] \in DOMAIN Running
    /\ at' = [at EXCEPT ![p] = stamp]
    /\ ddlDone' = [ddlDone EXCEPT ![p] = FALSE]
    /\ Goto(p, Running[pc[p]])
    /\ UNCHANGED <<dbVars, sawTable, faultsAtStart, crashes, faults>>

(***************************************************************************)
(* Non-transactional DDL: revision at[p]+1 is applied by its DDL, then     *)
(* the version row is moved from at[p] to at[p]+1; each is its own commit. *)
(* The DDL fails unless the tables are at revision at[p]; the stamp        *)
(* update fails unless the row still reads at[p].                          *)
(***************************************************************************)
\* Mutant: the stamp commit leaves ddlDone set for the next revision.
UpgradeStepNoReset(p) ==
    /\ ~transactionalDDL
    /\ pc[p] \in DOMAIN AfterUpgrade
    /\ at[p] < Head
    /\ \/ /\ ~ddlDone[p] /\ schema = at[p]
          /\ schema' = at[p] + 1
          /\ ddlDone' = [ddlDone EXCEPT ![p] = TRUE]
          /\ UNCHANGED <<stamp, at, pc, faults>>
       \/ /\ ddlDone[p] /\ stamp = at[p]
          /\ stamp' = at[p] + 1
          /\ at' = [at EXCEPT ![p] = @ + 1]
          /\ UNCHANGED <<schema, pc, faults, ddlDone>>
       \/ /\ \/ ~ddlDone[p] /\ schema # at[p] /\ UNCHANGED faults
             \/ ddlDone[p] /\ stamp # at[p] /\ UNCHANGED faults
             \/ Fault
          /\ Goto(p, AfterUpgradeError[pc[p]])
          /\ UNCHANGED <<stamp, schema, at, ddlDone>>
    /\ UNCHANGED <<transactionalDDL, versionTable, sawTable, faultsAtStart, crashes>>

UpgradeStep(p) ==
    /\ ~transactionalDDL
    /\ pc[p] \in DOMAIN AfterUpgrade
    /\ at[p] < Head
    /\ \/ /\ ~ddlDone[p] /\ schema = at[p]
          /\ schema' = at[p] + 1
          /\ ddlDone' = [ddlDone EXCEPT ![p] = TRUE]
          /\ UNCHANGED <<stamp, at, pc, faults>>
       \/ /\ ddlDone[p] /\ stamp = at[p]
          /\ stamp' = at[p] + 1
          /\ at' = [at EXCEPT ![p] = @ + 1]
          /\ ddlDone' = [ddlDone EXCEPT ![p] = FALSE]
          /\ UNCHANGED <<schema, pc, faults>>
       \/ /\ \/ ~ddlDone[p] /\ schema # at[p] /\ UNCHANGED faults
             \/ ddlDone[p] /\ stamp # at[p] /\ UNCHANGED faults
             \/ Fault
          /\ Goto(p, AfterUpgradeError[pc[p]])
          /\ UNCHANGED <<stamp, schema, at, ddlDone>>
    /\ UNCHANGED <<transactionalDDL, versionTable, sawTable, faultsAtStart, crashes>>

\* Non-transactional DDL: every revision applied, the upgrade returns.
UpgradeFinish(p) ==
    /\ ~transactionalDDL
    /\ pc[p] \in DOMAIN AfterUpgrade
    /\ at[p] = Head
    /\ Goto(p, AfterUpgrade[pc[p]])
    /\ UNCHANGED <<dbVars, at, ddlDone, sawTable, faultsAtStart, crashes, faults>>

(***************************************************************************)
(* Transactional DDL: the revisions from at[p] to Head commit together, or *)
(* the transaction rolls back and the upgrade raises.                      *)
(***************************************************************************)
UpgradeCommit(p) ==
    /\ transactionalDDL
    /\ pc[p] \in DOMAIN AfterUpgrade
    /\ \/ /\ stamp = at[p] /\ schema = at[p]
          /\ stamp' = Head /\ schema' = Head
          /\ Goto(p, AfterUpgrade[pc[p]])
          /\ UNCHANGED faults
       \/ /\ \/ (stamp # at[p] \/ schema # at[p]) /\ UNCHANGED faults
             \/ Fault
          /\ Goto(p, AfterUpgradeError[pc[p]])
          /\ UNCHANGED <<stamp, schema>>
    /\ UNCHANGED <<transactionalDDL, versionTable, at, ddlDone, sawTable,
                   faultsAtStart, crashes>>

(***************************************************************************)
(* Lines 122-131: command.check raises CommandError when the stamp is not *)
(* head and AutogenerateDiffsDetected when the tables differ from the      *)
(* models; both lead to an upgrade.  Any other exception is dropped by the *)
(* isinstance test of line 126, and the upgrade is skipped.                *)
(***************************************************************************)
\* Mutant: CommandError no longer leads to an upgrade.
Check1OnlyDiffs(p) ==
    /\ pc[p] = "check1"
    /\ \/ Fault /\ Goto(p, "check2")
       \/ stamp = Head /\ schema # Head /\ Goto(p, "upgrade") /\ UNCHANGED faults
       \/ ~(stamp = Head /\ schema # Head) /\ Goto(p, "check2") /\ UNCHANGED faults
    /\ UNCHANGED <<dbVars, at, ddlDone, sawTable, faultsAtStart, crashes>>

Check1(p) ==
    /\ pc[p] = "check1"
    /\ \/ Fault /\ Goto(p, "check2")
       \/ ~AtHead /\ Goto(p, "upgrade") /\ UNCHANGED faults
       \/ AtHead /\ Goto(p, "check2") /\ UNCHANGED faults
    /\ UNCHANGED <<dbVars, at, ddlDone, sawTable, faultsAtStart, crashes>>

(***************************************************************************)
(* Lines 133-142: the second check.  CommandError and                      *)
(* AutogenerateDiffsDetected are logged and run_migration returns; any     *)
(* other exception propagates out of run_migration.                        *)
(***************************************************************************)
Check2(p) ==
    /\ pc[p] = "check2"
    /\ \/ Fault /\ Goto(p, "failed")
       \/ Goto(p, "done") /\ UNCHANGED faults
    /\ UNCHANGED <<dbVars, at, ddlDone, sawTable, faultsAtStart, crashes>>

(***************************************************************************)
(* The process dies at any point, or the application is started again     *)
(* after run_migration returned or raised: run_migration runs from the     *)
(* start.  Committed DDL and version rows stay.                            *)
(***************************************************************************)
Restart(p) ==
    /\ pc[p] # "probe"
    /\ crashes < MaxCrashes
    /\ crashes' = crashes + 1
    /\ Goto(p, "probe")
    /\ at' = [at EXCEPT ![p] = 0]
    /\ ddlDone' = [ddlDone EXCEPT ![p] = FALSE]
    /\ sawTable' = [sawTable EXCEPT ![p] = FALSE]
    /\ faultsAtStart' = [faultsAtStart EXCEPT ![p] = faults]
    /\ UNCHANGED <<dbVars, faults>>

Step(p) ==
    \/ Probe(p) \/ EnsureCheck(p) \/ EnsureCreate(p)
    \/ UpgradeBegin(p) \/ UpgradeStep(p) \/ UpgradeFinish(p) \/ UpgradeCommit(p)
    \/ Check1(p) \/ Check2(p)

Next == \E p \in Procs : Step(p) \/ Restart(p)

(***************************************************************************)
(* run_migration has no waits: a live process keeps taking its steps.     *)
(* Crashes are not fair.                                                   *)
(***************************************************************************)
Fairness == \A p \in Procs : WF_vars(Step(p))

Spec == Init /\ [][Next]_vars /\ Fairness

-----------------------------------------------------------------------------
(***************************************************************************)
(* Properties                                                              *)
(***************************************************************************)

(***************************************************************************)
(* When run_migration returns normally, the schema is at head.  It is      *)
(* about the errors that lines 125-131 and 136-142 log or drop instead of  *)
(* raising, and about a concurrent upgrade still under way.                *)
(***************************************************************************)
MigratedOnReturn == \A p \in Procs : pc[p] = "done" => AtHead

(***************************************************************************)
(* A start during which no alembic call raised a transient error returns  *)
(* with the schema at head, whatever earlier starts, their errors and      *)
(* crashes left behind.  It is about run_migration repairing the state a   *)
(* previous start left: an empty version table, a partial upgrade, a       *)
(* skipped upgrade (lines 110-131).                                        *)
(***************************************************************************)
FaultFreeStartMigrates ==
    \A p \in Procs : pc[p] = "done" /\ faults = faultsAtStart[p] => AtHead

(***************************************************************************)
(* No start-up fails with an exception out of run_migration (the           *)
(* RuntimeError of line 118 or an error of the second check).              *)
(***************************************************************************)
NoStartupFailure == \A p \in Procs : pc[p] # "failed"

(***************************************************************************)
(* The schema eventually reaches head and stays there, whatever the        *)
(* interleaving of the start-ups and the crashes.                          *)
(***************************************************************************)
EventuallyMigrated == <>[]AtHead



(***************************************************************************)
(* With the processes, their in-memory revisions and their crashes hidden, *)
(* the version table and the two revisions behave as SchemaHistory: the    *)
(* DDL of a revision is applied only to the tables of the recorded one,    *)
(* and the row moves only to the revision just applied or, on a            *)
(* transactional engine, to head with the tables.  It is about the         *)
(* concurrent upgrades of lines 114 and 128 reading the current revision   *)
(* once and committing later, on the engine's per-revision commits.        *)
(***************************************************************************)
History == INSTANCE SchemaHistory
               WITH hasVersionTable <- (versionTable = "present"),
                    tables <- schema,
                    recorded <- stamp

SchemaFollowsHistory == History!Spec

=============================================================================
