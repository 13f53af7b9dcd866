--------------------------- MODULE MigrationProofs ---------------------------
(***************************************************************************)
(* Proofs about Migration, the model of run_migration.                     *)
(*                                                                         *)
(*  - MigrationTypeCorrect: every behaviour of Spec keeps TypeOK, for any  *)
(*    processes, head revision and bounds.                                 *)
(*  - TransactionalStartMigrates: on an engine with transactional DDL,   *)
(*    for any number of concurrent processes, a start in which no alembic  *)
(*    call raised a transient error returns with the schema at head,       *)
(*    whatever the other processes and earlier crashes and errors did.     *)
(*  - SqliteStartMigrates: the same on SQLite, whose upgrade commits each  *)
(*    revision's DDL and stamp separately, for one process not restarted.  *)
(***************************************************************************)
EXTENDS Migration, TLAPS

LEMMA TypeInit == Init => TypeOK
  <1> SUFFICES ASSUME Init PROVE TypeOK
    OBVIOUS
  <1>1. PICK db \in StartDBs : /\ versionTable = db.vt
                               /\ stamp = db.rev /\ schema = db.rev
    BY DEF Init
  <1>2. db.vt \in {"absent", "present"} /\ db.rev \in Revisions
    BY <1>1, MigrationAssumption DEF StartDBs, Revisions
  <1>3. QED
    BY <1>1, <1>2, MigrationAssumption DEF Init, TypeOK, PcValues, Revisions

\* Where a step of p may send it: every label a Goto of Next names.
LEMMA LabelsArePcValues ==
  /\ \A l \in DOMAIN Running : Running[l] \in PcValues
  /\ \A l \in DOMAIN AfterUpgrade : AfterUpgrade[l] \in PcValues
  /\ \A l \in DOMAIN AfterUpgradeError : AfterUpgradeError[l] \in PcValues
  /\ DOMAIN AfterUpgradeError = DOMAIN AfterUpgrade
  BY DEF Running, AfterUpgrade, AfterUpgradeError, PcValues

LEMMA TypeStep == TypeOK /\ [Next]_vars => TypeOK'
  <1> SUFFICES ASSUME TypeOK, [Next]_vars PROVE TypeOK'
    OBVIOUS
  <1>0. Head \in Nat /\ MaxFaults \in Nat /\ MaxCrashes \in Nat
    BY MigrationAssumption
  <1>1. CASE \E p \in Procs : Probe(p)
    BY <1>1, <1>0 DEF Probe, Fault, Goto, TypeOK, PcValues, dbVars
  <1>2. CASE \E p \in Procs : EnsureCheck(p)
    <2>1. PICK p \in Procs : EnsureCheck(p)
      BY <1>2
    <2>2. CASE sawTable' = [sawTable EXCEPT ![p] = (versionTable = "present")]
               /\ Goto(p, "ensure_create") /\ UNCHANGED faults
      BY <2>1, <2>2 DEF EnsureCheck, Goto, TypeOK, PcValues, dbVars
    <2>3. CASE Fault /\ Goto(p, "failed") /\ UNCHANGED sawTable
      BY <2>1, <2>3, <1>0 DEF EnsureCheck, Fault, Goto, TypeOK, PcValues, dbVars
    <2>4. QED
      BY <2>1, <2>2, <2>3 DEF EnsureCheck
  <1>3. CASE \E p \in Procs : EnsureCreate(p)
    BY <1>3, <1>0 DEF EnsureCreate, Fault, Goto, TypeOK, PcValues, dbVars
  <1>4. CASE \E p \in Procs : UpgradeBegin(p)
    BY <1>4, LabelsArePcValues DEF UpgradeBegin, Goto, TypeOK, dbVars
  <1>5. CASE \E p \in Procs : UpgradeStep(p)
    <2>1. PICK p \in Procs : UpgradeStep(p)
      BY <1>5
    <2>2. at[p] + 1 \in Revisions
      BY <2>1, <1>0 DEF UpgradeStep, TypeOK, Revisions
    <2>3. /\ stamp' \in Revisions /\ schema' \in Revisions
          /\ at' \in [Procs -> Revisions]
          /\ ddlDone' \in [Procs -> BOOLEAN]
      BY <2>1, <2>2 DEF UpgradeStep, TypeOK
    <2>4. pc' \in [Procs -> PcValues]
      BY <2>1, LabelsArePcValues DEF UpgradeStep, Goto, TypeOK
    <2>5. faults' \in 0..MaxFaults
      BY <2>1, <1>0 DEF UpgradeStep, Fault, TypeOK
    <2>6. QED
      BY <2>1, <2>3, <2>4, <2>5 DEF UpgradeStep, TypeOK
  <1>6. CASE \E p \in Procs : UpgradeFinish(p)
    BY <1>6, LabelsArePcValues DEF UpgradeFinish, Goto, TypeOK, dbVars
  <1>7. CASE \E p \in Procs : UpgradeCommit(p)
    <2>1. PICK p \in Procs : UpgradeCommit(p)
      BY <1>7
    <2>2. stamp' \in Revisions /\ schema' \in Revisions
      BY <2>1, <1>0 DEF UpgradeCommit, TypeOK, Revisions
    <2>3. pc' \in [Procs -> PcValues]
      BY <2>1, LabelsArePcValues DEF UpgradeCommit, Goto, TypeOK
    <2>4. faults' \in 0..MaxFaults
      BY <2>1, <1>0 DEF UpgradeCommit, Fault, TypeOK
    <2>5. QED
      BY <2>1, <2>2, <2>3, <2>4 DEF UpgradeCommit, TypeOK
  <1>8. CASE \E p \in Procs : Check1(p)
    BY <1>8, <1>0 DEF Check1, Fault, Goto, TypeOK, PcValues, dbVars
  <1>9. CASE \E p \in Procs : Check2(p)
    BY <1>9, <1>0 DEF Check2, Fault, Goto, TypeOK, PcValues, dbVars
  <1>10. CASE \E p \in Procs : Restart(p)
    BY <1>10, <1>0 DEF Restart, Goto, TypeOK, PcValues, Revisions, dbVars
  <1>11. CASE UNCHANGED vars
    BY <1>11 DEF vars, TypeOK
  <1>12. QED
    BY <1>1, <1>2, <1>3, <1>4, <1>5, <1>6, <1>7, <1>8, <1>9, <1>10, <1>11
       DEF Next, Step

(***************************************************************************)
(* The model of run_migration never leaves its types: revisions stay      *)
(* within 0..Head through every upgrade, crash and restart.               *)
(***************************************************************************)
THEOREM MigrationTypeCorrect == Spec => []TypeOK
  <1>1. Init => TypeOK
    BY TypeInit
  <1>2. TypeOK /\ [Next]_vars => TypeOK'
    BY TypeStep
  <1>3. QED
    BY <1>1, <1>2, PTL DEF Spec

(***************************************************************************)
(* With transactional DDL, the stamp and the tables move together, and    *)
(* once at head they stay there.  A start that has seen no transient error *)
(* yet is either before its upgrade, or holds the current revision while   *)
(* it upgrades unless another process has already brought the schema to    *)
(* head, or has the schema at head once it is past the first check.       *)
(* Errors are counted since the start (faultsAtStart), so an error of an   *)
(* earlier start does not count against this one.                          *)
(***************************************************************************)
StartInv(p) ==
    /\ faultsAtStart[p] <= faults
    /\ faults = faultsAtStart[p] =>
         /\ pc[p] \in {"check2", "done"} => AtHead
         /\ pc[p] \in {"init_upgrading", "upgrading"} => at[p] = stamp \/ AtHead

TxnInv == TypeOK /\ transactionalDDL /\ schema = stamp /\ \A p \in Procs : StartInv(p)

LEMMA TxnInvInit ==
  ASSUME DDLModes = {TRUE}
  PROVE  Init => TxnInv
  <1> SUFFICES ASSUME Init PROVE TxnInv
    OBVIOUS
  <1>1. TypeOK
    BY TypeInit
  <1>2. transactionalDDL /\ schema = stamp
    BY DEF Init
  <1>3. \A p \in Procs : StartInv(p)
    BY DEF Init, StartInv
  <1>4. QED
    BY <1>1, <1>2, <1>3 DEF TxnInv

(***************************************************************************)
(* Each step of any process keeps every process's start invariant.  A     *)
(* step of q changes p's view only through the stamp, the tables and the   *)
(* error count: a commit of q moves both to head, which p's invariant      *)
(* allows, and an error of q ends p's fault-free start.                    *)
(***************************************************************************)
LEMMA TxnInvStep ==
  ASSUME DDLModes = {TRUE}
  PROVE  TxnInv /\ [Next]_vars => TxnInv'
  <1> SUFFICES ASSUME TxnInv, [Next]_vars PROVE TxnInv'
    OBVIOUS
  <1>0. /\ TypeOK /\ transactionalDDL /\ schema = stamp /\ faults \in Nat
    BY MigrationAssumption DEF TxnInv, TypeOK
  <1>1. TypeOK' /\ transactionalDDL'
    BY TypeStep DEF TxnInv, TypeOK
  <1>2. ASSUME NEW q \in Procs, NEW p \in Procs
        PROVE  Step(q) \/ Restart(q) => schema' = stamp' /\ StartInv(p)'
    <2>0. /\ StartInv(p) /\ faultsAtStart[p] \in Nat
          /\ pc[p] \in PcValues /\ pc[q] \in PcValues
      BY <1>0, MigrationAssumption DEF TxnInv, TypeOK
    <2>1. CASE Probe(q)
      BY <2>1, <2>0, <1>0 DEF TxnInv, AtHead, Probe, Fault, Goto, StartInv, TypeOK, dbVars
    <2>2. CASE EnsureCheck(q)
      BY <2>2, <2>0, <1>0 DEF TxnInv, AtHead, EnsureCheck, Fault, Goto, StartInv, TypeOK, dbVars
    <2>3. CASE EnsureCreate(q)
      BY <2>3, <2>0, <1>0 DEF TxnInv, AtHead, EnsureCreate, Fault, Goto, StartInv, TypeOK
    <2>4. CASE UpgradeBegin(q)
      BY <2>4, <2>0, <1>0 DEF TxnInv, AtHead, UpgradeBegin, Goto, StartInv, TypeOK, Running,
                        dbVars
    <2>5. CASE UpgradeStep(q) \/ UpgradeFinish(q)
      BY <2>5, <2>0, <1>0 DEF UpgradeStep, UpgradeFinish
    <2>6. CASE UpgradeCommit(q)
      <3>1. CASE /\ stamp = at[q] /\ schema = at[q]
                 /\ stamp' = Head /\ schema' = Head
                 /\ Goto(q, AfterUpgrade[pc[q]]) /\ UNCHANGED faults
        BY <2>6, <3>1, <2>0, <1>0 DEF TxnInv, UpgradeCommit, Goto, StartInv, AtHead,
                                TypeOK
      <3>2. CASE /\ (stamp # at[q] \/ schema # at[q]) /\ UNCHANGED faults
                 /\ Goto(q, AfterUpgradeError[pc[q]]) /\ UNCHANGED <<stamp, schema>>
        <4>1. pc[q] \in {"init_upgrading", "upgrading"} /\ at[q] # stamp
          BY <2>6, <3>2, <1>0 DEF UpgradeCommit, AfterUpgrade
        <4>2. faults = faultsAtStart[q] /\ pc[q] = "upgrading" => AtHead
          BY <4>1, <1>0 DEF TxnInv, StartInv
        <4>3. pc'[q] = IF pc[q] = "upgrading" THEN "check2" ELSE "failed"
          BY <4>1, <3>2, <1>0 DEF Goto, AfterUpgradeError, TypeOK
        <4>4. QED
          BY <2>6, <3>2, <4>2, <4>3, <2>0, <1>0 DEF TxnInv, UpgradeCommit, Goto,
                                              StartInv, AtHead, TypeOK
      <3>3. CASE /\ Fault
                 /\ Goto(q, AfterUpgradeError[pc[q]]) /\ UNCHANGED <<stamp, schema>>
        BY <2>6, <3>3, <2>0, <1>0 DEF TxnInv, UpgradeCommit, Fault, Goto, StartInv,
                                TypeOK
      <3>4. QED
        BY <2>6, <3>1, <3>2, <3>3 DEF UpgradeCommit
    <2>7. CASE Check1(q)
      BY <2>7, <2>0, <1>0 DEF TxnInv, Check1, Fault, Goto, StartInv, TypeOK, dbVars,
                        AtHead
    <2>8. CASE Check2(q)
      BY <2>8, <2>0, <1>0 DEF TxnInv, Check2, Fault, Goto, StartInv, TypeOK, dbVars,
                        AtHead
    <2>9. CASE Restart(q)
      BY <2>9, <2>0, <1>0 DEF TxnInv, AtHead, Restart, Goto, StartInv, TypeOK, dbVars
    <2>10. QED
      BY <2>1, <2>2, <2>3, <2>4, <2>5, <2>6, <2>7, <2>8, <2>9 DEF Step
  <1>3. CASE UNCHANGED vars
    BY <1>3, <1>1, <1>0 DEF TxnInv, vars, StartInv, AtHead
  <1>4. CASE Next
    <2>1. PICK q \in Procs : Step(q) \/ Restart(q)
      BY <1>4 DEF Next
    <2>2. schema' = stamp' /\ \A p \in Procs : StartInv(p)'
      BY <2>1, <1>2
    <2>3. QED
      BY <1>1, <2>2 DEF TxnInv
  <1>5. QED
    BY <1>3, <1>4

LEMMA TxnInvSafe == TxnInv => FaultFreeStartMigrates
  BY DEF TxnInv, StartInv, FaultFreeStartMigrates

(***************************************************************************)
(* FaultFreeStartMigrates on a transactional-DDL engine (PostgreSQL), for  *)
(* any number of application processes starting concurrently and every    *)
(* head revision and bound: a start of run_migration during which no      *)
(* alembic call raised a transient error returns only with the stamp and  *)
(* the tables at head, whatever the other processes do and whatever state  *)
(* the crashes and errors of earlier starts left (lines 101-142).  A       *)
(* concurrent upgrade that wins the race leaves the schema at head, and    *)
(* the losing upgrade's error is logged at line 131.  The transactional   *)
(* assumption is needed: mig_return_behind and mig_sqlite_crash break the  *)
(* property on SQLite.                                                     *)
(***************************************************************************)
THEOREM TransactionalStartMigrates ==
  ASSUME DDLModes = {TRUE}
  PROVE  Spec => []FaultFreeStartMigrates
  <1>1. Init => TxnInv
    BY TxnInvInit
  <1>2. TxnInv /\ [Next]_vars => TxnInv'
    BY TxnInvStep
  <1>3. TxnInv => FaultFreeStartMigrates
    BY TxnInvSafe
  <1>4. QED
    BY <1>1, <1>2, <1>3, PTL DEF Spec

(***************************************************************************)
(* On SQLite each revision is a DDL commit and then a stamp commit.  With  *)
(* no restart, a process that has seen no transient error is either        *)
(* outside an upgrade with the stamp and tables agreeing, or inside one    *)
(* holding the current stamp, with the tables one revision ahead exactly   *)
(* when it has applied the DDL and not yet the stamp.                      *)
(***************************************************************************)
Upgrading == {"init_upgrading", "upgrading"}

SqliteInv(p) ==
    /\ faultsAtStart[p] = 0
    /\ faults = 0 =>
         /\ pc[p] \in Upgrading =>
              /\ at[p] = stamp
              /\ schema = IF ddlDone[p] THEN at[p] + 1 ELSE at[p]
         /\ pc[p] \notin Upgrading => schema = stamp
         /\ pc[p] \in {"check2", "done"} => AtHead

SqlInv == TypeOK /\ ~transactionalDDL /\ crashes = 0 /\ \A p \in Procs : SqliteInv(p)

LEMMA SqlInvInit ==
  ASSUME DDLModes = {FALSE}
  PROVE  Init => SqlInv
  <1> SUFFICES ASSUME Init PROVE SqlInv
    OBVIOUS
  <1>1. TypeOK
    BY TypeInit
  <1>2. \A p \in Procs : SqliteInv(p)
    BY DEF Init, SqliteInv, Upgrading
  <1>3. QED
    BY <1>1, <1>2 DEF Init, SqlInv

\* With one process and no restart, each step keeps the SQLite invariant.
LEMMA SqlInvStep ==
  ASSUME NEW p0, Procs = {p0}, DDLModes = {FALSE}, MaxCrashes = 0
  PROVE  SqlInv /\ [Next]_vars => SqlInv'
  <1> SUFFICES ASSUME SqlInv, [Next]_vars PROVE SqlInv'
    OBVIOUS
  <1>0. /\ TypeOK /\ TypeOK' /\ ~transactionalDDL /\ crashes = 0
        /\ SqliteInv(p0)
        /\ Head \in Nat /\ faults \in Nat /\ stamp \in Revisions
        /\ at[p0] \in Revisions /\ ddlDone[p0] \in BOOLEAN
    <2>1. TypeOK'
      BY TypeStep DEF SqlInv
    <2>2. QED
      BY <2>1, MigrationAssumption DEF SqlInv, TypeOK, Revisions
  <1>a. ~transactionalDDL' /\ crashes' = 0
    BY <1>0 DEF TypeOK
  <1> SUFFICES SqliteInv(p0)'
    BY <1>0, <1>a DEF SqlInv
  <1>1. CASE Probe(p0)
    <2>1. pc'[p0] \notin Upgrading /\ pc'[p0] \notin {"check2", "done"}
      BY <1>0, <1>1 DEF Probe, Fault, Goto, Upgrading, TypeOK
    <2>2. UNCHANGED <<stamp, schema, faultsAtStart>> /\ faults' \in {faults, faults + 1}
      BY <1>1 DEF Probe, Fault, dbVars
    <2>3. faults' = 0 => faults = 0
      BY <2>2, <1>0
    <2>4. pc[p0] \notin Upgrading
      BY <1>1 DEF Probe, Upgrading
    <2>5. QED
      BY <1>0, <2>1, <2>2, <2>3, <2>4 DEF SqliteInv
  <1>2. CASE EnsureCheck(p0) \/ EnsureCreate(p0)
    <2>1. /\ pc[p0] \notin Upgrading
          /\ pc'[p0] \notin Upgrading /\ pc'[p0] \notin {"check2", "done"}
      BY <1>0, <1>2 DEF EnsureCheck, EnsureCreate, Fault, Goto, Upgrading, TypeOK
    <2>2. UNCHANGED <<stamp, schema, faultsAtStart>> /\ faults' \in {faults, faults + 1}
      BY <1>2 DEF EnsureCheck, EnsureCreate, Fault, dbVars
    <2>3. faults' = 0 => faults = 0
      BY <2>2, <1>0
    <2>4. QED
      BY <1>0, <2>1, <2>2, <2>3 DEF SqliteInv
  <1>4. CASE UpgradeBegin(p0)
    <2>1. /\ pc[p0] \notin Upgrading /\ pc'[p0] \in Upgrading
          /\ at'[p0] = stamp /\ ddlDone'[p0] = FALSE
      BY <1>0, <1>4 DEF UpgradeBegin, Goto, Upgrading, Running, TypeOK
    <2>2. UNCHANGED <<stamp, schema, faults, faultsAtStart>>
      BY <1>4 DEF UpgradeBegin, dbVars
    <2>3. pc'[p0] \notin {"check2", "done"}
      BY <2>1 DEF Upgrading
    <2>4. QED
      BY <1>0, <2>1, <2>2, <2>3 DEF SqliteInv
  <1>5. CASE UpgradeStep(p0)
    <2>1. pc[p0] \in Upgrading
      BY <1>5 DEF UpgradeStep, AfterUpgrade, Upgrading
    <2>2. UNCHANGED faultsAtStart
      BY <1>5 DEF UpgradeStep
    <2>3. CASE /\ ~ddlDone[p0] /\ schema = at[p0]
               /\ schema' = at[p0] + 1
               /\ ddlDone' = [ddlDone EXCEPT ![p0] = TRUE]
               /\ UNCHANGED <<stamp, at, pc, faults>>
      <3>1. ddlDone'[p0] = TRUE /\ pc'[p0] \in Upgrading
        BY <1>0, <2>1, <2>3 DEF TypeOK
      <3>2. pc'[p0] \notin {"check2", "done"}
        BY <3>1 DEF Upgrading
      <3>3. QED
        BY <1>0, <2>2, <2>3, <3>1, <3>2 DEF SqliteInv
    <2>4. CASE /\ ddlDone[p0] /\ stamp = at[p0]
               /\ stamp' = at[p0] + 1
               /\ at' = [at EXCEPT ![p0] = @ + 1]
               /\ ddlDone' = [ddlDone EXCEPT ![p0] = FALSE]
               /\ UNCHANGED <<schema, pc, faults>>
      <3>1. /\ ddlDone'[p0] = FALSE /\ at'[p0] = at[p0] + 1
            /\ pc'[p0] \in Upgrading
        BY <1>0, <2>1, <2>4 DEF TypeOK
      <3>2. pc'[p0] \notin {"check2", "done"}
        BY <3>1 DEF Upgrading
      <3>3. faults = 0 => schema = at[p0] + 1
        BY <1>0, <2>1, <2>4 DEF SqliteInv
      <3>4. QED
        BY <1>0, <2>2, <2>4, <3>1, <3>2, <3>3 DEF SqliteInv
    <2>5. CASE /\ \/ ~ddlDone[p0] /\ schema # at[p0] /\ UNCHANGED faults
                  \/ ddlDone[p0] /\ stamp # at[p0] /\ UNCHANGED faults
               /\ UNCHANGED <<stamp, schema, at, ddlDone>>
      <3>1. faults # 0
        BY <1>0, <2>1, <2>5 DEF SqliteInv
      <3>2. faults' # 0
        BY <2>5, <3>1
      <3>3. QED
        BY <1>0, <2>2, <3>2 DEF SqliteInv
    <2>6. CASE /\ Fault /\ UNCHANGED <<stamp, schema, at, ddlDone>>
      <3>1. faults' # 0
        BY <1>0, <2>6 DEF Fault
      <3>2. QED
        BY <1>0, <2>2, <3>1 DEF SqliteInv
    <2>7. QED
      BY <1>5, <2>3, <2>4, <2>5, <2>6 DEF UpgradeStep
  <1>6. CASE UpgradeFinish(p0)
    <2>1. /\ pc[p0] \in Upgrading /\ at[p0] = Head
          /\ pc'[p0] \in {"check1", "check2"}
          /\ UNCHANGED <<stamp, schema, at, ddlDone, faults, faultsAtStart>>
      BY <1>0, <1>6 DEF UpgradeFinish, Goto, Upgrading, AfterUpgrade, TypeOK, dbVars
    \* The tables cannot be a revision past head.
    <2>2. faults = 0 => ~ddlDone[p0]
      BY <1>0, <2>1 DEF SqliteInv, TypeOK, Revisions
    <2>3. faults = 0 => AtHead
      BY <1>0, <2>1, <2>2 DEF SqliteInv, AtHead
    <2>4. QED
      BY <1>0, <2>1, <2>3 DEF SqliteInv, Upgrading, AtHead
  <1>7. CASE UpgradeCommit(p0)
    BY <1>0, <1>7 DEF UpgradeCommit
  <1>8. CASE Check1(p0)
    <2>1. pc[p0] = "check1" /\ UNCHANGED <<stamp, schema, faultsAtStart>>
      BY <1>8 DEF Check1, dbVars
    <2>2. pc'[p0] \notin Upgrading
      BY <1>0, <1>8 DEF Check1, Goto, Upgrading, TypeOK
    <2>3. pc'[p0] \in {"check2", "done"} /\ faults' = 0 => AtHead
      BY <1>0, <1>8 DEF Check1, Fault, Goto, TypeOK
    <2>4. faults' = 0 => faults = 0
      BY <1>0, <1>8 DEF Check1, Fault
    <2>5. QED
      BY <1>0, <2>1, <2>2, <2>3, <2>4 DEF SqliteInv, Upgrading, AtHead
  <1>9. CASE Check2(p0)
    <2>1. pc[p0] = "check2" /\ UNCHANGED <<stamp, schema, faultsAtStart>>
      BY <1>9 DEF Check2, dbVars
    <2>2. pc'[p0] \in {"done", "failed"}
      BY <1>0, <1>9 DEF Check2, Goto, TypeOK
    <2>3. faults' = 0 => faults = 0
      BY <1>0, <1>9 DEF Check2, Fault
    <2>4. QED
      BY <1>0, <2>1, <2>2, <2>3 DEF SqliteInv, Upgrading, AtHead
  <1>10. CASE Restart(p0)
    BY <1>0, <1>10 DEF Restart
  <1>11. CASE UNCHANGED vars
    <2>1. UNCHANGED <<pc, at, ddlDone, stamp, schema, faults, faultsAtStart>>
      BY <1>11 DEF vars
    <2>2. QED
      BY <1>0, <2>1 DEF SqliteInv, AtHead
  <1>12. QED
    BY <1>1, <1>2, <1>4, <1>5, <1>6, <1>7, <1>8, <1>9, <1>10, <1>11
       DEF Next, Step

LEMMA SqlInvSafe ==
  ASSUME NEW p0, Procs = {p0}
  PROVE  SqlInv => FaultFreeStartMigrates
  BY DEF SqlInv, SqliteInv, FaultFreeStartMigrates

(***************************************************************************)
(* FaultFreeStartMigrates on SQLite, the default engine, for one process   *)
(* that is not restarted, for every head revision and error bound: when no *)
(* alembic call raised a transient error, run_migration returns only with  *)
(* the stamp and the tables at head, after its per-revision DDL and stamp  *)
(* commits (lines 110-131).  Without MaxCrashes = 0 the property fails:    *)
(* mig_sqlite_crash.                                                       *)
(***************************************************************************)
THEOREM SqliteStartMigrates ==
  ASSUME NEW p0, Procs = {p0}, DDLModes = {FALSE}, MaxCrashes = 0
  PROVE  Spec => []FaultFreeStartMigrates
  <1>1. Init => SqlInv
    BY SqlInvInit
  <1>2. SqlInv /\ [Next]_vars => SqlInv'
    BY SqlInvStep
  <1>3. SqlInv => FaultFreeStartMigrates
    BY SqlInvSafe
  <1>4. QED
    BY <1>1, <1>2, <1>3, PTL DEF Spec

=============================================================================
