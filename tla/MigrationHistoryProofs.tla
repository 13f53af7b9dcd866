----------------------- MODULE MigrationHistoryProofs -----------------------
(***************************************************************************)
(* Proofs that Migration, the model of run_migration, implements          *)
(* SchemaHistory under the mapping of Migration!History, for any           *)
(* processes, head revision, engines, crashes and transient errors         *)
(* (MigrationRefinesHistory).                                              *)
(*                                                                         *)
(* Each process keeps in at[p] the revision its upgrade read once, at its  *)
(* start, and commits against it later; the mapping hides at, ddlDone and  *)
(* pc.  The steps of one process map to SchemaHistory's only because of    *)
(* what HistInv says of every process: its revision is never ahead of the  *)
(* row, a pending stamp commit is one whose DDL is the last one applied,   *)
(* and a process past ensure_version has the version table.                *)
(***************************************************************************)
EXTENDS MigrationProofs

\* The pcs at which the process has seen, or itself created, alembic_version.
PastEnsure == {"init_upgrade", "init_upgrading", "check1", "upgrade", "upgrading"}

\* What each process's revision and pending commit say of the database.
ProcHist(p) ==
    /\ at[p] <= stamp
    /\ sawTable[p] => versionTable = "present"
    /\ pc[p] \in PastEnsure => versionTable = "present"
    /\ ddlDone[p] => at[p] < Head /\ (stamp = at[p] => schema = at[p] + 1)

\* The row never ahead of the tables, the tables at most one revision ahead.
RowGap == stamp <= schema /\ schema <= stamp + 1

HistInv == TypeOK /\ RowGap /\ \A p \in Procs : ProcHist(p)

LEMMA HistInvInit == Init => HistInv
  <1> SUFFICES ASSUME Init PROVE HistInv
    OBVIOUS
  <1>1. PICK db \in StartDBs : /\ versionTable = db.vt
                               /\ stamp = db.rev /\ schema = db.rev
    BY DEF Init
  <1>2. stamp \in Nat
    BY <1>1, MigrationAssumption DEF StartDBs, Revisions
  <1>3. QED
    BY <1>1, <1>2, TypeInit DEF Init, HistInv, RowGap, ProcHist, PastEnsure

LEMMA HistInvStep == HistInv /\ [Next]_vars => HistInv'
  <1> SUFFICES ASSUME HistInv, [Next]_vars PROVE HistInv'
    OBVIOUS
  <1>0. /\ TypeOK /\ TypeOK' /\ Head \in Nat
        /\ stamp \in Nat /\ schema \in Nat /\ at \in [Procs -> Nat]
    BY TypeStep, MigrationAssumption DEF HistInv, TypeOK, Revisions
  <1>1. CASE \E p \in Procs : Probe(p)
    BY <1>1, <1>0 DEF HistInv, RowGap, ProcHist, Probe, Fault, Goto, dbVars,
                      TypeOK, PastEnsure
  <1>2. CASE \E p \in Procs : EnsureCheck(p)
    BY <1>2, <1>0 DEF HistInv, RowGap, ProcHist, EnsureCheck, Goto, dbVars,
                      TypeOK, PastEnsure
  <1>3. CASE \E p \in Procs : EnsureCreate(p)
    BY <1>3, <1>0 DEF HistInv, RowGap, ProcHist, EnsureCreate, Goto, TypeOK,
                      PastEnsure
  <1>4. CASE \E p \in Procs : UpgradeBegin(p)
    BY <1>4, <1>0 DEF HistInv, RowGap, ProcHist, UpgradeBegin, Goto, dbVars,
                      TypeOK, PastEnsure, Running
  <1>5. CASE \E p \in Procs : UpgradeStep(p)
    <2>1. PICK p \in Procs : UpgradeStep(p)
      BY <1>5
    <2>2. \A q \in Procs : pc'[q] \in PastEnsure => pc[q] \in PastEnsure
      BY <2>1, <1>0 DEF UpgradeStep, Goto, TypeOK, PastEnsure,
                        AfterUpgrade, AfterUpgradeError
    <2>3. UNCHANGED <<versionTable, sawTable>>
      BY <2>1 DEF UpgradeStep
    <2>4. CASE /\ ~ddlDone[p] /\ schema = at[p]
               /\ schema' = at[p] + 1
               /\ ddlDone' = [ddlDone EXCEPT ![p] = TRUE]
               /\ UNCHANGED <<stamp, at, pc, faults>>
      <3>1. stamp = at[p] /\ schema = at[p]
        BY <2>4, <1>0 DEF HistInv, RowGap, ProcHist
      <3>2. RowGap'
        BY <2>4, <3>1, <1>0 DEF RowGap
      <3>3. ASSUME NEW q \in Procs PROVE ProcHist(q)'
        <4>1. CASE q = p
          BY <4>1, <2>1, <2>2, <2>3, <2>4, <3>1, <1>0
             DEF HistInv, ProcHist, UpgradeStep, TypeOK
        <4>2. CASE q # p
          BY <4>2, <2>2, <2>3, <2>4, <3>1, <1>0 DEF HistInv, ProcHist, TypeOK
        <4>3. QED
          BY <4>1, <4>2
      <3>4. QED
        BY <3>2, <3>3, <1>0 DEF HistInv
    <2>5. CASE /\ ddlDone[p] /\ stamp = at[p]
               /\ stamp' = at[p] + 1
               /\ at' = [at EXCEPT ![p] = @ + 1]
               /\ ddlDone' = [ddlDone EXCEPT ![p] = FALSE]
               /\ UNCHANGED <<schema, pc, faults>>
      <3>1. schema = at[p] + 1
        BY <2>5, <1>0 DEF HistInv, ProcHist
      <3>2. RowGap'
        BY <2>5, <3>1, <1>0 DEF RowGap
      <3>3. ASSUME NEW q \in Procs PROVE ProcHist(q)'
        <4>1. CASE q = p
          BY <4>1, <2>2, <2>3, <2>5, <3>1, <1>0 DEF HistInv, ProcHist, TypeOK
        <4>2. CASE q # p
          BY <4>2, <2>2, <2>3, <2>5, <3>1, <1>0 DEF HistInv, ProcHist, TypeOK
        <4>3. QED
          BY <4>1, <4>2
      <3>4. QED
        BY <3>2, <3>3, <1>0 DEF HistInv
    <2>6. CASE UNCHANGED <<stamp, schema, at, ddlDone>>
      BY <2>6, <2>2, <2>3, <1>0 DEF HistInv, RowGap, ProcHist
    <2>7. QED
      BY <2>1, <2>4, <2>5, <2>6 DEF UpgradeStep
  <1>6. CASE \E p \in Procs : UpgradeFinish(p)
    BY <1>6, <1>0 DEF HistInv, RowGap, ProcHist, UpgradeFinish, Goto, dbVars,
                      TypeOK, PastEnsure, AfterUpgrade
  <1>7. CASE \E p \in Procs : UpgradeCommit(p)
    <2>1. PICK p \in Procs : UpgradeCommit(p)
      BY <1>7
    <2>2. \A q \in Procs : pc'[q] \in PastEnsure => pc[q] \in PastEnsure
      BY <2>1, <1>0 DEF UpgradeCommit, Goto, TypeOK, PastEnsure,
                        AfterUpgrade, AfterUpgradeError
    <2>3. UNCHANGED <<versionTable, sawTable, at, ddlDone>>
      BY <2>1 DEF UpgradeCommit
    <2>4. CASE stamp' = Head /\ schema' = Head
      <3>1. RowGap'
        BY <2>4, <1>0 DEF RowGap
      <3>2. ASSUME NEW q \in Procs PROVE ProcHist(q)'
        <4>1. at[q] <= Head
          BY <1>0 DEF TypeOK, Revisions
        <4>2. QED
          BY <4>1, <2>2, <2>3, <2>4, <1>0 DEF HistInv, ProcHist
      <3>3. QED
        BY <3>1, <3>2, <1>0 DEF HistInv
    <2>5. CASE UNCHANGED <<stamp, schema>>
      BY <2>5, <2>2, <2>3, <1>0 DEF HistInv, RowGap, ProcHist
    <2>6. QED
      BY <2>1, <2>4, <2>5 DEF UpgradeCommit
  <1>8. CASE \E p \in Procs : Check1(p)
    BY <1>8, <1>0 DEF HistInv, RowGap, ProcHist, Check1, Fault, Goto, dbVars,
                      TypeOK, PastEnsure
  <1>9. CASE \E p \in Procs : Check2(p)
    BY <1>9, <1>0 DEF HistInv, RowGap, ProcHist, Check2, Fault, Goto, dbVars,
                      TypeOK, PastEnsure
  <1>10. CASE \E p \in Procs : Restart(p)
    BY <1>10, <1>0 DEF HistInv, RowGap, ProcHist, Restart, Goto, dbVars,
                       TypeOK, PastEnsure
  <1>11. CASE UNCHANGED vars
    BY <1>11, <1>0 DEF HistInv, RowGap, ProcHist, vars, TypeOK
  <1>12. QED
    BY <1>1, <1>2, <1>3, <1>4, <1>5, <1>6, <1>7, <1>8, <1>9, <1>10, <1>11
       DEF Next, Step


\* The initial databases are SchemaHistory's.
LEMMA HistoryInit == Init => History!Init
  <1> SUFFICES ASSUME Init PROVE History!Init
    OBVIOUS
  <1>1. PICK db \in StartDBs : /\ versionTable = db.vt
                               /\ stamp = db.rev /\ schema = db.rev
    BY DEF Init
  <1>2. /\ stamp \in 0..Head /\ schema = stamp
        /\ versionTable # "present" => stamp = 0
    <2>1. CASE db = [vt |-> "absent", rev |-> 0]
      BY <1>1, <2>1, MigrationAssumption
    <2>2. CASE \E r \in Revisions : db = [vt |-> "present", rev |-> r]
      BY <1>1, <2>2 DEF Revisions
    <2>3. QED
      BY <2>1, <2>2 DEF StartDBs
  <1>3. QED
    BY <1>2 DEF History!Init

\* A step that changes no database variable is a stutter of SchemaHistory.
LEMMA DbStutter ==
  UNCHANGED dbVars => UNCHANGED History!histVars
  BY DEF dbVars, History!histVars

(***************************************************************************)
(* Every step of a process is a step of SchemaHistory or leaves the        *)
(* version table, the row and the tables as they are.                      *)
(***************************************************************************)
LEMMA HistoryStep ==
  HistInv /\ [Next]_vars => [History!Next]_History!histVars
  <1> SUFFICES ASSUME HistInv, [Next]_vars
               PROVE  [History!Next]_History!histVars
    OBVIOUS
  <1>0. /\ TypeOK /\ Head \in Nat
        /\ stamp \in Nat /\ schema \in Nat /\ at \in [Procs -> Nat]
    BY MigrationAssumption DEF HistInv, TypeOK, Revisions
  <1>1. CASE \E p \in Procs : \/ Probe(p) \/ EnsureCheck(p) \/ UpgradeBegin(p)
                              \/ UpgradeFinish(p) \/ Check1(p) \/ Check2(p)
                              \/ Restart(p)
    <2>1. UNCHANGED dbVars
      BY <1>1 DEF Probe, EnsureCheck, UpgradeBegin, UpgradeFinish, Check1,
                  Check2, Restart
    <2>2. QED
      BY <2>1, DbStutter
  <1>2. CASE \E p \in Procs : EnsureCreate(p)
    BY <1>2 DEF EnsureCreate, History!Next, History!CreateVersionTable,
                History!histVars
  <1>3. CASE \E p \in Procs : UpgradeStep(p)
    <2>1. PICK p \in Procs : UpgradeStep(p)
      BY <1>3
    <2>2. /\ versionTable = "present" /\ at[p] < Head
          /\ stamp <= schema /\ schema <= stamp + 1 /\ at[p] <= stamp
          /\ ddlDone[p] /\ stamp = at[p] => schema = at[p] + 1
      BY <2>1 DEF HistInv, RowGap, ProcHist, UpgradeStep, AfterUpgrade,
                  PastEnsure
    <2>3. UNCHANGED versionTable
      BY <2>1 DEF UpgradeStep
    <2>4. CASE ~ddlDone[p] /\ schema = at[p] /\ schema' = at[p] + 1
               /\ UNCHANGED stamp
      <3>1. History!ApplyNext
        BY <2>2, <2>3, <2>4, <1>0 DEF History!ApplyNext
      <3>2. QED
        BY <3>1 DEF History!Next
    <2>5. CASE ddlDone[p] /\ stamp = at[p] /\ stamp' = at[p] + 1
               /\ UNCHANGED schema
      <3>1. History!RecordApplied
        BY <2>2, <2>3, <2>5, <1>0 DEF History!RecordApplied
      <3>2. QED
        BY <3>1 DEF History!Next
    <2>6. CASE UNCHANGED <<stamp, schema>>
      BY <2>3, <2>6 DEF History!histVars
    <2>7. QED
      BY <2>1, <2>4, <2>5, <2>6 DEF UpgradeStep
  <1>4. CASE \E p \in Procs : UpgradeCommit(p)
    <2>1. PICK p \in Procs : UpgradeCommit(p)
      BY <1>4
    <2>2. versionTable = "present"
      BY <2>1 DEF HistInv, ProcHist, UpgradeCommit, AfterUpgrade, PastEnsure
    <2>3. UNCHANGED versionTable
      BY <2>1 DEF UpgradeCommit
    <2>4. CASE stamp = at[p] /\ schema = at[p] /\ stamp' = Head /\ schema' = Head
      <3>1. History!UpgradeToHead
        BY <2>2, <2>3, <2>4 DEF History!UpgradeToHead
      <3>2. QED
        BY <3>1 DEF History!Next
    <2>5. CASE UNCHANGED <<stamp, schema>>
      BY <2>3, <2>5 DEF History!histVars
    <2>6. QED
      BY <2>1, <2>4, <2>5 DEF UpgradeCommit
  <1>5. CASE UNCHANGED vars
    BY <1>5 DEF vars, History!histVars
  <1>6. QED
    BY <1>1, <1>2, <1>3, <1>4, <1>5 DEF Next, Step

(***************************************************************************)
(* run_migration, run by any number of processes on either engine, with   *)
(* crashes and transient errors anywhere, changes the database only as     *)
(* SchemaHistory allows: a revision's DDL is applied to the tables of the  *)
(* recorded revision, and the version row is moved only to the revision    *)
(* just applied or, on a transactional engine, to head with the tables.    *)
(***************************************************************************)
THEOREM MigrationRefinesHistory == Spec => SchemaFollowsHistory
  <1>1. Init => HistInv /\ History!Init
    BY HistInvInit, HistoryInit
  <1>2. HistInv /\ [Next]_vars => HistInv'
    BY HistInvStep
  <1>3. HistInv /\ [Next]_vars => [History!Next]_History!histVars
    BY HistoryStep
  <1>4. QED
    BY <1>1, <1>2, <1>3, PTL DEF Spec, SchemaFollowsHistory, History!Spec

=============================================================================
