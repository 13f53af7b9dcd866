---------------------------- MODULE SeedDBProofs ----------------------------
(***************************************************************************)
(* Proofs about SeedDB, the model of init_db_samples.                      *)
(*                                                                         *)
(*  - TypeCorrect: every behaviour of Spec keeps TypeOK, for any set of    *)
(*    processes and any bounds.  In particular a process that makes        *)
(*    dbmanager.link calls always holds objects whose ids were assigned by *)
(*    a commit.                                                            *)
(*  - SingleProcessSeedsOnce: with one application process, restarted any  *)
(*    number of times, no seed object is ever inserted twice.              *)
(***************************************************************************)
EXTENDS SeedDB, FiniteSetTheorems, TLAPS

\* The 14 link calls of lines 320-353.
LEMMA NumSeedLinksValue == NumSeedLinks = 14
  BY DEF NumSeedLinks, SeedLinks, L

(***************************************************************************)
(* TypeOK is not inductive by itself: a Link step increments linked[p],    *)
(* and it stays in range only because the process leaves "link" after its *)
(* last call.                                                              *)
(***************************************************************************)
LinkProgress == \A p \in Procs : pc[p] = "link" => linked[p] < NumSeedLinks

TypeInv == TypeOK /\ LinkProgress

LEMMA TypeInvInit == Init => TypeInv
  <1> SUFFICES ASSUME Init PROVE TypeInv
    OBVIOUS
  <1>1. TypeOK
    <2>1. MaxInserts \in Nat /\ MaxCrashes \in Nat /\ MaxDeletes \in Nat
      BY SeedAssumption
    <2>2. NumSeedLinks = 14
      BY NumSeedLinksValue
    <2>3. QED
      BY <2>1, <2>2 DEF Init, TypeOK, PcValues
  <1>2. LinkProgress
    BY DEF Init, LinkProgress
  <1>3. QED
    BY <1>1, <1>2 DEF TypeInv

LEMMA TypeInvStep == TypeInv /\ [Next]_vars => TypeInv'
  <1> SUFFICES ASSUME TypeInv, [Next]_vars PROVE TypeInv'
    OBVIOUS
  <1>0. /\ NumSeedLinks = 14
        /\ MaxInserts \in Nat \ {0}
        /\ MaxCrashes \in Nat
    BY NumSeedLinksValue, SeedAssumption
  <1>1. CASE \E p \in Procs : Read(p)
    BY <1>1, <1>0 DEF TypeInv, TypeOK, LinkProgress, Read, PcValues
  <1>2. CASE \E p \in Procs : Commit(p)
    <2>1. PICK p \in Procs : Commit(p)
      BY <1>2
    <2>2. nextBatch + 1 \in Batches
      BY <2>1, <1>0 DEF TypeInv, TypeOK, Commit, Batches
    <2>3. rows' \subseteq RowIds
      BY <2>1, <2>2 DEF TypeInv, TypeOK, Commit, RowIds
    <2>4. QED
      BY <2>1, <2>2, <2>3, <1>0 DEF TypeInv, TypeOK, LinkProgress, Commit,
                                    Batches, PcValues
  <1>3. CASE \E p \in Procs : Link(p)
    <2>1. PICK p \in Procs : Link(p)
      BY <1>3
    <2>2. /\ batch[p] \in Batches
          /\ linked[p] + 1 \in 1..NumSeedLinks
      BY <2>1, <1>0 DEF TypeInv, TypeOK, LinkProgress, Link
    <2>3. LinkRow(batch[p], linked[p] + 1) \in LinkRows
      BY <2>2 DEF LinkRows
    <2>4. links' \subseteq LinkRows
      BY <2>1, <2>3 DEF TypeInv, TypeOK, Link
    <2>5. QED
      BY <2>1, <2>2, <2>4, <1>0 DEF TypeInv, TypeOK, LinkProgress, Link,
                                    PcValues
  <1>4. CASE \E p \in Procs : Restart(p)
    BY <1>4, <1>0 DEF TypeInv, TypeOK, LinkProgress, Restart, PcValues
  <1>5. CASE UNCHANGED vars
    BY <1>5 DEF TypeInv, TypeOK, LinkProgress, vars
  <1>6. QED
    BY <1>1, <1>2, <1>3, <1>4, <1>5 DEF Next

(***************************************************************************)
(* Whatever the processes, bounds, crashes and interleavings, the model    *)
(* stays well typed, and a process making link calls (lines 320-353) holds *)
(* objects whose ids a commit (line 318) assigned.                         *)
(***************************************************************************)
THEOREM TypeCorrect == Spec => []TypeOK
  <1>1. Init => TypeInv
    BY TypeInvInit
  <1>2. TypeInv /\ [Next]_vars => TypeInv'
    BY TypeInvStep
  <1>3. TypeInv => TypeOK
    BY DEF TypeInv
  <1>4. QED
    BY <1>1, <1>2, <1>3, PTL DEF Spec

-----------------------------------------------------------------------------
(***************************************************************************)
(* One process.  The check of line 148 and the insert of line 318 are then *)
(* never separated by another insert, so the database holds either no seed *)
(* row or exactly the first batch, and a process about to commit has seen  *)
(* an empty database.  Restarts do not disturb this: a restarted process   *)
(* reads again and finds both workflows once the batch is committed.       *)
(***************************************************************************)
SeedOnceInv ==
    /\ nextBatch \in {0, 1}
    /\ rows = IF nextBatch = 0 THEN {} ELSE {1} \X SeedObjects
    /\ \A p \in Procs : pc[p] = "commit" => nextBatch = 0

\* Once the first batch is committed, the check of line 148 succeeds.
LEMMA FirstBatchSeeds ==
  ASSUME rows = {1} \X SeedObjects
  PROVE  AlreadySeeded
  <1>1. /\ <<1, "default_workflow">> \in {x \in rows : x[2] \in SeedWorkflows}
        /\ <<1, "travel_workflow">> \in {x \in rows : x[2] \in SeedWorkflows}
    BY DEF SeedObjects, SeedWorkflows
  <1>2. /\ WorkflowName["default_workflow"] = "Default Workflow"
        /\ WorkflowName["travel_workflow"] = "Travel Planning Workflow"
    BY DEF WorkflowName, SeedWorkflows
  <1>3. /\ WorkflowName[<<1, "default_workflow">>[2]] = "Default Workflow"
        /\ WorkflowName[<<1, "travel_workflow">>[2]] = "Travel Planning Workflow"
    BY <1>2
  <1>4. /\ "Default Workflow" \in WorkflowNames
        /\ "Travel Planning Workflow" \in WorkflowNames
    BY <1>1, <1>3, Zenon DEF WorkflowNames
  <1>5. QED
    BY <1>4 DEF AlreadySeeded

LEMMA SeedOnceInit == Init => SeedOnceInv
  BY DEF Init, SeedOnceInv

LEMMA SeedOnceStep ==
  ASSUME NEW p0, Procs = {p0}
  PROVE  TypeInv /\ SeedOnceInv /\ [Next]_vars => SeedOnceInv'
  <1> SUFFICES ASSUME TypeInv, SeedOnceInv, [Next]_vars PROVE SeedOnceInv'
    OBVIOUS
  <1>1. CASE Read(p0)
    <2>1. CASE AlreadySeeded
      BY <1>1, <2>1 DEF SeedOnceInv, Read
    <2>2. CASE ~AlreadySeeded
      <3>1. nextBatch = 0
        BY <2>2, FirstBatchSeeds DEF SeedOnceInv
      <3>2. QED
        BY <1>1, <2>2, <3>1 DEF SeedOnceInv, Read
    <2>3. QED
      BY <2>1, <2>2
  <1>2. CASE Commit(p0)
    <2>1. nextBatch = 0 /\ rows = {}
      BY <1>2 DEF SeedOnceInv, Commit
    <2>2. rows' = {1} \X SeedObjects /\ nextBatch' = 1
      BY <1>2, <2>1 DEF Commit
    <2>3. pc'[p0] = "link"
      BY <1>2 DEF Commit, TypeInv, TypeOK
    <2>4. QED
      BY <2>2, <2>3 DEF SeedOnceInv
  <1>3. CASE Link(p0)
    BY <1>3 DEF SeedOnceInv, Link
  <1>4. CASE Restart(p0)
    BY <1>4 DEF SeedOnceInv, Restart
  <1>5. CASE UNCHANGED vars
    BY <1>5 DEF SeedOnceInv, vars
  <1>6. QED
    BY <1>1, <1>2, <1>3, <1>4, <1>5 DEF Next

LEMMA SeedOnceSafe == SeedOnceInv => NoDuplicateSeed
  <1> SUFFICES ASSUME SeedOnceInv, NEW n \in SeedObjects
               PROVE  Cardinality(Copies(n)) <= 1
    BY DEF NoDuplicateSeed
  <1>1. Copies(n) \subseteq {<<1, n>>}
    BY DEF SeedOnceInv, Copies
  <1>2. IsFiniteSet({<<1, n>>}) /\ Cardinality({<<1, n>>}) = 1
    BY FS_Singleton
  <1>3. QED
    BY <1>1, <1>2, FS_Subset

(***************************************************************************)
(* With a single application process, restarted at any points, the sample *)
(* data of init_db_samples is inserted at most once: no seed object ever   *)
(* has two rows.  (With two processes seed_duplicate shows it can.)        *)
(***************************************************************************)
THEOREM SingleProcessSeedsOnce ==
  ASSUME NEW p0, Procs = {p0}
  PROVE  Spec => []NoDuplicateSeed
  <1>1. Init => TypeInv /\ SeedOnceInv
    BY TypeInvInit, SeedOnceInit
  <1>2. TypeInv /\ SeedOnceInv /\ [Next]_vars => TypeInv' /\ SeedOnceInv'
    BY TypeInvStep, SeedOnceStep
  <1>3. TypeInv /\ SeedOnceInv => NoDuplicateSeed
    BY SeedOnceSafe
  <1>4. QED
    BY <1>1, <1>2, <1>3, PTL DEF Spec

-----------------------------------------------------------------------------
(***************************************************************************)
(* Refinement.  With one process, a process making link calls holds the   *)
(* objects of the first (and only) batch, so each link it stores is one of *)
(* SeedAbstract's sample links.                                            *)
(***************************************************************************)
RefInv == \A p \in Procs : pc[p] = "link" => batch[p] = 1

LEMMA RefInvInit == Init => RefInv
  BY DEF Init, RefInv

LEMMA RefInvStep ==
  ASSUME NEW p0, Procs = {p0}
  PROVE  TypeInv /\ SeedOnceInv /\ RefInv /\ [Next]_vars => RefInv'
  <1> SUFFICES ASSUME TypeInv, SeedOnceInv, RefInv, [Next]_vars PROVE RefInv'
    OBVIOUS
  <1>1. CASE Read(p0)
    BY <1>1 DEF RefInv, Read, TypeInv, TypeOK
  <1>2. CASE Commit(p0)
    <2>1. nextBatch = 0
      BY <1>2 DEF SeedOnceInv, Commit
    <2>2. batch'[p0] = 1
      BY <1>2, <2>1 DEF Commit, TypeInv, TypeOK
    <2>3. QED
      BY <2>2 DEF RefInv
  <1>3. CASE Link(p0)
    BY <1>3 DEF RefInv, Link, TypeInv, TypeOK
  <1>4. CASE Restart(p0)
    BY <1>4 DEF RefInv, Restart, TypeInv, TypeOK
  <1>5. CASE UNCHANGED vars
    BY <1>5 DEF RefInv, vars
  <1>6. QED
    BY <1>1, <1>2, <1>3, <1>4, <1>5 DEF Next

\* SeedAbstract and SeedDB take the same sample data from SeedData.
LEMMA SameSeedData ==
  /\ Abs!SeedLinks = SeedLinks
  /\ Abs!SeedObjects = SeedObjects
  BY DEF SeedLinks, Abs!SeedLinks, L, Abs!L, SeedObjects, Abs!SeedObjects,
         SeedModels, Abs!SeedModels, SeedSkills, Abs!SeedSkills,
         SeedAgents, Abs!SeedAgents, SeedWorkflows, Abs!SeedWorkflows

\* The link row of call i for the first batch is SeedAbstract's link i.
LEMMA FirstBatchLinkRow ==
  ASSUME NEW i
  PROVE  LinkRow(1, i) = Abs!SeedLinkRow(i)
  BY SameSeedData DEF LinkRow, Abs!SeedLinkRow

LEMMA RefStep ==
  ASSUME NEW p0, Procs = {p0}
  PROVE  TypeInv /\ SeedOnceInv /\ RefInv /\ [Next]_vars
           => [Abs!Next]_Abs!absVars
  <1> SUFFICES ASSUME TypeInv, SeedOnceInv, RefInv, [Next]_vars
               PROVE  [Abs!Next]_Abs!absVars
    OBVIOUS
  <1>1. CASE Read(p0)
    BY <1>1 DEF Read, Abs!absVars
  <1>2. CASE Commit(p0)
    <2>1. rows = {}
      BY <1>2 DEF SeedOnceInv, Commit
    <2>2. nextBatch = 0
      BY <1>2 DEF SeedOnceInv, Commit
    <2>3. rows' = Abs!Batch /\ links' = links
      BY <1>2, <2>1, <2>2, SameSeedData DEF Commit, Abs!Batch
    <2>4. Abs!Insert
      BY <2>1, <2>3 DEF Abs!Insert
    <2>5. QED
      BY <2>4 DEF Abs!Next
  <1>3. CASE Link(p0)
    <2> DEFINE i == linked[p0] + 1
               lr == LinkRow(batch[p0], i)
    <2>1. batch[p0] = 1 /\ i \in 1..Len(SeedLinks)
      BY <1>3, SameSeedData DEF Link, RefInv, TypeInv, TypeOK, LinkProgress,
                                NumSeedLinks
    <2>2. lr = Abs!SeedLinkRow(i)
      BY <2>1, FirstBatchLinkRow
    <2>3. CASE {lr.primary, lr.secondary} \subseteq rows
      <3>1. links' = links \cup {Abs!SeedLinkRow(i)} /\ rows' = rows
        BY <1>3, <2>2, <2>3 DEF Link
      <3>2. Abs!AddLink(i)
        BY <2>2, <2>3, <3>1 DEF Abs!AddLink
      <3>3. QED
        BY <2>1, <3>2, SameSeedData DEF Abs!Next
    <2>4. CASE ~({lr.primary, lr.secondary} \subseteq rows)
      BY <1>3, <2>4 DEF Link, Abs!absVars
    <2>5. QED
      BY <2>3, <2>4
  <1>4. CASE Restart(p0)
    BY <1>4 DEF Restart, Abs!absVars
  <1>5. CASE UNCHANGED vars
    BY <1>5 DEF vars, Abs!absVars
  <1>6. QED
    BY <1>1, <1>2, <1>3, <1>4, <1>5 DEF Next

(***************************************************************************)
(* With a single application process, restarted at any points, SeedDB     *)
(* implements the safety part of SeedAbstract: the rows and links that     *)
(* init_db_samples leaves change only by one whole-batch insert into an    *)
(* empty database and by single sample links between existing rows.       *)
(***************************************************************************)
THEOREM SingleProcessRefinesAbstract ==
  ASSUME NEW p0, Procs = {p0}
  PROVE  Spec => Abs!SafeSpec
  <1>1. Init => TypeInv /\ SeedOnceInv /\ RefInv
    BY TypeInvInit, SeedOnceInit, RefInvInit
  <1>2. TypeInv /\ SeedOnceInv /\ RefInv /\ [Next]_vars
          => TypeInv' /\ SeedOnceInv' /\ RefInv'
    BY TypeInvStep, SeedOnceStep, RefInvStep
  <1>3. Init => Abs!Init
    BY DEF Init, Abs!Init
  <1>4. TypeInv /\ SeedOnceInv /\ RefInv /\ [Next]_vars => [Abs!Next]_Abs!absVars
    BY RefStep
  <1>5. QED
    BY <1>1, <1>2, <1>3, <1>4, PTL DEF Spec, Abs!SafeSpec

=============================================================================
