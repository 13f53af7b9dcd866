------------------------------- MODULE SeedDB -------------------------------
(***************************************************************************)
(* init_db_samples (database/utils.py, lines 145-354): the start-up step   *)
(* that seeds the sample models, skills, agents and workflows of a fresh   *)
(* database and links them.                                                *)
(*                                                                         *)
(* Each member of Procs is an application process that runs the start-up   *)
(* sequence once per (re)start.  A run of init_db_samples is                *)
(*   Read    lines 146-151  read the workflow names, return early when    *)
(*                           both sample workflows are present;            *)
(*   Commit  lines 154-318  build the 14 sample rows and add them in one   *)
(*                           session, committed atomically;                *)
(*   Link    lines 320-353  the 14 dbmanager.link calls, each its own      *)
(*                           transaction, their results never inspected.   *)
(* A process may crash and be restarted at any point (Restart), and a user *)
(* may delete a workflow through the API between two starts (Delete).      *)
(*                                                                         *)
(* A row is identified by <<b, n>>: the b-th committed seed batch and the  *)
(* seed object n of the code (its Python variable name).  Batch 0 stands  *)
(* for an object whose id is still None.                                   *)
(***************************************************************************)
EXTENDS Naturals, FiniteSets, Sequences, SeedData

CONSTANTS
    Procs,         \* the application processes that run the start-up code
    MaxInserts,    \* bound on the number of seed batches ever committed
    MaxCrashes,    \* bound on the number of crash/restarts
    MaxDeletes     \* bound on the number of workflows deleted by users

ASSUME SeedAssumption ==
    /\ IsFiniteSet(Procs) /\ Procs # {}
    /\ MaxInserts \in Nat \ {0}
    /\ MaxCrashes \in Nat
    /\ MaxDeletes \in Nat

VARIABLES
    rows,          \* committed rows, a set of <<batch, seed object>>
    links,         \* committed link rows
    pc,            \* pc[p]: where process p is in init_db_samples
    batch,         \* batch[p]: the batch whose ids p's objects carry (0 = None)
    linked,        \* linked[p]: number of dbmanager.link calls p has made
    nextBatch,     \* number of seed batches committed so far
    crashes,       \* number of Restart steps taken
    deletes        \* number of Delete steps taken

vars == <<rows, links, pc, batch, linked, nextBatch, crashes, deletes>>

\* The link row that call i makes for objects carrying the ids of batch b.
LinkRow(b, i) == [SeedLinks[i] EXCEPT !.primary   = <<b, @>>,
                                      !.secondary = <<b, @>>]

Batches     == 1..MaxInserts
RowIds      == Batches \X SeedObjects
LinkRows    == {LinkRow(b, i) : b \in Batches, i \in 1..NumSeedLinks}
PcValues    == {"read", "commit", "link", "done"}

\* The names of the workflows in the database (lines 146-147).
WorkflowNames == {WorkflowName[r[2]] : r \in {x \in rows : x[2] \in SeedWorkflows}}

\* The early-return condition of line 148.
AlreadySeeded == /\ "Default Workflow" \in WorkflowNames
                 /\ "Travel Planning Workflow" \in WorkflowNames

TypeOK ==
    /\ rows \subseteq RowIds
    /\ links \subseteq LinkRows
    /\ pc \in [Procs -> PcValues]
    /\ batch \in [Procs -> 0..MaxInserts]
    /\ linked \in [Procs -> 0..NumSeedLinks]
    /\ nextBatch \in 0..MaxInserts
    /\ crashes \in 0..MaxCrashes
    /\ deletes \in 0..MaxDeletes
    \* a process making link calls holds objects with committed ids
    /\ \A p \in Procs : pc[p] = "link" => batch[p] \in Batches

Init ==
    /\ rows = {}
    /\ links = {}
    /\ pc = [p \in Procs |-> "read"]
    /\ batch = [p \in Procs |-> 0]
    /\ linked = [p \in Procs |-> 0]
    /\ nextBatch = 0
    /\ crashes = 0
    /\ deletes = 0

(***************************************************************************)
(* Lines 146-151: dbmanager.get(Workflow); return when both sample         *)
(* workflows are present, otherwise go on to seed.                         *)
(***************************************************************************)
\* Mutant: the early return of line 150 dropped.
ReadNoEarlyReturn(p) ==
    /\ pc[p] = "read"
    /\ pc' = [pc EXCEPT ![p] = "commit"]
    /\ UNCHANGED <<rows, links, batch, linked, nextBatch, crashes, deletes>>

\* Mutant: the test of line 148 inverted (return when the samples are missing).
ReadInverted(p) ==
    /\ pc[p] = "read"
    /\ pc' = [pc EXCEPT ![p] = IF AlreadySeeded THEN "commit" ELSE "done"]
    /\ UNCHANGED <<rows, links, batch, linked, nextBatch, crashes, deletes>>

Read(p) ==
    /\ pc[p] = "read"
    /\ pc' = [pc EXCEPT ![p] = IF AlreadySeeded THEN "done" ELSE "commit"]
    /\ UNCHANGED <<rows, links, batch, linked, nextBatch, crashes, deletes>>

(***************************************************************************)
(* Lines 154-318: the 14 objects are created in memory and added to one    *)
(* session; session.commit() inserts them atomically and assigns their ids *)
(* (a fresh batch).  Nothing is checked against the rows already present.  *)
(***************************************************************************)
\* Mutant: the ids are read from the objects before the commit assigns them
\* (they are still None).
CommitIdsBeforeCommit(p) ==
    /\ pc[p] = "commit"
    /\ nextBatch < MaxInserts
    /\ nextBatch' = nextBatch + 1
    /\ rows' = rows \cup ({nextBatch + 1} \X SeedObjects)
    /\ linked' = [linked EXCEPT ![p] = 0]
    /\ pc' = [pc EXCEPT ![p] = "link"]
    /\ UNCHANGED <<links, batch, crashes, deletes>>

Commit(p) ==
    /\ pc[p] = "commit"
    /\ nextBatch < MaxInserts
    /\ nextBatch' = nextBatch + 1
    /\ rows' = rows \cup ({nextBatch + 1} \X SeedObjects)
    /\ batch' = [batch EXCEPT ![p] = nextBatch + 1]
    /\ linked' = [linked EXCEPT ![p] = 0]
    /\ pc' = [pc EXCEPT ![p] = "link"]
    /\ UNCHANGED <<links, crashes, deletes>>

(***************************************************************************)
(* Lines 320-353: call number linked[p]+1 to dbmanager.link.  The link is *)
(* stored when both rows it names exist; otherwise dbmanager.link reports  *)
(* failure in its response, which init_db_samples ignores.  After the last *)
(* call init_db_samples returns.                                           *)
(***************************************************************************)
Link(p) ==
    /\ pc[p] = "link"
    /\ LET lr == LinkRow(batch[p], linked[p] + 1)
       IN  links' = IF {lr.primary, lr.secondary} \subseteq rows
                       THEN links \cup {lr} ELSE links
    /\ linked' = [linked EXCEPT ![p] = @ + 1]
    /\ pc' = [pc EXCEPT ![p] = IF linked[p] + 1 = NumSeedLinks THEN "done" ELSE "link"]
    /\ UNCHANGED <<rows, batch, nextBatch, crashes, deletes>>

(***************************************************************************)
(* The process dies (or is stopped) at any point and the application is    *)
(* started again: the in-memory objects are lost and init_db_samples runs  *)
(* from the start.  Committed rows and links stay.                         *)
(***************************************************************************)
Restart(p) ==
    /\ pc[p] # "read"
    /\ crashes < MaxCrashes
    /\ crashes' = crashes + 1
    /\ pc' = [pc EXCEPT ![p] = "read"]
    /\ batch' = [batch EXCEPT ![p] = 0]
    /\ linked' = [linked EXCEPT ![p] = 0]
    /\ UNCHANGED <<rows, links, nextBatch, deletes>>

(***************************************************************************)
(* A user deletes a workflow through the web API; its workflow_agent links *)
(* go with it.                                                             *)
(***************************************************************************)
Delete(r) ==
    /\ deletes < MaxDeletes
    /\ deletes' = deletes + 1
    /\ rows' = rows \ {r}
    /\ links' = {l \in links : r \notin {l.primary, l.secondary}}
    /\ UNCHANGED <<pc, batch, linked, nextBatch, crashes>>

Next ==
    \E p \in Procs : Read(p) \/ Commit(p) \/ Link(p) \/ Restart(p)

\* The start-up steps together with users deleting sample workflows.
NextEdits ==
    \/ Next
    \/ \E r \in rows : r[2] \in SeedWorkflows /\ Delete(r)

(***************************************************************************)
(* A live process runs init_db_samples straight through: there is no wait *)
(* in it, so each of its steps is weakly fair.  Restart and Delete are     *)
(* environment events and are not.                                        *)
(***************************************************************************)
Fairness == \A p \in Procs : /\ WF_vars(Read(p))
                             /\ WF_vars(Commit(p))
                             /\ WF_vars(Link(p))

Spec == Init /\ [][Next]_vars /\ Fairness

SpecEdits == Init /\ [][NextEdits]_vars /\ Fairness

-----------------------------------------------------------------------------
(***************************************************************************)
(* Properties                                                              *)
(***************************************************************************)

\* The seed objects n present in the database, with multiplicity by batch.
Copies(n) == {r \in rows : r[2] = n}

(***************************************************************************)
(* Sample data is seeded at most once: the database never holds two rows   *)
(* of the same seed object, e.g. two "Default Workflow" workflows or two   *)
(* gpt-4 models.  It is about the check-then-insert of lines 146-150 and   *)
(* 302-318, which a second process, a restart or a user edit can defeat.   *)
(***************************************************************************)
NoDuplicateSeed == \A n \in SeedObjects : Cardinality(Copies(n)) <= 1

(***************************************************************************)
(* Once every process has returned from init_db_samples, every committed   *)
(* seed batch carries all 14 of its links: the workflows have their        *)
(* sender and receiver agents, the group chat its members.  It is about    *)
(* lines 318-353: the rows are committed before the links are made, one    *)
(* call at a time and with their results ignored.                          *)
(***************************************************************************)
SeededWorkflowsLinked ==
    (\A p \in Procs : pc[p] = "done") =>
        \A b \in {r[1] : r \in rows} :
            \A i \in 1..NumSeedLinks : LinkRow(b, i) \in links

(***************************************************************************)
(* The start-up seeding eventually leaves both sample workflows in the     *)
(* database for good, whatever crashes happen on the way.  It is about     *)
(* init_db_samples being re-run from the start after each restart.         *)
(***************************************************************************)
EventuallySeeded == <>[]AlreadySeeded

(***************************************************************************)
(* Refinement: with the processes' positions, their in-memory batches and *)
(* the counters hidden, the rows and links of SeedDB behave as SeedAbstract *)
(* says: one whole-batch insert into an empty database, then single sample *)
(* links between existing rows, and the insert eventually happens.  It is  *)
(* about the whole of init_db_samples under restarts: the check of line    *)
(* 148, the commit of line 318 and the link calls of lines 320-353.        *)
(***************************************************************************)
Abs == INSTANCE SeedAbstract

AbstractSeeding == Abs!Spec

=============================================================================
