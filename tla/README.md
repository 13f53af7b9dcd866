# Verification of `autogenstudio/database/utils.py`

This project holds TLA+ models, TLC runs and TLAPS proofs for
`src/samples/apps/autogen-studio/autogenstudio/database/utils.py`. That file is
the database start-up and data-access helper of AutoGen Studio.

## 1. The system

| Component | Code | Operations |
|---|---|---|
| **run_migration** (schema) | lines 88-142 | probe `alembic_version` (101-108); if the probe fails, `ensure_version` and `upgrade head`, raising `RuntimeError` on failure (110-118); `check`, and on `CommandError`/`AutogenerateDiffsDetected` `upgrade head` with any error only logged (122-131); `check` again, logging those two errors (133-142) |
| **init_db_samples** (seeding) | lines 145-354 | read the workflow names and return early (146-151); build 14 sample objects (154-300); add them to one session and commit (302-318); 14 `dbmanager.link` calls, each a separate transaction, results ignored (320-353) |
| **workflow_from_id** (reconstruction) | lines 31-85 | fetch the workflow or raise `ValueError` (32-35); fetch its links (36); for each link a recursive `get_agent` in a new session (51-74), which attaches `config_list` only when `llm_config` is truthy (67-72); sort by `sequence_id` for sequential workflows (81-83) |
| DBManager, ORM models, alembic scripts, web API | not in `src/` | `get`, `link`, `delete`; the migration scripts |

Each application process calls `run_migration` and then `init_db_samples` on
start-up. Separate worker processes are not serialised. API requests later call
`workflow_from_id` on whatever rows seeding and users have left. The
components share only the database. There are no callbacks or messages.

## 2. Modules

| Module | Models | Role |
|---|---|---|
| `SeedData` | the sample objects and the 14 links of lines 153-353 | data shared by the seeding modules |
| `SeedDB` | `init_db_samples` | detailed spec |
| `SeedAbstract` | what seeding promises | abstract spec |
| `SeedDBProofs` | | TLAPS proofs about SeedDB |
| `Migration` | `run_migration` | spec |
| `SchemaHistory` | what run_migration promises the database | abstract spec |
| `MigrationProofs` | | TLAPS proofs about Migration |
| `MigrationHistoryProofs` | | TLAPS proof that Migration refines SchemaHistory |
| `WorkflowFromId` | `workflow_from_id` under concurrent user edits | spec |
| `WorkflowFromIdProofs` | | TLAPS proofs about WorkflowFromId |
| `MCSeedDB`, `MCMigration`, `MCWorkflowFromId` | | TLC instances |

`PROJECT.json` maps every definition to the lines it translates.

### SeedDB and SeedAbstract: init_db_samples

*State.* `rows` is the set of committed rows. A row `<<b, n>>` is seed object
`n` of the b-th committed batch. `links` holds the committed link rows. Each
process has a position `pc[p]`, the batch of its in-memory objects
(`batch[p]`, 0 while the ids are `None`) and the number of link calls made
(`linked[p]`).

*Actions.*

* `Read` is lines 146-151; `AlreadySeeded` is the test on line 148.
* `Commit` is lines 302-318.
* `Link` is one call of lines 320-353, in code order. dbmanager stores it only
  when both rows exist; the result is ignored.
* `Restart` is a crash and restart at any point; committed data stays.
* `Delete` is a user deleting a workflow. It is modelled from the spec and
  appears only in `SpecEdits`.

Names, descriptions and configs are left out, because no property reads them.

*Abstract spec.* In `SeedAbstract` the 14 rows appear in one step, into an
empty database. Sample links are then added one at a time, each only between
rows that exist. SeedDB implements it through `Abs == INSTANCE SeedAbstract`.
The refinement mapping is the identity on `rows` and `links`; the positions,
batches and counters are hidden. The run checks this as the property
`AbstractSeeding`.

*Fairness.* `Read`, `Commit` and `Link` are weakly fair for each process.
`init_db_samples` has no waits, so a live process keeps taking steps. Crashes
and deletes are not fair.

### Migration: run_migration

*State.*

* `versionTable`: whether `alembic_version` exists.
* `stamp`: the revision it records.
* `schema`: the revision the tables correspond to.
* `transactionalDDL`: the engine. It is fixed for a behaviour: TRUE means
  PostgreSQL-like transactional DDL; FALSE is SQLite, the default engine.
* Per process: `pc`, `at` (the revision its running upgrade read),
  `ddlDone` and `sawTable`.
* `faults` and `crashes`: bounded counters of transient alembic errors and of
  restarts. `faultsAtStart[p]` is the value of `faults` when p last started.

*Actions.*

* `Probe`: lines 101-108.
* `EnsureCheck` and `EnsureCreate`: `ensure_version`'s has_table check, then
  its CREATE (113). The CREATE fails when the table appeared in between, which
  becomes `RuntimeError` (116-118). A transient error in either query is
  raised the same way.
* `UpgradeBegin`: `command.upgrade` reads the current revision once (114,
  128).
* `UpgradeCommit`: on a transactional engine, every missing revision commits
  at once or the transaction rolls back.
* `UpgradeStep`: on SQLite, each revision is a DDL commit and then a stamp
  commit. The DDL fails unless the tables are at `at[p]`; the stamp update
  fails unless it still reads `at[p]`.
* `UpgradeFinish`: the SQLite upgrade returns once `at[p]` reaches head.
* `Check1`: lines 122-131. `CommandError` (stamp behind) and
  `AutogenerateDiffsDetected` (tables behind) lead to an upgrade. Any other
  exception is dropped.
* `Check2`: lines 133-142.
* `Restart`: a crash, or a later start of the application.

A transient error (`Fault`) can hit every alembic call: the probe (it then
looks like a missing table), `ensure_version`'s two queries (then
`RuntimeError`), an upgrade's commits and the checks.

*Not modelled.* The log buffer, `print` and `time.sleep(3)`.

*Fairness.* `Step(p)` is weakly fair for each process, because
`run_migration` has no waits. Crashes are not fair.

*Abstract spec.* `SchemaHistory` hides the processes, their `at`, `ddlDone`
and `pc`, and the crashes. It keeps the version table (`hasVersionTable`),
the tables' revision (`tables`) and the recorded one (`recorded`). Its steps:

* `CreateVersionTable`: `ensure_version` creates the table (113).
* `ApplyNext`: one revision's DDL, only on the tables of the recorded
  revision and only below head.
* `RecordApplied`: the row catches up with the DDL just applied.
* `UpgradeToHead`: a transactional upgrade moves the tables and the row
  together to head.

`Migration!History` instantiates it `WITH hasVersionTable <- (versionTable =
"present"), tables <- schema, recorded <- stamp`. `SchemaFollowsHistory` is
`History!Spec`. It is a safety specification: it promises no progress.

### WorkflowFromId: workflow_from_id

*State.*

* `agents`, `agentLinks` and `workflowLinks`: the rows.
* `edits`: the number of user edits made through the API.
* The request itself: `rpc` (its position or outcome), `rw` (the workflow
  requested), `todo` (the links read at line 36 and not yet built) and `got`
  (the entries built so far).

*Actions.*

* `Request`: lines 32-35.
* `GetLinks`: line 36.
* `GetAgent`: one `get_agent` call with all its nested calls, lines 51-79. It
  raises `IndexError` when the row is gone (line 53), or `RecursionError` when
  the recursion is too deep. Otherwise it adds `Entry(a)`: the agent's tree,
  and the agents of the tree whose linked models are dropped because their
  `llm_config` is falsy (70).
* `Finish`: lines 81-85.
* `Respond`.
* `LinkAgents` and `DeleteAgent`: users editing agents. Both are modelled from
  the spec: a link between existing agents, which nothing rejects as a cycle,
  and a delete that cascades to the agent's link rows.

`get_agent`'s recursion is `GetAgentRaises`, a recursive function over the
depth left (`MaxDepth` nested calls, at least the number of agents). It is
checked against graph reachability (`Graphs`'s `Descendants`). The sort at
line 83 is not modelled: `got` is a set.

## 3. Runs

| Run | Module, cfg | Bounds | Checks | Result |
|---|---|---|---|---|
| seed_single | MCSeedDB, SeedSingle | 1 process, 2 crashes, 2 batches | TypeOK, NoDuplicateSeed, EventuallySeeded, AbstractSeeding | pass, 111 states |
| seed_duplicate | MCSeedDB, SeedDuplicate | 2 processes, 1 delete, 1 restart | NoDuplicateSeed | violated |
| seed_crash | MCSeedDB, SeedCrash | 1 process, 1 crash | SeededWorkflowsLinked | violated |
| mig_txn | MCMigration, MigTxn | 2 processes, transactional, Head 2, 2 crashes, 1 error | TypeOK, FaultFreeStartMigrates | pass, 6219 states |
| mig_single_sqlite | MCMigration, MigSingleSqlite | 1 process, SQLite, Head 3, 2 errors | FaultFreeStartMigrates | pass, 121 states |
| mig_concurrent_live | MCMigration, MigConcurrentLive | 2 processes, either engine | EventuallyMigrated, SchemaFollowsHistory | pass, 841 states |
| mig_race | MCMigration, MigRace | 2 processes, fresh database | NoStartupFailure | violated |
| mig_return_behind | MCMigration, MigReturnBehind | 2 processes, SQLite, 1 error | MigratedOnReturn | violated |
| mig_sqlite_crash | MCMigration, MigSqliteCrash | 1 process, SQLite, 1 crash | EventuallyMigrated | violated |
| wf_graph | MCWorkflowFromId, WfGraph | 3 agents, all 512 start graphs, 1 edit | TypeOK, RecursionErrorIffCycle | pass, 7846 states |
| wf_read_errors | MCWorkflowFromId, WfReadErrors | 3 agents, no start links, 2 edits | ReadReturnsWorkflow | violated |

Migration starts from every database a start can find: a fresh one, an empty
version table, any older revision, and head.

### Why the bounds are enough

* Two crashes let a restart land before and after each commit.
* One or two transient errors let an error hit each alembic call of one start,
  and a later start begin after it.
* Two processes exercise every check-then-act interleaving. A third process
  only repeats a pair's interleavings.
* Three revisions on SQLite give an upgrade two intermediate states.
* The three-agent graphs include self-loops, two- and three-cycles and chains.
* Every violation needs at most 12 steps.

### Mutants

Every property of a passing run has a mutant: a plausible bug in the mapped
code that TLC then catches.

* `ReadNoEarlyReturn` breaks NoDuplicateSeed and AbstractSeeding.
* `ReadInverted` breaks EventuallySeeded.
* `CommitIdsBeforeCommit` breaks TypeOK.
* `UpgradeBeginOffByOne` reads the revision one too low and breaks Migration's
  TypeOK.
* `Check1OnlyDiffs` no longer upgrades on `CommandError`. It breaks
  FaultFreeStartMigrates and EventuallyMigrated.
* `UpgradeStepNoReset` leaves `ddlDone` set after a stamp commit on SQLite,
  so the next revision's stamp is written before its DDL. It breaks
  SchemaFollowsHistory.
* `DeleteAgentNoCascade` leaves link rows behind and breaks WorkflowFromId's
  TypeOK.
* `GetAgentRaisesNoRecursion` breaks RecursionErrorIffCycle.

### Findings

1. Concurrent start-ups seed twice (line 148). Deleting either sample workflow
   makes the next start duplicate all the other samples. TLC's trace for
   seed_duplicate shows the concurrent case; with one process the property
   falls to the delete.
2. A crash after the commit on line 318 leaves workflows without agents, and no
   later start repairs them.
3. Two start-ups on a fresh database race in `ensure_version` (line 113). The
   second CREATE fails and raises `RuntimeError`.
4. `run_migration` returns normally with the schema behind head in two ways:
   * a transient error in the first check is dropped (line 126), or an
     upgrade error is only logged (131);
   * on SQLite, a concurrent upgrade makes this process's upgrade plan stale
     (128).

   TLC's trace shows the first way. With no transient error it finds the
   second.
5. On SQLite, a crash between a revision's DDL and its stamp leaves the tables
   ahead of the stamp. Every later upgrade fails, so the schema never reaches
   head.
6. An agent cycle made through the API gives `RecursionError`, since
   `get_agent` has no visited set (line 73). An agent deleted after line 36
   gives `IndexError` (53).

## 4. Proofs (checked by tlapm)

`SeedDBProofs`:

* **TypeCorrect**: `Spec => []TypeOK` for every value of the constants.
  * TypeOK is not inductive by itself.
  * The strengthening `TypeInv` adds `LinkProgress`: a process in `"link"` has
    made fewer than 14 calls. This keeps `linked` in range.
* **SingleProcessSeedsOnce**: with `Procs = {p0}`, `Spec => []NoDuplicateSeed`.
  * The inductive invariant `SeedOnceInv` says the rows are empty or exactly
    batch 1, and that a process about to commit saw an empty database.
  * Lemma `FirstBatchSeeds` shows that the test on line 148 returns early once
    batch 1 is committed.
* **SingleProcessRefinesAbstract**: with `Procs = {p0}`,
  `Spec => Abs!SafeSpec`. This is the safety part of `AbstractSeeding`.
  * The initial states map to SeedAbstract's.
  * Under `TypeInv /\ SeedOnceInv /\ RefInv`, each step maps to a step of
    SeedAbstract or to a stutter: Commit is `Insert`, a Link that stores a row
    is `AddLink(i)`, and Read and Restart stutter.
  * `RefInv` says a linking process holds batch 1. So its link rows are
    SeedAbstract's (`FirstBatchLinkRow`).
  * `SameSeedData` equates the two modules' views of `SeedData`.

`MigrationProofs`:

* **MigrationTypeCorrect**: `Spec => []TypeOK` for any processes, head and
  bounds. TypeOK is inductive as it stands.
* **TransactionalStartMigrates**: with `DDLModes = {TRUE}`,
  `Spec => []FaultFreeStartMigrates`, for any set of processes, head and
  bounds. The inductive invariant `TxnInv` says:
  * the stamp and the tables agree;
  * and, for every process p in a start that has seen no transient error
    yet: an upgrade under way holds the current revision unless the schema
    is already at head, and past the first check the schema is at head.

  The "unless at head" clause is what several processes need. Another
  process's commit moves the stamp to head under p's upgrade. p's own commit
  then fails: `RuntimeError` during initialisation, or an error logged at
  line 131 followed by the second check. Either way, p returns only with the
  schema at head, because on this engine head is never left. Counting errors
  from `faultsAtStart` is what makes the invariant survive restarts. The
  transactional assumption is needed. On SQLite the property is broken by
  the configuration of mig_return_behind (two processes, a stale plan) and
  by mig_sqlite_crash (a crash). TLC checked
  `TxnInv` as an invariant before the proof, with three processes, two
  crashes and one error (206806 states).
* **SqliteStartMigrates**: with `Procs = {p0}`, `DDLModes = {FALSE}` and
  `MaxCrashes = 0`, `Spec => []FaultFreeStartMigrates`, for any head and
  error bound. The inductive invariant `SqlInv` says:
  * outside an upgrade, the stamp and the tables agree;
  * and, while no transient error has happened, an upgrade under way holds
    the current stamp, with the tables one revision ahead exactly between a
    revision's DDL commit and its stamp commit.

  At `UpgradeFinish` the DDL of a revision cannot be pending, because the
  tables cannot be past head (TypeOK). The no-restart assumption is needed:
  mig_sqlite_crash breaks the property with one crash.

`MigrationHistoryProofs`:

* **MigrationRefinesHistory**: `Spec => SchemaFollowsHistory`, that is,
  `Spec => History!Spec`. It holds for any set of processes, head, engines,
  crash bound and error bound. mig_concurrent_live checks it for two
  processes; the proof covers every crash and error bound. The inductive
  invariant `HistInv` is TypeOK, plus `RowGap` (`stamp <= schema <= stamp +
  1`), plus, for every process p, `ProcHist(p)`:
  * `at[p] <= stamp`: the revision an upgrade read is never ahead of the row;
  * a process that saw `alembic_version`, or is past `ensure_version`
    (`PastEnsure`), finds it still there;
  * a pending stamp commit (`ddlDone[p]`) is below head, and while the row
    still reads `at[p]` the tables are at `at[p] + 1`.

  The invariant must speak of every process. A DDL step of p needs
  `schema = at[p]`, and `at[p] <= stamp <= schema` then makes it start from
  the recorded revision (`ApplyNext`). A stamp commit of p needs the last
  clause, for p's own DDL (`RecordApplied`). Another process's DDL cannot
  come in between: it would need `schema = at[q] <= stamp`. TLC checked
  `HistInv` as an invariant before the proof, with three processes, Head 3,
  both engines, one crash and one error (590872 states). Lemmas:
  * `HistInvInit` and `HistInvStep`;
  * `HistoryInit`: the initial databases are SchemaHistory's;
  * `HistoryStep`: every step maps to a SchemaHistory step or a stutter
    (`DbStutter`).
`WorkflowFromIdProofs`:

* **WorkflowFromIdTypeCorrect**: `Spec => []TypeOK`, for any agents,
  workflows, start graphs, edit kinds and bounds.
  * TypeOK is not inductive by itself: `todo` is typed only because the
    workflow_agent rows are never more than those of the start. `WfInv`
    adds `LinksFromStart`.
  * The cascading delete keeps `agentLinks` within the remaining agents.
  * `MembersAreAgents` and `EntryType`: every entry `get_agent` builds is a
    tree of agent rows. `Descendants` is a subset of the graph's nodes, so
    the transitive closure need not be unfolded.

Only TLC checks the following:

* Liveness (`EventuallySeeded`, `EventuallyMigrated`, the fairness part of
  `AbstractSeeding`). It depends on fairness and ENABLED, which are out of the
  prover's reach.
* `RecursionErrorIffCycle`: proving it for every graph needs induction over
  the recursive function `raises` and over the transitive closure of
  `Graphs`, which the installed provers cannot instantiate. Only its type
  part is proved (`WorkflowFromIdTypeCorrect`).
* The liveness part of the migration: `SchemaHistory` is safety only, and
  `EventuallyMigrated` depends on fairness.
* `FaultFreeStartMigrates` on SQLite with restarts, which is false
  (mig_sqlite_crash), and every violation.

## 5. Not modelled

* The ORM, DBManager, the alembic scripts and the web API are outside this
  file. Modelled from the spec are dbmanager's link existence check, workflow
  deletion, agent linking and agent deletion.
* The sort at line 83 for sequential workflows: the rebuilt list is kept as a
  set.
* `dump_agent`'s field exclusion (38-49) and the skill and model dumps: they
  change no state that a property reads.
* Logging, `alembic.log` writes, `print` and `time.sleep(3)`.
* The `llm_config` each sample agent is seeded with (lines 203-273). It is
  stored as `AgentConfig(...).model_dump(mode="json")`, and the config model
  is outside `src/`. With `llm_config` typed `Union[LLMConfig, bool]`, `{}`
  is stored as a non-empty, truthy LLMConfig dict, and only `user_proxy`'s
  `False` stays falsy. So the seeded assistants do get their models as
  `config_list` at line 70. No property of the seeded data depends on this.
