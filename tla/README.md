# VillageInsight: a verification project

VillageInsight takes spreadsheets from villages, recognises which template each
sheet follows, lets a person approve an *import plan* where the match is not
certain, materializes the rows into a PostgreSQL store, and answers questions
over that store. A FastAPI process serves the requests; three worker *lanes*
(`parse`, `hermes`, `materialize`) run the slow work. They share nothing but the
database: the `jobs` table is the only queue, row locks and unique constraints
are the only synchronisation.

This directory holds TLA+ models of that program, TLC runs that check them on
small instances, and TLAPS proofs. Paths below are relative to
`src/src/village_insight/` unless they start with `src/`.

- `tlc -workers 2 -config jobqueue_contract.cfg MCJobQueue` (any `.cfg` with its MC module)
- `tlapm JobQueueProofs.tla` (any module `...Proofs`; from half a minute to ten minutes each)

Contents: 1 inventory, 2 modules, 3 runs, 4 findings, 5 proofs, 6 observations,
7 not modelled, 8 plan.

## 1. Inventory

| Component | State it keeps | Operations | What is hard |
|---|---|---|---|
| Job queue `jobs/queue.py` | `jobs`: kind, status, attempts, owner, lease, available_at, idempotency key | enqueue, claim, renew, succeed, fail, release, defer | expired leases, stale copies of a row, retry accounting |
| Workers `worker.py` | thread, heartbeat thread, `stopped` event, identity map of the session | poll, run a handler, settle the job, pause the lane | crash between two commits, lost lease, shutdown |
| Job handlers `worker.py`, `materialization.py` | item, profile, matches, plans, executions, records, batch counters | profile, match, recognise, materialize, delete | several commits per job; failures that are committed and then retried |
| Import plans `templates/import_plans.py` | revisions of a file's plan, their supersession | approve, approve matched, approve hybrid | races of approvals with executions |
| Deletion and reimport `build_result_deletion.py`, `reimport.py` | deletion record, item status, jobs withdrawn | request, carry out, restore, reset | requests that race workers and other requests |
| Batch and item API `api/routes/batches.py` | none of its own | upload, accept, approve, reject, reimport, delete | decisions on unlocked reads |
| Batch progress `worker.py:190-227` | counters, total and status of a batch | upload, refresh after each file, adjust at a reimport | lost updates between files, the limit |
| Template, field, region, composition, route lifecycle `templates/lifecycle.py`, `four_layer*.py`, `field_catalog.py` | versioned definitions, their statuses, the pointer to the published version | create, submit, approve, reject, publish, deprecate, package installation, backfill, seeding, fingerprint upgrade | dependencies and pointers that change after they were read |
| Proposal governance `templates/governance.py`, `api/routes/batches.py` | proposals, resolutions, provisional versions, learned variants | accept, reject, learn, create fields, publish regions | two reviewers, a reviewer and an editor, partial decisions |
| Matching `templates/matching.py` and helpers | match rows of a file | match_profile | replacement of rows, thresholds, choice among candidates |
| Recognition `hermes/recognition.py` | cached results, checkpoints of structures and chunks, proposals | structure pass, chunk passes, merge, review, recovery | resumed runs, two files of one workbook, answers that need normalisation |
| Model processes `hermes/runtime.py` | forked process, its pipe, the registry of chat processes | run_json, stream_chat, stop | deadline, stop, cancellation and exit in any order |
| Model configuration and secrets `hermes/configuration.py`, `hermes/secrets.py`, `secret_preflight.py`, `SettingsPage.tsx` | key file, configuration, credentials, the form | start, save, test, edit | starts and saves that create the key together |
| Identity, sessions and scopes `identity.py`, `api/routes/auth.py`, `api/routes/admin.py` | users, memberships, tenants, units, sessions | log in, change password, administer, resolve a principal | revocation while requests run |
| Questions `api/routes/questions.py`, `question_scope.py`, `question_source_versions.py` | conversations, runs, frozen scopes, source replacements | ask, stream, stop, delete, supersede | imports and deletions while a question runs; stop against completion |
| Query contracts and queries `query_governance.py`, `question_catalog.py`, `catalog_query.py`, `safe_query.py`, `hermes/question_tools.py` | published fact sets, manifests, metrics | publish, derive a catalog, count, list, rank, summarise, look up | several ways to ask for one number |
| Parsing `parsing/` | none | regions and headers of a sheet; profile a workbook | nothing interleaves; ranking of header rows |
| Catalog bundles, snapshots, recovery `catalog_bundle.py`, `catalog_snapshot.py`, `catalog_recovery.py`, `baseline_sources.py` | bundle files, the catalog they are laid over | write, preview, restore, normalize sources | edits between two restores and under a bundle that is being written |
| Web frontend, seeds, storage, transfer, migrations, deployment | files, fixed data, the page's state | UI, offline tools, I/O | see section 7 |

`PROJECT.json` lists each of them with its status, and the hazards of the code,
each at the line where it bites, with the properties that cover it or the reason
why none does yet.

How they interact. A route or a handler changes rows and *enqueues* a job in the
same transaction; a worker *claims* the job in a transaction of its own, runs
the handler, which commits once or several times, and *settles* the job in a
last one. So between any two of these commits another worker, a request, or the
death of the process can come. Deletion and reimport reach into the queue: they
lock the item's rows, refuse while a job is RUNNING, and cancel or delete the
jobs that wait.

What makes each component correct:

- queue: one worker at a time per job while leases hold; `max_attempts` failures
  and no more; no row stranded, neither PENDING and never eligible nor RUNNING
  with nobody at work; every job is eventually settled;
- pipeline: a file at rest is in a state a user can act on and is counted there
  by its batch; imported means that there is data; a deleted result is gone and
  stays gone; a plan is executed once, one set of records is in the data;
- plans: revisions form a chain; a completed plan is not silently replaced;
- catalog: a code's pointer and its published status name the same version, and
  nothing published rests on a draft; a restore gives what the bundle held, can be
  repeated and can be undone;
- matching: rows and summary of a matched file are of one run and those of a failed
  one make no plan in part; exact means the same bag of parts;
- recognition: one decision per workbook, uncertainty reaches a governor, a
  resumed run mixes in nothing; every asked column is judged once and no change
  the program made to an answer is published unseen;
- governance: the parts of a decision stay together and nothing is unlearned while
  a request that was overtaken has a number to collide with;
- plans and records: a reused plan reads the same cells, a plan made without a
  person can be materialized but for columns outside the region's, both projections
  of a record agree;
- questions: a run counts nothing stamped after its creation; two ways to
  ask for one number give one number; a run that ended stays as it ended;
- identity: a session that still resolves was opened under the present rights,
  the platform keeps an admin, reads stay in the scope of the session;
- model calls and settings: an ended call leaves no process that goes on asking;
  a stored API key goes to the connection it was entered for.

## 2. Modules

| Module | What it is |
|---|---|
| `RetryContract` | abstract specification: what the job table promises its clients |
| `JobQueue` | the table, the worker threads, heartbeats, clients that withdraw jobs |
| `JobQueueProps` | its properties and the refinement mapping to `RetryContract` |
| `JobQueueProofs` | theorems and proofs |
| `MCJobQueue` | constants for TLC |
| `IngestionPipeline` | one file through handlers, plans, deletion, reimport and API requests |
| `IngestionProps`, `IngestionProofs`, `MCIngestion` | its properties; theorems and proofs; the module TLC runs |
| `BatchProgress` | a batch of several files: uploads, the recounts of every session, reimports |
| `BatchProofs`, `MCBatch` | its theorems; the module TLC runs |
| `CatalogLifecycle` | the five layers of versioned definitions, their pointers and who publishes |
| `CatalogRecovery` | bundles of the catalog and their restore among edits |
| `TemplateMatching` | one workbook against the published catalog |
| `RecognitionPasses` | the passes of a recognition, its caches and checkpoints |
| `RecognitionContract` | requests and answers of a recognition: chunks, normalisation, validation |
| `ModelCalls` | the process of a call of the model, its pipe and its ends |
| `ModelSettings` | settings.key, the stored connections, the settings page |
| `ProposalGovernance` | decisions on proposals, with what they learn and publish |
| `ImportPlanContents` | projection of layouts and bindings, mappings of a machine plan |
| `Materialization` | rows to records, index rows, issues and the status of an execution |
| `QuestionRuns` | conversations, runs, frozen scopes, streams and stops |
| `QueryPlanning`, `SourceLookup`, `QueryAnswers` | contracts and counts; the raw cells; the other answers (extends the two) |
| `AccessControl` | sessions, users, tenants and units, and what a session reaches |
| `SheetRegions` | regions of a sheet and the choice of their headers |
| `CatalogProofs` | proofs about `CatalogLifecycle`, `ProposalGovernance`, `CatalogRecovery` |
| `HermesProofs` | proofs about `RecognitionPasses`, `ModelCalls`, `ModelSettings` |
| `QuestionProofs` | proofs about `QuestionRuns`, `AccessControl`, and the answers of `QueryAnswers` |
| `ContentProofs` | proofs about `RecognitionContract`, `ImportPlanContents`, `Materialization`, `TemplateMatching`, `SheetRegions` |
| `WorkflowProofs` | proofs that `MCWorkflows` runs its parts, and keeps the types of all of them |
| `MCWorkflows`, `MCContents` | instances of the modules from `CatalogLifecycle` on: most of those where steps interleave, and those about the contents of a workbook |

The two levels of the queue compose by refinement, not by product: `JobQueue` is shown to
implement `RetryContract` while leases outlive running workers, and
`IngestionPipeline` uses jobs as `RetryContract` describes them (waiting, active,
errors counted up to `MaxAttempts`, hand-backs and deaths free).

The other modules meet the pipeline and each other at a committed row, and are
modelled on either side of it: `TemplateMatching` decides which of the pipeline's
`MatchKnown` and `MatchUnknown` happens, `RecognitionPasses` is what `Recognized` and
its failures stand for, `ProposalGovernance` ends in the approval of a plan,
`Materialization` in the status of an execution, `CatalogLifecycle` says which
versions the readers find, `QuestionRuns` counts records that appear and disappear as
the pipeline makes them. `MCWorkflows` and `MCContents` therefore put their modules
beside each other without shared variables: the variable `part` is chosen in
the initial state and a behaviour is one of that module alone.


### JobQueue and the code

A step is one committed transaction, or one local step of a thread between two.

| Variable | Code |
|---|---|
| `jobs[j]` | the row: `key` (idempotency key), `status`, `attempts`, `owner` = lease_owner, `lease` = lease_expires_at as absent, live or expired, `delayed` = available_at in the future, `born` orders created_at |
| `wk[w]` | a worker thread: where process_one stands, the job it claimed, `seen` = the copy of the row in its session, `how` = the exception class |
| `hb[w]` | its heartbeat thread, between the read and the write of `renew` |
| `stopping` | threads whose `stopped` event is set |

`seen` is the point that a test hardly reaches. The session is created with
`expire_on_commit=False` (`db/session.py:19`), so `session.get(Job, id)` in
`succeed`, `fail`, `release_for_shutdown` and `defer_for_operator_action` returns
the object of the claim, not the row, unless the `rollback()` of
`worker.py:597` found a transaction open and expired it (`reread`). The endings
*decide* on the copy and *write* to the table. On a row that a reimport has
deleted meanwhile the UPDATE matches nothing, SQLAlchemy raises StaleDataError
outside the handler's `try`, and the thread ends.

Actions: `Enqueue`, `CancelPending` (deletion request), `DeleteJobs` (reimport),
`ComeDue`, `ExpireLease`, `Start`, `Claim`, `HeartbeatRead`, `HeartbeatWrite`,
`HandlerReturns`, `HandlerRaises`, `Succeed`, `Fail`, `ReleaseForShutdown`,
`DeferForOperator`, `Stop`, `Leave`, `Crash`. A worker id is used once, as in
the code (it ends in random hex); a restart is the `Start` of a new id.

Two constants name what the environment may do: `LeaseLoss`, may a lease expire
under a worker that still runs (a stalled process, heartbeats that fail); and
`ClaimRace`, may a job be claimed between the check of a reimport, which locks
RUNNING rows only (`reimport.py:74-83`), and its DELETE.

### IngestionPipeline and the code

| Variable | Code |
|---|---|
| `item` | `status`, `evidence_status`, `formal_import_status`, `build_result_deletion_status` |
| `stored` | which of DocumentProfile and TemplateMatch exist |
| `plans[p]` | the ApprovedImportPlan of revision order p: live, retired by a deletion, deleted by a reset; who approved it; what it supersedes; the outcome of its ImportExecution; whether its records are in the data |
| `deletion` | IngestionBuildResultDeletion.status |
| `jobs[k]` | the job that carries idempotency key k, as the retry contract sees it |
| `run[k]` | where the handler of an active job stands, and the item its session holds |
| `batch` | counters and status of the batch |
| `api` | an API request between its reads and its commit |

`Begin(k)` is the claim, `validate_job_scope` and the handler's first commit;
then one action per way the handler may end (`ProfileStored`,
`ProfileUnreadable`, `MatchUnknown`, `MatchKnown`, `MatchBlocked`, `MatchBroken`,
`Recognized`, `Materialized`, `Deleted`, `DeletedBefore`, `Aborts`), and
`Succeeds`, `Fails`, `HandsBack`, `Dies` for the end of `process_one`.
`Fails` includes what the branches of `worker.py:630-723` write when the job is
given up. A session's commit writes only the columns that differ from what it
loaded (`Flushed`): this is how a late writer overwrites part of an item.

`Overlap` decides whether an API request is one transaction in effect (its reads
and its commit are not separated) or whether steps of workers and of the
deletion come in between, which the code permits because the reads take no lock.
`RestoreDeleted` is called by a maintenance script
(`src/scripts/merge-three-village-run006.py:199-202`) and by tests only.

What is abstract: contents of profiles, matches, plans and records; which
idempotency key a match or profile job carries (one per kind suffices, because
the key contains the item and a reimport deletes the rows); rows of a plan as a
set that is there or not; error texts, timestamps and audit entries.

### BatchProgress and the code

| Variable | Code |
|---|---|
| `kind` | IngestionBatch.source_kind |
| `formal[f]` | formal_import_status of file f, as committed |
| `batch` | total_files, the three counters and the status |
| `uploading` | requests between the limit check of `upload_batch_file` and the insert |
| `session[f]` | the database session that works on f: the copy of the batch it loaded, what it counted, and the status it will commit |

`Loads`, then `Counts` (by `Handles` or `DeletesResult`), then `Commits`: three
separate moments, since each statement of a READ COMMITTED transaction sees what
is committed by then. `Resets` is the reimport, `Rematerializes` the commits that
set a file working without recounting (an approval, the start of
`materialize_file`). The pipeline above has a batch of one file, where none of
this shows; here the handlers are reduced to the status they give their file.
`Overlap` FALSE keeps sessions apart from load to commit.

### CatalogLifecycle and the code

| Variable | Code |
|---|---|
| `artifact[l]` | the row of one code in layer l (semantic field, region template, sheet composition, workbook route, legacy template): `published_version` and the versions with status, source, package generation and the version of the layer below that they bind |
| `slow` | a request of `api/routes/catalog.py` that has read and not yet written: what it decided to write |
| `overlapped` | did a transaction commit under a slow request? (history, for the properties) |

One action per route (`CreateField` ... `PublishWorkbookRouteVersion`,
`RunTemplateCommand` for the review of legacy templates), and one per operation
that publishes in bulk: `CommitGovernance`, `PublishDirectory` (the package
installer), `BackfillFourLayerFoundation`, `SeedCompositionRoute`,
`UpgradePublishedFingerprints`. A route may be split in two, its decision on what it
read and `SlowCommit`, since its SELECTs lock nothing and the session writes the
columns that it changed only. One code per layer suffices: codes do not meet except
through the layer below. Contents, hashes and audit rows are left out.

### CatalogRecovery and the code

`catalog` is the three kinds of table (objects with their pointer, versions,
children of a version); the four layers are treated alike by the code and stand as
one. `bundles` are the baseline file and the copy a restore makes first;
`copying` is a bundle that is being written, statement by statement (READ COMMITTED: an
edit in between gives a bundle that is not `whole`); `restore` follows
`catalog_recovery.py`, `_restore`: `Preview`, `Confirm`, the copy, and the transaction
that applies the bundle, in its statements: `SyncObjects`, `SyncVersions`,
`ReadPointers`, `RestoreLayers`, `CommitRestore`. `session` is what this transaction has
written and read. Edits are those of `four_layer_publish.py`, `lifecycle.py`,
`four_layer.py` and `baseline_sources.py`; they may commit between any two of these
steps, since the advisory lock of a restore keeps out other restores (and
`NormalizeSources`, which calls `restore_snapshot`) and no editor. Only rows that the
restore has written are locked for them (`Unlocked`). `touched` collects the objects
edited after the restore has read the pointers. An edit is one step, and so is a
statement of the restore with the writes that follow from it.

### TemplateMatching and the code

`regionRow`, `sheetRow`, `routeRow` and `summary` are the match rows of the item
as committed, `column` the last column judged (with the evidence it was judged on),
`matching` the item's status. `MatchColumn` is `_field_match_values`, `MatchProfile`
the transaction of `match_profile`. `MatchFails` is an exception in it, after which
`match_template` rolls nothing back (`worker.py:311-320`) and commits what was done: the
old rows, or no rows, or new ones of the first regions, of all regions and the first
sheets, of these and the route, all under the old summary. `Covered` is the comparison of
rows and summary that `build_reused_region_fragments` makes before it plans. Scores are
the code's integers (basis points); labels, types and signatures are abstracted to how
they compare. The regions compared are fixed; in the code the catalogue may take out
known ignored ones, so that there the count of a part could agree with an older summary
(section 6).

### RecognitionPasses and the code

`finals`, `fasts`, `structures` and `chunks` are the rows of HermesRecognitionCache
by kind and key; `pass[i]` is where `recognize_differences` stands for item i and the
results it holds; `proposal[i]` its TemplateProposal; `release` is what stored
entries are compatible with (PROMPT_VERSION, schema). Each `Recognize...` action is one
pass with its commit, so that `Abandon` (timeout, provider error, death, lease) falls
between any two; `Upgrade` makes stored entries incompatible and sends recognitions to
recovery keys. `concurrent` remembers whether two recognitions of one key overlapped.

### RecognitionContract and the code

Functions of one request and one answer, chosen freely in the shape of the
contract (pydantic validates the shape): which columns are asked and in which chunks
(`ChooseColumns`), field decisions from the answer through normalisation, chunk
merge and validation to publication without review (`DecideFields`), structure
decisions and their five normalisations (`DecideStructure`, `DecideRoles`,
`RecognizeSheet`), previews and requested ranges (`PreviewSheet`). `judged` holds what the
step computed. What becomes of the columns that `AskedOnce` excepts (a column that
has a field already and shares its header path with one that needs one): a chunk that
returns a decision for each makes `validate_result` raise, and every retry fails
the same way; otherwise the resolved column is decided again.

### ModelCalls and the code

`waiter` is the coroutine in `run_json_with_trace` or `stream_chat`, `child` the
forked process, `pipe` the messages between them, `registered` its entry in
`_active_chat_processes`, `delivered` what the consumer got. The poll and the look at
`is_alive` are separate steps, as are the end of the call, the join and the kill. A stop
(`StopChatRun`), a cancellation and the deadline may come at any step.

### ModelSettings and the code

`keyFile` is settings.key, absent, partly written or whole; `starts` are
preflights, `saves` requests that store a configuration (load or create the key,
encrypt, flush what changed, commit), `page` the form in `SettingsPage.tsx` with its
revision and the test it has passed. `LoseKey` (the volume is replaced) and the
deaths of processes are external. `Overlap` FALSE keeps two saves apart.

### ProposalGovernance and the code

`fields` are the pointers and versions of fields, drafts included, with the variants
they are recognised by, `drafts`
the versions of document templates, `regions` the count of governed region
publications, `cases[p]` status, resolution and latest plan of a proposal. `AcceptItemProposal`
is the whole transaction of the route: the field decisions, the learning, the regions, the
confirmed version, the plan. A slow request is cut where others may commit: an acceptance
reads the proposal and the field's pointer (`StartSlowAccept`), the field's versions
(`LoadFieldVersions`; `_load_field` is a SELECT for each table), the template's
(`LoadDrafts`), and then writes; `Write` is where unique constraints refuse (`FailSlow`).
An editor's version is a draft first (`CreateKnownVersion`) and published by another
request (`PublishKnownVersion`, or slowly with `publishing` between its read and its
commit). What such a publication retires is not looked at: in the model the published
version is the one pointed to.

### ImportPlanContents, Materialization, SheetRegions and the code

Computations; the interesting case is a long function, not an interleaving.
`ImportPlanContents` follows a layout from `build_layout_projection_snapshot` to
`project_layout_plan`, the projection by region rules (rows, and the columns that the
rules leave out on either side, which the plan takes as they are while `Materializes` has
the checks of `materialization.py:662-688` on them), the resolution of bindings, and the
mappings of a plan from their three sources with the roles that tell repeated fields apart.
`Materialization` follows `materialize_plan` row by row (`SkipRow`, `AddRecord`,
`RaiseOnRow`), for a table, a table without headers and a form; `NormalizeDecimal` is
the rounding and digit check of `_normalized_value`. `SheetRegions` follows
`parsing/candidates.py`: `JudgeShape` takes any set of occupied cells of a grid,
`JudgeTable` a table with a title or groups over its labels; similarity and confidence
are computed as there, in integers.

### QuestionRuns and the code

`stored` and `arriving` give each file the creation stamps of its records, committed or
only flushed: a materialization deletes the records of the predecessor and adds its own in
one transaction, so that the old ones are seen until `CommitRecords` puts the new ones in
their place, or `RollBackRecords` leaves them. (Records that a predecessor leaves after its
successor are finding 3, in `IngestionPipeline`.) `runs[r]` is the QuestionRun with its frozen scope and the phase of its
stream; `requests[c]` is a request of the routes between read and commit.
The end of `event_stream` is three steps as in the code: the answer is complete, the
stored run is read, the result is written. `stop_run` and the deletion of
conversations are two steps each. The watermark of a scope and the files it freezes are
read in one step. `counted`, `existed` and `underway` are history: what
tools counted, and what was committed and flushed at the creation of the run.

### QueryPlanning, SourceLookup, QueryAnswers and the code

State: the published contracts, and records with their index rows. Every way to
ask is an operator: `Count`, `GroupCount`, `Lists`, `Ranks`, `Summary`
(`catalog_query.py`), `SafeCount`, `SafeLists`, `SafeGroups` and `Compiles`
(`safe_query.py`), `MetricCount` (`questions.py`), `Household` and SQL evidence
(`hermes/question_tools.py`). The properties are equations between them. `SourceLookup`
follows `lookup_source_records`: the normalised value, the probe in SQL and the filter
over cells. An average is a sum over a count and has no operator of its own.

### AccessControl and the code

`accounts[u]` is the user with membership and scope, `sessions` the AuthSession
rows, `calls[c]` a request between `get_current_principal` and its commit. `AdminRequest`
reads what a command of `admin.py` reads, `AdminCommit` writes the changed columns
and revokes sessions. `since` numbers the committed changes of a user; `deposed`
remembers that a request was carried through for somebody who had lost the role.
`BatchesListed`, `BatchesOpened`, `ImportTargets`, `FilesShown` and `RecordsShown` are the
scopes that the data endpoints derive from a session.


## 3. Runs

| Run | Question | Bounds |
|---|---|---|
| `jobqueue_contract` | does the leased table implement the retry contract, are views fresh, is a job run by one worker, is every job settled? | 2 jobs, 2 keys (one of the cancellable kind), 2 workers, 2 attempts |
| `jobqueue_lossy` | what is still true when leases are lost and reimports race claims? | the same, `LeaseLoss` and `ClaimRace` TRUE |
| `ingestion_steady` | does a file come to rest consistently; is its deletion complete; is a completed plan final? | 2 attempts, 2 plans |
| `ingestion_interrupted` | the same, workers dying anywhere | 1 attempt, 1 plan, at most 1 dead run at a time |
| `ingestion_overlap` | do unlocked approvals keep the plans in one chain? | 1 attempt, 2 plans |
| `ingestion_deletion_retry` | (violation) a deletion requested again has a job | 1 attempt, 1 plan |
| `ingestion_deletion_race` | (violation) nothing writes on a deleted file | 1 attempt, 1 plan, `Overlap` |
| `ingestion_superseded` | (violation) one set of records per file | 2 attempts, 2 plans |
| `batch_alone` | do the two refreshes and the reimport's arithmetic leave the batch right when files rest; does the limit hold? | 4 files, limit 3 |
| `batch_lost_update` | (violation) the same when sessions overlap | 3 files, limit 2 |
| `workflows` | for the eight modules where requests and jobs interleave: are pointers, matches, caches, runs, sessions, calls, settings and restores what their readers take them for? | see below |
| `contents` | for the six computations: do the ways to compute or ask for one thing agree, over every small input? For the decisions of governors: do the parts of one stay together, and is nothing unlearned, with editors and governors between any two statements? | see below |

Why these bounds. Two workers are enough for a reclaim, a zombie and its
successor; two jobs for the order of claims and for a withdrawal of several; two
attempts for a failure that retries and one that gives up (the code's
`max_attempts` is 3; nothing compares it with another number). Two plans are
needed to supersede one, and two attempts for a plan to be overtaken during its
retry delay. Two files are needed for a lost update and one more for uploads that
race for the last place. Section 5 lifts these bounds, and most of those of `workflows`, altogether. With deaths,
`MaxDead` limits how many active jobs are without a worker at one time, not how
often workers die.

Bounds of `workflows` (about 1.1 million states, each of one part):

- catalog: 5 versions over all layers together, 1 package digest, 1 slow request: a code with two
  versions over a binding with two, or the chain of four with one republication;
- matching: 3 regions on 2 sheets, 2 fields, 2 region versions, compositions of 1
  to 3 slots, routes of 1 and 2, so that partial, exceeding and equal bags occur; a
  later match may fail at any point, but finds neither compositions nor routes
  (`LaterCompositions`, `LaterRoutes`) and follows a run that left at most one region
  matched, or one row if it failed (`LaterRows`);
- recognition: 2 files of one workbook, structures of 1 chunk (uncertain) and 2
  chunks, 1 recovery key, 2 releases: a resume in every pass, before and after an upgrade;
- questions: 2 overlapping requests, 2 files, 1 run, 2 stamps: one before and one after
  the freeze, of two files or two records of one. One run suffices because properties
  are per run;
- access: 2 accounts (one the admin of the first start), a township and its village, 2 sessions,
  2 requests under way, 2 changes;
- calls: both kinds, 0 or 1 repair, 2 events;
- settings: 1 preflight and 1 save beside it and beside the page, 2 connections, 2 keys (the second
  after a loss), 1 edit of the form under a test;
- recovery: 2 objects of 2 versions with 2 possible children, 2 edits: before a restore, under
  its copy, between the statements of its transaction, or after it.

Symmetry of the two files, of the two request slots and of the two variants is sound, because no
definition tells them apart. Bounds of `contents` (about 475 000 states):
2 proposals, one on a published template, 2 variants, drafts with both or none, 3 versions of a
field (two decisions that teach one field, and a draft of an editor that was made before, between or
after them, and published then or later; three versions are the least that show what
`OvertakenUnnoticed` excepts); 2 columns per chunk
with 3 columns; table, headerless table and form of 3 rows over 5 kinds of cell;
6 fact set drafts (two of which may not be published), 2 records out of 7 origins with 8
index rows; texts of 2 letters with probes of 1 (as 6 is to longer ones in the code); every
shape in a 4 by 3 grid (4095) and tables of 2 to 4 columns over 3 rows. Previews are
checked at each limit of the code and one beside it on either side
(`MCWidths`). The shapes and tables were also given to the code itself: regions, header rows and
confidence agree with the model in every case.

No property of these runs is a liveness property and none uses fairness: a request may
stop at any point for ever, as a client that leaves does.

Deadlock is not checked where the system may rightly stop: when all jobs are
settled and all workers have left, when all revisions of a file are used up, when a
workflow has used up its bounds, and when a computation has been judged.

Fairness (only `EveryJobSettles` uses it). Weak fairness of: `Claim` (the loop
polls, `worker.py:766-791`), the end of a handler (parsing is finite,
recognition has a total timeout, `worker.py:103-140`), the endings, `Leave`,
`Start` (`restart: unless-stopped`, `src/compose.yaml:61,88,115,142`), and the two
clock actions. Crashes, stops, heartbeats and clients have none. The property is
conditional: for every key, some worker that serves it stays up from some time
on. Without that condition it is false, and the code does not promise it: a
worker that dies in every run of a job reclaims it for ever, because a reclaim
spends no attempt (`jobs/queue.py:128`).

What the runs do *not* claim, having been found false while modelling:
`CompletedIsFinal` under `Overlap` (an approval reads that the latest plan is not
executed yet, its materialization completes, the approval then supersedes it all
the same: the rule that `import_plans.py:594` states is checked and not locked,
the cause of finding 2 again);
`ImportedHasData` under `Overlap` (a reimport that commits a stale copy may fail
to reset the formal status), and `RestsWhenIdle` when workers die between
commits (the second run of a handler first sets the working status and then
enqueues a key whose job is finished already).

The same holds for the later modules: `UncertaintyIsGoverned` is stated without
overlapping recognitions of one key, `KeysStayWithTheirConnection` is checked
without overlapping saves, `AnAdminRemains` unless a request is carried through for
someone deposed, `PointersArePublished` for legacy templates without overlap,
`GovernedOnce` of a rejection without a decision under way, `LearningIsKept` unless a
request was overtaken and had nothing to collide with (`OvertakenUnnoticed`),
`RestoredIsTheSnapshot` for objects that nobody edited after the restore had read the
pointers, `MachinePlanIsMaterializable` of a projection whose columns fit (`ColumnsFit`),
`CountsWhatWasThere` for what was committed *or under way* at the creation of a run,
`FactSetsPartitionTheScope` for rules that are specific, be they published or derived, and one
version per code, `MergedIsValid` for codes that end with one date at most,
`BundlesStayRestorable` for bundles that are whole and no version that was
without children and got some. Section 6 says what happens otherwise.

## 4. Findings

1. **A deletion that failed cannot be retried** (`ingestion_deletion_retry`).
   `request_build_result_deletion` reuses the record and with it the idempotency
   key `delete-build-result:{id}`; the FAILED job still carries it and `enqueue`
   returns that row. The file stays `deletion_pending` with no job. Approving
   once more a plan whose materialization was given up has the same cause: the
   same plan and the same FAILED job are returned.
2. **A request can write on a deleted file** (`ingestion_deletion_race`). The
   check of the deletion status is an unlocked read; the lock a reimport takes
   later does not refresh the object already loaded.
3. **Superseded plans may be materialized late** (`ingestion_superseded`). Only
   the direct predecessor's records are deleted, at the successor's execution;
   if the predecessor's job is retried after that, both sets are in the data.
4. **Files that finish together leave their batch running** (`batch_lost_update`).
   Both count before either has committed, both commit the same numbers. The
   status stays `running`, since no later event recounts.

## 5. Proofs

`JobQueueProofs.tla` proves, for any number of jobs, keys, items, workers and attempts:

| Theorem | Assumes | Says |
|---|---|---|
| `TypeCorrect` | constants' types | columns and worker states stay in their types; `attempts <= max_attempts` |
| `HoldersWork` | same | a RUNNING row names a worker at work on it, or dead |
| `OwnersRun` | same | an owner is recorded exactly while RUNNING |
| `MutualExclusion` | `LeaseLoss = FALSE`, `ClaimRace = FALSE` | a job is run by one worker |
| `ViewsAreFresh` | same two | the stale copies agree with the table |
| `PendingClaimable` | same two | no job waits with its attempts spent |
| `QueueRefinesContract` | same two | the table implements `RetryContract` |

The argument is in three layers, each inductive relative to the one below.
`TypeInv` is typing. `HolderInv` adds what holds however late heartbeats are: a
copy that says "I own it" can be wrong, but one that says "I do not" never is
(`NonOwnerKnows`), and a RUNNING row is held by a worker whose current job it is.
That is why no stale ending strands a row: it ends the row of its *own* job, and
whoever else works on that row will find at worst that it is gone.
`ReliableInv` adds, for leases that outlive their workers: the worker holds its
row (`HoldsItsRow`), so that the copy it decides on is the row; running rows have
spent at least one attempt and waiting ones have one left (`RunsAreCounted`);
an expired lease means that the holder exited (`ExpiredMeansGone`), which makes
every reclaim a takeover from a dead worker. With those the refinement is a case
per action: a reclaim, a heartbeat, the clock and the death of a worker are
stutters, the endings map to `Finish`, `Err` and `HandBack`.

`BatchProofs.tla` proves, for any files and limit: `TypeCorrect` and `TotalCounted`
however sessions overlap (total_files is incremented in place and no session
writes it), and, for `Overlap = FALSE`, `AgreesAlone`: the batch agrees with its
files whenever they rest. The strengthening is that a session's copy is the row
and what it counted is what its commit makes true (`CopyIsRow`), at most one
session works (`OneSession`), and the two refresh functions agree on a batch with
a deleted file (`RefreshesAgree`).

### One file: `IngestionProofs`

For any number of attempts, plans and dead workers at a time:

| Theorem | Assumes | Says |
|---|---|---|
| `IngestionTypeCorrect` | | columns, plans, jobs, requests and batch stay in their types |
| `ApprovalsFormAChain` | | no two plans supersede the same one, although approvals lock nothing |
| `PlansExecuteOnce` | | the outcome recorded for a live plan is never recorded anew |
| `DeletionLeavesNothing` | `~Overlap` | a deleted build result leaves nothing alive |
| `ImportsHaveData` | `~Overlap` | imported means that a live plan was executed with that outcome |
| `CompletedImportsAreFinal` | `~Overlap` | only an accepted proposal supersedes a completed import |
| `FilesComeToRest` | `~Overlap`, `MaxDead = 0` | a file with no job left is at rest and counted there |

Three layers again. `FileInv` holds however requests overlap and workers die: a
handler runs exactly on active jobs (`JobsAndRuns`), a plan that is not live has
neither outcome nor records, and no plan has a materialization job before it exists
(`PlansAndJobs`); the copy of the item in a handler's session says what that
handler wrote when it began (`CopiesAreHonest`), which is what decides which columns
its commit writes. `AtomicInv` adds what single transactions give: once a deletion
is requested no ordinary job waits or runs (`DeletionIsAlone`), and the deletion job
sees the row as it is. `RestInv` adds what handlers that are not cut short give, and is
the reason that `RestsWhenIdle` holds: whatever status a file has, the job that moves it on is
unfinished (`MovesOn`), and a stage is enqueued after the one before it is done
(`OneAfterAnother`), so that the key it carries is not taken by a finished job. A
worker that dies between its last commit and the end of its job breaks exactly this. The
two assumptions are those of the runs; section 3 says what happens without them.

### The catalog: `CatalogProofs`

`CatalogLifecycle`, for any number of versions and package generations, while one request at a
time is held between its reads and its commit and any others commit:

| Theorem | Says |
|---|---|
| `CatalogTypeCorrect` | rows, versions and slow requests stay in their types |
| `PointersStayPublished` | a pointer names a published version; the only one while nobody was overtaken |
| `BindingsStayReleased` | what a published version binds was published before it |

`CatalogInv` adds that pointers and bindings name rows that exist (`RowsExist`), that
seeded versions were released with their seed, and `SlowFits`: a request that has read and not
yet written rests, if it publishes, on a *released* version, and since no status leads back from
published or deprecated to draft it still does when it writes. This is why `NeverOnDraft` needs no
lock, while the uniqueness of the published version does (`~overlapped`): what the
request decided to retire was decided on the pointer it read.

`ProposalGovernance`, for any finite set of proposals, any variants and versions, with one such request:

| Theorem | Says |
|---|---|
| `GovernanceTypeCorrect` | types; no more region publications than proposals (no run repeats it) |
| `ProposalsGovernedOnce` | a decision has one resolution, one plan, one confirmed version |
| `LearningStays` | the step that resolves a proposal keeps what its fields knew and adds what it decided, but for `OvertakenUnnoticed` |

`regions = Cardinality(Resolved)` is what bounds the region versions; `CaseFits` ties a proposal to
the drafts of its template; `PendingFits` says that a slow request decided on rows that have since only
been added to, and that a template with as many drafts as it read has just those. For
templates this makes the unique constraint on the version number refuse a decision that was
overtaken. For fields it does not: an editor's draft is counted in the next number before it is
published, and the pointer is read before the versions. What is proved is the exact condition
under which it does: the request began and read the versions with the newest one published, no draft
and no publication under way. Then whatever is published in between takes the request's number.

`CatalogRecovery`, for any objects, version numbers, children and edits:

| Theorem | Says |
|---|---|
| `RecoveryTypeCorrect` | shapes, and the foreign keys of the catalog after each edit and restore |
| `RestoresAreSound` | a restore gives what its bundle published (but for objects edited after it read the pointers), bundles stay restorable, a restore can be undone |

`RecoveryInv` follows a bundle through its six reads (`CopyHolds`: what was read while
nobody edited is what is there), a restore from its preview to its commit (`RestoreHolds`: its
session holds locked just the rows it changed, the others are there as in the bundle or edited since), and
remembers what the last one found (`OutcomeHolds`).

### Recognition, questions, access, the connection to the model

| Theorem | Assumes | Says |
|---|---|---|
| `RecognitionTypeCorrect` | | cache rows, passes and proposals keep their shape |
| `WorkbooksAgree` | | files with one workbook get one decision in a release |
| `DoubtIsGoverned` | | while no recognitions of a key overlapped, uncertainty reaches a governor |
| `RunsResumeTheirWork` | | merged answers are of one request; a structure is paid for once in a release |
| `QuestionsTypeCorrect` | | records, runs and requests keep the shapes of their rows |
| `RunsCountWhatWasThere` | | what a run counts is of the files frozen at its creation and was stamped by then: committed, or flushed by an import under way |
| `FinishedRunsStay` | | a run that ended stays so, unless a write that read it running is to come |
| `AccessTypeCorrect` | | accounts, sessions, places and requests keep the shapes of their rows |
| `AccessSound` | | sessions are current, an admin remains, reads stay in scope |
| `CallTypeCorrect` | | messages and processes keep their types |
| `CallsEnd` | | no ended call goes on asking; events in order; no answer is lost but to deadline, stop, cancellation |
| `SettingsTypeCorrect` | | key file, starts, saves, rows and page keep their shapes |
| `SecretsKeepTheirKey` | | what is stored opens with the key in place; the page saves what it tested |
| `SettingsSound` | `~Overlap` | moreover a secret is stored with the connection it was entered for |

They hold for any number of files, structures, recovery keys and releases; of runs, imports and
requests; of accounts, tenants, units and sessions; of events and repairs; of
starts, saves and edits. The strengthenings:

- *Recognition*: entries are never of a later release than the one that runs, a pass keeps the
  key of its release, and each proposal of the release holds the final entry of that key
  (`OneDecision`): the insert that loses reads what the winner stored. `Careful`, under
  `~concurrent` only, says that a fast result of this release was merged under the structure
  checkpoint beside it; two overlapping recognitions may exchange just these.
- *Questions*: stamps are given out by one clock (`RecordsAreStamped`), so that a record up to the
  watermark of a run which is stored later existed, committed or flushed, when the run was created (`Scoped`).
- *Access*: a session that is not revoked carries the number of the last change of its
  user (`UnrevokedIsCurrent`); what an admission checked about the administrator who asks is still true at
  its commit (`CallFits`), which is why a platform admin cannot remove himself.
- *Calls*: what was sent is what was delivered followed by what waits in the pipe, events first and the result
  last (`PipeHoldsTheRest`); every outcome was earned by a message, the deadline or a stop
  (`OutcomesAreEarned`).
- *Settings*: at most one process writes the key file, and while it does the file is partial
  (`OneWriter`), so that nobody loads a key that is not the one finally in place.

The proofs corrected two things. `AnAdminRemains` was not inductive as first modelled: a request of an admin
who lost his membership meanwhile, rather than his role, could still remove the last other one. That
takes five changes, more than the run's two, and TLC had not met it; it is the
same race as that of two admins in section 6, and `deposed` now counts it. And `RecoveryAssumption` and the
types of several modules are now stated in full, since a type invariant that leaves a field open
proves nothing about it.

### What is computed: `ContentProofs`

| Theorem | Assumes | Says |
|---|---|---|
| `MatchingIsSound` | | exact means the same bag of parts, rows and summary of a matched file are of one run, a part of the rows makes no plan, a label that fits as leaf or alias is reused on unanimous evidence |
| `AnswersSound` | `DatedOnce` | each asked column is judged once, chunks merge into a valid result, what was rewritten is governed |
| `RequestsAreAccounted` | | its parts about requests, layouts and previews, whatever the codes |
| `ReuseIsFaithful` | | a reused plan reads the same cells, a binding its own column |
| `MachinePlansMaterialize` | | in a plan that no person made no mapping is repeated, and a projected decision is refused at materialization exactly for its columns |
| `StoringIsSafe` | | the two projections of a record agree, none passes twice, a completed execution is complete, decimals fit |
| `RegionsPartAnySheet` | | the regions of a sheet part its cells; none lies in another's bounds or has its corner |

They hold for any regions, compositions and routes (of fewer than 20000 slots: the score of a
partial match is a fraction of 10000 in integers, and `SlotsTold` is where rounding would reach
10000; the assumption is `MatchingAssumption`'s); for any catalogue, any number of columns, any limit per
call and any way to answer; for any layouts, bindings and roles; for any plans and number of rows; for
any grid and any cells of it.

What they share is that the program computes by loops, and a loop is a fold. TLAPS cannot
instantiate an induction principle whose parameter is an operator, so induction is stated as facts
about *sets* instead: a set of numbers that holds the first and the next of each holds all
(`CountingUp`, from `WFMin` of the library), so that a loop of N given steps computes something
(`StepByStep`), and in `QuestionProofs` a family of finite sets that holds each set whose
smaller ones it holds (`BySubsets`). A fold is then unfolded once, at its definition by
CHOOSE, and what it computes is compared with a function on the prefixes or subsets.

- *Matching*: a score is 10000 exactly if nothing is missing (`Share` below `FullShare`), so that the best
  candidate is exact just when one has the same bag; `RightRow` says this of each stored row.
- *Recognition*: the cut into chunks is a partition of what is asked; normalisation is
  idempotent where codes lose one date at most, so the second one, against the whole catalogue,
  finds what the first left. Without `DatedOnce` the theorem is false: see section 6.
- *Plans*: the roles given to repeated fields are fresh however many there are, because a number is
  taken only if none before has it.
- *Records*: `StoringInv` says of every record what it says of itself (`RecordHolds`), and that a
  record that passed has its identity remembered.
- *Regions*: two connected sets of cells in one rectangle meet when one leads from its left side to its
  right and the other from its top to its bottom (`Crossing`). The proof is a discrete Jordan curve
  argument: a connected set that starts in the top row has two sides, told from any of its cells
  (`SidesEverywhere`: they start trivial, stay along a row and are exchanged to the right of a
  step between rows), and a set that keeps clear of it stays on one. Hence two components with one upper
  left corner are strictly nested (`CornersNest`), so that no two have the same bounds, and the order by area
  and corner is total. `ConsolidateLoops` unfolds the loop and `Grouped` is its invariant: what was seen
  or absorbed is parted into groups, each in the bounds of its first, which absorbed all that was in them.

### The answers: `QuestionProofs`

`AnswersAgreeAlways` proves `AnswersAgree` for any origins, drafts, names, figures, records and texts, from
`QuerySpec /\ SourceSpec`. The invariants are small (`QueriesFit`, what is published may be
published and records are of the origins; `SourceFits`, a record is one of the table); the work
is in the equations. Sums over a set do not depend on the order a fold takes
(`SumTotals`), the sum over groups is the sum over what they part, a list cut at its limit and a
ranking keep the first ones of one order, and a text that occurs after normalisation occurs in the SQL
probe. `FactSetsPartitionTheScope` is proved as the run states it, under its precondition.

### All workflows together: `WorkflowProofs`

| Theorem | Says |
|---|---|
| `MatchingTypeCorrect` | the rows of a match keep their shapes, those that a failed run left included |
| `WorkflowsRunTheirParts` | each behaviour of the composition satisfies the specification of all eight parts |
| `WorkflowsTypeCorrect` | hence `WorkflowsTypeOK`, by the type theorems of the parts |

The second carries every theorem about a part over to what the run `workflows` checks. `ProposalGovernance` is
run beside the computations of `contents` instead, where it leaves `workflows` its time.

### What the theorems assume

Besides the columns above: the named assumptions of the modules (`JobQueueAssumption`,
`PipelineAssumption`, `CatalogAssumption`, ...), which say that bounds are
numbers and sets are finite or not empty, and which TLC evaluates in each run;
`QueryAssumption` also says that two drafts of a fact set differ in code or version, as the
table's unique constraint has it. No theorem is about fairness.

Only model-checked:

- `EveryJobSettles`: TLAPS 1.4.5 proves no liveness under fairness;
- `SheetsAreSound` as a whole: `RegionsPartAnySheet` is its half about shapes, the other
  (`TablesAreNamedByTheirLabels`) says which of the header candidates has the highest
  confidence for particular tables, a matter of computing numbers;
- the four violations, which are facts about particular behaviours.

No module uses RECURSIVE operators; sums and components are folds of the community modules. Folds
over an order that is chosen (`SelectSeq`, `SortSeq`, patterns of tuples in set
comprehensions) are out of the prover's reach, so that the modules write filters and orders as
functions and sets (`InOrder`, `Looked`).

## 6. Observations

Met while modelling; not stated as a property violated by a run, because no document
promises the contrary or because the run's precondition excludes it.

**Matching.** A column whose whole path and context agree is reused although its type
does not (7000 + 2000 reaches 8500). A sheet or route may be exact while other regions
are not. A workbook without regions matches none and does not require Hermes.
Direct bindings use their field version even if it was deprecated. An exception in a
match leaves rows of the new run under the summary of the old one until the next match; a plan is
made of them only if they are as many as the summary says, which in the model takes a row for
every region. In the code a published layout may mark regions as ignored, so that after
a change of the catalogue a part could be as many as the older total. A
composition that names version 1 of a region never matches again after governance has
republished it as version 2. `reviews.py` lists columns that `commit_field_governance`
refuses.

**Catalog.** Package installation, backfill and maintenance leave older drafts, whose
publication later goes back behind them. A slow deprecation against an approval of a
legacy template can leave a published version that no pointer names; a slow second
submission can overwrite published with admin_review.

**Recognition.** The mark `contract_repair_invalid_response` is lost when a run dies
after the fast commit and another resumes. Overlapping recognitions of one key may
combine the fast result of one structure with the structure checkpoint of the other.
With all 32 recovery keys taken by incompatible entries, a run works under a random key and
pays for everything again in each run. A request for more than 30 by 40 cells
raises outside the `try`. All role variants of a code proposed in one answer are capped at
0.75. Codes made stable by a date may collide inside a chunk. A code that ends with two dates is
not stable: `normalize_field_catalog_references` (`hermes/recognition.py:2270`) strips one of them
each time, in the chunk's normalisation and again in the merge's (3304), so that a new code which was
valid in its chunk may be a code of the catalogue after the merge; `validate_result` (3323)
then raises, and every retry merges the same checkpoints and raises again. Proving
`MergedIsValid` for every catalogue showed this (`DatedOnce` is what was missing); TLC shows it with
`Dated = [new2 |-> new1, new1 |-> new, known1 |-> known]`. The normalisations of
ignored ranges and of header boundaries do not set the governance flag.

**Model calls.** An answer sent between an empty poll and the look at `is_alive` is
lost. A silent death surfaces as an uncaught EOFError. A stop between
`process.start()` and the registration finds nothing, and the process runs to its
deadline. The text of a refused HTTP request becomes the answer of a chat. `run_json`
joins for 5 s after a message and may leave the process, which has finished, alive. A fork by
another thread between `Pipe()` and `sender.close()` delays the end of file to the deadline.

**Settings.** A start that dies between the creation of settings.key and the write
leaves an empty file that later starts and saves refuse until an operator removes
it. Two overlapping saves mix columns, since unchanged ones are not written: a key may
be stored with the URL of another connection.

**Governance.** Two items whose match names the same published template block each
other: once an acceptance leaves user_confirmed, the others wait for its review,
and after the publication their base is no longer published. A rejection does not withdraw
the provisional version. A reject and an accept that overlap may leave a rejected
proposal with a resolution and a plan. A rerun of recognition after learning fails. An
older manual draft that is published after a learning drops the learned variants. The same in
the other order: an acceptance that read the pointer before a draft was published, and counted the draft among
the versions, publishes the next number from the older version without a collision, and what the
draft taught is lost unnoticed; so does one that reads the pointer, loses to a whole creation and publication,
and then reads the versions (`governance.py:100-109`, `catalog.py:930-991`).

**Import plans.** `publish_governed_regions` stores the layout with absolute rows and
no offsets, so that `project_region_data_rows` raises "no reusable data start
projection" for every later workbook that matches such a region. The mappings of
`_merge_governance_replacement_mappings` are not disambiguated again: an accepted plan
can hold two mappings of one field and role, and materialization raises. A plan projected by region rules
takes their first and last data column as they are (`import_plans.py:740-745`): for a region that is narrower
than what the rules leave out, or with a mapped column among that, the plan is approved, and its materialization
raises in every retry (`materialization.py:662-688`).
`project_layout_plan` does not compare the row range with the region again. Fields of type
text accept "#N/A".

**Questions.** A run that is created while an import is under way may count a part of it: the records that
were flushed before the watermark and committed afterwards, but not those flushed later
(`materialization.py:875-907`, `worker.py:490`). A client that disconnects, or a crash after the run is committed, leaves
the run running: `create_run` and the deletion answer 409 until the user stops it,
and stopping answers 404 once the selected file has no records or its scope no longer
resolves. A stop and a completion race, and the failure of the killed process may be
written before "stopped". `ask_question` creates a pending run that nothing executes. A scope
is frozen, so that a revocation does not stop a running question. `POST /source-supersessions`
cannot succeed: the router requires a governor, whose set of allowed units is empty.
`source_supersession_map` excludes superseded items even when the replacement is no longer
eligible. The history of a second retry again contains the first answer.

**Queries.** `build_question_catalog` groups by approved plan too, the provenance by
template does not: the counts by code are then those of the last plan only. A second version
published with the same rule makes a fact set ambiguous and its safe queries refused, and
nothing retires the first. A rule for a plan beside records of a shared region
template counts twice; and a record of a region template that carries a document template
too (only `backfill_four_layer_foundation`, `templates/four_layer.py:46`, makes one) is counted again by
the fact set that is derived for that document from another record. Duplicates among the requested groups give rows that add up to more than
the count. An aggregate by group has no check of coverage. The official
metric counts null identities that the safe count leaves out. Household numbers of
different villages are mixed. The SQL probe of `lookup_source_records` is normalised and the
indexed text is not, so that valid matches can be dropped; rows are cut before the
filter in Python. A safe group_by is cut at the plan's limit without notice. A safe list
with order_by asks PostgreSQL for SELECT DISTINCT ordered by a column it does not select.

**Access.** `create_unit` checks for a root township and inserts without a lock. Two
admins who disable each other at once leave none. A login that verified the old password
commits its session after the change revoked the others. `delete_tenant` disables memberships
that a reactivation does not restore. A tenant admin has records.read.tenant, but
every records endpoint asks for another permission. `list_batches` lists batches of
disabled villages that `require_batch_access` then does not find. Disabling the bootstrap
admin or unit makes `ensure_bootstrap_identity` raise at the next start.

**Recovery.** The policy says that extra children of baseline versions are removed; that is so only
for versions with at least one child in the bundle, and otherwise the restore is
refused. The snapshot alone is refused after `normalize_baseline_sources`, which changes
hashes and is not idempotent for v2 snapshots. A restore takes another advisory lock
than the package installer (`catalog_recovery.py:141`, `four_layer_publish.py:516`)
and requests take none. What is created or published between the restore's SELECT of the objects and its commit
stays published, though the recovery design
(`src/design/2026-08-01-four-layer-emergency-recovery.md:39`) has added objects leave the matching; and an
object of the bundle may be left with two published versions, or a pointer that names a version which is not
published. TLC shows the first with 2 objects and 2 edits if `RestoredIsTheSnapshot`, which excepts the objects in
`touched`, is stated without the exception. A truncated file raises an EOFError that is not caught;
nothing is changed.

**Parsing.** Bounding boxes of regions may overlap in part; only contained ones are
absorbed. The cap at 0.98 makes ties: with a header in another style than the data, a merged
title over it becomes part of every header path. Groups over labels in the style of
the data are not kept.

**Question page** (read, not modelled). Back or forward while a question streams
switches the conversation under it, and a stop then addresses the other one. A stop during the
reload after a stream clears the busy flag, and the end of the earlier submission then
wipes the next question's turn. Stop is offered while busy only, so that a run left
running cannot be stopped from the page.


## 7. Not modelled

`components` in `PROJECT.json` has the status of every part. Left out, and why:

- *External or I/O*: the language model, providers' endpoints and discovery, encryption,
  HTTP, files, spreadsheet readers and format detection, cleanup of storage, transfer between
  servers, container lifecycle. Models choose freely among their results.
- *Data and wording*: labels, tokens and text normalisation, fingerprints, SQL texts and
  their validation, audit payloads, titles, error texts, manifests and checksums of bundles.
- *Read side*: listings, display of plans and fields, `reviews.py`, evidence of answers,
  conversation history and retries, records and health endpoints beyond the scope they grant.
- *Fixed data and drivers*: seeds, bootstrap data, regression drivers, migrations.
- *Small remainders of modelled parts*: creation of tenants and units, password rules,
  rejection of an item, audit events and the restore of a bare snapshot, the semantic filters
  of `lookup_source_records`, limits on the number of groups, the branch of `run_json` that runs
  in a thread (used by tests only).
- *Frontend*: of the pages only the settings page keeps a state whose order of events matters to
  the server; the question page has one too, and section 6 says what reading it showed.

Products left out: the pipeline's endings with lost leases (a zombie whose ending was
refused still runs the FAILED branch, `worker.py:630`), whose state space is that of
both modules multiplied; and the modules of `MCWorkflows` with each other, which meet
at committed rows only (section 2).

## 8. Plan

1. An abstract specification of the catalog (one published version per code) that both
   `CatalogLifecycle` without overlap and `CatalogRecovery` implement.
2. The resolution of a materialization against superseded files, and the question page.
