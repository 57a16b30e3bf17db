# Amanuo in TLA+

This directory is the verification project of amanuo, a document-extraction
service: clients upload document images with a schema, workers extract the
fields with a cloud or local model, low-confidence or policy-bound results are
reviewed by people, and webhooks tell other systems about it. It holds TLA+
models of the parts of the backend in which concurrency, failure and ordering
matter, TLC configurations that check them on small instances, and TLAPS proofs
of the most important properties for every size. Paths below are relative to
the repository root; those without a directory are under `src/`.

## 1. Inventory of the system

The backend is one FastAPI process (`src/main.py`), an optional ARQ worker
process (`src/services/arq-worker-settings.py`), a database (SQLite or
PostgreSQL), and optional Redis. Every service function opens its own database
session and commits once, so *one session is the unit of atomicity* and every
`await` between two sessions is a point where other requests run.

| Component | State it keeps | Operations | Talks to | Modelled |
|---|---|---|---|---|
| Job submission (`routers/extract.py`, `services/job-service.py`) | `jobs` rows, uploaded files | create, save upload, set input file, enqueue | worker queue | yes |
| Batches (`routers/batch.py`, `services/batch-service.py`) | `batches`, `batch_items` | create, add item, count, cancel | jobs, worker | yes |
| Extraction worker (`services/extraction-worker.py`) | in-memory queue, coroutine locals | process_job, worker loop | everything below | yes |
| ARQ worker (`services/arq-worker-settings.py`) | Redis queue, try counts | process_extraction_job, deliver_webhook_task | worker, webhook delivery | partly |
| Pipeline engine (`engine/`, `routers/pipelines.py`) | `pipelines`, step context | create, update, run steps in order, stop on error | worker, providers | yes |
| Providers and routing (`pipelines/`, `services/router-service.py`) | the remembered local backend | route, look for a backend, fall back, retry | external models | yes |
| Folder watcher (`services/folder-watcher.py`) | the watched directory | watch, make jobs, enqueue, move | jobs, worker | yes |
| Approval engine (`services/approval-engine*.py`, `routers/review-workflow.py`) | `review_rounds`, `review_assignments`, audit log, `jobs.status` | start, assign, submit review | jobs, policies | yes |
| Approval policies (`services/approval-policy-service.py`) | `approval_policies` | create, update, soft delete | approval engine, schemas | partly |
| Single review (`services/review-service.py`) | `extraction_reviews` | submit review | jobs | partly |
| Webhooks (`services/webhook-service.py`) | `webhooks`, `webhook_deliveries` | subscribe, delete, publish | webhook delivery | partly |
| Webhook delivery (`services/webhook-delivery.py`) | in-memory queue, delivery rows | deliver, schedule retry, retry checker | subscriber endpoints | yes |
| Auth and roles (`services/auth-service.py`, `role-service.py`, `routers/users.py`, the middleware) | users, API keys, roles, tokens | register, login, assign, remove role, keys | every router | yes |
| Workspaces (`services/workspace-service.py`) | `workspaces` | create, delete | every row | yes |
| Schemas (`routers/schemas.py`, `schemas/`) | schemas and versions | create, update, delete, seed | extraction, policies | yes |
| Database and startup (`src/database.py`, `src/main.py`) | tables, `schema_version`, seeds | migrate, seed, serve | everything | partly |
| Migrations (`src/alembic/`) | the same tables | upgrade, downgrade | database | partly |
| Accuracy, hints, templates, analytics | two caches, a usage counter | read-mostly | reviews | no |
| Live events (`services/event-broadcaster.py`, `routers/websocket-events.py`) | open sockets | publish, subscribe | frontend | no |
| Frontend, Gradio UI | none of their own | presentation | HTTP API | no |

### What is hard in this system

* **Interleaving at every await.** `process_job` alone has seven sessions; cancel
  requests, reviewers and other workers run between any two of them.
* **Read in one statement, written in another.** The batch counters
  (`batch-service.py:66`), the votes of a quorum (`approval-engine.py:194`), the
  policy of an active round (`approval-policy-service.py:113`), the version of a
  schema (`routers/schemas.py:113`), the first user of a workspace
  (`auth-service.py:142`), the pipeline of a run (`extraction-worker.py:119`).
  What protects some of them is SQLite's single writer, and PostgreSQL does not
  have it.
* **Two queues under one interface.** `enqueue_job` and `enqueue_delivery` use ARQ
  (at least once, with a retry limit and a timeout) or an `asyncio.Queue` that
  dies with the process.
* **Retries that do not remember**: the webhook retry checker queues an overdue
  delivery every 30 s until somebody changes its row. **And memory that is not
  looked at again**: the local provider asks once which backend is up; a token
  carries the roles of its login.
* **Crashes between two commits**: a row saved and not queued, a workflow started
  and its job not yet `pending_review`, a user without a role, a file with a job
  that is not moved, tables without their version stamp.
* **Feedback**: the folder watcher sees its own renames.

### What makes each component correct

| Component | Correct means |
|---|---|
| Extraction worker, ARQ | a job is in one hand at a time; in memory it never runs twice, with ARQ it is run to its end; nothing but a review changes a completed job; one approval workflow per job |
| Batches | status and counters agree; the counters never exceed the files; "completed" is true of every file |
| Pipeline engine | a run uses one config; after an abort nothing runs and nothing is "completed"; whatever a config holds, its jobs end |
| Providers | a call fails only if nothing could serve it; what is remembered had a reason; no call is paid for twice; every call ends |
| Folder watcher | a file becomes one job, also across a crash; none is forgotten; the watcher does not feed itself |
| Approval engine | one active round until the decision and none after it; one decision; a chain runs exactly its steps and follows its votes; a quorum approves only on enough votes, and its last vote decides |
| Webhooks | a final status is earned; no pending delivery is forgotten once it is queued where a worker reads; retries end |
| Auth and roles | a workspace with users has had an admin; no admin alone locks it out |
| Schemas | the current version is in the history; a version number keeps its word; the three judges of a breaking change agree |
| Startup | it comes up, with everything in place, from every state an interrupted start leaves; it gives and takes roles once |

## 2. The modules and the code

| Module | Models | Used by |
|---|---|---|
| `BatchStatus` | `_derive_status` and the batch statuses | `ExtractionWorker` |
| `TaskQueue` | abstract: what a queue promises, at most or at least once | refined by `ExtractionWorker` |
| `ExtractionWorker` | `routers/extract.py`, `routers/batch.py`, `batch-service.py`, `job-service.py`, `extraction-worker.py`, ARQ's part | `MCExtractionWorker`, proofs |
| `ReviewDecision` | abstract: levels of review, one decision | refined by `ApprovalEngine` |
| `ApprovalEngine` | `approval-engine.py`, the handlers of `review-workflow.py`, `update_policy` | `MCApprovalEngine`, proofs |
| `WebhookDelivery` | `publish_event` and `delete_webhook`, `webhook-delivery.py` | `MCWebhookDelivery`, proofs |
| `Database` | `init_db` and its migrations, `init_db_postgres`, what the lifespan's seeding needs, `alembic upgrade` | `Accounts` |
| `Accounts` | `auth-service.py`, `role-service.py`, `workspace-service.py` and their routers, on the database of `Database` | `MCAccounts`, proofs |
| `SchemaVersioning` | pure: `schema-versioning.py`, `schema-migration.py`, `schema-validator.py` | `SchemaCatalogue` |
| `SchemaCatalogue` | `routers/schemas.py`, `schema-store.py` | `MCSchemaCatalogue`, proofs |
| `PipelineEngine` | `engine/`, `routers/pipelines.py`, the middle of `process_job`, the confidence scorer | `FolderWatcher` |
| `FolderWatcher` | `folder-watcher.py`, with the worker of `PipelineEngine` and both queues | `MCIngest`, proofs |
| `Providers` | `router-service.py`, `local-provider.py` and its backends, the cloud providers and their retries | proofs |
| `ExtractionWorker_proofs`, `BatchCounters_proofs`, `ApprovalEngine_proofs`, `WebhookDelivery_proofs`, `Providers_proofs`, `FolderWatcher_proofs`, `SchemaCatalogue_proofs`, `Accounts_proofs` | theorems | |

The `MC` modules only fix constants and symmetry, and the approval engine's a
constraint. Definitions commented as slips
or faults (`TakeKeeping`, `CountedBoth`, `GenerateUnguarded`, ...) are wrong
variants of the definition that follows them. No specification uses them; with
one of them in the place of the right definition a run's property fails, which
shows that the property can.

**ExtractionWorker.** `step[j]` is how far the submit handler is with a file
(`unsent`, `created`, `linked` to its batch, `sent`; `skipped` if its type or size
is refused; `lost` if the handler died). `pc[w]` is the await at which a worker
stands: `loaded` after the SELECT at lines 48-50, `running` after
`status="processing"`, `saving` once the status is determined, `failing` in the
exception handler, `piped` when the result came from a pipeline, `reread` before the
SELECT at 108, `counting` and `writing` around the two statements of
`update_batch_counters`. `Drop` is a run that ends early without a trace: an error
in the handler's own update, in the re-read or in the counter update, or ARQ's
timeout. The provider's answer and the confidence are a choice among the statuses
they can lead to. For a pipeline, whose confidence is always 0.0, that is
`pending_review`, or "completed" if the threshold is zero (`AcceptsZero`). A job
without `schema_fields` fails in `_load_schema`. `process_job` returns after saving
a pipeline's result (line 81) and does not count it, while a pipeline's failure goes
on to the counters like any other. The approval workflow is reduced to `started` and
`finalised`, because all the worker shares with it is `jobs.status`. `legacy` is
`review-service.submit_review`, check and write.

**ApprovalEngine** is one job's workflow: rounds as rows in order of creation,
assignments as (round, user, copy), a `Value` as an approval with corrected
fields. Each request has a `pc` for the handler's lookup, the UPDATE of its vote
(which takes SQLite's write lock or PostgreSQL's row lock), the evaluation and
the commit. `Seen` is what the transaction reads: committed votes and its own.
The worker's `start_approval` and its later save are two steps, and so are
`update_policy`'s check and write. Any number of requests may be under way. Both
handlers look the active round up in one session and write in another, so a request
may write to a round that was closed in between: `assign_reviewers` puts it back in
progress, and a second vote counts again. `late` is history and says that this has
happened. `OneActiveRound`, `ChainFollowsVotes` and `ChainRunsItsLength` are stated
up to such a write and do not hold after it; `ReviewDecision` says what is left
then: levels and decisions are not taken back.

**WebhookDelivery** has a delivery for each event and webhook. `deployment` is
chosen at the start: the queue, in memory (one worker) or Redis (any number),
and whether the tables have foreign keys: those of `database.py` on SQLite refuse
to delete a webhook that has deliveries, the ORM's on PostgreSQL do not. `queued`
counts a delivery's entries in the queue, `due` is `next_retry_at` (none, in the
future, overdue), `seen` the attempt that a worker read before its POST. No
operation makes a webhook inactive, so the branch for that is not in the model.
`Enqueue` queues all the rows of an event in one step. `publisher` is the process
of an event: `enqueue_delivery` asks for the Redis pool, which only the lifespan of
the API makes (`main.py:75`) and `startup` of the ARQ process does not
(`arq-worker-settings.py:33-39`), so what that process publishes lands in `fallback`,
a queue in its memory that no worker reads.

**Database** runs `init_db` statement by statement. `conn` is what its connection
sees and `disk` what is committed: SQLite's driver commits DDL by itself until the
first INSERT opens a transaction, which the one `commit()` at the end closes, so a
crash (`ProcessDies`) keeps the statements before the first stamp and loses the
rest. A start finds an empty database, or one used by a former version of the
program (`Used(v, admins)`, on either database), or what an interrupted start left.
`AlembicUpgrade` is the first revision's `upgrade()` as far as SQLite lets it run. All
the indexes are one object. PostgreSQL's start is `create_all` and the seeding of its
defaults, two transactions. `create_all` makes the tables that are missing and never
adds a column (`NewTables`). Over a former version's tables the server therefore does
not come up: `seed_templates` selects every column of `SchemaORM`, every version
since the first has added one (`Outdated`), and `lifespan` ends with the exception.
So no server serves with a column missing, but none comes up there either, which
`ComesUp` excepts. The rows that `lifespan` seeds are left out, because clients may
delete them and the next start only writes them again.

**Accounts** runs while `phase = "serving"`. A handler is at `insert`, `check`,
`grant` or `remove`: before the INSERT of the user, before the SELECT and the INSERT
of the role, and between the check of the caller and the DELETE, when the token may
expire and the key be revoked. `granted_by` refers to a user on SQLite, so a role
given with an API key is refused there (`KnownGranter`). Tokens are the pairs of
user and workspace that say "admin", and are honoured until they expire, or until a
restart makes up a new secret. `led`, `cut` and `alone` are history: the workspaces
that have had an admin, the users whose registration a crash cut off between its two
commits, and the removals whose caller was an admin when checked and which no other
removal in the workspace has met.

**SchemaCatalogue** has a request read the schema (`UpdateRead`) and write it with
its next version (`UpdateWrite`), or end without effect because a UNIQUE constraint,
a foreign key or a lock was in the way (`Abort`). `SchemaVersioning` has the rules:
a list of fields may hold a label twice, since only creating a schema validates,
and Python's `next(...)` finds the first of them and a `dict` keeps the last.
`stripped` is history: the schemas whose delete another workspace asked for.

**PipelineEngine** is a worker from the row of its job to the saved result.
`run[w].at` is the await it stands at, `config` the steps it has read and `context`
the `StepContext`. A result lists the document it was extracted from, and an export
without one leaves the empty list. The direct route's score is chosen by whether the
required fields have values, which is all it depends on, because no provider reports
confidences of fields; a pipeline's confidence is always 0. `Threshold` is any
integer, since the setting is not validated, and a config may be empty.
**FolderWatcher** composes it with the loop of the watcher, the directory, the
changes that `awatch` has not yielded yet and the queue. In memory `put` and
`rename` follow each other without an await; with Redis the file is moved after the
job may already be running, so `EnqueueMemory` is one action and `EnqueueRedis` and
`MoveFile` are two. Ids are random in the code; here a file's job gets the lowest
free one and an upload's the highest, which is a choice of names only. `Image` is
what the worker finds at the path of its job.

**Providers** has a call per worker: `probe` asks one backend of `health_check`
after the other, `generate` waits for the model, `scan` looks for a backend for
PaddleOCR's text and `text` waits for that, `post` and `wait` are the cloud's try and
its backoff. `active` is `_active_backend`, shared by all calls. Backends go down
and come up at any moment. `quiet` and `everDown` are history for the properties.
PaddleOCR may be missing, which is caught, and making its engine or reading the document
may raise, which is not (`paddleocr-fallback.py:45-46`): then the call fails.

## 3. What is checked

Bounds are the constants of each `.cfg`. Deadlock checking is off for the approval
engine and the webhooks, where everything may be finished.

| Run | Instance | States | Shows |
|---|---|---|---|
| `worker_memory` | in-memory queue; batch of 2 and one single job; 2 workers; 1 crash, 1 dropped run; a job that may go through a pipeline, one without inline fields, a threshold of zero, reviews of one job | 1,009,488 | types; `CompletedIsTruthful`, `NoOvercount`; `CompletedStays`; `TaskQueue` implemented at most once |
| `worker_arq` | ARQ; batch of 2; 2 workers; 2 crashes, 1 dropped run, 2 tries | 81,727 | `OneOwner`; `SentJobsSettle` (liveness) |
| `approval_chain` | chains of 1, 2 and 3 steps, edited once; 2 users; 2 requests at once, late ones among them | 262,538 | types; `OneActiveRound`; `ChainFollowsVotes`; `ChainRunsItsLength`; `ReviewDecision` implemented |
| `approval_sqlite` | quorum of 2 with 2 users; 2 requests at once; 2 ways to correct a field; up to 3 rounds | 843,066 | `LastVoteDecides`; `QuorumMet`, with stale reads and aborts |
| `webhooks` | 1 event of either process, 2 webhooks, 1 backoff, 1 fault; in memory on SQLite with 1 worker and on Redis and PostgreSQL with 2 | 137,763 | types; `OutcomeEarned`; `NotForgotten`; `AttemptsGrow`; `RetriesEnd` (liveness) |
| `accounts` | 2 users, 2 handlers, 1 token, 2 workspaces; admin roles given and taken; SQLite and PostgreSQL, each from empty or any of 4 former versions; 1 crash or run of alembic | 433,418 | types; `ServingIsCurrent`; `FirstIsAdmin`; `RolesSeededOnce`; `NoLockoutAlone`; `ComesUp` (liveness) |
| `schemas` | 1 seeded name, 5 lists of fields, 2 clients, 2 workspaces, both databases, 1 restart, up to 2 versions before an update | 800,754 | types; `CurrentIsSnapshot`; `SemverTruthful`; `BumpsAgree` |
| `ingest` | 2 files, 2 names, 1 upload with a pipeline that changes, 3 configs of which one is empty, either queue, 1 fault, providers that may raise | 575,956 | types; `OneJobPerDrop`; `AbortedIsReviewed`; `WatcherQuiet`, `AllMoved`, `JobsSettle` (liveness) |
| `providers` | 2 calls at once, 3 backends of which the second listed is preferred, 3 tries, OCR that may raise, restarts | 399,443 | types; `FallbackServes`; `ChoiceHadReason`; `PaidOnce`; `CallsEnd` (liveness) |

The other three runs end in a counterexample and are the findings of section 5.

*Why the bounds are enough.* Two workers, calls, clients or handlers are what a lost
update, a double run, a stale read or two first users need. Two files in a batch
give every order of counting them, a batch with one counted, one skipped or one lost
file, and the single job shows that jobs without a batch leave the counters alone.
One crash hits every state once, also every statement of `init_db` from every version
and the steps after a migration that was cut off; a second one is what uses up two
tries with ARQ. Three rounds are the longest chain of `Configs` and, for a quorum,
two escalations. Two requests are what writes to a round closed in between; after such
a write `approval_chain` follows a behaviour through two rounds only (`Bounded`),
since all that is claimed from there on is `ReviewDecision`'s `Lapse`, which is also
proved without any bound. One backoff
gives a delivery a first and a last attempt, and `MaxQueued = 2` lets it be under
way and queued again; every safety property of that run is also proved for any
number of backoffs, webhooks and entries, so that only `RetriesEnd` rests on the
bound. One schema at a time is enough because schemas share nothing but names;
five lists of fields make every kind of bump, and one holds a label twice; an
update may begin with two versions there, so a history has three and more while
both clients are under way. In `ingest`
`Threshold` is 80, because with the default of 95 nothing can be completed
(section 5) and `AbortedIsReviewed` would say nothing; the theorem is for every
threshold, and for one of zero or less claims nothing, since there an aborted result
is completed. In `accounts` admins give and take the admin role only (`Managed`), the
one that opens anything, and one token at a time tells a caller with a token from one
without. The preferred backend of
`providers` is one in the middle of the list, so that the two orders in which
backends are asked differ on both sides of it.

*Fairness.* `ExtractionWorker!FairSpec` has weak fairness of each worker's steps:
the event loop runs every ready coroutine, `_worker_loop` never ends and ARQ
polls; a provider call comes back, by its timeout if nothing else. Clients,
reviewers, crashes and dropped runs are under no obligation.
`WebhookDelivery!FairSpec` has weak fairness of publishers, workers, the passing
of time and the checker's rounds. It has strong fairness of taking a delivery's
entry: the queue is first in first out, so an entry is taken although the worker is
busy in between again and again. `Accounts!FairSpec` has weak fairness of `Start`
alone: a process that is down is started again, by its supervisor or by hand, and
runs on; no user is obliged to anything. `FolderWatcher!FairSpec` has weak fairness
of the loop and of each worker, tasks of one event loop, and not of `Restart`.
`Providers!FairSpec` has weak fairness of each call's steps: every request has a
timeout (`httpx` in the backends, `gemini-provider.py`) and every sleep an end.
`ApprovalEngine` has no fairness, since nobody is obliged to vote, and deadlines are
stored but never enforced. `SchemaCatalogue` has none: it states no liveness.

## 4. What is proved

All proofs are for every value of the constants allowed by the assumptions
(`WorkerAssumption`, `ApprovalAssumption`, `DeliveryAssumption`,
`ProviderAssumption`, `EngineAssumption`, `WatcherAssumption`, `CatalogueAssumption`,
`DatabaseAssumption`, `AccountsAssumption`: types, finiteness of what is counted,
distinct null values). Every safety property that a run checks, invariant or action
property, is stated by a theorem.

* **Ownership and the queue** (`ExtractionWorker_proofs`). `TypeOK` and `OneOwner` are
  inductive together: `TypeOK` alone is not, because a worker reads the row of the
  job it holds and the counters of that job's batch, and that it holds one, with
  a batch when it comes to the counters, is `OneOwner`.
  `QueueRefinement` maps each action to a step of `TaskQueue`: a crash is its
  `Fault` with `Redelivered` put back, every `Release` its `Finish`. It is for both
  queues; the run checks the in-memory one.
* **Batch counters** (`BatchCounters_proofs`). With `update_batch_counters` not
  atomic, `completed + failed <= total` is not inductive: a worker may write a
  stale value. `CountsBounded` is. It bounds the row *and* every value a worker
  has read by two sets of jobs that only grow, those that are settled and those
  that are done for good (`SetsGrow`); the job that is being counted joins them
  with the write (`CountedJoins`), so one more is within the new bound even if
  the value was stale. Its other parts say that a workflow begins once and
  before the result (`WorkflowsBegin`) and that a completed job has none
  (`CompletedUnreviewed`). From it follow `NoOvercount`, `CompletedIsTruthful`
  (with `StatusMatchesCounters`, inductive with `BatchBeforeJobs`),
  `OneWorkflow` and `CompletedStays`. All but `StatusMatchesCounters` are about
  the in-memory queue: a redelivered ARQ job may be counted twice.
* **Approval** (`ApprovalEngine_proofs`), for any number of requests at once.
  `InTurn` says that a request has found a round that exists and that, up to a write
  to a round closed in between (`late`), the last round is the active one until the
  decision. No lock is assumed for it: a commit that finds its round still active is
  the only one that can close it. It gives `OneActiveRound` and the refinement of
  `ReviewDecision`, the level being the number of rounds and a late write its
  `Lapse`. With one writer at a time (`OneWriter`: SQLite and a quorum),
  `DecidedOnVotes` says that what a request has decided still follows from the votes
  in the rows and its own; it gives `QuorumMet`. `VotesInRounds` adds that votes
  belong to rounds that exist, so a new round has none, and gives `LastVoteDecides`:
  who plans to wait has seen a vote outstanding, and it still is. The chain
  properties, for chains of any length, are about several rounds and so not
  inductive. `ChainVotes` is: it adds that, while nobody has been late, the active
  round has no vote and a closed one has one, which is an approval just when a round
  lies above it or the job was approved, and that a request which has planned its
  commit planned what its own vote says. It gives `ChainFollowsVotes`. `ChainLength`
  adds that rounds are numbered as they are created and a plan to go on or to approve
  was made at the right step of the policy, for as long as nobody has begun to edit
  that: `ChainRunsItsLength`.
* **Webhooks** (`WebhookDelivery_proofs`), for any set of deployments. `OutcomeEarned`
  needs `TriesCounted`: the attempt in the row and every attempt a worker has read is
  at most one more than the refusals so far. `NotForgotten` needs `Traced`: what a
  publisher will enqueue is exactly what it saved, only saved rows are queued or held,
  and a delivery that was tried before has a time for its next try. What the ARQ
  process published is excepted by name, and only until its first try. `AttemptsGrow` is
  about the in-memory queue and needs `SeenCurrent`: its one worker's attempt is the
  one in the row, so what it writes back is one more.
* **Providers** (`Providers_proofs`), for any number of calls and tries and every
  preferred backend. `CallInv` carries all of it. `Asked`: what a probing call has
  asked so far was down at some time, in the order of `health_check` (`Orders`); with
  the last backend asked that is all of them, which gives `ChoiceHadReason` whoever
  else writes `active` meanwhile. `Ahead`: for a call that is still quiet a backend
  that is up lies ahead of it: in `scan` at the place it will ask next or later, in
  `text` it is the one that was asked; a backend that goes down ends the quiet, one
  that comes up only helps. So `scan` cannot run out of the list and `text` does not
  fail, which is `FallbackServes`. `Apart` separates calls of the cloud from local ones and
  says that one that posts has no answer yet: `PaidOnce`. An exception of PaddleOCR ends
  the quiet like an unusable answer.

* **The folder watcher** (`FolderWatcher_proofs`), for any number of files, names,
  workers, pipelines and faults and either queue. `OneJobPerDrop` alone is not
  inductive: when the loop makes a job it must know that the file has none yet.
  `JobsAreAhead` says so: without a fault a file that is still in the directory has
  no job unless it is the one in hand or shares its name with an earlier one;
  `InHand` that the file in hand is there and has the job in hand; `Numbered` that a
  document is under one name only. For the worker `RunGood` says that what it has
  read still goes with the row of its job, whatever clients do to the pipeline, and
  `JobGood` that an aborted job is not completed and a watched one, which has no
  fields, comes to nothing. They give `AbortedIsReviewed`, `TypeOK`, and
  `WatchedJobsFail`, the second half of the watcher's finding in section 5: not only
  some but every watched file goes without a result.
* **Schemas** (`SchemaCatalogue_proofs`), for field lists of any length, any number
  of clients and histories of any size. Two lemmas about the rules carry it:
  `NextVersionCases` (what kind of change each of the three bumps is) and that a
  bump which is not a major one keeps every field with its kind (`Extends`), which
  is transitive. `SemverTruthful` compares two versions that may have been written by
  updates that never saw each other, so it is not inductive. `Complete` and `Ordered`
  are: all minor versions of a major one are there from its first on, and each has
  the fields of those before it. An update that read an old version and would break
  the order produces a version that is there already, and the UNIQUE constraint
  refuses it (`UpdateGood`). `Recorded` keeps the version that an update has read in
  the history until it writes. From the same invariant follow `CurrentIsSnapshot`
  and `TypeOK`; `BumpsAgree` follows from the rules, for lists in which no label
  occurs twice.
* **Startup and accounts** (`Accounts_proofs`), for any number of users, handlers,
  tokens and faults, both databases and every former version on either. `Covered` is
  the invariant of `init_db`: what its connection does not see yet, it still has to
  run, and what is committed it sees. It holds at the start because `Statements(v)`
  makes all that version `v` does not have (`StatementsCover`) and a committed
  database has what its version says (`Upgraded`): the stamp is never committed
  without the statements before it. At the commit nothing is left to run, which is
  `ServingIsCurrent` on SQLite. On PostgreSQL a database is of a former version
  (`Former`: a schemas table without all its columns), stays so, and no start gets
  past it, or it has all the tables of this one (`Whole`). `StartKeeps` says what a
  step of starting does to users and roles and gives `RolesSeededOnce`, with `Seated`
  and `Unstamped`: either all users are admins already or still to be made ones, or
  the stamp of the latest version cannot be committed by this start. `FirstIsAdmin`
  needs `Founded`, per user instead of per workspace (a user whose registration as an
  *admin* is under way or was cut off), and `Answered`: a handler that will register a
  member has seen a user of the workspace, and that user is still there. On SQLite it
  also needs that the users' workspaces exist, or else the role of a first user could
  be refused by a foreign key. For databases below the latest version nothing is
  claimed until the migration to it has made their users admins (`Settled`,
  `Grounded`). `NoLockoutAlone` needs `LeavesOne`: between its check and its DELETE a
  removal that nobody else's meets has an admin besides its target, the caller, whom
  nothing but a removal could take.

Model-checked only: liveness under fairness, which is beyond the prover
(`SentJobsSettle`, `RetriesEnd`, `ComesUp`, `WatcherQuiet`, `AllMoved`, `JobsSettle`,
`CallsEnd`). Nothing rests on a recursive definition: the statements of `init_db`
are written out as the concatenation of its four migrations.

## 5. Where the code and its documentation disagree

Three runs check one statement of the repository each, and TLC finds it violated.

| Run | Statement | What happens |
|---|---|---|
| `worker_lost_update` | "Atomically update batch counters" (`batch-service.py:64`) | two workers read the same counters and both write one more: one job is never counted and the batch never ends |
| `approval_escalation` | "Chain: Move to next round on approval, escalate on rejection", "If any round rejects: escalate to approver level" (`docs/system-architecture.md:417`, `:427`) | `_advance_chain` (`approval-engine.py:163`) ends the chain with the first rejection: the job is rejected and no further round is opened. `ChainFollowsVotes` states what the code does |
| `watcher` | "For each file: ... Extract → score → store result" (`docs/system-architecture.md:243-246`) | the watcher's jobs have no inline fields and name a file that is moved away: every one of them fails |

Met on the way and visible in the models, without a run of their own:

* *Worker and batches.* A job cancelled while queued still runs: `process_job` does
  not look at its status (`extraction-worker.py:65`). A file whose result was saved
  from a pipeline is not counted, because `process_job` returns at line 81, and its
  batch is then never terminal; one whose pipeline failed is counted, so a batch of
  such files alone does end. So no property says that a batch ends.
* *Approval.* A vote submitted twice at once replaces the first
  (`approval-engine.py:129`) and in a chain advances it twice, so that two rounds
  are active. `assign_reviewers` puts a round back in progress that was closed after
  it was looked up (`routers/review-workflow.py:110`). Both are `late` in the model.
  On PostgreSQL the last two votes of a quorum each wait for the other, and nothing
  decides (`approval-engine.py:194`). The worker saves `pending_review` after the
  workflow is committed, so a decision taken in between is overwritten
  (`extraction-worker.py:219-222`). A policy can be edited under a round that began
  after the check, although that is "only allowed if no active rounds reference it"
  (`approval-policy-service.py:92`, `:113`), and a soft-deleted one goes on to
  govern its jobs' rounds. A user assigned twice to a round can never vote:
  `scalar_one_or_none` raises (`routers/review-workflow.py:139`).
* *Webhooks.* What the ARQ process publishes is never delivered: `enqueue_delivery`
  says "Schedule delivery via ARQ if Redis available" (`webhook-delivery.py:41`),
  but that process makes no Redis pool and falls back to a queue that only the API's
  worker would read (`fallback`; `NotForgotten` excepts it). A delivery queued twice
  can be delivered, then refused, and pending again (`webhook-delivery.py:72`,
  `:198`). It is tried five times, not "max 4": `RETRY_BACKOFFS` has four entries.
  `batch.completed` and `batch.failed` (`models/webhook.py:10`) are never published.
* *Startup and accounts.* `alembic upgrade` drops `schema_version`, so the next
  start runs every migration again and makes every user an admin (`RolesSeededOnce`
  says when). A workspace can lose its last admin, in spite of
  `routers/users.py:63`, through a token that has outlived its role, through an API
  key, or through two admins who remove each other: that is what `NoLockoutAlone`
  leaves open. On PostgreSQL a server never comes up over the tables of a former
  version: `create_all` adds no column (`database.py:394`). A role cannot be given
  with an API key on SQLite, since `granted_by` refers to a user (`database.py:270`,
  `routers/users.py:50`).
* *Schemas.* A delete by another workspace removes a schema's history and then finds
  nothing to delete (`routers/schemas.py:203-208`; `stripped` in the model).
* *Pipelines.* The result of a pipeline has the provider's confidence, which is
  always 0.0: `score_from_results` does not exist (`extraction-worker.py:150`),
  although the default pipeline "matches MVP behavior"
  (`engine/pipeline-config.py:8`). So every such result goes to review, unless the
  threshold is zero. On the direct route the score is at most 0.85, below the
  default threshold of 0.95 (`config.py:40`), so that with the defaults no job is
  ever completed without a review, where `README.md:190-206` shows one with 0.98. A
  step's mode overrides a `local_only` job's (`engine/steps/extract-step.py:68`).
* *Folder watcher.* Its own moves are changes and make batches without files. A file
  left over by a crash is not seen until it is touched. A second file of a name
  overwrites the first in `processed/`; one that is dropped over the file in hand is
  moved without a job of its own (`shared` in the model).
* *Providers.* `local-provider.py:54-66` remembers PaddleOCR for the life of the
  process even if it is not installed; later calls then fail although a backend has
  come up meanwhile, without the "multi-backend fallback" of
  `docs/system-architecture.md:94`. `auto` is the cloud (`router-service.py:33`),
  where `docs/system-architecture.md:219` tries local first, and a failed local call
  is not taken to the cloud as in `docs/project-overview-pdr.md:199`. Timeouts and
  connection errors are not retried (`cloud-utils.py:49`). A rate limiter is made
  for each call (`pipelines/cloud/__init__.py:14-22`) and never limits.

## 6. What is not modelled, and the plan

Left out for good:

* what models and people answer: images, prompts, parsing, signatures, payloads,
  passwords; the models have a choice of outcomes instead;
* read-only endpoints, analytics and the templates' import, which only counts and
  copies (`template-service.py`; its seeding is in `Database`); cost tracking, which
  has no caller;
* live events (`event-broadcaster.py`, `websocket-events.py`): they pass through Redis
  without any guarantee to state;
* the prompt hints (`prompt-hint-builder.py`), which nothing in the repository calls;
* the user interfaces; the `downgrade` and the offline mode of the migrations.

Partly modelled: of the ARQ worker the cron job that refreshes views; of policies
their creation and listing; of single reviews the correction diff; of webhooks the
subscription itself, which is the initial state; of the database the settings and
the Redis pool.

What is left, in this order:

1. **Worker and approval together**: `ExtractionWorker` with the engine's rounds in
   place of `started` and `finalised`, for the overwritten decision.
2. **Reviews without a policy**: two reviews of one job at once and the correction
   diff, with the cache of accuracy metrics, whose key leaves out `limit`
   (`accuracy-service.py:125`).
