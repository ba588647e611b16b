# Verification of invokr

TLA+ models of [invokr](../src/README.md), a multi-tenant job scheduler on
PostgreSQL: an HTTP API stores jobs, pg_cron turns CRON jobs into executions,
and worker pods claim executions, call their target and record the outcome.
Applications use it through a client trait with two implementations, through a
generated SDK or through a dashboard. The models are translated from the Rust
source and its SQL under `src/`; TLC checks them on small instances and TLAPS
proves every safety property that a run checks, and both refinements, for
instances of every size.

## 1. The system

| component | state | operations | source |
|---|---|---|---|
| execution table and worker pipeline | `executions`, `attempts`, `execution_logs` rows; one open transaction per task | claim, load config and secrets, resolve templates, dispatch, record the attempt, complete_success / complete_retry / complete_failed, commit | `common/src/db/executions.rs`, `db/attempts.rs`, `worker/src/poller.rs` (`claim_and_process`), `worker/src/pipeline.rs` |
| one-shot jobs | `jobs` rows, IMMEDIATE and DELAYED, one execution each | create, cancel job, cancel execution | `api/src/handlers/jobs.rs`, `handlers/executions.rs`, `db/jobs.rs` |
| CRON jobs and versions | `jobs` rows, CRON, linked by `previous_version_id`; pg_cron entries | create, update (retire and replace), cancel, the tick's INSERT | `handlers/jobs.rs`, `db/jobs.rs` |
| reaper | an INTERNAL CRON job per workspace and its executions | retire the jobs whose window has closed and unschedule them | `worker/src/reaper.rs`, `dispatcher/internal.rs`, `db/workspaces.rs` |
| idempotent creation | the unique index on (endpoint, idempotency_key) | lookup, then insert in a later transaction | `handlers/jobs.rs`, `db/jobs.rs` |
| poller loop and health | semaphore permits, idle notification, last tick, cancellation token, connection pool | poll, spawn, sleep, shut down, answer `/ready` | `worker/src/poller.rs`, `health.rs`, `ops.rs`, `main.rs` |
| schema registry | cached list of ACTIVE schemas with a TTL | fetch or reuse | `common/src/tenant.rs` |
| workspaces | `workspaces` rows, schemas, reaper jobs, `schema_version` | create, in five commits | `handlers/workspaces.rs`, `db/workspaces.rs` |
| endpoints, configs, payload specs, secrets | their rows and the references between them | create, update, delete with checks before the statement | `api/src/handlers/`, `common/src/db/` |
| config and secret caches | per-process maps keyed by name, with a TTL | get, evict, set | `common/src/cache/`, `pipeline.rs` |
| `InvokrClient` | none of its own; the tables (library) or the service (HTTP) | create_job, cancel_job, upserts, deletes, provision_workspace, get_execution | `worker/src/client.rs` |
| backoff, templates, pagination | none | pure functions; a client that walks the pages of a list | `worker/src/backoff.rs`, `common/src/template.rs`, `pagination.rs`, `db/jobs.rs` |
| router and authentication | none | which handler a request reaches, and who may pass | `api/src/router.rs`, `auth/`, `extractors.rs` |
| generated SDK | retry configuration | 22 operations: serialize, send, retry, parse | `client/src/` |
| dashboard | signals and resources of the pages, the date picker, the calls under way | every call of its API client, forms, dialogs, lists, panels | `dashboard/src/` |
| dispatchers | connection caches | one call, one answer | `worker/src/dispatcher/` |

The components of the service meet in Postgres and nowhere else. The API writes
rows in short transactions; pg_cron inserts executions in a session of its own;
a worker task takes one execution with `FOR UPDATE SKIP LOCKED` and holds that
transaction open across the call to the target, until it has written the outcome
and commits. A pod keeps up to `max_concurrent` such tasks. The reaper is a CRON
job like any other, whose "target" is a sweep run inside the worker's
transaction.

What is hard in it:

- the target is called in the middle of an open transaction, so whatever fails
  afterwards (a statement, the commit, the pod) forgets a delivery that
  happened;
- errors of the statements after the call are dropped (`let _ = ...`) while
  Postgres aborts the transaction, so what looks like three independent writes
  is all or nothing;
- cancel, update and the reaper compete with workers and with each other for the
  same rows, and some of them read before their transaction;
- creation decides on what it read before its transaction, and two constraints
  of the schema, each with locks of its own, correct it afterwards;
- `now()` is the start of the transaction and `Utc::now()` is the clock;
- a job row and its pg_cron entry live in different schemas and have to change
  together;
- the reaper is driven by the mechanism it cleans up;
- provisioning a workspace, and every write of the library client, is a series
  of separate commits, and nothing resumes one that stopped half-way;
- handlers check and then write, and what they checked may be gone by then;
- one worker serves all workspaces: with one set of permits, one pool, one list
  of schemas and one cache;
- a caller whose answer was lost does not know what happened, and sends again;
- the pages of the dashboard react to signals in an order their components do
  not control, while answers to earlier calls are still on their way.

`PROJECT.json` lists these as hazards, each at its line.

## 2. Modules

| module | what it models |
|---|---|
| `ExecutionLifecycle` | the abstract specification: what a client is promised about one execution (submitted, delivered, settled, cancelled) |
| `Executions` | the execution table and the worker pipeline, with crashes, SQL errors and failed commits; implements `ExecutionLifecycle` |
| `ExecutionsProofs` | the theorems about `Executions` |
| `CronJobs` | versions of CRON jobs, pg_cron entries, ticks, and the reaper's sweeps |
| `CronJobsProofs` | the theorems about `CronJobs` |
| `JobCreate` | POST of a job with its idempotency key against other POSTs, the delete of its endpoint and the cancel of its job |
| `JobCreateProofs` | the theorems about `JobCreate` |
| `Tenants` | the abstract specification: what a workspace is to the rest of the system (absent, listed, usable) |
| `Workspaces` | creation of a workspace in its separate commits; implements `Tenants` |
| `Poller` | one worker: loop, permits, tasks, schema registry, pool, readiness, shutdown, over the workspaces of `Tenants` |
| `Clients` | the two implementations of `InvokrClient`, over `Workspaces` |
| `ClientsProofs` | the theorems about `Clients` and `Workspaces` |
| `Resources` | endpoints, configs, payload specs, secrets, and the caches through which a worker reads them |
| `ResourcesProofs` | the theorems about `Resources` |
| `Backoff`, `Lists`, `Templates` | the algorithms, against reference definitions |
| `DateRange` | the dashboard's date range picker on a part of the real calendar |
| `PartsProofs` | the theorems about the parts that stand by themselves: `Poller`, and the four of `MCAlgorithms` |
| `SdkOperations`, `DashboardCalls`, `Routes` | tables: what each client sends and reads, and what the router makes of it |
| `ApiCalls` | calls of both clients through the network, the router, the authentication and the handlers; composes the three tables |
| `ApiCallsProofs` | the theorems about `ApiCalls` |
| `JobsTab` | the reactive job list of the dashboard: filters, cursors, page numbers |
| `Tabs` | the other pages of the dashboard: lists, forms, dialogs, panels |
| `DashboardProofs` | the theorems about `JobsTab` and `Tabs` |
| `MC*` | instances for TLC: symmetry sets, menus of calls, and the choice of which of several parts that share no state runs. `MCExecutions` puts `JobCreate` and `Executions` side by side (`stage`), `MCAlgorithms` the four algorithms (`focus`), `MCDashboard` the two modules of the dashboard (`part`), and `MCParts` the last two |

Operators that end a name with a suffix and are commented "Mutant" are wrong
variants of the definition below them, kept so that the strength of each
property can be demonstrated; nothing refers to them.

### Executions

A row exists in two versions: `row[e]`, committed and visible to everyone, and
`tx[t].row`, written by task `t` and not committed. `Locked(e)` is the row lock.
`tx[t].now` is the transaction's `now()`; `clock` is the wall clock. A task goes
through the phases of the code:

| phase | code | action that leaves it |
|---|---|---|
| idle | between two spawns | `begin`: scoped_transaction |
| begun | transaction open | `ClaimDue`, `ClaimNothing`, `ClaimError` |
| claimed | job read, config, secrets and templates | `Prepare`, `PrepareLogError`, `LoadError`, `ResolutionFails` |
| prepared | calling the dispatcher | `Dispatch` |
| dispatched | answer in hand | `Finalize`, `FinalizeError` |
| finished | before `tx.commit()` | `Commit`, `CommitError` |
| orphan | the pod is gone and Postgres has not noticed | `OrphanRollback` |

`Crash` leads from every working phase to orphan. The flag `aborted` is
Postgres's state after a failed statement: the code goes on, later statements
fail, and COMMIT rolls back. `delivered` and `accepted` are history variables
for what the target saw; `faults` counts crashes, SQL errors and failed commits.
The unit of the clock is arbitrary. `max_attempts` is any integer, as the code
does not validate the policy's value. A committed row is only ever written by
`Commit` and by the API actions, each a whole handler.

The worker transaction has one action per statement group between which another
session can act; API transactions hold a single row lock and are one action at
their commit.

### CronJobs

`job` and `cron` are the jobs table and pg_cron's table. A PUT reads the old
version on a connection it then drops (`ReadOld`) and commits the rest later
(`update`), so anything can happen between. A tick of a user job takes its
snapshot (`FireStart`) and commits its execution later (`FireCommit`). A sweep
is begun, retires expired rows under lock, and commits with the worker's
transaction or is rolled back (`SweepBegin`, `retire_expired_cron_jobs`,
`SweepCommit`, `SweepRollback`). pg_cron is external and modelled by what
`build_cron_command` relies on: an entry runs its command again and again.

### JobCreate

`endpoints` and `jobs` are committed rows; `post[r]` and `del[d]` are the
requests under way. A POST goes through the phases

| phase | code | action that leaves it |
|---|---|---|
| new | not sent | `Lookup`: the endpoint, the key, the body, then `drop(conn)` |
| checked | before its transaction | `InsertJob`: up to the unique index |
| inserted | index entry written, not committed | `CheckEndpoint`: the foreign key |
| referenced | the endpoint's row is locked FOR KEY SHARE | `CommitPost`, `CommitUnacknowledged` |
| done | answered | |

`RollbackPost` leaves every phase of the transaction. A wait for a lock is a
guard: `InsertJob` is disabled while another transaction holds the key,
`DeleteRow` while one references the endpoint. `InsertJob` and `CheckEndpoint`
are two steps because the index entry is written before the foreign key's
trigger runs, and a delete may commit between. The answers are the HTTP status
codes of the handler, which differ by trigger (`ConflictCode`,
`ForeignKeyCode`). `retire` stands for every way a job becomes RETIRED, as
`CronJobs` and `Executions` have them in detail. A client that lost an answer
and sends again is another request with the same key.

### Tenants, Workspaces and Poller

`Tenants` says what the other modules may assume: a workspace is listed, perhaps
for ever, before it is usable, and is never withdrawn. `Workspaces` has one
action per commit of `db::workspaces::create` and an error between any two; the
mapping in `Clients` (`T == INSTANCE Tenants WITH ...`) shows that it implements
`Tenants`. `Poller` extends `Tenants`: its schemas come and go as they do there,
and a task that claims in a schema without tables fails and skips it (`Skip`).

The poll loop is a state with one value per await: at the top, waiting to be
idle no longer, waiting for a permit, fetching schemas, waiting after an error,
draining. `FetchCached` and `FetchActive` are the two branches of
`get_active_schemas`; the second needs a connection of the pool, as do `begin`
of every task and the probe of `/ready`. The stamp of the last tick is
abstracted to "recent" or "old": `Elapse` makes it old whenever the loop has
stood still.

### Clients

`mode` says which implementation the application holds. A library call is a
sequence of autocommitted statements (`InsertJob`, `InsertExecution`;
`LibraryCancel`, `LibraryRetire`, `LibraryUnschedule`), an HTTP call a request
the service serves atomically and whose answer may be lost (`Fail`); the upserts
of the HTTP client are two requests. Workers go on meanwhile: `claim` takes an
execution that waits for its first attempt (`Fresh` until it settles) or is
RETRYING, `Settle` commits an end or another RETRYING, `Rollback` undoes a
claim. A cancel waits for a fresh execution that a worker has locked
(`MustWait`), cancels it if it is still waiting, and leaves a RETRYING one alone
(`cancel_pending`), as its UPDATE does. pg_cron ticks (`Tick`). The idempotency
key a caller leaves out is stored as the empty string by the library, and as
NULL by the service (`StoredKey`).

### Resources

`value[w][n]` is the version of row `n` of workspace `w`, 0 when there is none,
and `gone` records when a version was replaced. Requests check first and write
later. A task reads its endpoint (`Begin`), then each config and secret it
wants: from the cache (`Lookup`), or after an eviction (`Evict`) from the table
(`Read`), and puts what it read into the cache (`Set`). The clock may go on
between those two: the SELECT is awaited, and the entry's `Instant` is taken by
`set`, so an entry remembers, as history, how long its reader took (`waited`).
`cache` has no workspace in its key.

### ApiCalls and its tables

`SdkOperations` holds, for each of the 22 operations of the generated client,
the members of its input, the request the serializer makes, the error codes the
error parser knows and the members the response parser reads; `DashboardCalls`
the same for the dashboard's client; `Routes` the route table of actix and the
order of the authenticators. The generated client percent-encodes a label, so it
stays one segment. The dashboard formats it into the path as it is, so a '/'
makes two segments of it, a '?' or '#' ends the path there (`Cutting`) and a '%'
is decoded: `UrlReads` says which segments a URL has of a label. A call begins
(`Begin`) and is served when its request arrives: by its handler (`Serve`), by a
create that finds its key taken after its lookup (`ServeRaced`: 409, and 500 for
DELAYED), with a 500 that left nothing behind (`ServeError`), or with a 500
after an effect was committed (`ServeUnacknowledged`: the acknowledgement of the
commit is lost, or `create_workspace` fails after its first commit). It may lose
its connection or its answer, is retried if a RetryConfig allows it (`Retry`),
and ends (`Finish`). A request stays on the wire after its caller gave up, so it
may be served after its retry. The ledger counts as lost an attempt that took
effect without a word to the caller.

### The dashboard

`JobsTab` has one action per user event and one per reactive computation
(`RunJobs`, `RunReset`), run in either order after a signal is written and
before the user's next event. `Tabs` models eight pages by one set of actions
and a record per page that says what it does its own way (which forms, whether a
delete asks first, whether a refresh builds the table anew, which panels). Calls
outlive the page and the dialog that made them. A panel fetches when it is
opened and shows an error when that fails (`panel_failed`); the two fetches of
`ExecutionDetail`, attempts and logs, are one here. `DateRange` is sequential
and shares no signal with the other two, so it runs with the algorithms; its
calendar is chrono's, by its definition.

### The algorithms

`Backoff` is `compute_backoff` on words of `Width` bits, as the set of delays
the jitter can give; its reference is the documented schedule on unbounded
integers. `Lists` is a client that asks for page after page (`NextPage`) while
rows come (`Insert`) and go (`Delete`). A template (`Templates`) is a sequence
of tokens (braces, blanks, names, text); one step is one turn of the loop in
`resolve_string`, and the reference, `Meaning`, is defined on the pieces the
template was written from, which the code never sees.

## 3. Runs

| run | instance | what it asks |
|---|---|---|
| `exec` | 2 POSTs, 1 DELETE, 1 endpoint, 2 keys, 1 failure; or 1 execution, 2 tasks, limits 0 and 2, backoffs 0 and 2, horizon 2, 2 faults; fair | `CreateInv` (`OneJobPerKey`, `EndpointsExist`, `PostsKnowTheirJobs`), `AnswersAgree`, `EveryPostIsAnswered`; and `IInv`, the invariant of the proofs: exclusive claims (`RowLock`), no stranded row (`RunningInvisible`), an attempts table that tells the history (`AttemptLedger`, `SuccessIsAccepted`), `AttemptBudget`, cancel against workers (`RetiredJobIsSettled`); `DuplicatesArePaidFor`, `SettledIsFinal`, `NotBeforeRunAt`, the refinement `ImplementsLifecycle`, and `EverySettles` |
| `cron` | reaper and 2 versions, 2 overlapping updates, 1 sweep, 1 fault, fair | `CronInv` (`VersionChain`, `ExecutionsInWindow`, `ReaperSurvives`), `ScheduledIffActive`, `RetiredIsFinal`, `ExpiredIsReaped` |
| `poller` | 2 workspaces, one to be created, 2 permits, a pool of 2, 1 execution per workspace, 1 fault, fair | `PollerInv` (`PermitsConserved`, `NothingLost`), `GracefulShutdown`, `StaleMeansBlocked`, `EveryWorkspaceServed`, `SignalStops` |
| `clients` | 3 calls, both modes, 1 workspace to be created | `ClientsInv` (`VersionMarksComplete`, `SingleProvisioner`, `ProvisionedIsListed`), `UpsertTakesEffect`, `CreatedIsQueued`, `CancelIsFinal`, the refinement `TenantsImplemented` |
| `resources` | 2 configs, 1 payload spec, 3 requests, 2 tasks, TTL 2, 2 versions | `ResourcesInv` (`ReferencesResolve`), and of every step: a config is missed only while its endpoint points elsewhere (`MissedMeansMoved`), no value is used past its TTL plus the time its reader took from the SELECT to the `set` (`StaleAtMostTtl`) |
| `api_calls` | any call of either client, and a second write beside a write; 2 faults, 1 or 2 attempts, fair | `CallsInv` (`KeyedJobOnce`, and by `TypeOK` no more attempts than the RetryConfig allows), `ServedAsAsked`, `AnswersTellTruth`, `EffectsArePaidFor`, `EveryCallEnds` |
| `parts` | words of 8 bits; lists of up to 4 rows with ties, limits 0 to 3; templates of up to 3 segments; 5 months around a leap day; 2 filters, 2 page sizes, 3 pages; 8 pages of the dashboard, 2 rows, 2 calls at a time, 1 mishap | `Backoffs`, `Walks`, `Templating`, `DatesRight` (`DraftIsClicks`, `PreviewIsPick`, `CalendarIsRight`), `FilterRestarts`, `ListMatchesBar`, `FormsSaveTheirRow`, `ListsFollow` (`ReadYourWrites`, `PanelIsFresh`), `InvokedOnce` |

`IInv` and the other invariants that end in `Inv` are conjunctions of the named
parts in brackets and of the module's `TypeOK`. The disagreements between
documentation and code are runs TLC must refute:

| run | the documentation says | the code |
|---|---|---|
| `doc_one_active_version` | one ACTIVE version per job | overlapping updates leave two |
| `doc_own_values` | configs and secrets are per workspace, nothing is shared | the worker's caches are keyed by name alone: a dispatch of one workspace uses the config of another |
| `doc_library_cron` | both modes of `InvokrClient` behave alike | the library client stores a CRON job and never schedules it |
| `doc_saturated_ready` | a saturated worker still reports ready (`README.md:499`, `helm/README.md:214`) | `poller_ok` excuses it, but with a pool no larger than `max_concurrent` (by default both are 50) every connection is held by a delivery, and the probe of `/ready` finds none |
| `doc_backoff_cap` | once at `max_delay_ms`, all later retries wait that long (`docs/core-concepts/retry-policy.md:108`) | the product is not checked and wraps in a release build: with an initial delay of 1000 ms the delay is 0 from attempt 62 on |

What the passing runs show, taken together: a claim is exclusive, the only way a
target sees an execution twice without a counted attempt is a fault between the
call and the commit, one delivery per fault; the attempts table and the
executions table agree whatever is rolled back; an execution is never visibly
RUNNING and so never stranded; a cancel that succeeded leaves no first attempt
to be made, and a settled execution is neither revived nor sent again, while one
between two attempts is not cancelled with its job and goes on; pg_cron's
entries are exactly the ACTIVE jobs; a key names one job for good whichever
answers are lost, and no job is without its endpoint. A worker keeps exactly its
permits, serves every workspace once nothing new arrives although some have no
tables, drains before it ends unless the timeout expires; it is not called
unready for being idle or for waiting for a permit, as far as the poller's half
of `/ready` goes. A workspace marked complete is complete. A write that a client
is told of was made. One that was refused was not, and an effect is not
repeated, unless an attempt took effect and the caller was not told: its answer
was lost, or it was a 500 after a commit. A value is used after it was replaced
for less than its TTL plus the time between the SELECT that found it and the
`set` that cached it, which the code does not bound. The pages of the dashboard
save a text under the row it was written for and, once at rest, show the user's
own changes.

### Other disagreements, without a run

These can be read off the models or were met while reading the code:

- `docs/architecture/exactly-once.md:8` promises exactly one delivery under
  crashes; `DuplicatesArePaidFor` is what holds.
- `docs/guides/versioning.md:17`: `replaced_by_id` points to the new job; it is
  the old version's own id (`db/jobs.rs:323`).
- `docs/core-concepts/idempotency.md:39`: a create that loses the race for its
  key gets the existing job with 200; it gets 409, or 500 if DELAYED
  (`ConflictCode`).
- `duration_ms` is `now() - started_at` within one transaction and so always 0,
  where `docs/core-concepts/executions.md` calls it the end-to-end duration.
- A job whose execution a worker is retrying is cancelled with 200, where
  `docs/guides/delayed-jobs.md` announces 409.
- An IMMEDIATE create whose endpoint is deleted meanwhile is told that its key
  exists (`ForeignKeyCode`), where a CRON create gets 404.
- The endpoint of a cancelled job cannot be deleted, since `has_active_jobs`
  looks at ACTIVE jobs and the foreign key at all of them (`DeleteRow`).
- `{{ secret.x }}` with blanks is resolved by `template.rs` and never loaded by
  `load_secrets`, so it fails; `Templating` speaks of templates in which a
  secret is written without blanks.
- The executions cursor is `created_at` alone, where the pagination page says
  `created_at` and id; rows with equal times at a page boundary are skipped.
- The SDK's typed errors never arrive: the server nests the code under `error`,
  the parser looks at the top (`parse_error_metadata`), so every error is
  `Unhandled`.
- The comment at `workspace_detail.rs:1055` says a mid-list page can never be
  fetched for changed filters. It can when Next is clicked on the old list,
  which stays on screen until the new one arrives. `FilterRestarts` speaks of
  the time before that click.
- After a change of filters in which the jobs resource runs before the reset
  effect, the resource has not read the page signals and is not subscribed to
  them (`tracks` is FALSE in `JobsTab`): a click on Next then moves the page
  number without fetching. `ListMatchesBar` compares a list at rest with the
  filters and the page size on screen, not with the page number.
- Names of endpoints, configs, payload specs, secrets and organizations are not
  validated (`handlers/endpoints.rs:12`), and the dashboard puts them into paths
  unencoded (`api/client.rs:446`): its update or delete of a row named `a?b` is
  served as one of `a`. `ServedAsAsked` speaks of the names a URL leaves as they
  are, which for the generated client are all.
- The library's `create_job` leaves a job without an execution when its second
  INSERT fails, and the key stays taken; `CreatedIsQueued` says only that the
  caller was not told Ok.

**Bounds.** Two tasks are enough for every race on a row, since a lock has one
holder. `MaxFaults = 2` in `exec` and `api_calls` allows a fault during the
recovery from a fault; one is enough where what follows a fault cannot fail
differently. A limit of 0 exercises the degenerate policy, 2 a retry. `Horizon`
only bounds time: `exec` has room for a retry that waits and one that is due at
once; it has one execution, since executions share nothing but the tasks, and
the theorems cover any number. In `cron` two requests read one version and one
of them replaces it, so the other goes on with a stale row next to a cancel or a
sweep; two updates that both commit need a third user version, which
`doc_one_active_version` has and the liveness of `cron` cannot afford, and the
theorems cover any number of versions, requests and sweeps. Two keys let two
POSTs differ. In `poller` one workspace appears and stays half-provisioned if
nothing provides its tables, and two tasks with two connections make the pool as
scarce as the permits, which is the default configuration. In `clients` three
calls allow two to race and a third to see the outcome. In `resources` two
versions, two tasks and a TTL of two units let one task fill the cache while
another's entry expires; `doc_own_values` needs two workspaces. `MaxDepth`,
`LastPage` and `Slots` bound the cursor stack, the list and the calls under way,
and `JobIds` the jobs that the calls of `ApiCalls` create. In `parts` a word of
8 bits wraps within ten attempts and the policies are scaled to it; two creation
times for four jobs make ties; three segments put a variable between two others;
and the calendar runs from November 2023 to March 2024, with the turn of a year
and a leap day, three days being clicked around the end of February. The menus
of `MCApiCalls` hold every operation of both clients once, with labels that are
names, ids, empty, unset, or contain what a URL reads otherwise: a slash that
makes the path that of another route, a '?' and a '%'. The reader of `resources`
may take any time up to the horizon between SELECT and `set`. Symmetry is used
over interchangeable model values in runs of safety only. `exec` and `cron`
check deadlock, in `exec` with a step for handlers that have all answered. The
other runs do not: their requests are each sent once and come to rest, the
process of `poller` ends, and so do the computations of `parts`. The runs reach
from 0.14 million (`poller`) to 2.7 million (`parts`) distinct states. Where
parts that share no state run in one model, Init chooses one of them and the
others stand still.

**Fairness.** `Executions!Fairness` is weak fairness of each task's own steps
and of time: the poller loop spawns a task again whenever a permit is free, a
task has no wait other than on statements and the dispatcher's timeout, and
Postgres ends the session of a dead client. Faults happen without fairness and
at most `MaxFaults` times: an execution that fails to commit for ever is not
settled by this code, as the rollback leaves no trace to give up on.
`CronJobs!Fairness` is weak fairness of the reaper's ticks, of the steps of its
sweeps (which are executions, so `EverySettles` stands behind it) and of time;
users and user jobs are not assumed to do anything. `JobCreate!CreateFairness`
is weak fairness of a request's own statements: once sent, it waits for locks
only. Clients are not assumed to send anything. `Poller!FairSpec` is weak
fairness of the loop and of each task, strong fairness of `Break`, because
`tokio::select!` picks among ready branches at random and so takes the cancelled
one in the end, and strong fairness of `FetchActive`, because the list's time to
live runs out again and again while the loop turns. `ApiCalls!FairSpec` is weak
fairness of the server and the callers taken together: while a request waits to
be served or a caller has an answer or a broken connection to act on, one of
them does. As a call makes finitely many requests, this serves them all. In
`MCExecutions` the fairness is that of the two modules, each while its stage
runs.

## 4. Proofs

`ExecutionsProofs` proves, for any sets of executions and tasks, any attempt
limits in `Int`, any backoffs in `Nat` and any number of faults
(`ConstantsAssumption`):

- `TypeCorrect` and `Invariance`: `Spec => []IInv`;
- from it `Exclusion`, `NeverStranded`, `AttemptsAreHistory`, `WithinBudget`,
  `CancelIsTogether`, `ExactlyOnceButForFaults`;
- the action properties `SettledStaysSettled` and `NeverEarly`;
- `Refinement`: `Spec => Lifecycle!Spec`.

None of the invariants is inductive alone. `IInv` adds what an open transaction
knows about the row it has locked: the committed row is still the one claimed,
open and due at the transaction's `now()` and one attempt behind (`ClaimedRow`);
by phase, what has been written and not committed (`TxOutcome`), in particular
that a transaction about to commit holds exactly one attempt row, numbered one
past the committed count. That is why the insert into `attempts` never collides
with an earlier one (`NoDuplicateAttempt`) and why `AttemptLedger` survives a
commit. `Ledger(e)` refines `DuplicatesArePaidFor` by the state of the
transaction that holds `e`: a doomed transaction that has not dispatched yet has
already paid for the dispatch it will make.

The invariant is proved action by action. First the steps that touch one
transaction and no table, then `Commit`, then the API; what an action does to
the ledger of the other executions is factored into `LedgerStep`. The refinement
maps the committed row and the history to the abstract state: `Dispatch`
implements `Deliver`, `Commit` of a live transaction implements `Settle`, and
the rest stutters or is an API step.

`JobCreateProofs` proves, for any sets of requests, endpoints, keys and jobs and
any number of failures (`JobCreateAssumption`): `Invariance` (`CreateSpec =>
[]CreateInv`), and from it `KeyIsUnique`, `EndpointsOutliveJobs` and
`AnswersAlwaysAgree`. `CreateInv` is `CreateTypeOK`, `PostsKnowTheirJobs`,
`OneJobPerKey` and `EndpointsExist`. What clients are told (`AnswersAgree`)
follows from what is stored, but storage alone is not inductive: a `CommitPost`
adds a row with the key of its request, so the uncommitted index entries are
part of `OneJobPerKey`, and the row must land on an id nobody else has, which is
`PostsKnowTheirJobs`. `EndpointsExist` covers the transactions that hold the
endpoint's lock for the same reason. The proof has one lemma per action; where
an action touches one request, what it leaves of `PostsKnowTheirJobs` is
factored into a predicate on that request.

`CronJobsProofs` proves, for any sets of jobs, requests and sweeps, any windows,
clock and number of faults (`CronAssumption`): `Invariance` (`Spec => []IInv`),
and from it `Scheduled` (`ScheduledIffActive`), `Tables` (`CronInv`) and `Final`
(`RetiredIsFinal`). `ScheduledIffActive` fails to be inductive at the commit of
a sweep, which must know that the rows it locked are still ACTIVE and its alone
(`SweepInv`); the reaper survives its own sweeps because its job has no end and
no sweep's `now()` is past the clock (`ReaperInv`). A late update knows that the
version it read still exists with the version number it read, whatever became of
its status (`PutInv`), which is what `VersionChain` needs. A tick in flight
knows its window (`WindowInv`). All of these rest on one fact about every step,
`RowsStep`: a row is only ever inserted or retired, and retiring touches nothing
but its status and `replaced_by_id`. The proof has one lemma per action that
writes rows, and one for the steps of a sweep before its commit.

`PartsProofs` proves about `Poller`, for any workspaces, permits, pool and
number of due executions and faults (`PollerAssumption`: finite sets, at least
one permit and one connection): `Invariance`, and from it `BooksBalance`
(`PollerInv`), `ShutsDownGracefully` and `StaleIsBlocked`. `PermitsConserved`
counts tasks, so each action is a change of one set of busy tasks by one element
(`TaskCount`). It says nothing of who may be handed a permit: `LoopInv` adds
that only a loop that waits for one is, and that the loop returns with no task
left. `TickInv` adds what makes a stale tick mean something: the loop cannot
have stood still while it slept, or while a permit was free and not yet granted
to it. The probe of the pool is no part of `StaleMeansBlocked`: with it, a
saturated worker is unready, which `doc_saturated_ready` shows.

`ClientsProofs` proves, for any set of calls and workspaces and in both modes:
`Invariance`, `ProvisioningIsSafe` (`ClientsInv`), `UpsertsTakeEffect`,
`CreatedJobsAreQueued`, `CancellationIsFinal`, and `Refinement`, that `Spec`
implements `Tenants` (the INSERT of the row is `Register`, the last DDL
statement `Provide`, all else stutters). The invariant ties how far a request or
call has come to what is committed for it: `Fits` for the five commits of a
workspace, `RowInv`, `CreateOK` and `CancelOK` for the statements of a library
call. `CancelIsFinal` needs more than the cancel: the library cancels a job only
after its creation has returned, so no execution is inserted behind it; the
cancel waits for a fresh execution that is locked, so none is rolled back to
waiting behind it; and one that is RETRYING never becomes fresh again.

`ResourcesProofs` proves, for any workspaces, names, requests, tasks and times
to live (`ResourcesAssumption`: the kinds of names are disjoint, and rows have
at least one value): `Invariance`, `ReferencesAlwaysResolve`, `MissesAreMoves`
and `StalenessIsBounded`. `StaleAtMostTtl` needs that an entry's value was
current when it was selected (`EntryOK`), although reading the row and setting
the entry are two steps of a task, between which others write and time passes;
`TaskOK` says so of what a task is about to set. `MissedMeansMoved` is a
statement about the step that misses. As an invariant of failed tasks, the form
it had before, it is false on instances larger than the run's, as the endpoint
may be pointed back after the miss; the attempt to prove it showed that.

`ApiCallsProofs` proves, for any set of calls, any labels, any RetryConfig and
number of faults (`ApiCallsAssumption`: an unset member is told apart from every
value): `Invariance`, `KeysNameOneJob` (`CallsInv`), `CallersAreToldTheTruth`,
`RepeatsArePaidFor` and `CallsAreServedAsAsked` (`ServedAsAsked`). A request
outlives its caller's interest in it, so what may still take effect counts as
well as what did: `Paid` bounds requests on the wire plus effects by one more
than the attempts lost (no answer came, or a 500 after a commit), and by the
attempts lost when the call is about to retry. `Heard` says that with none lost
the server holds the latest request at most and what took effect is what the
caller is told, `Keyed` that a success names the row that has the key, which no
later step changes (`KeepsKey`). Lemmas state once what the handlers do to the
rows, and what the tables of both clients have in common. `ServedAsAsked` joins
three tables, so its proof states each as a predicate once: which method and
shape of path an operation asks for (`Asks`, proved of the operations of the SDK
and of the dashboard), which handler a shape leads to (`Leads`, proved of the
routes), and which handler serves which name (`Serves`). `PathIs` and
`ReachedIs` bring them together for every label of the generated client, an
empty one and one with a slash included, and for the labels that a URL leaves as
they are when the dashboard puts them in unencoded (`Says`). The invariant on
top of `IInv` is `ServedInv`: every entry of the ledger was served as its call
asked.

`DashboardProofs` proves, for any filters, page sizes, rows, pages visited and
calls under way (`TabsAssumption`: calls are numbered and the pages are those of
the dashboard): `Invariance`, `FiltersRestart`, `ListsMatchTheirBar`,
`DraftsStayWithTheirRow`, `ListsFollowWrites` and `RunsAreScheduledOnce`. After
a filter changes, the stack of cursors is that of the old filters until the
reset effect has run; `KeyOK` says that it is not used until then, in whatever
order the effects run. `Fresh` is why a page at rest is up to date: what was
fetched last is what the server has, unless an answer is outstanding whose
arrival fetches again (`Awaited`). The pages are told apart only by their
record, so one proof covers all eight.

`PartsProofs` also proves what `MCAlgorithms` checks, for `AlgorithmsSpec`, each
from an invariant of the part that Init chose:

- `DelaysAreDocumented` (`Backoffs`), for every width of the word, every policy
  with delays in `Nat` and every number of attempts (`BackoffAssumption`:
  `max_delay_ms` is not negative, as `clamp` panics otherwise). `RetryInv` says
  that the delay is one `compute_backoff` may give; the rest is arithmetic on
  words: where the nominal delay with its jitter fits, neither the power, nor
  the product, nor the sum wraps (`PowIs`, `BackoffIs`).
- `WalksAreComplete` (`Walks`), for every finite set of rows, any creation times
  and every limit in `Int`, 0 and negative ones included (`ListsAssumption`).
  Either order is strict and total (`BeforeIs`), so a finite set of rows has one
  listing (`FirstExists`, `OrderedIs`) and a page is its next part (`PageIs`).
  `WalkInv` says that what the client has is in order and ends at the cursor,
  and that every row that stayed is in it or after the cursor, where the next
  page begins. An insert moves no row that is there, and the walk goes on from a
  cursor whose row is deleted: a name is compared whether or not a row has it.
- `TemplatesResolveAsWritten` (`Templating`), for templates of any length
  (`TemplatesAssumption`). `TplInv` is the shape of the state; `KeyInv` keeps
  the secret's value out of the text unless a piece names it. `WrittenInv` says
  that in the middle of the loop the text is the images of the first `k` pieces
  followed by the other pieces as written, and that from the place where the
  search goes on no brace opens in the images (`InTurn`). This is why a value
  that looks like a variable is not resolved: the loop searches on behind it.
  `AtVariable` shows that the next brace found is the one of the next piece that
  is a variable.
- `DatesAreRight` (`DatesRight`), for any part of the calendar and any days
  clicked (`DateRangeAssumption`: the month before the day on which the page is
  opened is in it). The months follow each other without a gap (`FirstDayIs`,
  `FirstDaysGrow`), every day is in one month (`MonthOfIs`), `add_months` loses
  nothing in taking a year and a month apart (`MonthsAdd`), and a grid cell is
  under its weekday (`GridIs`). `PickerInv` says that an open picker's draft is
  what the clicks since its last start say (`Drafted`): none, with an empty or a
  complete draft; one, with a draft that lacks its end; or two.

These proofs need induction and recursion over naturals, and the library's
principles take an operator as a parameter, which the provers cannot
instantiate. `LeastNumber` is proved from the well-foundedness of `<` on `Nat`
(a statement about sets), `SetInduction` from it for a set instead of an
operator, and `RecursionExists` from that: for every start and every sequence of
steps there is a function that follows them. Every recursive function of the
models (`Two`, `FirstDay`) and every concatenation of pieces is shown to exist
through it.

The inductive invariants were checked with TLC as well, but for `WrittenInv`,
which quantifies over functions.

Only model-checked: liveness (`EverySettles`, `ExpiredIsReaped`,
`EveryPostIsAnswered`, `EveryWorkspaceServed`, `SignalStops`, `EveryCallEnds`),
which is beyond the prover. Every other property of a passing run is stated by a
theorem. None of the modules declares a RECURSIVE operator.

## 5. Plan

Done: all modules and runs above, and the proofs of section 4. What would come
next is more of the system: the handshake of the OIDC login with its cookies and
token caches, and the encoding of single fields by the generated client.

## 6. Not modelled

Dispatchers are one call with any answer, reachable or not: their I/O has no
state of its own beyond connection caches. Token validation, the OIDC exchange
and cookies are outside: `Routes` takes a credential as valid or not.
Encryption, cloud secret backends, configuration, metrics and logging have no
bearing on scheduling. Of the generated client the encoding and decoding of
single fields are left out, of the dashboard rendering and styling. The CLI and
the mock server are development tools. Two branches of the worker are dead under
the schema's foreign keys (a claimed execution without a job, a job without its
endpoint) and have no action.
