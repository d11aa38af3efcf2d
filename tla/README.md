# CodeMetrics in TLA+

A verification project for CodeMetrics: TLA+ modules translated from the source, TLC configurations that
check them on small instances, and TLAPS proofs for every value of the constants. Paths are relative to the
repository; `services/...`, `routes/...` and the like are under `backend/src/`.

## 1. The system

CodeMetrics measures software delivery. A TypeScript backend (Express; also a desktop process or AWS Lambda
functions) answers metric queries from remote systems (repositories, pipelines, ticket and incident systems),
caches what it fetched in a datastore, and serves a React frontend. Everything concurrent in a backend process is
the interleaving of asynchronous functions at their awaits; in Lambda mode several processes share DynamoDB and SQS.

| Component | State | Operations | Interacts with | What is hard | What makes it correct |
| --- | --- | --- | --- | --- | --- |
| In-process query queue and worker (`services/queryQueue/inProcessQueue.ts`, `services/queryWorker`) | queued messages, resolvers of waiting loops, running flag | enqueue, dequeue, start, stop, processLoop | routes push, loops pop, executor runs | hand-over between a push and parked loops; a flag re-read after every await | no message lost, duplicated, overtaken or starved |
| Async query API, server mode (`routes/queryAsync.ts`, `queryExecutor`, `inProcessResultCache.ts`, frontend `asyncQuery.ts`) | job records, timers, polling clients | submit, poll, execute, store, get, delete, expire | queue, worker, query service, browser | expiry and concurrent polls between any two awaits, restart with everything in memory | an acknowledged job is answered or excusably gone; answers are final; 204 is never a lie |
| Async query API, Lambda mode (`entrypoint/query.ts`, `dynamoResultCache.ts`, `sqsQueue.ts`) | DynamoDB items, SQS messages, invocations | the same, one remote call at a time | SQS, DynamoDB, the API and executor functions | at-least-once delivery, batches, crashes, delete-then-insert, settings of two functions | accepted jobs survive crashes; stored answers reach their client |
| Datastore and lookup cache (`db/api.ts`, `db/factory.ts`, four backends) | items with an optional expiry | findOrInsertOne(Dated), insert, find, delete | nearly every service | lookup, validation, deletion, population and insertion in separate awaits; backends that match, insert and expire differently | a hit is valid and fresh; a miss populates; a failed population loses nothing that mattered |
| OAuth tokens (`utils/serverAuth.ts`) | stored access and refresh tokens | getApiKey | datastore, token endpoint | rotating refresh tokens, concurrent renewal, deletion before renewal | a valid refresh token is never lost |
| Configuration and bootstrap (`config/config.ts`, `entrypoint/bootstrap.ts`) | cached configuration, reload flag, callbacks, services-initialised flag | ensureConfigLoaded, loadConfig, onConfigChange, bootstrap | every request | reload while others read, failing reload, change callbacks whose errors are swallowed | a configured system ends up with initialised services; no request is answered from files older than those it met |
| Authentication, tokens, RBAC (`auth/*`, `middleware/*`, `services/rbac`) | service token ids, roles | log in, refresh, validate, revoke | routes, datastore | revocation against use, callbacks that may answer twice, roles read from a cached configuration | revoked or wrong-typed tokens never pass; roles taken away end with the tokens issued from the configuration before |
| Stored queries (`services/storedQuery`) | read-write and read-only collections | list, load, store, delete | datastore, files | union of two stores, non-atomic replacement | a saved collection is found; a deleted one shows its read-only original |
| Query engine and metrics (`queryService`, `queries`, `transforms`, `dora`, `qualityGates`, `repos`, `codeHotspots`, `temporalCoupling`, `prediction`, `llm`) | none | pure or read-only computations | remote providers, datastore | grouping, date ranges, rolling averages | equal to their definitions |
| Remote providers (`codeManagement`, `pipelines`, `tickets`, `codeAnalysis`, `incidentManagement`, ...) | rate limiters, coalesced reads | fetch, map | HTTP | retries, limits, coalescing | one fetch per key at a time |
| React frontend session (`frontend/src/store`, `hooks`) | tokens, dialogs, timers | log in, refresh, check expiry, log out | auth routes | refresh, expiry check and logout racing | after logout no tokens come back |
| Pages and charts, Vue interface (`ui/`), licence, administration routes, deployment, tools, docs | little or none | - | - | - | not modelled: rendering, straight-line handlers, configuration |

The first seven rows up to RBAC, delivery metrics as far as deployments go, remote providers and the frontend session are
modelled, in whole or in part (section 4 says what is missing). `PROJECT.json` lists the components with their
sources and every hazard with its line.

## 2. What is modelled

### 2.1 Correspondence

A step of a server-mode module is the code between two awaits, which Node runs without interruption. A step of
`AsyncQueryLambda` is one remote call. Payloads, errors' texts and logging are left out; a query is a choice between
"resolved" and "rejected".

**`QueryWorker`** models `QueueChannel` (`queue`, `waiting`) and `QueryWorker` (`running`; each chain of `processLoop`
calls is a loop with a program counter `pc` and the message it `held`). `Enqueue` is push, `Dequeue`/`Park` the two
branches of pop, `Begin` or `Drop` the resumption after dequeue with its check of `running`, `Finish` the settling
of `execute`, `Continue` the end of the try and of the catch block. `Start` spawns `max(1, concurrency)` loops and,
like the code, does not mind those that still exist. `Reboot` is the end of the process.

**`FifoDispatch`** is what that promises: jobs are taken in the order offered, each by one worker.

**`AsyncQueryServer`** extends `QueryWorker` with `submitAsyncQuery` (`SubmitStore`, `SubmitEnqueue`), the
executor (`Execute`, `Settle`), `InProcessResultCache` (`Store`, `Delete`, `Expire`, `TimerFires`; a record keeps its
`expiresAt` when it is stored again, so it may be overdue at once), `getAsyncResult` with the client's `pollForResult`
around it (`PollGet`, `PollDelete`, `PollReply`, `GiveUp`, `PollRefused`), `startApi` and the end of the process
(`StartApi`, `Restart`). Several callers may poll one job. `stop()` is not called in production, so `Stop`, `Drop` and
`Quit` are part of `QueryWorker` only.

**`JobLifecycle`** is what a job's record promises: pending, processing, settled, never back; nothing is ever recorded
of a job whose answer was taken out.

**`AsyncQueryLambda`** models the same API in Lambda mode: `DynamoResultCache.store` as `Find`, `DeleteOld`, `PutNew`,
`queryExecution` as invocations with a batch and its rest, SQS as messages that stay until their invocation returns
(`Invoke`, `Return`), and trouble: `CallFails` (a DynamoDB call fails without effect), `Crash` (timeout or failed
start-up; the batch becomes visible again), a duplicate delivery (part of `Invoke`), `SubmitFails`. `SharedCache`
is what `cacheFactory.ts:15` decides for the API function. SQS and the event source mapping are modelled from the
deployment templates.

**`LookupCache`** models `findOrInsertOne` and `findOrInsertOneDated` (`db/api.ts`) by concurrent callers over one
collection. Each await of `findOrInsertOneInternal` is an action: `Find` (with the validator), `Delete` of an invalid item,
`Fetch` or `Redeem` (the populator), `Insert`; `Begin` is `buildBehaviour`, which fixes the ttl before the lookup, `Settle` the
return or the error, `CallFails` a rejected await at any of them. `setup`, chosen in `Init`, says which of the four stores is behind it
(they append or replace, evict on lookup or in the background, match by key or by content), which kind of entry it holds
and in which time zone the process runs. `dated` entries are looked up day by day (`WalkDates`, the date walker); `repos` are
shared by `vcsQueries` (`vcsService.ts`); `files` are validated; `tokens` are `getApiKey` (`serverAuth.ts`): `TokenToRedeem`,
`Grant`, a refusal, and an answer that is lost after the server rotated the token. `Restart` empties the in-memory store and
every promise. A fetched value is the instant it was fetched at and whether it held data.

**`ConfigReload`** models `config.ts` and `bootstrap.ts`. `LicenseChecked`, `Arrive` and `EnsureConfigLoaded` are the
start and the middleware; `ReadRemote`, `ReadWorkloads`, `Apply`, `Callback`, `InitServices` are `loadConfig` between its awaits,
with the change callbacks; `Respond`, `Expire`, `Edit` the end of a request, the ttl, and somebody editing a file or the licence. `mode` is the lazy or
eager API or the Lambda executor, which registers another callback at every invocation. A configuration is reduced to a number of
workloads and one version number, `remote`, for the files besides them: the remote configuration, pipelines, quality gates, and `rbac`, which holds
the roles. `loadConfig` reads them alike, each once between its start and its end. `floor` is history: the oldest version a request may be answered from.

**`AuthSession`** models one tab of the React interface: its `page` (store, interval, dialog queue, calls in flight,
pending navigation), `saved` (localStorage) and `holder` (the session holder), and the API's side of issuing and refreshing tokens with roles
and expiry. The API takes roles from the configuration it has in memory (`getRolesForUser`, `services/rbac/file.ts:7`), never from the
file: `roles` is what `cachedConfig` gives the user and `changed` since when, and `RolesReloaded` is a load that makes it give others. How `cachedConfig` follows the file is
`ConfigReload`'s part. `Login`, `Logout`, `Dismiss`, `Check` send calls, `LoginAnswered`, `AnswerRefresh`, `RefreshAnswered`,
`LogoutAnswered` are their settling, `Effect` and `CheckExpiry` are `useSessionExpiryChecker`, `Load` a page load, `Elsewhere`
what another tab writes. `loggedOut` and `until` are history.

**`RemoteHistory`** models a query of runs, commits, pull requests or resolved issues over days, at fifteen
providers. What the providers' code shares is the actions (`Begin`, `ServeCached`, `ReadPage`, `Fail`, `Finish`, `Deliver`); what
distinguishes them is a profile: how the range is walked, the condition that selects an item (`Selects`), how a list is paged and when
the code believes it has reached its end (`Page`, `IsLast`), what is cached (`StoredIn`, `ExpireAt`), and what a failing request leaves. Meanwhile the
remote's history goes on (`Create`, `Close`, `Tick`). The spans left to read are a set, `windows`, read from the earliest one; a list
is a set too, whose pages are cut by an item's rank in the remote's order. `forgiven` is history: the spans that were cut short with a mere
warning in the log, by a failure or by `MAX_COMMITS_PER_DAY` (`AtLimit`, `CutShort`). `DeploymentFrequency` and `ChangeFailureRate` are the
figures of `dora/` for the runs collected; the rate is kept as the pair of numbers the code divides.

`MCAsyncQueryServer` gives `AsyncQueryServer`'s `JobOf` a value for TLC. Operators whose comments begin with "Mutant" or
stand under that heading are deliberate bugs that show that a property can fail; no specification uses them.

### 2.2 Runs

| Run | Instance | Shows |
| --- | --- | --- |
| `worker` | 3 jobs, 4 loops, concurrency 2; jobs may come again | Under enqueue, start, stop, restart in any order: waiters are exactly the parked loops, no loop idles while a message waits, every message is in one place, FIFO order (refinement of `FifoDispatch`), no queued message starves while the worker runs. |
| `server` | 2 jobs, 2 callers polling the first, concurrency 2, 1 restart | No acknowledged job forgotten, retrieved answers stay gone, 204 only for jobs expired, lost or fetched, refinement of `JobLifecycle`, every poller is answered, expired records leave memory. |
| `lambda_safety` | 2 jobs, 2 executors, batches of up to 2, 1 trouble | Accepted jobs survive a crash, a failed call or a duplicate delivery, and retrieved answers stay gone, beyond the exceptions below. |
| `lambda_liveness` | the same with 1 executor | Every accepted job is worked off; a stored answer reaches a client that keeps polling. |
| `lookup_cache` | 2 readers, 3 requests, days of 2 ticks, lifetimes of 1, clock to 3, 1 fault | Over each store, collection and time zone: only complete days are kept for ever (if the process does not run ahead of UTC), one shared repository query at a time, no more copies than readers, the valid refresh token stays within reach, every caller is answered. |
| `config_reload` | 2 requests, 2 edits, 1 unreadable file, 2 callbacks | In all modes, strict or not: one load at a time and the flag set exactly then, no request without a configuration or answered from files older than those it met, services wherever there are workloads, and a configuration that catches up with the files. |
| `session` | access token 2 ticks, refresh token 3, clock to 3, 2 logins, 1 fault, 2 calls at a time | A logout is final, a session can be extended as long as its refresh token lives, no unexpired token holds roles that `cachedConfig` gave up longer ago than a token lives, an expired session is told. |
| `remote_history` | 2 things, pages of 1, days of 2 ticks, clock to 4, 2 queries, 1 failure | What is settled is reported whatever shifts between two pages, counted once where that can be promised, failed deployments show in the figures, every query ends. |
| `lambda_not_found`, `lambda_batch_failure`, `lambda_sam`, `lambda_ttl` | 1 job, 1 executor | Each refutes one documented claim; see 2.4. |

Bounds. Two loops of one start (and in `worker` two more, after stop and start) let every pair of loops, and a loop of
an earlier start, meet; two jobs are what an order, a swap or a batch needs, and the queue becomes longer than one in
`worker`. Two callers on one job show read-read-delete races; more callers repeat them. One restart suffices because a
restart erases everything except what clients know, and `lapsed` remembers which jobs that concerned; the proofs need no
bound. `MaxTroubles = 1` in Lambda mode keeps the instance at about four million states: it covers every single fault at
every point; the proofs cover every combination of faults. With two executors the liveness graph is too large for the time a run may
take, so liveness is checked with one. Deadlock checking is off where the system stops by itself (every job answered,
no restart left, no request left, the clock at its bound); `worker` and `session` run with it.

`lookup_cache` needs two readers to overlap a lookup with another's deletion or insertion, a day of two ticks so that an
instant is not a day, and a clock that passes one midnight after the first day is over; every time zone is an initial
state. A third request lets one reader find what the other two left. `config_reload`: two requests, one of which loads
while the other is let through; two edits, so that a file changes back; a failure then leaves the files good or malformed.
`session`: a refresh token that outlives its access token by one tick, so that renewal, expiry of the first and expiry of
both are all reached, and a second login after a logout. `remote_history`: two things and pages of one make every list that has two
entries shift under the cursor; the clock crosses two midnights, so a query spans a finished day, one that becomes
finished, and today; a second query meets what the first one cached. With `MaxCommits = 1` Azure's limit on the commits of a day is
reached; Azure's pull requests page in the same way without one. `FailuresShow` leaves Dynatrace out: its window includes
the following midnight, so an event may be counted on the day before its own.

The exceptions in Lambda mode are the code's: `failed` jobs (`execute()` rejected) are deleted with their batch; a job
worked on by two invocations at once (`copied`) may lose its stored answer, when the second deletes the item and ends before
it puts the new one; a job delivered again (`again`) gets a new record although its answer was fetched.

### 2.3 Fairness

`QueryWorker`: each loop is weakly fair; promise reactions run once they are ready, and a query is assumed to end
(`execute()` has no timeout, which the hazards record). Nothing obliges anyone to start, stop or
enqueue. `AsyncQueryServer`: in addition each poller's requests, and timers that are due. Nothing obliges clients to submit
or give up, records to expire, or the process to end or start again. `AsyncQueryLambda`: SQS hands out visible messages,
an invocation proceeds unless it is cut short, and clients poll on.

`LookupCache`: each reader's next await settles, with an answer or an error (`WF(ReaderStep(r))`); requests, clock, background
expiry and restarts are free. `ConfigReload`: awaits settle and the ttl runs out; that the configuration becomes current is
conditional on requests that keep arriving, because nothing else reloads it. `AuthSession`: time passes, calls settle, the
interval fires while it is set, a waiting dialog is shown, navigation happens; that the end of a session is told is conditional on
a user who goes on making requests, because a dialog that failed leaves no interval behind. `RemoteHistory`:
a running query proceeds (`WF(QueryStep)`), while the remote's history may grow at every step but is finite.

### 2.4 Where the code and what it says differ

- **204 for a live job** (`lambda_not_found`): `store()` deletes and inserts in two calls, and a poll in between
  reports "not found" although nothing expired (`dynamoResultCache.ts:48-49`, `docs/dev/async_query_api.md:47`).
- **Batch item failures are not used** (`lambda_batch_failure`): `entrypoint/query.ts` returns them, no deployment asks
  the event source for them, so the failed message is deleted.
- **Two caches in the SAM deployment** (`lambda_sam`): without `ASYNC_QUERY_RESULT_TTL`, the API function keeps jobs in
  its own memory while the executor writes DynamoDB.
- **Expired results stay** (`lambda_ttl`): the job's `expiresAt` is not the field `insertOne` turns into DynamoDB's TTL.

Not runs, because no document or test says otherwise, or because one look at the function shows it; the models contain
the first ten as the code has them, and the properties except what they cost:

- A refresh that is in flight when the user logs out brings the session back when it is answered (`store/auth.ts:processAuthResponse`).
- The tokens of an expired item are deleted before they are redeemed (`db/api.ts:162`): if the renewal fails, a rotated refresh
  token is lost and the server must be configured anew. On DynamoDB the deletion does not match, which saves it.
- `DO_NOT_EXPIRE` is -1 and truthy: NeDB dates entries without an expiry one second into the past (`nedb/db.ts:97`), so
  days that are over are fetched again and again.
- Azure reads at most 1000 commits of a day (`codeManagement/azure.ts:594`), warns, and keeps what it read as the day's history for ever.
- Failures that are logged and swallowed are stored like answers: a day whose pages could not be read stays empty, or half
  read, for ever (`forgiven` in `RemoteHistory`; `files` are validated and escape this).
- In a process east of UTC, `PermanentDayIsComplete` does not hold: the last day of a query may be kept for ever although it
  goes on at the remote.
- Windows disagree about midnights. CodePipeline, Jenkins, Jira and Azure issues leave the last day of a range out, ServiceNow the first one;
  Azure builds that cross midnight belong to no day; a Bitbucket Server commit at exactly midnight belongs to none; Dynatrace, GitHub and Azure
  commits at midnight belong to two.
- Bitbucket Server's commits are filtered by branch with an asynchronous predicate (`bitbucket-server.ts:612`), whose promise is always
  truthy: commits of every branch are taken.
- A failed reload replaces a good configuration by a minimal one for a whole ttl (`config.ts:207`); only strict mode keeps it.
- A role that was taken away lives on in access tokens that were issued from the configuration before: see below.
- `averageMultipleDailyEntriesByDay` (`utils/metrics.ts:228-233`) drops days with exactly one entry and lets the last
  group of a day overwrite the others, contrary to its comment (lines 214-217).
- Files changed on a day are requested with the same instant for both ends of the range (`vcsService.ts:392-402`).
- `limitConcurrency` passes 1 as the number of attempts to `retry`, which takes it for retries: it calls twice (`utils/retry.ts:14`).

How long a role outlives its removal from `rbac` is the sum of two hops, each with a property of its own.
`RolesAreRecent` (`AuthSession`): once `cachedConfig` no longer gives a role, no unexpired token holds it after the life of one access
token. `ServedIsRecent` (`ConfigReload`): a request, a login or a refresh among them, is answered from files no older than those its own load found
or, when it need not load, than the configuration in force. In the lazy mode that configuration is at most `CONFIG_CACHE_TTL_MS` old
(`config.ts:55-59`) when a request meets it unexpired, counted from the end of the load that read the files. So a request that is not let through during
another's reload gives a token roles that are older by at most that and the time a load takes. There is no such bound for a request that comes during
another's reload: it is let through with the configuration that expired, however long ago that was (`config.ts:72-75`); nor with
`LAZY_LOAD_CONFIG_DISABLED`, where nothing reloads the configuration before the process starts again (`api.ts:96`). Each process, and each Lambda
instance, has a configuration and a ttl of its own.

## 3. What is proved

Seven modules hold the proofs. `QueryWorker_proofs` and `AsyncQueryServer_proofs`, for any sets of jobs, clients and loops (finite), any concurrency and
any number of restarts. Assumptions: `NoJob` is not a job, `Loops` is finite, `Concurrency` is an integer, every client
polls a job.

- `TypeCorrect`, `ServerTypeCorrect`: type correctness.
- `HandOver`, `WaitersArePaired`, `NothingIdles`: the worker's three hand-over invariants. They are inductive only together (`IInv`): that a pushed message
  goes to a parked loop needs `WaitersAreParked`, that it is nowhere else needs `OnePlace`. Lemmas on `Append` and
  `Tail` of sequences without duplicates carry the steps.
- `WorkerImplementsFifo`: every worker step maps to a step of `FifoDispatch` or a stutter. The hand-over straight to a waiting
  loop is no overtaking because the queue is then empty (`NoIdleLoopWhileQueued`).
- `ServerIsWorker`: the server drives queue and loops as `QueryWorker` says, which makes the above available.
- `ConcurrencyIsBounded`: exactly `WorkerCount` loops exist while the process runs, none otherwise. `start()` is called once in a process and
  `stop()` never, so this has no run of its own.
- `JobsAreRemembered`, `RetrievalIsFinal`, `NotFoundIsJustified`: from one invariant `ServerIInv`. `NoJobForgotten` is not
  inductive: a late `store()` could contradict it unless one knows where the message of a job can be in each phase of its
  submission (`JobIInv`: not submitted, no message and no record; recorded, a pending record or a lapse; read by a request that is
  about to delete it, or fetched: no message anywhere, hence no executor that could store again), and that overdue jobs count as lapsed. A family of lemmas (`EnqueueMoves`, `BeginMoves`, ...) says how each worker step moves
  messages.
- `ServerImplementsLifecycle`: every server step is a step of `JobLifecycle` or a stutter.

`ConfigReload_proofs`, for any set of requests and any number of edits, errors and callbacks. Assumptions: the start of the process
is not a request, "no configuration" is not one, the bounds are naturals.

- `ServedFilesAreRecent`: `Versions` follows a version from the files through a load into `cachedConfig`. What a load has read is no older than what is in
  force, than what its own request met, and than what any request met that is served meanwhile; `SingleLoader` excludes that another load, begun earlier, installs older files.
- `ConfigTypeCorrect`, `OneLoadAtATime`, `NoRequestWithoutConfig`, `ServicesAreThere`, from one invariant `Inv`. `OneLoad`
  counts processes; the invariant says instead that any two processes inside `loadConfig` are the same one (`SingleLoader`), which a step
  preserves without counting. `ServedHasConfig` needs `Gate` (nobody is served before the start came up) and `HasConfig` (whoever is past the
  reading has one). `ServicesFollowWorkloads` needs `Comparison`: what a load took for the previous number of workloads is what it was when the
  services were last considered, so the callbacks run whenever it matters.

`AuthSession_proofs`, for any lifetimes, clock and number of logins, faults and pending calls. Assumptions: the two role sets
differ, an access token lives at least one tick and no longer than a refresh token, the bounds are naturals.

- `SessionTypeCorrect`: includes that at most two dialogs wait, because no dialog is queued twice.
- `LogoutStays`: `LogoutHolds` strengthens it to all three copies of the tokens and to the calls in flight; that nothing else is pending
  needs `Quiet` (a page that is logged out has no timer, dialog or call but a login).
- `RefreshTokenLasts`: `Lasting` adds localStorage, from which a reload restores the store, and the token a pending refresh
  carries.
- `RolesExpire`: `Issued` bounds every access token, in whichever copy or call, by the time `cachedConfig` last gave its roles.

`LookupCache_proofs`, for any finite set of readers, any number of requests and faults, any length of a day and any lifetimes of items and
tokens. Assumptions: a day and the lifetimes last at least one tick, `NoReader` is not a reader, `NoItem` not an item. A first layer of
lemmas says what `RemoveAt`, `RemoveFirst` and the division of instants into days do; a second (`FindDoes`, `InsertDoes`, ...) what each action
does to its reader and what the other readers notice of it (`Others`): at most that a query they share has settled.

- `CacheTypeCorrect`, from `Sound`: types, what a reader holds where it stands (`Shape`), and `Numbered`: a rotating server accepts only the
  last token it issued, and every reader that may still redeem one was counted as a request, which bounds the tokens.
- `RepositoryListQueriedOnce`: `SharedQuery` adds that the store is empty while the reader on record fetches. That is why the answer it inserts
  later is the only copy.
- `PermanentDaysAreComplete`: the ttl is chosen when a call begins and decides what is stored after a lookup and a fetch. `DaysKept` links the two: a
  reader without a ttl works on a day that was over when its call began (`IsOver`). `DayWithoutTtl` is the arithmetic: a past or present day that
  is not today is over at or west of UTC.
- `CopiesStayBounded`: inductive with `Sound`. A copy is paid for by the reader that stops fetching, and a reader begins to fetch only where no item is
  left or an expired one was evicted (`CopiesCount`).
- `ValidTokenIsKept`: `NewestToken` says that at most one reader holds a renewal that is not stored yet, and that no stored or looked-up token is
  it, so nobody else can redeem it meanwhile; `Within` says where the newest token is as long as nothing was lost, call by call of `getApiKey`.
- `PermanentDaysStay`, about steps: in the stores that append, an entry without expiry is never taken away again but by the end of the process that keeps it in
  memory. It does not extend to DynamoDB, which replaces by key: the later of two overlapping readers overwrites what the earlier stored for ever.

`AsyncQueryLambda_proofs`, for any sets of jobs and executors, any batch size and any number of troubles, for a shared result cache or two.
Assumptions: `SharedCache` is a Boolean, the batch size a positive natural, the number of troubles a natural. The theorems are about `SafetySpec`,
the specification the safety run uses.

- `TypeCorrect`, from `Types`: an invocation is at a call exactly while messages of its batch are left, it has no message twice (`Loop`), and how far a
  submission got, whether its message was sent and what its client does fit together (`Stages`). What a step does to the invocations is said once, from
  outside: it stays with its message, moves on, begins or ends (`Stays`, `Moves`, ...).
- `AcceptedJobsSurvive`: `AcceptedIsNotLost` looks at the message only. Inductive is what the invocations owe: `OneWorker`, a message that is not
  duplicated is in one batch at a time and not deleted meanwhile, and `Progress`, a message that was deleted, or that its invocation has left behind, is answered.
- `RetrievedAnswersStayGone`: needs `Final`, while a message that was delivered once is still to be worked on there is no answer to fetch; so no
  `PutNew` follows a retrieval.
- `StoredAnswersAreFinal`, about steps, from the same invariant: a result or an error in the table is not replaced, nor put back to "processing", by a late store of an
  executor; only the poll that delivers it removes it. `again` marks the deliveries by which SQS breaks this.

`RemoteHistory_proofs`, for any number of things, page size, limit, length of a day, lifetime of today's entry, clock, queries and failures, and each of the
fifteen providers. Assumptions: page size, limit, length of a day and lifetime are positive naturals, the other bounds naturals. All four invariants of the
run are proved, from one inductive invariant of six parts:

- `History`: things begin in the order of their numbers (the list is in order), and end after they began.
- `Control`: types, and where a query stands. `TypeCorrect` follows from these two.
- `Cut`: the spans left are disjoint parts of the query; they are days, one range, or gaps of the cache (`GapsApart`: two gaps have no day in common).
- `Paging` (`ReadSoFar`): the pages so far hold only what the request selects, and what is due, because it happened on a day of the span and had ended when the call
  began, is among them or still ahead of the cursor. The lemma behind it is `PageByPage`: no way of paging passes over an item that is ahead, or ends before it,
  unless the limit ends it. `SelectionGrows` adds that the remote's steps only make lists longer and put nothing due before the cursor.
- `CacheWell`: an entry holds what was due when its call began, unless it was cut short, and is kept for ever only if its days were over by then.
- `Gained`: the result was selected for days already read, and what settled on such a day is in it. `NothingSettledIsMissed` is this part with no span left;
  `NothingIsCountedTwice` uses that no thing belongs to two spans of these providers (`SelectedOnce`); `FailedDeploymentsShow` that a run is selected only for the
  day it began on, so both figures count over the same days.
- `PastIsFixed`, about steps: an entry kept for ever is never replaced. It adds `Untouched`: a span that is still to be read, or being read, has no such entry.

Two attempts at these proofs corrected the model. `forgiven` was a set of days: a range of issues whose read failed is cached for ever, and a later, shorter
range that succeeds excused its days, so the next query over the first range was served less than `SettledIsReported` promised (three queries; TLC confirms it, the
run has two). It is a set of spans now, which is what the cache is keyed by. And the failure rate was a whole percentage, by which `FailuresShow` fails
from 101 deployments a day on; the code keeps the fraction. Asking what a theorem for any number of commits says of the code brought in `MAX_COMMITS_PER_DAY`.

Only model-checked: liveness, that is `QueuedIsTaken`, `PollingIsAnswered`, `ExpiredIsRemoved`, `AcceptedIsSettled`, `AnswerReachesClient`, `EventuallyCurrent`,
`SessionEndIsTold` and the two `Answered` (TLAPS has no support for `ENABLED` and fairness). Every invariant of a passing run and both refinements are proved. Results about
recursively defined data would need induction theorems that take operators as parameters, which the installed provers cannot use; no module
here declares a recursive operator.

## 4. What is not modelled

- **Stored queries, query engine, hotspots, temporal coupling, prediction, LLM, licence and administration routes**: computations over what the modelled
  services return, or straight-line handlers.
- **React pages, the Vue interface, deployment, mocks, tools, documentation**: rendering and configuration; what they fix for the
  asynchronous API is part of `AsyncQueryLambda`.
- **Of the providers**: single-item lookups (a commit's pull request, a file, merge rules), code analysis and project management,
  the mapping of fields; Bitbucket Cloud's pull requests, which are selected by their last update and so move between days; rate
  limiters and the order of concurrent requests. Azure's limit of 20,000 issues is not reached: a longer gap would be split, and a single day that exceeds it
  be cut with a warning or fail (`tickets/azure.ts:419-423`). Jira is assumed to report a total. The last second of a day, which ServiceNow leaves out
  of its range, is shorter than a tick.
- **Of authentication**: long-lived service tokens and their revocation, checks of required roles, cryptography.
- **Of the stores**: key schemas and marshalling, `find()` of many items, DynamoDB's eventually consistent reads, table creation, remote calls that fail
  although they had their effect (other than the token redemption), message retention in SQS.
- **Of the asynchronous API**: the query itself, the 32-bit limit of `setTimeout` for TTLs above 24 days, and
  `LOOKUP_CACHE_ENABLED=false` in Lambda mode, where the "DynamoDB" result cache would live in memory.

Most of the repository's lines are of the first two kinds, or map the fields of a response: the modules cover most of the code that keeps state
across an await, which is a small part of the whole, and modelling the rest would restate it.

## 5. Plan

1. A common abstract specification of a job in both deployments: the Lambda mode against `JobLifecycle` with the redelivery of messages and the failure of
   calls as steps of its own.
2. `ServiceTokens` and `StoredQueries`: revocation against validation; union and replacement.
