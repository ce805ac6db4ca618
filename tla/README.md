# A verification project for mcp-agent-gateway

TLA+ models of the MCP agent gateway, TLC runs that check them on small
instances, and TLAPS proofs of the properties that matter most. Paths are
relative to the repository; `app/...` is its Python package.

## 1. The system: inventory

The gateway is a FastAPI process, usually several of them, in front of Google
Drive and Slack. MCP clients authenticate with a Keycloak token; the gateway
calls the upstream services with shared tokens of its own. All durable state is
in Redis; each process also keeps MCP sessions in memory. Everything in a process
runs on one asyncio event loop, so two coroutines interleave at `await`s, and two
processes interleave at Redis commands. That is the granularity of the models.

| Component | State | Operations | What is hard | Correct when |
|---|---|---|---|---|
| Drive export jobs (`integrations/google/jobs.py`, `job_tools.py`, `job_worker.py`) | `jobs:drive_export` stream with its consumer group, `job:owner:{id}`, `results:{id}`, files on disk, one worker task per process | submit, wait, reclaim, read, process, publish, acknowledge, shut down | crashes, slow jobs that are reclaimed, errors of any Redis command, keys that expire at different times | no accepted job is lost, each gets a result, only the submitter reads it |
| Slack webhook (`api/webhooks_router.py`, `integrations/slack/signature.py`) | `webhook:slack:{event}` claims, `events:slack` | receive, claim, append | Slack repeats deliveries, concurrently and late | an event is appended once, and not lost once answered |
| Rate limiter (`middleware/rate_limiter.py`) | `ratelimit:{user}` counter and its expiry | one Lua script per request | expiry races, rounding, outage of Redis | the limit holds per window; Retry-After is enough; windows end |
| Event store (`mcp/event_store.py`) | deques per stream and an index by event id | store, replay | replay awaits between two events; two eviction rules | index and deques agree; a replay has no gap |
| OAuth authorize and client registration (`authorization/`, `identity/client_registration/`) | `client:{url}` registrations, Keycloak's clients | authorize | two first requests at once, documents that change, partial failures | a client URL is redirected only with its own registration and URIs |
| Google token store (`integrations/google/token_store.py`) | `token:google:shared` | get with refresh and write-back, seed | unserialised refreshes, clocks, restarts | no expired token is handed out |
| Tool calls (`mcp/server.py`, `integrations/*/tools.py`, `drive_client.py`, `slack_client.py`, `shared/usage.py`) | a call in progress, `usage:{user}` | dispatch, request, retry, record | replies that are lost or fail after taking effect | posts and records accounted for; every call ends |
| Drive query builder (`integrations/google/drive_query.py`) | none | build a search string | symbols that escape each other | Drive reads back the filters |
| Application lifespan (`main.py`, `mcp/app.py`) | Redis and HTTP clients, the worker task, the session manager | start, shut down | any step may raise; clients are closed while tasks wind down | all that was opened is closed, nothing is used outside its life, a shutdown waits for nothing but the worker |
| Request pipeline and sessions (`main.py`, `middleware/access_guard.py`, `origin_guard.py`, `request_logger.py`, `security_headers.py`, `mcp/server.py`, `shared/context.py`, `api/usage_router.py`) | requests in flight, MCP sessions with the context they captured | one dispatch per middleware; list and call tools and prompts; event streams; the admin report | the order of the middlewares; a session's task keeps the identity of the request that opened it; sessions are in one process's memory | a protected route is reached only through every guard; answers are logged; what a session may list is what it may call; requests end |
| Slack token seed, in-memory store, health, configuration, logging, token validation | little or none | | | see `components` in `PROJECT.json` |

Interactions: the lifespan (`main.py`) starts the worker task and cancels it; the
tools submit jobs to the worker through Redis only; the worker and the Drive tools
ask the token store for a token; the limiter, the webhook and the registry share
Redis and nothing else; the MCP session manager writes to the event store. A
request passes SecurityHeaders, CORS, the logger, OriginGuard, AccessGuard and the
limiter, from the outside to the inside, before it reaches a route.

`PROJECT.json` lists under `hazards` what can go wrong, each at its line, and the
properties that would show it.

## 2. Modules

`X.tla` is the specification of a component, `MCX.tla` its instances for TLC,
`X_proofs.tla` its theorems. The `map` of `PROJECT.json` gives, for each
definition, the lines it stands for.

- **ExportJobs** — the whole life of an export job. Redis commands are operators
  of their own (`XAddJob`, `CreateGroup`, `Deliver`, `Claim`, `XAck`,
  `XAddResult`, `ExpireResult`, `ExpireOwner`); the tools are `SubmitOwner`,
  `SubmitEntry`, `WaitForJob`, `ReadResult`, `WaitTimeout` and their error
  variants; `JobWorker.run` is a program counter per worker with one action per
  await: `EnsureGroup`, `Reclaim`, `ReadNew`, `Fetch`, `OpenFile`, `WriteFile`,
  `Publish` (its three commands are three steps) and `Ack`. Each command has an
  error action in which Redis applied it or not. `StopIdle`, `StopBusy` and
  `StopAck` are the cancellation at every await, `Crash` the death of the
  process, `Tick` the expiry of keys and the idle time of pending entries.
  `Authorized` is the set of keys with a Google token: the worker looks it up
  under the job's `user_id`, as its test fixtures store it, while the production
  seed stores only `google:shared` (see the end of section 3).
- **JobService** — the abstract specification of the two job tools: a job is
  asked for by one user, has at most one answer at a time, keeps it until it
  expires, and gives it to nobody else. `ExportJobs!Service` is its instance
  under the mapping `asked <- submitter`, `answer <- result`,
  `delivered <- seen`; workers, streams, groups, pending entries, files and
  owner keys are hidden by it. `result[j]` is the first record of the result
  stream, which is the one `read_result` returns: two workers may publish
  different records for one job, and the abstract answer still never changes.
- **SlackWebhook** — deliveries are messages that stay in flight for ever, so
  that they may be lost, repeated and delayed; handlers claim, append, fail.
- **RateLimiter** — the Lua script as one atomic step, as Redis runs it, so that
  there is no counter without an expiry; time in milliseconds (scaled), Retry-After
  in seconds rounded up, and the fail-open path. The history
  `recent[u][a]` counts what was let through in the last `a` ticks and this one.
- **EventStore** — the deques, the eviction of events and of streams, and a
  replay that hands out one event per step while others are stored. A replay is
  the deque its loop iterates (`walk`), the position whose callback it awaits
  (`at`) and what happened to that deque meanwhile (`iter`). A callback that raises
  ends its replay and leaves the store as it is; the model has no step for it, as a
  replay may stop at any await anyway: nothing makes it go on.
- **EventLog** — the abstract specification of the event store: a log that is only
  appended to, and replays that deliver what followed an event, message by message.
  It has no deques, limits or index. EventStore implements it with the variables of
  the same names (`ImplementsLog`): the limits decide which events can be resumed
  from, and nothing else of them shows.
- **Authorize** — handlers with one action per await: registry lookup, fetch of
  the metadata document, enrolment at Keycloak, save. Documents change at any
  time. A client id that is not a URL is sent on to Keycloak as it is, with a
  redirect URI that the gateway does not check (`Forward`). Requests with bad
  parameters are refused and change nothing. `redirected` is the redirect that the
  last step sent: the client_id asked for, the redirect URI and the client it names.
- **GoogleToken** — an access token is the time at which Google stops accepting
  it; the gateway only knows the time it computed from its own clock. Reads,
  refreshes and writes are bounded by the timeouts of their clients.
- **ToolCalls** — a call of a Drive or Slack tool, from the scope check to the
  usage record; a reply is one of the classes the code tells apart. The calls in
  `Anonymous` have no user, or no Redis to record them in. `MeterError` is a failure
  of counting the tokens or of the `XADD`, `Cancel` the cancellation of the call at
  any of its awaits, that of the record included.
- **DriveQuery** — `_escape` and `build_drive_query` as operators on sequences of
  symbols, and an independent reader of Drive's query language (literals, escapes,
  words). ToolCalls states that reading what was built gives the filters back
  (`SearchAsksItsFilters`).
- **Lifespan** — `lifespan` of `main.py` with one action per await: `Connect`,
  `Build`, `Seed`, `Launch`, then `CancelWorker`, `AwaitWorker`, `Close` (one
  client per step, in the order of the finally clause) and the exceptions each of
  them may raise. The worker is a task that runs, fails, or ends some time after
  it was cancelled, unless another exception takes the place of its CancelledError
  and the loop goes on (`WorkerSwallows`). That it ends when no Redis command fails
  is `StopsEnd` of ExportJobs.
- **Gateway** — extends Lifespan with the requests a process serves. Up to the
  limiter no middleware awaits anything, so what they answer is a function of the
  request and of the order `Stack`: `Verdict`, `Refusal`, `Admitted`. A request
  that is admitted is in flight, counted by the limiter (`Limit`; what the limiter
  decides is in RateLimiter), and handled by a public route, by the report, or by
  an MCP session, in which it lists, calls, or holds an event stream open (GET
  /mcp/, op "stream"; what a stream replays is in EventStore). A session keeps the
  token that opened it (`Context`), whatever the later requests carry. Every answer
  leaves from its place in the stack (`Answer`), those of the middlewares included
  (`Refuse`); `unlogged` is the history of the answers without a log line. How the
  MCP library finds, opens and ends sessions, and that uvicorn waits for requests
  before it ends the lifespan, is external and modelled from its use. Rate limiting is
  taken to be enabled, as configured by default.

Data is abstracted to what the properties distinguish: jobs, users, events and
URLs are model values, a document is its set of redirect URIs, ciphertexts and
message texts are left out (in DriveQuery, where they matter, a text is a sequence
of the symbols the code and Drive tell apart).

## 3. Runs

Bounds are constants of the modules, set in the `.cfg` files.

| Run | Instance | Shows |
|---|---|---|
| `jobs_faults` | 2 workers, 1 job, 2 polling users, one crash, one Redis error, one failed start; expiries of 2 ticks; no consumer group yet | `TypeOK`; `OwnerOnly`: a result reaches only its submitter; `NotFoundIsFinal`; `CompletedHasFile`; `NoImmortalResult` and `OwnerOutlivesResult`: keys get their expiry as long as no worker is interrupted; `ImplementsService`: every step is a step of JobService or a stutter |
| `jobs_live` | 2 workers that claim batches of 2, 2 jobs (of a user without a token: the worker answers "unauthorized" and writes no file), one crash, one shutdown | `LossIsBounded`: a shutdown costs at most the job in hand; under fairness `QueueDrains` and `StopsEnd` |
| `jobs_stop` | 1 worker, 1 job, one stop | violated: `NoLostJob` |
| `webhook_dedup` | 2 handlers, an event with an id and one without, skew 1, freshness 1, claims of 4 ticks, 5 ticks of time, one failure | `AtMostOnce`; `KeptUnlessFailed` |
| `webhook_lost` | as above, one event | violated: `AnsweredIsKept` |
| `limiter_bounds` | a second of 3 ms, one outage | `WindowBound`, `BurstBound`, `RetryAfterSuffices`, `WindowsEnd` |
| `events_replay` | 3 streams over a limit of 2, 3 events per stream, 5 events, 2 readers | `IndexIsDeques`, `WithinLimits`, `ReplayIsExact`; `ImplementsLog`: every step is a step of EventLog or a stutter |
| `events_interrupted` | 2 streams, 1 reader | violated: `ReplayNeverFails` |
| `authorize_redirects` | 2 handlers, 2 client URLs, of which one changes its document, a plain client id, 2 redirect URIs, 2 registrations, entries of 2 ticks | `RedirectIsRegistered`, `RedirectWasPublished`, `WithdrawnUriStops` |
| `token_valid` | 2 calls, 3 processes of which 2 seed, tokens of 3 ticks, 5 ticks of time | `ServedIsValid` |
| `calls_retries` | 2 calls, one of them without a user, 3 attempts as configured, one failure of a usage record, cancellation anywhere; search texts of up to 4 symbols, of up to 2 in two filters at once | `PostedOnce`, `MeteredOnce`, `CallsEnd`, `SearchAsksItsFilters` |
| `gateway_requests` | 1 process, 2 requests, 1 session, 2 tokens of a user whose roles change in between, 3 names, 2 exceptions of the lifespan | `PassedTheGuards`, `AnswersAreLogged`, `CallableIsListable`, `UseIsOpen`, `ClosedAtEnd`; under fairness `ShutdownEnds` and `RequestsEnd` |

Why the bounds are enough. Two processes, handlers or calls give every race of
two; the code has no step that involves three, and the theorems listed below
have no bounds. One fault of each kind reaches
every error path; `jobs_faults` combines crashes and errors, `jobs_live` crashes
and shutdowns. Expiries of one or two ticks
let keys expire before, between and after any two steps. The store's limits are
small enough that both evictions happen in every interesting order. Three
attempts is the configured number. Two client URLs let a handler meet the cache
entry or the registration of the other client. Two exceptions of the lifespan let the
worker swallow its cancellation, or a close fail, after a failure. Four
symbols in a text are enough for every pair of neighbours among quote, backslash, letter and " and ", at either end of it.
`gateway_requests` has one process: what a second one changes, a session id that
is not found, also happens when the session was closed, and the theorems about
Gateway hold for any number. Deadlock checking is off only where a bound
ends the run (`webhook_*`, `events_*`).

Fairness. `jobs_live`: each worker's loop is weakly fair (the event loop runs
every ready task, and Redis answers: the run has no Redis error and no command that
hangs), a process that died is restarted by its supervisor, and time passes; nobody
has to submit, poll or fail. `gateway_requests`: a request is weakly fair as long as
what it awaits has a limit, by the timeout of a Redis or HTTP client. It is not in an
event stream, nor in a tool that uses the Redis of the jobs, which `main.py:73` opens
without a socket timeout (`Unlimited`): `RequestsEnd` says that a request is answered
or comes to one of these two places. The steps of the finally clause of the lifespan
are weakly fair, those of the worker are not: `ShutdownEnds` says that a shutdown
ends or waits for the worker, and for nothing else. Nobody has to send a request, and
no process has to start, stop or crash. `authorize_redirects` and `calls_retries`:
each await of a handler ends, by its timeout at the latest. `limiter_bounds`: time
passes.

### Disagreements between the code and what is said of it

Three runs are expected to fail, and `findings` in `PROJECT.json` quotes the
line each contradicts: a shutdown acknowledges the job it interrupts
(`jobs_stop`); a webhook whose handler fails between its claim and the end of its
`XADD` is answered as a duplicate when it is repeated (`webhook_lost`; TLC's trace
loses the reply to the `SET NX` after Redis applied it, and a failing `XADD` does the
same); and a replay fails when an event is stored to its stream meanwhile
(`events_interrupted`).

Two properties of `gateway_requests` hold, and a text of the repository says
otherwise:

- `AnswersAreLogged`: the answers of the guards leave a line in the request log, as
  `main.py` adds the logger after them, that is outside of them. `README.md:493-495`
  of the repository says that `AccessGuard` answers "before the request-logging
  middleware runs, so rejected requests produce **zero log lines**", and its request
  path (102–104) has the same order.
- `CallableIsListable`: which tools a caller sees and calls depends on the token that
  opened the session, not on the one it comes with. In a session opened before a role
  was withdrawn, a request with the new token still lists and calls the tools of the
  old one, while `app/mcp/server.py:142-143` says "a caller without the scope cannot
  tell the tool exists". The run has two such tokens.

The models show further behaviour that a maintainer may want to know. Those about
jobs, tokens and the limiter were obtained by changing a bound of a run, the others
are in the modules as they stand:

- The worker looks for a Google token under the job's `user_id`, but only the
  shared token is ever stored (`app/integrations/google/tools.py:96`: "All
  gateway-authenticated users share one upstream Google token"): with
  `Authorized` the shared key alone, every export is answered "unauthorized".
- A Redis error while the "failed" record of a job is published also
  acknowledges the job without a record (`jobs_stop` with a Redis error in place
  of the stop).
- On a Redis without the consumer group, a job accepted before the worker task
  has created the group (`id="$"`) is never delivered (`jobs_live` with
  `FreshRedis = TRUE`).
- A job that is processed after its owner key expired has a result nobody may
  read; `EXPIRE` does not bring the key back.
- A second run of a reclaimed job truncates the file of a result that already
  says "completed"; if it dies there, the file stays torn. If it dies between
  `XADD` and `EXPIRE` after the first result expired, its result never expires.
- An error of `XACK` during a shutdown replaces the `CancelledError`, and the
  worker loop goes on: `lifespan` then waits for it without an end. This is one
  reason for the exception that `ShutdownEnds` makes, a Redis that does not answer the
  other.
- An event stream keeps its request in flight for as long as the client stays, and a
  graceful stop waits for the requests in flight.
- Two processes that seed the Google token at the same time both write it, and
  the later one may overwrite a refreshed record; the next call refreshes again.
- When the worker task failed before its loop (`ensure_group`), awaiting it raises
  in the finally clause of `lifespan`, and no client is closed: `ClosedAtEnd`
  excepts this case, and fails without the exception.
- A bearer token that is not a JWT at all raises `jwt.DecodeError`, which
  `AccessGuard` does not catch: the request is refused with a 500 that the logger
  does not record, where a 401 seems meant. `AnswersAreLogged` excepts exceptions
  for this reason; a Redis error while the report is read is the other one.
- A client id that is not a URL is redirected with a redirect URI that was never
  checked, as `tests/authorization/test_router.py:90-94` expects. The docstring of
  `_error_response` (`app/authorization/router.py:28-33`), that a browser must not be
  sent to a redirect URI that was not validated, covers the errors of the gateway; for
  plain client ids the check is left to Keycloak.
- MCP sessions live in one process, while `compose/production/fastapi/start` runs
  four: a request that reaches another process is answered 404.
- A refusal in the last millisecond of a window carries `Retry-After: 0`.

## 4. Proofs

All are checked by TLAPS for every value of the constants, under the named
assumptions of each module. Each follows one argument: an inductive invariant,
one step per action, and PTL for the temporal conclusion.

- **ExportJobs_proofs.** `TypeCorrect`. `JobsSurviveCrashes` (`NoLostJob`): not
  inductive alone; `Durable` adds that stream ids are handed out once, that the
  group has not run ahead of the stream, and that a worker past the `XADD` of
  `_publish` works on a job that has a result. It assumes what the failing runs
  show to be needed: no graceful stop, no Redis error, and an existing group.
  `OnlyTheOwnerReads` (`OwnerOnly`): a waiting user is the submitter, because
  the owner key is written once and never changes hands. `NotFoundStays`
  (`NotFoundIsFinal`), an action property. `CompletedNamesAFile`
  (`CompletedHasFile`): a worker that publishes "completed" has written a file,
  and no step deletes one. The last three hold under every fault.
  `ResultsExpire` (`NoImmortalResult`) and `OwnerKeyOutlives`
  (`OwnerOutlivesResult`): the two together with "a job that was never submitted
  has no expiry" are inductive (`Expiring`); the owner key's time is set after the
  result's by the same worker, so it can only lag while that worker stands between
  the two commands. `LossesAreBounded` (`LossIsBounded`): counting lost jobs is not
  inductive, since the fault comes one step before the `XACK`; `Accounted` counts
  the doomed ones, lost or about to be acknowledged by a worker that has not
  published. Of the steps only `PublishError` and `StopBusy` add a job to that set,
  at most the one in hand, and each of them is a fault.
  `ExportJobsImplementService` (`ImplementsService`):
  the initial states map to initial states, and every step to `Submit`,
  `Complete`, `Expire`, `Deliver` or a stutter. The strengthening is `Known`: a
  job that a worker has in hand, or that is in the stream, was submitted, and a
  waiting user is its submitter. The delicate steps are `Publish`, whose `XADD`
  is a stutter when a record is there already, and `Tick`, which may expire any
  set of answers at once. It holds under every fault.
- **EventStore_proofs.** `IndexAgrees`, `LimitsHold`, `ReplaysAreExact`. The store's
  half of the invariant: ids grow along each deque and belong to its stream, a deque
  holds every event its stream got since its oldest one (`Gapless`), and the index
  is the union of the deques. The replay's half: what was sent is the messages of
  `walk` up to the position awaited, in order and without omission, and while the
  iterator is intact `walk` is still the stored deque. Storing evicts from the front
  only, so a replay that goes on over an evicted stream's deque still sends it
  all, and one whose deque was modified stops at the next step.
  `StoreImplementsLog` (`ImplementsLog`) is the refinement of EventLog: the position
  in the deque is the least message that is due and not sent, so that no message is
  sent twice, the loop ends exactly when nothing is due any more, and the iterator
  raises only after a further event of its own stream (`Log!Overtaken`). It is the
  positive side of what `events_interrupted` shows: an eviction never ends a replay.
- **Gateway_proofs.** `GuardsHold`, `GateIsFilter`, `ClientsAreOpen`,
  `LifespanCloses`, `TypeCorrect`, from one invariant: what a lifespan holds at
  each of its steps (`Holds`); that a request in flight was admitted, is counted
  past the limiter, is served by a process that is up, and runs a name if and only if
  its session sees it (`FlightOK`); and that a session goes on in a process that is up
  and listed nothing beyond its context (`SessionOK`). `AdmittedIsChecked` is the one
  fact about the order of the middlewares for requests that pass, `SeenIsCallable` the
  one about the groups: every name of the registry is in one of them, so that the
  gate's test and the filter's agree. `LogIsComplete` (`AnswersAreLogged`) goes through
  every step that answers: the limiter and the application are inside the logger; of
  the other middlewares only CORS and the two guards stop a request (`StoppedAt`), and
  what stops it outside of the logger is CORS, which answers a preflight
  (`RefusalPlace`). Assumption: the value for "no session" is not a session.
- **SlackWebhook_proofs.** `AppendedAtMostOnce`, from the assumption that the
  claim outlives every copy that can still be accepted
  (`DedupTTL > RetryWindow + Skew + MaxAge + CmdTimeout`). `KeptWithoutFaults`
  (`KeptUnlessFailed`): every claim is backed by an entry or by the handler that is
  about to append it (`ClaimsAreBacked`), so whoever is answered as a duplicate is
  answered truthfully.
- **RateLimiter_proofs.** `WindowIsBounded`, `RetryAfterIsEnough`.
  `BurstsAreBounded` (`BurstBound`): `Bursts` bounds every shorter stretch too.
  Since the window began it is what the window allowed, beyond that one limit more,
  and outages on top of either. A window outlasts every stretch that is looked at,
  so when it ends, what it leaves behind is one limit.
- **Authorize_proofs.** `OnlyRegisteredRedirects`, `OnlyPublishedRedirects`: the
  invariant follows a document's URIs from the handler that fetched them through
  Keycloak's registration to the cache and back. Both are about client ids that are
  URLs; a plain one keeps its name.
- **GoogleToken_proofs.** `ServedTokensAreValid`: the computed expiry is later
  than the real one by at most the HTTP timeout, and the margin covers that.
- **ToolCalls_proofs.** `PostsAreAccounted`, `ResultsAreMetered`: while a call
  has no result, it has no record and no more posts than server errors. A result for a
  user then gets its one record unless recording fails.
  `QueriesAskTheirFilters` is about the query of a search, for every alphabet and
  texts of any length, and `SearchesAskTheirFilters` (`SearchAsksItsFilters`) follows
  from it. It is an induction over the text in first-order form: over a set of numbers
  (`NatSetInduction`, from the well-foundedness of `<`) instead of a predicate.
  `StepwiseExists` and `StepwiseEqual` give the recursive functions of DriveQuery their
  equations (`ReplaceAppend`, `ReadAppend`); with those, `_escape` works symbol by
  symbol although it replaces twice (`EscapeAppend`), the reader stays within a
  literal up to its closing quote (`ReadInLiteral`), and `Reads`, what a piece of the
  query is read as wherever it stands, is closed under " and ".

`TypeCorrect` is proved in every proof module but EventStore_proofs, where the types
are part of the invariant. The limiter's types are left to the proof; its run checks
the bounds that rest on them.

Only model-checked: all liveness properties (`QueueDrains`, `StopsEnd`,
`WindowsEnd`, `WithdrawnUriStops`, `CallsEnd`, `ShutdownEnds`, `RequestsEnd`), as
the prover handles neither fairness nor ENABLED.

## 5. Not modelled

Configuration, logging, health and static metadata documents: no state of their
own. The cryptography of tokens and the key cache behind it (a library's): a token
is valid, turned down, or garbled. HMAC verification is a guard: every delivery in
the model carries Slack's signature. HTTP connections and their pools are
represented by their timeouts. What the Slack seed stores: the record never
expires and is never refreshed, so no step tells two writes of it apart. The sums
of the usage report, and the layout of every reply. The Keycloak seed script runs
before the gateway and only provides roles. `InMemoryStore`, `pop` and `clear`
have no caller in the application.

## 6. Plan

1. Core, done: ExportJobs, SlackWebhook, RateLimiter, EventStore, Authorize,
   GoogleToken, ToolCalls, with their runs and first theorems.
2. Extend, done: JobService and the refinement, Lifespan, Gateway, DriveQuery,
   and their theorems.
3. Prove, done: every safety property that a passing run checks is a theorem, and
   the two refinements (JobService, EventLog) are proved step by step.
4. Next: one specification of a worker's task that both Lifespan and ExportJobs
   implement, so that a stop of the process is followed from one into the other.
