# Self-consistency answer engine: TLA+ models and proofs

These modules specify the parts of the answer engine whose correctness depends on the order in which
several processes act: workers, API replicas, the queue, the sweepers,
identity and billing webhooks, callers and operators. Each
module is written from the TypeScript it names; `PROJECT.json` maps every definition to the lines it
models. Paths below are relative to `src/packages/` unless they start with `doc/` or `infra/`.

## The system

A tenant asks a question. The API (`server`) writes a `Run` row with one `Candidate` row per model of
the panel, and queues a BullMQ flow: one job per candidate, and a synthesis job that runs when all of
them are finished. Workers (`worker`) call the providers, write answers, compare them, and complete the
run. Progress goes to a durable log in Postgres and to a Redis stream, from which SSE connections are
served. Terminal events become webhook deliveries through an outbox. Around this sit idempotency keys,
rate limits, plan quotas, a global spend guard, identity and billing mirrored from Clerk, share links, an
SDK, a CLI and a web app.

Two stores hold everything: Postgres (authoritative) and Redis (the queue, the streams, the cancellation
channel, breaker state, rate-limit windows). No transaction spans the two, and most operations are
several single-statement writes to Postgres. What is hard here is therefore nearly always the same: a
process reads, awaits, and writes on the strength of what it read; another process, a redelivery, a
crash or a late message comes in between.

### Inventory

| Component | State | Operations | What can go wrong, and what makes it correct |
| --- | --- | --- | --- |
| Run lifecycle (`worker/src/candidate.ts`, `synthesis.ts`, `context.ts`, `reaper.ts`, `server/src/runs.ts`, `queue/src/queues.ts`, `db/src/repository.ts`) | `Run`, `Candidate`, `Synthesis`, `UsageRecord` rows; jobs and attempts; abort signals | start, cancel, process candidate, process synthesis, reap | Redelivery after a crash, cancel against completion, deadline against completion, partial failures. A run ends; `COMPLETE` is backed by answers; a cancellation reaches every call; an answer is paid for once. |
| Progress bus (`queue/src/bus.ts`, the SSE routes) | `RunEvent` log, Redis stream or listeners, each connection's cursor | publish, subscribe, backfill, follow, resume | Publishers interleave, connections drop, streams are trimmed. Each reader gets the log in order, once, with no gap, and its stream ends. |
| Webhook outbox (`worker/src/webhooks.ts`, `db/src/webhooks.ts`, `queue/src/webhooks.ts`, `server/src/v1/webhooks.ts`) | `WebhookEndpoint`, `WebhookDispatch` rows, delivery jobs | emit, deliver, retry, sweep, replay, enable, delete, prune | Two stores, at-least-once jobs, concurrent failure counts. No delivery is lost or claimed without a 2xx; an endpoint is disabled by that many different deliveries. |
| Announcement and receivers (`worker/src/synthesis.ts`, `shared/src/webhook.ts`, `sdk/examples/webhook-receiver.ts`) | event ids, secrets, what a receiver has handled | announce, sign, verify, deduplicate, rotate a secret | Several deliveries of one end. A receiver that follows the example acts once. |
| Idempotency keys (`server/src/v1/idempotency.ts`, `db/src/idempotency.ts`, `sdk/src/http.ts`) | `IdempotencyRecord`, `Run.idempotencyKey` | claim, read, reclaim, complete, release, sweep | Retries beside the request they repeat, crashes, expiry. One key does its work once a day, and one run for good. |
| Quota, budget and kill switch (`server/src/quota.ts`, `db/src/billing.ts`, `db/src/metering.ts`, `worker/src/context.ts`) | `KillSwitch` row, usage rows, one cache per API replica and per worker | judge a run, trip, release, halt | Check-then-act, stale caches. Spend stops within a window of the cap; the switch latches; the ceiling stamped on a run fits its month. |
| Circuit breaker and bulkhead (`worker/src/resilience.ts`) | Redis hash per provider, a semaphore per process | check, acquire, record outcome | Late outcomes, commands that are not atomic. Permits are conserved. |
| Dead-letter queue, worker shutdown (`queue/src/dlq.ts`, `worker/src/index.ts`) | failed jobs, processes | list, replay, purge, drain | Operators and workers act on the same jobs. No job is orphaned, no answered row asked again. |
| Identity synchronisation (`server/src/webhooks.ts`, `server/src/reconcile.ts`, `db/src/tenancy.ts`) | `Tenant`, `User`, `Membership`, `ApiKey`, `WebhookDelivery` rows | apply event, claim and release a delivery, reconcile | Resurrected members, events lost to the dedupe. Organizations and memberships converge; a key that names its minter grants no more than the minter may. |
| Authentication (`server/src/auth/*`, `db/src/auth.ts`, `shared/src/auth.ts`) | `ApiKey` rows | mint, verify, revoke, authorise | Keys that outlive what authorised them. |
| Billing and dunning (`server/src/subscriptions.ts`, `shared/src/billing.ts`) | `Subscription` row | apply event, resolve access | Grace extended or restarted by stale, repeated or concurrent events. Grace ends. |
| Rate limiting (`queue/src/ratelimit.ts`, `server/src/ratelimit.ts`) | one sorted set per subject | consume | Two budgets charged one after the other, clocks of several replicas. |
| Metering and rollups (`db/src/metering.ts`, `worker/src/rollup.ts`) | `UsageRecord`, `UsageDaily` | meter, sweep, report | Sweeps side by side, across midnight, failing half way. Reports never exceed the records and come to agree with them. |
| Run bodies, deletion, share links (`db/src/blob.ts`, `db/src/shares.ts`, `db/src/repository.ts`) | rows, objects, `RunShare` | store, read, delete, share, revoke, visit | Two stores without a transaction, links judged while they change. |
| Run history (`db/src/repository.ts`, `shared/src/v1.ts`) | rows, a client's cursor | list, tag, walk | Pages shift while they are walked. |
| CLI session (`cli/src/auth/*`) | keychain, credential file | log in, refresh, log out | A refresh that saves over a logout, two refreshes of one rotating token. |
| SDK client (`sdk/src/*`) | retry loop, stream buffer | request, stream, ask, list | Retries of what was already done, streams that end early. |
| Web run view, terminal view (`web/src/lib/run-stream.ts`, `cli/src/App.tsx`) | reduced run state | apply event, reconnect, open another run | Replayed events after a newer snapshot; answers to calls left behind. |
| One-process mode (`queue/src/queues.ts`, `server/src/index.ts`) | promises in flight | submit, execute, drain | A shutdown in the wrong order. |
| Published contract (`infra/api-compat.ts`) | the document generated, committed, merged | change, regenerate, judge, merge | A breaking change let through in pieces. |
| Pages, rendering, feedback, account, admin console, provider calls, configuration | see `PROJECT.json` | | Single reads and writes, wiring; not modelled. |

## Modules

| Module | Models | Checked by |
| --- | --- | --- |
| `RunLifecycle` | one run and every process that writes it; proofs in `RunLifecycleProofs` | `lifecycle_races`, `lifecycle_fanout_filter`, `progress` |
| `EventFeed` | what a bus promises: a log, a prefix of it for each reader | as a property of `progress` and `fleet` |
| `ProgressBus` | the Redis bus: log, stream, publishers, connections; proofs in `StreamProofs` | `progress`, `clients`, `bus_two_publishers` |
| `LocalBus` | the in-process bus; proofs in `FleetProofs` | `fleet` |
| `WebhookOutbox` | endpoints, delivery rows, their jobs, emitters, the sweeper; proofs in `DeliveriesProofs` | `outbox_faults`, `outbox_delivers` |
| `Receivers` | from the end of a run to a receiver that handles it; proofs in `ClientsProofs` | `clients`, `announcement_lost` |
| `IdempotencyKeys` | one key, its record and run, the requests that carry it, the SDK; proofs in `IdempotencyKeysProofs` | `progress`, `idempotency_two_winners` |
| `SpendGate` | the API's gate before a run; proofs in `SpendGateProofs` | `spend_gate` |
| `Plans` | the price list, the monthly limits, the ceiling stamped on a run; proofs in `SpendGateProofs` | `spend_gate` |
| `Billing` | subscriptions, Clerk's billing events, grace and access; extends `Plans`; proofs in `SpendGateProofs` | `spend_gate` |
| `CallGate` | the worker's gates before a model call; proofs in `CallGateProofs` | `fleet` |
| `RateLimit` | the sliding window; proofs in `CallGateProofs` | `fleet` |
| `Operations` | workers that drain, dead letters, operators; proofs in `FleetProofs` | `fleet` |
| `LocalQueue` | the process that is its own queue; proofs in `FleetProofs` | `fleet` |
| `Access` | roles, scopes, permissions, the decision | through `IdentitySync` |
| `IdentitySync` | the mirror of Clerk, the keys; extends `Access`; proofs in `DeliveriesProofs` | `outbox_delivers`, `offboarding` |
| `ApiCompat` | the gate on changes of the published API; proofs in `DeliveriesProofs` | `outbox_delivers` |
| `Metering` | usage records, sweeps, the daily report; proofs in `IdempotencyKeysProofs` | `progress` |
| `RunView` | the web page's reducer on a resuming stream | `progress` |
| `RunArchive` | bodies in rows and objects, deletion, share links; proofs in `ClientsProofs` | `clients` |
| `RunHistory` | filters, pages, tags; proofs in `ClientsProofs` | `clients` |
| `CliSession` | credentials of the command line; proofs in `ClientsProofs` | `clients` |
| `TerminalView` | the terminal's display and the calls it outlives; proofs in `StreamProofs` | `clients` |
| `SdkAsk` | `ask()` over an event stream; proofs in `StreamProofs` | `clients` |

The `MC*` modules host them for TLC. `MCProgress`, `MCFleet`, `MCClients`, `MCDeliveries` and `MCSpendGate` each put several
modules into one run: a variable `part`, chosen in the initial state and never changed, says which of them moves, the
others rest in their first state. The modules of a host share no state, so such a run checks each module exactly as a run of its
own would: the state space is the sum of theirs, never their product. What couples modules is stated in
each: `LocalBus` and `ProgressBus` implement the same `EventFeed`; `Billing` decides with `Plans`,
`IdentitySync` with `Access`; `SdkAsk` and `RunView` take from the server what `ProgressBus` lets a connection have.

### Granularity

An action is what one process does between two awaits: one statement to Postgres, one command to Redis,
or a call that leaves the process. What a process remembers across an await is in its own variable
(`exec`, `api`, `conn`, `emitter`, `req`, `job`, `report`, `nightly`, `sweep`, `asking`, ...), everything else is read from
the rows at each step as the code reads it. A worker, request or sweep may die between any two actions. What runs in one
tick of the event loop (waking the next in line of a semaphore and leaving it, judging a cached reading)
is one action.

### Correspondence

**RunLifecycle.** `run`, `cand`, `job` are the rows and BullMQ's view of each job (`made` counts attempts
that threw, `stalls` redeliveries after a dead worker); `exec[j].at` is the await a processor stands
at, named after what it does next. `StartRun` is `startRun`, `CancelRun` is `cancelRun` of the API with
its three writes and the publication, `Reap` is `reapOverdueRuns`, `ProcessCandidate` and
`ProcessSynthesis` are the two job handlers. `signal[j]` is the cancellation channel and abort signal of
an execution. `Ceilings` lets the spend guard or the run's ceilings refuse a call at any check.

**ProgressBus.** `log` is the `RunEvent` table, `stream` and `trimmed` the Redis stream, `pub[p]` a
publication in progress (append, then add), `conn[r]` a connection of the SSE route: compare with the latest
seq, take the stream's tail, page through the log, follow. A read of the stream takes everything that is
there (the code takes at most 256 entries and comes back).

**LocalBus.** `emitting[e]` is a publication in progress: the append, then the listeners of that moment in the same
tick. `tail[r]` is a connection: its listener is registered before the log is paged, what it was given
waits in `pending`, and what the log already delivered is dropped by position. An event whose append
failed has position 0 and passes the filter.

**WebhookOutbox.** A delivery is an event and an endpoint. `due` is the list the sweeper's query would
return (PENDING rows whose time has come, oldest first). `Claim`, `Post`, `RecordSuccess`, `ResetFailures`,
`RecordFailure`, `CountFailure`, `DisableEndpoint` are the awaits of `processWebhookJob` and of the two
record functions. Attempt numbers are those of the job. The queue recovers a job from a dead worker `MaxStalls` times and then fails it
itself, without the processor: `createWebhookWorker` keeps BullMQ's default of one. A delivery whose row is `PENDING` and whose job is in the
failed set is `Stranded`: the job id is the delivery's, so no sweep adds another until the failed job is evicted.

**Receivers.** `synthesis[r]` is the job that ends run `r` and then announces it, `EndsElsewhere` the reaper and the API, which end runs and announce nothing, `minted` the events (an event's id is its
place), `dispatch` the rows. `posts` are requests under way; one whose worker no longer waits for the answer may still be handled.
The receiver is the SDK's example: it verifies with each secret it holds and forgets nothing it has handled.

**IdempotencyKeys.** `record` is the `IdempotencyRecord`, `runRow` the row that carries the key and `author` the request whose body it was
made from: `createRunIdempotent` returns the row it finds, whoever made it, and so does the model (`from` of an answer is then the author, not the
asker). `req[q]` is a request being handled (it goes on when its client has left), `client[c]` the SDK's retry loop. `Keyed`
selects `POST /v1/runs`, whose handler is itself keyed, or one of the other routes. At least one provider
is configured.

**SpendGate.** `req[q].at` is the await `assertRunAllowed` stands at for a caller's request: the two
parallel queries of a reading (`read`, with `got` for what has answered), the two statements of
`engageKillSwitch` (`find`, `engage`), the quota's snapshot (`quota`), the insert of the run (`insert`);
`running` lasts until the run is over. `cache[r]` is the module variable `budgetCache` of a replica. Time
is in ages: a reading carries how long ago its request began, as the code dates it with the `now` it took before
awaiting, and one as old as `GLOBAL_BUDGET_REFRESH_MS` is as good as none. `spend` is whether today's
usage has reached the cap; midnight empties it, and a request begun before midnight goes on measuring from the
day before. The operator's entry of `req` is the command line's halt and release and the console's release
with its reset of one replica's cache. `late`, `changed`, `capped` and `peak` are history: no guard reads
them, and they carry what the properties say.

**Plans, Billing.** `Plans` is the data of `shared/src/plans.ts` in cents and the pure functions over it. In `Billing`, `clerkSub`
is Clerk's side: who pays a subscription and how it stands. A `report` is an event with the state of its handler: attributed
(`Attribute`), the owner of its ids read, the existing row read, the row written; two are handled side by side, a failed one
is sent again. Days are counted; a date Clerk leaves out is `NoDate`.

**CallGate.** A job is a candidate's or an evaluator's; `job[j].at` is where it stands between `checkStop` and
the end of `withBulkhead`. `halt[w]` is `haltCache` of a worker process, `breaker` the provider's hash in
Redis (its `hincrby` and its `hset` are two actions), `permits[w]` and `waiting[w]` are `Semaphore`. The bulkhead of a candidate is around all of the job,
with what it records and meters (`worker/src/candidate.ts`); that of an evaluator is around its call alone (`worker/src/synthesis.ts:193-203`), so it gives the permit
back (`Returns`) before it records, meters and saves. The settled
rows, events, deadline and cancellation of the run are `RunLifecycle`'s; here `Stop` stands for every check that
refuses for one of their reasons.

**RateLimit.** `hits[store][b]` are the members of a budget's sorted set, a date and a number for the nonce, one store with Redis and one per replica without. A
request takes its date (`Take`) before the script runs; it is charged to the credential's budget and then to the
address's. `admitted` is history.

**Operations.** `job` is BullMQ's state of a candidate job, `failedSet` the dead letters in order, `execution[w]` the
job a worker has and how far it is, `process[w]` whether it serves, drains or has gone. The write of the row (`Settles`) and the queue's own note of the completed job
(`Completes`) are two steps, and what fails in between leaves a dead letter whose row is settled; replayed, it meets `alreadySettled`. `listed[o]` is what an operator read before acting on it.

**LocalQueue.** `inFlight` and `awaited` are the promises of `LocalRunQueue` and those `close()` waits for; `server`
is where the process stands in its shutdown.

**IdentitySync, Access.** `clerk` is the truth; every change sends one event, `events[i].at` is where its handler stands, `claimed` its
`WebhookDelivery` row. `user` are the rows of people, which only events touch: the nightly job compares organizations and memberships. `nightly` is `reconcile.ts` with the lists it read. A key records its creator (`by`), which the database sets to
null when the user goes, and `minter` is history. `Access` is `shared/src/auth.ts`: who may do what is one table and `can`.

**ApiCompat.** A document is its operations with their parameters and parameter schemas, its events, whose payloads stand under a `oneOf`, and its schemas.
`Edited` is what a developer may do to the routes; the gate's classification of findings is the code's, and so is what it does not look at. There are two references, both
stated in values: `BreaksShape` is the part of a contract the gate's own tests name (something a caller uses is gone, is demanded, has another type, or a value a request may
carry is refused); `Breaks` is what `doc/api/versioning.md` promises, which adds parameters that take less, payloads that carry less, and values, error codes among
them, that a response does not have any more. The gate is exact for the first;
of the second it misses what `Overlooked` names.

**Metering.** `records` and `daily` are sums per tenant, model and day. `sweep[s]` is one call of `rollupUsage`: the grouped query, one write
per group, the query for orphans, one write per orphan. `Total` is a sum as the number of its units, since a record costs one.

**RunView.** `owed` are events whose rows are written and which wait to be published, `events` the log, `feed` the
subscription, `view` the state of `useRunStream`. A page is loaded at any moment of the run.

**RunArchive, RunHistory.** `write[w]` is a delivery about to store a body and then its row; `deletion` the
three steps of `deleteRun`; `visit[v]` a visitor between the look at the link and the answer. `walk` is a client that asks
page after page; `walk.constant` are the runs that matched all along. A run has the millisecond
of its creation (`createdAt`), and that alone orders it, as in `listRuns`: `NewestFirst` is the set of orders the database may choose from, anew for each query.

**CliSession, TerminalView, SdkAsk.** `proc[p]` is a process between reading a credential and saving one; `mishaps` are an
interruption, two rewrites of the file at once and a keychain that refuses to replace what it holds; `bare` are the logins that were given no refresh token. In `TerminalView`, `calls` are requests whose answers
will still arrive, `leftover` the received frames of an aborted stream, and `state.error` is the call whose error is on display. In `SdkAsk`, `body` is the byte stream of a
response: frames are cut anywhere.

## Runs

Every run names its bounds in its `.cfg`. Symmetry is used only in runs without liveness properties. In each row the parts are
those of the host.

| Run | Instance | Shows |
| --- | --- | --- |
| `lifecycle_races` | two candidates, two attempts, one stall, one fault of any kind | `COMPLETE` is backed by answers; the synthesis' snapshot stays current; late deliveries make no call, cancellations reach calls and rewrite no outcome; answers are paid once |
| `progress` | *run*: one candidate, one fault, both ceilings | `LifecycleConcludes`: every run ends for good; without a fault a cancellation closes the whole panel, and every end is told to the stream |
| | *bus*: one publisher, two readers, three events, one drop | `ImplementsFeed`: the bus is an `EventFeed`; `StreamEnds`: streams close, however often they reconnect |
| | *key*: two clients with two attempts, one with another body, two mishaps, one expiry, both kinds of route | `KeyHolds`: one key, one panel; once per day of the key; nobody gets the response to another body, except, on `POST /v1/runs`, the run of the key once its record has lapsed. `ClaimsEnd`: a dead claim ends with its day, when the sweep takes it |
| | *rollup*: two tenants, two sweepers, three days, two records, one failed sweep | `RollupHolds`: reports never exceed the records, and the two days a sweep looks at come to agree with them |
| | *view*: one candidate with two attempts, a lost connection, an event that never reaches the log | `ViewCatchesUp`: the page ends up showing how the run ended |
| `outbox_faults` | two deliveries to one endpoint, one fault of five kinds, a replay, enable and delete | delivered means accepted; the failure count counts deliveries, each once but for one more per fault: a replay charges nothing again |
| `outbox_delivers` | *out*: one delivery, two attempts, one recovery from a dead worker, two faults of five kinds | `OutboxDelivers`: every row reaches an outcome, unless its endpoint leaves or its job ends in the failed set |
| | *in*: an organisation, a founder and another person, a key, two changes in Clerk, one fault | `KeysFollowTheirMinter`: a key that names its minter lets do no more than the minter may. `MirrorConverges`: the mirror of organizations and memberships ends up as Clerk has it |
| | *contract*: three schemas, one operation, two properties, one parameter, one event, three changes of ten kinds, each regenerated, merged or not | `GateIsExact`: the gate stops exactly what changes a shape (but for an array's elements, and for schemas nothing refers to), and of what else breaks a caller lets through only what it does not look at |
| `spend_gate` | *gate*: two callers, two replicas, a window of two ticks, one run in flight allowed | a stop and a reached cap shut every replica within a window; a release opens every one; the ceiling on runs is overshot only by requests judged together |
| | *billing*: two workspaces, a person, one subscription, three days, a grace of two, two events, one failed handler | `DunningEnds`: a workspace past due, whose last failure is a window old, starts no run |
| | *ask*: every plan, and usages around each limit | `StampFitsMonth`: the ceiling of a run fits what the month has left, and is never zero |
| `fleet` | *call*: two candidates of a run and another run's evaluator, two workers, one permit, a window of one tick | a stop is seen by every check begun a window later; a run's ceiling is overshot only by calls under way together; no permit, kept by a candidate until its job is over and by an evaluator until its call is, is lost or handed out twice |
| | *limit*: two replicas a tick apart, two credentials behind one address, a window of three ticks, either transport | `LimitsHold`: what a budget lets through within a window (less clock skew and lag) is its limit at most; Retry-After is long enough |
| | *queue*: two jobs, two workers, two operators, two attempts, one failed job kept, three replays | `ReplaysAreSafe`: no job is orphaned; a job that failed after its row was written, replayed, does not ask its model again |
| | *local bus*: one emitter, one watcher, three events, pages of two, two mishaps, two hang-ups | `LocalImplementsFeed`: the in-process bus is an `EventFeed`, across failed appends and restarts too |
| | *local queue*: two runs of two candidates, one endpoint, two ends of the process | `DrainFinishesRuns`: a process that says it has drained left no run it accepted unfinished |
| `clients` | *bus*: two publishers, a stream that keeps one entry, a fault and a drop | `NothingTwice`: nothing twice, nothing out of order |
| | *sdk*: one run, one retry, a ping or delta, a stream cut anywhere, an abort anywhere | `AskSettlesItsRun`: `ask()` resolves with the finished run or throws, and an abandoned run is canceled, but for the failures it does not report |
| | *session*: two processes, two servers, two logins or refreshes, rotating or not, with or without refresh token and keychain | `SessionSurvives`: what is stored can still be refreshed |
| | *screen*: two runs, one reconnection, two calls | `ShownIsOneRun`: the display shows of a run only what that run came to; it is called done or failed only as it ended, or with the error of a call |
| | *history*: three runs on three instants or fewer, one tag, pages of one | `PagerSeesAll`: a walk returns no run twice, and every run that matched all along unless one it resumes from went; all this unless a page ended on a run of an instant with others |
| | *archive*: one candidate and the synthesis, one late delivery, one link, one visitor, one tick | `ArchiveHolds`: a run that is kept is readable; a link is judged as it is during the visit |
| | *receiver*: two endpoints, one run, one crash, two posts at once | `HandledOnce`: a receiver that deduplicates acts once |

Five runs are expected to be violated. Each checks one sentence of the repository that the code does not keep:

| Run | Sentence | Counterexample |
| --- | --- | --- |
| `lifecycle_fanout_filter` | "The update is status-filtered" (`worker/src/candidate.ts:125`) | a candidate past its checks writes `FANNING_OUT` over `CANCELED` |
| `bus_two_publishers` | "sees each event exactly once, in order, with no gap" (`queue/src/bus.ts:37`) | two publishers append in one order and add in the other; the reader drops the earlier event |
| `idempotency_two_winners` | "so exactly one of them wins" (`server/src/v1/idempotency.ts:43`) | a request that lost the insert and found no record goes on, beside the one that inserts next |
| `offboarding` | "which revokes every key they minted at the same moment" (`db/src/tenancy.ts:326`) | a deleted user's key loses its creator, and a key without one acts as an owner |
| `announcement_lost` | "A run reached `COMPLETE`", "A run reached `FAILED`" (`shared/src/webhook.ts:34-37`, `doc/api/webhooks.md:11-12`) | the worker dies between the run's end and the announcement; the redelivered job finds it over and returns |

They are the `findings` of `PROJECT.json`, which also gives, for every property of a passing run, a plausible
bug in the code that the property catches.

### Why the bounds are enough

Two candidates are needed for races between candidates and one for everything between a candidate, the
synthesis, the API and the reaper; two attempts give a first, a retried and a final attempt; a fault can fall
on any step, those of a redelivery included. Two readers and pages of two make a backfill of more than one page
join a stream; three events put the cursor, the tail and the trimmed prefix in every order. One
delivery exhausts the races of its own job, row and replays, and two faults are a dead worker twice, which fails its job, or a fault of any kind in the attempt that follows another; two deliveries are needed for counting and for the sweeper's
order. Two clients with two attempts put a claimant, a reader between insert and read, and a retry in
play at once. In `spend_gate` two ticks of a window let a change fall between the start and the end of one
reading and still leave it fresh, which one tick does not; two callers at two replicas give two judgements at once
and a replica whose cache is older than the other's. In the calls of `fleet` one tick suffices, since a reading there is one
query; two candidates and one permit put one in line behind the other; a threshold of one
opens the breaker at every failure, which is where a success of another call meets it.

One expiry is enough for the key: what was claimed, what was answered and what was left behind before it meets what comes after it.

Of the other parts: two changes in Clerk are a removal and the late event it overtakes, and one fault loses either or stops the
nightly job anywhere. Two billing events are a failure and a payment, or two failures, in either order and side by side; three days are more
than the grace. A limit of one makes every second request of a window the interesting one, and the window outlasts skew and
lag together. Two jobs, of which one failed one is kept, make the queue drop a dead letter that an operator has listed. Three runs and
pages of one make a walk of three pages whose cursor may go; three instants let the runs be apart, two of them be of one, or all. A walk is followed until it got
as many runs as there may be: one that circles goes on circling. Two processes of the command line and two tokens are a
refresh beside a login, a logout or another refresh. Two runs and two calls are a call left behind for another run. Three edits are what a break in two
merges needs: make it optional or add it, merge, then break. The proofs remove the bounds where they reach.

### Fairness

Weak fairness of each process' next step, in `progress` and `outbox_delivers` (and `announcement_lost`, where a worker goes on unless it
dies): a worker that holds a job goes on with it, the queue delivers
what waits, timers fire, a request that was begun is finished, a sweep that has begun goes on and another follows, a page's
stream reconnects, Clerk's deliveries are handled and the nightly job runs. It is justified because every one of these
is the runtime's own scheduling (or BullMQ's, Svix', the browser's, or a `setInterval`), and each stays enabled until it is taken.
Nothing obliges callers, operators or faults. In the hosts every condition carries the part it belongs to, so it binds only where
that part moves. In `WebhookOutbox`, the eviction of a completed job
from the queue is not fair: it takes `QUEUE_KEEP_COMPLETED` younger jobs that complete, or a thousand that fail. In `IdempotencyKeys` the
day of a key passes only while none of its requests is being handled: requests last seconds. Clerk's own redelivery is not fair either:
`MirrorConverges` holds because of the nightly job. The gates, the limiter and `Billing` have no
liveness properties: what they promise is stated with ages, so it is a safety property.

## Proofs

TLC checks the small instances; the theorems hold for every value of the constants.

**RunLifecycleProofs** (any number of candidates, attempts, stalls and faults). The invariant is built in
layers, each proved relative to the ones before:

1. `TypeInv`: types, how job states and executions agree (`QueueInv`), and that nothing is queued
   before the API queues it. Gives `Typing` and, with the filter of `cancelRun`, `CancelIsArbitrated`.
2. `FlowInv` and `AnswerInv`: the synthesis runs only when every candidate job has finished, so nobody writes
   answers beside it. This is what makes the snapshot it took before its first await current; it gives
   `SnapshotHolds` and `CompleteIsBacked`.
3. `CancelInv`: whoever passed its stop check after the cancellation is heading to a second check, and
   whoever watches the channel was subscribed before the publication. Gives `CancelIsHeard` and
   `LateDeliveryIsStopped`.
4. `PaidInv`: an execution past its load works on a candidate that had no answer. Gives `AnswerIsPaidOnce`.
5. `CountInv`: each execution increments the durable count at most once. Gives `AttemptsAreDeliveries`.

**StreamProofs**. `BusInv` (types, frames carry the seq of their log row, cursors are ordered before
what is pending) gives `BusTyping` and `NeverTwice` for any number of publishers and faults. Under `Alone`
(one publisher, no faults, a stream at least as long as the log) `FeedInv` adds that the stream is a prefix of the
log and that what a connection has pending continues where its reader stands; it gives `BusImplementsFeed`:
initial states map to initial states of `EventFeed`, and every step to a step of it or a stutter. `Alone` is
needed: `bus_two_publishers` shows the gap two publishers make.

The same module proves `TerminalView` (any runs, calls, reconnections). `ScreenInv` says that whatever row a call has read, and whatever the display
shows, is backed by what the run it names came to; that a run is known to nobody before the one request that creates it was served; and
that a stream, aborted or not, has received no more than its run published. A late answer to an aborted call is thus an answer about its own run,
and the reducer's comparison of names is what keeps it from the display of another; and what the phase says was true of the run's row when it was set, unless a
call that failed set it. `OneRunShown` follows.

And it proves `SdkAsk` (any retries, pings and deltas, chunks of any size). `SdkInv` is the types with

- `Accounted`: what the server sent is what was yielded followed by what decodes from the buffer and the wire, until the connection breaks;
  what was yielded by then is a prefix of what was sent;
- `SettledInv`: an event that ends a run is nowhere, owed, logged, on the wire or in the buffer, before its row is over; a stream that ended, ended with
  its run or was cut; a call that is about to fetch or return the run knows one or the other.

The promise alone says nothing of the bytes between server and caller, which is where a chunk may cut. `decodeSseFrames` is stated by rank (the k-th
event is at the place with k events up to it), so that `DecodeConcat`, which says that decoding distributes over concatenation, is proved by
counting; `DecodeCuts` makes of it that a buffer cut after its last complete frame loses nothing. `AskSettles` follows.

**SpendGateProofs** (any number of callers and replicas, any window and ceiling). The argument is about ages.
`GateInv` is `TypeOK` with

- `CacheDated`: a cached reading that disagrees with the switch, or with the spend, is at least as old as
  the last change of it;
- `RequestDated`: so is a reading in progress, as far as its two queries have answered;
- `RequestLate`: a request that came a window after a stop (or after the cap was reached) is still reading, and
  what it has read says so, or it is on its way to engage the switch.

A fresh reading is younger than a window, so it cannot disagree with a change that is a window old. The properties
alone are not inductive: nothing in them says what a reading in flight will put in the cache. It gives
`GateTyping`, `StopIsSeen`, `CapIsSeen` and `ReleaseIsSeen`. `CountInv` adds that no more requests are between judgement and row than
`peak`; it gives `OvershootHolds`, from the judgement having room for one run.

`GateAssumption` (finitely many callers, an operator who is none of them, a positive window and ceiling) is all the
theorems about the gate assume, and TLC evaluates it in `spend_gate`.

The same module proves `Billing` (any workspaces, subscriptions, events, faults and days). `PayInv` is the types and where a handler stands;
`WindowInv` traces every window of grace, in a row or about to be written, to a failure its workspace was told of: the window ends no later
than a window after the day of it. That is inductive although handlers read and write side by side, since a handler that read a stale
row holds a window that came from some failure all the same, and a failure handled again only counts from a later day. It gives
`DunningHolds`.

It also proves that the ceiling stamped on a run fits the month, for every plan, every usage and every ceiling asked for (`StampAlwaysFits`), from the
price list alone: its limits are positive or absent (`Ceilings`), so a month that is under each of them leaves at least one of it.
`StampHolds` is the instance `spend_gate` runs through.

**DeliveriesProofs** (any endpoints, events, attempts, stalls, threshold, faults and replays). `OutboxInv` is `TypeOK` with

- `EmitInv`: an emitter creates each row once;
- `JobInv`: the processor executes exactly the job that the queue has active, and no job is kept past its last attempt or stall;
- `AnswerInv`: what a row or an execution says of the receiver's answer, the receiver gave;
- `AttemptInv`: every attempt the queue counted was posted, or cut short by a fault;
- `ChargeInv`: what was charged to an endpoint, and what may still be charged, is no more than its deliveries given up and the faults.

The last is the argument for `OneChargePerDelivery`. The count alone is not inductive, since it says nothing of a delivery that is
given up and not yet counted, or counted and about to be delivered once more. A delivery stops being chargeable when it is charged, and only a
fault, whose job is redelivered or forgotten, makes it chargeable again: a replay takes it out of those given up. `Typed` needs that the
sweeper's list stays free of repetitions when rows settle; `DueWithoutKeeps` proves it by counting.

The same module proves `IdentitySync` (any organizations, people, keys, changes and faults). `MirrorsInv` says field by field what the mirror, an event,
a key and the nightly run may hold: a membership has its user's row, the creator a key names is whoever minted it, or nobody, and a handler stands at a
statement of its kind of event. `KeysObeyTheirMinter` follows, because a key's power is computed from its creator's membership at
the time it is used, and scopes only narrow it (`ScopesOnlyAdd`).

And it proves `ApiCompat` (any operations, statuses, parameters, events, properties, enums and edits). `GateInv` says what edits leave alone: requests carry
`CreateRun` and responses the others, one property alone refers to a schema, no property gains an enum, and a verdict speaks of the documents
it was given. The rest is about two documents and no step: `GateFindsAll` takes each clause of `BreaksShape` to the finding that stops it, and
`GateFindsOnly` takes each finding to a value (`SampleObject`) that the old contract allowed and the new one does not. `GateExact` joins them: what passes and breaks anybody, in the
sense of `Breaks`, does so in one of the four ways of `Overlooked`, and changes no shape but that of an array's elements.
That no property gains an enum is a limit on the edits (see below) and the only one the proof needs; with it gone the theorem is false.

**IdempotencyKeysProofs** (any clients, attempts, mishaps, days). A request works by a grant: the record it inserted, the
expired record it took over, or nothing, when it found the record gone. `GrantInv` counts, on a route without an index of its own: work done, grants held
and a record that can be claimed are paid for by the first claim, a day that passed or a request without a record. `RunInv` says that on `POST /v1/runs` the row of the run is
there as soon as the work is done. `HolderInv` says that while no request went on without a record, the one that works
holds it and its body is the record's. `AuthorInv` says that on `POST /v1/runs` the record keeps the body the run was made from until it lapses: until its
day passes, or the request that made the run is itself answered with an error. Together they give `OneAnswerPerKey`. What it leaves open is what
the code leaves open: once the record lapsed, the run answers any body (see below).

The same module proves the safety half of `RollupHolds` (any tenants, models, sweepers, days and failed sweeps). `RollupInv` says line by line that a
stored sum, and a sum some sweep is about to write, is at most what the records of that day come to. It is inductive however sweeps
interleave, since a sweep writes what it read and records are only added; that would fail if a sweep added to a row.
`TotalsGrow` carries it from lines to totals, and with the arithmetic of `resolveWindow` it gives `ReportsNeverOverstate`.

**CallGateProofs** holds two. In `CallGate` (any jobs, runs, workers, window, ceiling, permits and threshold), `StopInv` is the argument about ages again, for one
query instead of two. The other two are inductive with the types, and the proof is about counting: whoever passes the budget
check joins the calls under way before anyone can be charged, so the sum of what is spent and what is under way grows only
below the ceiling; a permit is held from the wait to the end of a candidate's job, or to the return of an evaluator's call, and whoever a release wakes was at the head of the line and takes the permit just given back.
`RateInv` (`RateLimit`) counts as well, at every age: of what a budget let through since `t` no more than its hits dated since
`t - MaxLag`, for every `t` of the window less skew and lag. A charge adds one to both sides or to the second, and a trim
takes away only what is too old to count for any such `t`, whatever order the scripts run in. With the hits never above the
limit this gives `WindowHolds`; for Retry-After, the oldest hit is gone by the time the wait ends.

**FleetProofs** holds three. `QueueInv` (`LocalQueue`): once the handlers are gone nothing new takes off, so
what `close()` found in flight is all that can be; gives `DrainFinishes`. `LocalFeedInv` (`LocalBus`, one emitter): a connection's page,
its queue and its cursor continue what its reader was handed, and once the backfill has met the end of the log every later event is in the
queue; gives `LocalBusImplementsFeed`. The hypothesis, one emitter, is what the code has: one handler publishes at a time for a run unless two
of its candidates do, and two may interleave as `bus_two_publishers` shows. `OpsInv` (`Operations`): a job that is active is in the hands of
exactly one process, and the failed set holds the failed jobs, each once; a job that is at its call
has a row that is still pending, although jobs fail, and are replayed, after their row was written; gives `ReplaysSafe`.

**ClientsProofs** holds four. `ArchiveInv` (`RunArchive`): while a run is kept no object is deleted, so whatever key a row, a writer or a reader
holds is there; a settled synthesis has a text, and a link that is live is of a kept run with an answer; what was dead when a visit
began stays dead. `ReceiverInv` (`Receivers`): a run's event is minted when its job is done, so it has one id, and what a receiver
acted on it remembers under that id. `SessionHolds` (`CliSession`) says that until a mishap: a token belongs to one server; one process writes the file at a
time, from what is in it; a stored token is good, or the process that traded it in is about to replace it; a token still to be stored is good, and
where tokens rotate no other process holds it. That last part is what `SessionSurvives` lacks: without it two processes might
save the same token, and the one trade it in before the other has stored it. `PagerInv` (`RunHistory`): while a walk goes on nothing it got is older than its
cursor, what matched all along still matches, and of that everything not older than the cursor it got, unless it resumed from a run
that had moved. All of it is said of walks whose pages ended on runs that share their instant with none: of such a run, and of it only, every order the database may
choose has the same runs behind it. Without that condition TLC finds both halves of `PagerSeesAll` violated by two runs of one millisecond.

Each component's proofs assume the named `ASSUME` of its module and no more, and TLC evaluates each of these in the run that checks the module. Two assumptions are
in a theorem instead: one publisher for each refinement.

Only model-checked: liveness (fairness and ENABLED are outside the prover: `LifecycleConcludes`, `StreamEnds`, `ClaimsEnd`, `OutboxDelivers`, `MirrorConverges`,
`ViewCatchesUp`, and the half of `RollupHolds` that says that reports come to agree with the records). The type
invariants of all modules proved about are proved; each of the others holds in the host of its module under that run's bounds.

## What the models show beyond the runs

The models follow the code into states no property above excludes, because the code does not exclude them either. The
traces below were found while the properties were being stated; each is why a stronger property is not
among them.

Run lifecycle:

- The reaper reads overdue runs and then fails them one by one without a filter on their status
  (`worker/src/reaper.ts:36-43`): a run that completes in between ends `FAILED` with its synthesis saved.
- A candidate whose answer was saved and whose event could not be published is settled again as an error if its attempt was the
  last (`worker/src/candidate.ts:222`, `db/src/repository.ts:326`).
- A candidate that meets a database error in its final attempt stays `RUNNING` (`worker/src/candidate.ts:257-262`).
- A crash between `completeRun` and the publication of the end (`worker/src/synthesis.ts:97`) leaves the stream open, although
  `doc/api/streaming.md:9-10` promises an end. A stream opened on such a run hangs too (`server/src/app.ts:449`,
  `doc/api/streaming.md:85`): the closing event is made up only when the log holds nothing newer than the client has.
- Runs failed by the reaper (`worker/src/reaper.ts:43`), or by the API that could not queue their panel (`server/src/runs.ts:109`), are not announced to
  webhooks (`doc/api/webhooks.md:12`, "A run reached `FAILED`"): only the synthesis job announces. No crash is needed for it.

Webhooks:

- A delivery that was accepted, whose worker died before recording it, is posted again; receivers must deduplicate. So is one whose worker settled the row and died
  before its job completed: `claimWebhookDispatch`, "Null when it has been deleted or settled" (`db/src/webhooks.ts:277`), does not look at the status.
- A worker that dies twice over one job, or a statement that fails in the last attempt, leaves the job in the failed set, the row `PENDING` and the job id taken, so that
  no sweep adds another until a thousand younger jobs have failed. `queue/src/webhooks.ts:36-38` says that deliveries "do not accumulate in the failed set, because
  they do not fail"; `OutboxDelivers` excepts such a row (`Stranded`).
- A replay of a delivery whose completed job is still retained adds no job, as its id is taken (`queue/src/webhooks.ts:62`), and neither does a sweep, although
  `server/src/v1/webhooks.ts:313` and `328-330` say that it is queued, if not at once then "within a couple of seconds". It waits until the id is free.
- Putting an endpoint that is in rotation into rotation clears the count of its failures (`db/src/webhooks.ts:194-197`).
- The sweeper takes the oldest batch (`worker/src/webhooks.ts:194-197`, `280`): rows it cannot enqueue are ahead of the others every time.

Idempotency:

- A refusal with status 429 is a response like any other, and is replayed for a day (`server/src/v1/idempotency.ts:131`, `doc/api/errors.md:53`).
- A run whose enqueueing failed is answered 200 to the retry, which carries on with a run that has failed (`server/src/v1/runs.ts:125`).
- The SDK throws on the 409 that a retry gets while its first attempt is being handled (`sdk/src/http.ts:77`).
- For a response that was too large to keep, `shared/src/idempotency.ts` says both that the retry is "re-executed" (38-39, 49) and that it is refused
  (72-79). The code refuses it, and `KeyHolds` counts on that.
- A run whose jobs could not be queued is answered with a 500, which releases the record and leaves the run. The next request under the key is answered with that run and
  a 200 whatever its body (`db/src/repository.ts:273-282`), where `doc/api/errors.md:77` has a "`409 conflict`" and `shared/src/idempotency.ts:15-18` warns of "quietly
  returning the first response". So is one that comes after the record's day, or after the sweep. `KeyHolds` excepts both.
- A request that goes on without a record completes whichever record the key has by then, another body's included
  (`db/src/idempotency.ts:136-152`).

Gates:

- Two replicas that find the switch released both engage it; the second overwrites when and why (`db/src/billing.ts:179-198`).
- The ceiling on runs in flight is overshot by requests judged together (`server/src/quota.ts:286`, `doc/api/limits.md:52`). So is the ceiling of a
  run, by its calls in flight, though `db/src/repository.ts:1006-1014` says that it holds.
- A release while the day's spend is at the cap engages the switch again with the next request (`doc/runbooks/cost.md:69`).
- The console's reset of its replica's cache can be overwritten by a reading that was in flight (`server/src/admin/routes.ts:251`). By then the
  reading is at least as old as the release, so a window later it is gone: `ReleaseReachesApi` holds all the same.
- `checkStop` and the breaker are consulted before the wait for the bulkhead (`worker/src/candidate.ts:98-130`), so a call may begin long after
  a stop. `StopReachesWorkers` speaks of checks, not of calls.
- Between `hincrby` and `hset` (`worker/src/resilience.ts:129-141`) a success may reset the breaker, which then opens after a success; a
  success that was in flight when it opened closes it; after the cooldown every waiting call goes ahead at once.
- A candidate whose worker dies between saving the answer and metering it is never metered (`worker/src/candidate.ts:208-216`).
- An error of ours after an evaluator's successful call is counted against the provider (`worker/src/synthesis.ts:220-237`).

Identity and keys:

- A key whose creator is deleted acts as an owner from then on (`offboarding`); an API process that dies between the deletion of a membership and
  the revocation of its keys (`db/src/tenancy.ts:383-397`) leaves the keys unrevoked. The event is claimed by then, and the nightly job looks for memberships to remove, of which
  there is none: nothing repairs it, although `doc/runbooks/clerk-setup.md:165-168` says that the job does. It matters once the person is a member again.
- A `user.deleted` that is lost is lost for good, and a membership event that arrives after it creates the person's row again: the nightly job, said to repair "differences
  in both directions" (`doc/adr/0005-clerk-identity-and-org-as-tenant.md:90-92`), compares organizations and memberships, never people. `MirrorConverges` does not speak of them.
- `verifyApiKey` and `resolveShare` do not look at the tenant's `deletedAt` (`db/src/auth.ts:148-205`, `db/src/shares.ts`).
- The reconciliation pages by offset (`server/src/reconcile.ts:69-103`): an organization that moves to an earlier page while it walks is
  missed, and a live tenant soft-deleted until the next night.

Billing and metering:

- `findTenantIdForBillingCustomer` "can never be ambiguous" (`db/src/billing.ts:131-132`), but its two ids may belong to two workspaces, and an event whose write
  meets their unique index fails each time Svix repeats it.
- Two events handled at once read the same row and the later write wins, although `server/src/subscriptions.ts:30-31` says that
  they "cannot lose each other's work".
- A failure without a date counts from when it is handled (`server/src/subscriptions.ts:195-201`), so a late one lengthens the grace.
- Two rollups side by side may leave an older sum until the next sweep (`db/src/metering.ts:148-168`). A record on the boundary of two months is
  in both (`db/src/repository.ts`, `usageTotals`, `lte: to`).

Rate limits, shares, history:

- A request the address's budget refuses has used one of its credential's slots (`server/src/ratelimit.ts:106-140`). A window is shortened by the difference of
  the replicas' clocks, and by how long a script was under way.
- A body is stored before its row is written (`db/src/repository.ts:71-96`): a deletion in between leaves an object nothing refers to, and so does the
  partial answer of a candidate that is retried.
- A walk whose cursor was deleted ends with an empty page, and one whose cursor no longer matches skips another run (`db/src/repository.ts:744`,
  against `shared/src/v1.ts:143-147`); `PagerSeesAll` speaks of walks that meet neither. 
- Runs are ordered by a timestamp in milliseconds alone (`db/src/repository.ts:742`). Where the end of a page parts two runs of one millisecond, the next page may be
  ordered the other way: one is read twice and the other never, and a walk may go round in circles. `doc/api/limits.md:118-120` says that of offsets. `PagerSeesAll` excepts such walks.

Views:

- `run.snapshot` is said to be sent first on every subscription (`web/src/lib/run-stream.ts:109`), and is not. A `candidate.settled` that never
  reached the log leaves a stale candidate on the page after the end; the end itself unlogged leaves the page waiting until the connection drops.
- `ask()` returns a run that is not over when the feed fails on the server (`sdk/src/client.ts:331-336`), waits for ever for an end that was never logged,
  leaves the run running when it is aborted while creating it, and does not say so when its cancellation fails.
- The list of shares hands out a cursor its route does not take (`server/src/v1/shares.ts`).

Command line:

- A login that is given no refresh token is stored and, once its access token has expired, neither refreshed nor removed (`cli/src/auth/session.ts:120`).
- A keychain that refuses to replace a credential keeps the old one, which shadows the login just made (`cli/src/auth/store.ts`). A refresh under
  way saves its tokens after a logout. Two processes that rewrite the file lose each other's profiles; a file cut short is read as empty.
- A call that fails after the user moved on puts its error over the run on show, which is `failed` on display until it ends (`cli/src/state.ts:97-98`, `cli/src/App.tsx:288`),
  although the comment on `stage` has "what the engine is doing right now" (`cli/src/state.ts:8`).
  `ShownIsOneRun` excepts a phase that a failed call has set.
- The single read after the last reconnection, and a late answer to an earlier `openRun`, switch the display back (`cli/src/App.tsx:127-135`, `189-212`); a stream is not aborted
  when a finished run is opened; streamed text has gaps after a reconnection.

Operations:

- `queue/src/dlq.ts` says that a replayed job's parent "is still waiting for it"; the flow lets the parent go on when a child fails. Replaying all rejects as a whole if one
  job has moved on.
- The API exits without waiting for its requests in flight. In one-process mode it disconnects the database while announcements may still be under way,
  and nothing closes the webhook queue (`server/src/index.ts:117-125`).
- `worker/src/webhooks.ts:271-273` calls the enqueueing of a queued delivery a no-op; without Redis each sweep starts another request for a row in
  flight, and a row that was `DELIVERED` can become `FAILED`.

Announcements:

- Nothing emits `quota.exceeded` (`shared/src/webhook.ts:39`). Event ids are random, so the unique index does not deduplicate an event
  that is announced again (`db/src/webhooks.ts:29-32`). A delivery signed with the old secret and refused with 400 is given up.

Contract:

- The gate does not look at the schemas of parameters, under a `oneOf` (the payload of a webhook event), into an array's elements (the enum of `CreateRunRequest.providers`),
  at a `$ref` that is replaced, nor at an enum introduced where there was none, and takes a narrower enum in a response for one that breaks nobody
  (`infra/api-compat.ts:315-420`), though `doc/api/versioning.md:33-40` lists some of these. A request property that is removed, which is
  allowed, may come back two merges later with another type.

Seen while reading, in components without a model: the tags editor rolls back to a tag that was never stored (`web/src/components/run/tags.tsx:41-44`); the
endpoint list restores another endpoint that was removed meanwhile when a removal fails; the key list, reloaded late, hides
a key just minted; the share page is cached for a minute although a revocation is "effective on the next request";
the console's release overwrites the overview from an older one.

## Not modelled

- The expiry of a whole stream under a reader, rows written by older builds, and the in-process breaker store.
- Two executions of one job by workers that both live: BullMQ's lock is taken at its word, as is `retry()`, which `queue/src/dlq.ts` says resets the attempts.
- The full-text match of the history, the cache of the share page, hashing, signatures' bytes, prices, prompts, provider calls, environment parsing.
- Web pages, the console, feedback and members: single-row reads and writes and rendering, see `PROJECT.json`.

## Plan

All modules of the plan are written and checked, and every safety property a run checks is proved. What could be added, in this order:

1. `EventFeed` as what `RunView` and `SdkAsk` follow, in place of the feed each has of its own.
2. What a feed with gaps still promises, for two publishers of one run.
