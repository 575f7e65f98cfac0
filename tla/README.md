# Pulse Notify: specifications, model checking and proofs

Pulse Notify accepts notifications over HTTP, stores each as a row in
PostgreSQL, publishes an event for it to a Kafka topic, and delivers it from a
separate worker process that records the outcome in the row. This directory
holds TLA+ models of that system, the TLC runs that check them and proofs about
them. Paths below are relative to `src/`.

## 1. Inventory

### Components

| Part | Code | State it keeps | Operations |
|---|---|---|---|
| Worker pool | `internal/worker/pool.go`, `notifier.go` | a dispatcher goroutine, an unbuffered channel, `WORKER_CONCURRENCY` worker goroutines, the event each has in hand, the retry counter | `Run` (fetch, hand over, drain), `handle`, `deliverWithRetry`, `commit` |
| Worker process | `cmd/worker/main.go` | a context that SIGINT and SIGTERM cancel | start, `Run`, close the consumer |
| Topic | `internal/events` | the records of each partition, the group's committed offsets, the partition owners (in the broker) | `Publish` keyed by user, `Fetch`, `Commit` |
| Notification rows | `internal/repository/notification.go`, migration 002 | status, attempts, `sent_at`, `created_at` | `Create`, `MarkSent`, `MarkFailed`, `ListByUser`, `FindByID`, `ListAll` |
| Notification service | `internal/service/notification.go`, `internal/handler/notification.go` | lists cached in Redis for 15 s, per user and limit | `Enqueue`, `ListForUser`, `Get`, `ListAll` |
| Accounts, refresh tokens | `internal/service/auth.go`, `internal/handler/auth.go`, `internal/repository/user.go`, migration 001 | users (unique email), one Redis key per refresh token, a cached profile | `Signup`, `Login`, `Refresh`, `Logout`, `GetProfile` |
| Rate limiter | `internal/middleware/ratelimit.go`, `IncrWithWindow` in `internal/cache/redis.go` | one Redis counter with an expiry per client IP | count and reject, fail open |
| Access tokens, RBAC | `internal/auth/jwt.go`, `internal/middleware/jwt.go`, `rbac.go` | the role in the row, in each token and in the cached profile | issue, check one request, `GetProfile` |
| API process | `internal/server/server.go`, `cmd/api/main.go`, `internal/router/router.go` | listener, handlers in flight, open clients | start, serve, shut down within 10 s, close, exit |
| Migrations | `internal/database` | the tables | `Connect`, `Migrate` by every process that starts |
| Configuration, health, logging | `internal/config`, `internal/handler/health.go`, `internal/logger` | none | start-up, pings |

### How they interact

`Enqueue` writes the row, then the event, then deletes cached lists: three
services without a transaction around them. The event carries the row's id and
is keyed by user, so one partition holds all events of a user. A worker process
is a member of a consumer group; its dispatcher fetches events and hands each
to whichever worker goroutine is free. That goroutine sends, retries with
backoff, updates the row, and commits the event's offset. A commit of offset
*k* says of every earlier event of the partition that it is done too. The event reaches
the broker through a writer goroutine that the handler waits for but does not
control. Workers
never touch the list cache. Every API instance shares PostgreSQL and Redis, so
each step of a handler interleaves with those of all others.

### What is hard

* several goroutines commit offsets of one partition in any order, while a
  commit covers all that lies below it;
* a stop signal reaches dispatcher, workers, backoffs, sends and commits at
  different moments, and each has its own way of dealing with it;
* crash, rebalance and lost commits redeliver events whose row is already
  terminal, and the UPDATEs have no condition on the status;
* most errors after the first write are logged and ignored: a failed UPDATE is
  followed by the commit, a failed DEL leaves a stale list or a usable token;
* the list cache is filled from a read that may be outdated when stored;
* `Refresh` reads and deletes a token in two calls;
* the rate limiter's window moves with every request;
* the event outlives its handler in the Kafka writer: a request that is told of
  an error, or dies, may have its notification delivered all the same;
* all processes migrate one database when they start, and PostgreSQL's
  `IF NOT EXISTS` is not atomic;
* a shutdown that runs out of time closes clients under running handlers;
* a role lives in three places (row, token, cached profile) that change at
  different times.

`PROJECT.json` lists each of these as a hazard at its line, with the properties
that cover it, or the reason why none does.

## 2. Plan and status

Order of work, the most important behaviour first.

| Step | Modules | Status |
|---|---|---|
| 1 worker tier | `NotificationLifecycle`, `Pool`, `MCPool` | done |
| 2 its proofs | `PoolProofs`, `DeliveryProofs` | done: every safety property of the worker tier's runs |
| 3 API tier | `NotificationService`, `RateLimiter`, `AuthService` and their `MC` modules | done |
| 4 end to end | `Pipeline`, `MCPipeline`: `Enqueue` in steps in front of `Pool`, and that it implements `Pool` | done |
| 5 processes | `Deployment`, `MCDeployment`: start-up, migrations, shutdown | done |
| 6 roles and tokens | `Access`, `MCAccess` | done |
| 7 proofs of the rest | `PipelineProofs`, `NotificationServiceProofs`, `DeploymentProofs`, `AuthServiceProofs`, `RateLimiterProofs`, `AccessProofs` | done: every safety property that a passing run checks is stated by a theorem |

The abstract specification of the system is `NotificationLifecycle`; `Pool`
implements it, and `Pipeline` implements `Pool`. The other modules state their
promises as invariants and liveness properties.

## 3. The modules

### Pool

The whole worker tier: any number of processes, each with a dispatcher and
worker goroutines, over any number of partitions. One action per step at which
another goroutine, the broker or a signal may intervene.

| State | Code |
|---|---|
| `log`, `committed`, `owner` | the broker, as far as the reader and writer of `internal/events` use it |
| `position`, `held`, `dpc` | the reader's next offset, `msg` and the program counter in the loop of `Run` (`pool.go:61-85`); `"wait"` is `close(jobs); wg.Wait()` |
| `cancelled` | `ctx.Err() != nil` |
| `wpc`, `job`, `attempt` | program counter in `handle`, the message, the loop variable of `deliverWithRetry` |
| `rows` | status, attempts, and whether `sent_at` is set |
| `budget` | how many faults of each kind may still happen |
| `accepts`, `handled`, `abandoned`, `generation` | history only: how often the provider accepted a notification, what was handled, what a crash took out of a goroutine's hands, how many group generations there were |

`Dispatch` is the rendezvous on the unbuffered channel together with the
decoding of the record. The hand-over and `DropOnCancel` are the two branches of the
`select`: with `ctx` done both are possible. `AttemptCancelled`,
`BackoffCancelled` and `SendFails` under a done `ctx` are the three ways in
which a stop becomes a failed delivery. `MarkSent` and `MarkFailed` do not look
at the row's status, as the UPDATEs do not. `StartCommit` fixes the context
that `commit` uses; a commit on the shared context may fail once `ctx` is done.
An error that arrives after the effect (a commit or UPDATE that was applied and
reported as failed) leaves the same state as success, because the code
only logs it.

The broker is external. A new generation starts every reader at the committed
offset (`ResumeAt`), which is what a consumer group without a start offset
does; a commit stores its offset whatever was stored before, and may come from
a process that has lost the partition. The kafka-go reader discards messages of
an older generation, so `Rebalance` resets `position`; an event that has been
fetched already stays in hand.

### NotificationLifecycle

The abstract specification: a notification is created pending, becomes sent or
failed, never goes back, and is called sent only after the provider accepted
it. `Pool` implements it with `status <- rows[n].status` and
`accepted <- {n : accepts[n] > 0}` (`ImplementsLifecycle`).

### Pipeline

`Pool` with the API's `Enqueue` taken apart. `stage[n]` is the program counter
of the handler of the one POST that creates `n`, `batch` the events the Kafka
writer holds. `Insert` may report an error for a row that is there.
`WriteMessages` hands the event to the writer (`StartPublish`) and waits for its
answer (`Write`, `GiveUp`) or for the end of the request's context
(`PublishCancelled`), in which case the writer goes on with the event.
`WriteUnacknowledged` appends the event without telling anybody, so a second
attempt appends it again. `Abort` is the death of the API instance, with its
writer. The worker tier's steps are those of `Pool`, except `Enqueue` and
`Republish`. What the workers see is `QueuedRows`: a row exists for them once
its event is in the topic; under this mapping a first append is `Pool`'s
`Enqueue`, a later one its `Republish`, and every other step of the API a
stutter (`ImplementsPool`).

### Deployment

The processes from exec to exit, any number of API instances and workers.

| State | Code |
|---|---|
| `pc`, `step` | where `main` is: connecting, in the loop of `Migrate`, connecting Redis, before and after `signal.Notify`, in `Shutdown`, in each `Close` |
| `schema` | the tables committed in PostgreSQL; a process in `"commit"` has created one and not committed it |
| `listen`, `signalled`, `open`, `result` | the goroutine of `ListenAndServe` and `errCh`, the `quit` channel, the clients not yet closed, what `Run` returned and the exit status |
| `hpc`, `at` | the POSTs in flight and the instance that accepted each |
| `starved`, `torn` | history: requests that met a closed client, requests cut off inside `WriteMessages` |

A migration is one `Exec` of several statements without arguments, which pgx
sends in the simple protocol, hence one transaction. The model keeps one table
per migration: `Skip` and `Missing` are the look-up of `IF NOT EXISTS` among
committed tables, `Create` waits for a rival's open transaction (its guard
`NameIsFree`), `CreateFails` is the unique violation once the rival has
committed. `ShutdownTimesOut` may happen at any moment of the shutdown.
`Writer.Close` refuses new messages and waits for the callers inside
(`CloseProducer`, `Flush`). A call to a closed client fails (`Call`). A worker's
`Run` is a single state here, since `Pool` has it.

### Access

A user's role in the row, in tokens and in the cached profile. `StartIssue`,
`Find`, `Sign` are login and refresh as far as they issue an access token;
`Deny`, `Admit`, `Me` present a token that is out, expired ones included;
`Hit`, `LookupMisses`, `Read`, `Fill` are `GetProfile`. `SetRole` is the
operator's UPDATE. Time is in ticks; `since` records how long ago a row last
had each role, `lag` how long a request has been holding what it read.

### NotificationService

`Enqueue` and `ListForUser`, one action per call of PostgreSQL, Kafka and Redis.
`pc`, `target`, `limit`, `found` and `doomed` are the handler's local state,
`cache` maps user and limit to a list with its remaining time to live. A row
takes its `created_at` when the INSERT begins (`Stamp`) and becomes visible
when it ends (`InsertRow`), so rows may appear in another order than lists show
them. A list is the set of its rows with their statuses: `created` says in which
order they are shown and which are the newest (`Newest`). The id of an INSERT
that failed does not come back; a new request has a new one. `held`, the sets of
rows the table has held, is history. `Resolve` is the worker's UPDATE, which may come before the client is
answered. A failing call spends a fault, and for the INSERT and the publish it
may have taken effect. `Get`, `ListAll` and a refused channel change nothing
and are left out.

### RateLimiter

One action per request, since `IncrWithWindow` is one Redis transaction
and the rest of the handler works on its answer. Time is in ticks. `FailOpen`
covers both a transaction that was not applied and one that was. `admitted` is
history: the requests let through within the last window, each as the value of
the counter it got and how many ticks ago that was. A counter cannot start again
within a tick, since keys expire in `Tick` only, so the pairs tell the requests
apart.

### AuthService

Signup, login, refresh and logout, one action per call. An account is its
normalised email; `Canonical` stands for `ToLower(TrimSpace(.))`. `holder[t]`
is the account in the value of token `t`'s key. Access tokens and `GetProfile` are
in `Access`.

## 4. The runs

| Run | Checks | Instance |
|---|---|---|
| `pool_workers` | type, `CommittedAccounted`, `SentIsTruthful`, `ShortFailureNeedsStop`, `AcceptsBounded`, `ReturnRecordsDeliveries`, `ImplementsLifecycle` | 1 process, 2 goroutines, 1 partition, 2 notifications, 1 retry; a crash, a stop, a database and a broker error |
| `pool_group` | `CommittedPersisted`, `DeliveredInOrder` | 2 processes with 1 goroutine each, 1 notification; a crash, a stop, a rebalance, a duplicate, a poison record; no retry |
| `pipeline` | type, `AcceptedIsInTopic`, `EventHandled`, `StopCompletes`, `PendingResolves`, `ImplementsPool` under `PipelineFairSpec` | 2 processes with 1 goroutine each, 1 notification and a second copy of its event; a crash, a stop, a broker error |
| `service` | type, `AcceptedIsQueued`, `ReadYourWrites`, `ListIsSnapshot`, `HitAgeBounded` | 2 clients of 1 user, one of them lists; 2 notifications; limits 1 and 2, both known; life of 2 ticks; 2 faults |
| `limiter` | type, `SlidingBound`, `PauseUnblocks`, `RejectionJustified` | 2 clients, limits 0, 1, 2, window of 3 ticks, 4 requests per key, 1 fault |
| `auth` | type, `OneAccountPerPerson`, `RegisteredCanLogIn`, `EndedStaysEnded`, `IssuedIsStored` | 2 concurrent requests, 2 spellings of 1 address, 4 tokens, 2 faults |
| `deployment` | type, `ServesOnSchema`, `GracefulAnswersAll`, `PublishNotTorn`, `SchemaCompletes`, `RestartHeals`, `StopEnds` under `FairSpec` | 1 API, 1 worker, 2 requests; 2 faults, 2 signals, 2 restarts |
| `access` | type, `AdminWasAdmin`, `IssuedRoleIsCurrent`, `ProfileRecent` | 1 user whose role changes twice, 2 concurrent requests; tokens and profiles live 2 ticks, a request holds what it read for at most 1 |

Four runs show where the code does not do what the repository says of it:

| Run | Statement | What happens |
|---|---|---|
| `pool_commit_gap` | "offsets commit only after the terminal state is persisted" (`README.md:205-206`) | with two goroutines the later event is committed first, and that covers the earlier one, whose row is pending; no fault is needed |
| `pool_stop_fails` | "MarkFailed records a terminal failure after retries are exhausted" (`internal/repository/notification.go:91`) | a stop during the backoff records failed with retries left |
| `service_odd_limit` | "deleting known limits keeps reads fresh" (`internal/service/notification.go:120`) | a list under another limit stays stale after the client's own enqueue |
| `limiter_window` | "on first increment, applies an expiry window ... fixed-window" (`internal/cache/redis.go:89-91`) | every request renews the expiry |

### Why the instances are enough to be interesting

* *Two goroutines, one partition, two events* is the smallest instance with
  commits out of order, and with an offset that goes back. More goroutines add
  more of the same; the proof of `CommittedAccounted` covers any number.
* *Two processes with one goroutine each* have a partition change hands while
  an event is in work, and one process deliver what the other still holds; in
  `pipeline` the second process has to take over from one that is gone.
* `pool_group` has three records: an event, its copy, and one that does not
  decode. `pipeline` has the two copies that its one POST and the writer's
  retry can produce; a repeated append is the case in which `ImplementsPool` maps to
  `Republish`.
* Offsets are bounded by the number of notifications and the budgets for
  duplicates and poison records; generations by the budgets for rebalances,
  crashes and stops. A process may be started again as often as it went down.
* `MaxRetries = 1` has a first attempt, a backoff and a last attempt. The runs
  about the group use 0, because retries do not interact with offsets.
* `MaxOffset` only says how far `EventHandled` looks: 1 in `pipeline`, the
  offset of the second of its two records.
* In `service` the default limit is 1 and the maximum 2, so two notifications
  overflow the one list and fill the other; the raw limits 0 and 5 take both
  branches of `normalizeLimit`. In `service_odd_limit` the maximum is 3 and
  limit 2 is unknown.
* Three ticks per window are enough for a key to age, expire between requests
  and be renewed; `MaxCount = 4` lets a client exceed the limit 2 twice.
* Four tokens let two requests issue while two earlier tokens are refreshed or
  revoked. `TokenLeft` keeps a request that might issue from starting when no
  fresh token would be left for it.
* In `deployment` an API and a worker are enough for the race of the
  migrations (the code is the same for both) and for a winner and a loser at
  each of the two tables; two requests can be at different stages when the
  deadline passes; two restarts let both come back or one fail twice. A
  process's requests are set free when it is started again.
* In `access` two role changes demote a promoted user, with
  a login, a refresh or a slow profile reader in between; `MaxLag = 1` lets a
  reader store a profile that is out of date by then. Users do not interact, so
  one is enough.
* Symmetry is used for goroutines, notifications, clients, requests and tokens,
  in runs that check safety only.

### What the properties presuppose

* `CommittedPersisted` and `DeliveredInOrder` hold with one goroutine per
  process (`WORKER_CONCURRENCY=1`) and without database errors. With more
  goroutines the first is refuted, and the second fails in the same way.
* `ReturnRecordsDeliveries` says nothing after a crash or a database error.
* `ReadYourWrites` is for the only client of its user that lists, and for
  known limits; with two readers the read-then-store race leaves a stale list
  until it expires, and a failed DEL does too (`~undeleted`).
* `EventHandled` and `PendingResolves` excuse states in which *all* processes are
  down, and say nothing with several goroutines per process, where a crash loses
  events. `PendingResolves` also excuses a row whose client was answered 500 and
  one whose UPDATE failed.
* `AcceptedIsInTopic` relies on `RequireAll`: an acknowledged record is not lost.
* `SchemaCompletes` and `RestartHeals` speak of starts without faults and signals.
  A process may exit at start-up without either: the loser of the race. That is
  not what `internal/database/migrate.go:46-47` says ("so the API and worker can
  both run them safely on startup"); `docker-compose.yml` starts both at once and
  has no restart policy.
* `GracefulAnswersAll` is about exit status 0. A signal that arrives when the
  listener is open and `signal.Notify` has not run yet (`server.go:51-59`) kills
  the process with its handlers, which the property does not forbid.
* `AdminWasAdmin` and `ProfileRecent` bound the age of a role by the token's or
  cache entry's life plus `MaxLag`, the time a request takes between reading
  and using it.
* `EndedStaysEnded` is for runs in which no DEL fails; the code ignores that
  error in `Refresh`.

### Fairness

`FairSpec` assumes weak fairness of each dispatcher's steps and of each worker
goroutine's steps: the Go scheduler runs goroutines that can run, `time.After`
fires, `Send` returns after its simulated latency, UPDATE and detached commit
have 5 s contexts, a commit on the shared context ends with the broker's answer
or with `ctx`. It also assumes that a group with an unowned partition and a running
member gets a new assignment. Nothing is assumed of the API, of faults or of
restarts: `EventHandled` therefore excuses states in which all processes are down. Fairness
is per goroutine, not per branch: a goroutine that can both succeed and fail
may always fail, and the bounded retry loop still ends.

`PipelineFairSpec` adds the API's steps after the INSERT: handler and
writer go on with a request they have begun, since the writer's attempts are
limited and have timeouts. That a POST is made is not assumed.

In `Deployment`, `main` goes on, and so does `WriteMessages`; handlers are not
fair otherwise, so `StopEnds` holds although they may hang for ever: that is
what the deadline of the shutdown context is for. The wait of a migration for a
rival's transaction ends because the rival's `main` goes on too.

## 5. Proofs

`PoolProofs` proves, for every value of the constants that `PoolAssumption`
allows (any number of processes, goroutines per process, partitions,
notifications, retries and faults):

* `TypeCorrect == Spec => []TypeOK`. `TypeOK` alone is not inductive: that a commit
  stores a number needs the goroutine to hold an event while it commits, and
  that the attempt counter stays in `0 .. MaxRetries + 1` needs the program counter to
  agree with it. `TypeInv` adds what ties program counters to data: a
  dispatcher holds an event exactly in `"send"`, a goroutine exactly inside
  `handle`, an absent process has no running goroutine and owns nothing, and
  the counter is at least 1 in the loop and at most `MaxRetries` in a backoff.
* `NothingSkipped == Spec => []CommittedAccounted`. The committed offset moves
  to the event in a goroutine's hand plus one, so the invariant must say that everything before
  *any event in hand* is accounted for; that follows from the same about the event a
  dispatcher holds, and this from the same about the reader's position.
  These four statements (`Behind`) with `HandledWhenCommitting` and `TypeInv` are
  inductive, because what is accounted for stays so (`AccountedKept`): a
  goroutine lets go of an event only when it is handled or dies with it.

Under the same assumptions `Pool` implements `NotificationLifecycle`:

* `SentTruthfully == Spec => []SentIsTruthful`. What `MarkSent` writes depends
  on the record that the goroutine's event points to, so `TruthInv` follows that
  record back: every record is undecodable or belongs to a row (`LoggedHasRow`),
  events in hand lie in the log (`InHandIsLogged`), a delivery is never that of an
  undecodable record (`DeliveringDecoded`), and in `"markSent"` its notification
  has been accepted (`AcceptedWhenMarking`). Other goroutines do not disturb this,
  because records, rows and acceptances only grow (`GrowsNext`).
* `Refinement == Spec => ImplementsLifecycle`. Initial states map to initial
  states (`LifecycleInit`), and under `TruthInv` each step maps to a step or to a
  stutter (`LifecycleNext`). The invariant is needed: without it `MarkSent` need
  not be a step of the lifecycle, which asks for an acceptance.

`DeliveryProofs` says what becomes of deliveries. Two of its theorems assume
`OneGoroutineEach` (`WORKER_CONCURRENCY=1`) as well:

* `InOrder == Spec => []DeliveredInOrder`. The chain of `PoolProofs` again, with
  *handled* in the place of *accounted for*: what lies before the committed
  offset and before a goroutine's event is handled; what lies before a
  dispatcher's event and the reader's position is handled or in the hand of the
  same process (`OrderInv`). With one goroutine per process that hand is empty when
  the next event is handed over, which is where the assumption is used. A rebalance
  falls back to the committed offset, whose events are handled.
* `CommitAfterRecord == Spec => []CommittedPersisted`, if moreover
  `Budget["db"] = 0` (`NoDatabaseErrors`). Without failing UPDATEs a handled event has a
  terminal row or is undecodable (`HandledRecorded`), and a terminal row stays
  terminal.

The others assume no more than `PoolAssumption`. The first two are about budgets,
which record what has happened so far: they only fall (`BudgetFalls`), so a
budget that is untouched after a step was untouched before it.

* `ShortFailuresExplained == Spec => []ShortFailureNeedsStop`. As long as no stop has
  been spent, no context is cancelled, a goroutine in `"markFailed"` has used
  all attempts, and so has every failed row (`NobodyHurries`). `GivingUpSource`
  and `FailedRowSource` say where the latter two can come from.
* `ReturnsRecorded == Spec => []ReturnRecordsDeliveries`. Without a crash or a
  database error an accepted notification has a terminal row, or is in the hands of
  a goroutine about to record it (`AcceptanceKept`); when all processes are off
  there is no such goroutine.
* `RedeliveryBounded == Spec => []AcceptsBounded`. The bound is a number of
  tickets: a generation of the group together with a copy of the event in the
  topic. The reader of a generation returns a copy once, so it gives out a
  ticket once; a delivery carries its ticket along, and the first acceptance
  ends the delivery and uses it up. The invariant (`AcceptsInv`) says that there
  are sets of used tickets, as large as `accepts` (`UsedUp`), that whoever has an
  event still to be accepted has a ticket that is not used up (`InHandUnused`),
  and that no two have the same (`NoDoubles`). In which generation an event in
  hand was fetched is not in the state, hence the existential quantifier: each
  action comes with the witnesses after it. Used tickets lie in generations times
  copies, a finite set whose size is the bound (`TicketsAreFew`).

`PipelineProofs` is about the composition. The worker tier sees only rows that
are queued, so `PoolProofs` is instantiated with `rows <- QueuedRows` and
Pool's invariant `TruthInv` comes from there, not from a second proof. `HandlerInv` adds
what ties a handler to the writer and the topic: an event goes to its
notification's partition (`InItsPartition`), writer and topic have only events
of requests that have begun (`HandedIsBegun`), nobody changes a row before its event is
in the topic (`UntouchedUntilQueued`), and what was answered 202 is in the topic
(`AcceptedIsLogged`). From these follow

* `PipelineTypeCorrect`, `AcceptedIsQueued == PipelineSpec => []AcceptedIsInTopic`;
* `PipelineRefinement == PipelineSpec => ImplementsPool`: the first append of an event maps
  to `Enqueue`, a further one to `Republish`, the steps before it to stutters.
  `UntouchedUntilQueued` is what the first case needs: the row is still pending
  when it becomes visible to the tier;
* `PipelineSentTruthfully == PipelineSpec => []SentIsTruthful`, since an
  acceptance is always that of a queued row.

`AuthServiceProofs` has two invariants. `AccountInv`: users' addresses and those
about to be inserted are canonical, tokens are issued to users only, and only
refresh and logout carry a token, one that was issued (`TokenInHand`); it gives `TypeCorrect`, `OneAccount` and `LoginFindsAccount`. `TokenInv` on top:
every token issued or ended was generated before (`SeenIsGenerated`), and as long
as no DEL has failed, the token of a refresh that is past its DEL is gone
(`UsedUp`); it gives `EndedForGood` and `IssuedWorks`.

`RateLimiterProofs`: `TypeCorrect`, `PauseAlwaysUnblocks` and `RejectionsJustified`
follow from one invariant per client (`ClientInv`): a key exists as long as it has an
expiry, it expires within a window of the client's last request, and every counted
request was let through until the limit was reached. For
`WindowsBounded == Spec => []SlidingBound` there is a second one (`AdmittedInv`):
the requests admitted within the last window have different counters, none above
the limit or the present counter, and the key outlives the window of the last of
them. So the counter does not start again while a request that it let through
counts, and the requests are at most as many as the numbers up to the limit
(`CountedAtMostLimit`).

`AccessProofs`: `TypeCorrect`, `DemotionBites == Spec => []AdminWasAdmin`,
`IssuedCurrently` and `ProfilesAge`, for any lives of tokens and profiles and any
`MaxLag`. The age of a role is followed from the row (`RoleIsNow`) through the
request that read it (`HeldIsRecent`) to the token or cache entry made from it,
whose age and remaining life add up to a constant (`TokenIsRecent`,
`EntryIsRecent`).

`DeploymentProofs` assumes that API instances and workers are different
processes, and of the bounds that they are natural numbers. Its type correctness already needs that no two processes
have the same table in creation (`SingleCreator`).

* `ServersHaveSchema == Spec => []ServesOnSchema`, by `SchemaInv`: every process
  starts with the first migration, whoever is at the second finds the first table
  there, and whoever is past both finds both; tables never go away.
* `GracefulStops == Spec => []GracefulAnswersAll`. `RequestInv` follows a request
  to the instance that accepted it: a handler lives only in a process that
  lives, until `CloseDB` nothing is closed and no handler has met a closed client
  (`NothingClosed`), and an instance comes to `CloseDB` without a timeout only when all its
  requests are answered, after which none is accepted (`AllWereAnswered`). Restarts
  matter here: the requests of the earlier life are set free first.
* `PublishesEnd == Spec => []PublishNotTorn`, from the parts of `RequestInv` about
  the writer: once `Close` has begun nobody enters `WriteMessages`
  (`ProducerClosed`), once it has ended nobody is inside (`Flushed`), so only a kill
  finds a request there.

`NotificationServiceProofs` is for any number of clients, users, notifications
and limits, any time to live and any number of faults.

* `TypeCorrect` and `AcceptsQueue == Spec => []AcceptedIsQueued`, by `TypeInv`:
  handlers past the INSERT have their row, those past the publish their event,
  and no two insert the same id.
* `AgeBounded == Spec => []HitAgeBounded`: age and remaining life of an entry are
  one `TTL` (`Ages`).
* `ListsAreSnapshots == Spec => []ListIsSnapshot`. A list is *in sight* of a session
  when it can be served to it from the cache, is about to be stored and served, or has
  been served. Every list in sight is a snapshot (`Snaps`): it was in sight
  before, of this session or of one of the same user, or is read just now
  (`SightFrom`), and a snapshot stays one, because `held` only grows and a
  recorded outcome is never pending again.
* `ReadsOwnWrites == Spec => []ReadYourWrites` under what the property presupposes:
  one client of each user lists (`OneReaderEach`) and it asks for limits that are
  invalidated (`KnownRequests`); without either, TLC finds a counterexample. The
  invariant (`Fresh`) says more than the property: as long as no DEL failed, every
  list in sight covers what is `Due`, which includes the notification that is about to be
  acknowledged, from the moment the key of that limit has been deleted. That the
  reader is idle while it enqueues is why no outdated list can be stored
  between the DEL and the 202. A row that is missing from the list the database
  returns is older than all that are in it, and the list is full (`NewestFull`:
  there is a newest row outside the list, and it has exactly the list above it).

The lemmas before each theorem treat the actions one by one.

Only model-checked:

* liveness (`EventHandled`, `StopCompletes`, `PendingResolves`, `SchemaCompletes`,
  `RestartHeals`, `StopEnds`), since fairness and ENABLED are beyond the prover;
* the refutations of the four statements in section 4; `FailedMeansExhausted`
  and `FixedWindow` are properties of those runs only.

Every other property that a run checks is stated by a theorem. Where the theorem
has a hypothesis that the run's instance fulfils (`OneGoroutineEach`,
`NoDatabaseErrors`, `OneReaderEach`, `KnownRequests`), it is named there.

To run: `tlc -config pool_workers.cfg MCPool.tla` and the like (each run's
module and configuration are in `PROJECT.json`), and `tlapm` on each of
`PoolProofs.tla`, `DeliveryProofs.tla`, `PipelineProofs.tla`,
`NotificationServiceProofs.tla`, `DeploymentProofs.tla`, `AuthServiceProofs.tla`,
`RateLimiterProofs.tla` and `AccessProofs.tla`.

## 6. Not modelled

* Health, logging, configuration parsing: no state, or pure input and output.
  The models take positive durations for granted, which `config.Load` does not
  check (hazard at `internal/config/config.go:94`).
* Header parsing, signatures and the claims other than role and expiry.
* Indexes and the extension of the migrations, apart from their table.
* `Get` and `ListAll`: single reads without cache.
* The contents of notifications, HTTP encoding and headers.
* The lengths of backoffs and timeouts: a wait may end at any time.
* Ignored broker subtleties: compaction, retention, transactions, and offsets lost by the broker.
