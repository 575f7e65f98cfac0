-------------------------------- MODULE Pool --------------------------------
(***************************************************************************)
(* The worker tier of Pulse Notify: the processes of the Kafka consumer    *)
(* group (cmd/worker), each a dispatcher goroutine that fetches events and *)
(* hands them over an unbuffered channel to its worker goroutines          *)
(* (internal/worker/pool.go).  A worker delivers the notification with     *)
(* retries, records the outcome in its PostgreSQL row, and commits the     *)
(* event's offset.                                                         *)
(*                                                                         *)
(* The broker (log, committed, owner) and the API that enqueues are        *)
(* external to the worker: they are modelled as far as pool.go uses them.  *)
(* Every fault (crash, SIGTERM, rebalance, database or broker error,       *)
(* duplicated or undecodable record) is an action that spends a budget.    *)
(***************************************************************************)
EXTENDS Naturals, Sequences, FiniteSets

CONSTANTS
  Process,       \* worker processes of the consumer group
  Worker,        \* all worker goroutines
  ProcessOf,     \* [Worker -> Process], the pool a goroutine belongs to
  Partition,     \* partitions of the notifications topic
  Notification,  \* notification rows, by id
  PartitionOf,   \* [Notification -> Partition], the hash of the user's key
  MaxRetries,    \* WORKER_MAX_RETRIES
  Budget,        \* [Fault -> Nat], how often each fault may happen
  MaxOffset,     \* highest offset the liveness property looks at
  Poison,        \* a record that does not decode to an event with a UUID
  NoEvent,       \* "no event in hand"
  NoProcess      \* "no owner"

Fault == {"crash", "stop", "rebalance", "db", "broker", "duplicate", "poison"}

Event == [partition : Partition, offset : Nat]

ASSUME PoolAssumption ==
  /\ ProcessOf \in [Worker -> Process]
  /\ PartitionOf \in [Notification -> Partition]
  /\ MaxRetries \in Nat
  /\ MaxOffset \in Nat
  /\ Budget \in [Fault -> Nat]
  /\ Poison \notin Notification
  /\ NoEvent \notin Event
  /\ NoProcess \notin Process

VARIABLES
  log,         \* log[p]: the records of partition p
  committed,   \* committed[p]: the group's committed offset (next to read)
  owner,       \* owner[p]: the process partition p is assigned to
  position,    \* position[p]: the next offset the owner's reader returns
  dpc,         \* dpc[i]: where the dispatcher of process i is
  held,        \* held[i]: the event it has fetched and not yet handed over
  cancelled,   \* cancelled[i]: Run's ctx is done (SIGINT or SIGTERM seen)
  wpc,         \* wpc[w]: where worker goroutine w is
  job,         \* job[w]: the event it is handling
  attempt,     \* attempt[w]: the attempt under way, then the attempts made
  rows,        \* rows[n]: the row of notification n in PostgreSQL
  budget,      \* budget[f]: how many faults of kind f are left
  accepts,     \* history: how often the provider accepted n
  handled,     \* history: events some worker has finished handling
  abandoned,   \* history: events a crash took out of a worker's hands
  generation   \* history: consumer-group generations so far

brokerVars   == <<log, committed, owner>>
dispatchVars == <<position, dpc, held>>
workerVars   == <<wpc, job, attempt>>
historyVars  == <<accepts, handled, abandoned, generation>>
vars == <<brokerVars, dispatchVars, cancelled, workerVars, rows, budget,
          historyVars>>

Status      == {"absent", "pending", "sent", "failed"}
Row         == [status : Status, attempts : Nat, sentAt : BOOLEAN]
Fetching    == {"fetch", "pause", "send"}
Delivering  == {"check", "sending", "backoff", "markSent", "markFailed"}
Committing  == {"commit", "commitShared", "commitDetached"}
Record(e)   == log[e.partition][e.offset + 1]
Running     == {i \in Process : dpc[i] # "off"}

Spend(f) ==
  /\ budget[f] > 0
  /\ budget' = [budget EXCEPT ![f] = @ - 1]

TypeOK ==
  /\ log \in [Partition -> Seq(Notification \cup {Poison})]
  /\ committed \in [Partition -> Nat]
  /\ owner \in [Partition -> Process \cup {NoProcess}]
  /\ position \in [Partition -> Nat]
  /\ dpc \in [Process -> Fetching \cup {"wait", "off"}]
  /\ held \in [Process -> Event \cup {NoEvent}]
  /\ cancelled \in [Process -> BOOLEAN]
  /\ wpc \in [Worker -> {"idle", "exited"} \cup Delivering \cup Committing]
  /\ job \in [Worker -> Event \cup {NoEvent}]
  /\ attempt \in [Worker -> 0 .. MaxRetries + 1]
  /\ rows \in [Notification -> Row]
  /\ budget \in [Fault -> Nat]
  /\ accepts \in [Notification -> Nat]
  /\ handled \in SUBSET Event
  /\ abandoned \in SUBSET Event
  /\ generation \in Nat

Init ==
  /\ log = [p \in Partition |-> << >>]
  /\ committed = [p \in Partition |-> 0]
  /\ owner \in [Partition -> Process]
  /\ position = [p \in Partition |-> 0]
  /\ dpc = [i \in Process |-> "fetch"]
  /\ held = [i \in Process |-> NoEvent]
  /\ cancelled = [i \in Process |-> FALSE]
  /\ wpc = [w \in Worker |-> "idle"]
  /\ job = [w \in Worker |-> NoEvent]
  /\ attempt = [w \in Worker |-> 0]
  /\ rows = [n \in Notification |->
               [status |-> "absent", attempts |-> 0, sentAt |-> FALSE]]
  /\ budget = Budget
  /\ accepts = [n \in Notification |-> 0]
  /\ handled = {}
  /\ abandoned = {}
  /\ generation = 1

-----------------------------------------------------------------------------
(* The environment: the API tier and the topic.                            *)

Append1(p, m) == log' = [log EXCEPT ![p] = Append(@, m)]

\* The API inserts the pending row and publishes its event, keyed by user.
Enqueue(n) ==
  /\ rows[n].status = "absent"
  /\ rows' = [rows EXCEPT ![n].status = "pending"]
  /\ Append1(PartitionOf[n], n)
  /\ UNCHANGED <<committed, owner, dispatchVars, cancelled, workerVars,
                 budget, historyVars>>

\* The Kafka writer retries a batch whose acknowledgement was lost.
Republish(n) ==
  /\ rows[n].status # "absent"
  /\ Spend("duplicate")
  /\ Append1(PartitionOf[n], n)
  /\ UNCHANGED <<committed, owner, dispatchVars, cancelled, workerVars, rows,
                 historyVars>>

\* A record that is not a NotificationEvent, or whose id is not a UUID.
PublishPoison(p) ==
  /\ Spend("poison")
  /\ Append1(p, Poison)
  /\ UNCHANGED <<committed, owner, dispatchVars, cancelled, workerVars, rows,
                 historyVars>>

\* Mutant: the reader carries its own position over into the new generation.
ResumeAtPosition == position

\* Every reader of a new generation starts at the committed offsets.
ResumeAt == committed

\* The group coordinator assigns the partitions to the running processes:
\* because one of them has lost its owner, or because the membership changed.
Rebalance ==
  /\ owner' \in [Partition -> Running]
  /\ \/ /\ \E p \in Partition : owner[p] = NoProcess
        /\ UNCHANGED budget
     \/ /\ \A p \in Partition : owner[p] # NoProcess
        /\ Spend("rebalance")
  /\ position' = ResumeAt
  /\ generation' = generation + 1
  /\ UNCHANGED <<log, committed, dpc, held, cancelled, workerVars, rows,
                 accepts, handled, abandoned>>

-----------------------------------------------------------------------------
(* The dispatcher: the loop of Pool.Run.                                   *)

Fetch(i, p) ==
  /\ dpc[i] = "fetch"
  /\ owner[p] = i
  /\ position[p] < Len(log[p])
  /\ held' = [held EXCEPT ![i] = [partition |-> p, offset |-> position[p]]]
  /\ position' = [position EXCEPT ![p] = @ + 1]
  /\ dpc' = [dpc EXCEPT ![i] = "send"]
  /\ UNCHANGED <<brokerVars, cancelled, workerVars, rows, budget, historyVars>>

\* Fetch returned an error although ctx is not done: wait a second, go on.
FetchFails(i) ==
  /\ dpc[i] = "fetch"
  /\ ~cancelled[i]
  /\ Spend("broker")
  /\ dpc' = [dpc EXCEPT ![i] = "pause"]
  /\ UNCHANGED <<brokerVars, position, held, cancelled, workerVars, rows,
                 historyVars>>

PauseEnds(i) ==
  /\ dpc[i] = "pause"
  /\ dpc' = [dpc EXCEPT ![i] = "fetch"]
  /\ UNCHANGED <<brokerVars, position, held, cancelled, workerVars, rows,
                 budget, historyVars>>

\* Mutant: a cancelled fetch is retried like any other failed one.
RetryCancelledFetch == "pause"

\* ctx is done: leave the loop and close(jobs).
AfterCancelledFetch == "wait"

FetchCancelled(i) ==
  /\ dpc[i] = "fetch"
  /\ cancelled[i]
  /\ dpc' = [dpc EXCEPT ![i] = AfterCancelledFetch]
  /\ UNCHANGED <<brokerVars, position, held, cancelled, workerVars, rows,
                 budget, historyVars>>

\* jobs <- msg meets a worker waiting in "range jobs"; the worker decodes the
\* record and either starts delivering it or, if it cannot, only commits it.
Dispatch(w) ==
  LET i == ProcessOf[w]
      e == held[i]
      poison == Record(e) = Poison
  IN  /\ dpc[i] = "send"
      /\ wpc[w] = "idle"
      /\ job' = [job EXCEPT ![w] = e]
      /\ held' = [held EXCEPT ![i] = NoEvent]
      /\ dpc' = [dpc EXCEPT ![i] = "fetch"]
      /\ wpc' = [wpc EXCEPT ![w] = IF poison THEN "commit" ELSE "check"]
      /\ attempt' = [attempt EXCEPT ![w] = IF poison THEN 0 ELSE 1]
      /\ handled' = IF poison THEN handled \cup {e} ELSE handled
      /\ UNCHANGED <<brokerVars, position, cancelled, rows, budget, accepts,
                     abandoned, generation>>

\* Mutant: the break in the select leaves the select only, not the loop.
BreakSelectOnly == "fetch"

\* dispatchErr carries the break out of the select and ends the loop.
AfterDrop == "wait"

\* The other branch of the select: ctx is done, the fetched event is dropped.
DropOnCancel(i) ==
  /\ dpc[i] = "send"
  /\ cancelled[i]
  /\ held' = [held EXCEPT ![i] = NoEvent]
  /\ dpc' = [dpc EXCEPT ![i] = AfterDrop]
  /\ UNCHANGED <<brokerVars, position, cancelled, workerVars, rows, budget,
                 historyVars>>

\* Mutant: Run closes the channel and returns without wg.Wait.
NoWait(i) == TRUE

\* wg.Wait: every goroutine of the pool has called Done.
Drained(i) == \A w \in Worker : ProcessOf[w] = i => wpc[w] = "exited"

\* The coordinator's view once process i has left or is taken for dead.
WithoutMember(i) ==
  [p \in Partition |-> IF owner[p] = i THEN NoProcess ELSE owner[p]]

\* wg.Wait returns, Run returns, main closes the consumer: the process leaves
\* the group and its partitions have no owner until the next rebalance.
RunReturns(i) ==
  /\ dpc[i] = "wait"
  /\ Drained(i)
  /\ dpc' = [dpc EXCEPT ![i] = "off"]
  /\ cancelled' = [cancelled EXCEPT ![i] = FALSE]
  /\ owner' = WithoutMember(i)
  /\ UNCHANGED <<log, committed, position, held, workerVars, rows, budget,
                 historyVars>>

-----------------------------------------------------------------------------
(* The worker goroutines: Pool.worker, handle, deliverWithRetry, commit.   *)

GoTo(w, from, to) ==
  /\ wpc[w] = from
  /\ wpc' = [wpc EXCEPT ![w] = to]

\* Mutants: one retry too many, one too few.
RetryOnceMore(w) == attempt[w] <= MaxRetries + 1
RetryOnceLess(w) == attempt[w] < MaxRetries

MayRetry(w) == attempt[w] <= MaxRetries

\* Mutant: the last error is lost on the way out of the loop.
FailureForgotten(w) == IF MayRetry(w) THEN "backoff" ELSE "markSent"

\* After a failed attempt: back off and go round, or give up with lastErr.
AfterFailure(w) == IF MayRetry(w) THEN "backoff" ELSE "markFailed"

\* Mutant: the loop goes on after a successful Send.
KeepSending == "backoff"

\* A successful Send ends the loop.
AfterSuccess == "markSent"

\* Mutant: the early returns for a done ctx carry no error.
CancelledAsSent == "markSent"

\* deliverWithRetry returns ctx.Err() when ctx is done, handle records it.
AfterCancel == "markFailed"

\* The head of the retry loop looks at ctx before each attempt.
StartAttempt(w) ==
  /\ ~cancelled[ProcessOf[w]]
  /\ GoTo(w, "check", "sending")
  /\ UNCHANGED <<brokerVars, dispatchVars, cancelled, job, attempt, rows,
                 budget, historyVars>>

AttemptCancelled(w) ==
  /\ cancelled[ProcessOf[w]]
  /\ GoTo(w, "check", AfterCancel)
  /\ attempt' = [attempt EXCEPT ![w] = @ - 1]
  /\ UNCHANGED <<brokerVars, dispatchVars, cancelled, job, rows, budget,
                 historyVars>>

SendAccepted(w) ==
  /\ GoTo(w, "sending", AfterSuccess)
  /\ accepts' = [accepts EXCEPT ![Record(job[w])] = @ + 1]
  /\ UNCHANGED <<brokerVars, dispatchVars, cancelled, job, attempt, rows,
                 budget, handled, abandoned, generation>>

\* The provider rejects the delivery, or ctx ends while Send is waiting.
SendFails(w) ==
  /\ GoTo(w, "sending", AfterFailure(w))
  /\ UNCHANGED <<brokerVars, dispatchVars, cancelled, job, attempt, rows,
                 budget, historyVars>>

BackoffEnds(w) ==
  /\ GoTo(w, "backoff", "check")
  /\ attempt' = [attempt EXCEPT ![w] = @ + 1]
  /\ UNCHANGED <<brokerVars, dispatchVars, cancelled, job, rows, budget,
                 historyVars>>

BackoffCancelled(w) ==
  /\ cancelled[ProcessOf[w]]
  /\ GoTo(w, "backoff", AfterCancel)
  /\ UNCHANGED <<brokerVars, dispatchVars, cancelled, job, attempt, rows,
                 budget, historyVars>>

\* MarkSent and MarkFailed run under a context of their own, so a shutdown
\* does not interrupt them.  Neither looks at the row's present status, and
\* MarkFailed leaves sent_at as it is.
MarkSent(w) ==
  /\ GoTo(w, "markSent", "commit")
  /\ rows' = [rows EXCEPT ![Record(job[w])] =
                [status |-> "sent", attempts |-> attempt[w], sentAt |-> TRUE]]
  /\ handled' = handled \cup {job[w]}
  /\ attempt' = [attempt EXCEPT ![w] = 0]
  /\ UNCHANGED <<brokerVars, dispatchVars, cancelled, job, budget, accepts,
                 abandoned, generation>>

MarkFailed(w) ==
  /\ GoTo(w, "markFailed", "commit")
  /\ rows' = [rows EXCEPT ![Record(job[w])] =
                [@ EXCEPT !.status = "failed", !.attempts = attempt[w]]]
  /\ handled' = handled \cup {job[w]}
  /\ attempt' = [attempt EXCEPT ![w] = 0]
  /\ UNCHANGED <<brokerVars, dispatchVars, cancelled, job, budget, accepts,
                 abandoned, generation>>

\* The UPDATE fails or times out: the error is logged and handle goes on.
MarkFails(w) ==
  /\ wpc[w] \in {"markSent", "markFailed"}
  /\ wpc' = [wpc EXCEPT ![w] = "commit"]
  /\ Spend("db")
  /\ handled' = handled \cup {job[w]}
  /\ attempt' = [attempt EXCEPT ![w] = 0]
  /\ UNCHANGED <<brokerVars, dispatchVars, cancelled, job, rows, accepts,
                 abandoned, generation>>

\* commit chooses its context once: the pool's ctx, or a detached one when
\* ctx is done already.
StartCommit(w) ==
  /\ GoTo(w, "commit", IF cancelled[ProcessOf[w]] THEN "commitDetached"
                                                  ELSE "commitShared")
  /\ UNCHANGED <<brokerVars, dispatchVars, cancelled, job, attempt, rows,
                 budget, historyVars>>

\* The goroutine leaves handle with nothing in hand.
Release(w, next) ==
  /\ wpc' = [wpc EXCEPT ![w] = next]
  /\ job' = [job EXCEPT ![w] = NoEvent]

\* The broker stores the event's offset + 1, whatever was committed before.
CommitSucceeds(w) ==
  /\ wpc[w] \in {"commitShared", "commitDetached"}
  /\ committed' = [committed EXCEPT ![job[w].partition] = job[w].offset + 1]
  /\ Release(w, "idle")
  /\ UNCHANGED <<log, owner, dispatchVars, cancelled, attempt, rows, budget,
                 historyVars>>

\* Mutant: the goroutine gives up when a commit fails.
ExitOnCommitError == "exited"

\* A failed commit is logged and the goroutine takes the next event.
AfterCommitError == "idle"

\* The commit fails: because its context ended, or because of the broker.
CommitFails(w) ==
  /\ \/ /\ wpc[w] = "commitShared"
        /\ cancelled[ProcessOf[w]]
        /\ UNCHANGED budget
     \/ /\ wpc[w] \in {"commitShared", "commitDetached"}
        /\ Spend("broker")
  /\ Release(w, AfterCommitError)
  /\ UNCHANGED <<brokerVars, dispatchVars, cancelled, attempt, rows,
                 historyVars>>

\* The channel is closed and drained: the goroutine ends.
WorkerExits(w) ==
  /\ dpc[ProcessOf[w]] = "wait"
  /\ GoTo(w, "idle", "exited")
  /\ UNCHANGED <<brokerVars, dispatchVars, cancelled, job, attempt, rows,
                 budget, historyVars>>

-----------------------------------------------------------------------------
(* The life of a process.                                                  *)

\* SIGINT or SIGTERM: signal.NotifyContext cancels ctx.
Stop(i) ==
  /\ dpc[i] # "off"
  /\ ~cancelled[i]
  /\ Spend("stop")
  /\ cancelled' = [cancelled EXCEPT ![i] = TRUE]
  /\ UNCHANGED <<brokerVars, dispatchVars, workerVars, rows, historyVars>>

\* The process dies: whatever its goroutines had in hand is gone.
Crash(i) ==
  LET mine == {w \in Worker : ProcessOf[w] = i}
  IN  /\ dpc[i] # "off"
      /\ Spend("crash")
      /\ abandoned' = abandoned \cup ({job[w] : w \in mine} \ ({NoEvent} \cup handled))
      /\ dpc' = [dpc EXCEPT ![i] = "off"]
      /\ held' = [held EXCEPT ![i] = NoEvent]
      /\ wpc' = [w \in Worker |-> IF w \in mine THEN "exited" ELSE wpc[w]]
      /\ job' = [w \in Worker |-> IF w \in mine THEN NoEvent ELSE job[w]]
      /\ attempt' = [w \in Worker |-> IF w \in mine THEN 0 ELSE attempt[w]]
      /\ cancelled' = [cancelled EXCEPT ![i] = FALSE]
      /\ owner' = WithoutMember(i)
      /\ UNCHANGED <<log, committed, position, rows, accepts, handled,
                     generation>>

\* A process that is not running is started: a new Pool, a new consumer.
Start(i) ==
  /\ dpc[i] = "off"
  /\ dpc' = [dpc EXCEPT ![i] = "fetch"]
  /\ wpc' = [w \in Worker |-> IF ProcessOf[w] = i THEN "idle" ELSE wpc[w]]
  /\ UNCHANGED <<brokerVars, position, held, cancelled, job, attempt, rows, budget,
                 historyVars>>

\* Every dispatcher waits in Fetch, every worker on its channel, and there is
\* nothing to read: the only state in which the group may rest.
Idle ==
  /\ \A i \in Process : dpc[i] = "fetch" /\ ~cancelled[i]
  /\ \A w \in Worker : wpc[w] = "idle"
  /\ \A p \in Partition : owner[p] # NoProcess /\ position[p] >= Len(log[p])
  /\ UNCHANGED vars

-----------------------------------------------------------------------------
EnvironmentNext ==
  \/ \E n \in Notification : Enqueue(n) \/ Republish(n)
  \/ \E p \in Partition : PublishPoison(p)
  \/ Rebalance

DispatcherNext(i) ==
  \/ \E p \in Partition : Fetch(i, p)
  \/ FetchFails(i) \/ PauseEnds(i) \/ FetchCancelled(i)
  \/ DropOnCancel(i)
  \/ RunReturns(i)

WorkerNext(w) ==
  \/ Dispatch(w)
  \/ StartAttempt(w) \/ AttemptCancelled(w)
  \/ SendAccepted(w) \/ SendFails(w)
  \/ BackoffEnds(w) \/ BackoffCancelled(w)
  \/ MarkSent(w) \/ MarkFailed(w) \/ MarkFails(w)
  \/ StartCommit(w) \/ CommitSucceeds(w) \/ CommitFails(w)
  \/ WorkerExits(w)

ProcessNext(i) == Stop(i) \/ Crash(i) \/ Start(i)

Next ==
  \/ EnvironmentNext
  \/ \E i \in Process : DispatcherNext(i) \/ ProcessNext(i)
  \/ \E w \in Worker : WorkerNext(w)
  \/ Idle

Spec == Init /\ [][Next]_vars

\* The Go scheduler runs every goroutine that can run; timers, Send and the
\* 5 s contexts end; a coordinator with unowned partitions and a member
\* rebalances.  Nothing is assumed of the API, of faults, or of restarts.
Fairness ==
  /\ \A i \in Process : WF_vars(DispatcherNext(i))
  /\ \A w \in Worker : WF_vars(WorkerNext(w))
  /\ WF_vars(Rebalance /\ UNCHANGED budget)

FairSpec == Spec /\ Fairness

-----------------------------------------------------------------------------
(* Properties.                                                             *)

InHand == {job[w] : w \in Worker}

\* The events some worker has finished, has in hand, or lost in a crash.
Accounted == handled \cup InHand \cup abandoned

EventAt(p, o) == [partition |-> p, offset |-> o]

\* However many workers commit in whatever order, the committed offset never
\* passes an event that was not handed to a worker: what lies below it has
\* been handled, is being handled, or was in a worker's hands when its process
\* died.  In particular an event dropped by a stopping dispatcher, or fetched
\* by a process that lost the partition, is never skipped (pool.go:62-85).
CommittedAccounted ==
  \A p \in Partition : \A o \in 0 .. committed[p] - 1 : EventAt(p, o) \in Accounted

Terminal(m) == m = Poison \/ rows[m].status \in {"sent", "failed"}

\* "Offsets commit only after the terminal state is persisted"
\* (README.md:205-206):
\* the row of every event below the committed offset is terminal.  Holds with
\* one worker goroutine per process and no database error, through crashes,
\* shutdowns, rebalances and failed commits.
CommittedPersisted ==
  \A p \in Partition : \A o \in 0 .. committed[p] - 1 : Terminal(log[p][o + 1])

\* "All of a user's notifications keep ordering" (producer.go:32-33): when an
\* event is being sent, every earlier event of its partition has been handled.
\* Holds with one worker goroutine per process.
DeliveredInOrder ==
  \A w \in Worker : wpc[w] = "sending" =>
    \A o \in 0 .. job[w].offset - 1 : EventAt(job[w].partition, o) \in handled

\* A row says sent, or carries a sent_at, only if the provider has accepted
\* the notification at least once, by whichever worker and generation.
SentIsTruthful ==
  \A n \in Notification :
    rows[n].status = "sent" \/ rows[n].sentAt => accepts[n] > 0

\* A notification is given up with fewer than MaxRetries + 1 attempts only by
\* a process that was told to stop (pool.go:145, 159).
ShortFailureNeedsStop ==
  \A n \in Notification :
    rows[n].status = "failed" /\ rows[n].attempts <= MaxRetries =>
      budget["stop"] < Budget["stop"]

Copies(n) == Cardinality({o \in 1 .. Len(log[PartitionOf[n]]) :
                            log[PartitionOf[n]][o] = n})

\* At-least-once, and not more often than redelivery explains: the provider
\* accepts a notification at most once per copy of its event in the topic and
\* per generation of the consumer group.
AcceptsBounded ==
  \A n \in Notification : accepts[n] <= generation * Copies(n)

\* Graceful shutdown loses no result: once every process has returned, and
\* without crash or database error, every accepted notification's row is
\* terminal (pool.go:87-88, 119-122).
ReturnRecordsDeliveries ==
  /\ \A i \in Process : dpc[i] = "off"
  /\ budget["crash"] = Budget["crash"]
  /\ budget["db"] = Budget["db"]
  => \A n \in Notification : accepts[n] > 0 => Terminal(n)

\* Every event in the topic is eventually handled unless all processes go
\* down: no event is forgotten by a dispatcher, a rebalance or a restart, none
\* waits for a process that is gone, and no worker is lost to an error
\* (pool.go:60-137).  (With one worker goroutine per process; with more, a
\* crash loses events.)
EventHandled ==
  \A p \in Partition : \A o \in 0 .. MaxOffset :
    o < Len(log[p]) ~> \/ EventAt(p, o) \in handled
                       \/ \A i \in Process : dpc[i] = "off"

\* A process told to stop does stop: no goroutine waits for ever.
StopCompletes ==
  \A i \in Process : cancelled[i] ~> dpc[i] = "off"

\* "MarkFailed records a terminal failure after retries are exhausted"
\* (repository/notification.go:91).  The code does not keep this.
FailedMeansExhausted ==
  \A n \in Notification :
    rows[n].status = "failed" => rows[n].attempts = MaxRetries + 1

\* What the pipeline promises of a notification's life.
Lifecycle == INSTANCE NotificationLifecycle WITH
               status <- [n \in Notification |-> rows[n].status],
               accepted <- {n \in Notification : accepts[n] > 0}

ImplementsLifecycle == Lifecycle!Spec
=============================================================================
