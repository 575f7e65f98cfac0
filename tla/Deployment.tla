----------------------------- MODULE Deployment -----------------------------
(***************************************************************************)
(* The life of the processes: API instances (cmd/api, internal/server) and *)
(* workers (cmd/worker), from exec over connecting and migrating to        *)
(* serving, shutting down and exiting.  They start at the same time on one *)
(* database; an API's shutdown meets the requests it is serving.           *)
(*                                                                         *)
(* PostgreSQL, the signals and the Kafka writer's Close are external.  A   *)
(* migration is one multi-statement Exec, so one transaction: its IF NOT   *)
(* EXISTS looks at what is committed, its CREATE waits for a rival that    *)
(* creates the same table and fails when the rival has committed.          *)
(***************************************************************************)
EXTENDS Naturals, Sequences, FiniteSets

CONSTANTS
  Api, WorkerProcess,   \* the processes
  Request,              \* POSTs to /notifications
  NoApi,                \* "not accepted by any instance"
  MaxFaults,            \* failing calls, lost connections, crashes
  MaxSignals,           \* SIGINTs and SIGTERMs
  MaxRestarts

Process == Api \cup WorkerProcess

ASSUME DeploymentAssumption ==
  /\ Api \cap WorkerProcess = {}
  /\ NoApi \notin Api
  /\ MaxFaults \in Nat /\ MaxSignals \in Nat /\ MaxRestarts \in Nat

VARIABLES
  pc,         \* where main is
  step,       \* step[p]: the migration under way
  schema,     \* the tables committed in the database
  listen,     \* listen[a]: the goroutine that runs ListenAndServe
  signalled,  \* signalled[p]: a signal waits for main, or was taken
  open,       \* open[a]: the clients that are not closed
  result,     \* result[p]: what Run returned, then the exit status
  hpc,        \* hpc[r]: where the handler of r is
  at,         \* at[r]: the instance that accepted r
  starved,    \* history: requests whose handler met a closed client
  torn,       \* history: requests cut off while the writer had their event
  faults, signals, restarts   \* what is left of the bounds

processVars == <<pc, step, listen, signalled, open, result>>
handlerVars == <<hpc, at, starved, torn>>
boundVars   == <<faults, signals, restarts>>
vars        == <<processVars, schema, handlerVars, boundVars>>

Clients   == {"db", "producer", "redis"}
Starting  == {"connect", "check", "create", "commit", "redis"}
Up        == {"start", "serve"}
Closing   == {"shutdown", "closeDB", "closeProducer", "flush", "closeRedis", "return"}
InService == {"insert", "publish", "write", "invalidate"}

\* Mutant: the notifications are created before the users they refer to.
NotificationsFirst == <<"notifications", "users">>

Migrations == <<"users", "notifications">>

Tables   == {"users", "notifications"}
Table(p) == Migrations[step[p]]

\* A migration that has created its table and not yet committed.
Creating(p) == pc[p] = "commit"

InFlight(a) == {r \in Request : at[r] = a /\ hpc[r] \in InService}

\* Types, and: a table is created by one transaction at a time, and only once.
TypeOK ==
  /\ pc \in [Process -> Starting \cup Up \cup Closing \cup {"exited"}]
  /\ step \in [Process -> DOMAIN Migrations]
  /\ schema \in SUBSET Tables
  /\ listen \in [Api -> {"starting", "open", "failed", "closed"}]
  /\ signalled \in [Process -> BOOLEAN]
  /\ open \in [Api -> SUBSET Clients]
  /\ result \in [Process -> {"none", "ok", "error", "killed"}]
  /\ hpc \in [Request -> InService \cup {"none", "accepted", "refused", "cut"}]
  /\ at \in [Request -> Api \cup {NoApi}]
  /\ starved \in SUBSET Request /\ torn \in SUBSET Request
  /\ faults \in 0 .. MaxFaults
  /\ signals \in 0 .. MaxSignals
  /\ restarts \in 0 .. MaxRestarts
  /\ \A p, q \in Process : Creating(p) =>
       /\ Table(p) \notin schema
       /\ Creating(q) /\ Table(p) = Table(q) => p = q

Init ==
  /\ pc = [p \in Process |-> "connect"]
  /\ step = [p \in Process |-> 1]
  /\ schema = {}
  /\ listen = [a \in Api |-> "starting"]
  /\ signalled = [p \in Process |-> FALSE]
  /\ open = [a \in Api |-> Clients]
  /\ result = [p \in Process |-> "none"]
  /\ hpc = [r \in Request |-> "none"]
  /\ at = [r \in Request |-> NoApi]
  /\ starved = {} /\ torn = {}
  /\ faults = MaxFaults /\ signals = MaxSignals /\ restarts = MaxRestarts

GoTo(p, from, to) ==
  /\ pc[p] = from
  /\ pc' = [pc EXCEPT ![p] = to]

\* main goes on, and nothing else changes.
Proceed(p, from, to) ==
  /\ GoTo(p, from, to)
  /\ UNCHANGED <<step, schema, listen, signalled, open, result, handlerVars, boundVars>>

Fault == faults > 0 /\ faults' = faults - 1

\* The process is gone, its transaction is rolled back, and its handlers stop
\* where they are.
Die(p, status) ==
  /\ pc' = [pc EXCEPT ![p] = "exited"]
  /\ result' = [result EXCEPT ![p] = status]
  /\ listen' = [a \in Api |-> IF a = p THEN "closed" ELSE listen[a]]
  /\ hpc' = [r \in Request |->
               IF at[r] = p /\ hpc[r] \in InService THEN "cut" ELSE hpc[r]]
  /\ torn' = torn \cup {r \in Request : at[r] = p /\ hpc[r] = "write"}
  /\ UNCHANGED <<step, signalled, open, at, starved>>

-----------------------------------------------------------------------------
(* Start-up: database.Connect, database.Migrate, cache.Connect.            *)

\* Where main is when the migrations are done.
Migrated(p) == IF p \in Api THEN "redis" ELSE "start"

Connect(p) == Proceed(p, "connect", "check")

\* The loop of Migrate goes on to the next statement, or returns nil.
NextMigration(p) ==
  IF step[p] < Len(Migrations)
  THEN /\ pc' = [pc EXCEPT ![p] = "check"]
       /\ step' = [step EXCEPT ![p] = @ + 1]
  ELSE /\ pc' = [pc EXCEPT ![p] = Migrated(p)]
       /\ UNCHANGED step

\* Mutant: a plain CREATE TABLE.
NeverSkip(p) == FALSE

\* IF NOT EXISTS: a committed table is skipped with a notice.
Exists(p) == Table(p) \in schema

Skip(p) ==
  /\ pc[p] = "check"
  /\ Exists(p)
  /\ NextMigration(p)
  /\ UNCHANGED <<schema, listen, signalled, open, result, handlerVars, boundVars>>

Missing(p) ==
  /\ ~Exists(p)
  /\ Proceed(p, "check", "create")

\* Mutant: the catalogue does not make a second creator wait.
NoRival(p) == Table(p) \notin schema

\* The names are free: no other transaction has taken them.
NameIsFree(p) ==
  /\ Table(p) \notin schema
  /\ \A q \in Process : Creating(q) => Table(q) # Table(p)

\* REFERENCES users (id).
ReferencesHold(p) == Table(p) = "notifications" => "users" \in schema

Create(p) ==
  /\ NameIsFree(p)
  /\ ReferencesHold(p)
  /\ Proceed(p, "create", "commit")

\* Mutant: the error of Migrate is logged and the process goes on.
LogAndGoOn(p) ==
  /\ pc' = [pc EXCEPT ![p] = Migrated(p)]
  /\ UNCHANGED <<step, listen, signalled, open, result, handlerVars>>

\* The error of Connect or Migrate ends in os.Exit(1).
AfterStartupError(p) == Die(p, "error")

\* A rival has committed the table since this process looked, or the table
\* refers to one that is missing: an error, not a notice.
CreateFails(p) ==
  /\ pc[p] = "create"
  /\ Table(p) \in schema \/ ~ReferencesHold(p)
  /\ AfterStartupError(p)
  /\ UNCHANGED <<schema, boundVars>>

Commit(p) ==
  /\ Creating(p)
  /\ schema' = schema \cup {Table(p)}
  /\ NextMigration(p)
  /\ UNCHANGED <<listen, signalled, open, result, handlerVars, boundVars>>

ConnectRedis(p) == Proceed(p, "redis", "start")

\* A call fails or the 10 s of the start-up context are over; of a COMMIT the
\* client then does not know whether it was done.
StartupFails(p) ==
  /\ pc[p] \in Starting
  /\ Fault
  /\ schema' \in {schema} \cup (IF Creating(p) THEN {schema \cup {Table(p)}} ELSE {})
  /\ AfterStartupError(p)
  /\ UNCHANGED <<signals, restarts>>

-----------------------------------------------------------------------------
(* Serving and stopping: Server.Run and the end of main.                   *)

\* The goroutine of ListenAndServe; after Shutdown it does not listen at all.
Listen(a) ==
  /\ pc[a] \in Up
  /\ listen[a] = "starting"
  /\ \/ listen' = [listen EXCEPT ![a] = "open"] /\ UNCHANGED faults
     \/ listen' = [listen EXCEPT ![a] = "failed"] /\ Fault
  /\ UNCHANGED <<pc, step, schema, signalled, open, result, handlerVars, signals, restarts>>

\* signal.Notify, signal.NotifyContext: from here on signals are not deadly.
Notify(p) == Proceed(p, "start", "serve")

ListenError(a) ==
  /\ listen[a] = "failed"
  /\ GoTo(a, "serve", "closeProducer")
  /\ result' = [result EXCEPT ![a] = "error"]
  /\ UNCHANGED <<step, schema, listen, signalled, open, handlerVars, boundVars>>

TakeSignal(a) ==
  /\ signalled[a]
  /\ GoTo(a, "serve", "shutdown")
  /\ listen' = [listen EXCEPT ![a] = "closed"]
  /\ UNCHANGED <<step, schema, signalled, open, result, handlerVars, boundVars>>

\* Mutant: http.Server.Close in the place of Shutdown.
DoNotWait(a) == TRUE

AllAnswered(a) == InFlight(a) = {}

ShutdownEnds(a) ==
  /\ AllAnswered(a)
  /\ Proceed(a, "shutdown", "closeDB")

\* Mutants: Shutdown has no deadline; its error exits before the closing.
NoDeadline == FALSE
ExitAtOnce == "return"

\* The 10 s of the shutdown context end at some time.
Deadline == TRUE

\* Run returns the error, main goes on to close what it owns.
AfterDeadline == "closeProducer"

ShutdownTimesOut(a) ==
  /\ Deadline
  /\ GoTo(a, "shutdown", AfterDeadline)
  /\ result' = [result EXCEPT ![a] = "error"]
  /\ UNCHANGED <<step, schema, listen, signalled, open, handlerVars, boundVars>>

Close(a, client) == open' = [open EXCEPT ![a] = @ \ {client}]

CloseDB(a) ==
  /\ GoTo(a, "closeDB", "closeProducer")
  /\ Close(a, "db")
  /\ result' = [result EXCEPT ![a] = "ok"]
  /\ UNCHANGED <<step, schema, listen, signalled, handlerVars, boundVars>>

\* Writer.Close refuses new messages, then waits for the calls that are in it.
CloseProducer(a) ==
  /\ GoTo(a, "closeProducer", "flush")
  /\ Close(a, "producer")
  /\ UNCHANGED <<step, schema, listen, signalled, result, handlerVars, boundVars>>

Flush(a) ==
  /\ \A r \in InFlight(a) : hpc[r] # "write"
  /\ Proceed(a, "flush", "closeRedis")

CloseRedis(a) ==
  /\ GoTo(a, "closeRedis", "return")
  /\ Close(a, "redis")
  /\ UNCHANGED <<step, schema, listen, signalled, result, handlerVars, boundVars>>

\* main returns, or os.Exit(1).
Exit(a) ==
  /\ pc[a] = "return"
  /\ Die(a, result[a])
  /\ UNCHANGED <<schema, boundVars>>

\* A worker's Run returns nil once its context is cancelled (module Pool).
WorkerReturns(p) ==
  /\ p \in WorkerProcess
  /\ pc[p] = "serve" /\ signalled[p]
  /\ Die(p, "ok")
  /\ UNCHANGED <<schema, boundVars>>

-----------------------------------------------------------------------------
(* Handlers in flight: one POST.                                           *)

Handle(r, from, to) ==
  /\ hpc[r] = from
  /\ hpc' = [hpc EXCEPT ![r] = to]

Accept(r, a) ==
  /\ pc[a] \in Up /\ listen[a] = "open"
  /\ Handle(r, "none", "insert")
  /\ at' = [at EXCEPT ![r] = a]
  /\ UNCHANGED <<processVars, schema, starved, torn, boundVars>>

\* What becomes of a call to a client of the instance: it works, or its error
\* takes the handler elsewhere, because of a fault or a client already closed.
Call(r, from, client, next, failed) ==
  /\ hpc[r] = from
  /\ \/ /\ client \in open[at[r]]
        /\ Handle(r, from, next)
        /\ UNCHANGED <<starved, faults>>
     \/ /\ client \in open[at[r]]
        /\ Handle(r, from, failed)
        /\ Fault
        /\ UNCHANGED starved
     \/ /\ client \notin open[at[r]]
        /\ Handle(r, from, failed)
        /\ starved' = starved \cup {r}
        /\ UNCHANGED faults
  /\ UNCHANGED <<processVars, schema, at, torn, signals, restarts>>

Insert(r)       == Call(r, "insert", "db", "publish", "refused")
StartPublish(r) == Call(r, "publish", "producer", "write", "refused")

\* The error of the invalidation is ignored.
Invalidate(r)   == Call(r, "invalidate", "redis", "accepted", "accepted")

\* WriteMessages returns: its writes have deadlines and limited attempts.
WriteEnds(r) ==
  /\ \/ Handle(r, "write", "invalidate") /\ UNCHANGED faults
     \/ Handle(r, "write", "refused") /\ Fault
  /\ UNCHANGED <<processVars, schema, at, starved, torn, signals, restarts>>

-----------------------------------------------------------------------------
(* Signals, crashes, restarts.                                             *)

\* Before Notify a signal kills; after it main is told, once.
Signal(p) ==
  /\ pc[p] # "exited"
  /\ ~signalled[p]
  /\ signals > 0
  /\ signals' = signals - 1
  /\ IF pc[p] \in Starting \cup {"start"}
     THEN Die(p, "killed")
     ELSE /\ signalled' = [signalled EXCEPT ![p] = TRUE]
          /\ UNCHANGED <<pc, step, listen, open, result, handlerVars>>
  /\ UNCHANGED <<schema, faults, restarts>>

Crash(p) ==
  /\ pc[p] # "exited"
  /\ Fault
  /\ Die(p, "killed")
  /\ UNCHANGED <<schema, signals, restarts>>

\* The operator starts the process again; the requests of its former life are
\* over, and others may come in their place.
Restart(p) ==
  LET former == {r \in Request : at[r] = p}
  IN  /\ GoTo(p, "exited", "connect")
      /\ restarts > 0
      /\ restarts' = restarts - 1
      /\ step' = [step EXCEPT ![p] = 1]
      /\ listen' = [a \in Api |-> IF a = p THEN "starting" ELSE listen[a]]
      /\ signalled' = [signalled EXCEPT ![p] = FALSE]
      /\ open' = [a \in Api |-> IF a = p THEN Clients ELSE open[a]]
      /\ result' = [result EXCEPT ![p] = "none"]
      /\ hpc' = [r \in Request |-> IF r \in former THEN "none" ELSE hpc[r]]
      /\ at' = [r \in Request |-> IF r \in former THEN NoApi ELSE at[r]]
      /\ starved' = starved \ former
      /\ torn' = torn \ former
      /\ UNCHANGED <<schema, faults, signals>>

\* Every process has exited or waits for a request or a signal: the only
\* states in which the system may rest.
Rest ==
  /\ \A p \in Process : pc[p] = "exited" \/ (pc[p] = "serve" /\ ~signalled[p])
  /\ \A a \in Api : pc[a] = "serve" => listen[a] = "open" /\ InFlight(a) = {}
  /\ UNCHANGED vars

-----------------------------------------------------------------------------
StartupNext(p) ==
  \/ Connect(p) \/ Skip(p) \/ Missing(p) \/ Create(p) \/ CreateFails(p)
  \/ Commit(p) \/ ConnectRedis(p) \/ StartupFails(p) \/ Notify(p)

ServerNext(a) ==
  \/ ListenError(a) \/ TakeSignal(a) \/ ShutdownEnds(a) \/ ShutdownTimesOut(a)
  \/ CloseDB(a) \/ CloseProducer(a) \/ Flush(a) \/ CloseRedis(a) \/ Exit(a)

HandlerNext(r) ==
  \/ \E a \in Api : Accept(r, a)
  \/ Insert(r) \/ StartPublish(r) \/ WriteEnds(r) \/ Invalidate(r)

Next ==
  \/ \E p \in Process : \/ StartupNext(p) \/ WorkerReturns(p)
                        \/ Signal(p) \/ Crash(p) \/ Restart(p)
  \/ \E a \in Api : Listen(a) \/ ServerNext(a)
  \/ \E r \in Request : HandlerNext(r)
  \/ Rest

Spec == Init /\ [][Next]_vars

\* main goes on, and so does a call of the Kafka writer.  Nothing is assumed of
\* the other steps of a handler: it may hang, as long as it likes.
Fairness ==
  /\ \A p \in Process : WF_vars(StartupNext(p)) /\ WF_vars(WorkerReturns(p))
  /\ \A a \in Api : WF_vars(ServerNext(a))
  /\ \A r \in Request : WF_vars(WriteEnds(r))

FairSpec == Spec /\ Fairness

-----------------------------------------------------------------------------
(* Properties.                                                             *)

\* Whoever else starts, migrates or dies at the same time, a process serves or
\* works only when every table is there (main.go:39, worker/main.go:40).
ServesOnSchema ==
  \A p \in Process : pc[p] \in Up \cup Closing => schema = Tables

\* Exit status 0 means that the shutdown was graceful: every request the
\* instance had accepted was answered, and none of their handlers met a client
\* that was closed already (server.go:71-80, main.go:79-85).
GracefulAnswersAll ==
  \A a \in Api : pc[a] = "exited" /\ result[a] = "ok" =>
    \A r \in Request : at[r] = a =>
      hpc[r] \in {"accepted", "refused"} /\ r \notin starved

\* Even when the shutdown runs out of time, an event that the Kafka writer has
\* taken is written or reported before the process exits: only a kill tears a
\* publish (main.go:80, server.go:71-73).
PublishNotTorn ==
  \A r \in torn : result[at[r]] = "killed"

Undisturbed == faults = MaxFaults /\ signals = MaxSignals

\* The race of the first start is survived by somebody: without faults and
\* signals the schema gets completed, though a loser of the race may exit.
SchemaCompletes == <>(schema = Tables \/ ~Undisturbed)

\* On a complete schema the migrations are idempotent: a process that is started
\* then comes up, whatever else is starting (migrate.go:46-47).
RestartHeals ==
  \A p \in Process :
    pc[p] = "connect" /\ schema = Tables ~> pc[p] \in Up \/ ~Undisturbed

\* A signal that main has been told of ends the process, though handlers hang.
StopEnds == \A p \in Process : signalled[p] ~> pc[p] = "exited"
=============================================================================
