--------------------------- MODULE DeploymentProofs ---------------------------
(***************************************************************************)
(* Start-up and shutdown for any number of API instances, workers and      *)
(* requests, and any number of faults, signals and restarts.               *)
(***************************************************************************)
EXTENDS Deployment, TLAPS

USE DEF processVars, handlerVars, boundVars

-----------------------------------------------------------------------------
(* Types.                                                                  *)

\* The two migrations, in their order.
LEMMA MigrationFacts ==
  /\ DOMAIN Migrations = {1, 2} /\ Len(Migrations) = 2
  /\ Migrations[1] = "users" /\ Migrations[2] = "notifications"
BY DEF Migrations

\* One creator of a table at a time, and only of a table that is not there.
SingleCreator ==
  \A p, q \in Process : Creating(p) =>
    /\ Table(p) \notin schema
    /\ Creating(q) /\ Table(p) = Table(q) => p = q

StateTypes ==
  /\ pc \in [Process -> Starting \cup Up \cup Closing \cup {"exited"}]
  /\ step \in [Process -> {1, 2}]
  /\ schema \in SUBSET Tables
  /\ listen \in [Api -> {"starting", "open", "failed", "closed"}]
  /\ signalled \in [Process -> BOOLEAN]
  /\ open \in [Api -> SUBSET Clients]
  /\ result \in [Process -> {"none", "ok", "error", "killed"}]

RequestTypes ==
  /\ hpc \in [Request -> InService \cup {"none", "accepted", "refused", "cut"}]
  /\ at \in [Request -> Api \cup {NoApi}]
  /\ starved \in SUBSET Request /\ torn \in SUBSET Request

BoundTypes ==
  /\ faults \in 0 .. MaxFaults
  /\ signals \in 0 .. MaxSignals
  /\ restarts \in 0 .. MaxRestarts

LEMMA TypeParts ==
  TypeOK <=> StateTypes /\ RequestTypes /\ BoundTypes /\ SingleCreator
BY MigrationFacts DEF TypeOK, StateTypes, RequestTypes, BoundTypes, SingleCreator


\* Every action is one of these.
LEMMA Actions ==
  ASSUME [Next]_vars
  PROVE  \/ UNCHANGED vars
         \/ \E p \in Process : \/ StartupNext(p) \/ WorkerReturns(p)
                               \/ Signal(p) \/ Crash(p) \/ Restart(p)
         \/ \E a \in Api : Listen(a) \/ ServerNext(a)
         \/ \E r \in Request : HandlerNext(r)
BY DEF Next, Rest

\* The end of a process leaves the types as they are.
LEMMA DieTypes ==
  ASSUME StateTypes, RequestTypes, NEW p \in Process,
         NEW status \in {"ok", "error", "killed", "none"}, Die(p, status),
         schema' \in SUBSET Tables
  PROVE  StateTypes' /\ RequestTypes'
<1>1. pc' \in [Process -> Starting \cup Up \cup Closing \cup {"exited"}]
  BY DEF Die, StateTypes
<1>2. result' \in [Process -> {"none", "ok", "error", "killed"}]
  BY DEF Die, StateTypes
<1>3. listen' \in [Api -> {"starting", "open", "failed", "closed"}]
  BY DEF Die, StateTypes
<1>4. StateTypes'
  BY <1>1, <1>2, <1>3 DEF Die, StateTypes
<1>5. hpc' \in [Request -> InService \cup {"none", "accepted", "refused", "cut"}]
  BY DEF Die, RequestTypes
<1>6. torn' \in SUBSET Request
  BY DEF Die, RequestTypes
<1>7. QED
  BY <1>4, <1>5, <1>6 DEF Die, RequestTypes

\* The two ends of the loop of Migrate.
LEMMA NextMigrationEffect ==
  ASSUME StateTypes, NEW p \in Process, NextMigration(p)
  PROVE  \/ /\ step[p] = 1
            /\ pc' = [pc EXCEPT ![p] = "check"]
            /\ step' = [step EXCEPT ![p] = 2]
         \/ /\ step[p] = 2
            /\ pc' = [pc EXCEPT ![p] = Migrated(p)]
            /\ step' = step
<1>1. step[p] \in {1, 2}
  BY DEF StateTypes
<1>2. CASE step[p] = 1
  BY <1>2, MigrationFacts DEF NextMigration
<1>3. CASE step[p] = 2
  BY <1>3, MigrationFacts DEF NextMigration
<1>4. QED
  BY <1>1, <1>2, <1>3

LEMMA TableType ==
  ASSUME StateTypes, NEW p \in Process
  PROVE  /\ step[p] = 1 => Table(p) = "users"
         /\ step[p] = 2 => Table(p) = "notifications"
         /\ step[p] \in {1, 2} /\ Table(p) \in Tables
BY MigrationFacts DEF StateTypes, Table, Tables

LEMMA StartupTypes ==
  ASSUME StateTypes, RequestTypes, NEW p \in Process, StartupNext(p)
  PROVE  StateTypes' /\ RequestTypes'
<1>1. CASE Connect(p) \/ Missing(p) \/ Create(p) \/ ConnectRedis(p) \/ Notify(p)
  <2>1. /\ pc' \in [Process -> Starting \cup Up \cup Closing \cup {"exited"}]
        /\ UNCHANGED <<step, schema, listen, signalled, open, result, handlerVars>>
    BY <1>1 DEF Connect, Missing, Create, ConnectRedis, Notify, Proceed, GoTo, StateTypes,
                Starting, Up
  <2>2. QED
    BY <2>1 DEF StateTypes, RequestTypes
<1>2. CASE Skip(p) \/ Commit(p)
  <2>1. /\ NextMigration(p)
        /\ schema' \in {schema, schema \cup {Table(p)}}
        /\ UNCHANGED <<listen, signalled, open, result, handlerVars>>
    BY <1>2 DEF Skip, Commit
  <2>2. /\ pc' \in [Process -> Starting \cup Up \cup Closing \cup {"exited"}]
        /\ step' \in [Process -> {1, 2}]
    BY <2>1, NextMigrationEffect DEF StateTypes, Migrated, Starting, Up
  <2>3. schema' \in SUBSET Tables
    BY <2>1, TableType DEF StateTypes
  <2>4. QED
    BY <2>1, <2>2, <2>3 DEF StateTypes, RequestTypes
<1>3. CASE CreateFails(p) \/ StartupFails(p)
  <2>1. Die(p, "error") /\ schema' \in {schema, schema \cup {Table(p)}}
    BY <1>3 DEF CreateFails, StartupFails, AfterStartupError
  <2>2. schema' \in SUBSET Tables
    BY <2>1, TableType DEF StateTypes
  <2>3. QED
    BY <2>1, <2>2, DieTypes
<1>4. QED
  BY <1>1, <1>2, <1>3 DEF StartupNext

LEMMA ServerTypes ==
  ASSUME StateTypes, RequestTypes, NEW a \in Api, Listen(a) \/ ServerNext(a)
  PROVE  StateTypes' /\ RequestTypes'
<1>a. a \in Process
  BY DEF Process
<1>1. CASE Exit(a)
  <2>1. result[a] \in {"ok", "error", "killed", "none"} /\ schema' \in SUBSET Tables
    BY <1>1, <1>a DEF Exit, StateTypes
  <2>2. QED
    BY <1>1, <1>a, <2>1, DieTypes DEF Exit
<1>2. CASE Listen(a)
  <2>1. listen' \in [Api -> {"starting", "open", "failed", "closed"}]
    BY <1>2 DEF Listen, StateTypes
  <2>2. QED
    BY <1>2, <2>1 DEF Listen, StateTypes, RequestTypes
<1>3. CASE ServerNext(a) /\ ~Exit(a)
  <2>1. \E x \in Closing : pc' = [pc EXCEPT ![a] = x]
    BY <1>3 DEF ServerNext, ListenError, TakeSignal, ShutdownEnds, ShutdownTimesOut,
                CloseDB, CloseProducer, Flush, CloseRedis, Proceed, GoTo, AfterDeadline, Closing
  <2>2. pc' \in [Process -> Starting \cup Up \cup Closing \cup {"exited"}]
    BY <2>1, <1>a DEF StateTypes
  <2>3. /\ result' \in {result, [result EXCEPT ![a] = "error"], [result EXCEPT ![a] = "ok"]}
        /\ listen' \in {listen, [listen EXCEPT ![a] = "closed"]}
        /\ UNCHANGED <<step, schema, signalled, handlerVars>>
    BY <1>3 DEF ServerNext, ListenError, TakeSignal, ShutdownEnds, ShutdownTimesOut,
                CloseDB, CloseProducer, Flush, CloseRedis, Proceed, GoTo
  <2>4. /\ result' \in [Process -> {"none", "ok", "error", "killed"}]
        /\ listen' \in [Api -> {"starting", "open", "failed", "closed"}]
    BY <2>3, <1>a DEF StateTypes
  <2>5. UNCHANGED open \/ \E client \in Clients : Close(a, client)
    BY <1>3 DEF ServerNext, ListenError, TakeSignal, ShutdownEnds, ShutdownTimesOut,
                CloseDB, CloseProducer, Flush, CloseRedis, Proceed, Clients
  <2>6. open' \in [Api -> SUBSET Clients]
    BY <2>5 DEF Close, StateTypes
  <2>7. QED
    BY <2>2, <2>3, <2>4, <2>6 DEF StateTypes, RequestTypes
<1>4. QED
  BY <1>1, <1>2, <1>3

LEMMA HandlerTypes ==
  ASSUME RequestTypes, NEW r \in Request, HandlerNext(r)
  PROVE  RequestTypes' /\ UNCHANGED <<processVars, schema, signals, restarts>>
<1>1. ASSUME NEW a \in Api, Accept(r, a)
      PROVE  RequestTypes' /\ UNCHANGED <<processVars, schema, signals, restarts>>
  BY <1>1 DEF Accept, Handle, RequestTypes, InService
<1>2. ASSUME NEW from \in InService, NEW client \in Clients,
             NEW next \in {"publish", "write", "accepted"},
             NEW failed \in {"refused", "accepted"}, Call(r, from, client, next, failed)
      PROVE  RequestTypes' /\ UNCHANGED <<processVars, schema, signals, restarts>>
  <2>1. /\ hpc' \in [Request -> InService \cup {"none", "accepted", "refused", "cut"}]
        /\ starved' \in SUBSET Request
    BY <1>2 DEF Call, Handle, RequestTypes, InService
  <2>2. QED
    BY <1>2, <2>1 DEF Call, RequestTypes
<1>3. CASE WriteEnds(r)
  <2>1. hpc' \in [Request -> InService \cup {"none", "accepted", "refused", "cut"}]
    BY <1>3 DEF WriteEnds, Handle, RequestTypes, InService
  <2>2. QED
    BY <1>3, <2>1 DEF WriteEnds, RequestTypes
<1>4. CASE Insert(r)
  BY <1>2, <1>4 DEF Insert, InService, Clients
<1>5. CASE StartPublish(r)
  BY <1>2, <1>5 DEF StartPublish, InService, Clients
<1>6. CASE Invalidate(r)
  BY <1>2, <1>6 DEF Invalidate, InService, Clients
<1>7. QED
  BY <1>1, <1>3, <1>4, <1>5, <1>6 DEF HandlerNext

LEMMA RestartTypes ==
  ASSUME StateTypes, RequestTypes, NEW p \in Process, Restart(p)
  PROVE  StateTypes' /\ RequestTypes'
<1>1. /\ pc' \in [Process -> Starting \cup Up \cup Closing \cup {"exited"}]
      /\ step' \in [Process -> {1, 2}]
      /\ result' \in [Process -> {"none", "ok", "error", "killed"}]
  BY DEF Restart, GoTo, StateTypes, Starting
<1>2. listen' \in [Api -> {"starting", "open", "failed", "closed"}]
  BY DEF Restart, StateTypes
<1>3. open' \in [Api -> SUBSET Clients]
  BY DEF Restart, StateTypes
<1>4. signalled' \in [Process -> BOOLEAN]
  BY Zenon DEF Restart, StateTypes
<1>5. StateTypes'
  BY <1>1, <1>2, <1>3, <1>4 DEF Restart, StateTypes
<1>6. hpc' \in [Request -> InService \cup {"none", "accepted", "refused", "cut"}]
  BY DEF Restart, RequestTypes
<1>7. at' \in [Request -> Api \cup {NoApi}]
  BY DEF Restart, RequestTypes
<1>8. QED
  BY <1>5, <1>6, <1>7 DEF Restart, RequestTypes

LEMMA SignalTypes ==
  ASSUME StateTypes, RequestTypes, NEW p \in Process, Signal(p)
  PROVE  StateTypes' /\ RequestTypes'
<1>1. CASE pc[p] \in Starting \cup {"start"}
  BY <1>1, DieTypes DEF Signal, StateTypes
<1>2. CASE pc[p] \notin Starting \cup {"start"}
  <2>1. /\ signalled' = [signalled EXCEPT ![p] = TRUE]
        /\ UNCHANGED <<pc, step, schema, listen, open, result, handlerVars>>
    BY <1>2, Zenon DEF Signal
  <2>2. signalled' \in [Process -> BOOLEAN]
    BY <2>1, Zenon DEF StateTypes
  <2>3. QED
    BY <2>1, <2>2 DEF StateTypes, RequestTypes
<1>3. QED
  BY <1>1, <1>2

LEMMA BoundTypesNext ==
  ASSUME BoundTypes, [Next]_vars PROVE BoundTypes'
<1> DEFINE Spends ==
      /\ faults' = faults \/ Fault
      /\ signals' = signals \/ (signals > 0 /\ signals' = signals - 1)
      /\ restarts' = restarts \/ (restarts > 0 /\ restarts' = restarts - 1)
<1>1. ASSUME NEW p \in Process, StartupNext(p) \/ WorkerReturns(p) PROVE Spends
  BY <1>1 DEF StartupNext, Connect, Skip, Missing, Create, CreateFails, Commit, ConnectRedis,
              StartupFails, Notify, Proceed, WorkerReturns
<1>2. ASSUME NEW p \in Process, Signal(p) \/ Crash(p) \/ Restart(p) PROVE Spends
  BY <1>2 DEF Signal, Crash, Restart
<1>3. ASSUME NEW a \in Api, Listen(a) \/ ServerNext(a) PROVE Spends
  BY <1>3 DEF Listen, ServerNext, ListenError, TakeSignal, ShutdownEnds, ShutdownTimesOut,
              CloseDB, CloseProducer, Flush, CloseRedis, Exit, Proceed
<1>4. ASSUME NEW r \in Request, HandlerNext(r) PROVE Spends
  BY <1>4 DEF HandlerNext, Accept, Insert, StartPublish, WriteEnds, Invalidate, Call
<1>5. UNCHANGED vars => Spends
  BY DEF vars
<1>6. Spends
  BY <1>1, <1>2, <1>3, <1>4, <1>5, Actions
<1>7. QED
  BY <1>6, DeploymentAssumption DEF BoundTypes, Fault

LEMMA TypesNext ==
  ASSUME StateTypes, RequestTypes, [Next]_vars PROVE StateTypes' /\ RequestTypes'
<1>1. ASSUME NEW p \in Process, WorkerReturns(p) \/ Crash(p)
      PROVE  StateTypes' /\ RequestTypes'
  BY <1>1, DieTypes DEF WorkerReturns, Crash, StateTypes
<1>2. ASSUME NEW r \in Request, HandlerNext(r) PROVE StateTypes' /\ RequestTypes'
  <2>1. RequestTypes' /\ UNCHANGED <<processVars, schema>>
    BY <1>2, HandlerTypes
  <2>2. QED
    BY <2>1 DEF StateTypes
<1>3. ASSUME UNCHANGED vars PROVE StateTypes' /\ RequestTypes'
  BY <1>3 DEF vars, StateTypes, RequestTypes
<1>4. QED
  BY <1>1, <1>2, <1>3, Actions, StartupTypes, SignalTypes, RestartTypes, ServerTypes

-----------------------------------------------------------------------------
(* The schema.                                                             *)

\* The first migration comes first,
FirstStep == \A p \in Process : pc[p] = "connect" => step[p] = 1

\* whoever is at the second one finds the first table,
FirstTableThere ==
  \A p \in Process : pc[p] \in {"check", "create", "commit"} /\ step[p] = 2 =>
    "users" \in schema

\* and whoever is past the migrations finds both.
MigratedSchema ==
  \A p \in Process : pc[p] \in {"redis"} \cup Up \cup Closing => schema = Tables

SchemaInv == SingleCreator /\ FirstStep /\ FirstTableThere /\ MigratedSchema

TypeInv == StateTypes /\ RequestTypes /\ BoundTypes

\* main goes on after the migrations, or ends.
PastMigrations(p) ==
  /\ UNCHANGED <<step, schema>>
  /\ \E x \in Up \cup Closing \cup {"exited"} : pc' = [pc EXCEPT ![p] = x]
  /\ pc'[p] = "exited" \/ pc[p] \in {"redis"} \cup Up \cup Closing

\* What may happen to the schema and to those who work on it.
LEMMA MainSteps ==
  ASSUME StateTypes, [Next]_vars
  PROVE  \/ UNCHANGED <<pc, step, schema>>
         \/ \E p \in Process :
              \/ Connect(p) \/ Skip(p) \/ Missing(p) \/ Create(p) \/ Commit(p)
              \/ StartupFails(p) \/ Restart(p) \/ PastMigrations(p)
<1> DEFINE Goal ==
      \/ UNCHANGED <<pc, step, schema>>
      \/ \E p \in Process :
           \/ Connect(p) \/ Skip(p) \/ Missing(p) \/ Create(p) \/ Commit(p)
           \/ StartupFails(p) \/ Restart(p) \/ PastMigrations(p)
<1>1. ASSUME NEW p \in Process, NEW status, Die(p, status), UNCHANGED schema
      PROVE  PastMigrations(p)
  BY <1>1 DEF Die, PastMigrations, StateTypes
<1>2. ASSUME NEW p \in Process, StartupNext(p) PROVE Goal
  <2>1. CASE CreateFails(p)
    BY <2>1, <1>1 DEF CreateFails, AfterStartupError
  <2>2. CASE ConnectRedis(p) \/ Notify(p)
    <3>1. PastMigrations(p)
      BY <2>2 DEF ConnectRedis, Notify, Proceed, GoTo, PastMigrations, StateTypes, Up
    <3>2. QED
      BY <3>1
  <2>3. QED
    BY <1>2, <2>1, <2>2 DEF StartupNext
<1>3. ASSUME NEW p \in Process, WorkerReturns(p) \/ Crash(p) PROVE Goal
  <2>1. PastMigrations(p)
    BY <1>1, <1>3 DEF WorkerReturns, Crash
  <2>2. QED
    BY <2>1
<1>4. ASSUME NEW p \in Process, Signal(p) PROVE Goal
  <2>1. CASE pc[p] \in Starting \cup {"start"}
    <3>1. PastMigrations(p)
      BY <1>1, <1>4, <2>1 DEF Signal
    <3>2. QED
      BY <3>1
  <2>2. CASE pc[p] \notin Starting \cup {"start"}
    BY <1>4, <2>2, Zenon DEF Signal
  <2>3. QED
    BY <2>1, <2>2
<1>5. ASSUME NEW a \in Api, Listen(a) PROVE Goal
  BY <1>5 DEF Listen
<1>6. ASSUME NEW a \in Api, ServerNext(a) PROVE Goal
  <2>1. a \in Process
    BY DEF Process
  <2>2. CASE Exit(a)
    BY <2>1, <2>2, <1>1 DEF Exit
  <2>3. CASE ~Exit(a)
    <3>1. /\ UNCHANGED <<step, schema>>
          /\ pc[a] \in Up \cup Closing
          /\ \E x \in Closing : pc' = [pc EXCEPT ![a] = x]
      BY <1>6, <2>3
      DEF ServerNext, ListenError, TakeSignal, ShutdownEnds, ShutdownTimesOut, CloseDB,
          CloseProducer, Flush, CloseRedis, Proceed, GoTo, AfterDeadline, Up, Closing
    <3>2. PastMigrations(a)
      BY <3>1, <2>1 DEF PastMigrations
    <3>3. QED
      BY <2>1, <3>2
  <2>4. QED
    BY <2>2, <2>3
<1>7. ASSUME NEW r \in Request, HandlerNext(r) PROVE Goal
  BY <1>7
  DEF HandlerNext, Accept, Insert, StartPublish, WriteEnds, Invalidate, Call
<1>8. ASSUME UNCHANGED vars PROVE Goal
  BY <1>8 DEF vars
<1>9. QED
  BY <1>2, <1>3, <1>4, <1>5, <1>6, <1>7, <1>8, Actions

LEMMA SchemaInvNext ==
  ASSUME StateTypes, SchemaInv, [Next]_vars PROVE SchemaInv'
<1> USE DEF SchemaInv, SingleCreator, FirstStep, FirstTableThere, MigratedSchema, Creating
<1>a. \A p \in Process : step[p] \in {1, 2}
  BY DEF StateTypes
<1>1. CASE UNCHANGED <<pc, step, schema>>
  BY <1>1 DEF Table
<1>2. ASSUME NEW p \in Process, Connect(p) \/ Missing(p) PROVE SchemaInv'
  <2>1. /\ UNCHANGED <<step, schema>>
        /\ \/ pc[p] = "connect" /\ pc' = [pc EXCEPT ![p] = "check"]
           \/ pc[p] = "check" /\ pc' = [pc EXCEPT ![p] = "create"]
    BY <1>2 DEF Connect, Missing, Proceed, GoTo
  <2>2. QED
    BY <2>1 DEF StateTypes, Table, Up, Closing
<1>3. ASSUME NEW p \in Process, Create(p) PROVE SchemaInv'
  <2>1. /\ UNCHANGED <<step, schema>>
        /\ pc[p] = "create" /\ pc' = [pc EXCEPT ![p] = "commit"]
        /\ Table(p) \notin schema
        /\ \A q \in Process : Creating(q) => Table(q) # Table(p)
    BY <1>3 DEF Create, NameIsFree, Proceed, GoTo
  <2>2. \A q \in Process : Table(q)' = Table(q)
    BY <2>1 DEF Table
  <2>3. SingleCreator'
    BY <2>1, <2>2 DEF StateTypes
  <2>4. (FirstStep /\ FirstTableThere /\ MigratedSchema)'
    BY <2>1 DEF StateTypes, Up, Closing
  <2>5. QED
    BY <2>3, <2>4
<1>4. ASSUME NEW p \in Process, Skip(p) \/ Commit(p) PROVE SchemaInv'
  <2>1. /\ NextMigration(p)
        /\ schema' = schema \cup {Table(p)}
        /\ pc[p] \in {"check", "commit"}
    BY <1>4 DEF Skip, Commit, Exists
  <2>2. \A q \in Process : q # p => pc'[q] = pc[q] /\ step'[q] = step[q] /\ Table(q)' = Table(q)
    BY <2>1, NextMigrationEffect DEF StateTypes, Table
  <2>3. pc'[p] # "commit" /\ pc'[p] # "connect"
    BY <2>1, NextMigrationEffect DEF StateTypes, Migrated
  <2>4. \A q \in Process : q # p /\ Creating(q) => Table(q) \notin schema'
    <3>1. CASE Commit(p)
      BY <3>1, <2>1 DEF Commit
    <3>2. CASE Skip(p)
      BY <3>2 DEF Skip
    <3>3. QED
      BY <1>4, <3>1, <3>2
  <2>5. SingleCreator'
    BY <2>2, <2>3, <2>4
  <2>6. FirstStep'
    BY <2>2, <2>3
  <2>7. \/ step[p] = 1 /\ pc'[p] = "check" /\ "users" \in schema'
        \/ step[p] = 2 /\ schema' = Tables
    <3>1. CASE step[p] = 1
      BY <3>1, <2>1, NextMigrationEffect, TableType DEF StateTypes
    <3>2. CASE step[p] = 2
      <4>1. "users" \in schema /\ Table(p) = "notifications"
        BY <3>2, <2>1, TableType
      <4>2. schema \in SUBSET {"users", "notifications"}
        BY DEF StateTypes, Tables
      <4>3. schema' = {"users", "notifications"}
        BY <2>1, <4>1, <4>2
      <4>4. QED
        BY <3>2, <4>3 DEF Tables
    <3>3. QED
      BY <3>1, <3>2, <1>a
  <2>8. step[p] = 2 => pc'[p] \notin {"check", "create", "commit"}
    BY <2>1, NextMigrationEffect DEF StateTypes, Migrated
  <2>9. schema \subseteq schema' /\ schema' \in SUBSET Tables
    BY <2>1, TableType DEF StateTypes
  <2>10. FirstTableThere'
    BY <2>2, <2>7, <2>8, <2>9
  <2>11. MigratedSchema'
    BY <2>2, <2>7, <2>9 DEF Up, Closing
  <2>12. QED
    BY <2>5, <2>6, <2>10, <2>11
<1>5. ASSUME NEW p \in Process, StartupFails(p) PROVE SchemaInv'
  <2>1. /\ pc' = [pc EXCEPT ![p] = "exited"] /\ step' = step
        /\ schema' \in {schema} \cup (IF Creating(p) THEN {schema \cup {Table(p)}} ELSE {})
    BY <1>5 DEF StartupFails, AfterStartupError, Die
  <2>2. \A q \in Process : Table(q)' = Table(q)
    BY <2>1 DEF Table
  <2>3. schema \subseteq schema' /\ schema' \in SUBSET Tables
    BY <2>1, TableType DEF StateTypes
  <2>4. SingleCreator'
    BY <2>1, <2>2 DEF StateTypes
  <2>5. QED
    BY <2>1, <2>3, <2>4 DEF StateTypes, Up, Closing
<1>6. ASSUME NEW p \in Process, Restart(p) PROVE SchemaInv'
  <2>1. /\ pc' = [pc EXCEPT ![p] = "connect"] /\ step' = [step EXCEPT ![p] = 1]
        /\ UNCHANGED schema
    BY <1>6 DEF Restart, GoTo
  <2>2. \A q \in Process : q # p => Table(q)' = Table(q)
    BY <2>1 DEF Table, StateTypes
  <2>3. SingleCreator'
    BY <2>1, <2>2 DEF StateTypes
  <2>4. QED
    BY <2>1, <2>3 DEF StateTypes, Up, Closing
<1>7. ASSUME NEW p \in Process, PastMigrations(p) PROVE SchemaInv'
  <2>1. PICK x \in Up \cup Closing \cup {"exited"} : pc' = [pc EXCEPT ![p] = x]
    BY <1>7 DEF PastMigrations
  <2>2. UNCHANGED <<step, schema>> /\ \A q \in Process : Table(q)' = Table(q)
    BY <1>7 DEF PastMigrations, Table
  <2>3. x = "exited" \/ schema = Tables
    BY <1>7, <2>1 DEF PastMigrations, StateTypes
  <2>4. QED
    BY <2>1, <2>2, <2>3 DEF StateTypes, Up, Closing
<1>8. QED
  BY <1>1, <1>2, <1>3, <1>4, <1>5, <1>6, <1>7, MainSteps

LEMMA InitTypes == Init => TypeInv /\ SchemaInv
<1> SUFFICES ASSUME Init PROVE TypeInv /\ SchemaInv
  OBVIOUS
<1>1. signalled \in [Process -> BOOLEAN]
  BY Zenon DEF Init
<1>2. StateTypes
  BY <1>1 DEF Init, StateTypes, Starting
<1>3. RequestTypes
  BY DEF Init, RequestTypes
<1>4. BoundTypes
  BY DeploymentAssumption DEF Init, BoundTypes
<1>5. SchemaInv
  BY DEF Init, SchemaInv, SingleCreator, FirstStep, FirstTableThere, MigratedSchema, Creating,
         Up, Closing
<1>6. QED
  BY <1>2, <1>3, <1>4, <1>5 DEF TypeInv

LEMMA SchemaInvariant == Spec => [](TypeInv /\ SchemaInv)
<1>1. TypeInv /\ SchemaInv /\ [Next]_vars => TypeInv' /\ SchemaInv'
  BY TypesNext, BoundTypesNext, SchemaInvNext DEF TypeInv
<1>2. QED
  BY <1>1, InitTypes, PTL DEF Spec

\* Types, and one creator of a table at a time.
THEOREM TypeCorrect == Spec => []TypeOK
<1>1. TypeInv /\ SchemaInv => TypeOK
  BY TypeParts DEF TypeInv, SchemaInv
<1>2. QED
  BY <1>1, SchemaInvariant, PTL

\* However many processes start, migrate, fail and restart together, one that
\* serves has both tables (main.go:39, worker/main.go:40).
THEOREM ServersHaveSchema == Spec => []ServesOnSchema
<1>1. TypeInv /\ SchemaInv => ServesOnSchema
  BY DEF SchemaInv, MigratedSchema, ServesOnSchema
<1>2. QED
  BY <1>1, SchemaInvariant, PTL

-----------------------------------------------------------------------------
(* Requests.                                                               *)

\* A request is at an instance exactly when it was accepted, and only then
\* can its handler meet a closed client.
Placed ==
  /\ \A r \in Request : at[r] = NoApi <=> hpc[r] = "none"
  /\ \A r \in starved : at[r] # NoApi

\* Handlers live in processes that live; those that were cut off are of a
\* process that did not end well.
HandlersLive ==
  \A r \in Request : at[r] # NoApi =>
    /\ pc[at[r]] \notin Starting
    /\ hpc[r] \in InService => pc[at[r]] # "exited"
    /\ hpc[r] = "cut" => pc[at[r]] = "exited" /\ result[at[r]] # "ok"

\* Until CloseDB nothing is closed or decided, and no handler is starved.
NothingClosed ==
  \A a \in Api : pc[a] \in Starting \cup Up \cup {"shutdown", "closeDB"} =>
    /\ open[a] = Clients /\ result[a] = "none"
    /\ \A r \in starved : at[r] # a

\* Once Shutdown has ended in time, every request of the instance is answered.
AllWereAnswered ==
  \A a \in Api : pc[a] = "closeDB" \/ result[a] = "ok" =>
    \A r \in Request : at[r] = a => hpc[r] \in {"accepted", "refused"} /\ r \notin starved

\* After Writer.Close has begun nobody enters WriteMessages,
ProducerClosed ==
  \A a \in Api : pc[a] \in {"flush", "closeRedis", "return"} => "producer" \notin open[a]

\* after it has ended nobody is inside,
Flushed ==
  \A r \in Request : at[r] # NoApi /\ pc[at[r]] \in {"closeRedis", "return"} =>
    hpc[r] # "write"

\* and who was cut off inside was killed.
TornWasKilled ==
  \A r \in torn : at[r] # NoApi /\ hpc[r] = "cut" /\ result[at[r]] = "killed"

RequestInv ==
  /\ Placed /\ HandlersLive /\ NothingClosed /\ AllWereAnswered
  /\ ProducerClosed /\ Flushed /\ TornWasKilled

\* Migrating, connecting and going up touch no request.
LEMMA RequestsAtStartup ==
  ASSUME TypeInv, RequestInv, NEW p \in Process, NEW x \in Starting \cup Up,
         pc[p] \in Starting \cup {"start"}, x \in Starting => pc[p] \in Starting,
         pc' = [pc EXCEPT ![p] = x], UNCHANGED <<result, open, handlerVars>>
  PROVE  RequestInv'
<1> USE DEF TypeInv, StateTypes, RequestTypes, RequestInv
<1>1. Placed' /\ TornWasKilled'
  BY DEF Placed, TornWasKilled
<1>2. \A q \in Process : q # p => pc'[q] = pc[q]
  OBVIOUS
<1>3. pc'[p] = x /\ x \in Starting \cup Up /\ (x \in Starting => pc[p] \in Starting)
  OBVIOUS
<1>4. HandlersLive'
  BY <1>2, <1>3 DEF HandlersLive, Placed, Starting, Up, Process
<1>5. NothingClosed'
  BY <1>2, <1>3 DEF NothingClosed, Starting, Up, Process
<1>6. AllWereAnswered'
  BY <1>2, <1>3 DEF AllWereAnswered, Starting, Up, Process
<1>7. ProducerClosed' /\ Flushed'
  BY <1>2, <1>3 DEF ProducerClosed, Flushed, Starting, Up, Process
<1>8. QED
  BY <1>1, <1>4, <1>5, <1>6, <1>7

\* The end of a process: of one that starts, of one that is killed, of an
\* instance that has closed what it owns, of a worker.
LEMMA RequestsAtEnd ==
  ASSUME TypeInv, RequestInv, NEW p \in Process, NEW status, Die(p, status),
         pc[p] # "exited",
         \/ status = "killed"
         \/ status = "error" /\ pc[p] \in Starting
         \/ status = "ok" /\ p \in WorkerProcess
         \/ status = result[p] /\ pc[p] = "return"
  PROVE  RequestInv'
<1> USE DEF TypeInv, StateTypes, RequestTypes, RequestInv
<1>1. /\ pc' = [pc EXCEPT ![p] = "exited"] /\ result' = [result EXCEPT ![p] = status]
      /\ hpc' = [r \in Request |->
                   IF at[r] = p /\ hpc[r] \in InService THEN "cut" ELSE hpc[r]]
      /\ torn' = torn \cup {r \in Request : at[r] = p /\ hpc[r] = "write"}
      /\ UNCHANGED <<open, at, starved>>
  BY DEF Die
<1>2. \A q \in Process : q # p => pc'[q] = pc[q] /\ result'[q] = result[q]
  BY <1>1
<1>3. pc'[p] = "exited" /\ result'[p] = status
  BY <1>1
<1>4. \A r \in Request : at[r] \in Api \cup {NoApi} /\ (at[r] # NoApi => at[r] \in Process)
  BY DEF Process
<1>5. Placed'
  BY <1>1 DEF Placed, InService
  \* Whoever is in service there is at an instance, and it does not end well.
<1>6. ASSUME NEW r \in Request, at[r] = p, hpc[r] \in InService
      PROVE  at[r] # NoApi /\ status # "ok" /\ (hpc[r] = "write" => status = "killed")
  <2>1. at[r] # NoApi /\ at[r] \in Api
    BY <1>6, <1>4 DEF Placed, InService
  <2>2. pc[p] \notin Starting /\ p \notin WorkerProcess
    BY <1>6, <2>1, DeploymentAssumption DEF HandlersLive
  <2>3. CASE status = result[p] /\ pc[p] = "return"
    BY <2>3, <2>1, <1>6 DEF AllWereAnswered, Flushed, InService
  <2>4. QED
    BY <2>1, <2>2, <2>3
<1>7. HandlersLive'
  <2> SUFFICES ASSUME NEW r \in Request, at[r] # NoApi
               PROVE  /\ pc'[at[r]] \notin Starting
                      /\ hpc'[r] \in InService => pc'[at[r]] # "exited"
                      /\ hpc'[r] = "cut" => pc'[at[r]] = "exited" /\ result'[at[r]] # "ok"
    BY <1>1 DEF HandlersLive
  <2>1. CASE at[r] # p
    BY <2>1, <1>1, <1>2, <1>4 DEF HandlersLive
  <2>2. CASE at[r] = p /\ hpc[r] \in InService
    BY <2>2, <1>1, <1>3, <1>6 DEF Starting, InService
  <2>3. CASE at[r] = p /\ hpc[r] \notin InService
    BY <2>3, <1>1, <1>3 DEF HandlersLive, Starting
  <2>4. QED
    BY <2>1, <2>2, <2>3
<1>8. NothingClosed'
  BY <1>1, <1>2, <1>3 DEF NothingClosed, Starting, Up, Process
<1>9. AllWereAnswered'
  <2> SUFFICES ASSUME NEW a \in Api, pc'[a] = "closeDB" \/ result'[a] = "ok",
                      NEW r \in Request, at[r] = a
               PROVE  hpc'[r] \in {"accepted", "refused"} /\ r \notin starved
    BY <1>1 DEF AllWereAnswered
  <2>1. CASE a # p
    BY <2>1, <1>1, <1>2 DEF AllWereAnswered, Process
  <2>2. CASE a = p
    <3>1. status = "ok" /\ result[a] = "ok"
      BY <2>2, <1>3, DeploymentAssumption
    <3>2. hpc[r] \in {"accepted", "refused"} /\ r \notin starved
      BY <3>1 DEF AllWereAnswered
    <3>3. QED
      BY <3>2, <1>1 DEF InService
  <2>3. QED
    BY <2>1, <2>2
<1>10. ProducerClosed'
  BY <1>1, <1>2, <1>3 DEF ProducerClosed, Process
<1>11. Flushed'
  BY <1>1, <1>2, <1>3, <1>4 DEF Flushed
<1>12. TornWasKilled'
  <2> SUFFICES ASSUME NEW r \in torn'
               PROVE  at[r] # NoApi /\ hpc'[r] = "cut" /\ result'[at[r]] = "killed"
    BY <1>1 DEF TornWasKilled
  <2>1. r \in Request
    BY <1>1
  <2>2. CASE r \in torn
    <3>1. at[r] # NoApi /\ hpc[r] = "cut" /\ result[at[r]] = "killed"
      BY <2>2 DEF TornWasKilled
    <3>2. at[r] # p
      BY <3>1, <2>1 DEF HandlersLive
    <3>3. QED
      BY <3>1, <3>2, <2>1, <1>1, <1>2, <1>4
  <2>3. CASE r \notin torn
    <3>1. at[r] = p /\ hpc[r] = "write"
      BY <2>3, <1>1
    <3>2. QED
      BY <3>1, <2>1, <1>1, <1>3, <1>6 DEF InService
  <2>4. QED
    BY <2>2, <2>3
<1>13. QED
  BY <1>5, <1>7, <1>8, <1>9, <1>10, <1>11, <1>12

\* A restart forgets the requests of the former life.
LEMMA RequestsAtRestart ==
  ASSUME TypeInv, RequestInv, NEW p \in Process, Restart(p)
  PROVE  RequestInv'
<1> USE DEF TypeInv, StateTypes, RequestTypes, RequestInv
<1> DEFINE former == {r \in Request : at[r] = p}
<1>1. /\ pc' = [pc EXCEPT ![p] = "connect"] /\ result' = [result EXCEPT ![p] = "none"]
      /\ open' = [a \in Api |-> IF a = p THEN Clients ELSE open[a]]
      /\ hpc' = [r \in Request |-> IF r \in former THEN "none" ELSE hpc[r]]
      /\ at' = [r \in Request |-> IF r \in former THEN NoApi ELSE at[r]]
      /\ starved' = starved \ former /\ torn' = torn \ former
  BY DEF Restart, GoTo
<1>2. \A q \in Process : q # p => pc'[q] = pc[q] /\ result'[q] = result[q]
  BY <1>1
<1>3. pc'[p] = "connect" /\ result'[p] = "none"
  BY <1>1
<1>4. \A r \in Request : at'[r] # NoApi =>
        /\ at'[r] = at[r] /\ hpc'[r] = hpc[r] /\ at[r] \in Api
        /\ at[r] \in Process /\ at[r] # p
  BY <1>1 DEF Process
<1>5. Placed'
  BY <1>1 DEF Placed
<1>6. HandlersLive'
  BY <1>2, <1>4 DEF HandlersLive
<1>7. NothingClosed'
  <2> SUFFICES ASSUME NEW a \in Api,
                      pc'[a] \in Starting \cup Up \cup {"shutdown", "closeDB"}
               PROVE  /\ open'[a] = Clients /\ result'[a] = "none"
                      /\ \A r \in starved' : at'[r] # a
    BY DEF NothingClosed
  <2>1. \A r \in starved' : at'[r] = at[r] /\ at[r] # p
    BY <1>1
  <2>2. CASE a = p
    BY <2>1, <2>2, <1>1, <1>3
  <2>3. CASE a # p
    BY <2>1, <2>3, <1>1, <1>2 DEF NothingClosed, Process
  <2>4. QED
    BY <2>2, <2>3
<1>8. AllWereAnswered'
  <2> SUFFICES ASSUME NEW a \in Api, pc'[a] = "closeDB" \/ result'[a] = "ok",
                      NEW r \in Request, at'[r] = a
               PROVE  hpc'[r] \in {"accepted", "refused"} /\ r \notin starved'
    BY DEF AllWereAnswered
  <2>1. at[r] = a /\ hpc'[r] = hpc[r] /\ a # p /\ a \in Process
    BY <1>4, DeploymentAssumption
  <2>2. QED
    BY <2>1, <1>1, <1>2 DEF AllWereAnswered
<1>9. ProducerClosed'
  BY <1>1, <1>2, <1>3 DEF ProducerClosed, Process
<1>10. Flushed'
  BY <1>2, <1>4 DEF Flushed
<1>11. TornWasKilled'
  <2> SUFFICES ASSUME NEW r \in torn'
               PROVE  at'[r] # NoApi /\ hpc'[r] = "cut" /\ result'[at'[r]] = "killed"
    BY DEF TornWasKilled
  <2>1. r \in Request /\ r \in torn /\ at'[r] = at[r] /\ hpc'[r] = hpc[r]
    BY <1>1
  <2>2. QED
    BY <2>1, <1>2, <1>4 DEF TornWasKilled
<1>12. QED
  BY <1>5, <1>6, <1>7, <1>8, <1>9, <1>10, <1>11

\* What an instance does from the end of serving to the last Close.
LEMMA RequestsAtStop ==
  ASSUME TypeInv, RequestInv, NEW a \in Api, ServerNext(a), ~Exit(a)
  PROVE  RequestInv'
<1> USE DEF TypeInv, StateTypes, RequestTypes, RequestInv
<1>1. UNCHANGED handlerVars
  BY DEF ServerNext, ListenError, TakeSignal, ShutdownEnds, ShutdownTimesOut, CloseDB,
         CloseProducer, Flush, CloseRedis, Proceed
<1>2. PICK from \in Up \cup Closing, to \in Closing : pc[a] = from /\ pc' = [pc EXCEPT ![a] = to]
  BY DEF ServerNext, ListenError, TakeSignal, ShutdownEnds, ShutdownTimesOut, CloseDB,
         CloseProducer, Flush, CloseRedis, Proceed, GoTo, AfterDeadline, Up, Closing
<1>3. PICK status \in {"none", "ok", "error"} :
        /\ result' = result \/ result' = [result EXCEPT ![a] = status]
        /\ \/ result' = result
           \/ status = "error" /\ to = "closeProducer"
           \/ status = "ok" /\ from = "closeDB"
  BY <1>2
  DEF ServerNext, ListenError, TakeSignal, ShutdownEnds, ShutdownTimesOut, CloseDB,
      CloseProducer, Flush, CloseRedis, Proceed, GoTo, AfterDeadline
<1>4. \A q \in Process : q # a => pc'[q] = pc[q] /\ result'[q] = result[q]
  BY <1>2, <1>3
<1>5. a \in Process /\ pc[a] = from /\ pc'[a] = to
  BY <1>2 DEF Process
<1>6. result'[a] = result[a] \/ result'[a] = status
  BY <1>3, <1>5
<1>7. \A b \in Api : b # a => open'[b] = open[b]
  BY DEF ServerNext, ListenError, TakeSignal, ShutdownEnds, ShutdownTimesOut, CloseDB,
         CloseProducer, Flush, CloseRedis, Proceed, Close
<1>8. \A r \in Request : at[r] # NoApi => at[r] \in Api /\ at[r] \in Process
  BY DEF Process
<1>9. Placed'
  BY <1>1 DEF Placed
<1>10. HandlersLive'
  BY <1>1, <1>2, <1>4, <1>5, <1>8 DEF HandlersLive, Starting, Up, Closing, InService
<1>11. NothingClosed'
  <2> SUFFICES ASSUME pc'[a] \in Starting \cup Up \cup {"shutdown", "closeDB"}
               PROVE  open'[a] = Clients /\ result'[a] = "none" /\ \A r \in starved : at[r] # a
    BY <1>1, <1>4, <1>7 DEF NothingClosed, Process
  <2>1. \/ TakeSignal(a) \/ ShutdownEnds(a)
    BY <1>5
    DEF ServerNext, ListenError, TakeSignal, ShutdownEnds, ShutdownTimesOut, CloseDB,
        CloseProducer, Flush, CloseRedis, Proceed, GoTo, AfterDeadline, Starting, Up
  <2>2. UNCHANGED <<open, result>> /\ pc[a] \in Up \cup {"shutdown"}
    BY <2>1 DEF TakeSignal, ShutdownEnds, Proceed, GoTo, Up
  <2>3. QED
    BY <2>2 DEF NothingClosed
<1>12. AllWereAnswered'
  <2> SUFFICES ASSUME pc'[a] = "closeDB" \/ result'[a] = "ok", NEW r \in Request, at[r] = a
               PROVE  hpc[r] \in {"accepted", "refused"} /\ r \notin starved
    BY <1>1, <1>4 DEF AllWereAnswered, Process
  <2>1. CASE result[a] = "ok" \/ pc[a] = "closeDB"
    BY <2>1 DEF AllWereAnswered
  <2>2. CASE result[a] # "ok" /\ pc[a] # "closeDB"
    <3>1. to = "closeDB"
      BY <2>2, <1>2, <1>3, <1>5, <1>6
    <3>2. ShutdownEnds(a)
      BY <3>1, <1>5
      DEF ServerNext, ListenError, TakeSignal, ShutdownEnds, ShutdownTimesOut, CloseDB,
          CloseProducer, Flush, CloseRedis, Proceed, GoTo, AfterDeadline
    <3>3. hpc[r] \notin InService /\ pc[a] = "shutdown"
      BY <3>2 DEF ShutdownEnds, AllAnswered, InFlight, Proceed, GoTo
    <3>4. r \notin starved
      BY <3>3 DEF NothingClosed
    <3>5. hpc[r] # "none" /\ hpc[r] # "cut"
      BY <3>3, DeploymentAssumption DEF Placed, HandlersLive
    <3>6. QED
      BY <3>3, <3>4, <3>5
  <2>3. QED
    BY <2>1, <2>2
<1>13. ProducerClosed'
  <2> SUFFICES ASSUME pc'[a] \in {"flush", "closeRedis", "return"}
               PROVE  "producer" \notin open'[a]
    BY <1>4, <1>7 DEF ProducerClosed, Process
  <2>1. CloseProducer(a) \/ Flush(a) \/ CloseRedis(a)
    BY <1>5
    DEF ServerNext, ListenError, TakeSignal, ShutdownEnds, ShutdownTimesOut, CloseDB,
        CloseProducer, Flush, CloseRedis, Proceed, GoTo, AfterDeadline
  <2>2. CASE CloseProducer(a)
    BY <2>2 DEF CloseProducer, Close
  <2>3. CASE Flush(a) \/ CloseRedis(a)
    <3>1. "producer" \notin open[a]
      BY <2>3 DEF ProducerClosed, Flush, CloseRedis, Proceed, GoTo
    <3>2. QED
      BY <2>3, <3>1 DEF Flush, CloseRedis, Proceed, Close
  <2>4. QED
    BY <2>1, <2>2, <2>3
<1>14. Flushed'
  <2> SUFFICES ASSUME NEW r \in Request, at[r] = a, pc'[a] \in {"closeRedis", "return"}
               PROVE  hpc[r] # "write"
    BY <1>1, <1>4, <1>8 DEF Flushed
  <2>1. CASE pc[a] = "flush"
    <3>1. Flush(a)
      BY <2>1
      DEF ServerNext, ListenError, TakeSignal, ShutdownEnds, ShutdownTimesOut, CloseDB,
          CloseProducer, Flush, CloseRedis, Proceed, GoTo
    <3>2. QED
      BY <3>1 DEF Flush, InFlight, InService
  <2>2. CASE pc[a] # "flush"
    <3>1. pc[a] = "closeRedis"
      BY <2>2, <1>5
      DEF ServerNext, ListenError, TakeSignal, ShutdownEnds, ShutdownTimesOut, CloseDB,
          CloseProducer, Flush, CloseRedis, Proceed, GoTo, AfterDeadline
    <3>2. QED
      BY <3>1, DeploymentAssumption DEF Flushed
  <2>3. QED
    BY <2>1, <2>2
<1>15. TornWasKilled'
  BY <1>1, <1>2, <1>4, <1>5, <1>8 DEF TornWasKilled, HandlersLive, Up, Closing
<1>16. QED
  BY <1>9, <1>10, <1>11, <1>12, <1>13, <1>14, <1>15

\* What one handler does: it goes on at its instance, or comes to one that serves.
LEMMA HandlerEffects ==
  ASSUME TypeInv, RequestInv, NEW r \in Request, HandlerNext(r)
  PROVE  /\ UNCHANGED <<pc, result, open, torn>>
         /\ \E to \in InService \cup {"accepted", "refused"} :
              /\ hpc' = [hpc EXCEPT ![r] = to]
              /\ to = "write" => "producer" \in open[at[r]]
         /\ \/ /\ hpc[r] = "none" /\ starved' = starved
               /\ \E a \in Api : pc[a] \in Up /\ at' = [at EXCEPT ![r] = a]
            \/ /\ hpc[r] \in InService /\ at' = at
               /\ \/ starved' = starved
                  \/ starved' = starved \cup {r} /\ open[at[r]] # Clients
<1>1. ASSUME NEW from \in InService, NEW client \in Clients,
             NEW next \in {"publish", "write", "accepted"},
             NEW failed \in {"refused", "accepted"}, Call(r, from, client, next, failed),
             next = "write" => client = "producer"
      PROVE  /\ \E to \in InService \cup {"accepted", "refused"} :
                  /\ hpc' = [hpc EXCEPT ![r] = to]
                  /\ to = "write" => "producer" \in open[at[r]]
             /\ hpc[r] \in InService /\ UNCHANGED <<pc, result, open, torn, at>>
             /\ \/ starved' = starved
                \/ starved' = starved \cup {r} /\ open[at[r]] # Clients
  <2>1. hpc[r] = from /\ UNCHANGED <<pc, result, open, torn, at>>
    BY <1>1 DEF Call
  <2>2. CASE client \in open[at[r]]
    BY <2>1, <2>2, <1>1 DEF Call, Handle, InService
  <2>3. CASE client \notin open[at[r]]
    BY <2>1, <2>3, <1>1 DEF Call, Handle
  <2>4. QED
    BY <2>1, <2>2, <2>3
<1>2. CASE \E a \in Api : Accept(r, a)
  BY <1>2 DEF Accept, Handle, InService
<1>3. CASE WriteEnds(r)
  BY <1>3 DEF WriteEnds, Handle, InService
<1>4. CASE Insert(r)
  BY <1>1, <1>4 DEF Insert, InService, Clients
<1>5. CASE StartPublish(r)
  BY <1>1, <1>5 DEF StartPublish, InService, Clients
<1>6. CASE Invalidate(r)
  BY <1>1, <1>6 DEF Invalidate, InService, Clients
<1>7. QED
  BY <1>2, <1>3, <1>4, <1>5, <1>6 DEF HandlerNext

LEMMA RequestsHandled ==
  ASSUME TypeInv, RequestInv, NEW r \in Request, HandlerNext(r)
  PROVE  RequestInv'
<1> USE DEF TypeInv, StateTypes, RequestTypes, RequestInv
<1>1. UNCHANGED <<pc, result, open, torn>>
  BY HandlerEffects
<1>2. PICK to \in InService \cup {"accepted", "refused"} :
        /\ hpc' = [hpc EXCEPT ![r] = to]
        /\ to = "write" => "producer" \in open[at[r]]
  BY HandlerEffects
<1>3. hpc'[r] = to /\ \A q \in Request : q # r => hpc'[q] = hpc[q]
  BY <1>2
<1>4. CASE hpc[r] = "none"
  <2>1. PICK a \in Api : pc[a] \in Up /\ at' = [at EXCEPT ![r] = a]
    BY <1>4, HandlerEffects DEF InService
  <2>2. starved' = starved /\ at[r] = NoApi /\ open[a] = Clients /\ result[a] = "none"
    BY <1>4, <2>1, HandlerEffects DEF InService, Placed, NothingClosed
  <2>3. at'[r] = a /\ \A q \in Request : q # r => at'[q] = at[q]
    BY <2>1
  <2>4. a # NoApi /\ r \notin torn
    BY <2>2, DeploymentAssumption DEF TornWasKilled
  <2>5. Placed' /\ r \notin starved
    BY <1>3, <2>2, <2>3, <2>4 DEF Placed, InService
  <2>6. HandlersLive'
    BY <1>1, <1>3, <2>1, <2>3 DEF HandlersLive, Starting, Up, InService
  <2>7. NothingClosed'
    BY <1>1, <2>2, <2>3, <2>5 DEF NothingClosed
  <2>8. AllWereAnswered'
    BY <1>1, <1>3, <2>1, <2>2, <2>3 DEF AllWereAnswered, Up
  <2>9. ProducerClosed' /\ Flushed'
    BY <1>1, <1>3, <2>1, <2>3 DEF ProducerClosed, Flushed, Up
  <2>10. TornWasKilled'
    BY <1>1, <1>3, <2>3, <2>4 DEF TornWasKilled
  <2>11. QED
    BY <2>5, <2>6, <2>7, <2>8, <2>9, <2>10
<1>5. CASE hpc[r] \in InService
  <2>1. /\ at' = at /\ at[r] # NoApi /\ at[r] \in Api
        /\ \/ starved' = starved
           \/ starved' = starved \cup {r} /\ open[at[r]] # Clients
    BY <1>5, HandlerEffects DEF InService, Placed
  <2>2. Placed'
    BY <1>2, <2>1, <1>5 DEF Placed, InService
  <2>3. HandlersLive'
    BY <1>1, <1>3, <1>5, <2>1 DEF HandlersLive, InService
  <2>4. NothingClosed'
    BY <1>1, <2>1 DEF NothingClosed
  <2>5. pc[at[r]] # "closeDB" /\ result[at[r]] # "ok"
    BY <1>5, <2>1 DEF AllWereAnswered, InService
  <2>6. AllWereAnswered'
    BY <1>1, <1>3, <2>1, <2>5 DEF AllWereAnswered
  <2>7. ProducerClosed'
    BY <1>1 DEF ProducerClosed
  <2>8. to = "write" => pc[at[r]] \notin {"closeRedis", "return"}
    BY <1>2, <2>1 DEF ProducerClosed
  <2>9. Flushed'
    BY <1>1, <1>3, <2>1, <2>8 DEF Flushed
  <2>10. TornWasKilled'
    BY <1>1, <1>3, <1>5, <2>1 DEF TornWasKilled, InService
  <2>11. QED
    BY <2>2, <2>3, <2>4, <2>6, <2>7, <2>9, <2>10
<1>6. QED
  BY <1>4, <1>5, HandlerEffects

LEMMA RequestInvNext ==
  ASSUME TypeInv, RequestInv, [Next]_vars PROVE RequestInv'
<1>1. ASSUME NEW p \in Process, StartupNext(p) PROVE RequestInv'
  <2>1. CASE CreateFails(p) \/ StartupFails(p)
    <3>1. Die(p, "error") /\ pc[p] \in Starting
      BY <2>1 DEF CreateFails, StartupFails, AfterStartupError, Starting
    <3>2. QED
      BY <3>1, RequestsAtEnd DEF Starting
  <2>2. CASE Skip(p) \/ Commit(p)
    <3>1. /\ NextMigration(p) /\ pc[p] \in Starting
          /\ UNCHANGED <<result, open, handlerVars>>
      BY <2>2 DEF Skip, Commit, Creating, Starting
    <3>2. \E x \in Starting \cup Up : pc' = [pc EXCEPT ![p] = x]
      BY <3>1, NextMigrationEffect DEF TypeInv, Migrated, Starting, Up
    <3>3. QED
      BY <3>1, <3>2, RequestsAtStartup
  <2>3. CASE Connect(p) \/ Missing(p) \/ Create(p) \/ ConnectRedis(p) \/ Notify(p)
    <3>1. UNCHANGED <<result, open, handlerVars>>
      BY <2>3 DEF Connect, Missing, Create, ConnectRedis, Notify, Proceed
    <3>2. \E x \in Starting \cup Up :
            /\ pc' = [pc EXCEPT ![p] = x]
            /\ pc[p] \in Starting \cup {"start"}
            /\ x \in Starting => pc[p] \in Starting
      BY <2>3 DEF Connect, Missing, Create, ConnectRedis, Notify, Proceed, GoTo, Starting, Up
    <3>3. QED
      BY <3>1, <3>2, RequestsAtStartup
  <2>4. QED
    BY <1>1, <2>1, <2>2, <2>3 DEF StartupNext
<1>2. ASSUME NEW p \in Process, WorkerReturns(p) \/ Crash(p) PROVE RequestInv'
  BY <1>2, RequestsAtEnd DEF WorkerReturns, Crash
<1>3. ASSUME NEW p \in Process, Signal(p) PROVE RequestInv'
  <2>1. CASE pc[p] \in Starting \cup {"start"}
    BY <1>3, <2>1, RequestsAtEnd DEF Signal
  <2>2. CASE pc[p] \notin Starting \cup {"start"}
    <3>1. UNCHANGED <<pc, open, result, handlerVars>>
      BY <1>3, <2>2, Zenon DEF Signal
    <3>2. QED
      BY <3>1 DEF RequestInv, Placed, HandlersLive, NothingClosed, AllWereAnswered,
                  ProducerClosed, Flushed, TornWasKilled
  <2>3. QED
    BY <2>1, <2>2
<1>4. ASSUME NEW a \in Api, Exit(a) PROVE RequestInv'
  <2>1. a \in Process /\ pc[a] = "return" /\ Die(a, result[a])
    BY <1>4 DEF Exit, Process
  <2>2. QED
    BY <2>1, RequestsAtEnd
<1>5. ASSUME UNCHANGED <<pc, open, result, handlerVars>> PROVE RequestInv'
  BY <1>5 DEF RequestInv, Placed, HandlersLive, NothingClosed, AllWereAnswered,
              ProducerClosed, Flushed, TornWasKilled
<1>6. ASSUME NEW a \in Api, Listen(a) PROVE RequestInv'
  BY <1>5, <1>6 DEF Listen
<1>7. UNCHANGED vars => RequestInv'
  BY <1>5 DEF vars
<1>8. QED
  BY <1>1, <1>2, <1>3, <1>4, <1>6, <1>7, Actions, RequestsAtRestart, RequestsAtStop,
     RequestsHandled

LEMMA RequestInvInit == Init => RequestInv
BY DEF Init, RequestInv, Placed, HandlersLive, NothingClosed, AllWereAnswered, ProducerClosed,
       Flushed, TornWasKilled, Process, Starting

LEMMA RequestInvariant == Spec => [](TypeInv /\ RequestInv)
<1>1. TypeInv /\ RequestInv /\ [Next]_vars => TypeInv' /\ RequestInv'
  BY TypesNext, BoundTypesNext, RequestInvNext DEF TypeInv
<1>2. QED
  BY <1>1, InitTypes, RequestInvInit, PTL DEF Spec

\* An instance that exits with status 0 has answered every request it accepted,
\* and closed no client under a handler (server.go:71-80, main.go:79-85).
THEOREM GracefulStops == Spec => []GracefulAnswersAll
<1>1. RequestInv => GracefulAnswersAll
  BY DEF RequestInv, AllWereAnswered, GracefulAnswersAll
<1>2. QED
  BY <1>1, RequestInvariant, PTL

\* A publish that the Kafka writer has begun is cut off by a kill only, even
\* when the shutdown runs out of time (main.go:80, server.go:71-73).
THEOREM PublishesEnd == Spec => []PublishNotTorn
<1>1. RequestInv => PublishNotTorn
  BY DEF RequestInv, TornWasKilled, PublishNotTorn
<1>2. QED
  BY <1>1, RequestInvariant, PTL
=============================================================================
