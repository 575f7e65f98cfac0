---------------------------- MODULE DeliveryProofs ----------------------------
(***************************************************************************)
(* What becomes of deliveries in Pool, for any number of processes,        *)
(* crashes, stops and rebalances.                                          *)
(*                                                                         *)
(* One worker goroutine per process (WORKER_CONCURRENCY = 1) delivers the  *)
(* events of a partition in order, and without database errors commits an  *)
(* offset only after the outcome is recorded.  With any number of them a   *)
(* stop, and nothing else, cuts retries short, a shutdown loses no result, *)
(* and redelivery bounds how often the provider accepts a notification.    *)
(***************************************************************************)
EXTENDS PoolProofs, FiniteSetTheorems

USE DEF brokerVars, dispatchVars, workerVars, historyVars

OneGoroutineEach == \A v, w \in Worker : ProcessOf[v] = ProcessOf[w] => v = w

-----------------------------------------------------------------------------
(* Delivery in order.                                                      *)

InHandOf(i) == {job[w] : w \in {v \in Worker : ProcessOf[v] = i}}

\* The events before the committed offset have been handled,
OrderCommitted ==
  \A p \in Partition : \A o \in 0 .. committed[p] - 1 : EventAt(p, o) \in handled

\* those before the one a goroutine works on,
OrderJob ==
  \A w \in Worker : job[w] # NoEvent =>
    \A o \in 0 .. job[w].offset - 1 : EventAt(job[w].partition, o) \in handled

\* those before the one a dispatcher holds, but for its goroutine's,
OrderHeld ==
  \A i \in Process : held[i] # NoEvent =>
    \A o \in 0 .. held[i].offset - 1 :
      EventAt(held[i].partition, o) \in handled \cup InHandOf(i)

\* and those its reader returned, but for these two.
OrderPosition ==
  \A p \in Partition, i \in Process : owner[p] = i /\ dpc[i] \in Fetching =>
    \A o \in 0 .. position[p] - 1 :
      EventAt(p, o) \in handled \cup InHandOf(i) \cup {held[i]}

Order == OrderCommitted /\ OrderJob /\ OrderHeld /\ OrderPosition

OrderInv == TypeInv /\ HandledWhenCommitting /\ Order

\* Nothing is committed, fetched or in hand at first.
LEMMA OrderInvInit == Init => OrderInv
<1> SUFFICES ASSUME Init PROVE OrderInv
  OBVIOUS
<1>1. TypeInv /\ HandledWhenCommitting
  BY AccountedInvInit DEF AccountedInv
<1>2. Order
  BY DEF Init, Order, OrderCommitted, OrderJob, OrderHeld, OrderPosition
<1>3. QED
  BY <1>1, <1>2 DEF OrderInv

\* The conjuncts of Order, step by step.
LEMMA OrderNext ==
  ASSUME OneGoroutineEach, TypeInv, HandledWhenCommitting, Order,
         handled \subseteq handled', Next
  PROVE  Order'
<1> USE PoolAssumption
    DEF Order, OrderCommitted, OrderJob, OrderHeld, OrderPosition, InHandOf
<1>a. /\ \A p \in Partition, o \in Nat : EventAt(p, o) \in Event
      /\ \A e \in Event : /\ e = EventAt(e.partition, e.offset)
                          /\ e.partition \in Partition /\ e.offset \in Nat
  BY DEF EventAt, Event
<1>b. /\ committed \in [Partition -> Nat]
      /\ position \in [Partition -> Nat]
      /\ owner \in [Partition -> Process \cup {NoProcess}]
      /\ dpc \in [Process -> Fetching \cup {"wait", "off"}]
      /\ held \in [Process -> Event \cup {NoEvent}]
      /\ job \in [Worker -> Event \cup {NoEvent}]
  BY DEF TypeInv, TypeOK
<1> HIDE DEF EventAt, Event
<1>1. CASE Quiet
  <2>1. OrderCommitted' /\ OrderJob'
    BY <1>1, <1>b DEF Quiet
  <2>2. OrderHeld'
    BY <1>1, <1>b DEF Quiet
  <2>3. OrderPosition'
    BY <1>1, <1>b DEF Quiet
  <2>4. QED
    BY <2>1, <2>2, <2>3
<1>2. CASE Rebalance
  <2>1. OrderCommitted' /\ OrderJob' /\ OrderHeld'
    BY <1>2, <1>b DEF Rebalance
  <2>2. OrderPosition'
    BY <1>2, <1>b DEF Rebalance, ResumeAt
  <2>3. QED
    BY <2>1, <2>2
<1>3. ASSUME NEW i \in Process, NEW p \in Partition, Fetch(i, p) PROVE Order'
  <2>1. /\ held[i] = NoEvent /\ owner[p] = i /\ dpc[i] \in Fetching
        /\ held' = [held EXCEPT ![i] = EventAt(p, position[p])]
        /\ position' = [position EXCEPT ![p] = @ + 1]
        /\ UNCHANGED <<committed, owner, job, handled>>
        /\ \A j \in Process : dpc'[j] \in Fetching => dpc[j] \in Fetching
    BY <1>3, <1>b DEF Fetch, EventAt, TypeInv, HeldWhenSending, Fetching
  <2>2. \A o \in 0 .. position[p] - 1 : EventAt(p, o) \in handled \cup InHandOf(i)
    <3> SUFFICES ASSUME NEW o \in 0 .. position[p] - 1
                 PROVE  EventAt(p, o) \in handled \cup InHandOf(i)
      OBVIOUS
    <3> HIDE DEF InHandOf
    <3>1. EventAt(p, o) \in handled \cup InHandOf(i) \cup {held[i]}
      BY <2>1
    <3>2. EventAt(p, o) \in Event
      BY <1>a, <1>b
    <3>3. EventAt(p, o) # NoEvent
      BY <3>2
    <3>4. QED
      BY <2>1, <3>1, <3>3
  <2>3. OrderCommitted' /\ OrderJob'
    BY <2>1, <1>b
  <2>4. OrderHeld'
    <3> SUFFICES ASSUME NEW j \in Process, held'[j] # NoEvent,
                        NEW o \in 0 .. held'[j].offset - 1
                 PROVE  EventAt(held'[j].partition, o) \in handled \cup InHandOf(j)
      BY <2>1
    <3>1. CASE j = i
      <4>1. held'[j] = EventAt(p, position[p])
        BY <2>1, <3>1, <1>b
      <4>2. held'[j].partition = p /\ held'[j].offset = position[p]
        BY <4>1 DEF EventAt
      <4>3. QED
        BY <2>2, <3>1, <4>2
    <3>2. CASE j # i
      BY <2>1, <3>2, <1>b
    <3>3. QED
      BY <3>1, <3>2
  <2>5. OrderPosition'
    <3> SUFFICES ASSUME NEW q \in Partition, NEW j \in Process,
                        owner[q] = j, dpc'[j] \in Fetching,
                        NEW o \in 0 .. position'[q] - 1
                 PROVE  EventAt(q, o) \in handled \cup InHandOf(j) \cup {held'[j]}
      BY <2>1
    <3>1. CASE q = p
      <4>1. j = i /\ position'[q] = position[p] + 1
        BY <2>1, <3>1, <1>b
      <4>2. CASE o = position[p]
        BY <2>1, <3>1, <4>1, <4>2, <1>b
      <4>3. CASE o \in 0 .. position[p] - 1
        BY <2>2, <3>1, <4>1, <4>3
      <4>4. position[p] \in Nat /\ o \in 0 .. position[p]
        BY <4>1, <1>b
      <4>5. QED
        BY <4>2, <4>3, <4>4
    <3>2. CASE q # p
      <4>1. o \in 0 .. position[q] - 1 /\ dpc[j] \in Fetching
        BY <2>1, <3>2, <1>b
      <4>2. EventAt(q, o) \in handled \cup InHandOf(j) \cup {held[j]}
        BY <4>1
      <4>3. CASE j = i
        BY <2>1, <4>2, <4>3, <1>a, <1>b
      <4>4. CASE j # i
        BY <2>1, <4>2, <4>4, <1>b
      <4>5. QED
        BY <4>3, <4>4
    <3>3. QED
      BY <3>1, <3>2
  <2>6. QED
    BY <2>3, <2>4, <2>5
<1>4. ASSUME NEW i \in Process, DropOnCancel(i) PROVE Order'
  <2>1. /\ held' = [held EXCEPT ![i] = NoEvent]
        /\ dpc' = [dpc EXCEPT ![i] = "wait"]
        /\ UNCHANGED <<committed, owner, position, job, handled>>
    BY <1>4 DEF DropOnCancel, AfterDrop
  <2>2. OrderCommitted' /\ OrderJob' /\ OrderHeld'
    BY <2>1, <1>b
  <2>3. OrderPosition'
    BY <2>1, <1>b DEF Fetching
  <2>4. QED
    BY <2>2, <2>3
<1>5. ASSUME NEW i \in Process, RunReturns(i) PROVE Order'
  <2>1. /\ owner' = WithoutMember(i)
        /\ dpc' = [dpc EXCEPT ![i] = "off"]
        /\ UNCHANGED <<committed, position, held, job, handled>>
    BY <1>5 DEF RunReturns
  <2>2. OrderCommitted' /\ OrderJob' /\ OrderHeld'
    BY <2>1, <1>b
  <2>3. OrderPosition'
    BY <2>1, <1>b DEF Fetching, WithoutMember
  <2>4. QED
    BY <2>2, <2>3
<1>6. ASSUME NEW i \in Process, Crash(i) PROVE Order'
  <2>1. /\ owner' = WithoutMember(i)
        /\ dpc' = [dpc EXCEPT ![i] = "off"]
        /\ held' = [held EXCEPT ![i] = NoEvent]
        /\ \A w \in Worker : job'[w] = IF ProcessOf[w] = i THEN NoEvent ELSE job[w]
        /\ UNCHANGED <<committed, position, handled>>
    BY <1>6 DEF Crash
  <2>2. \A j \in Process : j # i => InHandOf(j) \subseteq InHandOf(j)'
    BY <2>1
  <2>3. OrderCommitted' /\ OrderJob'
    BY <2>1, <1>b
  <2> HIDE DEF InHandOf
  <2>4. OrderHeld'
    BY <2>1, <2>2, <1>b
  <2>5. OrderPosition'
    BY <2>1, <2>2, <1>b DEF Fetching, WithoutMember
  <2>6. QED
    BY <2>3, <2>4, <2>5
<1>7. ASSUME NEW i \in Process, Start(i) PROVE Order'
  <2>1. /\ \A p \in Partition : owner[p] # i
        /\ dpc' = [dpc EXCEPT ![i] = "fetch"]
        /\ UNCHANGED <<committed, owner, position, held, job, handled>>
    BY <1>7 DEF Start, TypeInv, OffIsOver
  <2>2. OrderCommitted' /\ OrderJob' /\ OrderHeld'
    BY <2>1, <1>b
  <2>3. OrderPosition'
    BY <2>1, <1>b
  <2>4. QED
    BY <2>2, <2>3
<1>8. ASSUME NEW w \in Worker, Dispatch(w) PROVE Order'
  <2> DEFINE i == ProcessOf[w]
  <2>1. /\ i \in Process /\ held[i] \in Event /\ job[w] = NoEvent
        /\ job' = [job EXCEPT ![w] = held[i]]
        /\ held' = [held EXCEPT ![i] = NoEvent]
        /\ dpc[i] \in Fetching
        /\ \A j \in Process : dpc'[j] \in Fetching => dpc[j] \in Fetching
        /\ UNCHANGED <<committed, owner, position>>
    BY <1>8, <1>b DEF Dispatch, TypeInv, HeldWhenSending, JobWhenBusy, Fetching
  <2>2. InHandOf(i) = {NoEvent} /\ InHandOf(i)' = {held[i]}
    BY <2>1, <1>b DEF OneGoroutineEach
  <2>3. \A j \in Process : j # i => InHandOf(j)' = InHandOf(j)
    BY <2>1, <1>b
  <2> HIDE DEF InHandOf
  <2>4. \A o \in 0 .. held[i].offset - 1 : EventAt(held[i].partition, o) \in handled
    <3> SUFFICES ASSUME NEW o \in 0 .. held[i].offset - 1
                 PROVE  EventAt(held[i].partition, o) \in handled
      OBVIOUS
    <3>1. EventAt(held[i].partition, o) \in handled \cup InHandOf(i)
      BY <2>1
    <3>2. EventAt(held[i].partition, o) \in Event
      BY <2>1, <1>a
    <3>3. EventAt(held[i].partition, o) # NoEvent
      BY <3>2
    <3>4. QED
      BY <2>2, <3>1, <3>3
  <2>5. OrderCommitted'
    BY <2>1, <1>b
  <2>6. OrderJob'
    BY <2>1, <2>4, <1>b
  <2>7. OrderHeld'
    BY <2>1, <2>3, <1>b
  <2>8. OrderPosition'
    <3> SUFFICES ASSUME NEW p \in Partition, NEW j \in Process,
                        owner[p] = j, dpc[j] \in Fetching,
                        NEW o \in 0 .. position[p] - 1
                 PROVE  EventAt(p, o) \in handled' \cup InHandOf(j)' \cup {held'[j]}
      BY <2>1
    <3>1. EventAt(p, o) \in handled \cup InHandOf(j) \cup {held[j]}
      OBVIOUS
    <3>2. EventAt(p, o) \in Event
      BY <1>a, <1>b
    <3>3. CASE j = i
      BY <2>2, <3>1, <3>2, <3>3
    <3>4. CASE j # i
      BY <2>1, <2>3, <3>1, <3>4, <1>b
    <3>5. QED
      BY <3>3, <3>4
  <2>9. QED
    BY <2>5, <2>6, <2>7, <2>8
<1>9. ASSUME NEW w \in Worker, CommitSucceeds(w) \/ CommitFails(w) PROVE Order'
  <2>1. /\ job[w] \in Event /\ job[w] \in handled
        /\ job' = [job EXCEPT ![w] = NoEvent]
        /\ UNCHANGED <<owner, position, dpc, held, handled>>
        /\ \/ committed' = committed
           \/ committed' = [committed EXCEPT ![job[w].partition] = job[w].offset + 1]
    BY <1>9, <1>b
       DEF CommitSucceeds, CommitFails, Release, HandledWhenCommitting, Committing,
           TypeInv, JobWhenBusy
  <2>2. \A j \in Process : InHandOf(j) \subseteq InHandOf(j)' \cup handled
    BY <2>1, <1>b
  <2>3. OrderJob'
    BY <2>1, <1>b
  <2> DEFINE q == job[w].partition
             n == job[w].offset
  <2>4. q \in Partition /\ n \in Nat /\ job[w] = EventAt(q, n)
    BY <2>1, <1>a
  <2>5. \A o \in 0 .. n : EventAt(q, o) \in handled
    <3> SUFFICES ASSUME NEW o \in 0 .. n PROVE EventAt(q, o) \in handled
      OBVIOUS
    <3>1. CASE o = n
      BY <2>1, <2>4, <3>1
    <3>2. CASE o \in 0 .. n - 1
      BY <2>1, <3>2, <1>b
    <3>3. QED
      BY <2>4, <3>1, <3>2
  <2>6. OrderCommitted'
    <3> HIDE DEF q, n
    <3>1. \/ committed' = committed
          \/ committed' = [committed EXCEPT ![q] = n + 1]
      BY <2>1 DEF q, n
    <3>2. SUFFICES ASSUME NEW p \in Partition, NEW o \in 0 .. committed'[p] - 1
                   PROVE  EventAt(p, o) \in handled
      BY <2>1
    <3>3. CASE o \in 0 .. committed[p] - 1
      BY <3>3
    <3>4. CASE p = q /\ committed'[p] = n + 1
      <4>1. o \in 0 .. n
        BY <2>4, <3>4
      <4>2. QED
        BY <2>5, <3>4, <4>1
    <3>5. QED
      BY <2>4, <3>1, <3>3, <3>4, <1>b
  <2> HIDE DEF InHandOf
  <2>7. OrderHeld'
    BY <2>1, <2>2, <1>b
  <2>8. OrderPosition'
    BY <2>1, <2>2, <1>b
  <2>9. QED
    BY <2>3, <2>6, <2>7, <2>8
<1>10. QED
  BY <1>1, <1>2, <1>3, <1>4, <1>5, <1>6, <1>7, <1>8, <1>9, LoudSteps

\* Every step keeps the invariant.
LEMMA OrderInvNext ==
  ASSUME OneGoroutineEach PROVE OrderInv /\ [Next]_vars => OrderInv'
<1> SUFFICES ASSUME OrderInv, [Next]_vars PROVE OrderInv'
  OBVIOUS
<1> USE DEF OrderInv
<1>1. TypeInv'
  BY TypeInvNext
<1>2. HandledWhenCommitting'
  BY HandledNext
<1>3. CASE UNCHANGED vars
  BY <1>1, <1>2, <1>3
     DEF vars, Order, OrderCommitted, OrderJob, OrderHeld, OrderPosition, InHandOf
<1>4. CASE Next
  BY <1>1, <1>2, <1>4, HistoryGrows, OrderNext
<1>5. QED
  BY <1>3, <1>4

\* With one goroutine per process a user's notifications are delivered in
\* order (producer.go:32-33): when an event is sent, every earlier event of its
\* partition has been handled, by whichever process and generation.
THEOREM InOrder ==
  ASSUME OneGoroutineEach PROVE Spec => []DeliveredInOrder
<1>1. OrderInv => DeliveredInOrder
  <2> SUFFICES ASSUME OrderInv, NEW w \in Worker, wpc[w] = "sending"
               PROVE  \A o \in 0 .. job[w].offset - 1 :
                        EventAt(job[w].partition, o) \in handled
    BY DEF DeliveredInOrder
  <2>1. job[w] # NoEvent
    BY DEF OrderInv, TypeInv, JobWhenBusy
  <2>2. QED
    BY <2>1 DEF OrderInv, Order, OrderJob
<1>2. OrderInv /\ [Next]_vars => OrderInv'
  BY OrderInvNext
<1>3. QED
  BY <1>1, <1>2, OrderInvInit, PTL DEF Spec
-----------------------------------------------------------------------------
(* Commit after record.                                                    *)

NoDatabaseErrors == Budget["db"] = 0

\* What has been handled has its outcome in the database.
HandledRecorded ==
  \A e \in handled : e \in Logged /\ Terminal(Record(e))

PersistInv ==
  TruthInv /\ OrderInv /\ budget["db"] = 0 /\ HandledRecorded

\* Without database errors to begin with there are none later.
LEMMA NoErrorsStay ==
  ASSUME TypeInv, [Next]_vars, budget["db"] = 0 PROVE budget'["db"] = 0
<1>a. budget \in [Fault -> Nat]
  BY DEF TypeInv, TypeOK
<1>1. ASSUME NEW f \in Fault, Spend(f) PROVE budget'["db"] = 0
  BY <1>1, <1>a DEF Spend, Fault
<1>2. CASE EnvironmentNext
  BY <1>2, <1>1 DEF EnvironmentNext, Enqueue, Republish, PublishPoison, Rebalance,
                    Fault
<1>3. ASSUME NEW i \in Process, DispatcherNext(i) \/ ProcessNext(i)
      PROVE  budget'["db"] = 0
  BY <1>3, <1>1 DEF DispatcherNext, Fetch, FetchFails, PauseEnds, FetchCancelled,
                    DropOnCancel, RunReturns, ProcessNext, Stop, Crash, Start, Fault
<1>4. ASSUME NEW w \in Worker, WorkerNext(w) PROVE budget'["db"] = 0
  BY <1>4, <1>1 DEF WorkerNext, Dispatch, StartAttempt, AttemptCancelled,
                    SendAccepted, SendFails, BackoffEnds, BackoffCancelled, MarkSent,
                    MarkFailed, MarkFails, StartCommit, CommitSucceeds, CommitFails,
                    WorkerExits, Fault
<1>5. CASE UNCHANGED vars
  BY <1>5 DEF vars
<1>6. QED
  BY <1>2, <1>3, <1>4, <1>5 DEF Next, Idle

\* Recording an outcome makes one row terminal, and leaves the others alone.
LEMMA OutcomeRecorded ==
  ASSUME rows \in [Notification -> Row],
         NEW w \in Worker, MarkSent(w) \/ MarkFailed(w),
         NEW m \in Notification
  PROVE  \/ rows'[m].status \in {"sent", "failed"}
         \/ m # Record(job[w]) /\ rows'[m] = rows[m]
<1> DEFINE r == Record(job[w])
<1>1. CASE MarkSent(w)
  <2>1. rows' = [rows EXCEPT ![r] = [status |-> "sent", attempts |-> attempt[w],
                                     sentAt |-> TRUE]]
    BY <1>1 DEF MarkSent
  <2> HIDE DEF r
  <2>2. m # r => rows'[m] = rows[m]
    BY <2>1
  <2>3. m = r => rows'[m].status = "sent"
    BY <2>1
  <2>4. QED
    BY <2>2, <2>3 DEF r
<1>2. CASE MarkFailed(w)
  <2>1. rows' = [rows EXCEPT ![r] = [rows[r] EXCEPT !.status = "failed",
                                                    !.attempts = attempt[w]]]
    BY <1>2 DEF MarkFailed
  <2> HIDE DEF r
  <2>2. m # r => rows'[m] = rows[m]
    BY <2>1
  <2>3. m = r => rows'[m].status = "failed"
    BY <2>1 DEF Row
  <2>4. QED
    BY <2>2, <2>3 DEF r
<1>3. QED
  BY <1>1, <1>2

\* A terminal row stays terminal.
LEMMA TerminalStays ==
  ASSUME TruthInv, [Next]_vars,
         NEW m \in Notification \cup {Poison}, Terminal(m)
  PROVE  Terminal(m)'
<1>a. rows \in [Notification -> Row]
  BY DEF TruthInv, TypeInv, TypeOK
<1> USE DEF Terminal
<1>1. CASE m = Poison
  BY <1>1
<1>2. ASSUME m \in Notification, rows[m].status \in {"sent", "failed"}
      PROVE  rows'[m].status \in {"sent", "failed"}
  <2>1. CASE UNCHANGED rows
    BY <2>1, <1>2
  <2>2. ASSUME NEW n \in Notification, Enqueue(n)
        PROVE  rows'[m].status \in {"sent", "failed"}
    BY <2>2, <1>2, <1>a DEF Enqueue
  <2>3. ASSUME NEW w \in Worker, MarkSent(w) \/ MarkFailed(w)
        PROVE  rows'[m].status \in {"sent", "failed"}
    BY <2>3, <1>2, <1>a, OutcomeRecorded
  <2>4. ASSUME NEW n \in Notification, Republish(n) PROVE UNCHANGED rows
    BY <2>4 DEF Republish
  <2>5. ASSUME NEW p \in Partition, PublishPoison(p) PROVE UNCHANGED rows
    BY <2>5 DEF PublishPoison
  <2>6. ASSUME NEW w \in Worker, SendAccepted(w) PROVE UNCHANGED rows
    BY <2>6 DEF SendAccepted
  <2>7. QED
    BY <2>1, <2>2, <2>3, <2>4, <2>5, <2>6, Writers DEF vars
<1>3. QED
  BY <1>1, <1>2

\* An event becomes handled when its outcome is recorded, or was never due.
LEMMA HandledSource ==
  ASSUME TypeInv, budget["db"] = 0, [Next]_vars,
         NEW e \in handled', e \notin handled
  PROVE  \E w \in Worker :
           \/ e = job[w] /\ (MarkSent(w) \/ MarkFailed(w))
           \/ e = held[ProcessOf[w]] /\ Record(e) = Poison /\ Dispatch(w)
<1>1. CASE UNCHANGED vars \/ Idle
  BY <1>1 DEF vars, Idle
<1>2. CASE EnvironmentNext
  BY <1>2 DEF EnvironmentNext, Enqueue, Republish, PublishPoison, Rebalance
<1>3. ASSUME NEW i \in Process, DispatcherNext(i) \/ ProcessNext(i)
      PROVE  UNCHANGED handled
  BY <1>3 DEF DispatcherNext, Fetch, FetchFails, PauseEnds, FetchCancelled,
              DropOnCancel, RunReturns, ProcessNext, Stop, Crash, Start
<1>4. ASSUME NEW w \in Worker, WorkerNext(w)
      PROVE  \/ UNCHANGED handled
             \/ handled' = handled \cup {job[w]} /\ (MarkSent(w) \/ MarkFailed(w))
             \/ /\ handled' = handled \cup {held[ProcessOf[w]]}
                /\ Record(held[ProcessOf[w]]) = Poison
                /\ Dispatch(w)
  <2>1. CASE Dispatch(w)
    BY <2>1 DEF Dispatch
  <2>2. CASE MarkSent(w) \/ MarkFailed(w)
    BY <2>2 DEF MarkSent, MarkFailed
  <2>3. ~ MarkFails(w)
    BY DEF MarkFails, Spend, TypeInv, TypeOK, Fault
  <2>4. CASE \/ StartAttempt(w) \/ AttemptCancelled(w)
             \/ SendAccepted(w) \/ SendFails(w)
             \/ BackoffEnds(w) \/ BackoffCancelled(w) \/ StartCommit(w)
             \/ CommitSucceeds(w) \/ CommitFails(w) \/ WorkerExits(w)
    BY <2>4 DEF StartAttempt, AttemptCancelled, SendAccepted, SendFails,
                BackoffEnds, BackoffCancelled, StartCommit, CommitSucceeds,
                CommitFails, WorkerExits
  <2>5. QED
    BY <1>4, <2>1, <2>2, <2>3, <2>4 DEF WorkerNext
<1>5. QED
  BY <1>1, <1>2, <1>3, <1>4 DEF Next

\* So every handled event keeps its recorded outcome, and a new one has one.
LEMMA HandledRecordedNext ==
  ASSUME PersistInv, [Next]_vars, TypeInv', Grows PROVE HandledRecorded'
<1> SUFFICES ASSUME NEW e \in handled'
             PROVE  e \in Logged' /\ Terminal(Record(e))'
  BY DEF HandledRecorded
<1>a. /\ TruthInv /\ TypeInv /\ HandledRecorded /\ budget["db"] = 0
      /\ log \in [Partition -> Seq(Notification \cup {Poison})]
      /\ rows \in [Notification -> Row]
  BY DEF PersistInv, TruthInv, TypeInv, TypeOK
<1>b. ASSUME e \in Logged
      PROVE  /\ e \in Logged' /\ Record(e)' = Record(e)
             /\ Record(e) \in Notification \cup {Poison}
  <2>1. /\ e.partition \in Partition
        /\ e.offset + 1 \in 1 .. Len(log[e.partition])
    BY <1>b, <1>a DEF Logged, Event
  <2>2. Record(e) \in Notification \cup {Poison}
    BY <2>1, <1>a DEF Record
  <2>3. QED
    BY <1>a, <1>b, <2>2, LoggedStays DEF Record
<1>1. CASE e \in handled
  <2>1. e \in Logged /\ Terminal(Record(e))
    BY <1>1, <1>a DEF HandledRecorded
  <2> DEFINE m == Record(e)
  <2>2. m \in Notification \cup {Poison} /\ Terminal(m)
    BY <2>1, <1>b
  <2>3. Record(e)' = m /\ e \in Logged'
    BY <2>1, <1>b
  <2>4. QED
    BY <2>2, <2>3, <1>a, TerminalStays DEF Terminal
<1>2. ASSUME NEW w \in Worker, e = job[w], MarkSent(w) \/ MarkFailed(w)
      PROVE  e \in Logged' /\ Terminal(Record(e))'
  <2>1. e \in Logged /\ Record(e) \in Notification
    BY <1>2, <1>a, DeliveringKnown DEF MarkSent, MarkFailed, GoTo, Delivering, Known
  <2>2. rows'[Record(e)].status \in {"sent", "failed"}
    BY <1>2, <2>1, <1>a, OutcomeRecorded
  <2>3. QED
    BY <2>1, <2>2, <1>b DEF Terminal
<1>3. ASSUME NEW w \in Worker, e = held[ProcessOf[w]], Record(e) = Poison, Dispatch(w)
      PROVE  e \in Logged' /\ Terminal(Record(e))'
  <2>1. e \in Logged
    BY <1>3, <1>a, PoolAssumption
       DEF Dispatch, TypeInv, HeldWhenSending, TruthInv, InHandIsLogged
  <2>2. QED
    BY <1>3, <2>1, <1>b DEF Terminal
<1>4. QED
  BY <1>1, <1>2, <1>3, <1>a, HandledSource

\* Without database errors an offset is committed only after the outcomes of
\* all the events below it are in the database (README.md:205-206), if each
\* process has one worker goroutine.
THEOREM CommitAfterRecord ==
  ASSUME OneGoroutineEach, NoDatabaseErrors
  PROVE  Spec => []CommittedPersisted
<1>1. Init => PersistInv
  BY TruthInvInit, OrderInvInit DEF PersistInv, HandledRecorded, Init, NoDatabaseErrors
<1>2. PersistInv /\ [Next]_vars => PersistInv'
  <2> SUFFICES ASSUME PersistInv, [Next]_vars PROVE PersistInv'
    OBVIOUS
  <2>1. TruthInv' /\ OrderInv' /\ Grows
    BY TruthInvNext, OrderInvNext, GrowsNext DEF PersistInv
  <2>2. budget'["db"] = 0
    BY NoErrorsStay DEF PersistInv, TruthInv
  <2>3. HandledRecorded'
    BY <2>1, HandledRecordedNext DEF TruthInv
  <2>4. QED
    BY <2>1, <2>2, <2>3 DEF PersistInv
<1>3. PersistInv => CommittedPersisted
  <2> SUFFICES ASSUME PersistInv, NEW p \in Partition, NEW o \in 0 .. committed[p] - 1
               PROVE  Terminal(log[p][o + 1])
    BY DEF CommittedPersisted
  <2>1. EventAt(p, o) \in handled
    BY DEF PersistInv, OrderInv, Order, OrderCommitted
  <2>2. Terminal(Record(EventAt(p, o)))
    BY <2>1 DEF PersistInv, HandledRecorded
  <2>3. QED
    BY <2>2 DEF Record, EventAt
<1>4. QED
  BY <1>1, <1>2, <1>3, PTL DEF Spec

-----------------------------------------------------------------------------
(* Faults.                                                                 *)

WithinBudget == \A f \in Fault : budget[f] <= Budget[f]

\* What is spent stays spent.
LEMMA BudgetFalls ==
  ASSUME TypeInv, [Next]_vars PROVE \A f \in Fault : budget'[f] <= budget[f]
<1>a. budget \in [Fault -> Nat]
  BY DEF TypeInv, TypeOK
<1> DEFINE Spends == UNCHANGED budget \/ \E f \in Fault : Spend(f)
<1>1. ASSUME EnvironmentNext PROVE Spends
  BY <1>1 DEF EnvironmentNext, Enqueue, Republish, PublishPoison, Rebalance, Fault
<1>2. ASSUME NEW i \in Process, DispatcherNext(i) \/ ProcessNext(i) PROVE Spends
  BY <1>2 DEF DispatcherNext, Fetch, FetchFails, PauseEnds, FetchCancelled,
              DropOnCancel, RunReturns, ProcessNext, Stop, Crash, Start, Fault
<1>3. ASSUME NEW w \in Worker, WorkerNext(w) PROVE Spends
  BY <1>3
     DEF WorkerNext, Dispatch, StartAttempt, AttemptCancelled, SendAccepted,
         SendFails, BackoffEnds, BackoffCancelled, MarkSent, MarkFailed, MarkFails,
         StartCommit, CommitSucceeds, CommitFails, WorkerExits, Fault
<1>4. Spends
  BY <1>1, <1>2, <1>3 DEF Next, Idle, vars
<1> HIDE DEF Spends
<1>5. QED
  BY <1>4, <1>a DEF Spends, Spend

\* So a budget that is untouched after a step was untouched before it.
LEMMA BudgetKept ==
  ASSUME TypeInv, WithinBudget, [Next]_vars
  PROVE  /\ WithinBudget'
         /\ \A f \in Fault : budget'[f] = Budget[f] => budget[f] = Budget[f]
         /\ \A f \in Fault : budget[f] < Budget[f] => budget'[f] < Budget[f]
         /\ \A f \in Fault : Spend(f) => budget'[f] < Budget[f]
<1>1. /\ \A f \in Fault : /\ budget[f] \in Nat /\ budget'[f] \in Nat
                          /\ Budget[f] \in Nat
      /\ budget \in [Fault -> Nat]
  BY TypeInvNext, PoolAssumption DEF TypeInv, TypeOK
<1>2. \A f \in Fault : budget'[f] <= budget[f] /\ budget[f] <= Budget[f]
  BY BudgetFalls DEF WithinBudget
<1>3. \A f \in Fault : Spend(f) => budget'[f] < budget[f]
  BY <1>1 DEF Spend
<1>4. QED
  BY <1>1, <1>2, <1>3 DEF WithinBudget

-----------------------------------------------------------------------------
(* Retries cut short.                                                      *)

StopSpent == budget["stop"] < Budget["stop"]

\* Before anybody has been told to stop, giving up takes all attempts.
NobodyHurries ==
  /\ \A i \in Process : ~cancelled[i]
  /\ \A w \in Worker : wpc[w] = "markFailed" => attempt[w] > MaxRetries
  /\ \A n \in Notification :
       rows[n].status = "failed" => rows[n].attempts > MaxRetries

StopInv == WithinBudget /\ (StopSpent \/ NobodyHurries)

\* A row is marked failed with the attempts of the goroutine that marks it.
LEMMA FailedRowSource ==
  ASSUME TruthInv, [Next]_vars, NEW n \in Notification, rows'[n].status = "failed"
  PROVE  \/ rows[n].status = "failed" /\ rows'[n].attempts = rows[n].attempts
         \/ \E w \in Worker : wpc[w] = "markFailed" /\ rows'[n].attempts = attempt[w]
<1>a. rows \in [Notification -> Row]
  BY DEF TruthInv, TypeInv, TypeOK
<1>1. CASE UNCHANGED rows
  BY <1>1
<1>2. ASSUME NEW m \in Notification, Enqueue(m)
      PROVE  rows[n].status = "failed" /\ rows'[n].attempts = rows[n].attempts
  BY <1>2, <1>a DEF Enqueue, Row
<1>3. ASSUME NEW w \in Worker, MarkSent(w)
      PROVE  rows[n].status = "failed" /\ rows'[n].attempts = rows[n].attempts
  <2>1. PICK m \in Notification, a \in Nat :
          rows' = [rows EXCEPT ![m] = [status |-> "sent", attempts |-> a,
                                       sentAt |-> TRUE]]
    BY <1>3, WriterEffects DEF Known
  <2>2. QED
    BY <2>1, <1>a DEF Row
<1>4. ASSUME NEW w \in Worker, MarkFailed(w)
      PROVE  \/ rows[n].status = "failed" /\ rows'[n].attempts = rows[n].attempts
             \/ wpc[w] = "markFailed" /\ rows'[n].attempts = attempt[w]
  <2> DEFINE r == Record(job[w])
             a == attempt[w]
  <2>1. /\ wpc[w] = "markFailed"
        /\ rows' = [rows EXCEPT ![r] =
                      [@ EXCEPT !.status = "failed", !.attempts = a]]
    BY <1>4 DEF MarkFailed, GoTo
  <2> HIDE DEF r, a
  <2>2. CASE n = r
    BY <2>1, <2>2, <1>a DEF Row, a
  <2>3. CASE n # r
    BY <2>1, <2>3, <1>a
  <2>4. QED
    BY <2>2, <2>3
<1>5. UNCHANGED rows \/ \E m \in Notification : Enqueue(m)
        \/ \E w \in Worker : MarkSent(w) \/ MarkFailed(w)
  BY Writers DEF vars, Republish, PublishPoison, SendAccepted
<1>6. QED
  BY <1>1, <1>2, <1>3, <1>4, <1>5

\* A goroutine gives up after its last attempt, or because ctx is done.
LEMMA GivingUpSource ==
  ASSUME TypeInv, [Next]_vars, NEW v \in Worker, wpc'[v] = "markFailed"
  PROVE  \/ wpc[v] = "markFailed" /\ attempt'[v] = attempt[v]
         \/ attempt'[v] > MaxRetries
         \/ cancelled[ProcessOf[v]]
<1>a. /\ wpc \in [Worker -> {"idle", "exited"} \cup Delivering \cup Committing]
      /\ attempt \in [Worker -> 0 .. MaxRetries + 1] /\ MaxRetries \in Nat
  BY PoolAssumption DEF TypeInv, TypeOK
<1>1. CASE UNCHANGED vars
  BY <1>1 DEF vars
<1>2. CASE EnvironmentNext
  BY <1>2 DEF EnvironmentNext, Enqueue, Republish, PublishPoison, Rebalance
<1>3. ASSUME NEW i \in Process, DispatcherNext(i) PROVE UNCHANGED <<wpc, attempt>>
  BY <1>3 DEF DispatcherNext, Fetch, FetchFails, PauseEnds, FetchCancelled,
              DropOnCancel, RunReturns
<1>4. ASSUME NEW i \in Process, ProcessNext(i)
      PROVE  wpc[v] = "markFailed" /\ attempt'[v] = attempt[v]
  BY <1>4, <1>a DEF ProcessNext, Stop, Crash, Start
<1>5. ASSUME NEW w \in Worker, WorkerNext(w)
      PROVE  \/ wpc[v] = "markFailed" /\ attempt'[v] = attempt[v]
             \/ attempt'[v] > MaxRetries
             \/ cancelled[ProcessOf[v]]
  <2>1. CASE SendFails(w)
    BY <2>1, <1>a DEF SendFails, GoTo, AfterFailure, MayRetry
  <2>2. CASE AttemptCancelled(w) \/ BackoffCancelled(w)
    BY <2>2, <1>a DEF AttemptCancelled, BackoffCancelled, GoTo
  <2>3. CASE \/ Dispatch(w) \/ StartAttempt(w) \/ SendAccepted(w)
             \/ BackoffEnds(w) \/ MarkSent(w) \/ MarkFailed(w) \/ MarkFails(w)
    BY <2>3, <1>a
       DEF Dispatch, StartAttempt, SendAccepted, AfterSuccess, BackoffEnds,
           MarkSent, MarkFailed, MarkFails, GoTo
  <2>4. CASE \/ StartCommit(w) \/ CommitSucceeds(w) \/ CommitFails(w)
             \/ WorkerExits(w)
    BY <2>4, <1>a
       DEF StartCommit, CommitSucceeds, CommitFails, WorkerExits, GoTo, Release,
           AfterCommitError
  <2>5. QED
    BY <1>5, <2>1, <2>2, <2>3, <2>4 DEF WorkerNext
<1>6. QED
  BY <1>1, <1>2, <1>3, <1>4, <1>5 DEF Next, Idle

\* Only Stop cancels.
LEMMA CancelSource ==
  ASSUME TypeInv, [Next]_vars, \A i \in Process : ~Stop(i),
         \A i \in Process : ~cancelled[i]
  PROVE  \A i \in Process : ~cancelled'[i]
<1>a. cancelled \in [Process -> BOOLEAN]
  BY DEF TypeInv, TypeOK
<1>1. CASE UNCHANGED vars
  BY <1>1 DEF vars
<1>2. CASE EnvironmentNext
  BY <1>2 DEF EnvironmentNext, Enqueue, Republish, PublishPoison, Rebalance
<1>3. ASSUME NEW i \in Process, DispatcherNext(i)
      PROVE  UNCHANGED cancelled \/ cancelled' = [cancelled EXCEPT ![i] = FALSE]
  BY <1>3 DEF DispatcherNext, Fetch, FetchFails, PauseEnds, FetchCancelled,
              DropOnCancel, RunReturns
<1>4. ASSUME NEW i \in Process, ProcessNext(i)
      PROVE  UNCHANGED cancelled \/ cancelled' = [cancelled EXCEPT ![i] = FALSE]
  BY <1>4 DEF ProcessNext, Crash, Start
<1>5. ASSUME NEW w \in Worker, WorkerNext(w) PROVE UNCHANGED cancelled
  BY <1>5 DEF WorkerNext, Dispatch, StartAttempt, AttemptCancelled, SendAccepted,
              SendFails, BackoffEnds, BackoffCancelled, MarkSent, MarkFailed,
              MarkFails, StartCommit, CommitSucceeds, CommitFails, WorkerExits
<1>6. ASSUME NEW i \in Process, cancelled' = [cancelled EXCEPT ![i] = FALSE]
      PROVE  \A k \in Process : ~cancelled'[k]
  BY <1>6, <1>a
<1>7. QED
  BY <1>1, <1>2, <1>3, <1>4, <1>5, <1>6 DEF Next, Idle

\* Every step keeps it.
LEMMA StopInvNext == TruthInv /\ StopInv /\ [Next]_vars => StopInv'
<1> SUFFICES ASSUME TruthInv, StopInv, [Next]_vars PROVE StopInv'
  OBVIOUS
<1>a. TypeInv /\ WithinBudget' /\ "stop" \in Fault
  BY BudgetKept DEF TruthInv, StopInv, Fault
<1>1. CASE StopSpent \/ \E i \in Process : Stop(i)
  <2>1. StopSpent'
    BY <1>1, <1>a, BudgetKept DEF StopInv, StopSpent, Stop
  <2>2. QED
    BY <2>1, <1>a DEF StopInv
<1>2. CASE NobodyHurries /\ \A i \in Process : ~Stop(i)
  <2>1. \A i \in Process : ~cancelled'[i]
    BY <1>2, <1>a, CancelSource DEF NobodyHurries
  <2>2. \A v \in Worker : wpc'[v] = "markFailed" => attempt'[v] > MaxRetries
    BY <1>2, <1>a, GivingUpSource, PoolAssumption DEF NobodyHurries
  <2>3. \A n \in Notification :
          rows'[n].status = "failed" => rows'[n].attempts > MaxRetries
    BY <1>2, FailedRowSource DEF NobodyHurries
  <2>4. QED
    BY <2>1, <2>2, <2>3, <1>a DEF StopInv, NobodyHurries
<1>3. QED
  BY <1>1, <1>2 DEF StopInv

\* A notification is given up with fewer attempts than configured only if some
\* process has been told to stop (pool.go:145, 159).
THEOREM ShortFailuresExplained == Spec => []ShortFailureNeedsStop
<1>1. Init => StopInv
  BY PoolAssumption DEF Init, StopInv, WithinBudget, NobodyHurries
<1>2. TruthInv /\ StopInv => ShortFailureNeedsStop
  <2> SUFFICES ASSUME TruthInv, StopInv, NEW n \in Notification,
                      rows[n].status = "failed", rows[n].attempts <= MaxRetries
               PROVE  StopSpent
    BY DEF ShortFailureNeedsStop, StopSpent
  <2>1. rows[n].attempts \in Nat /\ MaxRetries \in Nat
    BY PoolAssumption DEF TruthInv, TypeInv, TypeOK, Row
  <2>2. rows[n].attempts > MaxRetries => ~(rows[n].attempts <= MaxRetries)
    BY <2>1
  <2>3. QED
    BY <2>2 DEF StopInv, NobodyHurries
<1>3. QED
  BY <1>1, <1>2, StopInvNext, TruthInvariant, PTL DEF Spec

-----------------------------------------------------------------------------
(* Results.                                                                *)

\* No process has crashed and no UPDATE has failed.
Orderly == budget["crash"] = Budget["crash"] /\ budget["db"] = Budget["db"]

\* An acceptance is recorded, or in the hands of a goroutine about to do so.
AcceptanceKept ==
  \A n \in Notification : accepts[n] > 0 =>
    Terminal(n) \/ \E w \in Worker : wpc[w] = "markSent" /\ Record(job[w]) = n

ReturnInv == WithinBudget /\ (Orderly => AcceptanceKept)

\* An acceptance comes from Send.
LEMMA AcceptanceSource ==
  ASSUME TruthInv, [Next]_vars, NEW n \in Notification, accepts'[n] > 0
  PROVE  \/ accepts[n] > 0
         \/ \E w \in Worker : SendAccepted(w) /\ Record(job[w]) = n
<1>a. accepts \in [Notification -> Nat]
  BY DEF TruthInv, TypeInv, TypeOK
<1>1. CASE UNCHANGED accepts
  BY <1>1
<1>2. ASSUME NEW w \in Worker, SendAccepted(w)
      PROVE  accepts[n] > 0 \/ Record(job[w]) = n
  <2>1. PICK m \in Notification : /\ m = Record(job[w])
                                  /\ accepts' = [accepts EXCEPT ![m] = @ + 1]
    BY <1>2, WriterEffects DEF Known
  <2>2. QED
    BY <2>1, <1>a
<1>3. UNCHANGED accepts \/ \E w \in Worker : SendAccepted(w)
  BY Writers DEF vars, Enqueue, Republish, PublishPoison, MarkSent, MarkFailed
<1>4. QED
  BY <1>1, <1>2, <1>3

\* A goroutine about to record a success does, unless a fault prevents it.
LEMMA MarkingStays ==
  ASSUME TruthInv, [Next]_vars, NEW v \in Worker, wpc[v] = "markSent"
  PROVE  \/ wpc'[v] = "markSent" /\ job'[v] = job[v]
         \/ MarkSent(v)
         \/ Spend("db") \/ Spend("crash")
<1>a. /\ wpc \in [Worker -> {"idle", "exited"} \cup Delivering \cup Committing]
      /\ job \in [Worker -> Event \cup {NoEvent}]
      /\ \A i \in Process : dpc[i] = "off" =>
           \A w \in Worker : ProcessOf[w] = i => wpc[w] = "exited"
  BY DEF TruthInv, TypeInv, TypeOK, OffIsOver
<1>1. CASE UNCHANGED vars
  BY <1>1 DEF vars
<1>2. CASE EnvironmentNext
  BY <1>2 DEF EnvironmentNext, Enqueue, Republish, PublishPoison, Rebalance
<1>3. ASSUME NEW i \in Process, DispatcherNext(i) PROVE UNCHANGED <<wpc, job>>
  BY <1>3 DEF DispatcherNext, Fetch, FetchFails, PauseEnds, FetchCancelled,
              DropOnCancel, RunReturns
<1>4. ASSUME NEW i \in Process, ProcessNext(i)
      PROVE  \/ wpc'[v] = "markSent" /\ job'[v] = job[v]
             \/ Spend("crash")
  BY <1>4, <1>a DEF ProcessNext, Stop, Crash, Start
<1>5. ASSUME NEW w \in Worker, WorkerNext(w)
      PROVE  \/ wpc'[v] = "markSent" /\ job'[v] = job[v]
             \/ MarkSent(v)
             \/ Spend("db")
  <2>1. CASE MarkSent(w) \/ MarkFails(w)
    BY <2>1, <1>a DEF MarkSent, MarkFails, GoTo
  <2>2. CASE \/ Dispatch(w) \/ StartAttempt(w) \/ AttemptCancelled(w)
             \/ SendAccepted(w) \/ SendFails(w) \/ BackoffEnds(w)
             \/ BackoffCancelled(w) \/ MarkFailed(w)
    BY <2>2, <1>a
       DEF Dispatch, StartAttempt, AttemptCancelled, SendAccepted, SendFails,
           BackoffEnds, BackoffCancelled, MarkFailed, GoTo
  <2>3. CASE \/ StartCommit(w) \/ CommitSucceeds(w) \/ CommitFails(w)
             \/ WorkerExits(w)
    BY <2>3, <1>a
       DEF StartCommit, CommitSucceeds, CommitFails, WorkerExits, GoTo, Release
  <2>4. QED
    BY <1>5, <2>1, <2>2, <2>3 DEF WorkerNext
<1>6. QED
  BY <1>1, <1>2, <1>3, <1>4, <1>5 DEF Next, Idle

\* Every step keeps it.
LEMMA ReturnInvNext == TruthInv /\ ReturnInv /\ [Next]_vars => ReturnInv'
<1> SUFFICES ASSUME TruthInv, ReturnInv, [Next]_vars PROVE ReturnInv'
  OBVIOUS
<1>1. /\ WithinBudget'
      /\ Orderly' => Orderly /\ ~Spend("db") /\ ~Spend("crash")
  <2>1. /\ TypeInv /\ WithinBudget
        /\ "db" \in Fault /\ "crash" \in Fault
        /\ Budget["db"] \in Nat /\ Budget["crash"] \in Nat
    BY PoolAssumption DEF TruthInv, ReturnInv, Fault
  <2>2. /\ WithinBudget'
        /\ budget'["db"] = Budget["db"] => budget["db"] = Budget["db"]
        /\ budget'["crash"] = Budget["crash"] => budget["crash"] = Budget["crash"]
        /\ Spend("db") => budget'["db"] < Budget["db"]
        /\ Spend("crash") => budget'["crash"] < Budget["crash"]
    BY <2>1, BudgetKept
  <2>3. /\ budget'["db"] = Budget["db"] => ~(budget'["db"] < Budget["db"])
        /\ budget'["crash"] = Budget["crash"] =>
             ~(budget'["crash"] < Budget["crash"])
    BY <2>1
  <2>4. QED
    BY <2>2, <2>3 DEF Orderly
<1>2. ASSUME Orderly', NEW n \in Notification, accepts'[n] > 0
      PROVE  \/ Terminal(n)'
             \/ \E w \in Worker : /\ wpc'[w] = "markSent"
                                 /\ Record(job[w])' = n
  <2>1. CASE Terminal(n)
    BY <2>1, TerminalStays
  <2>2. ASSUME NEW w \in Worker, wpc[w] = "markSent", Record(job[w]) = n
        PROVE  \/ Terminal(n)'
               \/ /\ wpc'[w] = "markSent"
                  /\ Record(job[w])' = n
    <3>1. CASE wpc'[w] = "markSent" /\ job'[w] = job[w]
      <4>1. job[w] \in Logged
        BY <2>2, DeliveringKnown DEF Delivering
      <4>2. log'[job[w].partition][job[w].offset + 1] = Record(job[w])
        BY <4>1, GrowsNext, LoggedStays, TypeInvNext DEF TruthInv
      <4>3. QED
        BY <3>1, <4>2, <2>2 DEF Record
    <3>2. CASE MarkSent(w)
      BY <3>2, <2>2, OutcomeRecorded
         DEF Terminal, TruthInv, TypeInv, TypeOK
    <3>3. ~Spend("db") /\ ~Spend("crash")
      BY <1>1, <1>2
    <3>4. QED
      BY <3>1, <3>2, <3>3, <2>2, MarkingStays
  <2>3. ASSUME NEW w \in Worker, SendAccepted(w), Record(job[w]) = n
        PROVE  wpc'[w] = "markSent" /\ Record(job[w])' = n
    BY <2>3 DEF SendAccepted, GoTo, AfterSuccess, Record, TruthInv, TypeInv, TypeOK
  <2>4. QED
    BY <2>1, <2>2, <2>3, <1>1, <1>2, AcceptanceSource DEF ReturnInv, AcceptanceKept
<1>3. QED
  BY <1>1, <1>2 DEF ReturnInv, AcceptanceKept

\* Once every process has returned, and without a crash or a database error,
\* all that the provider accepted is recorded (pool.go:87-88, 119-122).
THEOREM ReturnsRecorded == Spec => []ReturnRecordsDeliveries
<1>1. Init => ReturnInv
  BY PoolAssumption DEF Init, ReturnInv, WithinBudget, AcceptanceKept
<1>2. TruthInv /\ ReturnInv => ReturnRecordsDeliveries
  BY PoolAssumption
     DEF TruthInv, TypeInv, OffIsOver, ReturnInv, Orderly, AcceptanceKept,
         ReturnRecordsDeliveries
<1>3. QED
  BY <1>1, <1>2, ReturnInvNext, TruthInvariant, PTL DEF Spec
-----------------------------------------------------------------------------
(* How often a notification is accepted.                                   *)
(*                                                                         *)
(* Each delivery uses up a ticket: a generation, and a copy of the event   *)
(* that the reader of that generation returned.  A reader returns every    *)
(* copy once, and deliverWithRetry ends with the first acceptance, so no   *)
(* two acceptances use the same ticket.  The generation in which an event  *)
(* in hand was fetched is not part of the state: G and H are witnesses for *)
(* it, S for the tickets used up.                                          *)

\* Whose delivery may still be accepted.
ToSend(w) == wpc[w] \in {"check", "sending", "backoff"}

Copy(n) == {o \in 1 .. Len(log[PartitionOf[n]]) : log[PartitionOf[n]][o] = n}

\* The reader of generation g has returned event e,
Read(g, e) == g \in 1 .. generation /\ (g = generation => e.offset < position[e.partition])

\* and nobody has had it accepted yet.
Unused(g, e, S) ==
  \A n \in Notification : PartitionOf[n] = e.partition => <<g, e.offset + 1>> \notin S[n]

\* The tickets used up are as many as the acceptances.
UsedUp(S) ==
  \A n \in Notification :
    /\ IsFiniteSet(S[n]) /\ Cardinality(S[n]) = accepts[n]
    /\ \A t \in S[n] : /\ t \in (1 .. generation) \X Copy(n)
                       /\ t[1] = generation => t[2] <= position[PartitionOf[n]]

InHandUnused(G, H, S) ==
  /\ \A i \in Process : held[i] # NoEvent => Read(G[i], held[i]) /\ Unused(G[i], held[i], S)
  /\ \A w \in Worker : ToSend(w) => Read(H[w], job[w]) /\ Unused(H[w], job[w], S)

\* Nobody holds the same ticket as somebody else.
NoDoubles(G, H) ==
  /\ \A i, j \in Process : held[i] # NoEvent /\ held[i] = held[j] /\ G[i] = G[j] => i = j
  /\ \A v, w \in Worker :
       ToSend(v) /\ ToSend(w) /\ job[v] = job[w] /\ H[v] = H[w] => v = w
  /\ \A i \in Process, w \in Worker : ToSend(w) => ~(held[i] = job[w] /\ G[i] = H[w])

Tickets(G, H, S) == UsedUp(S) /\ InHandUnused(G, H, S) /\ NoDoubles(G, H)

AcceptsInv ==
  /\ generation > 0
  /\ \E G \in [Process -> Nat], H \in [Worker -> Nat],
        S \in [Notification -> SUBSET (Nat \X Nat)] : Tickets(G, H, S)

\* A record lies in the partition of its user.
InItsPartition ==
  \A p \in Partition : \A k \in 1 .. Len(log[p]) :
    log[p][k] # Poison => PartitionOf[log[p][k]] = p

LEMMA InItsPartitionNext ==
  ASSUME TypeInv, InItsPartition, [Next]_vars PROVE InItsPartition'
<1>a. /\ log \in [Partition -> Seq(Notification \cup {Poison})]
      /\ \A p \in Partition : Len(log[p]) \in Nat
  BY DEF TypeInv, TypeOK
<1>1. ASSUME UNCHANGED log PROVE InItsPartition'
  BY <1>1 DEF InItsPartition
<1>2. ASSUME NEW p \in Partition, NEW m \in Notification \cup {Poison}, Append1(p, m),
             m # Poison => PartitionOf[m] = p
      PROVE  InItsPartition'
  <2> SUFFICES ASSUME NEW q \in Partition, NEW k \in 1 .. Len(log'[q]), log'[q][k] # Poison
               PROVE  PartitionOf[log'[q][k]] = q
    BY DEF InItsPartition
  <2>1. CASE k > Len(log[q])
    BY <2>1, <1>2, <1>a, AppendGrows
  <2>2. CASE k \in 1 .. Len(log[q])
    BY <2>2, <1>2, <1>a, AppendGrows DEF InItsPartition
  <2>3. QED
    BY <2>1, <2>2, <1>a
<1>3. ASSUME NEW n \in Notification, Enqueue(n) \/ Republish(n) PROVE InItsPartition'
  BY <1>2, <1>3, PoolAssumption DEF Enqueue, Republish
<1>4. ASSUME NEW p \in Partition, PublishPoison(p) PROVE InItsPartition'
  BY <1>2, <1>4 DEF PublishPoison
<1>5. ASSUME NEW w \in Worker, SendAccepted(w) \/ MarkSent(w) \/ MarkFailed(w)
      PROVE  UNCHANGED log
  BY <1>5 DEF SendAccepted, MarkSent, MarkFailed
<1>6. QED
  BY <1>1, <1>3, <1>4, <1>5, Writers DEF vars

\* A step in which nobody gets a ticket, and none is used up.
Calm ==
  /\ UNCHANGED <<accepts, generation, position>>
  /\ \A i \in Process : held'[i] \in {held[i], NoEvent}
  /\ \A w \in Worker : ToSend(w)' => ToSend(w) /\ job'[w] = job[w]

LEMMA TicketSteps ==
  ASSUME TypeInv, [Next]_vars
  PROVE  \/ Calm
         \/ Rebalance
         \/ \E i \in Process, p \in Partition : Fetch(i, p)
         \/ \E w \in Worker : Dispatch(w) \/ SendAccepted(w)
<1> USE DEF Calm, ToSend
<1>a. /\ wpc \in [Worker -> {"idle", "exited"} \cup Delivering \cup Committing]
      /\ job \in [Worker -> Event \cup {NoEvent}] /\ held \in [Process -> Event \cup {NoEvent}]
  BY DEF TypeInv, TypeOK
<1>1. CASE UNCHANGED vars
  BY <1>1 DEF vars
<1>2. CASE EnvironmentNext
  BY <1>2 DEF EnvironmentNext, Enqueue, Republish, PublishPoison
<1>3. ASSUME NEW i \in Process, DispatcherNext(i), \A p \in Partition : ~Fetch(i, p) PROVE Calm
  BY <1>3, <1>a DEF DispatcherNext, FetchFails, PauseEnds, FetchCancelled, DropOnCancel, RunReturns
<1>4. ASSUME NEW i \in Process, ProcessNext(i) PROVE Calm
  BY <1>4, <1>a DEF ProcessNext, Stop, Crash, Start
<1>5. ASSUME NEW w \in Worker, WorkerNext(w), ~Dispatch(w), ~SendAccepted(w) PROVE Calm
  <2>1. CASE StartAttempt(w) \/ BackoffEnds(w) \/ SendFails(w)
    BY <2>1, <1>a DEF StartAttempt, BackoffEnds, SendFails, GoTo
  <2>2. CASE AttemptCancelled(w) \/ BackoffCancelled(w)
    BY <2>2, <1>a DEF AttemptCancelled, BackoffCancelled, GoTo, AfterCancel
  <2>3. CASE MarkSent(w) \/ MarkFailed(w) \/ MarkFails(w)
    BY <2>3, <1>a DEF MarkSent, MarkFailed, MarkFails, GoTo
  <2>4. CASE StartCommit(w) \/ CommitSucceeds(w) \/ CommitFails(w) \/ WorkerExits(w)
    BY <2>4, <1>a DEF StartCommit, CommitSucceeds, CommitFails, WorkerExits, GoTo, Release,
                      AfterCommitError
  <2>5. QED
    BY <1>5, <2>1, <2>2, <2>3, <2>4 DEF WorkerNext
<1>6. QED
  BY <1>1, <1>2, <1>3, <1>4, <1>5 DEF Next, Idle, DispatcherNext

\* Copies of an event stay in the topic.
LEMMA CopyGrows ==
  ASSUME TypeInv, TypeInv', Grows, NEW n \in Notification PROVE Copy(n) \subseteq Copy(n)'
<1>1. /\ PartitionOf[n] \in Partition
      /\ Len(log[PartitionOf[n]]) \in Nat /\ Len(log'[PartitionOf[n]]) \in Nat
  BY PoolAssumption DEF TypeInv, TypeOK
<1>2. QED
  BY <1>1 DEF Copy, Grows

LEMMA CalmTickets ==
  ASSUME TypeInv, TypeInv', Grows, Calm, AcceptsInv PROVE AcceptsInv'
<1> PICK G \in [Process -> Nat], H \in [Worker -> Nat],
         S \in [Notification -> SUBSET (Nat \X Nat)] : Tickets(G, H, S)
  BY DEF AcceptsInv
<1>1. UsedUp(S)'
  BY CopyGrows DEF Tickets, UsedUp, Calm
<1>2. InHandUnused(G, H, S)'
  BY DEF Tickets, InHandUnused, Calm, Read, Unused
<1>3. NoDoubles(G, H)'
  <2>1. \A w \in Worker : ToSend(w)' => job[w] # NoEvent
    BY DEF Calm, ToSend, TypeInv, JobWhenBusy
  <2>2. QED
    BY <2>1 DEF Tickets, NoDoubles, Calm
<1>4. QED
  BY <1>1, <1>2, <1>3 DEF AcceptsInv, Tickets, Calm

\* A new generation reads again, but its tickets are new as well.
LEMMA RebalanceTickets ==
  ASSUME TypeInv, Rebalance, AcceptsInv PROVE AcceptsInv'
<1> PICK G \in [Process -> Nat], H \in [Worker -> Nat],
         S \in [Notification -> SUBSET (Nat \X Nat)] : Tickets(G, H, S)
  BY DEF AcceptsInv
<1>1. /\ generation \in Nat /\ generation' = generation + 1
      /\ UNCHANGED <<log, held, wpc, job, accepts>>
  BY DEF TypeInv, TypeOK, Rebalance
<1>2. \A g \in 1 .. generation : g \in 1 .. generation' /\ g # generation'
  BY <1>1
<1>3. UsedUp(S)'
  <2> SUFFICES ASSUME NEW n \in Notification, NEW t \in S[n]
               PROVE  /\ t \in (1 .. generation') \X Copy(n)'
                      /\ t[1] = generation' => t[2] <= position'[PartitionOf[n]]
    BY <1>1 DEF Tickets, UsedUp
  <2>1. t \in (1 .. generation) \X Copy(n) /\ Copy(n)' = Copy(n)
    BY <1>1 DEF Tickets, UsedUp, Copy
  <2>2. QED
    BY <2>1, <1>2
<1>4. \A i \in Process : held[i] # NoEvent => Read(G[i], held[i])'
  BY <1>2 DEF Tickets, InHandUnused, Read
<1>5. \A w \in Worker : ToSend(w) => Read(H[w], job[w])'
  BY <1>2 DEF Tickets, InHandUnused, Read
<1>6. InHandUnused(G, H, S)'
  BY <1>1, <1>4, <1>5 DEF Tickets, InHandUnused, ToSend, Unused, Read
<1>7. NoDoubles(G, H)'
  BY <1>1 DEF Tickets, NoDoubles, ToSend
<1>8. QED
  BY <1>1, <1>3, <1>6, <1>7 DEF AcceptsInv, Tickets

\* The reader moves on, so the ticket it gives out is a new one.
LEMMA FetchTickets ==
  ASSUME TypeInv, NEW i \in Process, NEW p \in Partition, Fetch(i, p), AcceptsInv
  PROVE  AcceptsInv'
<1> PICK G \in [Process -> Nat], H \in [Worker -> Nat],
         S \in [Notification -> SUBSET (Nat \X Nat)] : Tickets(G, H, S)
  BY DEF AcceptsInv
<1>1. /\ generation \in Nat /\ position \in [Partition -> Nat]
      /\ held \in [Process -> Event \cup {NoEvent}] /\ job \in [Worker -> Event \cup {NoEvent}]
      /\ [partition |-> p, offset |-> position[p]] \in Event /\ NoEvent \notin Event
  BY PoolAssumption DEF TypeInv, TypeOK, Event
<1>e. PICK e \in Event : e = [partition |-> p, offset |-> position[p]]
  BY <1>1
<1>g. PICK G1 \in [Process -> Nat] : G1 = [G EXCEPT ![i] = generation]
  BY <1>1
<1> DEFINE ReadNext(g, f) ==
      g \in 1 .. generation /\ (g = generation => f.offset < position'[f.partition])
<1>2. /\ held' = [held EXCEPT ![i] = e] /\ position' = [position EXCEPT ![p] = @ + 1]
      /\ UNCHANGED <<log, wpc, job, accepts, generation>>
  BY <1>e DEF Fetch
<1>3. held'[i] = e /\ \A j \in Process : j # i => held'[j] = held[j]
  BY <1>1, <1>2
<1>4. \A q \in Partition : position'[q] \in Nat /\ position[q] <= position'[q]
  BY <1>1, <1>2
<1>5. G1[i] = generation /\ \A j \in Process : j # i => G1[j] = G[j]
  BY <1>g
<1>6. \A w \in Worker : ToSend(w)' = ToSend(w) /\ (ToSend(w) => job[w] \in Event)
  BY <1>1, <1>2 DEF ToSend, TypeInv, JobWhenBusy
<1>7. \A g \in Nat, f \in Event : Read(g, f) => ReadNext(g, f)
  <2> SUFFICES ASSUME NEW g \in Nat, NEW f \in Event, Read(g, f) PROVE ReadNext(g, f)
    OBVIOUS
  <2>1. f.partition \in Partition /\ f.offset \in Nat
    BY DEF Event
  <2>2. QED
    BY <2>1, <1>1, <1>2, <1>4 DEF Read
<1>8. \A n \in Notification : Copy(n)' = Copy(n) /\ PartitionOf[n] \in Partition
  BY <1>2, PoolAssumption DEF Copy
<1>9. UsedUp(S)'
  <2> SUFFICES ASSUME NEW n \in Notification, NEW t \in S[n], t[1] = generation
               PROVE  t[2] <= position'[PartitionOf[n]]
    BY <1>2, <1>8 DEF Tickets, UsedUp
  <2>1. t[2] <= position[PartitionOf[n]] /\ t[2] \in Nat
    BY DEF Tickets, UsedUp
  <2>2. PartitionOf[n] \in Partition /\ position[PartitionOf[n]] \in Nat
    BY <1>1, <1>8
  <2>3. /\ position'[PartitionOf[n]] \in Nat
        /\ position[PartitionOf[n]] <= position'[PartitionOf[n]]
    BY <2>2, <1>4
  <2>4. QED
    BY <2>1, <2>2, <2>3
<1>10. generation \in 1 .. generation
  BY <1>1 DEF AcceptsInv
<1>11. ReadNext(G1[i], e)
  BY <1>1, <1>2, <1>5, <1>10, <1>e
<1>12. Unused(G1[i], e, S)
  <2> SUFFICES ASSUME NEW n \in Notification, PartitionOf[n] = p,
                      <<generation, position[p] + 1>> \in S[n]
               PROVE  FALSE
    BY <1>5, <1>e DEF Unused
  <2>1. position[p] + 1 <= position[p]
    BY DEF Tickets, UsedUp
  <2>2. QED
    BY <2>1, <1>1
<1>13. InHandUnused(G1, H, S)'
  <2>1. ASSUME NEW j \in Process, held'[j] # NoEvent
        PROVE  ReadNext(G1[j], held'[j]) /\ Unused(G1[j], held'[j], S)
    <3>1. CASE j = i
      BY <3>1, <1>3, <1>11, <1>12
    <3>2. CASE j # i
      BY <3>2, <2>1, <1>1, <1>3, <1>5, <1>7 DEF Tickets, InHandUnused
    <3>3. QED
      BY <3>1, <3>2
  <2>2. ASSUME NEW w \in Worker, ToSend(w)
        PROVE  ReadNext(H[w], job[w]) /\ Unused(H[w], job[w], S)
    BY <2>2, <1>6, <1>7 DEF Tickets, InHandUnused
  <2>3. QED
    BY <2>1, <2>2, <1>2, <1>6 DEF InHandUnused, Unused, Read
  \* Whatever was read before in this generation has a smaller offset.
<1>14. \A j \in Process : j # i /\ held[j] = e => G[j] # generation
  BY <1>1, <1>e DEF Tickets, InHandUnused, Read
<1>15. \A w \in Worker : ToSend(w) /\ job[w] = e => H[w] # generation
  BY <1>1, <1>e DEF Tickets, InHandUnused, Read
<1>16. NoDoubles(G1, H)'
  BY <1>2, <1>3, <1>5, <1>6, <1>14, <1>15 DEF Tickets, NoDoubles
<1>17. QED
  BY <1>2, <1>9, <1>13, <1>16 DEF AcceptsInv, Tickets

\* The goroutine takes over the dispatcher's ticket with the event.
LEMMA DispatchTickets ==
  ASSUME TypeInv, NEW w \in Worker, Dispatch(w), AcceptsInv
  PROVE  AcceptsInv'
<1> PICK G \in [Process -> Nat], H \in [Worker -> Nat],
         S \in [Notification -> SUBSET (Nat \X Nat)] : Tickets(G, H, S)
  BY DEF AcceptsInv
<1> DEFINE i == ProcessOf[w]
<1>1. i \in Process /\ held[i] # NoEvent
  BY PoolAssumption DEF Dispatch, TypeInv, HeldWhenSending
<1>2. /\ held' = [held EXCEPT ![i] = NoEvent] /\ job' = [job EXCEPT ![w] = held[i]]
      /\ \E to : wpc' = [wpc EXCEPT ![w] = to]
      /\ UNCHANGED <<log, position, accepts, generation>>
  BY DEF Dispatch
<1>3. held'[i] = NoEvent /\ \A j \in Process : j # i => held'[j] = held[j]
  BY <1>1, <1>2 DEF TypeInv, TypeOK
<1>4. /\ job'[w] = held[i]
      /\ \A v \in Worker : v # w => job'[v] = job[v] /\ ToSend(v)' = ToSend(v)
  BY <1>2 DEF TypeInv, TypeOK, ToSend
<1>h. PICK H1 \in [Worker -> Nat] : H1 = [H EXCEPT ![w] = G[i]]
  BY <1>1
<1>5. H1[w] = G[i] /\ \A v \in Worker : v # w => H1[v] = H[v]
  BY <1>h
<1>6. UsedUp(S)'
  BY <1>2 DEF Tickets, UsedUp, Copy
<1>7. InHandUnused(G, H1, S)'
  <2>1. ASSUME NEW j \in Process, held'[j] # NoEvent
        PROVE  Read(G[j], held'[j]) /\ Unused(G[j], held'[j], S)
    BY <2>1, <1>3 DEF Tickets, InHandUnused
  <2>2. ASSUME NEW v \in Worker, ToSend(v)'
        PROVE  Read(H1[v], job'[v]) /\ Unused(H1[v], job'[v], S)
    BY <2>2, <1>1, <1>4, <1>5 DEF Tickets, InHandUnused
  <2>3. QED
    BY <2>1, <2>2, <1>2 DEF InHandUnused, Read, Unused
<1>8. NoDoubles(G, H1)'
  <2>1. \A v \in Worker : ToSend(v)' => job'[v] # NoEvent
    BY <1>1, <1>4 DEF ToSend, TypeInv, JobWhenBusy
  <2>2. ASSUME NEW j \in Process, NEW k \in Process, held'[j] # NoEvent,
               held'[j] = held'[k], G[j] = G[k]
        PROVE  j = k
    BY <2>2, <1>3 DEF Tickets, NoDoubles
  <2>3. ASSUME NEW u \in Worker, NEW v \in Worker, ToSend(u)', ToSend(v)',
               job'[u] = job'[v], H1[u] = H1[v]
        PROVE  u = v
    BY <2>3, <1>1, <1>4, <1>5 DEF Tickets, NoDoubles
  <2>4. ASSUME NEW j \in Process, NEW v \in Worker, ToSend(v)',
               held'[j] = job'[v], G[j] = H1[v]
        PROVE  FALSE
    <3>1. held'[j] # NoEvent /\ j # i /\ held'[j] = held[j]
      BY <2>1, <2>4, <1>3
    <3>2. CASE v = w
      BY <3>1, <3>2, <2>4, <1>1, <1>4, <1>5 DEF Tickets, NoDoubles
    <3>3. CASE v # w
      BY <3>1, <3>3, <2>4, <1>4, <1>5 DEF Tickets, NoDoubles
    <3>4. QED
      BY <3>2, <3>3
  <2>5. QED
    BY <2>2, <2>3, <2>4 DEF NoDoubles
<1>9. QED
  BY <1>2, <1>6, <1>7, <1>8 DEF AcceptsInv, Tickets

\* An acceptance uses up the goroutine's ticket, and it had nobody else's.
LEMMA AcceptTickets ==
  ASSUME TruthInv, InItsPartition, NEW w \in Worker, SendAccepted(w), AcceptsInv
  PROVE  AcceptsInv'
<1> PICK G \in [Process -> Nat], H \in [Worker -> Nat],
         S \in [Notification -> SUBSET (Nat \X Nat)] : Tickets(G, H, S)
  BY DEF AcceptsInv
<1> USE DEF TruthInv
<1>1. PICK n \in Notification : n = Record(job[w])
  BY WriterEffects DEF Known
<1>2. /\ wpc[w] = "sending" /\ wpc' = [wpc EXCEPT ![w] = "markSent"]
      /\ accepts' = [accepts EXCEPT ![n] = @ + 1]
      /\ UNCHANGED <<log, held, job, position, generation>>
  BY <1>1 DEF SendAccepted, GoTo, AfterSuccess
<1>3. job[w] \in Event /\ job[w] \in Logged
  BY <1>2, DeliveringKnown, PoolAssumption DEF Delivering, TypeInv, TypeOK, JobWhenBusy
<1>4. PICK p \in Partition, k \in Nat :
        /\ job[w].partition = p /\ job[w].offset + 1 = k /\ job[w].offset \in Nat
        /\ k \in 1 .. Len(log[p]) /\ log[p][k] = n
  <2>1. job[w].partition \in Partition /\ job[w].offset \in Nat
    BY <1>3 DEF Event
  <2>2. job[w].offset + 1 \in 1 .. Len(log[job[w].partition])
    BY <1>3, <2>1 DEF Logged, TypeInv, TypeOK
  <2>3. QED
    BY <1>1, <2>1, <2>2 DEF Record
<1>5. PartitionOf[n] = p /\ k \in Copy(n)
  BY <1>4, PoolAssumption DEF InItsPartition, Copy
<1>6. /\ ToSend(w) /\ ~ToSend(w)'
      /\ \A v \in Worker : v # w => ToSend(v)' = ToSend(v)
  BY <1>2 DEF ToSend, TypeInv, TypeOK
<1>7. Read(H[w], job[w]) /\ <<H[w], k>> \notin S[n] /\ H[w] \in Nat
  BY <1>4, <1>5, <1>6 DEF Tickets, InHandUnused, Unused
<1>8. PICK S1 \in [Notification -> SUBSET (Nat \X Nat)] :
        S1 = [S EXCEPT ![n] = @ \cup {<<H[w], k>>}]
  <2>1. S[n] \cup {<<H[w], k>>} \in SUBSET (Nat \X Nat)
    BY <1>4, <1>7
  <2>2. QED
    BY <2>1
<1>9. S1[n] = S[n] \cup {<<H[w], k>>} /\ \A m \in Notification : m # n => S1[m] = S[m]
  BY <1>8
<1>10. \A m \in Notification : Copy(m)' = Copy(m)
  BY <1>2 DEF Copy
<1>11. UsedUp(S1)'
  <2> SUFFICES ASSUME NEW m \in Notification
               PROVE  /\ IsFiniteSet(S1[m]) /\ Cardinality(S1[m]) = accepts'[m]
                      /\ \A t \in S1[m] :
                           /\ t \in (1 .. generation) \X Copy(m)
                           /\ t[1] = generation => t[2] <= position[PartitionOf[m]]
    BY <1>2, <1>10 DEF UsedUp
  <2>1. CASE m # n
    BY <2>1, <1>2, <1>9 DEF Tickets, UsedUp
  <2>2. CASE m = n
    <3>1. IsFiniteSet(S[n]) /\ Cardinality(S[n]) = accepts[n]
      BY DEF Tickets, UsedUp
    <3>2. IsFiniteSet(S1[n]) /\ Cardinality(S1[n]) = accepts[n] + 1
      <4> DEFINE T == S[n] t == <<H[w], k>>
      <4>1. IsFiniteSet(T) /\ Cardinality(T) = accepts[n] /\ t \notin T /\ S1[n] = T \cup {t}
        BY <3>1, <1>7, <1>9
      <4> HIDE DEF T, t
      <4>2. QED
        BY <4>1, FS_AddElement
    <3>3. accepts'[n] = accepts[n] + 1
      BY <1>2 DEF TypeInv, TypeOK
    <3>4. <<H[w], k>> \in (1 .. generation) \X Copy(n)
      BY <1>5, <1>7 DEF Read
    <3>5. H[w] = generation => k <= position[p]
      BY <1>4, <1>7 DEF Read, TypeInv, TypeOK
    <3>6. QED
      BY <2>2, <3>2, <3>3, <3>4, <3>5, <1>5, <1>9 DEF Tickets, UsedUp
  <2>3. QED
    BY <2>1, <2>2
  \* Another ticket of the same partition is another one.
<1>12. ASSUME NEW g \in Nat, NEW e \in Event, Unused(g, e, S), ~(e = job[w] /\ g = H[w])
       PROVE  Unused(g, e, S1)
  <2> SUFFICES ASSUME NEW m \in Notification, PartitionOf[m] = e.partition,
                      <<g, e.offset + 1>> \in S1[m]
               PROVE  FALSE
    BY DEF Unused
  <2>1. m = n /\ <<g, e.offset + 1>> = <<H[w], k>>
    BY <1>9, <1>12 DEF Unused
  <2>2. e.offset = job[w].offset /\ e.partition = job[w].partition
    BY <2>1, <1>4, <1>5 DEF Event
  <2>3. e = job[w]
    BY <2>2, <1>3 DEF Event
  <2>4. QED
    BY <2>1, <2>3, <1>12
<1>13. InHandUnused(G, H, S1)'
  <2>1. ASSUME NEW i \in Process, held[i] # NoEvent
        PROVE  Read(G[i], held[i]) /\ Unused(G[i], held[i], S1)
    <3>1. held[i] \in Event
      BY <2>1 DEF TypeInv, TypeOK
    <3>2. Read(G[i], held[i]) /\ Unused(G[i], held[i], S)
      BY <2>1 DEF Tickets, InHandUnused
    <3>3. ~(held[i] = job[w] /\ G[i] = H[w])
      BY <1>6 DEF Tickets, NoDoubles
    <3>4. QED
      BY <3>1, <3>2, <3>3, <1>12
  <2>2. ASSUME NEW v \in Worker, ToSend(v)'
        PROVE  Read(H[v], job[v]) /\ Unused(H[v], job[v], S1)
    <3>1. v # w /\ ToSend(v)
      BY <2>2, <1>6
    <3>2. job[v] \in Event
      BY <3>1 DEF ToSend, TypeInv, TypeOK, JobWhenBusy
    <3>3. Read(H[v], job[v]) /\ Unused(H[v], job[v], S)
      BY <3>1 DEF Tickets, InHandUnused
    <3>4. ~(job[v] = job[w] /\ H[v] = H[w])
      BY <3>1, <1>6 DEF Tickets, NoDoubles
    <3>5. QED
      BY <3>2, <3>3, <3>4, <1>12
  <2>3. QED
    BY <2>1, <2>2, <1>2 DEF InHandUnused, Read, Unused
<1>14. NoDoubles(G, H)'
  BY <1>2, <1>6 DEF Tickets, NoDoubles
<1>15. QED
  BY <1>2, <1>11, <1>13, <1>14 DEF AcceptsInv, Tickets

LEMMA TicketsInvariant == Spec => [](TruthInv /\ InItsPartition /\ AcceptsInv)
<1>1. Init => InItsPartition /\ AcceptsInv
  <2> SUFFICES ASSUME Init PROVE InItsPartition /\ AcceptsInv
    OBVIOUS
  <2>1. InItsPartition
    BY DEF Init, InItsPartition
  <2>2. PICK G \in [Process -> Nat], H \in [Worker -> Nat],
             S \in [Notification -> SUBSET (Nat \X Nat)] :
               S = [n \in Notification |-> {}]
    <3>1. [i \in Process |-> 0] \in [Process -> Nat] /\ [w \in Worker |-> 0] \in [Worker -> Nat]
      OBVIOUS
    <3>2. [n \in Notification |-> {}] \in [Notification -> SUBSET (Nat \X Nat)]
      OBVIOUS
    <3>3. QED
      BY <3>1, <3>2
  <2>3. UsedUp(S)
    BY <2>2, FS_EmptySet DEF Init, UsedUp
  <2>4. InHandUnused(G, H, S) /\ NoDoubles(G, H)
    BY DEF Init, InHandUnused, NoDoubles, ToSend
  <2>5. generation > 0
    BY DEF Init
  <2>6. AcceptsInv
    BY <2>3, <2>4, <2>5 DEF AcceptsInv, Tickets
  <2>7. QED
    BY <2>1, <2>6
<1>2. TruthInv /\ InItsPartition /\ AcceptsInv /\ [Next]_vars => InItsPartition' /\ AcceptsInv'
  <2> SUFFICES ASSUME TruthInv, InItsPartition, AcceptsInv, [Next]_vars
               PROVE  InItsPartition' /\ AcceptsInv'
    OBVIOUS
  <2>1. TypeInv /\ TypeInv' /\ Grows
    BY GrowsNext, TypeInvNext DEF TruthInv
  <2>2. InItsPartition'
    BY <2>1, InItsPartitionNext
  <2>3. AcceptsInv'
    BY <2>1, TicketSteps, CalmTickets, RebalanceTickets, FetchTickets, DispatchTickets,
       AcceptTickets
  <2>4. QED
    BY <2>2, <2>3
<1>3. QED
  BY <1>1, <1>2, TruthInvariant, PTL DEF Spec

\* There are generation * Copies(n) tickets for n.
LEMMA TicketsAreFew ==
  ASSUME TypeInv, AcceptsInv, NEW n \in Notification
  PROVE  accepts[n] <= generation * Copies(n)
<1> PICK G \in [Process -> Nat], H \in [Worker -> Nat],
         S \in [Notification -> SUBSET (Nat \X Nat)] : Tickets(G, H, S)
  BY DEF AcceptsInv
<1>1. generation \in Nat /\ generation > 0 /\ Len(log[PartitionOf[n]]) \in Nat
  BY PoolAssumption DEF TypeInv, TypeOK, AcceptsInv
<1>2. IsFiniteSet(1 .. generation) /\ Cardinality(1 .. generation) = generation
  BY <1>1, FS_Interval
<1>3. IsFiniteSet(Copy(n)) /\ Cardinality(Copy(n)) = Copies(n)
  <2>1. IsFiniteSet(1 .. Len(log[PartitionOf[n]]))
    BY <1>1, FS_Interval
  <2>2. IsFiniteSet(Copy(n))
    BY <2>1, FS_Subset DEF Copy
  <2>3. QED
    BY <2>2 DEF Copies, Copy
<1>4. /\ IsFiniteSet((1 .. generation) \X Copy(n))
      /\ Cardinality((1 .. generation) \X Copy(n)) = generation * Copies(n)
  <2> DEFINE A == 1 .. generation B == Copy(n)
  <2>1. IsFiniteSet(A) /\ IsFiniteSet(B)
    BY <1>2, <1>3
  <2> HIDE DEF A, B
  <2>2. IsFiniteSet(A \X B) /\ Cardinality(A \X B) = Cardinality(A) * Cardinality(B)
    BY <2>1, FS_Product
  <2>3. QED
    BY <2>2, <1>2, <1>3 DEF A, B
<1>5. S[n] \in SUBSET ((1 .. generation) \X Copy(n)) /\ Cardinality(S[n]) = accepts[n]
  BY DEF Tickets, UsedUp
<1>6. Cardinality(S[n]) <= Cardinality((1 .. generation) \X Copy(n))
  BY <1>4, <1>5, FS_Subset
<1>7. QED
  BY <1>4, <1>5, <1>6

\* At-least-once delivery repeats itself at most once per copy of the event in
\* the topic and per generation of the group (pool.go:74-85, 133-166).
THEOREM RedeliveryBounded == Spec => []AcceptsBounded
<1>1. TruthInv /\ AcceptsInv => AcceptsBounded
  BY TicketsAreFew DEF TruthInv, AcceptsBounded
<1>2. QED
  BY <1>1, TicketsInvariant, PTL

=============================================================================
