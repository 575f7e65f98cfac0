----------------------------- MODULE PoolProofs -----------------------------
(***************************************************************************)
(* Theorems about Pool, for any number of processes, worker goroutines,    *)
(* partitions and notifications, and for any budget of faults: types, no   *)
(* event is skipped, and Pool implements NotificationLifecycle, so that a  *)
(* row never goes back and says sent only after the provider has accepted  *)
(* the notification.                                                       *)
(***************************************************************************)
EXTENDS Pool, TLAPS

USE DEF brokerVars, dispatchVars, workerVars, historyVars

-----------------------------------------------------------------------------
(* Type correctness.                                                       *)

\* A dispatcher holds an event exactly between Fetch and the hand-over.
HeldWhenSending ==
  \A i \in Process : dpc[i] = "send" <=> held[i] # NoEvent

\* A goroutine has an event exactly while it is inside handle.
JobWhenBusy ==
  \A w \in Worker : wpc[w] \in {"idle", "exited"} <=> job[w] = NoEvent

\* No goroutine outlives its process, and an absent process owns nothing.
OffIsOver ==
  \A i \in Process : dpc[i] = "off" =>
    /\ \A w \in Worker : ProcessOf[w] = i => wpc[w] = "exited"
    /\ \A p \in Partition : owner[p] # i

\* The loop variable of deliverWithRetry stays within its bounds.
AttemptInLoop ==
  \A w \in Worker :
    /\ wpc[w] \in {"check", "sending", "backoff"} => attempt[w] >= 1
    /\ wpc[w] = "backoff" => attempt[w] <= MaxRetries

TypeInv ==
  TypeOK /\ HeldWhenSending /\ JobWhenBusy /\ OffIsOver /\ AttemptInLoop

\* The initial state satisfies the invariant.
LEMMA TypeInvInit == Init => TypeInv
BY PoolAssumption
   DEF Init, TypeInv, TypeOK, HeldWhenSending, JobWhenBusy, OffIsOver,
       AttemptInLoop, Fault, Fetching, Delivering, Committing, Row, Status

\* Spending a fault leaves a budget.
LEMMA SpendType ==
  ASSUME NEW f \in Fault, budget \in [Fault -> Nat], Spend(f)
  PROVE  budget' \in [Fault -> Nat]
BY DEF Spend

\* Appending a record leaves a log.
LEMMA Append1Type ==
  ASSUME NEW p \in Partition, NEW m \in Notification \cup {Poison},
         log \in [Partition -> Seq(Notification \cup {Poison})], Append1(p, m)
  PROVE  log' \in [Partition -> Seq(Notification \cup {Poison})]
BY DEF Append1

\* Counting at some place keeps a function of counts.
LEMMA CountType ==
  ASSUME NEW f \in [Notification -> Nat], NEW r
  PROVE  [f EXCEPT ![r] = @ + 1] \in [Notification -> Nat]
<1>1. CASE r \in Notification
  BY <1>1
<1>2. CASE r \notin Notification
  BY <1>2
<1>3. QED
  BY <1>1, <1>2

\* Recording a failure in some row keeps the table.
LEMMA GivenUpType ==
  ASSUME NEW f \in [Notification -> Row], NEW r, NEW a \in Nat
  PROVE  [f EXCEPT ![r] = [@ EXCEPT !.status = "failed", !.attempts = a]]
           \in [Notification -> Row]
<1>1. CASE r \in Notification
  BY <1>1 DEF Row, Status
<1>2. CASE r \notin Notification
  BY <1>2 DEF Row
<1>3. QED
  BY <1>1, <1>2

\* What the environment does keeps it.
LEMMA TypeInvEnvironment == TypeInv /\ EnvironmentNext => TypeInv'
<1> SUFFICES ASSUME TypeInv, EnvironmentNext PROVE TypeInv'
  OBVIOUS
<1> USE PoolAssumption
    DEF TypeInv, HeldWhenSending, JobWhenBusy, OffIsOver, AttemptInLoop
<1>1. ASSUME NEW n \in Notification, Enqueue(n) PROVE TypeInv'
  <2>1. log' \in [Partition -> Seq(Notification \cup {Poison})]
    BY <1>1, Append1Type DEF Enqueue, TypeOK
  <2>2. rows' \in [Notification -> Row]
    BY <1>1 DEF Enqueue, TypeOK, Row, Status
  <2>3. TypeOK'
    BY <1>1, <2>1, <2>2 DEF Enqueue, TypeOK
  <2>4. QED
    BY <1>1, <2>3 DEF Enqueue
<1>2. ASSUME NEW n \in Notification, Republish(n) PROVE TypeInv'
  <2>1. log' \in [Partition -> Seq(Notification \cup {Poison})]
    BY <1>2, Append1Type DEF Republish, TypeOK
  <2>2. budget' \in [Fault -> Nat]
    BY <1>2, SpendType DEF Republish, TypeOK, Fault
  <2>3. TypeOK'
    BY <1>2, <2>1, <2>2 DEF Republish, TypeOK
  <2>4. QED
    BY <1>2, <2>3 DEF Republish
<1>3. ASSUME NEW p \in Partition, PublishPoison(p) PROVE TypeInv'
  <2>1. log' \in [Partition -> Seq(Notification \cup {Poison})]
    BY <1>3, Append1Type DEF PublishPoison, TypeOK
  <2>2. budget' \in [Fault -> Nat]
    BY <1>3, SpendType DEF PublishPoison, TypeOK, Fault
  <2>3. TypeOK'
    BY <1>3, <2>1, <2>2 DEF PublishPoison, TypeOK
  <2>4. QED
    BY <1>3, <2>3 DEF PublishPoison
<1>4. CASE Rebalance
  <2>1. budget' \in [Fault -> Nat]
    BY <1>4, SpendType DEF Rebalance, TypeOK, Fault
  <2>2. /\ owner' \in [Partition -> Process \cup {NoProcess}]
        /\ position' \in [Partition -> Nat]
        /\ generation' \in Nat
    BY <1>4 DEF Rebalance, TypeOK, Running, ResumeAt
  <2>3. TypeOK'
    BY <1>4, <2>1, <2>2 DEF Rebalance, TypeOK
  <2>4. QED
    BY <1>4, <2>3 DEF Rebalance, Running
<1>5. QED
  BY <1>1, <1>2, <1>3, <1>4 DEF EnvironmentNext

\* Every step of a dispatcher keeps it.
LEMMA TypeInvDispatcher ==
  ASSUME NEW i \in Process, TypeInv, DispatcherNext(i) PROVE TypeInv'
<1> USE PoolAssumption
    DEF TypeInv, HeldWhenSending, JobWhenBusy, OffIsOver, AttemptInLoop
<1>1. ASSUME NEW p \in Partition, Fetch(i, p) PROVE TypeInv'
  <2>1. held' \in [Process -> Event \cup {NoEvent}] /\ held'[i] \in Event
    BY <1>1 DEF Fetch, Event, TypeOK
  <2>2. position' \in [Partition -> Nat]
    BY <1>1 DEF Fetch, TypeOK
  <2>3. TypeOK'
    BY <1>1, <2>1, <2>2 DEF Fetch, TypeOK, Fetching
  <2>4. HeldWhenSending'
    BY <1>1, <2>1 DEF Fetch, TypeOK
  <2>5. QED
    BY <1>1, <2>3, <2>4 DEF Fetch, TypeOK
<1>2. CASE FetchFails(i)
  <2>1. budget' \in [Fault -> Nat]
    BY <1>2, SpendType DEF FetchFails, TypeOK, Fault
  <2>2. TypeOK'
    BY <1>2, <2>1 DEF FetchFails, TypeOK, Fetching
  <2>3. QED
    BY <1>2, <2>2 DEF FetchFails, TypeOK
<1>3. CASE PauseEnds(i)
  BY <1>3 DEF PauseEnds, TypeOK, Fetching
<1>4. CASE FetchCancelled(i)
  BY <1>4 DEF FetchCancelled, AfterCancelledFetch, TypeOK, Fetching
<1>5. CASE DropOnCancel(i)
  BY <1>5 DEF DropOnCancel, AfterDrop, TypeOK, Fetching
<1>6. CASE RunReturns(i)
  <2>1. owner' \in [Partition -> Process \cup {NoProcess}]
    BY <1>6 DEF RunReturns, WithoutMember, TypeOK
  <2>2. TypeOK'
    BY <1>6, <2>1 DEF RunReturns, TypeOK, Fetching
  <2>3. OffIsOver'
    BY <1>6 DEF RunReturns, Drained, WithoutMember, TypeOK
  <2>4. QED
    BY <1>6, <2>2, <2>3 DEF RunReturns, TypeOK
<1>7. QED
  BY <1>1, <1>2, <1>3, <1>4, <1>5, <1>6 DEF DispatcherNext

\* Every step of a worker goroutine keeps it.
LEMMA TypeInvWorker ==
  ASSUME NEW w \in Worker, TypeInv, WorkerNext(w) PROVE TypeInv'
<1> USE PoolAssumption
    DEF TypeInv, HeldWhenSending, JobWhenBusy, OffIsOver, AttemptInLoop,
        Delivering, Committing, GoTo
<1>a. /\ wpc \in [Worker -> {"idle", "exited"} \cup Delivering \cup Committing]
      /\ job \in [Worker -> Event \cup {NoEvent}]
      /\ attempt \in [Worker -> 0 .. MaxRetries + 1]
      /\ ProcessOf \in [Worker -> Process]
  BY DEF TypeOK
<1>1. CASE Dispatch(w)
  <2> DEFINE i == ProcessOf[w]
  <2>1. held[i] \in Event
    BY <1>1, <1>a DEF Dispatch, TypeOK
  <2>2. /\ job' \in [Worker -> Event \cup {NoEvent}]
        /\ held' \in [Process -> Event \cup {NoEvent}]
        /\ handled' \in SUBSET Event
        /\ dpc' \in [Process -> Fetching \cup {"wait", "off"}]
    BY <1>1, <1>a, <2>1 DEF Dispatch, TypeOK, Fetching
  <2>3. /\ wpc' \in [Worker -> {"idle", "exited"} \cup Delivering \cup Committing]
        /\ attempt' \in [Worker -> 0 .. MaxRetries + 1]
    BY <1>1, <1>a DEF Dispatch
  <2>4. TypeOK'
    BY <1>1, <2>2, <2>3 DEF Dispatch, TypeOK
  <2>5. HeldWhenSending' /\ OffIsOver'
    BY <1>1, <1>a DEF Dispatch, TypeOK
  <2>6. JobWhenBusy' /\ AttemptInLoop'
    BY <1>1, <1>a, <2>1 DEF Dispatch
  <2>7. QED
    BY <2>4, <2>5, <2>6
<1>2. CASE StartAttempt(w)
  BY <1>2 DEF StartAttempt, TypeOK
<1>3. CASE AttemptCancelled(w)
  <2>1. /\ wpc' \in [Worker -> {"idle", "exited"} \cup Delivering \cup Committing]
        /\ attempt' \in [Worker -> 0 .. MaxRetries + 1]
    BY <1>3, <1>a DEF AttemptCancelled, AfterCancel
  <2>2. TypeOK'
    BY <1>3, <2>1 DEF AttemptCancelled, TypeOK
  <2>3. QED
    BY <1>3, <1>a, <2>2 DEF AttemptCancelled, AfterCancel
<1>4. CASE SendAccepted(w)
  <2>1. accepts' \in [Notification -> Nat]
    BY <1>4, CountType DEF SendAccepted, TypeOK
  <2>2. TypeOK'
    BY <1>4, <2>1 DEF SendAccepted, AfterSuccess, TypeOK
  <2>3. QED
    BY <1>4, <1>a, <2>2 DEF SendAccepted, AfterSuccess
<1>5. CASE SendFails(w)
  BY <1>5, <1>a DEF SendFails, AfterFailure, MayRetry, TypeOK
<1>6. CASE BackoffEnds(w)
  <2>1. /\ wpc' \in [Worker -> {"idle", "exited"} \cup Delivering \cup Committing]
        /\ attempt' \in [Worker -> 0 .. MaxRetries + 1]
    BY <1>6, <1>a DEF BackoffEnds
  <2>2. TypeOK'
    BY <1>6, <2>1 DEF BackoffEnds, TypeOK
  <2>3. QED
    BY <1>6, <1>a, <2>2 DEF BackoffEnds
<1>7. CASE BackoffCancelled(w)
  BY <1>7 DEF BackoffCancelled, AfterCancel, TypeOK
<1>8. CASE MarkSent(w)
  <2>1. job[w] \in Event /\ attempt[w] \in Nat
    BY <1>8, <1>a DEF MarkSent
  <2>2. rows' \in [Notification -> Row]
    BY <1>8, <2>1 DEF MarkSent, TypeOK, Row, Status
  <2>3. /\ wpc' \in [Worker -> {"idle", "exited"} \cup Delivering \cup Committing]
        /\ attempt' \in [Worker -> 0 .. MaxRetries + 1]
    BY <1>8, <1>a DEF MarkSent
  <2>4. TypeOK'
    BY <1>8, <2>1, <2>2, <2>3 DEF MarkSent, TypeOK
  <2>5. QED
    BY <1>8, <1>a, <2>4 DEF MarkSent
<1>9. CASE MarkFailed(w)
  <2>1. job[w] \in Event /\ attempt[w] \in Nat
    BY <1>9, <1>a DEF MarkFailed
  <2>2. rows' \in [Notification -> Row]
    BY <1>9, <2>1, GivenUpType DEF MarkFailed, TypeOK
  <2>3. /\ wpc' \in [Worker -> {"idle", "exited"} \cup Delivering \cup Committing]
        /\ attempt' \in [Worker -> 0 .. MaxRetries + 1]
    BY <1>9, <1>a DEF MarkFailed
  <2>4. TypeOK'
    BY <1>9, <2>1, <2>2, <2>3 DEF MarkFailed, TypeOK
  <2>5. QED
    BY <1>9, <1>a, <2>4 DEF MarkFailed
<1>10. CASE MarkFails(w)
  <2>1. job[w] \in Event
    BY <1>10, <1>a DEF MarkFails
  <2>2. budget' \in [Fault -> Nat]
    BY <1>10, SpendType DEF MarkFails, TypeOK, Fault
  <2>3. /\ wpc' \in [Worker -> {"idle", "exited"} \cup Delivering \cup Committing]
        /\ attempt' \in [Worker -> 0 .. MaxRetries + 1]
    BY <1>10, <1>a DEF MarkFails
  <2>4. TypeOK'
    BY <1>10, <2>1, <2>2, <2>3 DEF MarkFails, TypeOK
  <2>5. QED
    BY <1>10, <1>a, <2>4 DEF MarkFails
<1>11. CASE StartCommit(w)
  BY <1>11 DEF StartCommit, TypeOK
<1>12. CASE CommitSucceeds(w)
  <2>1. job[w] \in Event
    BY <1>12, <1>a DEF CommitSucceeds
  <2>2. committed' \in [Partition -> Nat]
    BY <1>12, <2>1 DEF CommitSucceeds, TypeOK, Event
  <2>3. /\ wpc' \in [Worker -> {"idle", "exited"} \cup Delivering \cup Committing]
        /\ job' \in [Worker -> Event \cup {NoEvent}]
    BY <1>12, <1>a DEF CommitSucceeds, Release
  <2>4. TypeOK'
    BY <1>12, <2>2, <2>3 DEF CommitSucceeds, TypeOK
  <2>5. QED
    BY <1>12, <1>a, <2>4 DEF CommitSucceeds, Release
<1>13. CASE CommitFails(w)
  <2>1. budget' \in [Fault -> Nat]
    BY <1>13, SpendType DEF CommitFails, TypeOK, Fault
  <2>2. /\ wpc' \in [Worker -> {"idle", "exited"} \cup Delivering \cup Committing]
        /\ job' \in [Worker -> Event \cup {NoEvent}]
    BY <1>13, <1>a DEF CommitFails, Release, AfterCommitError
  <2>3. TypeOK'
    BY <1>13, <2>1, <2>2 DEF CommitFails, TypeOK
  <2>4. QED
    BY <1>13, <1>a, <2>3 DEF CommitFails, Release, AfterCommitError
<1>14. CASE WorkerExits(w)
  BY <1>14 DEF WorkerExits, TypeOK
<1>15. QED
  BY <1>1, <1>2, <1>3, <1>4, <1>5, <1>6, <1>7, <1>8, <1>9, <1>10, <1>11,
     <1>12, <1>13, <1>14 DEF WorkerNext

\* Stopping, killing and starting a process keeps it.
LEMMA TypeInvProcess ==
  ASSUME NEW i \in Process, TypeInv, ProcessNext(i) PROVE TypeInv'
<1> USE PoolAssumption
    DEF TypeInv, HeldWhenSending, JobWhenBusy, OffIsOver, AttemptInLoop
<1>1. CASE Stop(i)
  <2>1. budget' \in [Fault -> Nat]
    BY <1>1, SpendType DEF Stop, TypeOK, Fault
  <2>2. TypeOK'
    BY <1>1, <2>1 DEF Stop, TypeOK
  <2>3. QED
    BY <1>1, <2>2 DEF Stop
<1>2. CASE Crash(i)
  <2> DEFINE mine == {w \in Worker : ProcessOf[w] = i}
  <2>1. budget' \in [Fault -> Nat]
    BY <1>2, SpendType DEF Crash, TypeOK, Fault
  <2>2. abandoned' \in SUBSET Event
    BY <1>2 DEF Crash, TypeOK
  <2>3. /\ wpc' \in [Worker -> {"idle", "exited"} \cup Delivering \cup Committing]
        /\ job' \in [Worker -> Event \cup {NoEvent}]
        /\ attempt' \in [Worker -> 0 .. MaxRetries + 1]
    BY <1>2 DEF Crash, TypeOK
  <2>4. owner' \in [Partition -> Process \cup {NoProcess}]
    BY <1>2 DEF Crash, WithoutMember, TypeOK
  <2>5. TypeOK'
    BY <1>2, <2>1, <2>2, <2>3, <2>4 DEF Crash, TypeOK
  <2>6. HeldWhenSending' /\ JobWhenBusy' /\ AttemptInLoop'
    BY <1>2 DEF Crash, TypeOK
  <2>7. OffIsOver'
    <3> SUFFICES ASSUME NEW j \in Process, dpc'[j] = "off"
                 PROVE  /\ \A w \in Worker : ProcessOf[w] = j => wpc'[w] = "exited"
                        /\ \A p \in Partition : owner'[p] # j
      OBVIOUS
    <3>1. CASE j = i
      BY <1>2, <3>1 DEF Crash, WithoutMember, TypeOK
    <3>2. CASE j # i
      <4>1. dpc[j] = "off"
        BY <1>2, <3>2 DEF Crash, TypeOK
      <4>2. QED
        BY <1>2, <3>2, <4>1 DEF Crash, WithoutMember, TypeOK
    <3>3. QED
      BY <3>1, <3>2
  <2>8. QED
    BY <2>5, <2>6, <2>7
<1>3. CASE Start(i)
  <2>1. TypeOK'
    BY <1>3 DEF Start, TypeOK, Fetching, Delivering, Committing
  <2>2. QED
    BY <1>3, <2>1 DEF Start, TypeOK
<1>4. QED
  BY <1>1, <1>2, <1>3 DEF ProcessNext

\* Every step keeps the invariant.
LEMMA TypeInvNext == TypeInv /\ [Next]_vars => TypeInv'
<1> SUFFICES ASSUME TypeInv, [Next]_vars PROVE TypeInv'
  OBVIOUS
<1>1. CASE UNCHANGED vars
  BY <1>1 DEF vars, TypeInv, TypeOK, HeldWhenSending, JobWhenBusy, OffIsOver,
              AttemptInLoop
<1>2. CASE Idle
  BY <1>1, <1>2 DEF Idle
<1>3. CASE EnvironmentNext
  BY <1>3, TypeInvEnvironment
<1>4. ASSUME NEW i \in Process, DispatcherNext(i) \/ ProcessNext(i)
      PROVE  TypeInv'
  BY <1>4, TypeInvDispatcher, TypeInvProcess
<1>5. ASSUME NEW w \in Worker, WorkerNext(w) PROVE TypeInv'
  BY <1>5, TypeInvWorker
<1>6. QED
  BY <1>1, <1>2, <1>3, <1>4, <1>5 DEF Next

\* Every reachable state satisfies the invariant.
LEMMA TypeInvariant == Spec => []TypeInv
<1>1. QED
  BY TypeInvInit, TypeInvNext, PTL DEF Spec

\* The worker tier is type correct: among other things the attempt counter of
\* deliverWithRetry never leaves 0 .. MaxRetries + 1, and a committed offset
\* is always that of an event in hand.
THEOREM TypeCorrect == Spec => []TypeOK
<1>1. TypeInv => TypeOK
  BY DEF TypeInv
<1>2. QED
  BY <1>1, TypeInvariant, PTL

-----------------------------------------------------------------------------
(* The committed offset never passes an event no worker has had in hand.   *)

\* A goroutine commits only what it has finished.
HandledWhenCommitting ==
  \A w \in Worker : wpc[w] \in Committing => job[w] \in handled

\* The events before the one a goroutine works on are accounted for.
BehindJob ==
  \A w \in Worker : job[w] # NoEvent =>
    \A o \in 0 .. job[w].offset - 1 : EventAt(job[w].partition, o) \in Accounted

\* So are those before the one a dispatcher is about to hand over.
BehindHeld ==
  \A i \in Process : held[i] # NoEvent =>
    \A o \in 0 .. held[i].offset - 1 : EventAt(held[i].partition, o) \in Accounted

\* A running dispatcher has handed over all its reader returned, but one.
BehindPosition ==
  \A p \in Partition, i \in Process : owner[p] = i /\ dpc[i] \in Fetching =>
    \A o \in 0 .. position[p] - 1 :
      EventAt(p, o) \in Accounted \/ held[i] = EventAt(p, o)

Behind == BehindJob /\ BehindHeld /\ BehindPosition /\ CommittedAccounted

AccountedInv == TypeInv /\ HandledWhenCommitting /\ Behind

\* Once accounted for, always accounted for.
AccountedStays == Accounted \cap Event \subseteq Accounted'

\* A step that moves no event, offset or partition, and starts no dispatcher.
Quiet ==
  /\ UNCHANGED <<committed, owner, position, held, job>>
  /\ \A i \in Process : dpc'[i] \in Fetching => dpc[i] \in Fetching

\* Nothing is committed, fetched or in hand at first.
LEMMA AccountedInvInit == Init => AccountedInv
<1> SUFFICES ASSUME Init PROVE AccountedInv
  OBVIOUS
<1>1. TypeInv
  BY TypeInvInit
<1>2. HandledWhenCommitting
  BY DEF Init, HandledWhenCommitting, Committing
<1>3. Behind
  BY DEF Init, Behind, BehindJob, BehindHeld, BehindPosition, CommittedAccounted
<1>4. QED
  BY <1>1, <1>2, <1>3 DEF AccountedInv

\* All steps but a few are quiet.
LEMMA LoudSteps ==
  ASSUME TypeInv, Next
  PROVE  \/ Quiet
         \/ Rebalance
         \/ \E i \in Process : \/ \E p \in Partition : Fetch(i, p)
                               \/ DropOnCancel(i) \/ RunReturns(i)
                               \/ Crash(i) \/ Start(i)
         \/ \E w \in Worker : Dispatch(w) \/ CommitSucceeds(w) \/ CommitFails(w)
<1> USE DEF Quiet
<1>1. CASE EnvironmentNext
  BY <1>1 DEF EnvironmentNext, Enqueue, Republish, PublishPoison
<1>2. ASSUME NEW i \in Process, FetchFails(i) \/ PauseEnds(i) \/ FetchCancelled(i)
      PROVE  Quiet
  BY <1>2 DEF FetchFails, PauseEnds, FetchCancelled, TypeInv, TypeOK, Fetching,
              AfterCancelledFetch
<1>3. ASSUME NEW i \in Process, Stop(i) PROVE Quiet
  BY <1>3 DEF Stop
<1>4. ASSUME NEW w \in Worker, WorkerNext(w)
      PROVE  Quiet \/ Dispatch(w) \/ CommitSucceeds(w) \/ CommitFails(w)
  BY <1>4 DEF WorkerNext, StartAttempt, AttemptCancelled, SendAccepted, SendFails,
              BackoffEnds, BackoffCancelled, MarkSent, MarkFailed, MarkFails,
              StartCommit, WorkerExits
<1>5. CASE Idle
  BY <1>5 DEF Idle, vars
<1>6. QED
  BY <1>1, <1>2, <1>3, <1>4, <1>5 DEF Next, DispatcherNext, ProcessNext

\* A goroutine that commits has finished its event: by cases on what it did.
LEMMA HandledNext ==
  ASSUME TypeInv, HandledWhenCommitting, [Next]_vars
  PROVE  HandledWhenCommitting'
<1> USE DEF HandledWhenCommitting, Committing
<1>a. /\ wpc \in [Worker -> {"idle", "exited"} \cup Delivering \cup Committing]
      /\ job \in [Worker -> Event \cup {NoEvent}]
  BY DEF TypeInv, TypeOK
<1>1. CASE UNCHANGED vars
  BY <1>1 DEF vars
<1>2. CASE EnvironmentNext
  BY <1>2 DEF EnvironmentNext, Enqueue, Republish, PublishPoison, Rebalance
<1>3. ASSUME NEW i \in Process, DispatcherNext(i) PROVE HandledWhenCommitting'
  BY <1>3 DEF DispatcherNext, Fetch, FetchFails, PauseEnds, FetchCancelled,
              DropOnCancel, RunReturns
<1>4. ASSUME NEW i \in Process, ProcessNext(i) PROVE HandledWhenCommitting'
  <2>1. CASE Stop(i)
    BY <2>1 DEF Stop
  <2>2. CASE Crash(i)
    BY <2>2, <1>a DEF Crash
  <2>3. CASE Start(i)
    BY <2>3, <1>a DEF Start
  <2>4. QED
    BY <1>4, <2>1, <2>2, <2>3 DEF ProcessNext
<1>5. ASSUME NEW w \in Worker, WorkerNext(w) PROVE HandledWhenCommitting'
  <2>1. CASE Dispatch(w)
    BY <2>1, <1>a DEF Dispatch
  <2>2. CASE MarkSent(w) \/ MarkFailed(w) \/ MarkFails(w)
    BY <2>2, <1>a DEF MarkSent, MarkFailed, MarkFails, GoTo
  <2>3. CASE StartCommit(w)
    BY <2>3, <1>a DEF StartCommit, GoTo
  <2>4. CASE CommitSucceeds(w) \/ CommitFails(w)
    BY <2>4, <1>a DEF CommitSucceeds, CommitFails, Release, AfterCommitError
  <2>5. CASE \/ StartAttempt(w) \/ AttemptCancelled(w) \/ SendAccepted(w)
             \/ SendFails(w) \/ BackoffEnds(w) \/ BackoffCancelled(w)
             \/ WorkerExits(w)
    BY <2>5, <1>a
       DEF StartAttempt, AttemptCancelled, SendAccepted, SendFails, BackoffEnds,
           BackoffCancelled, WorkerExits, GoTo, AfterCancel, AfterSuccess,
           AfterFailure
  <2>6. QED
    BY <1>5, <2>1, <2>2, <2>3, <2>4, <2>5 DEF WorkerNext
<1>6. QED
  BY <1>1, <1>2, <1>3, <1>4, <1>5 DEF Next, Idle

\* What was handled or abandoned stays so.
LEMMA HistoryGrows ==
  [Next]_vars => handled \subseteq handled' /\ abandoned \subseteq abandoned'
<1> SUFFICES ASSUME [Next]_vars
             PROVE  handled \subseteq handled' /\ abandoned \subseteq abandoned'
  OBVIOUS
<1>1. CASE EnvironmentNext
  BY <1>1 DEF EnvironmentNext, Enqueue, Republish, PublishPoison, Rebalance
<1>2. ASSUME NEW i \in Process, DispatcherNext(i)
      PROVE  handled \subseteq handled' /\ abandoned \subseteq abandoned'
  BY <1>2 DEF DispatcherNext, Fetch, FetchFails, PauseEnds, FetchCancelled,
              DropOnCancel, RunReturns
<1>3. ASSUME NEW i \in Process, ProcessNext(i)
      PROVE  handled \subseteq handled' /\ abandoned \subseteq abandoned'
  BY <1>3 DEF ProcessNext, Stop, Crash, Start
<1>4. ASSUME NEW w \in Worker, WorkerNext(w)
      PROVE  handled \subseteq handled' /\ abandoned \subseteq abandoned'
  BY <1>4 DEF WorkerNext, Dispatch, StartAttempt, AttemptCancelled,
              SendAccepted, SendFails, BackoffEnds, BackoffCancelled, MarkSent,
              MarkFailed, MarkFails, StartCommit, CommitSucceeds, CommitFails,
              WorkerExits
<1>5. QED
  BY <1>1, <1>2, <1>3, <1>4 DEF Next, Idle, vars

\* No step loses sight of an event: a goroutine lets go of an event only when
\* it has handled it or dies with it.
LEMMA AccountedKept ==
  ASSUME TypeInv, HandledWhenCommitting, [Next]_vars
  PROVE  AccountedStays
<1>a. /\ job \in [Worker -> Event \cup {NoEvent}]
      /\ wpc \in [Worker -> {"idle", "exited"} \cup Delivering \cup Committing]
      /\ NoEvent \notin Event
  BY PoolAssumption DEF TypeInv, TypeOK
<1>1. handled \subseteq handled' /\ abandoned \subseteq abandoned'
  BY HistoryGrows
<1>2. \A w \in Worker : \/ job'[w] = job[w]
                        \/ job[w] \in {NoEvent} \cup handled' \cup abandoned'
  <2>1. CASE Quiet \/ UNCHANGED vars
    BY <2>1 DEF Quiet, vars
  <2>2. CASE Rebalance
    BY <2>2 DEF Rebalance
  <2>3. ASSUME NEW i \in Process,
               \/ \E p \in Partition : Fetch(i, p)
               \/ DropOnCancel(i) \/ RunReturns(i) \/ Start(i)
        PROVE  UNCHANGED job
    BY <2>3 DEF Fetch, DropOnCancel, RunReturns, Start
  <2>4. ASSUME NEW i \in Process, Crash(i), NEW w \in Worker
        PROVE  \/ job'[w] = job[w]
               \/ job[w] \in {NoEvent} \cup handled' \cup abandoned'
    BY <2>4, <1>a DEF Crash
  <2>5. ASSUME NEW v \in Worker, Dispatch(v), NEW w \in Worker
        PROVE  job'[w] = job[w] \/ job[w] = NoEvent
    BY <2>5, <1>a DEF Dispatch, TypeInv, JobWhenBusy
  <2>6. ASSUME NEW v \in Worker, CommitSucceeds(v) \/ CommitFails(v),
               NEW w \in Worker
        PROVE  job'[w] = job[w] \/ job[w] \in handled'
    BY <2>6, <1>1, <1>a
       DEF CommitSucceeds, CommitFails, Release, HandledWhenCommitting, Committing
  <2>7. QED
    BY <2>1, <2>2, <2>3, <2>4, <2>5, <2>6, LoudSteps
<1>3. QED
  BY <1>1, <1>2, <1>a DEF AccountedStays, Accounted, InHand

\* The conjuncts of Behind, step by step.  What is accounted for stays so; a
\* step matters only for the job, held event, position or offset it moves.
LEMMA BehindNext ==
  ASSUME TypeInv, HandledWhenCommitting, Behind, AccountedStays, Next
  PROVE  Behind'
<1> USE PoolAssumption
    DEF Behind, BehindJob, BehindHeld, BehindPosition, CommittedAccounted,
        AccountedStays
<1>a. /\ \A p \in Partition, o \in Nat : EventAt(p, o) \in Event
      /\ \A e \in Event : /\ e = EventAt(e.partition, e.offset)
                          /\ e.partition \in Partition /\ e.offset \in Nat
  BY DEF EventAt, Event
<1>b. /\ committed \in [Partition -> Nat]
      /\ position \in [Partition -> Nat]
      /\ owner \in [Partition -> Process \cup {NoProcess}]
      /\ dpc \in [Process -> Fetching \cup {"wait", "off"}]
      /\ held \in [Process -> Event \cup {NoEvent}]
      /\ job \in [Worker -> Event \cup {NoEvent}]
  BY DEF TypeInv, TypeOK
<1> HIDE DEF EventAt, Event
<1>1. CASE Quiet
  <2>1. BehindJob' /\ BehindHeld'
    BY <1>1, <1>a, <1>b DEF Quiet
  <2>2. BehindPosition'
    BY <1>1, <1>a, <1>b DEF Quiet
  <2>3. CommittedAccounted'
    BY <1>1, <1>a, <1>b DEF Quiet
  <2>4. QED
    BY <2>1, <2>2, <2>3
<1>2. CASE Rebalance
  <2>1. BehindJob' /\ BehindHeld' /\ CommittedAccounted'
    BY <1>2, <1>a, <1>b DEF Rebalance
  <2>2. BehindPosition'
    BY <1>2, <1>a, <1>b DEF Rebalance, ResumeAt
  <2>3. QED
    BY <2>1, <2>2
<1>3. ASSUME NEW i \in Process, NEW p \in Partition, Fetch(i, p) PROVE Behind'
  <2>1. /\ held[i] = NoEvent /\ owner[p] = i /\ dpc[i] \in Fetching
        /\ held' = [held EXCEPT ![i] = EventAt(p, position[p])]
        /\ position' = [position EXCEPT ![p] = @ + 1]
        /\ UNCHANGED <<committed, owner, job>>
        /\ \A j \in Process : dpc'[j] \in Fetching => dpc[j] \in Fetching
    BY <1>3, <1>b DEF Fetch, EventAt, TypeInv, HeldWhenSending, Fetching
  <2>2. \A o \in 0 .. position[p] - 1 : EventAt(p, o) \in Accounted
    BY <2>1, <1>a, <1>b
  <2>3. BehindJob' /\ CommittedAccounted'
    BY <2>1, <1>a, <1>b
  <2>4. BehindHeld'
    <3> SUFFICES ASSUME NEW j \in Process, held'[j] # NoEvent,
                        NEW o \in 0 .. held'[j].offset - 1
                 PROVE  EventAt(held'[j].partition, o) \in Accounted'
      OBVIOUS
    <3>1. CASE j = i
      <4>1. held'[j] = EventAt(p, position[p])
        BY <2>1, <3>1, <1>b
      <4>2. held'[j].partition = p /\ held'[j].offset = position[p]
        BY <4>1 DEF EventAt
      <4>3. QED
        BY <2>2, <4>2, <1>a, <1>b
    <3>2. CASE j # i
      BY <2>1, <3>2, <1>a, <1>b
    <3>3. QED
      BY <3>1, <3>2
  <2>5. BehindPosition'
    <3> SUFFICES ASSUME NEW q \in Partition, NEW j \in Process,
                        owner'[q] = j, dpc'[j] \in Fetching,
                        NEW o \in 0 .. position'[q] - 1
                 PROVE  EventAt(q, o) \in Accounted' \/ held'[j] = EventAt(q, o)
      OBVIOUS
    <3>1. CASE q = p
      <4>1. j = i /\ position'[q] = position[p] + 1
        BY <2>1, <3>1, <1>b
      <4>2. CASE o = position[p]
        BY <2>1, <3>1, <4>1, <4>2, <1>b
      <4>3. CASE o \in 0 .. position[p] - 1
        BY <2>2, <3>1, <4>3, <1>a, <1>b
      <4>4. position[p] \in Nat /\ o \in 0 .. position[p]
        BY <4>1, <1>b
      <4>5. QED
        BY <4>2, <4>3, <4>4
    <3>2. CASE q # p /\ j = i
      <4>1. o \in 0 .. position[q] - 1 /\ owner[q] = i
        BY <2>1, <3>2, <1>b
      <4>2. EventAt(q, o) \in Accounted
        BY <2>1, <4>1, <1>a, <1>b
      <4>3. QED
        BY <4>2, <4>1, <1>a, <1>b
    <3>3. CASE q # p /\ j # i
      BY <2>1, <3>3, <1>a, <1>b
    <3>4. QED
      BY <3>1, <3>2, <3>3, <2>1, <1>b
  <2>6. QED
    BY <2>3, <2>4, <2>5
<1>4. ASSUME NEW i \in Process, DropOnCancel(i) PROVE Behind'
  <2>1. /\ held' = [held EXCEPT ![i] = NoEvent]
        /\ dpc' = [dpc EXCEPT ![i] = "wait"]
        /\ UNCHANGED <<committed, owner, position, job>>
    BY <1>4 DEF DropOnCancel, AfterDrop
  <2>2. BehindJob' /\ BehindHeld' /\ CommittedAccounted'
    BY <2>1, <1>a, <1>b
  <2>3. BehindPosition'
    BY <2>1, <1>a, <1>b DEF Fetching
  <2>4. QED
    BY <2>2, <2>3
<1>5. ASSUME NEW i \in Process, RunReturns(i) \/ Crash(i) PROVE Behind'
  <2>1. /\ owner' = WithoutMember(i)
        /\ dpc' = [dpc EXCEPT ![i] = "off"]
        /\ \A j \in Process : held'[j] = held[j] \/ (j = i /\ held'[j] = NoEvent)
        /\ \A w \in Worker : job'[w] \in {job[w], NoEvent}
        /\ UNCHANGED <<committed, position>>
    BY <1>5, <1>b DEF RunReturns, Crash
  <2>2. BehindJob' /\ BehindHeld' /\ CommittedAccounted'
    BY <2>1, <1>a, <1>b
  <2>3. BehindPosition'
    BY <2>1, <1>a, <1>b DEF Fetching, WithoutMember
  <2>4. QED
    BY <2>2, <2>3
<1>6. ASSUME NEW i \in Process, Start(i) PROVE Behind'
  <2>1. /\ \A p \in Partition : owner[p] # i
        /\ dpc' = [dpc EXCEPT ![i] = "fetch"]
        /\ UNCHANGED <<committed, owner, position, held, job>>
    BY <1>6 DEF Start, TypeInv, OffIsOver
  <2>2. BehindJob' /\ BehindHeld' /\ CommittedAccounted'
    BY <2>1, <1>a, <1>b
  <2>3. BehindPosition'
    BY <2>1, <1>a, <1>b
  <2>4. QED
    BY <2>2, <2>3
<1>7. ASSUME NEW w \in Worker, Dispatch(w) PROVE Behind'
  <2> DEFINE i == ProcessOf[w]
  <2>1. /\ i \in Process /\ held[i] \in Event
        /\ job' = [job EXCEPT ![w] = held[i]]
        /\ held' = [held EXCEPT ![i] = NoEvent]
        /\ dpc[i] \in Fetching
        /\ \A j \in Process : dpc'[j] \in Fetching => dpc[j] \in Fetching
        /\ UNCHANGED <<committed, owner, position>>
    BY <1>7, <1>b DEF Dispatch, TypeInv, HeldWhenSending, Fetching
  <2>2. held[i] \in Accounted'
    BY <2>1, <1>b DEF Accounted, InHand
  <2>3. BehindHeld' /\ CommittedAccounted'
    BY <2>1, <1>a, <1>b
  <2>4. BehindJob'
    BY <2>1, <1>a, <1>b
  <2>5. BehindPosition'
    BY <2>1, <2>2, <1>a, <1>b
  <2>6. QED
    BY <2>3, <2>4, <2>5
<1>8. ASSUME NEW w \in Worker, CommitSucceeds(w) \/ CommitFails(w) PROVE Behind'
  <2>1. /\ job[w] \in Event /\ job[w] \in handled
        /\ job' = [job EXCEPT ![w] = NoEvent]
        /\ UNCHANGED <<owner, position, dpc, held, handled>>
        /\ \/ committed' = committed
           \/ committed' = [committed EXCEPT ![job[w].partition] = job[w].offset + 1]
    BY <1>8, <1>b
       DEF CommitSucceeds, CommitFails, Release, HandledWhenCommitting, Committing,
           TypeInv, JobWhenBusy
  <2>2. BehindJob' /\ BehindHeld' /\ BehindPosition'
    BY <2>1, <1>a, <1>b
  <2>3. job[w] \in Accounted
    BY <2>1 DEF Accounted
  <2> DEFINE q == job[w].partition
             n == job[w].offset
  <2>4. q \in Partition /\ n \in Nat /\ job[w] = EventAt(q, n)
    BY <2>1, <1>a
  <2>5. \A o \in 0 .. n : EventAt(q, o) \in Accounted
    <3> SUFFICES ASSUME NEW o \in 0 .. n PROVE EventAt(q, o) \in Accounted
      OBVIOUS
    <3>1. CASE o = n
      BY <2>3, <2>4, <3>1
    <3>2. CASE o \in 0 .. n - 1
      BY <2>1, <3>2, <1>b
    <3>3. QED
      BY <2>4, <3>1, <3>2
  <2>6. CommittedAccounted'
    <3> HIDE DEF q, n
    <3>1. \/ committed' = committed
          \/ committed' = [committed EXCEPT ![q] = n + 1]
      BY <2>1 DEF q, n
    <3>2. SUFFICES ASSUME NEW p \in Partition, NEW o \in 0 .. committed'[p] - 1
                   PROVE  EventAt(p, o) \in Accounted
      BY <1>a, <1>b
    <3>3. CASE o \in 0 .. committed[p] - 1
      BY <3>3
    <3>4. CASE p = q /\ committed'[p] = n + 1
      <4>1. o \in 0 .. n
        BY <2>4, <3>4
      <4>2. QED
        BY <2>5, <3>4, <4>1
    <3>5. QED
      BY <2>4, <3>1, <3>3, <3>4, <1>b
  <2>7. QED
    BY <2>2, <2>6
<1>9. QED
  BY <1>1, <1>2, <1>3, <1>4, <1>5, <1>6, <1>7, <1>8, LoudSteps

\* Every step keeps the invariant.
LEMMA AccountedInvNext == AccountedInv /\ [Next]_vars => AccountedInv'
<1> SUFFICES ASSUME AccountedInv, [Next]_vars PROVE AccountedInv'
  OBVIOUS
<1> USE DEF AccountedInv
<1>1. TypeInv'
  BY TypeInvNext
<1>2. HandledWhenCommitting'
  BY HandledNext
<1>3. CASE UNCHANGED vars
  BY <1>1, <1>2, <1>3
     DEF vars, Behind, BehindJob, BehindHeld, BehindPosition, CommittedAccounted,
         Accounted, InHand
<1>4. CASE Next
  BY <1>1, <1>2, <1>4, AccountedKept, BehindNext
<1>5. QED
  BY <1>3, <1>4

\* However many goroutines and processes work on a partition, commit in
\* whatever order, crash, stop or lose the partition: the committed offset
\* never passes an event that was not handed to a goroutine (pool.go:62-97).
THEOREM NothingSkipped == Spec => []CommittedAccounted
<1>1. AccountedInv => CommittedAccounted
  BY DEF AccountedInv, Behind
<1>2. QED
  BY <1>1, AccountedInvInit, AccountedInvNext, PTL DEF Spec

-----------------------------------------------------------------------------
(* What a goroutine works on is in the log, and what is in the log has a   *)
(* row.                                                                    *)

Known == {n \in Notification : rows[n].status # "absent"}

Accepted == {n \in Notification : accepts[n] > 0}

Logged == {e \in Event : e.offset < Len(log[e.partition])}

\* Every record stands for a row, or for none at all.
LoggedHasRow ==
  \A p \in Partition : \A k \in 1 .. Len(log[p]) :
    log[p][k] \in Known \cup {Poison}

\* Dispatchers and goroutines hold events of the log.
InHandIsLogged ==
  /\ \A i \in Process : held[i] # NoEvent => held[i] \in Logged
  /\ \A w \in Worker : job[w] # NoEvent => job[w] \in Logged

\* Only a record that was decoded is delivered.
DeliveringDecoded ==
  \A w \in Worker : wpc[w] \in Delivering => Record(job[w]) # Poison

\* A goroutine is about to record a success only after one.
AcceptedWhenMarking ==
  \A w \in Worker : wpc[w] = "markSent" => Record(job[w]) \in Accepted

TruthInv ==
  /\ TypeInv
  /\ LoggedHasRow
  /\ InHandIsLogged
  /\ DeliveringDecoded
  /\ AcceptedWhenMarking
  /\ SentIsTruthful

\* Records, rows and acceptances stay.
Grows ==
  /\ \A p \in Partition : /\ Len(log[p]) <= Len(log'[p])
                          /\ \A k \in 1 .. Len(log[p]) : log'[p][k] = log[p][k]
  /\ Known \subseteq Known'
  /\ Accepted \subseteq Accepted'

\* At first there are no records, no events in hand and no rows.
LEMMA TruthInvInit == Init => TruthInv
<1> SUFFICES ASSUME Init PROVE TruthInv
  OBVIOUS
<1>1. TypeInv
  BY TypeInvInit
<1>2. LoggedHasRow /\ InHandIsLogged
  BY DEF Init, LoggedHasRow, InHandIsLogged
<1>3. DeliveringDecoded /\ AcceptedWhenMarking /\ SentIsTruthful
  BY DEF Init, DeliveringDecoded, AcceptedWhenMarking, SentIsTruthful, Delivering
<1>4. QED
  BY <1>1, <1>2, <1>3 DEF TruthInv

\* A delivery is that of a notification which has a row.
LEMMA DeliveringKnown ==
  ASSUME TruthInv, NEW w \in Worker, wpc[w] \in Delivering
  PROVE  /\ job[w] \in Logged
         /\ Record(job[w]) \in Known
<1>1. job[w] \in Event /\ job[w] \in Logged
  BY PoolAssumption
     DEF TruthInv, TypeInv, TypeOK, JobWhenBusy, InHandIsLogged, Delivering
<1>2. /\ job[w].partition \in Partition
      /\ job[w].offset + 1 \in 1 .. Len(log[job[w].partition])
  BY <1>1 DEF Logged, Event, TruthInv, TypeInv, TypeOK
<1>3. QED
  BY <1>1, <1>2 DEF TruthInv, LoggedHasRow, DeliveringDecoded, Record

\* Appending a record keeps those before it.
LEMMA AppendGrows ==
  ASSUME NEW p \in Partition, NEW m \in Notification \cup {Poison},
         log \in [Partition -> Seq(Notification \cup {Poison})], Append1(p, m)
  PROVE  \A q \in Partition :
           /\ Len(log[q]) <= Len(log'[q])
           /\ \A k \in 1 .. Len(log[q]) : log'[q][k] = log[q][k]
           /\ \A k \in 1 .. Len(log'[q]) : k > Len(log[q]) => q = p /\ log'[q][k] = m
<1> SUFFICES ASSUME NEW q \in Partition
             PROVE  /\ Len(log[q]) <= Len(log'[q])
                    /\ \A k \in 1 .. Len(log[q]) : log'[q][k] = log[q][k]
                    /\ \A k \in 1 .. Len(log'[q]) :
                         k > Len(log[q]) => q = p /\ log'[q][k] = m
  OBVIOUS
<1>1. CASE q = p
  <2>1. log[p] \in Seq(Notification \cup {Poison}) /\ log'[p] = Append(log[p], m)
    BY DEF Append1
  <2>2. QED
    BY <2>1, <1>1
<1>2. CASE q # p
  <2>1. log'[q] = log[q]
    BY <1>2 DEF Append1
  <2>2. Len(log[q]) \in Nat
    OBVIOUS
  <2>3. QED
    BY <2>1, <2>2
<1>3. QED
  BY <1>1, <1>2

\* The steps that touch rows, records or acceptances.
LEMMA Writers ==
  ASSUME Next
  PROVE  \/ UNCHANGED <<log, rows, accepts>>
         \/ \E n \in Notification : Enqueue(n) \/ Republish(n)
         \/ \E p \in Partition : PublishPoison(p)
         \/ \E w \in Worker : SendAccepted(w) \/ MarkSent(w) \/ MarkFailed(w)
<1>1. CASE EnvironmentNext
  BY <1>1 DEF EnvironmentNext, Rebalance
<1>2. ASSUME NEW i \in Process, DispatcherNext(i)
      PROVE  UNCHANGED <<log, rows, accepts>>
  BY <1>2 DEF DispatcherNext, Fetch, FetchFails, PauseEnds, FetchCancelled,
              DropOnCancel, RunReturns
<1>3. ASSUME NEW i \in Process, ProcessNext(i)
      PROVE  UNCHANGED <<log, rows, accepts>>
  BY <1>3 DEF ProcessNext, Stop, Crash, Start
<1>4. ASSUME NEW w \in Worker, WorkerNext(w)
      PROVE  \/ UNCHANGED <<log, rows, accepts>>
             \/ SendAccepted(w) \/ MarkSent(w) \/ MarkFailed(w)
  BY <1>4 DEF WorkerNext, Dispatch, StartAttempt, AttemptCancelled, SendFails,
              BackoffEnds, BackoffCancelled, MarkFails, StartCommit,
              CommitSucceeds, CommitFails, WorkerExits
<1>5. CASE Idle
  BY <1>5 DEF Idle, vars
<1>6. QED
  BY <1>1, <1>2, <1>3, <1>4, <1>5 DEF Next

\* Each writing step, as the lifecycle sees it.
LEMMA WriterEffects ==
  ASSUME TruthInv
  PROVE  /\ \A n \in Notification : Enqueue(n) =>
              /\ n \notin Known
              /\ rows' = [rows EXCEPT ![n].status = "pending"]
              /\ Append1(PartitionOf[n], n)
              /\ UNCHANGED accepts
         /\ \A w \in Worker : SendAccepted(w) =>
              \E n \in Known : /\ n = Record(job[w])
                               /\ accepts' = [accepts EXCEPT ![n] = @ + 1]
                               /\ UNCHANGED <<log, rows>>
         /\ \A w \in Worker : MarkSent(w) =>
              \E n \in Known \cap Accepted, a \in Nat :
                /\ rows' = [rows EXCEPT ![n] = [status |-> "sent", attempts |-> a,
                                                sentAt |-> TRUE]]
                /\ UNCHANGED <<log, accepts>>
         /\ \A w \in Worker : MarkFailed(w) =>
              \E n \in Known, a \in Nat :
                /\ rows' = [rows EXCEPT ![n] = [@ EXCEPT !.status = "failed",
                                                         !.attempts = a]]
                /\ UNCHANGED <<log, accepts>>
<1>1. ASSUME NEW n \in Notification, Enqueue(n)
      PROVE  /\ n \notin Known
             /\ rows' = [rows EXCEPT ![n].status = "pending"]
             /\ Append1(PartitionOf[n], n)
             /\ UNCHANGED accepts
  BY <1>1 DEF Enqueue, Known
<1>2. ASSUME NEW w \in Worker, SendAccepted(w)
      PROVE  \E n \in Known : /\ n = Record(job[w])
                              /\ accepts' = [accepts EXCEPT ![n] = @ + 1]
                              /\ UNCHANGED <<log, rows>>
  <2>1. Record(job[w]) \in Known
    BY <1>2, DeliveringKnown DEF SendAccepted, GoTo, Delivering
  <2>2. QED
    BY <1>2, <2>1 DEF SendAccepted
<1>3. ASSUME NEW w \in Worker, MarkSent(w)
      PROVE  \E n \in Known \cap Accepted, a \in Nat :
               /\ rows' = [rows EXCEPT ![n] = [status |-> "sent", attempts |-> a,
                                               sentAt |-> TRUE]]
               /\ UNCHANGED <<log, accepts>>
  <2>1. Record(job[w]) \in Known \cap Accepted
    BY <1>3, DeliveringKnown DEF MarkSent, GoTo, Delivering, TruthInv, AcceptedWhenMarking
  <2>2. attempt[w] \in Nat
    BY PoolAssumption DEF TruthInv, TypeInv, TypeOK
  <2>3. QED
    BY <1>3, <2>1, <2>2 DEF MarkSent
<1>4. ASSUME NEW w \in Worker, MarkFailed(w)
      PROVE  \E n \in Known, a \in Nat :
               /\ rows' = [rows EXCEPT ![n] = [@ EXCEPT !.status = "failed",
                                                        !.attempts = a]]
               /\ UNCHANGED <<log, accepts>>
  <2>1. Record(job[w]) \in Known
    BY <1>4, DeliveringKnown DEF MarkFailed, GoTo, Delivering
  <2>2. attempt[w] \in Nat
    BY PoolAssumption DEF TruthInv, TypeInv, TypeOK
  <2>3. QED
    BY <1>4, <2>1, <2>2 DEF MarkFailed
<1>5. QED
  BY <1>1, <1>2, <1>3, <1>4

\* No step takes back a record, a row or an acceptance.
LEMMA GrowsNext == TruthInv /\ [Next]_vars => Grows
<1> SUFFICES ASSUME TruthInv, [Next]_vars PROVE Grows
  OBVIOUS
<1>a. /\ log \in [Partition -> Seq(Notification \cup {Poison})]
      /\ rows \in [Notification -> Row]
      /\ accepts \in [Notification -> Nat]
      /\ \A p \in Partition : Len(log[p]) \in Nat
  BY DEF TruthInv, TypeInv, TypeOK
<1>1. CASE UNCHANGED <<log, rows, accepts>>
  BY <1>1, <1>a DEF Grows, Known, Accepted
<1>2. ASSUME NEW n \in Notification, Enqueue(n) PROVE Grows
  <2>1. /\ rows' = [rows EXCEPT ![n].status = "pending"]
        /\ Append1(PartitionOf[n], n)
        /\ UNCHANGED accepts
    BY <1>2, WriterEffects
  <2>2. Known \subseteq Known' /\ Accepted \subseteq Accepted'
    BY <2>1, <1>a DEF Known, Accepted, Row
  <2>3. QED
    BY <2>1, <2>2, <1>a, AppendGrows, PoolAssumption DEF Grows
<1>3. ASSUME NEW n \in Notification, Republish(n) PROVE Grows
  <2>1. Append1(PartitionOf[n], n) /\ UNCHANGED <<rows, accepts>>
    BY <1>3 DEF Republish
  <2>2. QED
    BY <2>1, <1>a, AppendGrows, PoolAssumption DEF Grows, Known, Accepted
<1>4. ASSUME NEW p \in Partition, PublishPoison(p) PROVE Grows
  <2>1. Append1(p, Poison) /\ UNCHANGED <<rows, accepts>>
    BY <1>4 DEF PublishPoison
  <2>2. QED
    BY <2>1, <1>a, AppendGrows DEF Grows, Known, Accepted
<1>5. ASSUME NEW w \in Worker, SendAccepted(w) PROVE Grows
  <2>1. PICK n \in Known : /\ accepts' = [accepts EXCEPT ![n] = @ + 1]
                           /\ UNCHANGED <<log, rows>>
    BY <1>5, WriterEffects
  <2>2. Accepted \subseteq Accepted'
    BY <2>1, <1>a DEF Accepted, Known
  <2>3. QED
    BY <2>1, <2>2, <1>a DEF Grows, Known
<1>6. ASSUME NEW w \in Worker, MarkSent(w) PROVE Grows
  <2>1. PICK n \in Known, a \in Nat :
          /\ rows' = [rows EXCEPT ![n] = [status |-> "sent", attempts |-> a,
                                          sentAt |-> TRUE]]
          /\ UNCHANGED <<log, accepts>>
    BY <1>6, WriterEffects
  <2>2. Known \subseteq Known'
    BY <2>1, <1>a DEF Known
  <2>3. QED
    BY <2>1, <2>2, <1>a DEF Grows, Accepted
<1>7. ASSUME NEW w \in Worker, MarkFailed(w) PROVE Grows
  <2>1. PICK n \in Known, a \in Nat :
          /\ rows' = [rows EXCEPT ![n] = [@ EXCEPT !.status = "failed",
                                                   !.attempts = a]]
          /\ UNCHANGED <<log, accepts>>
    BY <1>7, WriterEffects
  <2>2. Known \subseteq Known'
    BY <2>1, <1>a DEF Known, Row
  <2>3. QED
    BY <2>1, <2>2, <1>a DEF Grows, Accepted
<1>8. QED
  BY <1>1, <1>2, <1>3, <1>4, <1>5, <1>6, <1>7, Writers DEF vars

\* So an event of the log stays one, with the same record.
LEMMA LoggedStays ==
  ASSUME TruthInv, TypeInv', Grows
  PROVE  \A e \in Logged : /\ e \in Logged'
                           /\ log'[e.partition][e.offset + 1] = Record(e)
<1> SUFFICES ASSUME NEW e \in Logged
             PROVE  /\ e \in Logged'
                    /\ log'[e.partition][e.offset + 1] = Record(e)
  OBVIOUS
<1>1. /\ e \in Event /\ e.partition \in Partition /\ e.offset \in Nat
      /\ e.offset < Len(log[e.partition])
      /\ Len(log[e.partition]) \in Nat /\ Len(log'[e.partition]) \in Nat
  BY DEF Logged, Event, TruthInv, TypeInv, TypeOK
<1>2. e.offset + 1 \in 1 .. Len(log[e.partition])
  BY <1>1
<1>3. QED
  BY <1>1, <1>2 DEF Grows, Logged, Record

\* A record is written after, or together with, its row.
LEMMA LoggedHasRowNext ==
  ASSUME TruthInv, [Next]_vars, Grows PROVE LoggedHasRow'
<1>a. /\ log \in [Partition -> Seq(Notification \cup {Poison})]
      /\ rows \in [Notification -> Row]
      /\ \A p \in Partition : Len(log[p]) \in Nat
      /\ LoggedHasRow
  BY DEF TruthInv, TypeInv, TypeOK
<1>1. ASSUME UNCHANGED log PROVE LoggedHasRow'
  BY <1>1, <1>a DEF LoggedHasRow, Grows
<1>2. ASSUME NEW p \in Partition, NEW m \in Notification \cup {Poison},
             Append1(p, m), m \in Known' \cup {Poison}
      PROVE  LoggedHasRow'
  <2> SUFFICES ASSUME NEW q \in Partition, NEW k \in 1 .. Len(log'[q])
               PROVE  log'[q][k] \in Known' \cup {Poison}
    BY DEF LoggedHasRow
  <2>1. CASE k > Len(log[q])
    BY <2>1, <1>2, <1>a, AppendGrows
  <2>2. CASE k \in 1 .. Len(log[q])
    BY <2>2, <1>2, <1>a, AppendGrows DEF LoggedHasRow, Grows
  <2>3. QED
    BY <2>1, <2>2, <1>a
<1>3. ASSUME NEW n \in Notification, Enqueue(n) PROVE LoggedHasRow'
  <2>1. /\ rows' = [rows EXCEPT ![n].status = "pending"]
        /\ Append1(PartitionOf[n], n)
    BY <1>3 DEF Enqueue
  <2>2. n \in Known'
    BY <2>1, <1>a DEF Known, Row
  <2>3. QED
    BY <2>1, <2>2, <1>2, PoolAssumption
<1>4. ASSUME NEW n \in Notification, Republish(n) PROVE LoggedHasRow'
  <2>1. n \in Known' /\ Append1(PartitionOf[n], n)
    BY <1>4 DEF Republish, Known, Grows
  <2>2. QED
    BY <2>1, <1>2, PoolAssumption
<1>5. ASSUME NEW p \in Partition, PublishPoison(p) PROVE LoggedHasRow'
  BY <1>5, <1>2 DEF PublishPoison
<1>6. ASSUME NEW w \in Worker, SendAccepted(w) \/ MarkSent(w) \/ MarkFailed(w)
      PROVE  UNCHANGED log
  BY <1>6 DEF SendAccepted, MarkSent, MarkFailed
<1>7. QED
  BY <1>1, <1>3, <1>4, <1>5, <1>6, Writers DEF vars

\* Events in hand come from the log.
LEMMA InHandNext ==
  ASSUME TruthInv, [Next]_vars, TypeInv', Grows PROVE InHandIsLogged'
<1>a. /\ held \in [Process -> Event \cup {NoEvent}]
      /\ job \in [Worker -> Event \cup {NoEvent}]
      /\ InHandIsLogged /\ TypeInv
      /\ Logged \subseteq Logged'
  BY LoggedStays DEF TruthInv, TypeInv, TypeOK
<1>1. ASSUME UNCHANGED <<held, job>> PROVE InHandIsLogged'
  BY <1>1, <1>a DEF InHandIsLogged
<1>2. ASSUME NEW i \in Process, NEW p \in Partition, Fetch(i, p)
      PROVE  InHandIsLogged'
  <2>1. [partition |-> p, offset |-> position[p]] \in Logged
    BY <1>2 DEF Fetch, Logged, Event, TruthInv, TypeInv, TypeOK
  <2>2. /\ held' = [held EXCEPT ![i] = [partition |-> p, offset |-> position[p]]]
        /\ UNCHANGED job
    BY <1>2 DEF Fetch
  <2>3. QED
    BY <2>1, <2>2, <1>a DEF InHandIsLogged
<1>3. ASSUME NEW w \in Worker, Dispatch(w) PROVE InHandIsLogged'
  <2> DEFINE i == ProcessOf[w]
  <2>1. /\ i \in Process /\ held[i] # NoEvent
        /\ job' = [job EXCEPT ![w] = held[i]]
        /\ held' = [held EXCEPT ![i] = NoEvent]
    BY <1>3, <1>a, PoolAssumption DEF Dispatch, TypeInv, HeldWhenSending
  <2>2. held[i] \in Logged
    BY <2>1, <1>a DEF InHandIsLogged
  <2>3. QED
    BY <2>1, <2>2, <1>a DEF InHandIsLogged
<1>4. ASSUME NEW i \in Process, DropOnCancel(i) \/ RunReturns(i) \/ Start(i)
      PROVE  InHandIsLogged'
  BY <1>4, <1>a DEF DropOnCancel, RunReturns, Start, InHandIsLogged
<1>5. ASSUME NEW i \in Process, Crash(i) PROVE InHandIsLogged'
  BY <1>5, <1>a DEF Crash, InHandIsLogged
<1>6. ASSUME NEW w \in Worker, CommitSucceeds(w) \/ CommitFails(w)
      PROVE  InHandIsLogged'
  BY <1>6, <1>a DEF CommitSucceeds, CommitFails, Release, InHandIsLogged
<1>7. CASE Rebalance
  BY <1>1, <1>7 DEF Rebalance
<1>8. CASE Quiet
  BY <1>1, <1>8 DEF Quiet
<1>9. QED
  BY <1>1, <1>2, <1>3, <1>4, <1>5, <1>6, <1>7, <1>8, <1>a, LoudSteps DEF vars

\* Where a goroutine that delivers was before the step.
LEMMA DeliveringSource ==
  ASSUME TypeInv, [Next]_vars, NEW v \in Worker, wpc'[v] \in Delivering
  PROVE  \/ wpc[v] \in Delivering /\ job'[v] = job[v]
         \/ Dispatch(v) /\ Record(job'[v]) # Poison
<1> USE DEF Delivering, Committing
<1>a. /\ wpc \in [Worker -> {"idle", "exited"} \cup Delivering \cup Committing]
      /\ job \in [Worker -> Event \cup {NoEvent}]
  BY DEF TypeInv, TypeOK
<1>1. CASE UNCHANGED vars
  BY <1>1 DEF vars
<1>2. CASE EnvironmentNext
  BY <1>2 DEF EnvironmentNext, Enqueue, Republish, PublishPoison, Rebalance
<1>3. ASSUME NEW i \in Process, DispatcherNext(i) PROVE UNCHANGED <<wpc, job>>
  BY <1>3 DEF DispatcherNext, Fetch, FetchFails, PauseEnds, FetchCancelled,
              DropOnCancel, RunReturns
<1>4. ASSUME NEW i \in Process, ProcessNext(i)
      PROVE  wpc[v] \in Delivering /\ job'[v] = job[v]
  BY <1>4, <1>a DEF ProcessNext, Stop, Crash, Start
<1>5. ASSUME NEW w \in Worker, WorkerNext(w)
      PROVE  \/ wpc[v] \in Delivering /\ job'[v] = job[v]
             \/ Dispatch(v) /\ Record(job'[v]) # Poison
  <2>1. CASE Dispatch(w)
    BY <2>1, <1>a DEF Dispatch
  <2>2. CASE \/ StartAttempt(w) \/ AttemptCancelled(w) \/ SendAccepted(w)
             \/ SendFails(w) \/ BackoffEnds(w) \/ BackoffCancelled(w)
             \/ MarkSent(w) \/ MarkFailed(w) \/ MarkFails(w)
    BY <2>2, <1>a
       DEF StartAttempt, AttemptCancelled, SendAccepted, SendFails, BackoffEnds,
           BackoffCancelled, MarkSent, MarkFailed, MarkFails, GoTo
  <2>3. CASE \/ StartCommit(w) \/ CommitSucceeds(w) \/ CommitFails(w)
             \/ WorkerExits(w)
    BY <2>3, <1>a
       DEF StartCommit, CommitSucceeds, CommitFails, WorkerExits, GoTo, Release,
           AfterCommitError
  <2>4. QED
    BY <1>5, <2>1, <2>2, <2>3 DEF WorkerNext
<1>6. QED
  BY <1>1, <1>2, <1>3, <1>4, <1>5 DEF Next, Idle

\* A goroutine delivers only what it has decoded.
LEMMA DeliveringDecodedNext ==
  ASSUME TruthInv, [Next]_vars, TypeInv', Grows PROVE DeliveringDecoded'
<1> SUFFICES ASSUME NEW v \in Worker, wpc'[v] \in Delivering
             PROVE  log'[job'[v].partition][job'[v].offset + 1] # Poison
  BY DEF DeliveringDecoded, Record
<1>1. CASE wpc[v] \in Delivering /\ job'[v] = job[v]
  <2>1. job[v] \in Logged /\ Record(job[v]) # Poison
    BY <1>1, DeliveringKnown DEF TruthInv, DeliveringDecoded
  <2>2. QED
    BY <1>1, <2>1, LoggedStays
<1>2. CASE Dispatch(v) /\ Record(job'[v]) # Poison
  BY <1>2 DEF Dispatch, Record
<1>3. QED
  BY <1>1, <1>2, DeliveringSource DEF TruthInv

\* Only an accepted Send leads to recording a success.
LEMMA MarkingSource ==
  ASSUME TypeInv, [Next]_vars, NEW v \in Worker, wpc'[v] = "markSent"
  PROVE  wpc[v] = "markSent" \/ SendAccepted(v)
<1>a. wpc \in [Worker -> {"idle", "exited"} \cup Delivering \cup Committing]
  BY DEF TypeInv, TypeOK
<1>1. CASE UNCHANGED vars
  BY <1>1 DEF vars
<1>2. CASE EnvironmentNext
  BY <1>2 DEF EnvironmentNext, Enqueue, Republish, PublishPoison, Rebalance
<1>3. ASSUME NEW i \in Process, DispatcherNext(i) PROVE UNCHANGED wpc
  BY <1>3 DEF DispatcherNext, Fetch, FetchFails, PauseEnds, FetchCancelled,
              DropOnCancel, RunReturns
<1>4. ASSUME NEW i \in Process, ProcessNext(i) PROVE wpc[v] = "markSent"
  BY <1>4, <1>a DEF ProcessNext, Stop, Crash, Start
<1>5. ASSUME NEW w \in Worker, WorkerNext(w)
      PROVE  wpc[v] = "markSent" \/ SendAccepted(v)
  <2>1. CASE Dispatch(w)
    BY <2>1, <1>a DEF Dispatch
  <2>2. CASE SendAccepted(w)
    BY <2>2, <1>a DEF SendAccepted, GoTo
  <2>3. CASE \/ StartAttempt(w) \/ AttemptCancelled(w) \/ SendFails(w)
             \/ BackoffEnds(w) \/ BackoffCancelled(w)
             \/ MarkSent(w) \/ MarkFailed(w) \/ MarkFails(w)
    BY <2>3, <1>a
       DEF StartAttempt, AttemptCancelled, SendFails, BackoffEnds, AfterFailure,
           BackoffCancelled, AfterCancel, MarkSent, MarkFailed, MarkFails, GoTo
  <2>4. CASE \/ StartCommit(w) \/ CommitSucceeds(w) \/ CommitFails(w)
             \/ WorkerExits(w)
    BY <2>4, <1>a
       DEF StartCommit, CommitSucceeds, CommitFails, WorkerExits, GoTo, Release,
           AfterCommitError
  <2>5. QED
    BY <1>5, <2>1, <2>2, <2>3, <2>4 DEF WorkerNext
<1>6. QED
  BY <1>1, <1>2, <1>3, <1>4, <1>5 DEF Next, Idle

\* So a success is recorded only of what was accepted.
LEMMA AcceptedWhenMarkingNext ==
  ASSUME TruthInv, [Next]_vars, TypeInv', Grows PROVE AcceptedWhenMarking'
<1> SUFFICES ASSUME NEW v \in Worker, wpc'[v] = "markSent"
             PROVE  log'[job'[v].partition][job'[v].offset + 1] \in Accepted'
  BY DEF AcceptedWhenMarking, Record
<1>1. wpc[v] \in Delivering /\ Record(job[v]) \in Accepted'
  <2>1. CASE wpc[v] = "markSent"
    BY <2>1 DEF TruthInv, AcceptedWhenMarking, Grows, Delivering
  <2>2. CASE SendAccepted(v)
    <3>1. PICK n \in Known : /\ n = Record(job[v])
                             /\ accepts' = [accepts EXCEPT ![n] = @ + 1]
      BY <2>2, WriterEffects
    <3>2. n \in Accepted'
      BY <3>1 DEF Accepted, Known, TruthInv, TypeInv, TypeOK
    <3>3. QED
      BY <2>2, <3>1, <3>2 DEF SendAccepted, GoTo, Delivering
  <2>3. QED
    BY <2>1, <2>2, MarkingSource DEF TruthInv
<1>2. job[v] \in Logged
  BY <1>1, DeliveringKnown
<1>3. job'[v] = job[v]
  BY <1>1, DeliveringSource DEF Dispatch, TruthInv, Delivering
<1>4. QED
  BY <1>1, <1>2, <1>3, LoggedStays

\* No row says sent, or has a sent_at, without an acceptance.
LEMMA TruthfulNext ==
  ASSUME TruthInv, [Next]_vars, Grows PROVE SentIsTruthful'
<1>a. /\ rows \in [Notification -> Row] /\ accepts \in [Notification -> Nat]
      /\ SentIsTruthful
  BY DEF TruthInv, TypeInv, TypeOK
<1>b. \A n \in Notification : accepts[n] > 0 => accepts'[n] > 0
  BY DEF Grows, Accepted
<1> USE DEF SentIsTruthful
<1>1. ASSUME UNCHANGED rows PROVE SentIsTruthful'
  BY <1>1, <1>a, <1>b
<1>2. ASSUME NEW n \in Notification, Enqueue(n) PROVE SentIsTruthful'
  BY <1>2, <1>a, <1>b DEF Enqueue, Row
<1>3. ASSUME NEW w \in Worker, MarkSent(w) PROVE SentIsTruthful'
  <2>1. PICK n \in Accepted, a \in Nat :
          rows' = [rows EXCEPT ![n] = [status |-> "sent", attempts |-> a,
                                       sentAt |-> TRUE]]
    BY <1>3, WriterEffects
  <2>2. QED
    BY <2>1, <1>a, <1>b DEF Accepted
<1>4. ASSUME NEW w \in Worker, MarkFailed(w) PROVE SentIsTruthful'
  <2>1. PICK n \in Known, a \in Nat :
          rows' = [rows EXCEPT ![n] = [@ EXCEPT !.status = "failed",
                                                !.attempts = a]]
    BY <1>4, WriterEffects
  <2>2. QED
    BY <2>1, <1>a, <1>b DEF Known, Row
<1>5. ASSUME NEW n \in Notification, Republish(n) PROVE UNCHANGED rows
  BY <1>5 DEF Republish
<1>6. ASSUME NEW p \in Partition, PublishPoison(p) PROVE UNCHANGED rows
  BY <1>6 DEF PublishPoison
<1>7. ASSUME NEW w \in Worker, SendAccepted(w) PROVE UNCHANGED rows
  BY <1>7 DEF SendAccepted
<1>8. QED
  BY <1>1, <1>2, <1>3, <1>4, <1>5, <1>6, <1>7, Writers DEF vars

\* Every step keeps the invariant.
LEMMA TruthInvNext == TruthInv /\ [Next]_vars => TruthInv'
<1> SUFFICES ASSUME TruthInv, [Next]_vars PROVE TruthInv'
  OBVIOUS
<1>1. TypeInv'
  BY TypeInvNext DEF TruthInv
<1>2. Grows
  BY GrowsNext
<1>3. LoggedHasRow' /\ InHandIsLogged'
  BY <1>1, <1>2, LoggedHasRowNext, InHandNext
<1>4. DeliveringDecoded' /\ AcceptedWhenMarking' /\ SentIsTruthful'
  BY <1>1, <1>2, DeliveringDecodedNext, AcceptedWhenMarkingNext, TruthfulNext
<1>5. QED
  BY <1>1, <1>3, <1>4 DEF TruthInv

\* Every reachable state satisfies it.
LEMMA TruthInvariant == Spec => []TruthInv
<1>1. QED
  BY TruthInvInit, TruthInvNext, PTL DEF Spec

\* Whatever is delivered again, by whichever goroutine, and however the UPDATEs
\* of several of them overwrite each other: a row says sent, or has a sent_at,
\* only if the provider accepted the notification (pool.go:124-134).
THEOREM SentTruthfully == Spec => []SentIsTruthful
<1>1. TruthInv => SentIsTruthful
  BY DEF TruthInv
<1>2. QED
  BY <1>1, TruthInvariant, PTL

-----------------------------------------------------------------------------
(* Refinement.                                                             *)

\* Initially the rows are absent, and nothing is accepted.
LEMMA LifecycleInit == Init => Lifecycle!Init
BY DEF Init, Lifecycle!Init

\* A step of the worker tier is one of the lifecycle, or invisible to it.
LEMMA LifecycleNext ==
  TruthInv /\ [Next]_vars => [Lifecycle!Next]_Lifecycle!vars
<1> SUFFICES ASSUME TruthInv, [Next]_vars
             PROVE  Lifecycle!Next \/ UNCHANGED Lifecycle!vars
  OBVIOUS
<1>a. /\ rows \in [Notification -> Row] /\ accepts \in [Notification -> Nat]
  BY DEF TruthInv, TypeInv, TypeOK
<1> USE DEF Lifecycle!Next, Lifecycle!vars
<1>1. ASSUME UNCHANGED <<rows, accepts>> PROVE UNCHANGED Lifecycle!vars
  BY <1>1
<1>2. ASSUME NEW n \in Notification, Enqueue(n) PROVE Lifecycle!Create(n)
  <2>1. /\ rows[n].status = "absent"
        /\ rows' = [rows EXCEPT ![n].status = "pending"]
        /\ UNCHANGED accepts
    BY <1>2 DEF Enqueue
  <2>2. QED
    BY <2>1, <1>a DEF Lifecycle!Create, Row
<1>3. ASSUME NEW w \in Worker, SendAccepted(w)
      PROVE  \E n \in Notification : Lifecycle!Accept(n)
  <2>1. PICK n \in Known : /\ accepts' = [accepts EXCEPT ![n] = @ + 1]
                           /\ UNCHANGED rows
    BY <1>3, WriterEffects
  <2>2. {m \in Notification : accepts'[m] > 0}
          = {m \in Notification : accepts[m] > 0} \cup {n}
    BY <2>1, <1>a DEF Known
  <2>3. QED
    BY <2>1, <2>2 DEF Lifecycle!Accept, Known
<1>4. ASSUME NEW w \in Worker, MarkSent(w)
      PROVE  \E n \in Notification : Lifecycle!MarkSent(n)
  <2>1. PICK n \in Known \cap Accepted, a \in Nat :
          /\ rows' = [rows EXCEPT ![n] = [status |-> "sent", attempts |-> a,
                                          sentAt |-> TRUE]]
          /\ UNCHANGED accepts
    BY <1>4, WriterEffects
  <2>2. QED
    BY <2>1, <1>a DEF Lifecycle!MarkSent, Known, Accepted
<1>5. ASSUME NEW w \in Worker, MarkFailed(w)
      PROVE  \E n \in Notification : Lifecycle!MarkFailed(n)
  <2>1. PICK n \in Known, a \in Nat :
          /\ rows' = [rows EXCEPT ![n] = [@ EXCEPT !.status = "failed",
                                                   !.attempts = a]]
          /\ UNCHANGED accepts
    BY <1>5, WriterEffects
  <2>2. QED
    BY <2>1, <1>a DEF Lifecycle!MarkFailed, Known, Row
<1>6. ASSUME NEW n \in Notification, Republish(n) PROVE UNCHANGED <<rows, accepts>>
  BY <1>6 DEF Republish
<1>7. ASSUME NEW p \in Partition, PublishPoison(p) PROVE UNCHANGED <<rows, accepts>>
  BY <1>7 DEF PublishPoison
<1>8. QED
  BY <1>1, <1>2, <1>3, <1>4, <1>5, <1>6, <1>7, Writers DEF vars

\* The worker tier implements the lifecycle of a notification.
THEOREM Refinement == Spec => ImplementsLifecycle
<1>1. QED
  BY TruthInvariant, LifecycleInit, LifecycleNext, PTL
     DEF Spec, ImplementsLifecycle, Lifecycle!Spec

=============================================================================
