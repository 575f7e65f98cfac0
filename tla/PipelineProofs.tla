--------------------------- MODULE PipelineProofs ---------------------------
(***************************************************************************)
(* Pipeline implements Pool, for any number of processes, goroutines,      *)
(* partitions and notifications: to the worker tier, the steps, failures   *)
(* and deaths of Enqueue look like Pool's single Enqueue and Republish.    *)
(***************************************************************************)
EXTENDS Pipeline, TLAPS

USE DEF brokerVars, dispatchVars, workerVars, historyVars

\* The worker tier as it sees the table, with all that is proved about it.
T == INSTANCE PoolProofs WITH rows <- QueuedRows

USE DEF T!brokerVars, T!dispatchVars, T!workerVars, T!historyVars

Absent == [status |-> "absent", attempts |-> 0, sentAt |-> FALSE]

-----------------------------------------------------------------------------
(* The invariant.                                                          *)

\* A record lies in the partition of its user.
InItsPartition ==
  \A p \in Partition : \A k \in 1 .. Len(log[p]) :
    log[p][k] # Poison => PartitionOf[log[p][k]] = p

\* No event without a request.
HandedIsBegun ==
  \A n \in Notification : n \in batch \/ InTopic(n) => stage[n] # "none"

\* A row whose event is not in the topic is as its handler left it.
UntouchedUntilQueued ==
  \A n \in Notification : ~InTopic(n) =>
    rows[n] = IF stage[n] = "none" THEN Absent
                                   ELSE [Absent EXCEPT !.status = "pending"]

\* The handler answers 202 only for what is in the topic.
AcceptedIsLogged ==
  \A n \in Notification : stage[n] = "accepted" => InTopic(n)

HandlerTypeOK ==
  /\ rows \in [Notification -> Row]
  /\ stage \in [Notification -> Stage]
  /\ batch \in SUBSET Notification
  /\ \A n \in Notification : stage[n] = "publishing" => n \in batch

HandlerInv ==
  /\ HandlerTypeOK
  /\ InItsPartition
  /\ HandedIsBegun
  /\ UntouchedUntilQueued
  /\ AcceptedIsLogged

PipelineInv == T!TruthInv /\ HandlerInv

\* The instance reads the constants' assumption with its own names.
LEMMA TierNames == T!Fault = Fault /\ T!Event = Event
BY DEF T!Fault, T!Event, Fault, Event

\* Pool's invariant, read of the queued rows.
LEMMA TierInvNext == T!TruthInv /\ [T!Next]_(T!vars) => T!TruthInv'
BY PoolAssumption, TierNames, T!TruthInvNext

\* What the worker tier writes to is in the topic.
LEMMA WrittenIsQueued ==
  ASSUME PipelineInv, NEW w \in Worker, wpc[w] \in Delivering
  PROVE  Record(job[w]) \in Notification /\ InTopic(Record(job[w]))
<1>1. /\ job[w] \in T!Logged
      /\ T!Record(job[w]) \in T!Known
  BY PoolAssumption, TierNames, T!DeliveringKnown
     DEF PipelineInv, Delivering, T!Delivering
<1>2. /\ job[w].partition \in Partition
      /\ job[w].offset + 1 \in 1 .. Len(log[job[w].partition])
      /\ Record(job[w]) \in Notification
  <2>1. log \in [Partition -> Seq(Notification \cup {Poison})]
    BY DEF PipelineInv, T!TruthInv, T!TypeInv, T!TypeOK
  <2>2. QED
    BY <1>1, <2>1 DEF T!Logged, T!Event, T!Known, T!Record, Record
<1>3. QED
  BY <1>2, PoolAssumption
     DEF PipelineInv, HandlerInv, InItsPartition, InTopic, Record

-----------------------------------------------------------------------------
(* Steps.                                                                  *)

\* Initial states map to initial states.
LEMMA InitMaps == PipelineInit => T!Init
<1> SUFFICES ASSUME PipelineInit PROVE T!Init
  OBVIOUS
<1>1. \A n \in Notification : ~InTopic(n)
  BY PoolAssumption DEF PipelineInit, Init, InTopic
<1>2. QueuedRows = [n \in Notification |-> Absent]
  BY <1>1 DEF QueuedRows, Absent
<1>3. QED
  BY <1>2 DEF PipelineInit, Init, T!Init, Absent

\* A notification in the topic has a row.
LEMMA QueuedIsKnown ==
  ASSUME PipelineInv, NEW n \in Notification, InTopic(n)
  PROVE  QueuedRows[n].status # "absent"
BY PoolAssumption
   DEF PipelineInv, T!TruthInv, T!LoggedHasRow, T!Known, InTopic

\* An appended event is in the topic from now on, and nothing leaves it.
LEMMA InTopicAfterAppend ==
  ASSUME log \in [Partition -> Seq(Notification \cup {Poison})],
         NEW p \in Partition, NEW m \in Notification \cup {Poison},
         m # Poison => p = PartitionOf[m],
         log' = [log EXCEPT ![p] = Append(@, m)],
         NEW n \in Notification
  PROVE  InTopic(n)' <=> InTopic(n) \/ n = m
<1> DEFINE q == PartitionOf[n]
<1>a. q \in Partition /\ Poison \notin Notification
  BY PoolAssumption
<1>1. CASE q # p
  <2>1. log'[q] = log[q] /\ n # m
    BY <1>1, <1>a
  <2>2. QED
    BY <2>1 DEF InTopic
<1>2. CASE q = p
  <2> DEFINE s == log[p]
  <2>1. s \in Seq(Notification \cup {Poison}) /\ log'[q] = Append(s, m)
    BY <1>2
  <2>2. /\ Len(Append(s, m)) = Len(s) + 1
        /\ \A k \in 1 .. Len(s) : Append(s, m)[k] = s[k]
        /\ Append(s, m)[Len(s) + 1] = m
        /\ Len(s) \in Nat
    BY <2>1
  <2>3. /\ InTopic(n) <=> \E k \in 1 .. Len(s) : s[k] = n
        /\ InTopic(n)' <=> \E k \in 1 .. Len(s) + 1 : Append(s, m)[k] = n
    BY <2>1, <2>2, <1>2 DEF InTopic
  <2> HIDE DEF s
  <2>4. \A k \in 1 .. Len(s) + 1 : k \in 1 .. Len(s) \/ k = Len(s) + 1
    BY <2>2
  <2>5. QED
    BY <2>2, <2>3, <2>4
<1>3. QED
  BY <1>1, <1>2

\* The tier sees the same rows if the topic stays and so do the queued rows.
LEMMA SameRows ==
  ASSUME UNCHANGED log,
         \A n \in Notification : InTopic(n) => rows'[n] = rows[n]
  PROVE  QueuedRows' = QueuedRows
<1>1. \A n \in Notification : InTopic(n)' = InTopic(n)
  BY DEF InTopic
<1>2. QED
  BY <1>1 DEF QueuedRows

\* The writer's appending is Pool's Enqueue the first time, Republish later.
LEMMA AppendMaps ==
  ASSUME PipelineInv, NEW n \in Notification, AppendEvent(n)
  PROVE  T!Enqueue(n) \/ T!Republish(n)
<1>a. /\ n \in batch /\ stage[n] # "none"
      /\ PartitionOf[n] \in Partition
      /\ log \in [Partition -> Seq(Notification \cup {Poison})]
      /\ rows \in [Notification -> Row]
  BY PoolAssumption
     DEF AppendEvent, PipelineInv, HandlerInv, HandlerTypeOK, HandedIsBegun,
         T!TruthInv, T!TypeInv, T!TypeOK
<1>b. /\ log' = [log EXCEPT ![PartitionOf[n]] = Append(@, n)]
      /\ UNCHANGED rows
  BY DEF AppendEvent, Append1
<1>1. \A m \in Notification : InTopic(m)' <=> InTopic(m) \/ m = n
  BY <1>a, <1>b, InTopicAfterAppend
<1>2. CASE InTopic(n)
  <2>1. QueuedRows' = QueuedRows
    BY <1>1, <1>2, <1>b DEF QueuedRows
  <2>2. QueuedRows[n].status # "absent"
    BY <1>2, QueuedIsKnown
  <2>3. QED
    BY <1>2, <2>1, <2>2
       DEF AppendEvent, Append1, Spend, T!Republish, T!Append1, T!Spend
<1>3. CASE ~InTopic(n)
  <2>1. /\ QueuedRows[n] = Absent
        /\ rows[n] = [Absent EXCEPT !.status = "pending"]
    BY <1>3, <1>a
       DEF QueuedRows, Absent, PipelineInv, HandlerInv, UntouchedUntilQueued
  <2>2. QueuedRows' = [QueuedRows EXCEPT ![n].status = "pending"]
    <3> SUFFICES ASSUME NEW m \in Notification
                 PROVE  QueuedRows'[m]
                          = [QueuedRows EXCEPT ![n].status = "pending"][m]
      BY DEF QueuedRows
    <3>1. CASE m = n
      BY <3>1, <2>1, <1>1, <1>b DEF QueuedRows, Absent
    <3>2. CASE m # n
      BY <3>2, <1>1, <1>b DEF QueuedRows
    <3>3. QED
      BY <3>1, <3>2
  <2>3. QED
    BY <1>3, <2>1, <2>2 DEF AppendEvent, Append1, T!Enqueue, T!Append1, Absent
<1>4. QED
  BY <1>2, <1>3

\* What an API instance does to a request.
LEMMA ApiMaps == PipelineInv /\ ApiNext => [T!Next]_(T!vars)
<1> SUFFICES ASSUME PipelineInv, NEW n \in Notification,
                    Insert(n) \/ RequestNext(n) \/ Abort(n)
             PROVE  [T!Next]_(T!vars)
  BY DEF ApiNext
<1>1. CASE Insert(n)
  <2>1. ~InTopic(n)
    BY <1>1 DEF Insert, Advance, PipelineInv, HandlerInv, HandedIsBegun
  <2>2. QueuedRows' = QueuedRows
    <3>1. \A m \in Notification : InTopic(m) => rows'[m] = rows[m]
      BY <2>1, <1>1 DEF Insert, PipelineInv, HandlerInv, HandlerTypeOK
    <3>2. QED
      BY <3>1, <1>1, SameRows DEF Insert
  <2>3. QED
    BY <2>2, <1>1 DEF Insert, T!vars
<1>2. CASE AppendEvent(n)
  BY <1>2, AppendMaps DEF T!Next, T!EnvironmentNext
<1>3. CASE UNCHANGED vars
  BY <1>3, SameRows DEF vars, T!vars
<1>4. QED
  BY <1>1, <1>2, <1>3
     DEF RequestNext, StartPublish, PublishCancelled, Write,
         WriteUnacknowledged, GiveUp, Abort

\* A dispatcher's step is the same whoever looks.
LEMMA DispatcherMaps ==
  ASSUME NEW i \in Process, DispatcherNext(i)
  PROVE  T!DispatcherNext(i)
<1>1. UNCHANGED <<log, rows>>
  BY DEF DispatcherNext, Fetch, FetchFails, PauseEnds, FetchCancelled,
         DropOnCancel, RunReturns
<1>2. QueuedRows' = QueuedRows
  BY <1>1, SameRows
<1>3. QED
  BY <1>2
     DEF DispatcherNext, Fetch, FetchFails, PauseEnds, FetchCancelled,
         DropOnCancel, RunReturns, Spend, Drained, WithoutMember, AfterDrop,
         AfterCancelledFetch, T!DispatcherNext, T!Fetch, T!FetchFails,
         T!PauseEnds, T!FetchCancelled, T!DropOnCancel, T!RunReturns, T!Spend,
         T!Drained, T!WithoutMember, T!AfterDrop, T!AfterCancelledFetch

\* So is the start or the end of a process.
LEMMA ProcessMaps ==
  ASSUME NEW i \in Process, ProcessNext(i)
  PROVE  T!ProcessNext(i)
<1>1. UNCHANGED <<log, rows>>
  BY DEF ProcessNext, Stop, Crash, Start
<1>2. QueuedRows' = QueuedRows
  BY <1>1, SameRows
<1>3. QED
  BY <1>2
     DEF ProcessNext, Stop, Crash, Start, Spend, WithoutMember, T!ProcessNext,
         T!Stop, T!Crash, T!Start, T!Spend, T!WithoutMember

\* A worker's UPDATE is to a row that the tier sees.
LEMMA WorkerMaps ==
  ASSUME PipelineInv, NEW w \in Worker, WorkerNext(w)
  PROVE  T!WorkerNext(w)
<1>1. CASE MarkSent(w) \/ MarkFailed(w)
  <2> DEFINE n == Record(job[w])
  <2>1. n \in Notification /\ InTopic(n)
    BY <1>1, WrittenIsQueued DEF MarkSent, MarkFailed, GoTo, Delivering
  <2>2. /\ UNCHANGED log
        /\ \A m \in Notification : InTopic(m)' <=> InTopic(m)
    BY <1>1 DEF MarkSent, MarkFailed, InTopic
  <2>3. rows \in [Notification -> Row] /\ T!Record(job[w]) = n
    BY DEF PipelineInv, HandlerInv, HandlerTypeOK, Record, T!Record
  <2> HIDE DEF n
  <2>4. ASSUME NEW r, rows' = [rows EXCEPT ![n] = r]
        PROVE  QueuedRows' = [QueuedRows EXCEPT ![n] = r]
    BY <2>1, <2>2, <2>3, <2>4 DEF QueuedRows
  <2>5. QueuedRows[n] = rows[n]
    BY <2>1 DEF QueuedRows
  <2>6. CASE MarkSent(w)
    <3>1. T!MarkSent(w)
      BY <2>3, <2>4, <2>6 DEF MarkSent, T!MarkSent, GoTo, T!GoTo, n
    <3>2. QED
      BY <3>1 DEF T!WorkerNext
  <2>7. CASE MarkFailed(w)
    <3>1. T!MarkFailed(w)
      BY <2>3, <2>4, <2>5, <2>7 DEF MarkFailed, T!MarkFailed, GoTo, T!GoTo, n
    <3>2. QED
      BY <3>1 DEF T!WorkerNext
  <2>8. QED
    BY <1>1, <2>6, <2>7
<1>2. CASE ~(MarkSent(w) \/ MarkFailed(w))
  <2>1. UNCHANGED <<log, rows>>
    BY <1>2
       DEF WorkerNext, Dispatch, StartAttempt, AttemptCancelled, SendAccepted,
           SendFails, BackoffEnds, BackoffCancelled, MarkFails, StartCommit,
           CommitSucceeds, CommitFails, WorkerExits
  <2>2. QueuedRows' = QueuedRows
    BY <2>1, SameRows
  <2>3. CASE Dispatch(w) \/ SendAccepted(w)
    BY <2>2, <2>3
       DEF Dispatch, SendAccepted, GoTo, Record, AfterSuccess, T!Dispatch,
           T!SendAccepted, T!GoTo, T!Record, T!AfterSuccess,
           T!WorkerNext
  <2>4. CASE \/ StartAttempt(w) \/ AttemptCancelled(w) \/ SendFails(w)
             \/ BackoffEnds(w) \/ BackoffCancelled(w)
    BY <2>2, <2>4
       DEF StartAttempt, AttemptCancelled, SendFails, BackoffEnds,
           BackoffCancelled, GoTo, AfterFailure, MayRetry, AfterCancel,
           T!StartAttempt, T!AttemptCancelled, T!SendFails, T!BackoffEnds,
           T!BackoffCancelled, T!GoTo, T!AfterFailure, T!MayRetry,
           T!AfterCancel,
           T!WorkerNext
  <2>5. CASE \/ MarkFails(w) \/ StartCommit(w) \/ CommitSucceeds(w)
             \/ CommitFails(w) \/ WorkerExits(w)
    BY <2>2, <2>5
       DEF MarkFails, StartCommit, CommitSucceeds, CommitFails, WorkerExits,
           GoTo, Spend, Release, AfterCommitError, T!MarkFails, T!StartCommit,
           T!CommitSucceeds, T!CommitFails, T!WorkerExits, T!GoTo, T!Spend,
           T!Release, T!AfterCommitError,
           T!WorkerNext
  <2>6. QED
    BY <1>2, <2>3, <2>4, <2>5 DEF WorkerNext
<1>3. QED
  BY <1>1, <1>2

\* What happens to topic and group.
LEMMA BrokerMaps ==
  ASSUME PipelineInv, Rebalance \/ \E p \in Partition : PublishPoison(p)
  PROVE  T!EnvironmentNext
<1>1. CASE Rebalance
  <2>1. QueuedRows' = QueuedRows
    BY <1>1, SameRows DEF Rebalance
  <2>2. QED
    BY <1>1, <2>1
       DEF Rebalance, Running, Spend, ResumeAt, T!Rebalance, T!Running,
           T!Spend, T!ResumeAt,
           T!EnvironmentNext
<1>2. ASSUME NEW p \in Partition, PublishPoison(p)
      PROVE  T!EnvironmentNext
  <2>1. \A n \in Notification : InTopic(n)' <=> InTopic(n)
    BY <1>2, PoolAssumption, InTopicAfterAppend
       DEF PublishPoison, Append1, PipelineInv, T!TruthInv, T!TypeInv, T!TypeOK
  <2>2. QueuedRows' = QueuedRows
    BY <2>1, <1>2 DEF PublishPoison, QueuedRows
  <2>3. QED
    BY <1>2, <2>2
       DEF PublishPoison, Append1, Spend, T!PublishPoison, T!Append1, T!Spend,
           T!EnvironmentNext
<1>3. QED
  BY <1>1, <1>2

\* Every step of the pipeline is one of the tier, or invisible to it.
LEMMA StepMaps ==
  PipelineInv /\ [PipelineNext]_allVars => [T!Next]_(T!vars)
<1> SUFFICES ASSUME PipelineInv, [PipelineNext]_allVars
             PROVE  [T!Next]_(T!vars)
  OBVIOUS
<1>1. CASE ApiNext
  BY <1>1, ApiMaps
<1>2. CASE TierNext
  <2>1. CASE Idle \/ UNCHANGED vars
    BY <2>1, SameRows DEF Idle, vars, T!vars
  <2>2. QED
    BY <1>2, <2>1, DispatcherMaps, ProcessMaps, WorkerMaps, BrokerMaps
       DEF TierNext, T!Next
<1>3. CASE UNCHANGED allVars
  BY <1>3, SameRows DEF allVars, vars, T!vars
<1>4. QED
  BY <1>1, <1>2, <1>3 DEF PipelineNext

-----------------------------------------------------------------------------
(* The invariant is kept.                                                  *)

\* Appended records lie where they belong.
LEMMA PartitionAfterAppend ==
  ASSUME log \in [Partition -> Seq(Notification \cup {Poison})], InItsPartition,
         NEW p \in Partition, NEW m \in Notification \cup {Poison},
         m # Poison => p = PartitionOf[m],
         log' = [log EXCEPT ![p] = Append(@, m)]
  PROVE  InItsPartition'
<1> SUFFICES ASSUME NEW q \in Partition, NEW k \in 1 .. Len(log'[q]),
                    log'[q][k] # Poison
             PROVE  PartitionOf[log'[q][k]] = q
  BY DEF InItsPartition
<1>1. CASE q # p
  <2>1. log'[q] = log[q]
    BY <1>1
  <2>2. QED
    BY <2>1 DEF InItsPartition
<1>2. CASE q = p
  <2> DEFINE s == log[p]
  <2>1. s \in Seq(Notification \cup {Poison}) /\ log'[q] = Append(s, m)
    BY <1>2
  <2>2. CASE k \in 1 .. Len(s)
    BY <2>1, <2>2, <1>2 DEF InItsPartition
  <2>3. CASE k = Len(s) + 1
    BY <2>1, <2>3, <1>2
  <2>4. k \in 1 .. Len(s) \/ k = Len(s) + 1
    BY <2>1
  <2>5. QED
    BY <2>2, <2>3, <2>4
<1>3. QED
  BY <1>1, <1>2

\* The worker tier adds no events, and writes only to rows that have one.
LEMMA TierEffects ==
  ASSUME PipelineInv, TierNext
  PROVE  /\ \A n \in Notification : InTopic(n)' <=> InTopic(n)
         /\ \A n \in Notification : ~InTopic(n) => rows'[n] = rows[n]
         /\ rows' \in [Notification -> Row]
         /\ InItsPartition'
<1>a. /\ log \in [Partition -> Seq(Notification \cup {Poison})]
      /\ rows \in [Notification -> Row]
      /\ attempt \in [Worker -> Nat]
      /\ InItsPartition
  BY PoolAssumption
     DEF PipelineInv, HandlerInv, HandlerTypeOK, T!TruthInv, T!TypeInv, T!TypeOK
<1>1. CASE UNCHANGED <<log, rows>>
  BY <1>1, <1>a DEF InTopic, InItsPartition
<1>2. ASSUME NEW w \in Worker, MarkSent(w) \/ MarkFailed(w)
      PROVE  /\ rows' \in [Notification -> Row]
             /\ \A n \in Notification : ~InTopic(n) => rows'[n] = rows[n]
             /\ UNCHANGED log
  <2>1. Record(job[w]) \in Notification /\ InTopic(Record(job[w]))
    BY <1>2, WrittenIsQueued DEF MarkSent, MarkFailed, GoTo, Delivering
  <2>2. PICK n \in Notification :
          /\ InTopic(n)
          /\ \/ rows' = [rows EXCEPT ![n] = [status |-> "sent", sentAt |-> TRUE,
                                            attempts |-> attempt[w]]]
             \/ rows' = [rows EXCEPT ![n] = [@ EXCEPT !.status = "failed",
                                                     !.attempts = attempt[w]]]
    BY <1>2, <2>1 DEF MarkSent, MarkFailed
  <2> DEFINE sent == [status |-> "sent", sentAt |-> TRUE,
                      attempts |-> attempt[w]]
             failed == [rows[n] EXCEPT !.status = "failed",
                                       !.attempts = attempt[w]]
  <2>3. attempt[w] \in Nat /\ rows[n] \in Row
    BY <1>a
  <2>4. sent \in Row /\ failed \in Row
    BY <2>3 DEF Row, Status
  <2>5. rows' = [rows EXCEPT ![n] = sent] \/ rows' = [rows EXCEPT ![n] = failed]
    BY <2>2
  <2> HIDE DEF sent, failed
  <2>6. QED
    BY <1>2, <2>2, <2>4, <2>5, <1>a DEF MarkSent, MarkFailed
<1>3. ASSUME NEW p \in Partition, PublishPoison(p)
      PROVE  /\ \A n \in Notification : InTopic(n)' <=> InTopic(n)
             /\ InItsPartition'
             /\ UNCHANGED rows
  <2>1. log' = [log EXCEPT ![p] = Append(@, Poison)] /\ UNCHANGED rows
    BY <1>3 DEF PublishPoison, Append1
  <2>2. QED
    BY <2>1, <1>a, PoolAssumption, InTopicAfterAppend, PartitionAfterAppend
<1>4. \/ UNCHANGED <<log, rows>>
      \/ \E w \in Worker : MarkSent(w) \/ MarkFailed(w)
      \/ \E p \in Partition : PublishPoison(p)
  <2>1. ASSUME NEW i \in Process, DispatcherNext(i) \/ ProcessNext(i)
        PROVE  UNCHANGED <<log, rows>>
    BY <2>1
       DEF DispatcherNext, Fetch, FetchFails, PauseEnds, FetchCancelled,
           DropOnCancel, RunReturns, ProcessNext, Stop, Crash, Start
  <2>2. ASSUME NEW w \in Worker, WorkerNext(w)
        PROVE  UNCHANGED <<log, rows>> \/ MarkSent(w) \/ MarkFailed(w)
    BY <2>2
       DEF WorkerNext, Dispatch, StartAttempt, AttemptCancelled, SendAccepted,
           SendFails, BackoffEnds, BackoffCancelled, MarkFails, StartCommit,
           CommitSucceeds, CommitFails, WorkerExits
  <2>3. CASE Rebalance \/ Idle
    BY <2>3 DEF Rebalance, Idle, vars
  <2>4. QED
    BY <2>1, <2>2, <2>3 DEF TierNext
<1>5. QED
  BY <1>1, <1>2, <1>3, <1>4, <1>a DEF InTopic, InItsPartition

\* A step of the worker tier keeps the handlers' invariant.
LEMMA HandlerInvTier == PipelineInv /\ TierNext => HandlerInv'
<1> SUFFICES ASSUME PipelineInv, TierNext PROVE HandlerInv'
  OBVIOUS
<1>1. UNCHANGED <<stage, batch>>
  BY DEF TierNext, apiVars
<1>2. QED
  BY <1>1, TierEffects
     DEF PipelineInv, HandlerInv, HandlerTypeOK, HandedIsBegun,
         UntouchedUntilQueued, AcceptedIsLogged

\* The event of a request that has begun goes to the topic.
LEMMA AppendEffects ==
  ASSUME PipelineInv, NEW n \in Notification, AppendEvent(n)
  PROVE  /\ \A m \in Notification : InTopic(m)' <=> InTopic(m) \/ m = n
         /\ InItsPartition'
         /\ UNCHANGED rows
<1>1. /\ log' = [log EXCEPT ![PartitionOf[n]] = Append(@, n)]
      /\ UNCHANGED rows
      /\ PartitionOf[n] \in Partition
      /\ log \in [Partition -> Seq(Notification \cup {Poison})]
      /\ InItsPartition
  BY PoolAssumption
     DEF AppendEvent, Append1, PipelineInv, HandlerInv, T!TruthInv, T!TypeInv,
         T!TypeOK
<1>2. QED
  BY <1>1, InTopicAfterAppend, PartitionAfterAppend

\* So does a step of a handler or of the writer.
LEMMA HandlerInvApi == PipelineInv /\ ApiNext => HandlerInv'
<1> SUFFICES ASSUME PipelineInv, NEW n \in Notification,
                    Insert(n) \/ RequestNext(n) \/ Abort(n)
             PROVE  HandlerInv'
  BY DEF ApiNext
<1>a. HandlerInv /\ HandlerTypeOK
  BY DEF PipelineInv, HandlerInv
<1> USE DEF HandlerInv, HandlerTypeOK, HandedIsBegun, UntouchedUntilQueued,
            AcceptedIsLogged
<1>1. CASE Insert(n)
  <2>1. /\ ~InTopic(n) /\ n \notin batch /\ stage[n] = "none"
        /\ rows[n] = Absent
    BY <1>1, <1>a DEF Insert, Advance
  <2>2. /\ UNCHANGED <<log, batch>>
        /\ stage' \in [Notification -> Stage]
        /\ stage'[n] \in {"inserted", "refused"}
        /\ \A m \in Notification \ {n} : stage'[m] = stage[m]
    BY <1>1, <1>a DEF Insert, Advance, Stage
  <2>3. /\ rows' \in [Notification -> Row]
        /\ rows'[n] = [Absent EXCEPT !.status = "pending"]
        /\ \A m \in Notification \ {n} : rows'[m] = rows[m]
    BY <1>1, <1>a, <2>1 DEF Insert, Absent, Row, Status
  <2>4. /\ InItsPartition'
        /\ \A m \in Notification : InTopic(m)' <=> InTopic(m)
    BY <2>2, <1>a DEF InItsPartition, InTopic
  <2>5. HandlerTypeOK' /\ HandedIsBegun' /\ AcceptedIsLogged'
    BY <2>1, <2>2, <2>3, <2>4, <1>a
  <2>6. UntouchedUntilQueued'
    BY <2>1, <2>2, <2>3, <2>4, <1>a
  <2>7. QED
    BY <2>4, <2>5, <2>6
<1>2. CASE AppendEvent(n) /\ (Write(n) \/ WriteUnacknowledged(n))
  <2>1. /\ \A m \in Notification : InTopic(m)' <=> InTopic(m) \/ m = n
        /\ InItsPartition'
        /\ UNCHANGED rows
        /\ n \in batch
    BY <1>2, AppendEffects DEF AppendEvent
  <2>2. CASE Write(n)
    BY <2>1, <2>2, <1>a DEF Write, Answered, Stage
  <2>3. CASE WriteUnacknowledged(n)
    BY <2>1, <2>3, <1>a DEF WriteUnacknowledged, apiVars
  <2>4. QED
    BY <1>2, <2>2, <2>3
<1>3. CASE \/ StartPublish(n) \/ PublishCancelled(n)
           \/ GiveUp(n) \/ Abort(n)
  <2>1. /\ UNCHANGED <<log, rows>>
        /\ InItsPartition'
        /\ \A m \in Notification : InTopic(m)' <=> InTopic(m)
    BY <1>3, <1>a
       DEF StartPublish, PublishCancelled, GiveUp, Abort, vars,
           InItsPartition, InTopic
  <2>2. CASE StartPublish(n)
    BY <2>1, <2>2, <1>a DEF StartPublish, Advance, Stage
  <2>3. CASE PublishCancelled(n)
    BY <2>1, <2>3, <1>a DEF PublishCancelled, Advance, Stage, AfterPublishError
  <2>4. CASE GiveUp(n)
    BY <2>1, <2>4, <1>a DEF GiveUp, Answered, Stage, AfterPublishError
  <2>5. CASE Abort(n)
    BY <2>1, <2>5, <1>a DEF Abort, Stage
  <2>6. QED
    BY <1>3, <2>2, <2>3, <2>4, <2>5
<1>4. QED
  BY <1>1, <1>2, <1>3 DEF RequestNext, Write, WriteUnacknowledged

\* At first there are neither requests nor events.
LEMMA PipelineInvInit == PipelineInit => PipelineInv
<1> SUFFICES ASSUME PipelineInit PROVE PipelineInv
  OBVIOUS
<1>1. T!TruthInv
  BY InitMaps, T!TruthInvInit, PoolAssumption, TierNames
<1>2. \A n \in Notification : ~InTopic(n)
  BY PoolAssumption DEF PipelineInit, Init, InTopic
<1>3. InItsPartition
  BY DEF PipelineInit, Init, InItsPartition
<1>4. HandlerTypeOK /\ UntouchedUntilQueued
  BY DEF PipelineInit, Init, HandlerTypeOK, UntouchedUntilQueued, Absent, Row,
         Status, Stage
<1>5. HandedIsBegun /\ AcceptedIsLogged
  BY <1>2 DEF PipelineInit, HandedIsBegun, AcceptedIsLogged
<1>6. QED
  BY <1>1, <1>3, <1>4, <1>5 DEF PipelineInv, HandlerInv

\* Every step keeps the invariant.
LEMMA PipelineInvNext ==
  PipelineInv /\ [PipelineNext]_allVars => PipelineInv'
<1> SUFFICES ASSUME PipelineInv, [PipelineNext]_allVars PROVE PipelineInv'
  OBVIOUS
<1>1. T!TruthInv'
  BY StepMaps, TierInvNext DEF PipelineInv
<1>2. HandlerInv'
  <2>1. CASE UNCHANGED allVars
    BY <2>1
       DEF allVars, vars, apiVars, PipelineInv, HandlerInv, HandlerTypeOK,
           InItsPartition, HandedIsBegun, UntouchedUntilQueued,
           AcceptedIsLogged, InTopic
  <2>2. QED
    BY <2>1, HandlerInvApi, HandlerInvTier DEF PipelineNext
<1>3. QED
  BY <1>1, <1>2 DEF PipelineInv

\* Every reachable state of the pipeline satisfies it.
LEMMA PipelineInvariant == PipelineSpec => []PipelineInv
BY PipelineInvInit, PipelineInvNext, PTL DEF PipelineSpec

-----------------------------------------------------------------------------
(* Theorems.                                                               *)

\* Handlers and writer keep to their types, and no handler waits for an event
\* that the writer no longer holds (producer.go:45).
THEOREM PipelineTypeCorrect == PipelineSpec => []PipelineTypeOK
<1>1. PipelineInv => PipelineTypeOK
  BY TierNames
     DEF PipelineInv, HandlerInv, HandlerTypeOK, PipelineTypeOK, TypeOK,
         T!TruthInv, T!TypeInv, T!TypeOK, Fetching, T!Fetching, Delivering,
         T!Delivering, Committing, T!Committing
<1>2. QED
  BY <1>1, PipelineInvariant, PTL

\* What a client was told is accepted has a row, and its event is in the topic
\* (notification.go:63-69).
THEOREM AcceptedIsQueued == PipelineSpec => []AcceptedIsInTopic
<1>1. ASSUME PipelineInv, NEW n \in Notification, stage[n] = "accepted"
      PROVE  InTopic(n) /\ rows[n].status # "absent"
  <2>1. InTopic(n)
    BY <1>1 DEF PipelineInv, HandlerInv, AcceptedIsLogged
  <2>2. QED
    BY <1>1, <2>1, QueuedIsKnown DEF QueuedRows
<1>2. PipelineInv => AcceptedIsInTopic
  BY <1>1 DEF AcceptedIsInTopic
<1>3. QED
  BY <1>2, PipelineInvariant, PTL

\* T and Tier are one module read with the same rows.
LEMMA SameTier == [T!Next]_(T!vars) => [Tier!Next]_(Tier!vars)
BY DEF T!Next, T!EnvironmentNext, T!DispatcherNext, T!ProcessNext,
       T!WorkerNext, T!Idle, T!vars, T!Enqueue, T!Republish, T!PublishPoison,
       T!Rebalance, T!Running, T!ResumeAt, T!Append1, T!Spend, T!Fetch,
       T!FetchFails, T!PauseEnds, T!FetchCancelled, T!AfterCancelledFetch,
       T!DropOnCancel, T!AfterDrop, T!RunReturns, T!Drained, T!WithoutMember,
       T!Dispatch, T!Record, T!StartAttempt, T!AttemptCancelled,
       T!AfterCancel, T!SendAccepted, T!AfterSuccess, T!SendFails,
       T!AfterFailure, T!MayRetry, T!BackoffEnds, T!BackoffCancelled,
       T!MarkSent, T!MarkFailed, T!MarkFails, T!StartCommit,
       T!CommitSucceeds, T!CommitFails, T!Release, T!AfterCommitError,
       T!WorkerExits, T!GoTo, T!Stop, T!Crash, T!Start, T!brokerVars,
       T!dispatchVars, T!workerVars, T!historyVars, Tier!Next,
       Tier!EnvironmentNext, Tier!DispatcherNext, Tier!ProcessNext,
       Tier!WorkerNext, Tier!Idle, Tier!vars, Tier!Enqueue, Tier!Republish,
       Tier!PublishPoison, Tier!Rebalance, Tier!Running, Tier!ResumeAt,
       Tier!Append1, Tier!Spend, Tier!Fetch, Tier!FetchFails, Tier!PauseEnds,
       Tier!FetchCancelled, Tier!AfterCancelledFetch, Tier!DropOnCancel,
       Tier!AfterDrop, Tier!RunReturns, Tier!Drained, Tier!WithoutMember,
       Tier!Dispatch, Tier!Record, Tier!StartAttempt, Tier!AttemptCancelled,
       Tier!AfterCancel, Tier!SendAccepted, Tier!AfterSuccess,
       Tier!SendFails, Tier!AfterFailure, Tier!MayRetry, Tier!BackoffEnds,
       Tier!BackoffCancelled, Tier!MarkSent, Tier!MarkFailed, Tier!MarkFails,
       Tier!StartCommit, Tier!CommitSucceeds, Tier!CommitFails, Tier!Release,
       Tier!AfterCommitError, Tier!WorkerExits, Tier!GoTo, Tier!Stop,
       Tier!Crash, Tier!Start, Tier!brokerVars, Tier!dispatchVars,
       Tier!workerVars, Tier!historyVars

\* The pipeline implements Pool: a worker sees no event before its row, and a
\* row changes under nobody's hands between INSERT and publication
\* (notification.go:45-69, producer.go:36-46).
THEOREM PipelineRefinement == PipelineSpec => ImplementsPool
<1>1. T!Init => Tier!Init
  BY DEF T!Init, Tier!Init
<1>2. [T!Next]_(T!vars) => [Tier!Next]_(Tier!vars)
  BY SameTier
<1>3. QED
  BY <1>1, <1>2, InitMaps, StepMaps, PipelineInvariant, PTL
     DEF PipelineSpec, ImplementsPool, Tier!Spec

\* End to end as for the workers alone: a row says sent, or has a sent_at, only
\* if the provider accepted the notification (pool.go:124-134).
THEOREM PipelineSentTruthfully == PipelineSpec => []SentIsTruthful
<1>1. ASSUME PipelineInv, NEW n \in Notification,
             rows[n].status = "sent" \/ rows[n].sentAt
      PROVE  accepts[n] > 0
  <2>1. InTopic(n)
    BY <1>1 DEF PipelineInv, HandlerInv, UntouchedUntilQueued, Absent
  <2>2. QueuedRows[n] = rows[n]
    BY <2>1 DEF QueuedRows
  <2>3. QED
    BY <1>1, <2>2 DEF PipelineInv, T!TruthInv, T!SentIsTruthful
<1>2. PipelineInv => SentIsTruthful
  BY <1>1 DEF SentIsTruthful
<1>3. QED
  BY <1>2, PipelineInvariant, PTL
=============================================================================
