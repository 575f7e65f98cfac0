------------------------------ MODULE Pipeline ------------------------------
(***************************************************************************)
(* The way of a notification from the POST that creates it to its outcome: *)
(* the API's Enqueue, step by step, in front of the worker tier.  Pool     *)
(* takes the row and its event as one step; here the handler inserts the   *)
(* row, hands the event to the Kafka writer and waits for it, and it may   *)
(* die, lose patience or be told of an error between any two of these,     *)
(* while the writer, a goroutine of its own, goes on.                      *)
(***************************************************************************)
EXTENDS Pool

VARIABLES
  stage,   \* stage[n]: how far the handler of the request for n is
  batch    \* the notifications whose events the Kafka writer still holds

apiVars == <<stage, batch>>
allVars == <<vars, apiVars>>

\* "accepted" lasts from the writer's acknowledgement to the 202 and after: the
\* handler has nothing left to do that a worker or a client could notice.
Stage == {"none", "inserted", "publishing", "accepted", "refused"}

InTopic(n) == \E o \in 1 .. Len(log[PartitionOf[n]]) : log[PartitionOf[n]][o] = n

\* Types, and: a handler waits only for an event that the writer still holds,
\* so that somebody is left to answer it (producer.go:45).
PipelineTypeOK ==
  /\ TypeOK
  /\ stage \in [Notification -> Stage]
  /\ batch \in SUBSET Notification
  /\ \A n \in Notification : stage[n] = "publishing" => n \in batch

PipelineInit ==
  /\ Init
  /\ stage = [n \in Notification |-> "none"]
  /\ batch = {}

-----------------------------------------------------------------------------
(* The handler of one POST.                                                *)

Advance(n, from, to) ==
  /\ stage[n] = from
  /\ stage' = [stage EXCEPT ![n] = to]

\* Create: the row is there, and the handler goes on, or has been told of an
\* error all the same and answers 500.
Insert(n) ==
  /\ \E next \in {"inserted", "refused"} : Advance(n, "none", next)
  /\ rows' = [rows EXCEPT ![n].status = "pending"]
  /\ UNCHANGED <<brokerVars, dispatchVars, cancelled, workerVars, budget,
                 historyVars, batch>>

\* Mutant: the event is handed over before the row is inserted.
PublishFirst(n) ==
  /\ Advance(n, "none", "publishing")
  /\ batch' = batch \cup {n}
  /\ UNCHANGED vars

\* WriteMessages hands the event to the writer and waits.
StartPublish(n) ==
  /\ Advance(n, "inserted", "publishing")
  /\ batch' = batch \cup {n}
  /\ UNCHANGED vars

\* Mutant: the error of Publish is logged like that of the invalidation.
LogAndAccept == "accepted"

\* The error of Publish becomes a 500.
AfterPublishError == "refused"

\* The request's context ends while Publish waits; the writer keeps the event.
PublishCancelled(n) ==
  /\ Advance(n, "publishing", AfterPublishError)
  /\ UNCHANGED <<vars, batch>>

\* The API instance dies before it has answered, and its writer with it.
Abort(n) ==
  /\ stage[n] \in {"inserted", "publishing"} \/ n \in batch
  /\ stage' = [stage EXCEPT ![n] = IF @ = "accepted" THEN @ ELSE "refused"]
  /\ batch' = batch \ {n}
  /\ UNCHANGED vars

-----------------------------------------------------------------------------
(* The Kafka writer.                                                       *)

\* Mutant: the writer's answer is lost and the handler goes on waiting.
Unanswered(n, answer) == stage

\* What the handler makes of the writer's answer, if it still waits.
Answered(n, answer) ==
  [stage EXCEPT ![n] = IF @ = "publishing" THEN answer ELSE @]

\* The event is appended; a second copy counts as a fault of the topic.
AppendEvent(n) ==
  /\ n \in batch
  /\ Append1(PartitionOf[n], n)
  /\ IF InTopic(n) THEN Spend("duplicate") ELSE UNCHANGED budget
  /\ UNCHANGED <<committed, owner, dispatchVars, cancelled, workerVars, rows,
                 historyVars>>

\* All replicas have acknowledged (RequireAll).
Write(n) ==
  /\ AppendEvent(n)
  /\ stage' = Answered(n, "accepted")
  /\ batch' = batch \ {n}

\* The acknowledgement is lost, the writer will try again or give up.
WriteUnacknowledged(n) ==
  /\ AppendEvent(n)
  /\ UNCHANGED apiVars

\* The writer has no attempts left.
GiveUp(n) ==
  /\ n \in batch
  /\ stage' = Answered(n, AfterPublishError)
  /\ batch' = batch \ {n}
  /\ UNCHANGED vars

-----------------------------------------------------------------------------
\* What an API instance does for a request it has begun, left to itself.
RequestNext(n) ==
  \/ StartPublish(n) \/ PublishCancelled(n)
  \/ Write(n) \/ WriteUnacknowledged(n) \/ GiveUp(n)

ApiNext == \E n \in Notification : Insert(n) \/ RequestNext(n) \/ Abort(n)

\* Pool's steps except its own Enqueue and Republish.
TierNext ==
  /\ \/ \E p \in Partition : PublishPoison(p)
     \/ Rebalance
     \/ \E i \in Process : DispatcherNext(i) \/ ProcessNext(i)
     \/ \E w \in Worker : WorkerNext(w)
     \/ Idle
  /\ UNCHANGED apiVars

PipelineNext == ApiNext \/ TierNext

PipelineSpec == PipelineInit /\ [][PipelineNext]_allVars

\* Pool's fairness; besides, a handler and the writer go on with a request
\* they have begun: INSERT, writer and cache calls end, with or without error.
PipelineFairness ==
  /\ \A n \in Notification : WF_allVars(RequestNext(n))
  /\ \A i \in Process : WF_allVars(DispatcherNext(i) /\ UNCHANGED apiVars)
  /\ \A w \in Worker : WF_allVars(WorkerNext(w) /\ UNCHANGED apiVars)
  /\ WF_allVars(Rebalance /\ UNCHANGED <<budget, apiVars>>)

PipelineFairSpec == PipelineSpec /\ PipelineFairness

-----------------------------------------------------------------------------
(* Properties.                                                             *)

\* What a client was told is accepted is in the topic as well as in the table,
\* whatever became of the writer's other attempts (notification.go:63-69).
AcceptedIsInTopic ==
  \A n \in Notification :
    stage[n] = "accepted" => InTopic(n) /\ rows[n].status # "absent"

\* No accepted notification stays pending: a pending row is resolved by some
\* worker, unless its client was refused, an UPDATE failed, or all worker
\* processes go down (notification.go:63-69, pool.go:119-136).
PendingResolves ==
  \A n \in Notification :
    rows[n].status = "pending" ~>
      \/ rows[n].status # "pending"
      \/ stage[n] = "refused"
      \/ budget["db"] < Budget["db"]
      \/ \A i \in Process : dpc[i] = "off"

\* The worker tier's view: a row exists as soon as its event is in the topic.
QueuedRows ==
  [n \in Notification |->
     IF InTopic(n) THEN rows[n]
     ELSE [status |-> "absent", attempts |-> 0, sentAt |-> FALSE]]

Tier == INSTANCE Pool WITH rows <- QueuedRows

\* Enqueue's steps, failures and deaths look to the workers like Pool's single
\* Enqueue and Republish: no event comes before its row, and nothing else
\* happens to rows that have an event.  So what is checked and proved of Pool
\* holds of the whole pipeline.
ImplementsPool == Tier!Spec
=============================================================================
