--------------------- MODULE NotificationServiceProofs ---------------------
(***************************************************************************)
(* Proofs about NotificationService: what a 202 promises, how old a cached *)
(* list can be, that a list is one the database has held, and, for a       *)
(* client that is the only one of its user to list, that it reads what it  *)
(* was told is accepted.                                                   *)
(***************************************************************************)
EXTENDS NotificationService, FiniteSetTheorems, WellFoundedInduction, TLAPS

-----------------------------------------------------------------------------
(* Types.                                                                  *)

\* A handler of POST has an id of its user, stamped; its INSERT has not happened
\* before it, and nobody else is inserting the id.
Targets ==
  /\ \A s \in Session : pc[s] \in {"insert", "publish", "invalidate"} =>
       /\ target[s] \in Notification
       /\ OwnerOf[target[s]] = UserOf[s]
       /\ created[target[s]] # 0
  /\ \A s \in Session : pc[s] = "insert" => status[target[s]] = "absent"
  /\ \A s, t \in Session :
       pc[s] = "insert" /\ pc[t] = "insert" /\ target[s] = target[t] => s = t

\* Of the sessions, only the readers list, and one that shows a list is idle.
Listers ==
  \A s \in Session :
    /\ pc[s] \in {"lookup", "read", "fill"} => s \in Reader
    /\ reply[s].kind = "list" => s \in Reader /\ pc[s] = "idle"

\* Rows were stamped, at different times.
Clock ==
  /\ \A n \in Notification : created[n] <= now
  /\ \A n \in Rows : created[n] # 0
  /\ \A m, n \in Notification :
       created[m] = created[n] /\ created[n] # 0 => m = n

\* An id in the topic has its row, a handler that passed its INSERT or its
\* Publish likewise, and what is acknowledged to a session is its user's and in
\* the topic.
Queued ==
  /\ topic \subseteq Rows
  /\ \A s \in Session :
       /\ pc[s] \in {"publish", "invalidate"} => target[s] \in Rows
       /\ pc[s] = "invalidate" => target[s] \in topic
  /\ \A s \in Session : /\ acked[s] \subseteq topic
                        /\ \A n \in acked[s] : OwnerOf[n] = UserOf[s]

TypeInv == TypeOK /\ Targets /\ Listers /\ Clock /\ Queued

LEMMA Constants ==
  /\ UserOf \in [Session -> User]
  /\ DefaultLimit \in Limit
  /\ KnownLimits \subseteq Limit
  /\ \A raw \in RawLimits : Normalize(raw) \in Limit
  /\ TTL \in Nat \ {0}
  /\ MaxFaults \in Nat
  /\ \A u \in User, l \in Limit : CacheKey(u, l) \in Key
BY ServiceAssumption DEF Limit, Normalize, Key, CacheKey

LEMMA RowsTyped ==
  ASSUME TypeOK PROVE /\ Rows \subseteq Notification
                      /\ \A n \in Rows : status[n] \in Status \ {"absent"}
BY DEF TypeOK, Rows

LEMMA ListTyped ==
  ASSUME TypeOK, NEW u \in User, NEW l \in Limit
  PROVE  ListByUser(u, l) \in Listing
<1>1. \A n \in Newest(Of(u, Rows), l) : n \in Rows
  BY DEF Newest, Of
<1> HIDE DEF Newest, Of
<1>2. \A n \in Newest(Of(u, Rows), l) :
        <<n, status[n]>> \in Notification \X (Status \ {"absent"})
  BY <1>1, RowsTyped
<1>3. QED
  BY <1>2 DEF Listing, ListByUser

\* What an answer leaves well typed.
LEMMA FinishTyped ==
  ASSUME TypeOK, NEW s \in Session, NEW kind \in {"accepted", "error", "list"},
         NEW list \in Listing, NEW age \in Nat,
         kind = "accepted" => target[s] \in Notification,
         Finish(s, kind, list, age)
  PROVE  /\ pc' \in [Session -> {"idle", "insert", "publish", "invalidate",
                                 "lookup", "read", "fill"}]
         /\ target' \in [Session -> Notification \cup {NoNotification}]
         /\ limit' \in [Session -> Limit]
         /\ found' \in [Session -> Listing]
         /\ doomed' \in [Session -> SUBSET Limit]
         /\ reply' \in [Session -> Reply]
         /\ acked' \in [Session -> SUBSET Notification]
<1>1. pc' = [pc EXCEPT ![s] = "idle"]
  BY DEF Finish
<1>2. limit[s] \in Limit /\ DefaultLimit \in Limit
  BY Constants DEF TypeOK
<1>3. [kind |-> kind, list |-> list, limit |-> limit[s], age |-> age] \in Reply
  BY <1>2 DEF Reply
<1>4. {} \in Listing
  BY DEF Listing
<1>5. reply' \in [Session -> Reply]
  BY <1>3 DEF Finish, TypeOK
<1>6. acked' \in [Session -> SUBSET Notification]
  <2>1. CASE kind = "accepted"
    <3>1. acked[s] \cup {target[s]} \in SUBSET Notification
      BY <2>1 DEF TypeOK
    <3>2. acked' = [acked EXCEPT ![s] = @ \cup {target[s]}]
      BY <2>1 DEF Finish
    <3>3. QED
      BY <3>1, <3>2 DEF TypeOK
  <2>2. CASE kind # "accepted"
    BY <2>2 DEF Finish, TypeOK
  <2>3. QED
    BY <2>1, <2>2
<1>7. /\ target' \in [Session -> Notification \cup {NoNotification}]
      /\ limit' \in [Session -> Limit]
      /\ found' \in [Session -> Listing]
  BY <1>2, <1>4 DEF Finish, TypeOK
<1>8. doomed' \in [Session -> SUBSET Limit]
  BY DEF Finish, TypeOK
<1>9. QED
  BY <1>1, <1>5, <1>6, <1>7, <1>8 DEF TypeOK

\* The entries of the cache stay well typed.
CacheTyped == cache \in [Key -> Entry \cup {Miss}]

LEMMA FaultTyped == TypeOK /\ Fault => faults' \in 0 .. MaxFaults
BY Constants DEF TypeOK, Fault

LEMMA TypeNext == TypeInv /\ [Next]_vars => TypeOK'
<1> SUFFICES ASSUME TypeInv, [Next]_vars PROVE TypeOK'
  OBVIOUS
<1> USE DEF TypeInv
<1>0. NoReply \in Reply
  BY Constants DEF NoReply, Reply, Listing
<1>1. ASSUME NEW s \in Session, NEW n \in Notification, StartEnqueue(s, n)
      PROVE  TypeOK'
  BY <1>0, <1>1 DEF StartEnqueue, Stamp, Step, TypeOK
<1>2. ASSUME NEW s \in Session, Insert(s) PROVE TypeOK'
  <2>1. held \cup {Rows \cup {target[s]}} \in SUBSET SUBSET Notification
    BY <1>2, RowsTyped DEF Insert, At, Targets, TypeOK
  <2>2. QED
    BY <1>2, <2>1 DEF Insert, InsertRow, Step, At, Targets, TypeOK, Status
<1>3. ASSUME NEW s \in Session, InsertFails(s) PROVE TypeOK'
  <2>1. held \cup {Rows \cup {target[s]}} \in SUBSET SUBSET Notification
    BY <1>3, RowsTyped DEF InsertFails, At, Targets, TypeOK
  <2>2. /\ status' \in [Notification -> Status]
        /\ held' \in SUBSET SUBSET Notification
    BY <1>3, <2>1 DEF InsertFails, InsertRow, TypeOK, Status
  <2>3. QED
    BY <1>3, <2>2, FinishTyped, FaultTyped
       DEF InsertFails, Fail, TypeOK, Listing
<1>4. ASSUME NEW s \in Session, Publish(s) PROVE TypeOK'
  <2>1. topic \cup {target[s]} \in SUBSET Notification
    BY <1>4 DEF Publish, At, Targets, TypeOK
  <2>2. QED
    BY <1>4, <2>1, Constants DEF Publish, Step, InvalidatedLimits, TypeOK
<1>5. ASSUME NEW s \in Session, PublishFails(s) PROVE TypeOK'
  <2>1. topic' \in SUBSET Notification
    BY <1>5 DEF PublishFails, At, Targets, TypeOK
  <2>2. QED
    BY <1>5, <2>1, FinishTyped, FaultTyped
       DEF PublishFails, AfterPublishError, TypeOK, Listing
<1>6. ASSUME NEW s \in Session, Invalidate(s) PROVE TypeOK'
  <2> PICK l \in doomed[s] :
        /\ doomed' = [doomed EXCEPT ![s] = @ \ {l}]
        /\ \/ /\ cache' = [cache EXCEPT ![CacheKey(UserOf[s], l)] = Miss]
              /\ UNCHANGED <<faults, undeleted>>
           \/ /\ Fault
              /\ undeleted' = TRUE
              /\ UNCHANGED cache
        /\ UNCHANGED <<now, created, status, held, topic, pc, target, limit,
                       found, reply, acked>>
    BY <1>6 DEF Invalidate
  <2>1. doomed' \in [Session -> SUBSET Limit]
    BY DEF TypeOK
  <2>2. CacheTyped'
    BY DEF TypeOK, CacheTyped
  <2>3. faults' \in 0 .. MaxFaults
    BY FaultTyped DEF TypeOK
  <2>4. undeleted' \in BOOLEAN
    BY DEF TypeOK
  <2>5. QED
    BY <2>1, <2>2, <2>3, <2>4 DEF TypeOK, CacheTyped
<1>7. ASSUME NEW s \in Session, Accept(s) PROVE TypeOK'
  <2>1. target[s] \in Notification
    BY <1>7 DEF Accept, At, Targets
  <2>2. QED
    BY <1>7, <2>1, FinishTyped DEF Accept, TypeOK, Listing
<1>8. ASSUME NEW s \in Session, NEW raw \in RawLimits, StartList(s, raw)
      PROVE  TypeOK'
  BY <1>0, <1>8, Constants DEF StartList, Step, TypeOK
<1>9. ASSUME NEW s \in Session, Hit(s) PROVE TypeOK'
  <2> DEFINE k == CacheKey(UserOf[s], limit[s])
  <2>1. k \in Key
    BY Constants DEF TypeOK
  <2>2. cache[k] \in Entry
    BY <1>9, <2>1 DEF Hit, TypeOK
  <2>3. cache' = cache
    BY <1>9, <2>1 DEF Hit, AfterHit, TypeOK
  <2>4. cache[k].list \in Listing /\ cache[k].age \in Nat
    BY <2>2 DEF Entry
  <2>5. QED
    <3>1. Finish(s, "list", cache[k].list, cache[k].age)
      BY <1>9 DEF Hit
    <3>2. UNCHANGED <<now, created, status, held, topic, faults, undeleted>>
      BY <1>9 DEF Hit
    <3> HIDE DEF k
    <3>3. QED
      BY <2>3, <2>4, <3>1, <3>2, FinishTyped DEF TypeOK
<1>10. ASSUME NEW s \in Session, LookupMisses(s) PROVE TypeOK'
  <2>1. faults' \in 0 .. MaxFaults
    BY <1>10, FaultTyped DEF LookupMisses, TypeOK
  <2>2. QED
    BY <1>10, <2>1 DEF LookupMisses, Step, TypeOK
<1>11. ASSUME NEW s \in Session, Read(s) PROVE TypeOK'
  <2>1. ListByUser(UserOf[s], limit[s]) \in Listing
    BY ListTyped, Constants DEF TypeOK
  <2>2. QED
    BY <1>11, <2>1 DEF Read, Step, TypeOK
<1>12. ASSUME NEW s \in Session, ReadFails(s) PROVE TypeOK'
  BY <1>12, FinishTyped, FaultTyped DEF ReadFails, Fail, TypeOK, Listing
<1>13. ASSUME NEW s \in Session, Fill(s) PROVE TypeOK'
  <2>1. [list |-> found[s], ttl |-> TTL, age |-> 0] \in Entry
    BY Constants DEF TypeOK, Entry
  <2>2. CacheTyped'
    BY <1>13, <2>1 DEF Fill, TypeOK, CacheTyped
  <2>3. faults' \in 0 .. MaxFaults
    BY <1>13, FaultTyped DEF Fill, TypeOK
  <2>4. found[s] \in Listing
    BY DEF TypeOK
  <2>5. QED
    BY <1>13, <2>2, <2>3, <2>4, FinishTyped DEF Fill, TypeOK, CacheTyped
<1>14. ASSUME NEW s \in Session, Abort(s) PROVE TypeOK'
  BY <1>14, FinishTyped, FaultTyped DEF Abort, Fail, TypeOK, Listing
<1>15. ASSUME NEW n \in Notification, Resolve(n) PROVE TypeOK'
  <2>1. status' \in [Notification -> Status]
    BY <1>15 DEF Resolve, TypeOK, Status
  <2>2. QED
    BY <1>15, <2>1 DEF Resolve, handlerVars, TypeOK
<1>16. ASSUME Tick PROVE TypeOK'
  <2>1. ASSUME NEW k \in Key, cache[k] # Miss, cache[k].ttl # 1
        PROVE  AfterTick(cache[k]) \in Entry
    <3>1. PICK list \in Listing, ttl \in 1 .. TTL, age \in Nat :
            cache[k] = [list |-> list, ttl |-> ttl, age |-> age]
      BY <2>1 DEF TypeOK, Entry
    <3>2. ttl - 1 \in 1 .. TTL /\ age + 1 \in Nat
      BY <2>1, <3>1, Constants
    <3>3. AfterTick(cache[k])
            = [list |-> list, ttl |-> ttl - 1, age |-> age + 1]
      BY <2>1, <3>1 DEF AfterTick
    <3>4. QED
      BY <3>2, <3>3 DEF Entry
  <2>2. CacheTyped'
    <3>1. \A k \in Key : AfterTick(cache[k]) \in Entry \cup {Miss}
      BY <2>1 DEF AfterTick
    <3>2. QED
      BY <1>16, <3>1 DEF Tick, CacheTyped
  <2>3. QED
    BY <1>16, <2>2 DEF Tick, handlerVars, TypeOK, CacheTyped
<1>17. CASE UNCHANGED vars
  BY <1>17 DEF vars, handlerVars, TypeOK
<1>18. QED
  BY <1>1, <1>2, <1>3, <1>4, <1>5, <1>6, <1>7, <1>8, <1>9, <1>10, <1>11, <1>12,
     <1>13, <1>14, <1>15, <1>16, <1>17 DEF Next, SessionNext

-----------------------------------------------------------------------------
(* The handlers and the clock.                                             *)

\* What an answer does to the handlers.
Answered(s, kind, list, age) ==
  /\ pc'[s] = "idle"
  /\ reply'[s].kind = kind
  /\ reply'[s].list = list
  /\ reply'[s].limit = limit[s]
  /\ reply'[s].age = age
  /\ kind = "accepted" => acked'[s] = acked[s] \cup {target[s]}
  /\ kind # "accepted" => acked'[s] = acked[s]
  /\ \A t \in Session \ {s} :
       /\ pc'[t] = pc[t]
       /\ target'[t] = target[t]
       /\ limit'[t] = limit[t]
       /\ found'[t] = found[t]
       /\ doomed'[t] = doomed[t]
       /\ reply'[t] = reply[t]
       /\ acked'[t] = acked[t]

LEMMA FinishSteps ==
  ASSUME TypeOK, NEW s \in Session, NEW kind, NEW list, NEW age,
         Finish(s, kind, list, age)
  PROVE  Answered(s, kind, list, age)
BY DEF Finish, TypeOK, Answered

LEMMA InsertedRows ==
  ASSUME TypeOK, NEW n \in Notification, InsertRow(n)
  PROVE  /\ Rows' = Rows \cup {n}
         /\ held' = held \cup {Rows'}
         /\ status'[n] = "pending"
         /\ \A m \in Notification \ {n} : status'[m] = status[m]
BY DEF InsertRow, Rows, TypeOK

LEMMA AnswerKeeps ==
  ASSUME TypeInv, TypeOK', NEW s \in Session, NEW kind, NEW list, NEW age,
         Finish(s, kind, list, age), kind = "list" => s \in Reader,
         UNCHANGED <<now, created>>,
         \/ UNCHANGED status
         \/ pc[s] = "insert" /\ InsertRow(target[s])
  PROVE  Targets' /\ Listers' /\ Clock'
<1> USE DEF TypeInv
<1>0. Answered(s, kind, list, age)
  BY FinishSteps
<1>1. Listers'
  BY <1>0 DEF Listers, Answered
<1>2. CASE UNCHANGED status
  <2>1. Targets'
    BY <1>0, <1>2 DEF Targets, Answered
  <2>2. Rows' = Rows
    BY <1>2 DEF Rows
  <2>3. Clock'
    BY <2>2 DEF Clock
  <2>4. QED
    BY <1>1, <2>1, <2>3
<1>3. CASE pc[s] = "insert" /\ InsertRow(target[s])
  <2>0. target[s] \in Notification /\ created[target[s]] # 0
    BY <1>3 DEF Targets
  <2>1. \A t \in Session \ {s} : pc[t] = "insert" => target[t] # target[s]
    BY <1>3 DEF Targets
  <2>2. Targets'
    BY <1>0, <1>3, <2>0, <2>1, InsertedRows DEF Targets, Answered
  <2>3. Rows' = Rows \cup {target[s]}
    BY <1>3, <2>0, InsertedRows
  <2>4. Clock'
    BY <2>0, <2>3 DEF Clock
  <2>5. QED
    BY <1>1, <2>2, <2>4
<1>4. QED
  BY <1>2, <1>3

LEMMA TargetsNext == TypeInv /\ [Next]_vars => Targets' /\ Listers' /\ Clock'
<1> SUFFICES ASSUME TypeInv, [Next]_vars PROVE Targets' /\ Listers' /\ Clock'
  OBVIOUS
<1>0. TypeOK /\ Targets /\ Listers /\ Clock /\ Queued /\ TypeOK'
  BY TypeNext DEF TypeInv
<1>r. UNCHANGED status => Rows' = Rows
  BY DEF Rows
<1>1. ASSUME NEW s \in Session, NEW n \in Notification, StartEnqueue(s, n)
      PROVE  Targets' /\ Listers' /\ Clock'
  <2>1. /\ pc[s] = "idle" /\ OwnerOf[n] = UserOf[s] /\ created[n] = 0
        /\ now' = now + 1 /\ created'[n] = now'
        /\ \A m \in Notification \ {n} : created'[m] = created[m]
        /\ target'[s] = n /\ pc'[s] = "insert" /\ reply'[s] = NoReply
        /\ \A t \in Session \ {s} : /\ pc'[t] = pc[t] /\ target'[t] = target[t]
                                    /\ reply'[t] = reply[t]
        /\ UNCHANGED status
    BY <1>0, <1>1 DEF StartEnqueue, At, Step, Stamp, TypeOK
  <2>2. now \in Nat /\ \A m \in Notification : created[m] \in Nat
    BY <1>0 DEF TypeOK
  <2>3. Clock'
    BY <1>0, <1>r, <2>1, <2>2, RowsTyped DEF Clock
  <2>4. \A t \in Session : pc[t] = "insert" => target[t] # n
    BY <1>0, <2>1 DEF Targets
  <2>5. status[n] = "absent"
    BY <1>0, <2>1, RowsTyped DEF Clock, Rows
  <2>6. Targets'
    BY <1>0, <2>1, <2>2, <2>4, <2>5 DEF Targets
  <2>7. Listers'
    BY <1>0, <2>1 DEF Listers, NoReply
  <2>8. QED
    BY <2>3, <2>6, <2>7
<1>2. ASSUME NEW s \in Session, Insert(s) PROVE Targets' /\ Listers' /\ Clock'
  <2>1. /\ pc[s] = "insert" /\ InsertRow(target[s]) /\ pc'[s] = "publish"
        /\ \A t \in Session \ {s} : pc'[t] = pc[t]
        /\ UNCHANGED <<now, created, target, reply>>
    BY <1>0, <1>2 DEF Insert, At, Step, TypeOK
  <2>2. target[s] \in Notification /\ created[target[s]] # 0
    BY <1>0, <2>1 DEF Targets
  <2>3. \A t \in Session \ {s} : pc[t] = "insert" => target[t] # target[s]
    BY <1>0, <2>1 DEF Targets
  <2>4. Targets'
    BY <1>0, <2>1, <2>2, <2>3, InsertedRows DEF Targets
  <2>5. Clock'
    BY <1>0, <2>1, <2>2, InsertedRows DEF Clock
  <2>6. Listers'
    BY <1>0, <2>1 DEF Listers
  <2>7. QED
    BY <2>4, <2>5, <2>6
<1>3. ASSUME NEW s \in Session, InsertFails(s)
      PROVE  Targets' /\ Listers' /\ Clock'
  BY <1>0, <1>3, AnswerKeeps DEF InsertFails, At, Fail
<1>4. ASSUME NEW s \in Session, Publish(s) PROVE Targets' /\ Listers' /\ Clock'
  <2>1. /\ pc[s] = "publish" /\ pc'[s] = "invalidate"
        /\ \A t \in Session \ {s} : pc'[t] = pc[t]
        /\ UNCHANGED <<now, created, status, target, reply>>
    BY <1>0, <1>4 DEF Publish, At, Step, TypeOK
  <2>2. Targets' /\ Listers'
    BY <1>0, <2>1 DEF Targets, Listers
  <2>3. Clock'
    BY <1>0, <1>r, <2>1 DEF Clock
  <2>4. QED
    BY <2>2, <2>3
<1>5. ASSUME NEW s \in Session, PublishFails(s)
      PROVE  Targets' /\ Listers' /\ Clock'
  BY <1>0, <1>5, AnswerKeeps DEF PublishFails, AfterPublishError
<1>6. ASSUME NEW s \in Session, Invalidate(s)
      PROVE  Targets' /\ Listers' /\ Clock'
  <2>1. UNCHANGED <<now, created, status, pc, target, reply>>
    BY <1>6 DEF Invalidate
  <2>2. Targets' /\ Listers' /\ Clock'
    BY <1>0, <1>r, <2>1 DEF Targets, Listers, Clock
  <2>3. QED
    BY <2>2
<1>7. ASSUME NEW s \in Session, Accept(s) PROVE Targets' /\ Listers' /\ Clock'
  BY <1>0, <1>7, AnswerKeeps DEF Accept
<1>8. ASSUME NEW s \in Session, NEW raw \in RawLimits, StartList(s, raw)
      PROVE  Targets' /\ Listers' /\ Clock'
  <2>1. /\ s \in Reader /\ pc'[s] = "lookup" /\ reply'[s] = NoReply
        /\ \A t \in Session \ {s} : pc'[t] = pc[t] /\ reply'[t] = reply[t]
        /\ UNCHANGED <<now, created, status, target>>
    BY <1>0, <1>8 DEF StartList, Step, TypeOK
  <2>2. Targets' /\ Listers'
    BY <1>0, <2>1 DEF Targets, Listers, NoReply
  <2>3. Clock'
    BY <1>0, <1>r, <2>1 DEF Clock
  <2>4. QED
    BY <2>2, <2>3
<1>9. ASSUME NEW s \in Session, Hit(s) PROVE Targets' /\ Listers' /\ Clock'
  <2>1. PICK list, age : Finish(s, "list", list, age)
    BY <1>9 DEF Hit
  <2>2. s \in Reader
    BY <1>0, <1>9 DEF Hit, At, Listers
  <2>3. UNCHANGED <<now, created, status>>
    BY <1>9 DEF Hit
  <2>4. QED
    BY <1>0, <2>1, <2>2, <2>3, AnswerKeeps
<1>10. ASSUME NEW s \in Session, LookupMisses(s) \/ Read(s)
       PROVE  Targets' /\ Listers' /\ Clock'
  <2>1. /\ pc[s] \in {"lookup", "read"} /\ pc'[s] \in {"read", "fill"}
        /\ \A t \in Session \ {s} : pc'[t] = pc[t]
        /\ UNCHANGED <<now, created, status, target, reply>>
    BY <1>0, <1>10 DEF LookupMisses, Read, At, Step, TypeOK
  <2>2. Targets' /\ Listers'
    BY <1>0, <2>1 DEF Targets, Listers
  <2>3. Clock'
    BY <1>0, <1>r, <2>1 DEF Clock
  <2>4. QED
    BY <2>2, <2>3
<1>11. ASSUME NEW s \in Session, ReadFails(s) \/ Abort(s)
       PROVE  Targets' /\ Listers' /\ Clock'
  BY <1>0, <1>11, AnswerKeeps DEF ReadFails, Abort, Fail
<1>12. ASSUME NEW s \in Session, Fill(s) PROVE Targets' /\ Listers' /\ Clock'
  <2>1. s \in Reader
    BY <1>0, <1>12 DEF Fill, At, Listers
  <2>2. QED
    BY <1>0, <1>12, <2>1, AnswerKeeps DEF Fill
<1>13. ASSUME NEW n \in Notification, Resolve(n)
       PROVE  Targets' /\ Listers' /\ Clock'
  <2>1. /\ UNCHANGED <<now, created, pc, target, reply>>
        /\ status'[n] # "absent"
        /\ \A m \in Notification \ {n} : status'[m] = status[m]
    BY <1>0, <1>13 DEF Resolve, handlerVars, TypeOK
  <2>2. n \in Rows
    BY <1>0, <1>13 DEF Resolve, Queued
  <2>3. Rows' = Rows
    BY <2>1, <2>2 DEF Rows
  <2>4. Targets'
    BY <1>0, <2>1, <2>2 DEF Targets, Rows
  <2>5. Listers' /\ Clock'
    BY <1>0, <2>1, <2>3 DEF Listers, Clock
  <2>6. QED
    BY <2>4, <2>5
<1>14. ASSUME Tick PROVE Targets' /\ Listers' /\ Clock'
  <2>1. UNCHANGED <<now, created, status, pc, target, reply>>
    BY <1>14 DEF Tick, handlerVars
  <2>2. QED
    BY <1>0, <1>r, <2>1 DEF Targets, Listers, Clock
<1>15. CASE UNCHANGED vars
  <2>1. UNCHANGED <<now, created, status, pc, target, reply>>
    BY <1>15 DEF vars, handlerVars
  <2>2. QED
    BY <1>0, <1>r, <2>1 DEF Targets, Listers, Clock
<1>16. QED
  BY <1>1, <1>2, <1>3, <1>4, <1>5, <1>6, <1>7, <1>8, <1>9, <1>10, <1>11, <1>12,
     <1>13, <1>14, <1>15 DEF Next, SessionNext

\* Rows appear when an INSERT ends, outcomes when a worker records one.
LEMMA RowSteps ==
  ASSUME [Next]_vars
  PROVE  \/ UNCHANGED <<status, held>>
         \/ \E s \in Session : pc[s] = "insert" /\ InsertRow(target[s])
         \/ UNCHANGED held /\ \E n \in Notification : Resolve(n)
BY DEF Next, SessionNext, StartEnqueue, Insert, InsertFails, Publish,
       PublishFails, Invalidate, Accept, StartList, Hit, LookupMisses, Read,
       ReadFails, Fill, Abort, Resolve, Tick, vars, At

\* Rows stay.
LEMMA RowsGrow == TypeInv /\ [Next]_vars => Rows \subseteq Rows'
<1> SUFFICES ASSUME TypeInv, [Next]_vars PROVE Rows \subseteq Rows'
  OBVIOUS
<1>1. TypeOK /\ Targets
  BY DEF TypeInv
<1>2. CASE UNCHANGED status
  BY <1>2 DEF Rows
<1>3. CASE \E s \in Session : pc[s] = "insert" /\ InsertRow(target[s])
  BY <1>1, <1>3, InsertedRows DEF Targets
<1>4. CASE \E n \in Notification : Resolve(n)
  BY <1>1, <1>4 DEF Resolve, Rows, TypeOK
<1>5. QED
  BY <1>2, <1>3, <1>4, RowSteps

LEMMA QueuedNext == TypeInv /\ [Next]_vars => Queued'
<1> SUFFICES ASSUME TypeInv, [Next]_vars PROVE Queued'
  OBVIOUS
<1>0. TypeOK /\ Targets /\ Queued /\ Rows \subseteq Rows'
  BY RowsGrow DEF TypeInv
<1>1. ASSUME NEW s \in Session, NEW kind, NEW list, NEW age,
             Finish(s, kind, list, age),
             topic \subseteq topic', topic' \subseteq Rows,
             kind = "accepted" => pc[s] = "invalidate"
      PROVE  Queued'
  <2>1. Answered(s, kind, list, age)
    BY <1>0, <1>1, FinishSteps
  <2>2. kind = "accepted" => /\ target[s] \in topic
                             /\ OwnerOf[target[s]] = UserOf[s]
    BY <1>0, <1>1 DEF Queued, Targets
  <2>3. QED
    BY <1>0, <1>1, <2>1, <2>2 DEF Answered, Queued
<1>2. ASSUME NEW s \in Session, NEW n \in Notification, StartEnqueue(s, n)
      PROVE  Queued'
  BY <1>0, <1>2 DEF StartEnqueue, Step, Queued, TypeOK
<1>3. ASSUME NEW s \in Session, Insert(s) PROVE Queued'
  <2>1. target[s] \in Rows'
    BY <1>0, <1>3, InsertedRows DEF Insert, At, Targets
  <2>2. QED
    BY <1>0, <1>3, <2>1 DEF Insert, Step, Queued, TypeOK
<1>4. ASSUME NEW s \in Session, InsertFails(s) PROVE Queued'
  BY <1>0, <1>1, <1>4 DEF InsertFails, Fail, Queued
<1>5. ASSUME NEW s \in Session, Publish(s) PROVE Queued'
  <2>1. target[s] \in Rows
    BY <1>0, <1>5 DEF Publish, At, Queued
  <2>2. QED
    BY <1>0, <1>5, <2>1 DEF Publish, Step, Queued, TypeOK
<1>6. ASSUME NEW s \in Session, PublishFails(s) PROVE Queued'
  <2>1. topic \subseteq topic' /\ topic' \subseteq Rows
    BY <1>0, <1>6 DEF PublishFails, At, Queued
  <2>2. QED
    BY <1>1, <1>6, <2>1 DEF PublishFails, AfterPublishError
<1>7. ASSUME NEW s \in Session, Invalidate(s) PROVE Queued'
  BY <1>0, <1>7 DEF Invalidate, Queued
<1>8. ASSUME NEW s \in Session, Accept(s) PROVE Queued'
  BY <1>0, <1>1, <1>8 DEF Accept, At, Queued
<1>9. ASSUME NEW s \in Session, NEW raw \in RawLimits, StartList(s, raw)
      PROVE  Queued'
  BY <1>0, <1>9 DEF StartList, Step, Queued, TypeOK
<1>10. ASSUME NEW s \in Session, Hit(s) PROVE Queued'
  <2>1. PICK list, age : Finish(s, "list", list, age)
    BY <1>10 DEF Hit
  <2>2. UNCHANGED topic
    BY <1>10 DEF Hit
  <2>3. QED
    BY <1>0, <1>1, <2>1, <2>2 DEF Queued
<1>11. ASSUME NEW s \in Session, LookupMisses(s) \/ Read(s) PROVE Queued'
  BY <1>0, <1>11 DEF LookupMisses, Read, Step, Queued, TypeOK
<1>12. ASSUME NEW s \in Session, ReadFails(s) \/ Fill(s) \/ Abort(s)
       PROVE  Queued'
  BY <1>0, <1>1, <1>12 DEF ReadFails, Fill, Abort, Fail, Queued
<1>13. CASE \/ \E n \in Notification : Resolve(n)
            \/ Tick
            \/ UNCHANGED vars
  BY <1>0, <1>13 DEF Resolve, Tick, vars, handlerVars, Queued
<1>14. QED
  BY <1>2, <1>3, <1>4, <1>5, <1>6, <1>7, <1>8, <1>9, <1>10, <1>11, <1>12, <1>13
     DEF Next, SessionNext

LEMMA TypeInvInit == Init => TypeInv
<1> SUFFICES ASSUME Init PROVE TypeInv
  OBVIOUS
<1>1. TypeOK
  <2>1. NoReply \in Reply /\ {} \in Listing
    BY Constants DEF NoReply, Reply, Listing
  <2>2. {{}} \in SUBSET SUBSET Notification
    OBVIOUS
  <2>3. /\ cache \in [Key -> Entry \cup {Miss}]
        /\ status \in [Notification -> Status]
        /\ created \in [Notification -> Nat]
    BY DEF Init, Status
  <2>4. /\ found \in [Session -> Listing]
        /\ reply \in [Session -> Reply]
    BY <2>1 DEF Init
  <2>5. /\ limit \in [Session -> Limit]
        /\ faults \in 0 .. MaxFaults
    BY Constants DEF Init
  <2>6. /\ doomed \in [Session -> SUBSET Limit]
        /\ acked \in [Session -> SUBSET Notification]
        /\ target \in [Session -> Notification \cup {NoNotification}]
    BY DEF Init
  <2>7. QED
    BY <2>2, <2>3, <2>4, <2>5, <2>6 DEF Init, TypeOK
<1>2. Rows = {}
  BY DEF Init, Rows
<1>3. Targets /\ Listers /\ Clock /\ Queued
  BY <1>1, <1>2 DEF Init, Targets, Listers, Clock, Queued, NoReply
<1>4. QED
  BY <1>1, <1>3 DEF TypeInv

LEMMA TypeInvNext == TypeInv /\ [Next]_vars => TypeInv'
BY TypeNext, TargetsNext, QueuedNext DEF TypeInv

\* Every variable keeps its type.
THEOREM TypeCorrect == Spec => []TypeOK
<1>1. TypeInv => TypeOK
  BY DEF TypeInv
<1>2. QED
  BY TypeInvInit, TypeInvNext, <1>1, PTL DEF Spec

\* Whatever fails on the way, a notification acknowledged with 202 has its row
\* and its event.
THEOREM AcceptsQueue == Spec => []AcceptedIsQueued
<1>1. TypeInv => AcceptedIsQueued
  BY DEF TypeInv, Queued, AcceptedIsQueued, Rows
<1>2. QED
  BY TypeInvInit, TypeInvNext, <1>1, PTL DEF Spec

-----------------------------------------------------------------------------
(* The age of an answer.                                                   *)

\* What is left of an entry's time to live and its age are one TTL.
Ages ==
  /\ \A k \in Key : cache[k] # Miss => cache[k].ttl + cache[k].age = TTL
  /\ \A s \in Session : reply[s].age < TTL

LEMMA AgesNext == TypeInv /\ Ages /\ [Next]_vars => Ages'
<1> SUFFICES ASSUME TypeInv, Ages, [Next]_vars PROVE Ages'
  OBVIOUS
<1>0. TypeOK
  BY DEF TypeInv
<1>1. ASSUME NEW s \in Session, NEW kind, NEW list, NEW age,
             Finish(s, kind, list, age), age < TTL,
             \A k \in Key :
               \/ cache'[k] = cache[k]
               \/ cache'[k] = [list |-> found[s], ttl |-> TTL, age |-> 0]
      PROVE  Ages'
  <2>1. Answered(s, kind, list, age)
    BY <1>0, <1>1, FinishSteps
  <2>2. \A k \in Key : cache'[k] # Miss => cache'[k].ttl + cache'[k].age = TTL
    BY <1>1, Constants DEF Ages
  <2>3. \A t \in Session : reply'[t].age < TTL
    BY <1>1, <2>1 DEF Answered, Ages
  <2>4. QED
    BY <2>2, <2>3 DEF Ages
<1>2. 0 < TTL /\ NoReply.age = 0
  BY Constants DEF NoReply
<1>3. CASE \E s \in Session : \/ InsertFails(s) \/ PublishFails(s) \/ Accept(s)
                              \/ ReadFails(s) \/ Abort(s)
  BY <1>1, <1>2, <1>3
     DEF InsertFails, PublishFails, Accept, ReadFails, Abort, Fail
<1>4. ASSUME NEW s \in Session, Hit(s) PROVE Ages'
  <2> DEFINE k == CacheKey(UserOf[s], limit[s])
  <2>1. k \in Key /\ cache[k] \in Entry /\ cache[k] # Miss
    BY <1>0, <1>4, Constants DEF Hit, TypeOK
  <2>2. cache' = cache
    BY <1>0, <1>4, <2>1 DEF Hit, AfterHit, TypeOK
  <2>3. cache[k].age < TTL
    BY <2>1, Constants DEF Ages, Entry
  <2>4. PICK list : Finish(s, "list", list, cache[k].age)
    BY <1>4 DEF Hit
  <2>5. PICK age : age = cache[k].age
    OBVIOUS
  <2>6. QED
    BY <1>1, <2>2, <2>3, <2>4, <2>5
<1>5. ASSUME NEW s \in Session, Fill(s) PROVE Ages'
  <2>1. \A k \in Key : \/ cache'[k] = cache[k]
                      \/ cache'[k] = [list |-> found[s], ttl |-> TTL, age |-> 0]
    BY <1>0, <1>5 DEF Fill, TypeOK
  <2>2. PICK list : Finish(s, "list", list, 0)
    BY <1>5 DEF Fill
  <2>3. QED
    BY <1>1, <1>2, <2>1, <2>2
<1>6. CASE \E s \in Session : \/ \E n \in Notification : StartEnqueue(s, n)
                              \/ \E raw \in RawLimits : StartList(s, raw)
  <2>1. /\ cache' = cache
        /\ \A t \in Session : reply'[t] = reply[t] \/ reply'[t] = NoReply
    BY <1>0, <1>6 DEF StartEnqueue, StartList, TypeOK
  <2>2. QED
    BY <1>2, <2>1 DEF Ages
<1>7. CASE \E s \in Session : Invalidate(s)
  <2>1. /\ \A k \in Key : cache'[k] = cache[k] \/ cache'[k] = Miss
        /\ reply' = reply
    BY <1>0, <1>7 DEF Invalidate, TypeOK
  <2>2. QED
    BY <2>1 DEF Ages
<1>8. CASE Tick
  <2>1. ASSUME NEW k \in Key, cache'[k] # Miss
        PROVE  cache'[k].ttl + cache'[k].age = TTL
    <3>1. cache'[k] = AfterTick(cache[k])
      BY <1>8 DEF Tick
    <3>2. /\ cache[k] # Miss
          /\ cache'[k] = [list |-> cache[k].list, ttl |-> cache[k].ttl - 1,
                          age |-> cache[k].age + 1]
      BY <2>1, <3>1 DEF AfterTick
    <3>3. cache[k] \in Entry
      BY <1>0, <3>2 DEF TypeOK
    <3>4. cache[k].ttl \in Int /\ cache[k].age \in Int
      BY <3>3 DEF Entry
    <3>5. QED
      BY <3>2, <3>4, Constants DEF Ages
  <2>2. reply' = reply
    BY <1>8 DEF Tick
  <2>3. QED
    BY <2>1, <2>2 DEF Ages
<1>9. CASE UNCHANGED <<cache, reply>>
  BY <1>9 DEF Ages
<1>10. QED
  BY <1>3, <1>4, <1>5, <1>6, <1>7, <1>8, <1>9
     DEF Next, SessionNext, Insert, Publish, LookupMisses, Read, Resolve, vars

\* A list, however often it is served from the cache, is served for less than
\* its time to live after it was stored: reading it does not renew it.
THEOREM AgeBounded == Spec => []HitAgeBounded
<1>1. Init => Ages
  BY Constants DEF Init, Ages, NoReply
<1>2. TypeInv /\ Ages => HitAgeBounded
  BY DEF Ages, HitAgeBounded
<1>3. QED
  BY TypeInvInit, TypeInvNext, AgesNext, <1>1, <1>2, PTL DEF Spec

-----------------------------------------------------------------------------
(* The newest rows of a set.                                               *)

\* A set of numbers that is not empty has a least one.
LEMMA Least ==
  ASSUME NEW T \in SUBSET Nat, T # {}
  PROVE  \E x \in T : \A y \in T : x <= y
<1>1. PICK x \in T : \A y \in T : ~(<<y, x>> \in OpToRel(<, Nat))
  BY NatLessThanWellFounded, WFMin, Zenon
<1>2. \A y \in T : ~(y < x)
  BY <1>1 DEF OpToRel
<1>3. QED
  BY <1>2

\* The ids that are newer than n.
Newer(ids, n) == {m \in ids : created[m] > created[n]}

\* If n is not among the l newest of a finite set, they are l, all newer than n.
\* The oldest id that is not among them has exactly the l newest above it.
LEMMA NewestFull ==
  ASSUME NEW ids, IsFiniteSet(ids), NEW l \in Nat,
         \A m \in ids : created[m] \in Nat,
         \A m, k \in ids : created[m] = created[k] => m = k,
         NEW n \in ids, n \notin Newest(ids, l)
  PROVE  /\ Cardinality(Newest(ids, l)) = l
         /\ \A m \in Newest(ids, l) : created[m] > created[n]
<1> DEFINE rank(m) == Cardinality(Newer(ids, m))
<1>1. \A m \in ids : rank(m) \in Nat /\ IsFiniteSet(Newer(ids, m))
  BY FS_Subset, FS_CardinalityType DEF Newer
<1>2. Newest(ids, l) = {m \in ids : rank(m) < l}
  BY DEF Newest, Newer
<1>3. \A m, k \in ids : created[m] > created[k] => rank(m) < rank(k)
  <2> SUFFICES ASSUME NEW m \in ids, NEW k \in ids, created[m] > created[k]
               PROVE  rank(m) < rank(k)
    OBVIOUS
  <2>1. /\ Newer(ids, m) \subseteq Newer(ids, k)
        /\ m \in Newer(ids, k) \ Newer(ids, m)
    BY DEF Newer
  <2>2. /\ rank(m) <= rank(k)
        /\ rank(k) = rank(m) => Newer(ids, k) = Newer(ids, m)
    BY <1>1, <2>1, FS_Subset
  <2>3. QED
    BY <1>1, <2>1, <2>2
<1>4. PICK a \in ids : /\ rank(a) >= l
                       /\ \A m \in ids : rank(m) >= l => rank(a) <= rank(m)
  <2> DEFINE T == {rank(m) : m \in {k \in ids : rank(k) >= l}}
  <2>1. T \in SUBSET Nat
    BY <1>1
  <2>2. rank(n) \in T
    BY <1>1, <1>2
  <2>3. PICK x \in T : \A y \in T : x <= y
    BY <2>1, <2>2, Least
  <2>4. QED
    BY <2>3
<1>5. Newest(ids, l) = Newer(ids, a)
  <2>1. \A m \in ids : created[m] > created[a] => rank(m) < l
    BY <1>1, <1>3, <1>4
  <2>2. \A m \in ids : rank(m) < l => created[m] > created[a]
    <3> SUFFICES ASSUME NEW m \in ids, rank(m) < l, ~(created[m] > created[a])
                 PROVE  FALSE
      OBVIOUS
    <3>1. m # a
      BY <1>1, <1>4
    <3>2. created[a] > created[m]
      BY <3>1
    <3>3. QED
      BY <1>1, <1>3, <1>4, <3>2
  <2> HIDE DEF rank
  <2>3. QED
    BY <1>2, <2>1, <2>2 DEF Newer
<1>6. rank(a) = l
  <2> SUFFICES ASSUME rank(a) # l PROVE FALSE
    OBVIOUS
  <2>1. rank(a) \in Nat /\ rank(a) > l
    BY <1>1, <1>4
  <2>2. Newer(ids, a) # {}
    BY <2>1, FS_EmptySet
  <2>3. PICK b \in Newer(ids, a) :
          \A m \in Newer(ids, a) : created[b] <= created[m]
    <3> DEFINE T == {created[m] : m \in Newer(ids, a)}
    <3>1. T \in SUBSET Nat /\ T # {}
      BY <2>2 DEF Newer
    <3>2. PICK x \in T : \A y \in T : x <= y
      BY <3>1, Least
    <3>3. QED
      BY <3>2
  <2>4. Newer(ids, b) = Newer(ids, a) \ {b}
    BY <2>3 DEF Newer
  <2>5. rank(b) = rank(a) - 1
    BY <1>1, <2>4, FS_RemoveElement
  <2>6. b \in ids /\ rank(b) >= l /\ rank(b) < rank(a)
    BY <2>1, <2>5 DEF Newer
  <2>7. QED
    BY <1>1, <1>4, <2>6
<1>7. \A m \in Newest(ids, l) : created[m] > created[n]
  <2> SUFFICES ASSUME NEW m \in Newest(ids, l) PROVE created[m] > created[n]
    OBVIOUS
  <2>1. m \in ids /\ rank(m) < l /\ rank(n) >= l
    BY <1>1, <1>2
  <2>2. ~(created[n] > created[m]) /\ m # n
    BY <1>1, <1>3, <2>1
  <2>3. QED
    BY <2>1, <2>2
<1>8. QED
  BY <1>5, <1>6, <1>7

\* The ids of a list from the database are the newest ones.
LEMMA ListIds ==
  ASSUME NEW u \in User, NEW l \in Limit
  PROVE  Ids(ListByUser(u, l)) = Newest(Of(u, Rows), l)
<1> DEFINE new == Newest(Of(u, Rows), l)
<1> HIDE DEF new
<1>1. ListByUser(u, l) = {<<m, status[m]>> : m \in new}
  BY DEF ListByUser, new
<1>2. \A m \in new : <<m, status[m]>>[1] = m
  OBVIOUS
<1>3. \A row \in ListByUser(u, l) : row[1] \in new
  BY <1>1, <1>2
<1>4. \A m \in new : \E row \in ListByUser(u, l) : row[1] = m
  BY <1>1, <1>2
<1>5. QED
  BY <1>3, <1>4 DEF Ids, new

\* What the database answers shows a row, or is full of newer ones.
LEMMA ListCovers ==
  ASSUME TypeInv, IsFiniteSet(Rows), NEW u \in User, NEW l \in Limit,
         NEW n \in Rows, OwnerOf[n] = u
  PROVE  Covers(ListByUser(u, l), l, n)
<1> DEFINE ids == Of(u, Rows)
           new == Newest(ids, l)
<1>1. TypeOK /\ Clock /\ Rows \subseteq Notification
  BY RowsTyped DEF TypeInv
<1>2. ids \subseteq Rows /\ n \in ids
  BY DEF Of
<1>a. IsFiniteSet(ids)
  BY <1>2, FS_Subset
<1>3. new \subseteq ids /\ IsFiniteSet(new)
  BY <1>a, FS_Subset DEF Newest
<1>4. /\ \A m \in ids : created[m] \in Nat
      /\ \A m, k \in ids : created[m] = created[k] => m = k
  BY <1>1, <1>2 DEF TypeOK, Clock
<1>5. l \in Nat
  BY DEF Limit
<1> HIDE DEF ids, new
<1>6. ListByUser(u, l) = {<<m, status[m]>> : m \in new}
  BY DEF ListByUser, new, ids
<1>7. Ids(ListByUser(u, l)) = new
  BY ListIds DEF new, ids
<1>8. Cardinality(ListByUser(u, l)) = Cardinality(new)
  <2> DEFINE f == [m \in new |-> <<m, status[m]>>]
  <2>1. f \in Bijection(new, ListByUser(u, l))
    BY <1>6 DEF Bijection, Injection, Surjection, IsInjective
  <2>2. QED
    BY <1>3, <2>1, FS_Bijection DEF ExistsBijection
<1>9. CASE n \in new
  BY <1>7, <1>9 DEF Covers
<1>10. CASE n \notin new
  <2>1. Cardinality(new) = l /\ \A m \in new : created[m] > created[n]
    BY <1>2, <1>a, <1>4, <1>5, <1>10, NewestFull DEF new
  <2>2. QED
    BY <1>7, <1>8, <2>1 DEF Covers
<1>11. QED
  BY <1>9, <1>10

-----------------------------------------------------------------------------
(* Where a list comes from.                                                *)

LEMMA CacheFrom ==
  ASSUME TypeInv, [Next]_vars, NEW k \in Key, cache'[k] # Miss
  PROVE  \/ cache[k] # Miss /\ cache'[k].list = cache[k].list
         \/ \E t \in Session : /\ pc[t] = "fill"
                               /\ CacheKey(UserOf[t], limit[t]) = k
                               /\ cache'[k].list = found[t]
<1>0. TypeOK
  BY DEF TypeInv
<1>1. CASE UNCHANGED cache
  BY <1>1
<1>2. CASE \E s \in Session : Invalidate(s)
  BY <1>0, <1>2 DEF Invalidate, TypeOK
<1>3. ASSUME NEW s \in Session, Hit(s) PROVE cache' = cache
  BY <1>0, <1>3, Constants DEF Hit, AfterHit, TypeOK
<1>4. ASSUME NEW s \in Session, Fill(s),
             cache' = [cache EXCEPT ![CacheKey(UserOf[s], limit[s])] =
                         [list |-> found[s], ttl |-> TTL, age |-> 0]]
      PROVE  \/ cache'[k] = cache[k]
             \/ /\ pc[s] = "fill"
                /\ CacheKey(UserOf[s], limit[s]) = k
                /\ cache'[k].list = found[s]
  BY <1>0, <1>4 DEF Fill, At, TypeOK
<1>5. CASE Tick
  BY <1>0, <1>5 DEF Tick, AfterTick, TypeOK
<1>6. CASE \E s \in Session : Hit(s) \/ Fill(s)
  <2>1. PICK s \in Session : Hit(s) \/ Fill(s)
    BY <1>6
  <2>2. CASE Hit(s)
    BY <1>1, <1>3, <2>2
  <2>3. CASE Fill(s)
    BY <1>1, <1>4, <2>3 DEF Fill
  <2>4. QED
    BY <2>1, <2>2, <2>3
<1>7. QED
  BY <1>1, <1>2, <1>5, <1>6
     DEF Next, SessionNext, StartEnqueue, Insert, InsertFails, Publish,
         PublishFails, Accept, StartList, LookupMisses, Read, ReadFails, Abort,
         Resolve, vars

LEMMA FoundFrom ==
  ASSUME TypeInv, [Next]_vars, NEW s \in Session, pc'[s] = "fill"
  PROVE  /\ limit'[s] = limit[s]
         /\ \/ pc[s] = "fill" /\ found'[s] = found[s]
            \/ Read(s) /\ found'[s] = ListByUser(UserOf[s], limit[s])
<1>0. TypeOK
  BY DEF TypeInv
<1>1. ASSUME NEW t \in Session, NEW kind, NEW list, NEW age,
             Finish(t, kind, list, age)
      PROVE  pc[s] = "fill" /\ UNCHANGED <<limit[s], found[s]>>
  <2>1. Answered(t, kind, list, age)
    BY <1>0, <1>1, FinishSteps
  <2>2. QED
    BY <2>1 DEF Answered
<1>2. CASE \E t \in Session : \/ InsertFails(t) \/ PublishFails(t) \/ Accept(t)
                              \/ Hit(t) \/ ReadFails(t) \/ Fill(t) \/ Abort(t)
  BY <1>1, <1>2 DEF InsertFails, PublishFails, Accept, Hit, ReadFails, Fill,
                    Abort, Fail
<1>3. CASE \E t \in Session : Read(t)
  BY <1>0, <1>3 DEF Read, Step, TypeOK
<1>4. CASE \E t \in Session : \/ \E n \in Notification : StartEnqueue(t, n)
                              \/ Insert(t) \/ Publish(t) \/ LookupMisses(t)
  BY <1>0, <1>4 DEF StartEnqueue, Insert, Publish, LookupMisses, Step, TypeOK
<1>5. CASE \E t \in Session : \E raw \in RawLimits : StartList(t, raw)
  BY <1>0, <1>5 DEF StartList, Step, TypeOK
<1>6. CASE UNCHANGED <<pc, limit, found>>
  BY <1>6
<1>7. QED
  BY <1>2, <1>3, <1>4, <1>5, <1>6
     DEF Next, SessionNext, Invalidate, Resolve, Tick, vars, handlerVars

LEMMA ReplyFrom ==
  ASSUME TypeInv, [Next]_vars, NEW s \in Session, reply'[s].kind = "list"
  PROVE  \/ reply'[s] = reply[s]
         \/ /\ pc[s] \in {"lookup", "fill"}
            /\ reply'[s].limit = limit[s]
            /\ \/ pc[s] = "fill" /\ reply'[s].list = found[s]
               \/ LET k == CacheKey(UserOf[s], limit[s])
                  IN  cache[k] # Miss /\ reply'[s].list = cache[k].list
<1>0. TypeOK
  BY DEF TypeInv
<1>1. ASSUME NEW t \in Session, NEW kind, NEW list, NEW age,
             Finish(t, kind, list, age)
      PROVE  \/ reply'[s] = reply[s]
             \/ /\ t = s /\ kind = "list"
                /\ reply'[s].limit = limit[s] /\ reply'[s].list = list
  <2>1. Answered(t, kind, list, age)
    BY <1>0, <1>1, FinishSteps
  <2>2. QED
    BY <2>1 DEF Answered
<1>2. CASE \E t \in Session : \/ InsertFails(t) \/ PublishFails(t) \/ Accept(t)
                              \/ ReadFails(t) \/ Abort(t)
  BY <1>1, <1>2 DEF InsertFails, PublishFails, AfterPublishError, Accept,
                    ReadFails, Abort, Fail
<1>3. ASSUME NEW t \in Session, Hit(t)
      PROVE  \/ reply'[s] = reply[s]
             \/ /\ pc[s] = "lookup" /\ reply'[s].limit = limit[s]
                /\ cache[CacheKey(UserOf[s], limit[s])] # Miss
                /\ reply'[s].list = cache[CacheKey(UserOf[s], limit[s])].list
  <2>1. PICK list, age : /\ Finish(t, "list", list, age)
                         /\ list = cache[CacheKey(UserOf[t], limit[t])].list
    BY <1>3 DEF Hit
  <2>2. QED
    BY <1>1, <1>3, <2>1 DEF Hit, At
<1>4. ASSUME NEW t \in Session, Fill(t)
      PROVE  \/ reply'[s] = reply[s]
             \/ /\ pc[s] = "fill" /\ reply'[s].limit = limit[s]
                /\ reply'[s].list = found[s]
  <2>1. PICK list : Finish(t, "list", list, 0) /\ list = found[t]
    BY <1>4 DEF Fill
  <2>2. QED
    BY <1>1, <1>4, <2>1 DEF Fill, At
<1>5. CASE \E t \in Session : \/ \E n \in Notification : StartEnqueue(t, n)
                              \/ \E raw \in RawLimits : StartList(t, raw)
  BY <1>0, <1>5 DEF StartEnqueue, StartList, NoReply, TypeOK
<1>6. CASE UNCHANGED reply
  BY <1>6
<1>7. QED
  BY <1>2, <1>3, <1>4, <1>5, <1>6
     DEF Next, SessionNext, Insert, Publish, Invalidate, LookupMisses, Read,
         Resolve, Tick, vars

\* A list in sight of session s for limit l: it can be served from the cache, is
\* about to be stored and served, or has been served.
InSight(s, list, l) ==
  \/ /\ cache[CacheKey(UserOf[s], l)] # Miss
     /\ cache[CacheKey(UserOf[s], l)].list = list
  \/ pc[s] = "fill" /\ limit[s] = l /\ found[s] = list
  \/ reply[s].kind = "list" /\ reply[s].limit = l /\ reply[s].list = list

\* A list in sight has been before, or for a session of the same user, or it is
\* what the database holds.
LEMMA SightFrom ==
  ASSUME TypeInv, [Next]_vars, NEW s \in Session, NEW l \in Limit, NEW list,
         InSight(s, list, l)'
  PROVE  \/ InSight(s, list, l)
         \/ \E t \in Session : /\ UserOf[t] = UserOf[s] /\ pc[t] = "fill"
                               /\ InSight(t, list, l)
         \/ Read(s) /\ limit[s] = l /\ list = ListByUser(UserOf[s], l)
<1> DEFINE k == CacheKey(UserOf[s], l)
<1>1. k \in Key
  BY Constants
<1>2. CASE cache'[k] # Miss /\ cache'[k].list = list
  <2>1. CASE cache[k] # Miss /\ cache'[k].list = cache[k].list
    BY <1>2, <2>1 DEF InSight
  <2>2. CASE \E t \in Session : /\ pc[t] = "fill"
                                /\ CacheKey(UserOf[t], limit[t]) = k
                                /\ cache'[k].list = found[t]
    BY <1>2, <2>2 DEF InSight, CacheKey
  <2>3. QED
    BY <1>1, <1>2, <2>1, <2>2, CacheFrom
<1>3. CASE pc'[s] = "fill" /\ limit'[s] = l /\ found'[s] = list
  BY <1>3, FoundFrom DEF InSight
<1>4. CASE /\ reply'[s].kind = "list"
           /\ reply'[s].limit = l
           /\ reply'[s].list = list
  BY <1>4, ReplyFrom DEF InSight
<1>5. QED
  BY <1>2, <1>3, <1>4 DEF InSight

-----------------------------------------------------------------------------
(* A list is one the database has held.                                    *)

\* What a row shows of its creation stays, and a recorded outcome stays one.
LEMMA RowsStay ==
  ASSUME TypeInv, [Next]_vars, NEW n \in Rows
  PROVE  /\ created'[n] = created[n]
         /\ status[n] # "pending" => status'[n] # "pending"
<1>0. TypeOK /\ Targets /\ Clock /\ n \in Notification
  BY RowsTyped DEF TypeInv
<1>1. created'[n] = created[n]
  <2>1. CASE \E s \in Session, m \in Notification : StartEnqueue(s, m)
    BY <1>0, <2>1 DEF StartEnqueue, Stamp, Clock, TypeOK
  <2>2. CASE UNCHANGED created
    BY <2>2
  <2>3. QED
    BY <2>1, <2>2
       DEF Next, SessionNext, Insert, InsertFails, Publish, PublishFails,
           Invalidate, Accept, StartList, Hit, LookupMisses, Read, ReadFails,
           Fill, Abort, Resolve, Tick, vars
<1>2. status[n] # "pending" => status'[n] # "pending"
  <2>1. CASE \E s \in Session : pc[s] = "insert" /\ InsertRow(target[s])
    BY <1>0, <2>1, InsertedRows DEF Targets, Rows
  <2>2. CASE \E m \in Notification : Resolve(m)
    BY <1>0, <2>2 DEF Resolve, TypeOK
  <2>3. QED
    BY <2>1, <2>2, RowSteps
<1>3. QED
  BY <1>1, <1>2

\* The sets of rows there have been.
HeldRows == Rows \in held /\ \A ids \in held : ids \subseteq Rows

LEMMA HeldRowsNext == TypeInv /\ HeldRows /\ [Next]_vars => HeldRows'
<1> SUFFICES ASSUME TypeInv, HeldRows, [Next]_vars PROVE HeldRows'
  OBVIOUS
<1>0. TypeOK /\ Targets /\ Queued
  BY DEF TypeInv
<1>1. CASE UNCHANGED <<status, held>>
  BY <1>1 DEF HeldRows, Rows
<1>2. CASE \E s \in Session : pc[s] = "insert" /\ InsertRow(target[s])
  BY <1>0, <1>2, InsertedRows DEF HeldRows, Targets
<1>3. CASE UNCHANGED held /\ \E n \in Notification : Resolve(n)
  <2>1. Rows' = Rows
    BY <1>0, <1>3 DEF Resolve, Rows, Queued, TypeOK
  <2>2. QED
    BY <1>3, <2>1 DEF HeldRows
<1>4. QED
  BY <1>1, <1>2, <1>3, RowSteps

LEMMA NewestStays ==
  ASSUME TypeInv, [Next]_vars, NEW ids \in SUBSET Rows, NEW l
  PROVE  Newest(ids, l)' = Newest(ids, l)
<1>1. \A n \in ids : created'[n] = created[n]
  BY RowsStay
<1>2. \A n \in ids : {m \in ids : created'[m] > created'[n]}
                       = {m \in ids : created[m] > created[n]}
  BY <1>1
<1>3. QED
  BY <1>2 DEF Newest

LEMMA SnapshotStays ==
  ASSUME TypeInv, HeldRows, [Next]_vars,
         NEW list, NEW u, NEW l, Snapshot(list, u, l)
  PROVE  Snapshot(list, u, l)'
<1>1. PICK ids \in held : Ids(list) = Newest(Of(u, ids), l)
  BY DEF Snapshot
<1>2. ids \in held'
  BY RowSteps DEF InsertRow
<1>3. Of(u, ids) \subseteq Rows
  BY DEF HeldRows, Of
<1>4. Newest(Of(u, ids), l)' = Newest(Of(u, ids), l)
  BY <1>3, NewestStays
<1>5. \A row \in list : row[1] \in Rows
  BY <1>1, <1>3 DEF Ids, Newest
<1>6. \A row \in list : row[2] # "pending" => status'[row[1]] # "pending"
  BY <1>5, RowsStay DEF Snapshot
<1>7. QED
  BY <1>1, <1>2, <1>4, <1>6 DEF Snapshot, Ids, Of

Snaps ==
  /\ HeldRows
  /\ \A s \in Session, l \in Limit, list \in Listing :
       InSight(s, list, l) => Snapshot(list, UserOf[s], l)

LEMMA SnapsNext == TypeInv /\ Snaps /\ [Next]_vars => Snaps'
<1> SUFFICES ASSUME TypeInv, Snaps, [Next]_vars,
                    NEW s \in Session, NEW l \in Limit, NEW list \in Listing,
                    InSight(s, list, l)'
             PROVE  Snapshot(list, UserOf[s], l)'
  BY HeldRowsNext DEF Snaps
<1>1. CASE InSight(s, list, l)
  BY <1>1, SnapshotStays DEF Snaps
<1>2. CASE \E t \in Session : UserOf[t] = UserOf[s] /\ InSight(t, list, l)
  BY <1>2, SnapshotStays DEF Snaps
<1>3. CASE list = ListByUser(UserOf[s], l)
  <2>1. Ids(list) = Newest(Of(UserOf[s], Rows), l)
    BY <1>3, ListIds, Constants
  <2>2. \A row \in list : row[2] = status[row[1]]
    BY <1>3 DEF ListByUser
  <2>3. Snapshot(list, UserOf[s], l)
    BY <2>1, <2>2 DEF Snapshot, Snaps, HeldRows
  <2>4. QED
    BY <2>3, SnapshotStays DEF Snaps
<1>4. QED
  BY <1>1, <1>2, <1>3, SightFrom

LEMMA SnapsInit == Init => Snaps
<1> SUFFICES ASSUME Init PROVE Snaps
  OBVIOUS
<1>1. HeldRows
  BY DEF Init, HeldRows, Rows
<1>2. \A s \in Session, l \in Limit, list \in Listing : ~InSight(s, list, l)
  BY Constants DEF Init, InSight, NoReply
<1>3. QED
  BY <1>1, <1>2 DEF Snaps

\* A served list is what the database held at some moment for its user and its
\* limit, whichever limits share the cache; the outcomes it shows are recorded.
THEOREM ListsAreSnapshots == Spec => []ListIsSnapshot
<1>1. TypeInv /\ Snaps => ListIsSnapshot
  <2> SUFFICES ASSUME TypeInv, Snaps, NEW s \in Session, reply[s].kind = "list"
               PROVE  Snapshot(reply[s].list, UserOf[s], reply[s].limit)
    BY DEF ListIsSnapshot
  <2>1. reply[s].list \in Listing /\ reply[s].limit \in Limit
    BY DEF TypeInv, TypeOK, Reply
  <2>2. QED
    BY <2>1 DEF Snaps, InSight
<1>2. QED
  BY TypeInvInit, TypeInvNext, SnapsInit, SnapsNext, <1>1, PTL DEF Spec

-----------------------------------------------------------------------------
(* A client reads what it was told is accepted.                            *)

\* One client of a user lists, the others only enqueue.
OneReaderEach == \A r, s \in Reader : UserOf[r] = UserOf[s] => r = s

\* The clients ask for limits that invalidateUserCache knows.
KnownRequests == \A raw \in RawLimits : Normalize(raw) \in KnownLimits

Asked ==
  \A s \in Session :
    /\ pc[s] \in {"lookup", "read", "fill"} => limit[s] \in InvalidatedLimits
    /\ reply[s].kind = "list" => reply[s].limit \in InvalidatedLimits

LEMMA AskedNext ==
  ASSUME KnownRequests PROVE TypeInv /\ Asked /\ [Next]_vars => Asked'
<1> SUFFICES ASSUME TypeInv, Asked, [Next]_vars, NEW s \in Session
             PROVE  /\ pc'[s] \in {"lookup", "read", "fill"}
                         => limit'[s] \in InvalidatedLimits
                    /\ reply'[s].kind = "list"
                         => reply'[s].limit \in InvalidatedLimits
  BY DEF Asked, InvalidatedLimits
<1>0. TypeOK
  BY DEF TypeInv
<1>1. reply'[s].kind = "list" => reply'[s].limit \in InvalidatedLimits
  BY ReplyFrom DEF Asked
<1>2. ASSUME NEW t \in Session, NEW kind, NEW list, NEW age,
             Finish(t, kind, list, age)
      PROVE  pc'[s] = "idle" \/ UNCHANGED <<pc[s], limit[s]>>
  <2>1. Answered(t, kind, list, age)
    BY <1>0, <1>2, FinishSteps
  <2>2. QED
    BY <2>1 DEF Answered
<1>3. CASE \E t \in Session : \/ InsertFails(t) \/ PublishFails(t) \/ Accept(t)
                              \/ Hit(t) \/ ReadFails(t) \/ Fill(t) \/ Abort(t)
  <2>1. pc'[s] = "idle" \/ UNCHANGED <<pc[s], limit[s]>>
    BY <1>2, <1>3 DEF InsertFails, PublishFails, Accept, Hit, ReadFails, Fill,
                      Abort, Fail
  <2>2. QED
    BY <1>1, <2>1 DEF Asked
<1>4. CASE \E t \in Session : \/ \E n \in Notification : StartEnqueue(t, n)
                              \/ Insert(t) \/ Publish(t)
                              \/ LookupMisses(t) \/ Read(t)
  <2>1. /\ limit'[s] = limit[s]
        /\ \/ pc'[s] \in {pc[s], "insert", "publish", "invalidate"}
           \/ pc[s] \in {"lookup", "read", "fill"}
    BY <1>0, <1>4 DEF StartEnqueue, Insert, Publish, LookupMisses, Read, At,
                      Step, TypeOK
  <2>2. QED
    BY <1>1, <2>1 DEF Asked
<1>5. CASE \E t \in Session : \E raw \in RawLimits : StartList(t, raw)
  <2>1. \/ limit'[s] \in InvalidatedLimits
        \/ pc'[s] = pc[s] /\ limit'[s] = limit[s]
    BY <1>0, <1>5 DEF StartList, Step, KnownRequests, InvalidatedLimits,
                      TypeOK
  <2>2. QED
    BY <1>1, <2>1 DEF Asked
<1>6. CASE UNCHANGED <<pc, limit>>
  BY <1>1, <1>6 DEF Asked
<1>7. QED
  BY <1>3, <1>4, <1>5, <1>6
     DEF Next, SessionNext, Invalidate, Resolve, Tick, vars, handlerVars

\* What a list for limit l must show s, or newer rows instead: what s was told,
\* and what it is about to be told once the key of l has been deleted.
Due(s, l) ==
  IF pc[s] = "invalidate" /\ l \in InvalidatedLimits \ doomed[s]
  THEN acked[s] \cup {target[s]} ELSE acked[s]

LEMMA DueRows ==
  ASSUME TypeInv, NEW s \in Session, NEW l, NEW n \in Due(s, l)
  PROVE  n \in Rows /\ OwnerOf[n] = UserOf[s]
BY DEF TypeInv, Targets, Queued, Due

\* A list is due to show one more only when the key has just been deleted.
LEMMA DueFrom ==
  ASSUME TypeInv, [Next]_vars, NEW s \in Session, NEW l \in InvalidatedLimits,
         NEW n, n \in Due(s, l)', n \notin Due(s, l)
  PROVE  /\ pc'[s] = "invalidate"
         /\ cache'[CacheKey(UserOf[s], l)] = Miss \/ undeleted' = TRUE
<1>0. TypeOK
  BY DEF TypeInv
<1>1. ASSUME NEW t \in Session, NEW kind, NEW list, NEW age,
             Finish(t, kind, list, age),
             kind = "accepted" => pc[t] = "invalidate" /\ doomed[t] = {}
      PROVE  FALSE
  <2>1. Answered(t, kind, list, age)
    BY <1>0, <1>1, FinishSteps
  <2>2. QED
    BY <1>1, <2>1 DEF Answered, Due, InvalidatedLimits
<1>2. CASE \E t \in Session : \/ InsertFails(t) \/ PublishFails(t) \/ Accept(t)
                              \/ Hit(t) \/ ReadFails(t) \/ Fill(t) \/ Abort(t)
  BY <1>1, <1>2 DEF InsertFails, PublishFails, AfterPublishError, Accept, At,
                    Hit, ReadFails, Fill, Abort, Fail
<1>3. CASE \E t \in Session : \/ \E m \in Notification : StartEnqueue(t, m)
                              \/ \E raw \in RawLimits : StartList(t, raw)
                              \/ Insert(t) \/ LookupMisses(t) \/ Read(t)
  <2>1. /\ pc'[s] = pc[s] \/ pc'[s] # "invalidate"
        /\ pc'[s] = pc[s] => target'[s] = target[s] \/ pc[s] # "invalidate"
        /\ UNCHANGED <<doomed, acked>>
    BY <1>0, <1>3 DEF StartEnqueue, StartList, Insert, LookupMisses, Read, At,
                      Step, TypeOK
  <2>2. QED
    BY <2>1 DEF Due, InvalidatedLimits
<1>4. CASE \E t \in Session : Publish(t)
  <2>1. /\ UNCHANGED <<target, acked>>
        /\ \/ UNCHANGED <<pc[s], doomed[s]>>
           \/ doomed'[s] = InvalidatedLimits
    BY <1>0, <1>4 DEF Publish, Step, TypeOK
  <2>2. QED
    BY <2>1 DEF Due, InvalidatedLimits
<1>5. ASSUME NEW t \in Session, Invalidate(t)
      PROVE  /\ pc'[s] = "invalidate"
             /\ cache'[CacheKey(UserOf[s], l)] = Miss \/ undeleted' = TRUE
  <2>1. PICK d \in doomed[t] :
          /\ pc[t] = "invalidate"
          /\ doomed' = [doomed EXCEPT ![t] = @ \ {d}]
          /\ \/ cache' = [cache EXCEPT ![CacheKey(UserOf[t], d)] = Miss]
             \/ undeleted' = TRUE
          /\ UNCHANGED <<pc, target, acked>>
    BY <1>5 DEF Invalidate, At
  <2>2. t = s /\ d = l
    BY <1>0, <2>1 DEF Due, InvalidatedLimits, TypeOK
  <2>3. CacheKey(UserOf[s], l) \in Key
    BY Constants DEF InvalidatedLimits
  <2>4. QED
    BY <1>0, <2>1, <2>2, <2>3 DEF TypeOK
<1>6. CASE \/ \E m \in Notification : Resolve(m)
           \/ Tick
           \/ UNCHANGED vars
  <2>1. UNCHANGED <<pc, target, doomed, acked>>
    BY <1>6 DEF Resolve, Tick, vars, handlerVars
  <2>2. QED
    BY <2>1 DEF Due, InvalidatedLimits
<1>7. QED
  BY <1>2, <1>3, <1>4, <1>5, <1>6 DEF Next, SessionNext

LEMMA CoversStays ==
  ASSUME TypeInv, [Next]_vars, NEW list, NEW l, NEW n \in Rows,
         Ids(list) \subseteq Rows, Covers(list, l, n)
  PROVE  Covers(list, l, n)'
<1>1. created'[n] = created[n] /\ \A m \in Ids(list) : created'[m] = created[m]
  BY RowsStay
<1>2. QED
  BY <1>1 DEF Covers, Ids

LEMMA FiniteNext ==
  TypeInv /\ IsFiniteSet(Rows) /\ [Next]_vars => IsFiniteSet(Rows')
<1> SUFFICES ASSUME TypeInv, IsFiniteSet(Rows), [Next]_vars
             PROVE  IsFiniteSet(Rows')
  OBVIOUS
<1>0. TypeOK /\ Targets /\ Queued
  BY DEF TypeInv
<1>1. CASE UNCHANGED status
  BY <1>1 DEF Rows
<1>2. CASE \E s \in Session : pc[s] = "insert" /\ InsertRow(target[s])
  <2>1. \E n \in Notification : Rows' = Rows \cup {n}
    BY <1>0, <1>2, InsertedRows DEF Targets
  <2>2. QED
    BY <2>1, FS_AddElement
<1>3. CASE \E n \in Notification : Resolve(n)
  <2>1. Rows' = Rows
    BY <1>0, <1>3 DEF Resolve, Rows, Queued, TypeOK
  <2>2. QED
    BY <2>1
<1>4. QED
  BY <1>1, <1>2, <1>3, RowSteps

\* As long as no DEL fails, the lists in sight of a reader show what is due.
Fresh ==
  ~undeleted =>
    \A s \in Reader, l \in InvalidatedLimits, list \in Listing :
      InSight(s, list, l) => \A n \in Due(s, l) : Covers(list, l, n)

FreshInv == TypeInv /\ Snaps /\ Asked /\ IsFiniteSet(Rows) /\ Fresh

LEMMA FreshNext ==
  ASSUME OneReaderEach PROVE FreshInv /\ [Next]_vars => Fresh'
<1> SUFFICES ASSUME FreshInv, [Next]_vars, ~undeleted',
                    NEW s \in Reader, NEW l \in InvalidatedLimits,
                    NEW list \in Listing, InSight(s, list, l)',
                    NEW n \in Due(s, l)'
             PROVE  Covers(list, l, n)'
  BY DEF Fresh, InvalidatedLimits
<1>0. /\ TypeInv /\ TypeOK /\ Listers /\ Snaps /\ Fresh /\ IsFiniteSet(Rows)
      /\ s \in Session /\ l \in Limit
  BY ServiceAssumption, Constants DEF FreshInv, TypeInv, InvalidatedLimits
<1>1. ~undeleted
  BY DEF Next, SessionNext, StartEnqueue, Insert, InsertFails, Publish,
         PublishFails, Invalidate, Accept, StartList, Hit, LookupMisses, Read,
         ReadFails, Fill, Abort, Resolve, Tick, vars
<1>2. n \in Due(s, l)
  <2> SUFFICES ASSUME n \notin Due(s, l) PROVE FALSE
    OBVIOUS
  <2>1. pc'[s] = "invalidate" /\ cache'[CacheKey(UserOf[s], l)] = Miss
    BY <1>0, DueFrom
  <2>2. reply'[s].kind # "list"
    BY <1>0, <2>1, TypeInvNext DEF TypeInv, Listers
  <2>3. QED
    BY <2>1, <2>2 DEF InSight
<1>3. n \in Rows /\ OwnerOf[n] = UserOf[s]
  BY <1>0, <1>2, DueRows
<1>4. ASSUME InSight(s, list, l) PROVE Covers(list, l, n)'
  <2>1. Covers(list, l, n)
    BY <1>0, <1>1, <1>2, <1>4 DEF Fresh
  <2>2. Snapshot(list, UserOf[s], l)
    BY <1>0, <1>4 DEF Snaps
  <2>3. Ids(list) \subseteq Rows
    BY <1>0, <2>2 DEF Snapshot, Snaps, HeldRows, Newest, Of
  <2>4. QED
    BY <1>0, <1>3, <2>1, <2>3, CoversStays
<1>5. CASE \E t \in Session : /\ UserOf[t] = UserOf[s] /\ pc[t] = "fill"
                              /\ InSight(t, list, l)
  <2>1. PICK t \in Session : /\ UserOf[t] = UserOf[s] /\ pc[t] = "fill"
                             /\ InSight(t, list, l)
    BY <1>5
  <2>2. t = s
    BY <1>0, <2>1 DEF Listers, OneReaderEach
  <2>3. QED
    BY <1>4, <2>1, <2>2
<1>6. CASE list = ListByUser(UserOf[s], l)
  <2>1. UserOf[s] \in User
    BY <1>0, Constants
  <2>2. Covers(list, l, n)
    BY <1>0, <1>3, <1>6, <2>1, ListCovers
  <2>3. Ids(list) \subseteq Rows
    BY <1>0, <1>6, <2>1, ListIds DEF Newest, Of
  <2>4. QED
    BY <1>0, <1>3, <2>2, <2>3, CoversStays
<1>7. QED
  BY <1>0, <1>4, <1>5, <1>6, SightFrom

\* A client that is the only one of its user to list, with known limits, finds
\* what it was told is accepted in every list it asks for later, or the list is
\* full of newer rows, as long as no DEL has failed.
THEOREM ReadsOwnWrites ==
  ASSUME OneReaderEach, KnownRequests PROVE Spec => []ReadYourWrites
<1>1. Init => FreshInv
  <2> SUFFICES ASSUME Init PROVE FreshInv
    OBVIOUS
  <2>1. Asked
    BY DEF Init, Asked, NoReply
  <2>2. Rows = {}
    BY DEF Init, Rows
  <2>3. IsFiniteSet(Rows)
    BY <2>2, FS_EmptySet
  <2>4. \A s \in Session, l \in Limit : Due(s, l) = {}
    BY DEF Init, Due
  <2>5. Fresh
    BY <2>4, ServiceAssumption, Constants DEF Fresh, InvalidatedLimits
  <2>6. QED
    BY <2>1, <2>3, <2>5, TypeInvInit, SnapsInit DEF FreshInv
<1>2. FreshInv /\ [Next]_vars => FreshInv'
  BY TypeInvNext, SnapsNext, AskedNext, FiniteNext, FreshNext DEF FreshInv
<1>3. FreshInv => ReadYourWrites
  <2> SUFFICES ASSUME FreshInv, ~undeleted, NEW s \in Session,
                      reply[s].kind = "list", NEW n \in acked[s]
               PROVE  Covers(reply[s].list, reply[s].limit, n)
    BY DEF ReadYourWrites
  <2>1. /\ s \in Reader
        /\ reply[s].list \in Listing
        /\ reply[s].limit \in InvalidatedLimits
    BY DEF FreshInv, TypeInv, TypeOK, Listers, Asked, Reply
  <2>2. InSight(s, reply[s].list, reply[s].limit)
    BY DEF InSight
  <2>3. n \in Due(s, reply[s].limit)
    BY DEF Due
  <2>4. QED
    BY <2>1, <2>2, <2>3 DEF FreshInv, Fresh
<1>4. QED
  BY <1>1, <1>2, <1>3, PTL DEF Spec
=============================================================================
