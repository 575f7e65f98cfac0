------------------------ MODULE NotificationService ------------------------
(***************************************************************************)
(* The API tier's notification use cases (internal/service/notification.go *)
(* behind internal/handler/notification.go): Enqueue inserts the pending   *)
(* row, publishes its event and invalidates the user's cached lists;       *)
(* ListForUser reads through a Redis cache with a 15 s time to live.       *)
(*                                                                         *)
(* A session is a client that issues one request at a time; each step of   *)
(* its handler is an action, because PostgreSQL, Kafka and Redis are       *)
(* shared with every other session and API instance.  A failing call of    *)
(* one of them spends a fault, and may have taken effect or not.          *)
(*                                                                         *)
(* A list is the set of its rows: the time of creation, which every row    *)
(* carries and no two share, says in which order they are shown.           *)
(***************************************************************************)
EXTENDS Integers, FiniteSets

CONSTANTS
  Session,       \* clients
  Reader,        \* the clients that list, the others only enqueue
  User,
  UserOf,        \* [Session -> User]
  Notification,  \* ids of notifications
  OwnerOf,       \* [Notification -> User], who enqueues that id
  RawLimits,     \* values of the limit query parameter that clients send
  DefaultLimit,  \* 20 in the code
  MaxLimit,      \* 100 in the code
  KnownLimits,   \* {20, 50, 100} in the code
  TTL,           \* lifetime of a cached list in ticks (15 s in the code)
  MaxFaults,     \* how many calls may fail or instances die
  NoNotification, \* "nothing to enqueue"
  Miss           \* "no such key" in Redis

ASSUME ServiceAssumption ==
  /\ Reader \subseteq Session
  /\ UserOf \in [Session -> User]
  /\ OwnerOf \in [Notification -> User]
  /\ RawLimits \subseteq Int
  /\ DefaultLimit \in 1 .. MaxLimit
  /\ MaxLimit \in Nat
  /\ KnownLimits \subseteq 1 .. MaxLimit
  /\ TTL \in Nat \ {0}
  /\ MaxFaults \in Nat
  /\ NoNotification \notin Notification

VARIABLES
  now,       \* PostgreSQL's clock
  created,   \* created[n]: when n's INSERT began, its created_at, or 0
  status,    \* status[n]: the status column, "absent" while there is no row
  topic,     \* the notifications whose event is in the Kafka topic
  cache,     \* cache[key]: the entry stored under key, or Miss
  pc,        \* pc[s]: the next step of the handler serving s
  target,    \* target[s]: the notification s is enqueueing
  limit,     \* limit[s]: the normalized limit of s's list request
  found,     \* found[s]: the list read from the database
  doomed,    \* doomed[s]: the limits whose key is still to be deleted
  reply,     \* reply[s]: the answer to s's last request
  faults,    \* how many faults have happened
  held,      \* history: the sets of rows the table has held
  undeleted, \* history: some DEL has failed
  acked      \* history: acked[s], what was acknowledged with 202 to s

handlerVars == <<pc, target, limit, found, doomed>>
vars == <<now, created, status, held, topic, cache, handlerVars, reply, faults,
          undeleted, acked>>

Limit  == 1 .. MaxLimit
Key    == User \X Limit
Status == {"absent", "pending", "sent", "failed"}
Listing == SUBSET (Notification \X (Status \ {"absent"}))
Entry  == [list : Listing, ttl : 1 .. TTL, age : Nat]
Reply  == [kind : {"none", "accepted", "error", "list"},
           list : Listing, limit : Limit, age : Nat]

NoReply == [kind |-> "none", list |-> {}, limit |-> DefaultLimit, age |-> 0]

TypeOK ==
  /\ now \in Nat
  /\ created \in [Notification -> Nat]
  /\ status \in [Notification -> Status]
  /\ topic \in SUBSET Notification
  /\ cache \in [Key -> Entry \cup {Miss}]
  /\ pc \in [Session -> {"idle", "insert", "publish", "invalidate",
                         "lookup", "read", "fill"}]
  /\ target \in [Session -> Notification \cup {NoNotification}]
  /\ limit \in [Session -> Limit]
  /\ found \in [Session -> Listing]
  /\ doomed \in [Session -> SUBSET Limit]
  /\ reply \in [Session -> Reply]
  /\ faults \in 0 .. MaxFaults
  /\ held \in SUBSET SUBSET Notification
  /\ undeleted \in BOOLEAN
  /\ acked \in [Session -> SUBSET Notification]

Init ==
  /\ now = 0
  /\ created = [n \in Notification |-> 0]
  /\ status = [n \in Notification |-> "absent"]
  /\ topic = {}
  /\ cache = [k \in Key |-> Miss]
  /\ pc = [s \in Session |-> "idle"]
  /\ target = [s \in Session |-> NoNotification]
  /\ limit = [s \in Session |-> DefaultLimit]
  /\ found = [s \in Session |-> {}]
  /\ doomed = [s \in Session |-> {}]
  /\ reply = [s \in Session |-> NoReply]
  /\ faults = 0
  /\ held = {{}}
  /\ undeleted = FALSE
  /\ acked = [s \in Session |-> {}]

-----------------------------------------------------------------------------
(* Helpers.                                                                *)

Fault ==
  /\ faults < MaxFaults
  /\ faults' = faults + 1

\* The rows others can read, and those of user u among them.
Rows == {n \in Notification : status[n] # "absent"}
Of(u, ids) == {n \in ids : OwnerOf[n] = u}

\* ORDER BY created_at DESC LIMIT l: the ids with fewer than l newer ones.
Newest(ids, l) ==
  {n \in ids : Cardinality({m \in ids : created[m] > created[n]}) < l}

\* SELECT ... WHERE user_id = u ORDER BY created_at DESC LIMIT l
ListByUser(u, l) == {<<n, status[n]>> : n \in Newest(Of(u, Rows), l)}

\* Mutant: the upper bound is not enforced.
NormalizeLowerOnly(raw) == IF raw <= 0 THEN DefaultLimit ELSE raw

\* normalizeLimit; parseLimit has mapped a missing or bad parameter to 0.
Normalize(raw) ==
  IF raw <= 0 THEN DefaultLimit ELSE IF raw > MaxLimit THEN MaxLimit ELSE raw

\* Mutant: the limit is not part of the key.
KeyWithoutLimit(u, l) == <<u, DefaultLimit>>

\* notif:list:<user>:<limit>
CacheKey(u, l) == <<u, l>>

\* Mutant: only the default list is invalidated.
OnlyDefault == {DefaultLimit}

\* The limits invalidateUserCache goes through.
InvalidatedLimits == KnownLimits

\* Mutant: a hit extends the entry's life.
Refreshed(e) == [e EXCEPT !.ttl = TTL]

\* A GET leaves the entry's time to live as it is.
AfterHit(e) == e

\* Mutant: a publish error is logged and the client told 202.
ReportAccepted == "accepted"

\* Enqueue returns the publish error and the handler answers 500.
AfterPublishError == "error"

\* The handler of s answers and is done.
Finish(s, kind, list, age) ==
  /\ pc' = [pc EXCEPT ![s] = "idle"]
  /\ reply' = [reply EXCEPT
                 ![s] = [kind |-> kind, list |-> list, limit |-> limit[s],
                         age |-> age]]
  /\ acked' = IF kind = "accepted"
              THEN [acked EXCEPT ![s] = @ \cup {target[s]}] ELSE acked
  /\ target' = [target EXCEPT ![s] = NoNotification]
  /\ limit' = [limit EXCEPT ![s] = DefaultLimit]
  /\ found' = [found EXCEPT ![s] = {}]
  /\ doomed' = [doomed EXCEPT ![s] = {}]

Fail(s) == Finish(s, "error", {}, 0)

At(s, here) == pc[s] = here
Step(s, there) == pc' = [pc EXCEPT ![s] = there]

\* created_at DEFAULT NOW() is the time at which the INSERT begins; if it
\* succeeds, the row is there for others when it ends.
Stamp(n) ==
  /\ now' = now + 1
  /\ created' = [created EXCEPT ![n] = now']

InsertRow(n) ==
  /\ status' = [status EXCEPT ![n] = "pending"]
  /\ held' = held \cup {Rows \cup {n}}

-----------------------------------------------------------------------------
(* POST /notifications: Enqueue.                                           *)

StartEnqueue(s, n) ==
  /\ At(s, "idle")
  /\ OwnerOf[n] = UserOf[s]
  /\ created[n] = 0
  /\ Stamp(n)
  /\ Step(s, "insert")
  /\ target' = [target EXCEPT ![s] = n]
  /\ reply' = [reply EXCEPT ![s] = NoReply]
  /\ UNCHANGED <<status, held, topic, cache, limit, found, doomed, faults,
                 undeleted, acked>>

Insert(s) ==
  /\ At(s, "insert")
  /\ InsertRow(target[s])
  /\ Step(s, "publish")
  /\ UNCHANGED <<now, created, topic, cache, target, limit, found, doomed,
                 reply, faults, undeleted, acked>>

\* Create returns an error: nothing was inserted, or the answer was lost.  The
\* id is not used again.
InsertFails(s) ==
  /\ At(s, "insert")
  /\ Fault
  /\ InsertRow(target[s]) \/ UNCHANGED <<status, held>>
  /\ Fail(s)
  /\ UNCHANGED <<now, created, topic, cache, undeleted>>

Publish(s) ==
  /\ At(s, "publish")
  /\ topic' = topic \cup {target[s]}
  /\ doomed' = [doomed EXCEPT ![s] = InvalidatedLimits]
  /\ Step(s, "invalidate")
  /\ UNCHANGED <<now, created, status, held, cache, target, limit, found,
                 reply, faults, undeleted, acked>>

\* WriteMessages returns an error: the row stays pending, the cache is not
\* invalidated, and the event may be in the topic all the same.
PublishFails(s) ==
  /\ At(s, "publish")
  /\ Fault
  /\ topic' \in {topic, topic \cup {target[s]}}
  /\ Finish(s, AfterPublishError, {}, 0)
  /\ UNCHANGED <<now, created, status, held, cache, undeleted>>

\* One DEL of the loop; its error is ignored.
Invalidate(s) ==
  \E l \in doomed[s] :
    /\ At(s, "invalidate")
    /\ doomed' = [doomed EXCEPT ![s] = @ \ {l}]
    /\ \/ /\ cache' = [cache EXCEPT ![CacheKey(UserOf[s], l)] = Miss]
          /\ UNCHANGED <<faults, undeleted>>
       \/ /\ Fault
          /\ undeleted' = TRUE
          /\ UNCHANGED cache
    /\ UNCHANGED <<now, created, status, held, topic, pc, target, limit, found,
                   reply, acked>>

Accept(s) ==
  /\ At(s, "invalidate")
  /\ doomed[s] = {}
  /\ Finish(s, "accepted", {}, 0)
  /\ UNCHANGED <<now, created, status, held, topic, cache, faults, undeleted>>

-----------------------------------------------------------------------------
(* GET /notifications: ListForUser.                                        *)

StartList(s, raw) ==
  /\ s \in Reader
  /\ At(s, "idle")
  /\ limit' = [limit EXCEPT ![s] = Normalize(raw)]
  /\ Step(s, "lookup")
  /\ reply' = [reply EXCEPT ![s] = NoReply]
  /\ UNCHANGED <<now, created, status, held, topic, cache, target, found,
                 doomed, faults, undeleted, acked>>

Hit(s) ==
  LET k == CacheKey(UserOf[s], limit[s])
  IN  /\ At(s, "lookup")
      /\ cache[k] # Miss
      /\ Finish(s, "list", cache[k].list, cache[k].age)
      /\ cache' = [cache EXCEPT ![k] = AfterHit(@)]
      /\ UNCHANGED <<now, created, status, held, topic, faults, undeleted>>

\* A miss, or a cache error: read the database.
LookupMisses(s) ==
  /\ At(s, "lookup")
  /\ \/ cache[CacheKey(UserOf[s], limit[s])] = Miss /\ UNCHANGED faults
     \/ Fault
  /\ Step(s, "read")
  /\ UNCHANGED <<now, created, status, held, topic, cache, target, limit,
                 found, doomed, reply, undeleted, acked>>

Read(s) ==
  /\ At(s, "read")
  /\ found' = [found EXCEPT ![s] = ListByUser(UserOf[s], limit[s])]
  /\ Step(s, "fill")
  /\ UNCHANGED <<now, created, status, held, topic, cache, target, limit,
                 doomed, reply, faults, undeleted, acked>>

ReadFails(s) ==
  /\ At(s, "read")
  /\ Fault
  /\ Fail(s)
  /\ UNCHANGED <<now, created, status, held, topic, cache, undeleted>>

\* SETEX of what was read; its error is ignored.
Fill(s) ==
  /\ At(s, "fill")
  /\ \/ /\ cache' = [cache EXCEPT ![CacheKey(UserOf[s], limit[s])] =
                       [list |-> found[s], ttl |-> TTL, age |-> 0]]
        /\ UNCHANGED faults
     \/ Fault /\ UNCHANGED cache
  /\ Finish(s, "list", found[s], 0)
  /\ UNCHANGED <<now, created, status, held, topic, undeleted>>

-----------------------------------------------------------------------------
(* The rest of the world.                                                  *)

\* The API instance dies with the request in progress.
Abort(s) ==
  /\ ~At(s, "idle")
  /\ Fault
  /\ Fail(s)
  /\ UNCHANGED <<now, created, status, held, topic, cache, undeleted>>

\* A worker records an outcome, for a redelivered event once more.  It does
\* not touch the cache.
Resolve(n) ==
  /\ n \in topic
  /\ \E outcome \in {"sent", "failed"} :
       status' = [status EXCEPT ![n] = outcome]
  /\ UNCHANGED <<now, created, held, topic, cache, handlerVars, reply, faults,
                 undeleted, acked>>

\* What a tick leaves of what is stored under a key.
AfterTick(e) ==
  IF e = Miss \/ e.ttl = 1 THEN Miss
  ELSE [list |-> e.list, ttl |-> e.ttl - 1, age |-> e.age + 1]

\* A tick of Redis's clock.
Tick ==
  /\ cache' = [k \in Key |-> AfterTick(cache[k])]
  /\ UNCHANGED <<now, created, status, held, topic, handlerVars, reply, faults,
                 undeleted, acked>>

SessionNext(s) ==
  \/ \E n \in Notification : StartEnqueue(s, n)
  \/ Insert(s) \/ InsertFails(s) \/ Publish(s) \/ PublishFails(s)
  \/ Invalidate(s) \/ Accept(s)
  \/ \E raw \in RawLimits : StartList(s, raw)
  \/ Hit(s) \/ LookupMisses(s) \/ Read(s) \/ ReadFails(s) \/ Fill(s)
  \/ Abort(s)

Next ==
  \/ \E s \in Session : SessionNext(s)
  \/ \E n \in Notification : Resolve(n)
  \/ Tick

Spec == Init /\ [][Next]_vars

-----------------------------------------------------------------------------
(* Properties.                                                             *)

\* A notification acknowledged with 202 has its row and its event in the topic
\* (notification.go:48-67): no accepted notification is left pending for ever
\* because a step of Enqueue failed.
AcceptedIsQueued ==
  \A s \in Session : \A n \in acked[s] : n \in topic /\ status[n] # "absent"

Ids(list) == {row[1] : row \in list}

\* n is in the list, or the list is full of newer rows.
Covers(list, l, n) ==
  \/ n \in Ids(list)
  \/ /\ Cardinality(list) = l
     /\ \A m \in Ids(list) : created[m] > created[n]

\* "Deleting known limits keeps reads fresh" (notification.go:120): a client
\* that was told 202 finds the notification in every list it asks for later,
\* unless the list is full of newer ones.  Holds for the only client of its
\* user that lists, with requests one at a time and for known limits, as long
\* as no DEL fails.
ReadYourWrites ==
  ~undeleted =>
    \A s \in Session : reply[s].kind = "list" =>
      \A n \in acked[s] : Covers(reply[s].list, reply[s].limit, n)

\* Stale or not, a list is one the database has held for this user and limit:
\* the newest of the rows there were at some moment, cut to the limit asked for
\* (the cache key, notification.go:86), and an outcome it shows is recorded.
Snapshot(list, u, l) ==
  /\ \E ids \in held : Ids(list) = Newest(Of(u, ids), l)
  /\ \A row \in list : row[2] # "pending" => status[row[1]] # "pending"

ListIsSnapshot ==
  \A s \in Session : reply[s].kind = "list" =>
    Snapshot(reply[s].list, UserOf[s], reply[s].limit)

\* However often a list is read, it is never served longer than its time to
\* live after it was stored (notification.go:102): a recorded outcome shows.
HitAgeBounded ==
  \A s \in Session : reply[s].age < TTL
=============================================================================
