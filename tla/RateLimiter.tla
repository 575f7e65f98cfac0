---------------------------- MODULE RateLimiter ----------------------------
(***************************************************************************)
(* The rate limiter (internal/middleware/ratelimit.go) over its Redis      *)
(* primitive IncrWithWindow (internal/cache/redis.go): one counter per     *)
(* client IP, incremented and given an expiry in one transaction by every  *)
(* request, whichever API instance serves it.  The answer depends only on  *)
(* the value the transaction returns, so a request is one action.          *)
(*                                                                         *)
(* Time is discrete; Window ticks stand for RATE_LIMIT_WINDOW.             *)
(***************************************************************************)
EXTENDS Integers, FiniteSets

CONSTANTS
  Client,      \* client IP addresses
  Limits,      \* values that RATE_LIMIT_REQUESTS may be configured to
  Window,      \* RATE_LIMIT_WINDOW in ticks
  MaxCount,    \* bound: requests counted on one key
  MaxFaults    \* bound: failing Redis calls

ASSUME LimiterAssumption ==
  /\ Limits \subseteq Int
  /\ Window \in Nat \ {0}
  /\ MaxCount \in Nat
  /\ MaxFaults \in Nat

VARIABLES
  limit,     \* RATE_LIMIT_REQUESTS; zero or less disables the limiter
  count,     \* count[c]: the counter under c's key, 0 when there is no key
  ttl,       \* ttl[c]: ticks until the key expires, 0 when there is no key
  faults,    \* failing Redis calls so far
  admitted,  \* history: admitted[c], the requests let through by the limiter
             \* within the last window, as <<counter, ticks ago>> (those let
             \* through on an error not counted)
  passed,    \* history: passed[c], all let through since the key was created
  age,       \* history: age[c], ticks since the key was created,
             \* up to Window
  quiet,     \* history: quiet[c], ticks since c's last request, up to Window
  answer     \* answer[c]: the outcome of c's last request

vars == <<limit, count, ttl, faults, admitted, passed, age, quiet, answer>>

Recent == 0 .. Window - 1

TypeOK ==
  /\ limit \in Limits
  /\ count \in [Client -> 0 .. MaxCount]
  /\ ttl \in [Client -> 0 .. Window]
  /\ faults \in 0 .. MaxFaults
  /\ admitted \in [Client -> SUBSET ((1 .. MaxCount) \X Recent)]
  /\ passed \in [Client -> Nat]
  /\ age \in [Client -> 0 .. Window]
  /\ quiet \in [Client -> 0 .. Window]
  /\ answer \in [Client -> {"none", "next", "429"}]

Init ==
  /\ limit \in Limits
  /\ count = [c \in Client |-> 0]
  /\ ttl = [c \in Client |-> 0]
  /\ faults = 0
  /\ admitted = [c \in Client |-> {}]
  /\ passed = [c \in Client |-> 0]
  /\ age = [c \in Client |-> 0]
  /\ quiet = [c \in Client |-> Window]
  /\ answer = [c \in Client |-> "none"]

\* Mutant: only the request that creates the key sets its expiry.
ExpireWhenNew(c) == IF count[c] = 0 THEN Window ELSE ttl[c]

\* Mutant: the key is given no expiry.
NoExpiry(c) == ttl[c]

\* Mutant: the expiry counts the tick under way on top of the window.
ExpireLate(c) == Window + 1

\* The expiry after a request: EXPIRE is part of every transaction.
NewExpiry(c) == Window

\* MULTI; INCR; EXPIRE; EXEC.
IncrWithWindow(c) ==
  /\ count[c] < MaxCount
  /\ count' = [count EXCEPT ![c] = @ + 1]
  /\ ttl' = [ttl EXCEPT ![c] = NewExpiry(c)]
  /\ age' = [age EXCEPT ![c] = IF count[c] = 0 THEN 0 ELSE @]

\* Mutant: the request that reaches the limit is rejected.
OverWhenReached(n) == n >= limit

Over(n) == n > limit

Passes(c) ==
  /\ answer' = [answer EXCEPT ![c] = "next"]
  /\ passed' = [passed EXCEPT ![c] = (IF count[c] = 0 THEN 0 ELSE @) + 1]

\* A request the limiter counts.
Request(c) ==
  /\ limit > 0
  /\ IncrWithWindow(c)
  /\ IF Over(count'[c])
     THEN /\ answer' = [answer EXCEPT ![c] = "429"]
          /\ UNCHANGED <<passed, admitted>>
     ELSE /\ Passes(c)
          /\ admitted' = [admitted EXCEPT ![c] = @ \cup {<<count'[c], 0>>}]
  /\ quiet' = [quiet EXCEPT ![c] = 0]
  /\ UNCHANGED <<limit, faults>>

\* The transaction returns an error, applied or not: fail open.
FailOpen(c) ==
  /\ limit > 0
  /\ faults < MaxFaults
  /\ faults' = faults + 1
  /\ Passes(c)
  /\ IncrWithWindow(c) \/ UNCHANGED <<count, ttl, age>>
  /\ quiet' = [quiet EXCEPT ![c] = 0]
  /\ UNCHANGED <<limit, admitted>>

\* A limit of zero or less: every request passes, Redis is not asked.
Unlimited(c) ==
  /\ limit <= 0
  /\ Passes(c)
  /\ quiet' = [quiet EXCEPT ![c] = 0]
  /\ UNCHANGED <<limit, count, ttl, faults, admitted, age>>

Expires(c) == ttl[c] = 1

Older(ticks) == IF ticks = Window THEN Window ELSE ticks + 1

\* Those that leave the window are forgotten.
OneTickOn(reqs) == {<<r[1], r[2] + 1>> : r \in {q \in reqs : q[2] + 1 \in Recent}}

Tick ==
  /\ ttl' = [c \in Client |-> IF ttl[c] = 0 THEN 0 ELSE ttl[c] - 1]
  /\ count' = [c \in Client |-> IF Expires(c) THEN 0 ELSE count[c]]
  /\ age' = [c \in Client |-> IF ttl[c] = 0 \/ Expires(c) THEN 0 ELSE Older(age[c])]
  /\ quiet' = [c \in Client |-> Older(quiet[c])]
  /\ admitted' = [c \in Client |-> OneTickOn(admitted[c])]
  /\ UNCHANGED <<limit, faults, passed, answer>>

Next ==
  \/ \E c \in Client : Request(c) \/ FailOpen(c) \/ Unlimited(c)
  \/ Tick

Spec == Init /\ [][Next]_vars

-----------------------------------------------------------------------------
(* Properties.                                                             *)

\* Over any Window consecutive ticks, not only over those of one key, the
\* limiter lets at most limit requests of a client through.
SlidingBound ==
  limit > 0 => \A c \in Client : Cardinality(admitted[c]) <= limit

\* A client that stays quiet for a window starts afresh, whatever it did
\* before and whatever errors Redis returned.
PauseUnblocks ==
  \A c \in Client : quiet[c] = Window => count[c] = 0

\* A request is rejected only after limit others have been let through since
\* the client's key came into being.
RejectionJustified ==
  \A c \in Client : answer[c] = "429" /\ quiet[c] = 0 => passed[c] >= limit

\* "On first increment, applies an expiry window ... the fixed-window rate
\* limiter" (redis.go:89-91): no counter outlives the window that began with
\* its first increment.  The code does not keep this.
FixedWindow ==
  \A c \in Client : count[c] > 0 => age[c] < Window
=============================================================================
