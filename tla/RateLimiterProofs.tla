------------------------- MODULE RateLimiterProofs -------------------------
(***************************************************************************)
(* Theorems about RateLimiter, for any number of clients, any window and   *)
(* any number of failing Redis calls: nobody is shut out for longer than a *)
(* pause of one window, nobody is rejected too early, and no window lets   *)
(* more than the limit through.                                            *)
(***************************************************************************)
EXTENDS RateLimiter, FiniteSetTheorems, TLAPS

-----------------------------------------------------------------------------
(* The invariant.                                                          *)

\* A key lives at most a window longer than its client has been quiet, and as
\* long as nobody is rejected all that are counted are let through.
ClientInv(c) ==
  /\ count[c] > 0 <=> ttl[c] > 0
  /\ count[c] > 0 => quiet[c] + ttl[c] <= Window
  /\ count[c] > 0 => passed[c] >= count[c] \/ passed[c] >= limit
  /\ answer[c] = "429" /\ quiet[c] = 0 => passed[c] >= limit

LimiterInv == TypeOK /\ \A c \in Client : ClientInv(c)

USE LimiterAssumption DEF LimiterInv, Recent

\* Initially there are no keys.
LEMMA LimiterInit == Init => LimiterInv
BY DEF Init, TypeOK, ClientInv

\* The transaction keeps types and renews the key.
LEMMA TransactionEffect ==
  ASSUME TypeOK, NEW c \in Client, IncrWithWindow(c)
  PROVE  /\ count' \in [Client -> 0 .. MaxCount] /\ count'[c] = count[c] + 1
         /\ ttl' \in [Client -> 0 .. Window] /\ ttl'[c] = Window
         /\ age' \in [Client -> 0 .. Window]
         /\ \A d \in Client \ {c} : count'[d] = count[d] /\ ttl'[d] = ttl[d]
BY DEF TypeOK, IncrWithWindow, NewExpiry

\* So does letting a request through.
LEMMA PassEffect ==
  ASSUME TypeOK, NEW c \in Client, Passes(c)
  PROVE  /\ answer' \in [Client -> {"none", "next", "429"}] /\ answer'[c] = "next"
         /\ passed' \in [Client -> Nat]
         /\ passed'[c] = (IF count[c] = 0 THEN 0 ELSE passed[c]) + 1
         /\ \A d \in Client \ {c} : passed'[d] = passed[d] /\ answer'[d] = answer[d]
BY DEF TypeOK, Passes

\* A request, counted or not, leaves a type-correct state.
LEMMA RequestType ==
  ASSUME LimiterInv, NEW c \in Client, Request(c) \/ FailOpen(c) \/ Unlimited(c)
  PROVE  TypeOK'
<1>1. quiet' \in [Client -> 0 .. Window]
  <2>1. quiet' = [quiet EXCEPT ![c] = 0] /\ 0 \in 0 .. Window
    BY DEF Request, FailOpen, Unlimited
  <2>2. QED
    BY <2>1 DEF TypeOK
<1>2. CASE Request(c)
  <2>1. admitted' \in [Client -> SUBSET ((1 .. MaxCount) \X Recent)]
    <3>1. /\ admitted' \in {admitted, [admitted EXCEPT ![c] = @ \cup {<<count'[c], 0>>}]}
          /\ count'[c] = count[c] + 1 /\ count[c] < MaxCount
      BY <1>2, TransactionEffect DEF Request, IncrWithWindow
    <3>2. count'[c] \in 1 .. MaxCount /\ 0 \in Recent
      BY <3>1 DEF TypeOK
    <3>3. <<count'[c], 0>> \in (1 .. MaxCount) \X Recent
      BY <3>2
    <3>4. QED
      BY <3>1, <3>3 DEF TypeOK
  <2>2. answer' \in [Client -> {"none", "next", "429"}] /\ passed' \in [Client -> Nat]
    BY <1>2, PassEffect DEF Request, TypeOK
  <2>3. QED
    BY <1>1, <1>2, <2>1, <2>2, TransactionEffect DEF Request, TypeOK
<1>3. CASE FailOpen(c)
  <2>1. /\ count' \in [Client -> 0 .. MaxCount]
        /\ ttl' \in [Client -> 0 .. Window]
        /\ age' \in [Client -> 0 .. Window]
    BY <1>3, TransactionEffect DEF FailOpen, TypeOK
  <2>2. answer' \in [Client -> {"none", "next", "429"}] /\ passed' \in [Client -> Nat]
    BY <1>3, PassEffect DEF FailOpen, TypeOK
  <2>3. faults' \in 0 .. MaxFaults /\ limit' = limit /\ admitted' = admitted
    BY <1>3 DEF FailOpen, TypeOK
  <2>4. QED
    BY <1>1, <2>1, <2>2, <2>3 DEF TypeOK
<1>4. CASE Unlimited(c)
  BY <1>1, <1>4, PassEffect DEF Unlimited, TypeOK
<1>5. QED
  BY <1>2, <1>3, <1>4

\* A request does not concern other clients.
LEMMA RequestOthers ==
  ASSUME LimiterInv, NEW c \in Client, NEW d \in Client \ {c},
         Request(c) \/ FailOpen(c) \/ Unlimited(c)
  PROVE  ClientInv(d)'
<1>1. /\ count'[d] = count[d] /\ ttl'[d] = ttl[d]
      /\ passed'[d] = passed[d] /\ answer'[d] = answer[d]
      /\ quiet'[d] = quiet[d] /\ limit' = limit
  BY TransactionEffect, PassEffect DEF Request, FailOpen, Unlimited, TypeOK
<1>2. QED
  BY <1>1 DEF ClientInv

\* A request keeps its own client's invariant.
LEMMA RequestSelf ==
  ASSUME LimiterInv, NEW c \in Client, Request(c) \/ FailOpen(c) \/ Unlimited(c)
  PROVE  ClientInv(c)'
<1>a. /\ quiet'[c] = 0 /\ limit' = limit /\ limit \in Int
      /\ count[c] \in Nat /\ ttl[c] \in Nat /\ ttl[c] <= Window /\ passed[c] \in Nat
      /\ Window \in Nat /\ Window > 0
  BY DEF Request, FailOpen, Unlimited, TypeOK
<1>b. ClientInv(c)
  OBVIOUS
<1> USE DEF ClientInv
<1>1. ASSUME IncrWithWindow(c)
      PROVE  count'[c] = count[c] + 1 /\ ttl'[c] = Window
  BY <1>1, TransactionEffect
<1>2. ASSUME Passes(c)
      PROVE  /\ answer'[c] = "next"
             /\ passed'[c] = (IF count[c] = 0 THEN 0 ELSE passed[c]) + 1
  BY <1>2, PassEffect
<1>3. CASE Request(c)
  <2>1. CASE count'[c] > limit
    <3>1. /\ answer'[c] = "429" /\ passed' = passed
          /\ count'[c] = count[c] + 1 /\ ttl'[c] = Window /\ limit > 0
      BY <1>1, <1>3, <2>1 DEF Request, Over, TypeOK
    <3>2. passed[c] >= limit
      BY <3>1, <2>1, <1>a, <1>b
    <3>3. QED
      BY <3>1, <3>2, <1>a
  <2>2. CASE ~(count'[c] > limit)
    <3>1. /\ answer'[c] = "next"
          /\ passed'[c] = (IF count[c] = 0 THEN 0 ELSE passed[c]) + 1
          /\ count'[c] = count[c] + 1 /\ ttl'[c] = Window
      BY <1>1, <1>2, <1>3, <2>2 DEF Request, Over
    <3>2. QED
      BY <3>1, <1>a, <1>b
  <2>3. QED
    BY <2>1, <2>2
<1>4. CASE FailOpen(c) \/ Unlimited(c)
  <2>1. /\ answer'[c] = "next"
        /\ passed'[c] = (IF count[c] = 0 THEN 0 ELSE passed[c]) + 1
        /\ \/ count'[c] = count[c] + 1 /\ ttl'[c] = Window
           \/ count'[c] = count[c] /\ ttl'[c] = ttl[c]
    BY <1>1, <1>2, <1>4 DEF FailOpen, Unlimited
  <2>2. QED
    BY <2>1, <1>a, <1>b
<1>5. QED
  BY <1>3, <1>4

\* So does the passing of time.
LEMMA LimiterTick == LimiterInv /\ Tick => LimiterInv'
<1> SUFFICES ASSUME LimiterInv, Tick PROVE LimiterInv'
  OBVIOUS
<1>1. admitted' \in [Client -> SUBSET ((1 .. MaxCount) \X Recent)]
  <2>1. ASSUME NEW c \in Client
        PROVE  OneTickOn(admitted[c]) \in SUBSET ((1 .. MaxCount) \X Recent)
    BY DEF OneTickOn, TypeOK
  <2>2. QED
    BY <2>1 DEF Tick
<1>2. TypeOK'
  <2>a. MaxCount \in Nat /\ Window \in Nat
    OBVIOUS
  <2>1. ASSUME NEW c \in Client
        PROVE  /\ ttl[c] \in 0 .. Window /\ (ttl[c] # 0 => ttl[c] - 1 \in 0 .. Window)
               /\ Older(age[c]) \in 0 .. Window
               /\ Older(quiet[c]) \in 0 .. Window
               /\ count[c] \in 0 .. MaxCount /\ 0 \in 0 .. MaxCount
    <3>1. /\ ttl[c] \in 0 .. Window /\ age[c] \in 0 .. Window
          /\ quiet[c] \in 0 .. Window /\ count[c] \in 0 .. MaxCount
      BY DEF TypeOK
    <3>2. Older(age[c]) \in 0 .. Window /\ Older(quiet[c]) \in 0 .. Window
      BY <3>1, <2>a DEF Older
    <3>3. (ttl[c] # 0 => ttl[c] - 1 \in 0 .. Window) /\ 0 \in 0 .. MaxCount
      BY <3>1, <2>a
    <3>4. QED
      BY <3>1, <3>2, <3>3
  <2>2. ttl' \in [Client -> 0 .. Window] /\ count' \in [Client -> 0 .. MaxCount]
    BY <2>1 DEF Tick
  <2>3. age' \in [Client -> 0 .. Window] /\ quiet' \in [Client -> 0 .. Window]
    BY <2>1 DEF Tick
  <2>4. QED
    BY <1>1, <2>2, <2>3 DEF Tick, TypeOK
<1>3. ASSUME NEW c \in Client PROVE ClientInv(c)'
  <2>1. /\ ttl'[c] = IF ttl[c] = 0 THEN 0 ELSE ttl[c] - 1
        /\ count'[c] = IF ttl[c] = 1 THEN 0 ELSE count[c]
        /\ quiet'[c] = IF quiet[c] = Window THEN Window ELSE quiet[c] + 1
        /\ passed' = passed /\ limit' = limit
    BY DEF Tick, Expires, Older
  <2>2. /\ ttl[c] \in Nat /\ count[c] \in Nat /\ passed[c] \in Nat
        /\ quiet[c] \in 0 .. Window /\ Window \in Nat \ {0}
    BY DEF TypeOK
  <2>3. QED
    BY <2>1, <2>2 DEF ClientInv
<1>4. QED
  BY <1>2, <1>3

\* Every reachable state satisfies it.
LEMMA LimiterInvariant == Spec => []LimiterInv
<1>1. LimiterInv /\ [Next]_vars => LimiterInv'
  <2> SUFFICES ASSUME LimiterInv, [Next]_vars PROVE LimiterInv'
    OBVIOUS
  <2>1. CASE UNCHANGED vars
    BY <2>1 DEF vars, TypeOK, ClientInv
  <2>2. ASSUME NEW c \in Client, Request(c) \/ FailOpen(c) \/ Unlimited(c)
        PROVE  LimiterInv'
    BY <2>2, RequestType, RequestOthers, RequestSelf
  <2>3. QED
    BY <2>1, <2>2, LimiterTick DEF Next
<1>2. QED
  BY <1>1, LimiterInit, PTL DEF Spec

-----------------------------------------------------------------------------
(* The requests of the last window.                                        *)

\* They belong to the key that there is, which lives until the last of them is
\* a window old, and the counter tells them apart.
AdmittedInv(c) ==
  /\ count[c] = 0 => admitted[c] = {}
  /\ \A r \in admitted[c] :
       r[1] <= count[c] /\ r[1] <= limit /\ r[2] + ttl[c] >= Window
  /\ \A r, s \in admitted[c] : r[1] = s[1] => r = s

SlidingInv == \A c \in Client : AdmittedInv(c)

\* A request is told from those before it by its counter.
LEMMA AdmittedGrows ==
  ASSUME LimiterInv, NEW c \in Client, AdmittedInv(c), IncrWithWindow(c),
         limit' = limit,
         \/ admitted'[c] = admitted[c]
         \/ admitted'[c] = admitted[c] \cup {<<count'[c], 0>>} /\ count'[c] <= limit
  PROVE  AdmittedInv(c)'
<1>1. count'[c] = count[c] + 1 /\ ttl'[c] = Window /\ count[c] \in Nat /\ ttl[c] \in 0 .. Window
  BY TransactionEffect DEF TypeOK
<1>2. \A r \in admitted[c] : r[1] \in Nat /\ r[2] \in Nat /\ r[1] <= count[c] /\ r[1] <= limit
  BY DEF AdmittedInv, TypeOK
<1>3. limit \in Int
  BY DEF TypeOK
<1>4. \A r \in admitted'[c] : \/ r \in admitted[c]
                              \/ r = <<count'[c], 0>> /\ count'[c] <= limit
  OBVIOUS
<1>5. \A r \in admitted'[c] :
        /\ r[1] <= count'[c] /\ r[1] <= limit' /\ r[2] + ttl'[c] >= Window
        /\ r \in admitted[c] => r[1] < count'[c]
  BY <1>1, <1>2, <1>3, <1>4
<1>6. \A r, s \in admitted'[c] : r[1] = s[1] => r = s
  <2> SUFFICES ASSUME NEW r \in admitted'[c], NEW s \in admitted'[c], r[1] = s[1]
               PROVE  r = s
    OBVIOUS
  <2>1. CASE r \in admitted[c] /\ s \in admitted[c]
    BY <2>1 DEF AdmittedInv
  <2>2. CASE r = <<count'[c], 0>> /\ s = <<count'[c], 0>>
    BY <2>2
  <2>3. ~(r \in admitted[c] /\ s = <<count'[c], 0>>)
    BY <1>1, <1>5
  <2>4. ~(s \in admitted[c] /\ r = <<count'[c], 0>>)
    BY <1>1, <1>5
  <2>5. QED
    BY <1>4, <2>1, <2>2, <2>3, <2>4
<1>7. QED
  BY <1>1, <1>5, <1>6 DEF AdmittedInv

LEMMA SlidingRequest ==
  ASSUME LimiterInv, SlidingInv, NEW c \in Client, Request(c) \/ FailOpen(c) \/ Unlimited(c)
  PROVE  SlidingInv'
<1>1. ASSUME NEW d \in Client \ {c} PROVE AdmittedInv(d)'
  <2>1. /\ count'[d] = count[d] /\ ttl'[d] = ttl[d] /\ limit' = limit
        /\ admitted'[d] = admitted[d]
    BY TransactionEffect DEF Request, FailOpen, Unlimited, TypeOK
  <2>2. QED
    BY <2>1 DEF SlidingInv, AdmittedInv
<1>2. limit' = limit /\ AdmittedInv(c)
  BY DEF Request, FailOpen, Unlimited, SlidingInv
<1>3. CASE Request(c)
  <2>1. /\ IncrWithWindow(c)
        /\ \/ admitted' = admitted
           \/ /\ admitted' = [admitted EXCEPT ![c] = @ \cup {<<count'[c], 0>>}]
              /\ ~(count'[c] > limit)
    BY <1>3 DEF Request, Over
  <2>2. count'[c] \in Nat /\ limit \in Int
    BY <2>1, TransactionEffect DEF TypeOK
  <2>3. \/ admitted'[c] = admitted[c]
        \/ admitted'[c] = admitted[c] \cup {<<count'[c], 0>>} /\ count'[c] <= limit
    BY <2>1, <2>2 DEF TypeOK
  <2>4. AdmittedInv(c)'
    BY <1>2, <2>1, <2>3, AdmittedGrows
  <2>5. QED
    BY <1>1, <2>4 DEF SlidingInv
<1>4. CASE FailOpen(c) \/ Unlimited(c)
  <2>1. admitted' = admitted /\ (IncrWithWindow(c) \/ UNCHANGED <<count, ttl>>)
    BY <1>4 DEF FailOpen, Unlimited
  <2>2. IncrWithWindow(c) => AdmittedInv(c)'
    BY <1>2, <2>1, AdmittedGrows
  <2>3. UNCHANGED <<count, ttl>> => AdmittedInv(c)'
    BY <1>2, <2>1 DEF AdmittedInv
  <2>4. QED
    BY <1>1, <2>1, <2>2, <2>3 DEF SlidingInv
<1>5. QED
  BY <1>3, <1>4

\* When the key expires, all its requests have left the window.
LEMMA SlidingTick ==
  ASSUME LimiterInv, SlidingInv, Tick PROVE SlidingInv'
<1> SUFFICES ASSUME NEW c \in Client PROVE AdmittedInv(c)'
  BY DEF SlidingInv
<1>1. /\ ttl'[c] = IF ttl[c] = 0 THEN 0 ELSE ttl[c] - 1
      /\ count'[c] = IF ttl[c] = 1 THEN 0 ELSE count[c]
      /\ admitted'[c] = OneTickOn(admitted[c]) /\ limit' = limit
  BY DEF Tick, Expires
<1>2. /\ ttl[c] \in 0 .. Window /\ count[c] \in Nat /\ (count[c] > 0 <=> ttl[c] > 0)
      /\ admitted[c] \in SUBSET ((1 .. MaxCount) \X Recent)
  BY DEF TypeOK, ClientInv
<1>3. AdmittedInv(c)
  BY DEF SlidingInv
<1>4. ASSUME NEW r \in admitted'[c]
      PROVE  \E q \in admitted[c] : /\ r[1] = q[1] /\ r[2] = q[2] + 1
                                    /\ r = <<q[1], q[2] + 1>>
                                    /\ q[2] + 1 \in Recent /\ q[1] \in Nat /\ q[2] \in Nat
  BY <1>1, <1>2 DEF OneTickOn
<1>5. admitted[c] # {} => count[c] > 0
  BY <1>2, <1>3 DEF AdmittedInv
<1>6. ASSUME NEW r \in admitted'[c]
      PROVE  /\ ttl[c] > 1 /\ r[1] <= count'[c] /\ r[1] <= limit'
             /\ r[2] + ttl'[c] >= Window
  <2>1. PICK q \in admitted[c] : /\ r[1] = q[1] /\ r[2] = q[2] + 1
                                 /\ q[2] + 1 \in Recent /\ q[1] \in Nat /\ q[2] \in Nat
    BY <1>4
  <2>2. q[1] <= count[c] /\ q[1] <= limit /\ q[2] + ttl[c] >= Window /\ q[2] + 1 < Window
    BY <2>1, <1>3 DEF AdmittedInv
  <2>3. ttl[c] > 1
    BY <2>1, <2>2, <1>2
  <2>4. QED
    BY <1>1, <1>2, <2>1, <2>2, <2>3
<1>7. count'[c] = 0 => admitted'[c] = {}
  BY <1>1, <1>2, <1>5, <1>4, <1>6
<1>8. \A r, s \in admitted'[c] : r[1] = s[1] => r = s
  <2> SUFFICES ASSUME NEW r \in admitted'[c], NEW s \in admitted'[c], r[1] = s[1]
               PROVE  r = s
    OBVIOUS
  <2>1. PICK q \in admitted[c] : r[1] = q[1] /\ r = <<q[1], q[2] + 1>>
    BY <1>4
  <2>2. PICK p \in admitted[c] : s[1] = p[1] /\ s = <<p[1], p[2] + 1>>
    BY <1>4
  <2>3. p = q
    BY <2>1, <2>2, <1>3 DEF AdmittedInv
  <2>4. QED
    BY <2>1, <2>2, <2>3
<1>9. QED
  BY <1>6, <1>7, <1>8 DEF AdmittedInv

LEMMA SlidingInvariant == Spec => [](LimiterInv /\ SlidingInv)
<1>1. Init => SlidingInv
  BY DEF Init, SlidingInv, AdmittedInv
<1>2. LimiterInv /\ SlidingInv /\ [Next]_vars => SlidingInv'
  <2> SUFFICES ASSUME LimiterInv, SlidingInv, [Next]_vars PROVE SlidingInv'
    OBVIOUS
  <2>1. CASE UNCHANGED vars
    BY <2>1 DEF vars, SlidingInv, AdmittedInv
  <2>2. QED
    BY <2>1, SlidingRequest, SlidingTick DEF Next
<1>3. QED
  BY <1>1, <1>2, LimiterInvariant, PTL DEF Spec

\* Requests with different counters up to the limit are at most limit many.
LEMMA CountedAtMostLimit ==
  ASSUME LimiterInv, SlidingInv, limit > 0, NEW c \in Client
  PROVE  Cardinality(admitted[c]) <= limit
<1> DEFINE counter == [r \in admitted[c] |-> r[1]]
<1>1. limit \in Int /\ 1 \in Int
  BY DEF TypeOK
<1>2. \A r \in admitted[c] : r[1] \in 1 .. limit
  BY <1>1 DEF SlidingInv, AdmittedInv, TypeOK
<1>3. counter \in Injection(admitted[c], 1 .. limit)
  BY <1>2 DEF Injection, IsInjective, SlidingInv, AdmittedInv
<1>4. IsFiniteSet(1 .. limit) /\ Cardinality(1 .. limit) = limit
  BY <1>1, FS_Interval
<1>5. QED
  BY <1>3, <1>4, FS_Injection

-----------------------------------------------------------------------------
(* Theorems.                                                               *)

\* Counters, expiries and answers keep to their types.
THEOREM TypeCorrect == Spec => []TypeOK
<1>1. LimiterInv => TypeOK
  OBVIOUS
<1>2. QED
  BY <1>1, LimiterInvariant, PTL

\* A client that stays quiet for a window starts afresh, whatever errors Redis
\* returned (redis.go:89-101).
THEOREM PauseAlwaysUnblocks == Spec => []PauseUnblocks
<1>1. LimiterInv => PauseUnblocks
  BY DEF ClientInv, PauseUnblocks, TypeOK
<1>2. QED
  BY <1>1, LimiterInvariant, PTL

\* Nobody is rejected before limit requests have been let through since the
\* key came into being (ratelimit.go:31-46).
THEOREM RejectionsJustified == Spec => []RejectionJustified
<1>1. LimiterInv => RejectionJustified
  BY DEF ClientInv, RejectionJustified
<1>2. QED
  BY <1>1, LimiterInvariant, PTL

\* Over any window of time, not only over a key's, at most limit requests of a
\* client are let through (ratelimit.go:24-48, redis.go:89-101).
THEOREM WindowsBounded == Spec => []SlidingBound
<1>1. LimiterInv /\ SlidingInv => SlidingBound
  BY CountedAtMostLimit DEF SlidingBound
<1>2. QED
  BY <1>1, SlidingInvariant, PTL
=============================================================================
