---------------------------- MODULE AccessProofs ----------------------------
(***************************************************************************)
(* How long a role outlives a change of its row, for any lives of tokens   *)
(* and cached profiles, any number of users and requests, and however slow *)
(* (within MaxLag) a request is.                                           *)
(***************************************************************************)
EXTENDS Access, TLAPS

-----------------------------------------------------------------------------
(* Types.                                                                  *)

\* The initial state is well typed.
LEMMA TypeInit == Init => TypeOK
BY AccessAssumption DEF Init, TypeOK, Role, Never, Token, Entry, Holding

\* The steps by which a request takes, or gives back, a role.
LEMMA TypeRequest ==
  ASSUME TypeOK, NEW r \in Request, RequestNext(r) PROVE TypeOK'
<1>1. ASSUME NEW u \in User, StartIssue(r, u) PROVE TypeOK'
  BY <1>1 DEF StartIssue, Begin, TypeOK, Holding, Role
<1>2. ASSUME Find(r) PROVE TypeOK'
  BY <1>2, AccessAssumption DEF Find, Holds, GoTo, RoleOf, TypeOK, Holding, Role
<1>3. ASSUME Sign(r) PROVE TypeOK'
  BY <1>3, AccessAssumption DEF Sign, GoTo, Lifetime, TypeOK, Holding, Token
<1>4. ASSUME NEW t \in tokens, Deny(r, t) \/ Admit(r, t) \/ Me(r, t) PROVE TypeOK'
  <2>1. t.user \in User
    BY DEF TypeOK, Token
  <2>2. /\ UNCHANGED <<role, tokens, cache, changes, found, lag, since>>
        /\ \E next \in {"denied", "admitted", "lookup"} : Begin(r, t.user, next)
    BY <1>4 DEF Deny, Admit, Me
  <2>3. QED
    BY <2>1, <2>2 DEF Begin, TypeOK, Holding
<1>5. ASSUME Hit(r) PROVE TypeOK'
  <2>1. cache' = cache /\ found' = [found EXCEPT ![r] = cache[subject[r]].role]
    BY <1>5 DEF Hit, Holds, AfterHit, TypeOK
  <2>2. cache[subject[r]].role \in Role
    BY <1>5 DEF Hit, TypeOK, Entry
  <2>3. QED
    BY <1>5, <2>1, <2>2, AccessAssumption DEF Hit, Holds, GoTo, TypeOK, Holding
<1>6. ASSUME LookupMisses(r) PROVE TypeOK'
  BY <1>6 DEF LookupMisses, GoTo, TypeOK, Holding
<1>7. ASSUME Read(r) PROVE TypeOK'
  BY <1>7, AccessAssumption DEF Read, Holds, GoTo, TypeOK, Holding
<1>8. ASSUME Fill(r) PROVE TypeOK'
  BY <1>8, AccessAssumption DEF Fill, GoTo, TypeOK, Holding, Entry
<1>9. ASSUME Finish(r) PROVE TypeOK'
  BY <1>9, AccessAssumption DEF Finish, TypeOK, Holding, Role
<1>10. QED
  BY <1>1, <1>2, <1>3, <1>4, <1>5, <1>6, <1>7, <1>8, <1>9 DEF RequestNext

\* What a tick does to a token, a cached profile and a role's age.
LEMMA TickEffects ==
  ASSUME TypeOK, Tick
  PROVE  /\ tokens' \subseteq Token
         /\ \A t \in tokens' : t.ttl > 0 =>
              \E old \in tokens : /\ old.user = t.user /\ old.role = t.role
                                  /\ old.ttl = t.ttl + 1
         /\ cache' \in [User -> Entry \cup {Miss}]
         /\ \A u \in User : cache'[u] # Miss =>
              /\ cache[u] # Miss
              /\ cache'[u].role = cache[u].role
              /\ cache[u].ttl = cache'[u].ttl + 1
         /\ since' \in [User -> [Role -> 0 .. Never]]
         /\ \A u \in User, x \in Role : since'[u][x] <= since[u][x] + 1
         /\ \A u \in User : since'[u][role[u]] = 0
<1>a. Never \in Nat /\ AccessTTL \in Nat /\ ProfileTTL \in Nat
  BY AccessAssumption DEF Never
<1>1. ASSUME NEW t \in tokens'
      PROVE  /\ t \in Token
             /\ t.ttl > 0 =>
                  \E old \in tokens : /\ old.user = t.user /\ old.role = t.role
                                      /\ old.ttl = t.ttl + 1
  <2>1. PICK old \in tokens :
          t = [old EXCEPT !.ttl = IF @ = 0 THEN 0 ELSE @ - 1]
    BY <1>1 DEF Tick
  <2>2. old \in Token
    BY DEF TypeOK
  <2>3. /\ t = [user |-> old.user, role |-> old.role,
               ttl |-> IF old.ttl = 0 THEN 0 ELSE old.ttl - 1]
        /\ old.user \in User /\ old.role \in Role /\ old.ttl \in 0 .. AccessTTL
    BY <2>1, <2>2 DEF Token
  <2>4. QED
    BY <2>3, <1>a DEF Token
<1>2. ASSUME NEW u \in User
      PROVE  /\ cache'[u] \in Entry \cup {Miss}
             /\ cache'[u] # Miss =>
                  /\ cache[u] # Miss
                  /\ cache'[u].role = cache[u].role
                  /\ cache[u].ttl = cache'[u].ttl + 1
  <2>1. cache'[u] = IF cache[u] = Miss \/ cache[u].ttl = 1 THEN Miss
                    ELSE [cache[u] EXCEPT !.ttl = @ - 1]
    BY DEF Tick
  <2>2. CASE cache[u] = Miss \/ cache[u].ttl = 1
    BY <2>1, <2>2
  <2>3. CASE cache[u] # Miss /\ cache[u].ttl # 1
    <3>1. cache[u] \in Entry
      BY <2>3 DEF TypeOK
    <3>2. /\ cache'[u] = [role |-> cache[u].role, ttl |-> cache[u].ttl - 1]
          /\ cache[u].role \in Role /\ cache[u].ttl \in 1 .. ProfileTTL
      BY <2>1, <2>3, <3>1 DEF Entry
    <3>3. QED
      BY <2>3, <3>2, <1>a DEF Entry
  <2>4. QED
    BY <2>2, <2>3
<1>3. ASSUME NEW u \in User, NEW x \in Role
      PROVE  /\ since'[u][x] \in 0 .. Never
             /\ since'[u][x] <= since[u][x] + 1
             /\ role[u] = x => since'[u][x] = 0
  <2>1. since'[u][x] = IF role[u] = x THEN 0
                     ELSE IF since[u][x] = Never THEN Never ELSE since[u][x] + 1
    BY DEF Tick
  <2>2. since[u][x] \in 0 .. Never
    BY DEF TypeOK
  <2>3. QED
    BY <2>1, <2>2, <1>a
<1>4. /\ cache' = [u \in User |-> cache'[u]]
      /\ since' = [u \in User |-> [x \in Role |-> since'[u][x]]]
  BY DEF Tick
<1>5. \A u \in User : role[u] \in Role
  BY DEF TypeOK
<1>6. QED
  BY <1>1, <1>2, <1>3, <1>4, <1>5

\* Every step keeps the types.
LEMMA TypeNext == TypeOK /\ [Next]_vars => TypeOK'
<1> SUFFICES ASSUME TypeOK, [Next]_vars PROVE TypeOK'
  OBVIOUS
<1>1. ASSUME NEW u \in User, NEW x \in Role, SetRole(u, x) PROVE TypeOK'
  BY <1>1, AccessAssumption DEF SetRole, TypeOK, Never, Holding
<1>2. CASE Tick
  <2>1. lag' \in [Request -> 0 .. MaxLag]
    BY <1>2, AccessAssumption DEF Tick, TypeOK
  <2>2. QED
    BY <1>2, <2>1, TickEffects DEF Tick, TypeOK, Holding
<1>3. CASE UNCHANGED vars
  BY <1>3 DEF vars, TypeOK, Holding
<1>4. QED
  BY <1>1, <1>2, <1>3, TypeRequest DEF Next

\* Types; in particular no token lives longer than JWT_ACCESS_TTL and no cached
\* profile longer than profileCacheTTL (jwt.go:28-36, auth.go:148-150).
THEOREM TypeCorrect == Spec => []TypeOK
<1>1. QED
  BY TypeInit, TypeNext, PTL DEF Spec

-----------------------------------------------------------------------------
(* Roles.                                                                  *)

\* The role that u's row has now is no time ago.
RoleIsNow == \A u \in User : since[u][role[u]] = 0

\* What a request under way has seen includes what the row says now.
SeesNow == \A r \in Request : pc[r] # "idle" => role[subject[r]] \in seen[r]

\* A token that is about to be signed, or just was, has a role the row had
\* while the request ran.
IssuesSeen == \A r \in Request : pc[r] \in {"sign", "issued"} => found[r] \in seen[r]

\* A role read from the row is as old as the request has been holding it.
HeldIsRecent ==
  \A r \in Request : pc[r] \in {"sign", "fill"} =>
    since[subject[r]][found[r]] <= lag[r]

\* A token, and a cached profile, had the role of the row when they were made,
\* up to the time the request took to make them.
TokenIsRecent ==
  \A t \in tokens : t.ttl > 0 => since[t.user][t.role] + t.ttl <= AccessTTL + MaxLag

EntryIsRecent ==
  \A u \in User : cache[u] # Miss =>
    since[u][cache[u].role] + cache[u].ttl <= ProfileTTL + MaxLag

RoleInv ==
  /\ TypeOK
  /\ RoleIsNow /\ SeesNow /\ IssuesSeen
  /\ HeldIsRecent /\ TokenIsRecent /\ EntryIsRecent
  /\ AdminWasAdmin /\ ProfileRecent

\* The initial state satisfies the invariant.
LEMMA RoleInvInit == Init => RoleInv
<1> SUFFICES ASSUME Init PROVE RoleInv
  OBVIOUS
<1>1. RoleIsNow
  BY DEF Init, RoleIsNow, Role
<1>2. QED
  BY <1>1, TypeInit
     DEF Init, RoleInv, SeesNow, IssuesSeen, HeldIsRecent, TokenIsRecent,
         EntryIsRecent, AdminWasAdmin, ProfileRecent

\* What a request may do to itself: every other request, and the rows, stay.
Local(r) ==
  /\ UNCHANGED <<role, since>>
  /\ \A q \in Request \ {r} : /\ pc'[q] = pc[q] /\ subject'[q] = subject[q]
                              /\ found'[q] = found[q] /\ lag'[q] = lag[q]
                              /\ seen'[q] = seen[q]

\* Everything the invariant says of one request.
RequestInv(r) ==
  /\ pc[r] # "idle" => role[subject[r]] \in seen[r]
  /\ pc[r] \in {"sign", "issued"} => found[r] \in seen[r]
  /\ pc[r] \in {"sign", "fill"} => since[subject[r]][found[r]] <= lag[r]
  /\ pc[r] = "admitted" => since[subject[r]]["admin"] <= AccessTTL + MaxLag + lag[r]
  /\ pc[r] = "profile" =>
       since[subject[r]][found[r]] <= ProfileTTL + MaxLag + lag[r]

LEMMA RequestInvs ==
  RoleInv <=> /\ TypeOK /\ RoleIsNow /\ TokenIsRecent /\ EntryIsRecent
              /\ \A r \in Request : RequestInv(r)
BY DEF RoleInv, SeesNow, IssuesSeen, HeldIsRecent, AdminWasAdmin, ProfileRecent,
       RequestInv

\* A step of one request keeps the invariant if it keeps what the invariant
\* says of this request, of the tokens and of the cache.
LEMMA LocalSteps ==
  ASSUME RoleInv, TypeOK', NEW r \in Request, Local(r), RequestInv(r)',
         TokenIsRecent', EntryIsRecent'
  PROVE  RoleInv'
<1>1. RoleIsNow'
  BY DEF RoleInv, RoleIsNow, Local
<1>2. ASSUME NEW q \in Request PROVE RequestInv(q)'
  <2>1. CASE q = r
    BY <2>1
  <2>2. CASE q # r
    BY <2>2, RequestInvs DEF RequestInv, Local
  <2>3. QED
    BY <2>1, <2>2
<1>3. QED
  BY <1>1, <1>2, RequestInvs DEF RoleInv, SeesNow, IssuesSeen, HeldIsRecent,
     AdminWasAdmin, ProfileRecent, RequestInv

\* Tokens and cached profiles that stay as they are keep their bounds.
LEMMA SameTokens ==
  ASSUME TokenIsRecent, UNCHANGED <<tokens, since>> PROVE TokenIsRecent'
BY DEF TokenIsRecent

LEMMA SameCache ==
  ASSUME EntryIsRecent, UNCHANGED <<cache, since>> PROVE EntryIsRecent'
BY DEF EntryIsRecent

\* Every step of a request keeps the invariant.
LEMMA RoleInvRequest ==
  ASSUME RoleInv, NEW r \in Request, RequestNext(r) PROVE RoleInv'
<1>a. TypeOK /\ TypeOK' /\ RoleIsNow /\ TokenIsRecent /\ EntryIsRecent
  BY TypeRequest DEF RoleInv
<1>b. /\ RequestInv(r) /\ subject[r] \in User /\ found[r] \in Role
      /\ lag[r] \in Nat /\ MaxLag \in Nat /\ AccessTTL \in Nat /\ ProfileTTL \in Nat
      /\ \A u \in User, x \in Role : since[u][x] \in Nat
      /\ \A u \in User : role[u] \in Role
  BY <1>a, RequestInvs, AccessAssumption DEF TypeOK, Never
<1>c. /\ pc \in [Request -> {"idle", "find", "lookup", "read", "issued",
                             "denied"} \cup Holding]
      /\ subject \in [Request -> User] /\ found \in [Request -> Role]
      /\ lag \in [Request -> 0 .. MaxLag] /\ seen \in [Request -> SUBSET Role]
  BY <1>a DEF TypeOK
<1>1. ASSUME NEW u \in User, StartIssue(r, u) PROVE RoleInv'
  <2>1. Local(r) /\ RequestInv(r)'
    BY <1>1, <1>c DEF StartIssue, Begin, Local, RequestInv
  <2>2. QED
    BY <1>1, <1>a, <2>1, LocalSteps, SameTokens, SameCache DEF StartIssue
<1>2. ASSUME Find(r) PROVE RoleInv'
  <2>1. Local(r)
    BY <1>2, <1>c DEF Find, Holds, GoTo, Local
  <2>2. since[subject[r]][role[subject[r]]] = 0
    BY <1>a, <1>b DEF RoleIsNow
  <2>3. RequestInv(r)'
    BY <1>2, <1>b, <1>c, <2>2 DEF Find, Holds, GoTo, RoleOf, RequestInv
  <2>4. QED
    BY <1>2, <1>a, <2>1, <2>3, LocalSteps, SameTokens, SameCache DEF Find
<1>3. ASSUME Sign(r) PROVE RoleInv'
  <2>1. Local(r) /\ RequestInv(r)'
    BY <1>3, <1>b, <1>c DEF Sign, GoTo, Local, RequestInv
  <2>2. TokenIsRecent'
    <3>1. since[subject[r]][found[r]] <= MaxLag
      BY <1>3, <1>b, <1>c DEF Sign, GoTo, RequestInv
    <3>2. QED
      BY <1>3, <1>a, <1>b, <3>1 DEF Sign, Lifetime, TokenIsRecent
  <2>3. QED
    BY <1>3, <1>a, <2>1, <2>2, LocalSteps, SameCache DEF Sign
<1>4. ASSUME NEW t \in tokens, Deny(r, t) \/ Admit(r, t) \/ Me(r, t) PROVE RoleInv'
  <2>1. /\ t.user \in User
        /\ UNCHANGED <<role, tokens, cache, changes, found, lag, since>>
        /\ \/ Begin(r, t.user, "denied") \/ Begin(r, t.user, "lookup")
           \/ Begin(r, t.user, "admitted") /\ t.ttl > 0 /\ t.role = "admin"
    BY <1>4, <1>a DEF Deny, Admit, Me, Valid, TypeOK, Token
  <2>2. Local(r)
    BY <2>1, <1>c DEF Begin, Local
  <2>3. t.ttl > 0 /\ t.role = "admin" => since[t.user]["admin"] <= AccessTTL + MaxLag
    <3>1. t.ttl \in Nat /\ "admin" \in Role
      BY <1>a, <1>b DEF TypeOK, Token, Role
    <3>2. QED
      BY <3>1, <2>1, <1>a, <1>b DEF TokenIsRecent
  <2>4. RequestInv(r)'
    <3>1. "admin" \in Role
      BY DEF Role
    <3>2. QED
      BY <2>1, <2>3, <3>1, <1>b, <1>c DEF Begin, RequestInv
  <2>5. QED
    BY <1>a, <2>1, <2>2, <2>4, LocalSteps, SameTokens, SameCache
<1>5. ASSUME Hit(r) PROVE RoleInv'
  <2>1. /\ cache' = cache /\ cache[subject[r]] # Miss
        /\ Holds(r, "lookup", "profile", cache[subject[r]].role)
        /\ UNCHANGED <<role, tokens, changes, subject, since, seen>>
    BY <1>5, <1>a DEF Hit, AfterHit, TypeOK
  <2>2. cache[subject[r]].ttl \in Nat /\ cache[subject[r]].role \in Role
    BY <2>1, <1>a, <1>b DEF TypeOK, Entry
  <2>3. since[subject[r]][cache[subject[r]].role] <= ProfileTTL + MaxLag
    BY <2>1, <2>2, <1>a, <1>b DEF EntryIsRecent
  <2>4. Local(r) /\ RequestInv(r)'
    BY <2>1, <2>2, <2>3, <1>b, <1>c DEF Holds, GoTo, Local, RequestInv
  <2>5. QED
    BY <1>a, <2>1, <2>4, LocalSteps, SameTokens, SameCache
<1>6. ASSUME LookupMisses(r) PROVE RoleInv'
  <2>1. Local(r) /\ RequestInv(r)'
    BY <1>6, <1>b, <1>c DEF LookupMisses, GoTo, Local, RequestInv
  <2>2. QED
    BY <1>6, <1>a, <2>1, LocalSteps, SameTokens, SameCache DEF LookupMisses
<1>7. ASSUME Read(r) PROVE RoleInv'
  <2>1. since[subject[r]][role[subject[r]]] = 0
    BY <1>a, <1>b DEF RoleIsNow
  <2>2. Local(r) /\ RequestInv(r)'
    BY <1>7, <1>b, <1>c, <2>1 DEF Read, Holds, GoTo, Local, RequestInv
  <2>3. QED
    BY <1>7, <1>a, <2>2, LocalSteps, SameTokens, SameCache DEF Read
<1>8. ASSUME Fill(r) PROVE RoleInv'
  <2>1. since[subject[r]][found[r]] <= lag[r] /\ lag[r] <= MaxLag
    BY <1>8, <1>b, <1>c DEF Fill, GoTo, RequestInv
  <2>2. Local(r) /\ RequestInv(r)'
    BY <1>8, <1>b, <1>c, <2>1 DEF Fill, GoTo, Local, RequestInv
  <2>3. EntryIsRecent'
    BY <1>8, <1>a, <1>b, <2>1 DEF Fill, EntryIsRecent, TypeOK
  <2>4. QED
    BY <1>8, <1>a, <2>2, <2>3, LocalSteps, SameTokens DEF Fill
<1>9. ASSUME Finish(r) PROVE RoleInv'
  <2>1. Local(r) /\ RequestInv(r)'
    BY <1>9, <1>b, <1>c DEF Finish, Local, RequestInv
  <2>2. QED
    BY <1>9, <1>a, <2>1, LocalSteps, SameTokens, SameCache DEF Finish
<1>10. QED
  BY <1>1, <1>2, <1>3, <1>4, <1>5, <1>6, <1>7, <1>8, <1>9 DEF RequestNext

\* A change of a role only makes that role younger.
LEMMA RoleInvSetRole ==
  ASSUME RoleInv, NEW u \in User, NEW x \in Role, SetRole(u, x) PROVE RoleInv'
<1>a. TypeOK /\ TypeOK'
  BY TypeNext DEF RoleInv, Next
<1>b. MaxLag \in Nat /\ AccessTTL \in Nat /\ ProfileTTL \in Nat
  BY AccessAssumption
<1>1. /\ \A v \in User, y \in Role : /\ since[v][y] \in Nat /\ since'[v][y] \in Nat
                                     /\ since'[v][y] <= since[v][y]
      /\ since'[u][x] = 0
      /\ \A v \in User, y \in Role : v # u => since'[v][y] = since[v][y]
  BY <1>a, AccessAssumption DEF SetRole, TypeOK, Never
<1>2. RoleIsNow'
  BY <1>a, <1>1 DEF SetRole, TypeOK, RoleInv, RoleIsNow
<1>3. /\ \A t \in tokens : t.user \in User /\ t.role \in Role /\ t.ttl \in Nat
      /\ \A v \in User : cache[v] # Miss =>
           cache[v].role \in Role /\ cache[v].ttl \in Nat
      /\ UNCHANGED <<tokens, cache, pc, subject, found, lag>>
  BY <1>a DEF TypeOK, Token, Entry, SetRole
<1>4. TokenIsRecent' /\ EntryIsRecent'
  BY <1>1, <1>3, <1>b DEF RoleInv, TokenIsRecent, EntryIsRecent
<1>5. ASSUME NEW r \in Request PROVE RequestInv(r)'
  <2>1. /\ subject[r] \in User /\ found[r] \in Role /\ "admin" \in Role
        /\ lag[r] \in Nat /\ RequestInv(r)
    BY <1>a, RequestInvs, <1>b DEF TypeOK, Role
  <2>2. /\ seen[r] \subseteq seen'[r]
        /\ pc[r] # "idle" => role'[subject[r]] \in seen'[r]
    BY <2>1, <1>a DEF SetRole, TypeOK, RequestInv
  <2>3. QED
    BY <1>1, <1>3, <1>b, <2>1, <2>2 DEF RequestInv
<1>6. QED
  BY <1>a, <1>2, <1>4, <1>5 DEF RoleInv, SeesNow, IssuesSeen, HeldIsRecent,
     AdminWasAdmin, ProfileRecent, RequestInv

\* A tick ages roles, tokens, cached profiles and waiting requests alike.
LEMMA RoleInvTick == ASSUME RoleInv, Tick PROVE RoleInv'
<1>a. TypeOK /\ TypeOK'
  BY TypeNext DEF RoleInv, Next
<1>b. MaxLag \in Nat /\ AccessTTL \in Nat /\ ProfileTTL \in Nat
  BY AccessAssumption
<1>1. /\ \A v \in User, y \in Role : /\ since[v][y] \in Nat /\ since'[v][y] \in Nat
                                     /\ since'[v][y] <= since[v][y] + 1
      /\ RoleIsNow'
  BY <1>a, TickEffects, AccessAssumption DEF TypeOK, Never, Tick, RoleIsNow
<1>2. TokenIsRecent'
  <2> SUFFICES ASSUME NEW t \in tokens', t.ttl > 0
               PROVE  since'[t.user][t.role] + t.ttl <= AccessTTL + MaxLag
    BY DEF TokenIsRecent
  <2>1. PICK old \in tokens : /\ old.user = t.user /\ old.role = t.role
                              /\ old.ttl = t.ttl + 1
    BY <1>a, TickEffects
  <2>2. t.user \in User /\ t.role \in Role /\ t.ttl \in Nat
    BY <1>a DEF TypeOK, Token
  <2>3. since[t.user][t.role] + (t.ttl + 1) <= AccessTTL + MaxLag
    BY <2>1, <2>2 DEF RoleInv, TokenIsRecent
  <2>4. QED
    BY <1>1, <1>b, <2>2, <2>3
<1>3. EntryIsRecent'
  <2> SUFFICES ASSUME NEW u \in User, cache'[u] # Miss
               PROVE  since'[u][cache'[u].role] + cache'[u].ttl <= ProfileTTL + MaxLag
    BY DEF EntryIsRecent
  <2>1. /\ cache[u] # Miss /\ cache'[u].role = cache[u].role
        /\ cache[u].ttl = cache'[u].ttl + 1
    BY <1>a, TickEffects
  <2>2. cache'[u].role \in Role /\ cache'[u].ttl \in Nat
    BY <1>a DEF TypeOK, Entry
  <2>3. since[u][cache[u].role] + cache[u].ttl <= ProfileTTL + MaxLag
    BY <2>1 DEF RoleInv, EntryIsRecent
  <2>4. QED
    BY <1>1, <1>b, <2>1, <2>2, <2>3
<1>4. ASSUME NEW r \in Request PROVE RequestInv(r)'
  <2>1. /\ subject[r] \in User /\ found[r] \in Role /\ "admin" \in Role
        /\ lag[r] \in Nat /\ RequestInv(r)
    BY <1>a, RequestInvs, <1>b DEF TypeOK, Role
  <2>2. /\ UNCHANGED <<role, pc, subject, found, seen>>
        /\ pc[r] \in Holding => lag'[r] = lag[r] + 1
    BY DEF Tick
  <2>3. QED
    BY <1>1, <1>b, <2>1, <2>2 DEF RequestInv, Holding
<1>5. QED
  BY <1>a, <1>1, <1>2, <1>3, <1>4 DEF RoleInv, SeesNow, IssuesSeen, HeldIsRecent,
     AdminWasAdmin, ProfileRecent, RequestInv

\* The invariant holds.
LEMMA RoleInvariant == Spec => []RoleInv
<1>1. RoleInv /\ [Next]_vars => RoleInv'
  <2> SUFFICES ASSUME RoleInv, [Next]_vars PROVE RoleInv'
    OBVIOUS
  <2>1. CASE UNCHANGED vars
    BY <2>1
       DEF vars, RoleInv, TypeOK, RoleIsNow, SeesNow, IssuesSeen, HeldIsRecent,
           TokenIsRecent, EntryIsRecent, AdminWasAdmin, ProfileRecent, Holding
  <2>2. QED
    BY <2>1, RoleInvRequest, RoleInvSetRole, RoleInvTick DEF Next
<1>2. QED
  BY RoleInvInit, <1>1, PTL DEF Spec

\* A demoted administrator is locked out once the last token issued to one has
\* expired, whatever was refreshed or cached in between (rbac.go:31-38,
\* auth.go:113-121, 158).
THEOREM DemotionBites == Spec => []AdminWasAdmin
<1>1. RoleInv => AdminWasAdmin
  BY DEF RoleInv
<1>2. QED
  BY <1>1, RoleInvariant, PTL

\* A login or refresh hands out a role that the row had while it ran, no matter
\* what is cached (auth.go:74-89, 113-121).
THEOREM IssuedCurrently == Spec => []IssuedRoleIsCurrent
<1>1. RoleInv => IssuedRoleIsCurrent
  BY DEF RoleInv, IssuesSeen, IssuedRoleIsCurrent
<1>2. QED
  BY <1>1, RoleInvariant, PTL

\* GET /me never shows a role that is older than a cache life and one slow
\* reader, plus its own time (auth.go:139-152).
THEOREM ProfilesAge == Spec => []ProfileRecent
<1>1. RoleInv => ProfileRecent
  BY DEF RoleInv
<1>2. QED
  BY <1>1, RoleInvariant, PTL
=============================================================================
