------------------------------- MODULE Access -------------------------------
(***************************************************************************)
(* Who is let in, and as what: roles in users' rows, access tokens that    *)
(* carry a copy of the role until they expire, the middleware that trusts  *)
(* that copy (internal/middleware/jwt.go, rbac.go), and the profile that   *)
(* GET /me serves from a cache (GetProfile).  The program never changes a  *)
(* role; an operator does, with psql, while requests are under way.        *)
(***************************************************************************)
EXTENDS Naturals, FiniteSets

CONSTANTS
  User,
  Request,      \* requests in progress at a time, at any API instance
  AccessTTL,    \* JWT_ACCESS_TTL, in ticks
  ProfileTTL,   \* profileCacheTTL
  MaxLag,       \* the ticks a request may take from reading a role to using it
  MaxChanges,   \* role changes by the operator
  Miss          \* "no such key"

ASSUME AccessAssumption ==
  /\ {AccessTTL, ProfileTTL} \subseteq Nat \ {0}
  /\ MaxLag \in Nat /\ MaxChanges \in Nat

Role  == {"user", "admin"}
Never == AccessTTL + ProfileTTL + 2 * MaxLag   \* longer ago than anyone asks
Token == [user : User, role : Role, ttl : 0 .. AccessTTL]
Entry == [role : Role, ttl : 1 .. ProfileTTL]

VARIABLES
  role,     \* role[u]: the role column of u's row
  tokens,   \* the access tokens that are out, expired ones included
  cache,    \* cache[u]: the key user:profile:u in Redis
  changes,  \* role changes left
  pc,       \* where request r is
  subject,  \* subject[r]: the user it is about
  found,    \* found[r]: the role it read, and then answers or works with
  lag,      \* lag[r]: ticks since it read the role
  since,    \* history: since[u][x], ticks since u's row last said x
  seen      \* history: seen[r], what the row has said since r began

vars == <<role, tokens, cache, changes, pc, subject, found, lag, since, seen>>

\* A role was read, from a row, a cache or a token, and is still to be used.
Holding == {"sign", "fill", "profile", "admitted"}

\* Types; in particular a token never lives longer than JWT_ACCESS_TTL and a
\* cached profile never longer than profileCacheTTL.
TypeOK ==
  /\ role \in [User -> Role]
  /\ tokens \subseteq Token
  /\ cache \in [User -> Entry \cup {Miss}]
  /\ changes \in 0 .. MaxChanges
  /\ pc \in [Request -> {"idle", "find", "lookup", "read", "issued",
                         "denied"} \cup Holding]
  /\ subject \in [Request -> User]
  /\ found \in [Request -> Role]
  /\ lag \in [Request -> 0 .. MaxLag]
  /\ since \in [User -> [Role -> 0 .. Never]]
  /\ seen \in [Request -> SUBSET Role]

\* Signups create plain users; nobody is logged in.
Init ==
  /\ role = [u \in User |-> "user"]
  /\ tokens = {}
  /\ cache = [u \in User |-> Miss]
  /\ changes = MaxChanges
  /\ pc = [r \in Request |-> "idle"]
  /\ subject \in [Request -> User]
  /\ found = [r \in Request |-> "user"]
  /\ lag = [r \in Request |-> 0]
  /\ since = [u \in User |-> [x \in Role |-> IF x = "user" THEN 0 ELSE Never]]
  /\ seen = [r \in Request |-> {}]

\* The request begins: what its row says now is the oldest it may rely on.
Begin(r, u, next) ==
  /\ pc[r] = "idle"
  /\ pc' = [pc EXCEPT ![r] = next]
  /\ subject' = [subject EXCEPT ![r] = u]
  /\ seen' = [seen EXCEPT ![r] = {role[u]}]

GoTo(r, from, to) ==
  /\ pc[r] = from
  /\ pc' = [pc EXCEPT ![r] = to]

\* The request has a role in hand, read just now.
Holds(r, from, to, x) ==
  /\ GoTo(r, from, to)
  /\ found' = [found EXCEPT ![r] = x]
  /\ lag' = [lag EXCEPT ![r] = 0]

Finish(r) ==
  /\ pc[r] \in {"issued", "profile", "admitted", "denied"}
  /\ pc' = [pc EXCEPT ![r] = "idle"]
  /\ lag' = [lag EXCEPT ![r] = 0]
  /\ found' = [found EXCEPT ![r] = "user"]
  /\ seen' = [seen EXCEPT ![r] = {}]
  /\ UNCHANGED <<role, tokens, cache, changes, subject, since>>

-----------------------------------------------------------------------------
(* Login and Refresh: from the row to a signed token.                      *)

StartIssue(r, u) ==
  /\ Begin(r, u, "find")
  /\ UNCHANGED <<role, tokens, cache, changes, found, lag, since>>

\* Mutant: the user is taken from the cached profile when there is one.
CachedRole(u) == IF cache[u] = Miss THEN role[u] ELSE cache[u].role

\* FindByEmail, FindByID.
RoleOf(u) == role[u]

Find(r) ==
  /\ Holds(r, "find", "sign", RoleOf(subject[r]))
  /\ UNCHANGED <<role, tokens, cache, changes, subject, since, seen>>

\* Mutant: the access token is given the life of the refresh token.
RefreshLifetime == AccessTTL + 1

Lifetime == AccessTTL

Sign(r) ==
  /\ GoTo(r, "sign", "issued")
  /\ tokens' = tokens \cup
       {[user |-> subject[r], role |-> found[r], ttl |-> Lifetime]}
  /\ UNCHANGED <<role, cache, changes, subject, found, lag, since, seen>>

-----------------------------------------------------------------------------
(* The protected routes.                                                   *)

\* Mutant: the signature is verified, the claims are not.
SignedOnly(t) == TRUE

\* Parse: signed with HS256 and not expired.
Valid(t) == t.ttl > 0

\* The middleware refuses an expired token; RequireRole one without the role.
Deny(r, t) ==
  /\ ~Valid(t) \/ t.role # "admin"
  /\ Begin(r, t.user, "denied")
  /\ UNCHANGED <<role, tokens, cache, changes, found, lag, since>>

\* GET /admin/notifications.
Admit(r, t) ==
  /\ Valid(t)
  /\ t.role = "admin"
  /\ Begin(r, t.user, "admitted")
  /\ UNCHANGED <<role, tokens, cache, changes, found, lag, since>>

\* GET /me.
Me(r, t) ==
  /\ Valid(t)
  /\ Begin(r, t.user, "lookup")
  /\ UNCHANGED <<role, tokens, cache, changes, found, lag, since>>

\* Mutant: a hit gives the entry a new life.
Renewed(e) == [e EXCEPT !.ttl = ProfileTTL]

\* What a hit leaves in the cache.
AfterHit(e) == e

Hit(r) ==
  LET u == subject[r]
  IN  /\ cache[u] # Miss
      /\ Holds(r, "lookup", "profile", cache[u].role)
      /\ cache' = [cache EXCEPT ![u] = AfterHit(@)]
      /\ UNCHANGED <<role, tokens, changes, subject, since, seen>>

\* There is no entry, or Redis fails.
LookupMisses(r) ==
  /\ GoTo(r, "lookup", "read")
  /\ UNCHANGED <<role, tokens, cache, changes, subject, found, lag, since, seen>>

Read(r) ==
  /\ Holds(r, "read", "fill", role[subject[r]])
  /\ UNCHANGED <<role, tokens, cache, changes, subject, since, seen>>

\* SetJSON, whose error is ignored, and the answer.
Fill(r) ==
  /\ GoTo(r, "fill", "profile")
  /\ cache' \in {cache, [cache EXCEPT ![subject[r]] =
                           [role |-> found[r], ttl |-> ProfileTTL]]}
  /\ UNCHANGED <<role, tokens, changes, subject, found, lag, since, seen>>

-----------------------------------------------------------------------------
(* The environment.                                                        *)

\* UPDATE users SET role = ... (README.md:130-133).
SetRole(u, x) ==
  /\ role[u] # x
  /\ changes > 0
  /\ changes' = changes - 1
  /\ role' = [role EXCEPT ![u] = x]
  /\ since' = [since EXCEPT ![u][x] = 0]
  /\ seen' = [r \in Request |-> IF subject[r] = u /\ pc[r] # "idle"
                                THEN seen[r] \cup {x} ELSE seen[r]]
  /\ UNCHANGED <<tokens, cache, pc, subject, found, lag>>

\* A tick passes; a request that holds a role uses it within MaxLag ticks.
Tick ==
  /\ \A r \in Request : pc[r] \in Holding => lag[r] < MaxLag
  /\ lag' = [r \in Request |-> IF pc[r] \in Holding THEN lag[r] + 1 ELSE lag[r]]
  /\ tokens' = {[t EXCEPT !.ttl = IF @ = 0 THEN 0 ELSE @ - 1] : t \in tokens}
  /\ cache' = [u \in User |-> IF cache[u] = Miss \/ cache[u].ttl = 1 THEN Miss
                              ELSE [cache[u] EXCEPT !.ttl = @ - 1]]
  /\ since' = [u \in User |-> [x \in Role |->
                 IF role[u] = x THEN 0
                 ELSE IF since[u][x] = Never THEN Never ELSE since[u][x] + 1]]
  /\ UNCHANGED <<role, changes, pc, subject, found, seen>>

-----------------------------------------------------------------------------
RequestNext(r) ==
  \/ \E u \in User : StartIssue(r, u)
  \/ Find(r) \/ Sign(r)
  \/ \E t \in tokens : Deny(r, t) \/ Admit(r, t) \/ Me(r, t)
  \/ Hit(r) \/ LookupMisses(r) \/ Read(r) \/ Fill(r)
  \/ Finish(r)

Next ==
  \/ \E r \in Request : RequestNext(r)
  \/ \E u \in User, x \in Role : SetRole(u, x)
  \/ Tick

Spec == Init /\ [][Next]_vars

-----------------------------------------------------------------------------
(* Properties.                                                             *)

\* Nobody works as an administrator whose row has not said so within the life
\* of an access token, the time the request that issued it took, and the time
\* it has been at work: a demoted user is locked out by then, whatever was
\* refreshed or cached in between
\* (rbac.go:31-38, auth.go:113-121, 158).
AdminWasAdmin ==
  \A r \in Request :
    pc[r] = "admitted" =>
      since[subject[r]]["admin"] <= AccessTTL + MaxLag + lag[r]

\* "Log in again to get a token with the new role" (README.md:135): a login or
\* refresh hands out a role that the row had while the request ran, no matter
\* what is cached (auth.go:74-89, 113-121).
IssuedRoleIsCurrent ==
  \A r \in Request : pc[r] = "issued" => found[r] \in seen[r]

\* GET /me shows a role that the row had at most a cache life and one slow
\* reader ago (and its own time), although the reader may store what is
\* outdated by then
\* (auth.go:139-152).
ProfileRecent ==
  \A r \in Request :
    pc[r] = "profile" =>
      since[subject[r]][found[r]] <= ProfileTTL + MaxLag + lag[r]
=============================================================================
