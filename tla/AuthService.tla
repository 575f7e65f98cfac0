---------------------------- MODULE AuthService ----------------------------
(***************************************************************************)
(* Accounts and refresh tokens (internal/service/auth.go behind            *)
(* internal/handler/auth.go): signup, login, refresh with rotation and     *)
(* logout.  Accounts are rows in PostgreSQL, refresh tokens are Redis keys *)
(* with a time to live.  Requests run concurrently; each call of the       *)
(* database or of Redis is an action, and a call that fails spends a fault *)
(* and may have taken effect or not.                                       *)
(***************************************************************************)
EXTENDS Naturals, FiniteSets

CONSTANTS
  Request,    \* requests in progress at a time
  Typed,      \* email addresses as people type them
  Canonical,  \* [Typed -> Typed], lower-cased and trimmed
  Token,      \* refresh tokens that may be generated
  MaxFaults,  \* bound: failing calls and dying instances
  Nobody,     \* "no account"
  NoToken     \* "no token"

ASSUME AuthAssumption ==
  /\ Canonical \in [Typed -> Typed]
  /\ \A e \in Typed : Canonical[Canonical[e]] = Canonical[e]
  /\ MaxFaults \in Nat
  /\ Nobody \notin Typed
  /\ NoToken \notin Token

VARIABLES
  users,      \* the email column of the users table
  store,      \* the refresh tokens that are keys in Redis
  holder,     \* holder[t]: the account stored under t's key
  pc,         \* pc[r]: the next step of the handler serving r
  who,        \* who[r]: the email r works for
  right,      \* right[r]: r's login carries the account's password
  token,      \* token[r]: the refresh token presented by r
  answer,     \* answer[r]: the answer to r
  faults,     \* faults so far
  registered, \* history: registered[r], r's person had an account at login
  issued,     \* history: tokens handed to a client in a 200 or 201
  presented,  \* history: tokens whose DEL by a refresh or logout was issued
  ended,      \* history: tokens whose refresh or logout was answered 200
  undeleted,  \* history: some DEL has failed
  expired     \* history: tokens that reached their time to live

tables  == <<users, store, holder>>
handler == <<pc, who, right, token>>
history == <<registered, issued, presented, ended, undeleted, expired>>
vars    == <<tables, handler, answer, faults, history>>

TypeOK ==
  /\ users \in SUBSET Typed
  /\ store \in SUBSET Token
  /\ holder \in [Token -> Typed \cup {Nobody}]
  /\ \A t \in store : holder[t] \in users
  /\ pc \in [Request -> {"idle", "create", "lookup", "get", "delete", "find",
                         "issue", "revoke"}]
  /\ who \in [Request -> Typed \cup {Nobody}]
  /\ right \in [Request -> BOOLEAN]
  /\ token \in [Request -> Token \cup {NoToken}]
  /\ answer \in [Request -> {"none", "ok", "conflict", "denied", "error"}]
  /\ faults \in 0 .. MaxFaults
  /\ registered \in [Request -> BOOLEAN]
  /\ {issued, presented, ended, expired} \subseteq SUBSET Token
  /\ undeleted \in BOOLEAN

Init ==
  /\ users = {}
  /\ store = {}
  /\ holder = [t \in Token |-> Nobody]
  /\ pc = [r \in Request |-> "idle"]
  /\ who = [r \in Request |-> Nobody]
  /\ right = [r \in Request |-> FALSE]
  /\ token = [r \in Request |-> NoToken]
  /\ answer = [r \in Request |-> "none"]
  /\ faults = 0
  /\ registered = [r \in Request |-> FALSE]
  /\ issued = {}
  /\ presented = {}
  /\ ended = {}
  /\ undeleted = FALSE
  /\ expired = {}

-----------------------------------------------------------------------------
(* Helpers.                                                                *)

Fault ==
  /\ faults < MaxFaults
  /\ faults' = faults + 1

Begin(r, here) ==
  /\ pc[r] = "idle"
  /\ pc' = [pc EXCEPT ![r] = here]
  /\ answer' = [answer EXCEPT ![r] = "none"]

Step(r, from, to) ==
  /\ pc[r] = from
  /\ pc' = [pc EXCEPT ![r] = to]

\* The handler of r answers.  A 200 for a presented token ends that token.
Finish(r, result) ==
  /\ pc' = [pc EXCEPT ![r] = "idle"]
  /\ answer' = [answer EXCEPT ![r] = result]
  /\ who' = [who EXCEPT ![r] = Nobody]
  /\ token' = [token EXCEPT ![r] = NoToken]
  /\ ended' = IF result = "ok" THEN ended \cup ({token[r]} \ {NoToken}) ELSE ended
  /\ UNCHANGED right

FinishAt(r, here, result) == pc[r] = here /\ Finish(r, result)

\* Mutant: the email is used as it was typed.
AsTyped(e) == e

\* strings.ToLower(strings.TrimSpace(email)), in Signup and in Login.
Normalized(e) == Canonical[e]

\* The UNIQUE constraint on users.email (error 23505).
Duplicate(e) == e \in users

\* Mutant: the password decides before the account is known to exist.
PasswordOnly(r) == right[r]

\* FindByEmail finds the account and CheckPassword accepts.
Authentic(r) == who[r] \in users /\ right[r]

\* Mutant: a refresh that fails puts the presented token back.
PutBack(r) == store \cup {token[r]}

\* A refresh that fails after the DEL leaves Redis as it is.
AfterFailedFind(r) == store

\* Mutant: an error storing the token is ignored like the other cache errors.
IgnoreStoreError == "ok"

\* issueTokens returns the error, and the handler answers 500.
AfterStoreError == "error"

Generated == {t \in Token : holder[t] # Nobody}

\* Bound: a request that may issue a token starts only if one is left for it.
TokenLeft ==
  Cardinality({r \in Request : pc[r] # "idle"}) < Cardinality(Token \ Generated)

Person(e) == {a \in users : Canonical[a] = Canonical[e]}

-----------------------------------------------------------------------------
(* Signup and Login.                                                       *)

StartSignup(r, e) ==
  /\ TokenLeft
  /\ Begin(r, "create")
  /\ who' = [who EXCEPT ![r] = Normalized(e)]
  /\ UNCHANGED <<tables, right, token, faults, history>>

Create(r) ==
  /\ ~Duplicate(who[r])
  /\ Step(r, "create", "issue")
  /\ users' = users \cup {who[r]}
  /\ UNCHANGED <<store, holder, who, right, token, answer, faults, history>>

CreateConflicts(r) ==
  /\ Duplicate(who[r])
  /\ FinishAt(r, "create", "conflict")
  /\ UNCHANGED <<tables, faults, registered, issued, presented, undeleted, expired>>

\* The INSERT's error says nothing of its effect.
CreateFails(r) ==
  /\ Fault
  /\ FinishAt(r, "create", "error")
  /\ users' \in {users, users \cup {who[r]}}
  /\ UNCHANGED <<store, holder, registered, issued, presented, undeleted, expired>>

StartLogin(r, e, correct) ==
  /\ TokenLeft
  /\ Begin(r, "lookup")
  /\ who' = [who EXCEPT ![r] = Normalized(e)]
  /\ right' = [right EXCEPT ![r] = correct]
  /\ registered' = [registered EXCEPT ![r] = Person(e) # {}]
  /\ UNCHANGED <<tables, token, faults, issued, presented, ended, undeleted, expired>>

Lookup(r) ==
  /\ Authentic(r)
  /\ Step(r, "lookup", "issue")
  /\ UNCHANGED <<tables, who, right, token, answer, faults, history>>

LookupDenied(r) ==
  /\ ~Authentic(r)
  /\ FinishAt(r, "lookup", "denied")
  /\ UNCHANGED <<tables, faults, registered, issued, presented, undeleted, expired>>

-----------------------------------------------------------------------------
(* Refresh and Logout.                                                     *)

\* Clients present tokens they were given; any other is never stored.
StartRefresh(r, t) ==
  /\ t \in issued
  /\ TokenLeft
  /\ Begin(r, "get")
  /\ token' = [token EXCEPT ![r] = t]
  /\ UNCHANGED <<tables, who, right, faults, history>>

Get(r) ==
  /\ token[r] \in store
  /\ Step(r, "get", "delete")
  /\ who' = [who EXCEPT ![r] = holder[token[r]]]
  /\ UNCHANGED <<tables, right, token, answer, faults, history>>

GetMisses(r) ==
  /\ token[r] \notin store
  /\ FinishAt(r, "get", "denied")
  /\ UNCHANGED <<tables, faults, registered, issued, presented, undeleted, expired>>

\* The DEL of a refresh; its error is ignored.
Delete(r) ==
  /\ Step(r, "delete", "find")
  /\ presented' = presented \cup {token[r]}
  /\ \/ store' = store \ {token[r]} /\ UNCHANGED <<faults, undeleted>>
     \/ Fault /\ undeleted' = TRUE /\ UNCHANGED store
  /\ UNCHANGED <<users, holder, who, right, token, answer, registered, issued,
                 ended, expired>>

\* Accounts are never removed, so FindByID finds the account.
Find(r) ==
  /\ who[r] \in users
  /\ Step(r, "find", "issue")
  /\ UNCHANGED <<tables, who, right, token, answer, faults, history>>

FindFails(r) ==
  /\ Fault
  /\ FinishAt(r, "find", "error")
  /\ store' = AfterFailedFind(r)
  /\ UNCHANGED <<users, holder, registered, issued, presented, undeleted, expired>>

StartLogout(r, t) ==
  /\ t \in issued
  /\ Begin(r, "revoke")
  /\ token' = [token EXCEPT ![r] = t]
  /\ UNCHANGED <<tables, who, right, faults, history>>

Revoke(r) ==
  /\ FinishAt(r, "revoke", "ok")
  /\ store' = store \ {token[r]}
  /\ presented' = presented \cup {token[r]}
  /\ UNCHANGED <<users, holder, faults, registered, issued, undeleted, expired>>

\* A read or the DEL of a logout fails, before or after taking effect.
CallFails(r) ==
  /\ Fault
  /\ \E here \in {"lookup", "get", "revoke"} : FinishAt(r, here, "error")
  /\ \/ UNCHANGED <<store, presented>>
     \/ /\ pc[r] = "revoke"
        /\ store' = store \ {token[r]}
        /\ presented' = presented \cup {token[r]}
  /\ UNCHANGED <<users, holder, registered, issued, undeleted, expired>>

-----------------------------------------------------------------------------
(* issueTokens, the tail of Signup, Login and Refresh.                     *)

Issue(r) ==
  \E t \in Token \ Generated :
    /\ FinishAt(r, "issue", "ok")
    /\ store' = store \cup {t}
    /\ holder' = [holder EXCEPT ![t] = who[r]]
    /\ issued' = issued \cup {t}
    /\ UNCHANGED <<users, faults, registered, presented, undeleted, expired>>

IssueFails(r) ==
  \E t \in Token \ Generated :
    /\ Fault
    /\ FinishAt(r, "issue", AfterStoreError)
    /\ store' \in {store, store \cup {t}}
    /\ holder' = [holder EXCEPT ![t] = who[r]]
    /\ issued' = IF AfterStoreError = "ok" THEN issued \cup {t} ELSE issued
    /\ UNCHANGED <<users, registered, presented, undeleted, expired>>

\* The instance serving r dies.
Abort(r) ==
  /\ pc[r] # "idle"
  /\ Fault
  /\ Finish(r, "error")
  /\ UNCHANGED <<tables, registered, issued, presented, undeleted, expired>>

\* Redis removes a key that has reached its time to live.
Expire(t) ==
  /\ t \in store
  /\ store' = store \ {t}
  /\ expired' = expired \cup {t}
  /\ UNCHANGED <<users, holder, handler, answer, faults, registered, issued,
                 presented, ended, undeleted>>

RequestNext(r) ==
  \/ \E e \in Typed : StartSignup(r, e)
  \/ \E e \in Typed, correct \in BOOLEAN : StartLogin(r, e, correct)
  \/ Create(r) \/ CreateConflicts(r) \/ CreateFails(r)
  \/ Lookup(r) \/ LookupDenied(r)
  \/ \E t \in Token : StartRefresh(r, t) \/ StartLogout(r, t)
  \/ Get(r) \/ GetMisses(r) \/ Delete(r) \/ Find(r) \/ FindFails(r)
  \/ Revoke(r) \/ CallFails(r)
  \/ Issue(r) \/ IssueFails(r)
  \/ Abort(r)

Next ==
  \/ \E r \in Request : RequestNext(r)
  \/ \E t \in Token : Expire(t)

Spec == Init /\ [][Next]_vars

-----------------------------------------------------------------------------
(* Properties.                                                             *)

\* One person has one account, however the email is typed and however signups
\* race (auth.go:53, user.go:35-37).
OneAccountPerPerson ==
  \A a, b \in users : Canonical[a] = Canonical[b] => a = b

\* Whoever has an account when the login begins is not turned away with the
\* right password, however the email is typed (auth.go:72-84).
RegisteredCanLogIn ==
  \A r \in Request :
    pc[r] = "lookup" /\ right[r] /\ registered[r] => who[r] \in users

\* A token whose refresh or logout was answered 200 stays unusable: no other
\* request, in flight at the time or failing later, brings it back, as long
\* as no DEL fails ("each refresh invalidates the presented token",
\* README.md:207; auth.go:110-111, 129).
EndedStaysEnded == ~undeleted => ended \cap store = {}

\* A token handed to a client works until the client presents it for refresh
\* or logout, or it expires (auth.go:168-172).
IssuedIsStored == issued \subseteq store \cup presented \cup expired
=============================================================================
