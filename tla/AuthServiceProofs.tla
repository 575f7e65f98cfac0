------------------------- MODULE AuthServiceProofs -------------------------
(***************************************************************************)
(* Theorems about AuthService, for any number of requests, people, tokens  *)
(* and faults: one account for each person, and what becomes of tokens.    *)
(***************************************************************************)
EXTENDS AuthService, TLAPS

USE DEF tables, handler, history

-----------------------------------------------------------------------------
(* The invariant.                                                          *)

\* Accounts are stored under the normalized email.
UsersCanonical == \A e \in users : Canonical[e] = e

\* What a signup is about to insert is normalized.
CreatingCanonical ==
  \A r \in Request : pc[r] = "create" => who[r] \in Typed /\ Canonical[who[r]] = who[r]

\* Tokens are issued to accounts that exist.
IssuingToUser == \A r \in Request : pc[r] = "issue" => who[r] \in users

\* Only refresh and logout carry a token, and one that was issued.
TokenInHand ==
  \A r \in Request :
    /\ token[r] \in issued \cup {NoToken}
    /\ pc[r] \in {"idle", "create", "lookup"} => token[r] = NoToken
    /\ pc[r] \in {"get", "delete", "find", "revoke"} => token[r] \in issued

AccountInv ==
  /\ TypeOK
  /\ TokenInHand
  /\ UsersCanonical
  /\ CreatingCanonical
  /\ IssuingToUser
  /\ RegisteredCanLogIn

\* Initially there are no accounts and no requests.
LEMMA AccountInvInit == Init => AccountInv
<1> SUFFICES ASSUME Init PROVE AccountInv
  OBVIOUS
<1>1. TypeOK
  <2>1. /\ undeleted \in BOOLEAN
        /\ right \in [Request -> BOOLEAN]
        /\ registered \in [Request -> BOOLEAN]
    BY DEF Init
  <2>2. /\ {issued, presented, ended, expired} \subseteq SUBSET Token
        /\ store = {} /\ users = {}
    BY DEF Init
  <2>3. QED
    BY <2>1, <2>2, AuthAssumption DEF Init, TypeOK
<1>2. /\ TokenInHand /\ UsersCanonical /\ CreatingCanonical
      /\ IssuingToUser /\ RegisteredCanLogIn
  BY DEF Init, TokenInHand, UsersCanonical, CreatingCanonical, IssuingToUser,
         RegisteredCanLogIn
<1>3. QED
  BY <1>1, <1>2 DEF AccountInv

\* What an answer does to the handler's state.
LEMMA FinishEffect ==
  ASSUME TypeOK, NEW r \in Request,
         NEW result \in {"ok", "conflict", "denied", "error"}, Finish(r, result)
  PROVE  /\ pc' = [pc EXCEPT ![r] = "idle"]
         /\ who' \in [Request -> Typed \cup {Nobody}]
         /\ \A q \in Request \ {r} : who'[q] = who[q]
         /\ right' = right
         /\ token' = [token EXCEPT ![r] = NoToken]
         /\ token' \in [Request -> Token \cup {NoToken}]
         /\ answer' \in [Request -> {"none", "ok", "conflict", "denied", "error"}]
         /\ ended' \in SUBSET Token
         /\ ended' = IF result = "ok" THEN ended \cup ({token[r]} \ {NoToken})
                                      ELSE ended
BY DEF Finish, TypeOK

\* Signup and Login keep it.
LEMMA AccountInvSignupLogin ==
  ASSUME AccountInv, NEW r \in Request,
         \/ \E e \in Typed : StartSignup(r, e)
         \/ \E e \in Typed, correct \in BOOLEAN : StartLogin(r, e, correct)
         \/ Create(r) \/ CreateConflicts(r) \/ CreateFails(r)
         \/ Lookup(r) \/ LookupDenied(r)
  PROVE  AccountInv'
<1> USE AuthAssumption
    DEF AccountInv, TokenInHand, UsersCanonical, CreatingCanonical,
        IssuingToUser, RegisteredCanLogIn
<1>1. ASSUME NEW e \in Typed, StartSignup(r, e) PROVE AccountInv'
  BY <1>1 DEF StartSignup, Begin, Normalized, TypeOK
<1>2. ASSUME NEW e \in Typed, NEW correct \in BOOLEAN, StartLogin(r, e, correct)
      PROVE  AccountInv'
  <2>1. /\ pc[r] = "idle" /\ pc' = [pc EXCEPT ![r] = "lookup"]
        /\ who' = [who EXCEPT ![r] = Canonical[e]]
        /\ registered' = [registered EXCEPT ![r] = Person(e) # {}]
        /\ UNCHANGED <<users, token, issued>>
    BY <1>2 DEF StartLogin, Begin, Normalized
  <2>2. Person(e) # {} => Canonical[e] \in users
    BY DEF Person
  <2>3. TypeOK'
    BY <1>2, <2>1 DEF StartLogin, Begin, TypeOK
  <2>4. TokenInHand' /\ UsersCanonical' /\ CreatingCanonical' /\ IssuingToUser'
    BY <2>1 DEF TypeOK
  <2>5. RegisteredCanLogIn'
    BY <1>2, <2>1, <2>2 DEF StartLogin, TypeOK
  <2>6. QED
    BY <2>3, <2>4, <2>5
<1>3. CASE Create(r)
  BY <1>3 DEF Create, Step, TypeOK
<1>4. CASE CreateConflicts(r)
  BY <1>4, FinishEffect DEF CreateConflicts, FinishAt, TypeOK
<1>5. CASE CreateFails(r)
  BY <1>5, FinishEffect DEF CreateFails, FinishAt, Fault, TypeOK
<1>6. CASE Lookup(r)
  BY <1>6 DEF Lookup, Authentic, Step, TypeOK
<1>7. CASE LookupDenied(r)
  BY <1>7, FinishEffect DEF LookupDenied, FinishAt, TypeOK
<1>8. QED
  BY <1>1, <1>2, <1>3, <1>4, <1>5, <1>6, <1>7

\* Refresh and Logout do not touch accounts.
LEMMA AccountInvRefreshLogout ==
  ASSUME AccountInv, NEW r \in Request,
         \/ \E t \in Token : StartRefresh(r, t) \/ StartLogout(r, t)
         \/ Get(r) \/ GetMisses(r) \/ Delete(r) \/ Find(r) \/ FindFails(r)
         \/ Revoke(r) \/ CallFails(r)
  PROVE  AccountInv'
<1> USE AuthAssumption
    DEF AccountInv, TokenInHand, UsersCanonical, CreatingCanonical,
        IssuingToUser, RegisteredCanLogIn
<1>1. ASSUME NEW t \in Token, StartRefresh(r, t) \/ StartLogout(r, t)
      PROVE  AccountInv'
  BY <1>1 DEF StartRefresh, StartLogout, Begin, TypeOK
<1>2. CASE Get(r)
  BY <1>2 DEF Get, Step, TypeOK
<1>3. CASE GetMisses(r)
  BY <1>3, FinishEffect DEF GetMisses, FinishAt, TypeOK
<1>4. CASE Delete(r)
  <2>1. /\ store' \subseteq store
        /\ presented' \in SUBSET Token
        /\ undeleted' \in BOOLEAN
        /\ faults' \in 0 .. MaxFaults
        /\ pc[r] = "delete" /\ pc' = [pc EXCEPT ![r] = "find"]
        /\ UNCHANGED <<users, holder, who, right, token, answer, registered,
                       issued, ended, expired>>
    <3>1. /\ pc[r] = "delete" /\ pc' = [pc EXCEPT ![r] = "find"]
          /\ UNCHANGED <<users, holder, who, right, token, answer, registered,
                         issued, ended, expired>>
          /\ presented' = presented \cup {token[r]}
      BY <1>4 DEF Delete, Step
    <3>2. undeleted' \in BOOLEAN
      BY <1>4 DEF Delete, TypeOK
    <3>3. store' \subseteq store /\ faults' \in 0 .. MaxFaults
      BY <1>4 DEF Delete, Fault, TypeOK
    <3>4. token[r] \in issued
      BY <3>1
    <3>5. issued \in SUBSET Token /\ presented \in SUBSET Token
      BY DEF TypeOK
    <3>6. presented' \subseteq Token
      BY <3>1, <3>4, <3>5
    <3>7. QED
      BY <3>1, <3>2, <3>3, <3>6
  <2>2. pc' \in [Request -> {"idle", "create", "lookup", "get", "delete",
                             "find", "issue", "revoke"}]
    BY <2>1 DEF TypeOK
  <2>3. TypeOK'
    BY <2>1, <2>2 DEF TypeOK
  <2>4. QED
    BY <2>1, <2>3 DEF TypeOK
<1>5. CASE Find(r)
  BY <1>5 DEF Find, Step, TypeOK
<1>6. CASE FindFails(r)
  BY <1>6, FinishEffect DEF FindFails, FinishAt, Fault, AfterFailedFind, TypeOK
<1>7. CASE Revoke(r)
  <2>1. /\ store' \subseteq store
        /\ presented' \in SUBSET Token
        /\ Finish(r, "ok")
        /\ UNCHANGED <<users, holder, faults, registered, issued, undeleted,
                       expired>>
    BY <1>7 DEF Revoke, FinishAt, TypeOK
  <2>2. TypeOK'
    BY <2>1, FinishEffect DEF TypeOK
  <2>3. QED
    BY <2>1, <2>2, FinishEffect DEF TypeOK
<1>8. CASE CallFails(r)
  <2>1. /\ store' \subseteq store
        /\ presented' \in SUBSET Token
        /\ faults' \in 0 .. MaxFaults
        /\ Finish(r, "error")
        /\ UNCHANGED <<users, holder, registered, issued, undeleted, expired>>
    BY <1>8 DEF CallFails, FinishAt, Fault, TypeOK
  <2>2. TypeOK'
    BY <2>1, FinishEffect DEF TypeOK
  <2>3. QED
    BY <2>1, <2>2, FinishEffect DEF TypeOK
<1>9. QED
  BY <1>1, <1>2, <1>3, <1>4, <1>5, <1>6, <1>7, <1>8

\* A token is stored for an account that exists.
LEMMA AccountInvIssue ==
  ASSUME AccountInv, NEW r \in Request, Issue(r) \/ IssueFails(r) \/ Abort(r)
  PROVE  AccountInv'
<1> USE AuthAssumption
    DEF AccountInv, TokenInHand, UsersCanonical, CreatingCanonical,
        IssuingToUser, RegisteredCanLogIn
<1>1. CASE Issue(r)
  BY <1>1, FinishEffect DEF Issue, FinishAt, TypeOK
<1>2. CASE IssueFails(r)
  BY <1>2, FinishEffect DEF IssueFails, FinishAt, Fault, AfterStoreError, TypeOK
<1>3. CASE Abort(r)
  BY <1>3, FinishEffect DEF Abort, Fault, TypeOK
<1>4. QED
  BY <1>1, <1>2, <1>3

\* Every step keeps it.
LEMMA AccountInvNext == AccountInv /\ [Next]_vars => AccountInv'
<1> SUFFICES ASSUME AccountInv, [Next]_vars PROVE AccountInv'
  OBVIOUS
<1>1. ASSUME NEW r \in Request, RequestNext(r) PROVE AccountInv'
  BY <1>1, AccountInvSignupLogin, AccountInvRefreshLogout, AccountInvIssue
     DEF RequestNext
<1>2. ASSUME NEW t \in Token, Expire(t) PROVE AccountInv'
  BY <1>2 DEF Expire, AccountInv, TokenInHand, UsersCanonical,
              CreatingCanonical, IssuingToUser, RegisteredCanLogIn, TypeOK
<1>3. CASE UNCHANGED vars
  BY <1>3 DEF vars, AccountInv, TokenInHand, UsersCanonical,
              CreatingCanonical, IssuingToUser, RegisteredCanLogIn, TypeOK
<1>4. QED
  BY <1>1, <1>2, <1>3 DEF Next

\* Every reachable state satisfies it.
LEMMA AccountInvariant == Spec => []AccountInv
BY AccountInvInit, AccountInvNext, PTL DEF Spec

\* Types, and: every stored token belongs to an account.
THEOREM TypeCorrect == Spec => []TypeOK
<1>1. AccountInv => TypeOK
  BY DEF AccountInv
<1>2. QED
  BY <1>1, AccountInvariant, PTL

\* However the email is typed and however signups race, one person has one
\* account (auth.go:53, user.go:35-37).
THEOREM OneAccount == Spec => []OneAccountPerPerson
<1>1. AccountInv => OneAccountPerPerson
  BY DEF AccountInv, UsersCanonical, OneAccountPerPerson
<1>2. QED
  BY <1>1, AccountInvariant, PTL

\* Whoever has an account when the login begins is not turned away with the
\* right password (auth.go:72-84).
THEOREM LoginFindsAccount == Spec => []RegisteredCanLogIn
<1>1. AccountInv => RegisteredCanLogIn
  BY DEF AccountInv
<1>2. QED
  BY <1>1, AccountInvariant, PTL

-----------------------------------------------------------------------------
(* Tokens.                                                                 *)

\* Tokens that were seen were generated before.
SeenIsGenerated == issued \cup ended \subseteq Generated

\* The token of a refresh is gone once its DEL has worked.
UsedUp ==
  ~undeleted =>
    \A r \in Request : pc[r] \in {"find", "issue"} => token[r] \notin store

TokenInv ==
  /\ SeenIsGenerated
  /\ UsedUp
  /\ EndedStaysEnded
  /\ IssuedIsStored

\* Initially there are no tokens.
LEMMA TokenInvInit == Init => TokenInv
BY DEF Init, TokenInv, SeenIsGenerated, UsedUp, EndedStaysEnded, IssuedIsStored

\* The steps that neither issue tokens nor end them: tokens may be deleted.
TokenQuiet ==
  /\ UNCHANGED <<holder, issued, ended, undeleted>>
  /\ store' \subseteq store
  /\ store \subseteq store' \cup presented' \cup expired'
  /\ presented \cup expired \subseteq presented' \cup expired'
  /\ \A q \in Request :
       pc'[q] \in {"find", "issue"} =>
         \/ pc[q] \in {"find", "issue"} /\ token'[q] = token[q]
         \/ token'[q] = NoToken

\* A refused or failed request ends no token.
LEMMA QuietAnswer ==
  ASSUME AccountInv, NEW r \in Request,
         NEW result \in {"conflict", "denied", "error"}, Finish(r, result)
  PROVE  /\ UNCHANGED ended
         /\ pc' = [pc EXCEPT ![r] = "idle"]
         /\ token' = [token EXCEPT ![r] = NoToken]
BY DEF Finish

\* Quiet steps.
LEMMA QuietSteps ==
  ASSUME AccountInv, NEW r \in Request, RequestNext(r)
  PROVE  TokenQuiet \/ Delete(r) \/ Revoke(r) \/ Issue(r) \/ IssueFails(r)
<1>a. /\ pc \in [Request -> {"idle", "create", "lookup", "get", "delete", "find",
                             "issue", "revoke"}]
      /\ token \in [Request -> Token \cup {NoToken}]
      /\ \A q \in Request :
           pc[q] \in {"idle", "create", "lookup"} => token[q] = NoToken
  BY DEF AccountInv, TypeOK, TokenInHand
<1> USE DEF TokenQuiet
<1>1. ASSUME NEW e \in Typed,
             StartSignup(r, e) \/ \E correct \in BOOLEAN : StartLogin(r, e, correct)
      PROVE  TokenQuiet
  BY <1>1, <1>a DEF StartSignup, StartLogin, Begin
<1>2. CASE Create(r) \/ Lookup(r)
  BY <1>2, <1>a DEF Create, Lookup, Step
<1>3. CASE \/ CreateConflicts(r) \/ CreateFails(r) \/ LookupDenied(r)
           \/ GetMisses(r) \/ FindFails(r) \/ Abort(r)
  BY <1>3, <1>a, QuietAnswer
     DEF CreateConflicts, CreateFails, LookupDenied, GetMisses, FindFails, Abort,
         FinishAt, AfterFailedFind
<1>4. ASSUME NEW t \in Token, StartRefresh(r, t) \/ StartLogout(r, t)
      PROVE  TokenQuiet
  BY <1>4, <1>a DEF StartRefresh, StartLogout, Begin
<1>5. CASE Get(r) \/ Find(r)
  BY <1>5, <1>a DEF Get, Find, Step
<1>6. CASE CallFails(r)
  BY <1>6, <1>a, QuietAnswer DEF CallFails, FinishAt
<1>7. QED
  BY <1>1, <1>2, <1>3, <1>4, <1>5, <1>6 DEF RequestNext

\* Quiet steps keep the tokens' invariant.
LEMMA TokenInvQuiet == AccountInv /\ TokenInv /\ TokenQuiet => TokenInv'
<1> SUFFICES ASSUME AccountInv, TokenInv, TokenQuiet PROVE TokenInv'
  OBVIOUS
<1>1. NoToken \notin store
  BY AuthAssumption DEF AccountInv, TypeOK
<1>2. SeenIsGenerated' /\ EndedStaysEnded' /\ IssuedIsStored'
  BY DEF TokenInv, TokenQuiet, SeenIsGenerated, Generated, EndedStaysEnded,
         IssuedIsStored
<1>3. UsedUp'
  BY <1>1 DEF TokenInv, TokenQuiet, UsedUp
<1>4. QED
  BY <1>2, <1>3 DEF TokenInv

\* The other steps keep it too: a DEL that works takes the token away, and a
\* new token is none of those seen before.
LEMMA TokenInvLoud ==
  ASSUME AccountInv, TokenInv, NEW r \in Request,
         Delete(r) \/ Revoke(r) \/ Issue(r) \/ IssueFails(r)
  PROVE  TokenInv'
<1> USE DEF TokenInv
<1>a. /\ pc \in [Request -> {"idle", "create", "lookup", "get", "delete", "find",
                             "issue", "revoke"}]
      /\ token \in [Request -> Token \cup {NoToken}]
      /\ \A q \in Request : token[q] \in issued \cup {NoToken}
      /\ store \in SUBSET Token
      /\ holder \in [Token -> Typed \cup {Nobody}]
      /\ store \subseteq Generated
      /\ Nobody \notin users /\ Nobody \notin Typed /\ NoToken \notin Token
  BY AuthAssumption DEF AccountInv, TypeOK, TokenInHand, Generated
<1>1. CASE Delete(r)
  <2>1. /\ pc[r] = "delete" /\ pc' = [pc EXCEPT ![r] = "find"]
        /\ UNCHANGED <<holder, token, issued, ended, expired>>
        /\ presented' = presented \cup {token[r]}
        /\ store' \subseteq store /\ store \ {token[r]} \subseteq store'
    BY <1>1 DEF Delete, Step
  <2>2. ~undeleted' => ~undeleted /\ store' = store \ {token[r]}
    BY <1>1 DEF Delete
  <2>3. SeenIsGenerated' /\ IssuedIsStored'
    BY <2>1 DEF SeenIsGenerated, Generated, IssuedIsStored
  <2>4. EndedStaysEnded'
    BY <2>1, <2>2 DEF EndedStaysEnded
  <2>5. UsedUp'
    BY <2>1, <2>2, <1>a DEF UsedUp
  <2>6. QED
    BY <2>3, <2>4, <2>5
<1>2. CASE Revoke(r)
  <2>1. /\ pc' = [pc EXCEPT ![r] = "idle"]
        /\ token' = [token EXCEPT ![r] = NoToken]
        /\ ended' = ended \cup ({token[r]} \ {NoToken})
        /\ store' = store \ {token[r]}
        /\ presented' = presented \cup {token[r]}
        /\ UNCHANGED <<holder, issued, undeleted, expired>>
    BY <1>2 DEF Revoke, FinishAt, Finish
  <2>2. SeenIsGenerated' /\ IssuedIsStored'
    BY <2>1, <1>a DEF SeenIsGenerated, Generated, IssuedIsStored
  <2>3. EndedStaysEnded' /\ UsedUp'
    BY <2>1, <1>a DEF EndedStaysEnded, UsedUp
  <2>4. QED
    BY <2>2, <2>3
<1>3. CASE Issue(r) \/ IssueFails(r)
  <2>1. PICK t \in Token \ Generated :
          /\ pc[r] = "issue"
          /\ pc' = [pc EXCEPT ![r] = "idle"]
          /\ token' = [token EXCEPT ![r] = NoToken]
          /\ holder' = [holder EXCEPT ![t] = who[r]]
          /\ UNCHANGED <<presented, undeleted, expired>>
          /\ \/ /\ store' = store \cup {t}
                /\ issued' = issued \cup {t}
                /\ ended' = ended \cup ({token[r]} \ {NoToken})
             \/ /\ store' \in {store, store \cup {t}}
                /\ UNCHANGED <<issued, ended>>
    BY <1>3 DEF Issue, IssueFails, FinishAt, Finish, AfterStoreError
  <2>2. who[r] # Nobody
    BY <2>1, <1>a DEF AccountInv, IssuingToUser
  <2>3. Generated' = Generated \cup {t}
    BY <2>1, <2>2, <1>a DEF Generated
  <2>4. t \notin issued /\ t \notin ended /\ t \notin store
    BY <1>a DEF SeenIsGenerated
  <2>5. SeenIsGenerated' /\ IssuedIsStored'
    BY <2>1, <2>3, <1>a DEF SeenIsGenerated, IssuedIsStored
  <2>6. UsedUp'
    BY <2>1, <2>4, <1>a DEF UsedUp
  <2>7. EndedStaysEnded'
    BY <2>1, <2>4, <1>a DEF EndedStaysEnded, UsedUp
  <2>8. QED
    BY <2>5, <2>6, <2>7
<1>4. QED
  BY <1>1, <1>2, <1>3

\* Every reachable state satisfies it.
LEMMA TokenInvariant == Spec => []TokenInv
<1>1. AccountInv /\ TokenInv /\ [Next]_vars => TokenInv'
  <2> SUFFICES ASSUME AccountInv, TokenInv, [Next]_vars PROVE TokenInv'
    OBVIOUS
  <2>1. ASSUME NEW r \in Request, RequestNext(r) PROVE TokenInv'
    BY <2>1, QuietSteps, TokenInvQuiet, TokenInvLoud
  <2>2. ASSUME NEW t \in Token, Expire(t) PROVE TokenInv'
    BY <2>2, TokenInvQuiet DEF Expire, TokenQuiet
  <2>3. CASE UNCHANGED vars
    BY <2>3, TokenInvQuiet DEF vars, TokenQuiet
  <2>4. QED
    BY <2>1, <2>2, <2>3 DEF Next
<1>2. QED
  BY <1>1, TokenInvInit, AccountInvariant, PTL DEF Spec

\* A token whose refresh or logout was answered 200 stays unusable, whatever
\* other requests do, as long as no DEL fails (auth.go:110-111, 129).
THEOREM EndedForGood == Spec => []EndedStaysEnded
<1>1. TokenInv => EndedStaysEnded
  BY DEF TokenInv
<1>2. QED
  BY <1>1, TokenInvariant, PTL

\* A token handed to a client works until it is presented or expires
\* (auth.go:168-172).
THEOREM IssuedWorks == Spec => []IssuedIsStored
<1>1. TokenInv => IssuedIsStored
  BY DEF TokenInv
<1>2. QED
  BY <1>1, TokenInvariant, PTL
=============================================================================
