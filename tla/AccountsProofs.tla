---------------------------- MODULE AccountsProofs ----------------------------
(***************************************************************************)
(* Theorems about Accounts, for any users, sessions, service accounts,     *)
(* roles and numbers of calls under way.                                   *)
(***************************************************************************)
EXTENDS Accounts, TLAPS

-----------------------------------------------------------------------------
(* A user ID without a document has neither a lock nor roles.              *)
NothingBeforeCreation ==
  \A u \in Users : ~user[u].exists => ~user[u].locked /\ user[u].roles = {}

(* A sign-in that is about to authenticate its session has its user; one   *)
(* about to create a user who will not be an administrator has seen another*)
(* user, and no user is ever removed.                                      *)
LoginsKnowUsers ==
  \A l \in Logins :
    /\ login[l].pc # "idle" => login[l].user \in Users /\ login[l].session \in Sessions
    /\ login[l].pc = "authenticate" => user[login[l].user].exists
    /\ login[l].pc = "create" /\ ~login[l].first => \E u \in Users : user[u].exists

UsersInv ==
  /\ TypeOK /\ NothingBeforeCreation /\ LoginsKnowUsers
  /\ AuthenticatedUsersExist /\ AdministratorExists

(* A request whose user was locked when it began is still on its way, or   *)
(* the user is not locked any more.                                        *)
ShutIsLocked ==
  \A r \in Requests :
    /\ request[r].pc = "user" => request[r].user \in Users
    /\ request[r].pc = "user" /\ request[r].shut => user[request[r].user].locked

RequestsInv == UsersInv /\ ShutIsLocked /\ LockedOut

(* Between the two steps of Lock, each session it is about to delete is    *)
(* still the user's, or gone already, or has been authenticated since.     *)
LocksInv ==
  /\ TypeOK
  /\ \A k \in Locks : lock[k].pc = "sessions" =>
       \A s \in lock[k].had :
         \/ session[s] = Deleted
         \/ session[s].state \in Stored /\ session[s].user = lock[k].user
  /\ LockEndsSessions

-----------------------------------------------------------------------------
LEMMA IdleRecords ==
  /\ NoCall \in LoginRecords /\ NoLock \in LockRecords
  /\ NoRequest \in RequestRecords
  /\ NewSession \in SessionRecords /\ Deleted \in SessionRecords
BY DEF NoCall, LoginRecords, NoLock, LockRecords, NoRequest, RequestRecords,
       NewSession, Deleted, SessionRecords

LEMMA InitAccountsInv == Init => RequestsInv /\ LocksInv
<1> SUFFICES ASSUME Init PROVE RequestsInv /\ LocksInv
  OBVIOUS
<1>1. TypeOK
  <2>1. user \in [Users -> UserRecords]
    BY DEF Init, UserRecords
  <2>2. account \in [Accounts -> AccountRecords]
    BY TokensAssumption DEF Init, AccountRecords
  <2> QED BY <2>1, <2>2, IdleRecords DEF Init, TypeOK
<1>2. NothingBeforeCreation /\ LoginsKnowUsers /\ AdministratorExists
  BY DEF Init, NothingBeforeCreation, LoginsKnowUsers, AdministratorExists, NoCall
<1>3. AuthenticatedUsersExist
  BY NamesAssumption DEF Init, AuthenticatedUsersExist, NewSession
<1>4. ShutIsLocked /\ LockedOut
  BY DEF Init, ShutIsLocked, LockedOut, NoRequest
<1>5. LocksInv
  BY <1>1 DEF Init, LocksInv, LockEndsSessions, NoLock
<1> QED BY <1>1, <1>2, <1>3, <1>4, <1>5 DEF RequestsInv, UsersInv

-----------------------------------------------------------------------------
(* Types, one lemma for each part of the system.                           *)

LEMMA SessionTypes ==
  ASSUME TypeOK, NEW s \in Sessions,
         CreateRootSession(s) \/ CreateUserSession(s) \/ Expire(s)
  PROVE  TypeOK'
<1>1. session' \in [Sessions -> SessionRecords]
  <2>1. CASE CreateRootSession(s)
    <3>1. [state |-> "authenticated", user |-> Root] \in SessionRecords
      BY DEF SessionRecords
    <3> QED BY <2>1, <3>1 DEF CreateRootSession, TypeOK
  <2>2. CASE CreateUserSession(s)
    <3>1. [session[s] EXCEPT !.state = "anonymous"] \in SessionRecords
      BY <2>2 DEF CreateUserSession, NewSession, SessionRecords
    <3> QED BY <2>2, <3>1 DEF CreateUserSession, TypeOK
  <2>3. CASE Expire(s)
    <3>1. session[s] \in SessionRecords /\ session[s].state = "authenticated"
      BY <2>3 DEF Expire, TypeOK
    <3>2. [session[s] EXCEPT !.state = "expired"] \in SessionRecords
      BY <3>1 DEF SessionRecords
    <3> QED BY <2>3, <3>2 DEF Expire, TypeOK
  <2> QED BY <2>1, <2>2, <2>3
<1> QED BY <1>1 DEF CreateRootSession, CreateUserSession, Expire, TypeOK

LEMMA LoginTypes ==
  ASSUME TypeOK, LoginsKnowUsers, NEW l \in Logins,
         \/ \E s \in Sessions, u \in Users : Authenticate(l, s, u)
         \/ GetUser(l) \/ CountUsers(l) \/ CreateUser(l)
         \/ AuthenticateSession(l) \/ LoginFails(l)
  PROVE  TypeOK'
<1>0. login[l] \in LoginRecords
  BY DEF TypeOK
<1>1. ASSUME NEW s \in Sessions, NEW u \in Users, Authenticate(l, s, u)
      PROVE  TypeOK'
  <2>1. [pc |-> "get", session |-> s, user |-> u, first |-> FALSE] \in LoginRecords
    BY DEF LoginRecords
  <2> QED BY <1>1, <2>1 DEF Authenticate, TypeOK
<1>2. CASE GetUser(l)
  <2>1. \A p \in {"authenticate", "count"} :
          [login[l] EXCEPT !.pc = p] \in LoginRecords
    BY <1>0 DEF LoginRecords
  <2> QED BY <1>2, <2>1 DEF GetUser, TypeOK
<1>3. CASE CountUsers(l)
  <2>1. \A b \in BOOLEAN :
          [login[l] EXCEPT !.pc = "create", !.first = b] \in LoginRecords
    BY <1>0 DEF LoginRecords
  <2> QED BY <1>3, <2>1 DEF CountUsers, TypeOK
<1>4. CASE CreateUser(l)
  <2>1. NewUser(l) \in UserRecords
    BY DEF NewUser, UserRecords
  <2>2. [login[l] EXCEPT !.pc = "authenticate", !.first = FALSE] \in LoginRecords
    BY <1>0 DEF LoginRecords
  <2>3. login[l].user \in Users
    BY <1>4 DEF CreateUser, LoginsKnowUsers
  <2> QED BY <1>4, <2>1, <2>2, <2>3, IdleRecords DEF CreateUser, TypeOK
<1>5. CASE AuthenticateSession(l)
  <2>1. login[l].user \in Users /\ login[l].session \in Sessions
    BY <1>5 DEF AuthenticateSession, LoginsKnowUsers
  <2>2. [state |-> "authenticated", user |-> login[l].user] \in SessionRecords
    BY <2>1 DEF SessionRecords
  <2>3. session' \in [Sessions -> SessionRecords]
    BY <1>5, <2>1, <2>2 DEF AuthenticateSession, TypeOK
  <2>4. \A k \in Locks, s \in Sessions :
          [lock[k] EXCEPT !.had = @ \ {s}] \in LockRecords
    BY DEF TypeOK, LockRecords
  <2>5. lock' \in [Locks -> LockRecords]
    <3>1. \/ lock' = [k \in Locks |->
                       [lock[k] EXCEPT !.had = @ \ {login[l].session}]]
          \/ lock' = lock
      BY <1>5 DEF AuthenticateSession
    <3> QED BY <2>1, <2>4, <3>1 DEF TypeOK
  <2> QED BY <1>5, <2>3, <2>5, IdleRecords DEF AuthenticateSession, TypeOK
<1>6. CASE LoginFails(l)
  BY <1>6, IdleRecords DEF LoginFails, TypeOK
<1> QED BY <1>1, <1>2, <1>3, <1>4, <1>5, <1>6

LEMMA LockTypes ==
  ASSUME TypeOK, NEW k \in Locks,
         (\E u \in Users : LockUser(k, u)) \/ DeleteSessions(k) \/ LockFails(k)
  PROVE  TypeOK'
<1>1. ASSUME NEW u \in Users, LockUser(k, u)
      PROVE  TypeOK'
  <2>1. [user[u] EXCEPT !.locked = TRUE] \in UserRecords
    BY DEF TypeOK, UserRecords
  <2>2. \A S \in SUBSET Sessions :
          [pc |-> "sessions", user |-> u, had |-> S] \in LockRecords
    BY DEF LockRecords
  <2>3. {s \in Sessions : session[s].user = u /\ session[s].state \in Stored}
          \in SUBSET Sessions
    OBVIOUS
  <2> QED BY <1>1, <2>1, <2>2, <2>3 DEF LockUser, TypeOK
<1>2. CASE DeleteSessions(k)
  <2>1. [lock[k] EXCEPT !.pc = "returned", !.user = None] \in LockRecords
    BY DEF TypeOK, LockRecords
  <2>2. session' \in [Sessions -> SessionRecords]
    BY <1>2, IdleRecords DEF DeleteSessions, TypeOK
  <2> QED BY <1>2, <2>1, <2>2 DEF DeleteSessions, TypeOK
<1>3. CASE LockFails(k)
  BY <1>3, IdleRecords DEF LockFails, TypeOK
<1> QED BY <1>1, <1>2, <1>3

LEMMA UserTypes ==
  ASSUME TypeOK, NEW u \in Users,
         UnlockUser(u) \/ \E role \in Roles : Grant(u, role) \/ Revoke(u, role)
  PROVE  TypeOK'
<1>0. user[u] \in UserRecords
  BY DEF TypeOK
<1>1. CASE UnlockUser(u)
  <2>1. [user[u] EXCEPT !.locked = FALSE] \in UserRecords
    BY <1>0 DEF UserRecords
  <2>2. \A r \in Requests, b \in BOOLEAN :
          [request[r] EXCEPT !.shut = b] \in RequestRecords
    BY DEF TypeOK, RequestRecords
  <2>3. \A r \in Requests : request[r].shut \in BOOLEAN
    BY DEF TypeOK, RequestRecords
  <2>4. request' \in [Requests -> RequestRecords]
    BY <1>1, <2>2, <2>3 DEF UnlockUser, Reopen
  <2> QED BY <1>1, <2>1, <2>4 DEF UnlockUser, TypeOK
<1>2. ASSUME NEW role \in Roles, Grant(u, role) \/ Revoke(u, role)
      PROVE  TypeOK'
  <2>1. /\ [user[u] EXCEPT !.roles = @ \cup {role}] \in UserRecords
        /\ [user[u] EXCEPT !.roles = @ \ {role}] \in UserRecords
    BY <1>0 DEF UserRecords
  <2>2. user' \in [Users -> UserRecords] /\ revoked' \in BOOLEAN
    BY <1>2, <2>1 DEF Grant, Revoke, TypeOK
  <2> QED BY <1>2, <2>2 DEF Grant, Revoke, TypeOK
<1> QED BY <1>1, <1>2

LEMMA AccountTypes ==
  ASSUME TypeOK, NEW a \in Accounts,
         CreateAccount(a) \/ LockAccount(a) \/ UnlockAccount(a)
  PROVE  TypeOK'
<1>0. account[a] \in AccountRecords
  BY DEF TypeOK
<1>1. CASE CreateAccount(a)
  <2>1. [account[a] EXCEPT !.tokens = 1] \in AccountRecords
    BY <1>0, <1>1, TokensAssumption DEF CreateAccount, AccountRecords
  <2> QED BY <1>1, <2>1 DEF CreateAccount, TypeOK
<1>2. CASE LockAccount(a)
  <2>1. [account[a] EXCEPT !.locked = TRUE] \in AccountRecords
    BY <1>0 DEF AccountRecords
  <2> QED BY <1>2, <2>1 DEF LockAccount, TypeOK
<1>3. CASE UnlockAccount(a)
  <2>1. [tokens |-> account[a].tokens + 1, locked |-> FALSE] \in AccountRecords
    BY <1>3, TokensAssumption DEF UnlockAccount, AccountRecords
  <2> QED BY <1>3, <2>1 DEF UnlockAccount, TypeOK
<1> QED BY <1>1, <1>2, <1>3

LEMMA RequestTypes ==
  ASSUME TypeOK, NEW r \in Requests,
         \/ \E t \in AccountTokens : FindServiceAccount(r, t)
         \/ \E s \in Sessions : FindSession(r, s)
         \/ FindUser(r) \/ Respond(r) \/ Logout(r)
  PROVE  TypeOK'
<1>1. ASSUME NEW t \in AccountTokens, FindServiceAccount(r, t)
      PROVE  TypeOK'
  <2>1. [NoRequest EXCEPT !.pc = "served", !.token = t] \in RequestRecords
    BY DEF NoRequest, RequestRecords
  <2> QED BY <1>1, <2>1 DEF FindServiceAccount, TypeOK
<1>2. ASSUME NEW s \in Sessions, FindSession(r, s)
      PROVE  TypeOK'
  <2> DEFINE u == session[s].user
  <2>1. [NoRequest EXCEPT !.pc = "served", !.token = s] \in RequestRecords
    BY DEF NoRequest, RequestRecords
  <2>2. u # Root => u \in Users /\ user[u].locked \in BOOLEAN
    BY <1>2 DEF FindSession, LiveSession, TypeOK, SessionRecords, UserRecords
  <2>3. u # Root => [pc |-> "user", token |-> s, user |-> u,
                     shut |-> user[u].locked] \in RequestRecords
    BY <2>2 DEF RequestRecords
  <2> QED BY <1>2, <2>1, <2>3 DEF FindSession, TypeOK
<1>3. CASE FindUser(r)
  <2>1. [request[r] EXCEPT !.pc = "served", !.user = None] \in RequestRecords
    BY DEF TypeOK, RequestRecords
  <2> QED BY <1>3, <2>1, IdleRecords DEF FindUser, TypeOK
<1>4. CASE Respond(r)
  BY <1>4, IdleRecords DEF Respond, TypeOK
<1>5. CASE Logout(r)
  BY <1>5, IdleRecords DEF Logout, TypeOK
<1> QED BY <1>1, <1>2, <1>3, <1>4, <1>5

LEMMA RestartTypes == TypeOK /\ Restart => TypeOK'
BY IdleRecords DEF Restart, TypeOK

LEMMA NextTypes == TypeOK /\ LoginsKnowUsers /\ [Next]_vars => TypeOK'
<1>1. TypeOK /\ UNCHANGED vars => TypeOK'
  BY DEF TypeOK, vars
<1> QED BY <1>1, SessionTypes, LoginTypes, LockTypes, UserTypes, AccountTypes,
           RequestTypes, RestartTypes DEF Next

-----------------------------------------------------------------------------
(* Users and sign-ins.                                                     *)

(* The steps that write a user or a history of roles.                      *)
UserStep ==
  \/ \E l \in Logins : CreateUser(l)
  \/ \E k \in Locks, u \in Users : LockUser(k, u)
  \/ \E u \in Users : UnlockUser(u) \/ \E role \in Roles : Grant(u, role) \/ Revoke(u, role)

LEMMA OthersLeaveUsers == [Next]_vars => UserStep \/ UNCHANGED <<user, revoked>>
BY DEF Next, vars, UserStep, CreateRootSession, CreateUserSession, Expire,
       Authenticate, GetUser, CountUsers, AuthenticateSession, LoginFails,
       DeleteSessions, LockFails, CreateAccount, LockAccount, UnlockAccount,
       FindServiceAccount, FindSession, FindUser, Respond, Logout, Restart

(* What a step does to the users.                                          *)
LEMMA UsersGrow ==
  ASSUME TypeOK, NothingBeforeCreation, LoginsKnowUsers, [Next]_vars
  PROVE  /\ NothingBeforeCreation'
         /\ \A u \in Users : user[u].exists => user'[u].exists
<1>1. CASE UNCHANGED <<user, revoked>>
  BY <1>1 DEF NothingBeforeCreation
<1>2. ASSUME NEW l \in Logins, CreateUser(l)
      PROVE  /\ NothingBeforeCreation'
             /\ \A u \in Users : user[u].exists => user'[u].exists
  BY <1>2 DEF CreateUser, NewUser, TypeOK, NothingBeforeCreation
<1>3. ASSUME NEW u \in Users, user[u].exists,
             \E r \in UserRecords : r.exists /\ user' = [user EXCEPT ![u] = r]
      PROVE  /\ NothingBeforeCreation'
             /\ \A v \in Users : user[v].exists => user'[v].exists
  BY <1>3 DEF TypeOK, NothingBeforeCreation
<1>4. \A u \in Users :
        user[u].exists =>
          /\ \A b \in BOOLEAN : LET r == [user[u] EXCEPT !.locked = b]
                                IN  r \in UserRecords /\ r.exists
          /\ \A S \in SUBSET Roles : LET r == [user[u] EXCEPT !.roles = S]
                                     IN  r \in UserRecords /\ r.exists
  BY DEF TypeOK, UserRecords
<1>5. ASSUME NEW u \in Users,
             \/ \E k \in Locks : LockUser(k, u)
             \/ UnlockUser(u)
             \/ \E role \in Roles : Grant(u, role) \/ Revoke(u, role)
      PROVE  /\ user[u].exists
             /\ \E r \in UserRecords : r.exists /\ user' = [user EXCEPT ![u] = r]
  <2>1. CASE (\E k \in Locks : LockUser(k, u)) \/ UnlockUser(u)
    BY <1>4, <2>1 DEF LockUser, UnlockUser
  <2>2. ASSUME NEW role \in Roles, Grant(u, role) \/ Revoke(u, role)
        PROVE  /\ user[u].exists
               /\ \E r \in UserRecords : r.exists /\ user' = [user EXCEPT ![u] = r]
    <3>1. user[u].roles \cup {role} \in SUBSET Roles
          /\ user[u].roles \ {role} \in SUBSET Roles
      BY DEF TypeOK, UserRecords
    <3> QED BY <1>4, <2>2, <3>1 DEF Grant, Revoke
  <2> QED BY <1>5, <2>1, <2>2
<1> QED BY <1>1, <1>2, <1>3, <1>5, OthersLeaveUsers DEF UserStep

(* What a step does to the sign-ins.                                       *)
LEMMA LoginsStillKnowUsers ==
  ASSUME TypeOK, NothingBeforeCreation, LoginsKnowUsers, [Next]_vars
  PROVE  LoginsKnowUsers'
<1>0. \A u \in Users : user[u].exists => user'[u].exists
  BY UsersGrow
<1>1. CASE UNCHANGED login
  BY <1>0, <1>1 DEF LoginsKnowUsers
<1>2. ASSUME NEW l \in Logins,
             login' = [login EXCEPT ![l] = NoCall]
      PROVE  LoginsKnowUsers'
  BY <1>0, <1>2 DEF LoginsKnowUsers, NoCall, TypeOK
<1>3. ASSUME NEW l \in Logins, NEW s \in Sessions, NEW u \in Users,
             Authenticate(l, s, u)
      PROVE  LoginsKnowUsers'
  BY <1>0, <1>3 DEF Authenticate, LoginsKnowUsers, TypeOK
<1>4. ASSUME NEW l \in Logins, GetUser(l)
      PROVE  LoginsKnowUsers'
  <2>1. /\ login'[l] \in LoginRecords
        /\ login'[l].user = login[l].user /\ login'[l].session = login[l].session
        /\ login'[l].pc = IF user[login[l].user].exists THEN "authenticate" ELSE "count"
        /\ \A m \in Logins \ {l} : login'[m] = login[m]
    BY <1>4 DEF GetUser, TypeOK, LoginRecords
  <2> QED BY <1>0, <1>4, <2>1 DEF GetUser, LoginsKnowUsers
<1>5. ASSUME NEW l \in Logins, CountUsers(l)
      PROVE  LoginsKnowUsers'
  <2>1. /\ login'[l].user = login[l].user /\ login'[l].session = login[l].session
        /\ login'[l].pc = "create"
        /\ login'[l].first = \A u \in Users : ~user[u].exists
        /\ \A m \in Logins \ {l} : login'[m] = login[m]
    BY <1>5 DEF CountUsers, TypeOK, LoginRecords
  <2> QED BY <1>0, <1>5, <2>1 DEF CountUsers, LoginsKnowUsers
<1>6. ASSUME NEW l \in Logins, CreateUser(l), ~user[login[l].user].exists
      PROVE  LoginsKnowUsers'
  <2>1. /\ login'[l].user = login[l].user /\ login'[l].session = login[l].session
        /\ login'[l].pc = "authenticate"
        /\ \A m \in Logins \ {l} : login'[m] = login[m]
    BY <1>6 DEF CreateUser, TypeOK, LoginRecords
  <2>2. login[l].user \in Users /\ user'[login[l].user].exists
    BY <1>6 DEF CreateUser, NewUser, TypeOK, LoginsKnowUsers
  <2> QED BY <1>0, <1>6, <2>1, <2>2 DEF CreateUser, LoginsKnowUsers
<1>7. ASSUME Restart
      PROVE  LoginsKnowUsers'
  BY <1>7 DEF Restart, LoginsKnowUsers, NoCall
<1>8. \A l \in Logins :
        \/ AuthenticateSession(l) \/ LoginFails(l)
        \/ CreateUser(l) /\ user[login[l].user].exists
        => login' = [login EXCEPT ![l] = NoCall]
  BY DEF AuthenticateSession, LoginFails, CreateUser
<1>9. \/ \E l \in Logins :
           \/ \E s \in Sessions, u \in Users : Authenticate(l, s, u)
           \/ GetUser(l) \/ CountUsers(l) \/ CreateUser(l)
           \/ AuthenticateSession(l) \/ LoginFails(l)
      \/ Restart
      \/ UNCHANGED login
  BY DEF Next, vars, CreateRootSession, CreateUserSession, Expire,
         LockUser, UnlockUser, Grant, Revoke,
         DeleteSessions, LockFails, CreateAccount, LockAccount, UnlockAccount,
         FindServiceAccount, FindSession, FindUser, Respond, Logout
<1> QED BY <1>1, <1>2, <1>3, <1>4, <1>5, <1>6, <1>7, <1>8, <1>9

(* A session gets a user only when a sign-in gives it one, or as root.     *)
LEMMA SessionUsersExist ==
  ASSUME UsersInv, [Next]_vars
  PROVE  AuthenticatedUsersExist'
<1>0. \A u \in Users : user[u].exists => user'[u].exists
  BY UsersGrow DEF UsersInv
<1> DEFINE Known(s) == \/ session'[s].user = session[s].user
                       \/ session'[s].user \notin Users
                       \/ user[session'[s].user].exists
<1> SUFFICES \A s \in Sessions : Known(s)
  BY <1>0 DEF UsersInv, AuthenticatedUsersExist
<1>1. CASE UNCHANGED session
  BY <1>1
<1>2. ASSUME NEW s \in Sessions,
             CreateRootSession(s) \/ CreateUserSession(s) \/ Expire(s)
      PROVE  \A t \in Sessions : Known(t)
  <2>1. /\ session'[s].user \in {session[s].user, Root}
        /\ \A t \in Sessions \ {s} : session'[t] = session[t]
    <3>1. CASE CreateRootSession(s)
      BY <3>1 DEF CreateRootSession, UsersInv, TypeOK
    <3>2. CASE CreateUserSession(s) \/ Expire(s)
      BY <3>2 DEF CreateUserSession, Expire, UsersInv, TypeOK, SessionRecords
    <3> QED BY <1>2, <3>1, <3>2
  <2> QED BY <2>1, NamesAssumption
<1>3. ASSUME NEW l \in Logins, AuthenticateSession(l)
      PROVE  \A t \in Sessions : Known(t)
  <2>1. user[login[l].user].exists
    BY <1>3 DEF AuthenticateSession, UsersInv, LoginsKnowUsers
  <2> QED BY <1>3, <2>1 DEF AuthenticateSession, UsersInv, TypeOK
<1>4. ASSUME NEW k \in Locks, DeleteSessions(k)
      PROVE  \A t \in Sessions : Known(t)
  BY <1>4, NamesAssumption DEF DeleteSessions, Deleted
<1>5. ASSUME NEW r \in Requests, Logout(r)
      PROVE  \A t \in Sessions : Known(t)
  BY <1>5, NamesAssumption DEF Logout, Deleted, UsersInv, TypeOK
<1>6. \/ \E s \in Sessions : CreateRootSession(s) \/ CreateUserSession(s) \/ Expire(s)
      \/ \E l \in Logins : AuthenticateSession(l)
      \/ \E k \in Locks : DeleteSessions(k)
      \/ \E r \in Requests : Logout(r)
      \/ UNCHANGED session
  BY DEF Next, vars, Authenticate, GetUser, CountUsers, CreateUser, LoginFails,
         LockUser, LockFails, UnlockUser, Grant, Revoke, CreateAccount,
         LockAccount, UnlockAccount, FindServiceAccount, FindSession, FindUser,
         Respond, Restart
<1> HIDE DEF Known
<1> QED BY <1>1, <1>2, <1>3, <1>4, <1>5, <1>6

(* The administrator stays one, or is there when the first other user is.  *)
LEMMA AdministratorStays ==
  ASSUME UsersInv, [Next]_vars
  PROVE  AdministratorExists'
<1>1. CASE UNCHANGED <<user, revoked>>
  BY <1>1 DEF UsersInv, AdministratorExists
<1>2. ASSUME NEW l \in Logins, CreateUser(l)
      PROVE  AdministratorExists'
  <2> DEFINE u == login[l].user
  <2>1. CASE UNCHANGED user
    BY <1>2, <2>1 DEF CreateUser, UsersInv, AdministratorExists
  <2>2. CASE ~user[u].exists
    <3>1. /\ u \in Users /\ user'[u] = NewUser(l) /\ UNCHANGED revoked
          /\ \A v \in Users \ {u} : user'[v] = user[v]
      BY <1>2, <2>2 DEF CreateUser, UsersInv, TypeOK, LoginsKnowUsers
    <3>2. CASE login[l].first
      BY <3>1, <3>2, AdminAssumption DEF NewUser, AdministratorExists
    <3>3. CASE ~login[l].first
      <4>1. \E v \in Users : user[v].exists
        BY <1>2, <3>3 DEF CreateUser, UsersInv, LoginsKnowUsers
      <4>2. revoked \/ \E v \in Users \ {u} : Admin \in user[v].roles
        BY <2>2, <4>1 DEF UsersInv, AdministratorExists, NothingBeforeCreation
      <4> QED BY <3>1, <4>2 DEF AdministratorExists
    <3> QED BY <3>2, <3>3
  <2> QED BY <1>2, <2>1, <2>2 DEF CreateUser
<1>3. ASSUME NEW u \in Users, user[u].exists,
             \/ \E k \in Locks : LockUser(k, u)
             \/ UnlockUser(u)
             \/ \E role \in Roles : Grant(u, role)
             \/ \E role \in Roles \ {Admin} : Revoke(u, role)
      PROVE  AdministratorExists'
  <2>1. /\ UNCHANGED revoked \/ revoked'
        /\ \A v \in Users : Admin \in user[v].roles => Admin \in user'[v].roles
    <3>1. CASE (\E k \in Locks : LockUser(k, u)) \/ UnlockUser(u)
      BY <3>1 DEF LockUser, UnlockUser, UsersInv, TypeOK, UserRecords
    <3>2. ASSUME NEW role \in Roles,
                 Grant(u, role) \/ (role # Admin /\ Revoke(u, role))
          PROVE  <2>1
      BY <3>2 DEF Grant, Revoke, UsersInv, TypeOK, UserRecords
    <3> QED BY <1>3, <3>1, <3>2
  <2> QED BY <1>3, <2>1 DEF UsersInv, AdministratorExists
<1>4. ASSUME NEW u \in Users, Revoke(u, Admin)
      PROVE  AdministratorExists'
  BY <1>4 DEF Revoke, AdministratorExists
<1>5. \A u \in Users : /\ (\E k \in Locks : LockUser(k, u)) => user[u].exists
                       /\ UnlockUser(u) => user[u].exists
                       /\ \A role \in Roles : Grant(u, role) \/ Revoke(u, role)
                                                => user[u].exists
  BY DEF LockUser, UnlockUser, Grant, Revoke
<1> QED BY <1>1, <1>2, <1>3, <1>4, <1>5, OthersLeaveUsers DEF UserStep

LEMMA NextUsersInv == UsersInv /\ [Next]_vars => UsersInv'
<1> SUFFICES ASSUME UsersInv, [Next]_vars PROVE UsersInv'
  OBVIOUS
<1>1. TypeOK /\ NothingBeforeCreation /\ LoginsKnowUsers
  BY DEF UsersInv
<1> QED BY <1>1, NextTypes, UsersGrow, LoginsStillKnowUsers, SessionUsersExist,
           AdministratorStays DEF UsersInv

-----------------------------------------------------------------------------
(* Locked users and their requests.                                        *)

(* Only UnlockUser unlocks: the others that write users keep the locks.    *)
LEMMA LocksStay ==
  ASSUME UsersInv, [Next]_vars, ~\E u \in Users : UnlockUser(u)
  PROVE  \A u \in Users : user[u].locked => user'[u].locked
<1>1. ASSUME NEW l \in Logins, CreateUser(l)
      PROVE  \A u \in Users : user[u].locked => user'[u].locked
  BY <1>1 DEF CreateUser, UsersInv, TypeOK, NothingBeforeCreation
<1>2. ASSUME NEW k \in Locks, NEW v \in Users, LockUser(k, v)
      PROVE  \A u \in Users : user[u].locked => user'[u].locked
  BY <1>2 DEF LockUser, UsersInv, TypeOK, UserRecords
<1>3. ASSUME NEW v \in Users, NEW role \in Roles, Grant(v, role) \/ Revoke(v, role)
      PROVE  \A u \in Users : user[u].locked => user'[u].locked
  BY <1>3 DEF Grant, Revoke, UsersInv, TypeOK, UserRecords
<1> QED BY <1>1, <1>2, <1>3, OthersLeaveUsers DEF UserStep

LEMMA RequestsStayOut ==
  ASSUME RequestsInv, [Next]_vars
  PROVE  ShutIsLocked' /\ LockedOut'
<1> USE DEF RequestsInv
<1>1. ASSUME NEW u \in Users, UnlockUser(u)
      PROVE  ShutIsLocked' /\ LockedOut'
  <2>1. \A r \in Requests :
          /\ request'[r].pc = request[r].pc /\ request'[r].user = request[r].user
          /\ request'[r].shut => request[r].shut /\ request[r].user # u
    BY <1>1 DEF UnlockUser, Reopen, UsersInv, TypeOK, RequestRecords
  <2>2. \A v \in Users \ {u} : user'[v] = user[v]
    BY <1>1 DEF UnlockUser, UsersInv, TypeOK
  <2> QED BY <2>1, <2>2 DEF ShutIsLocked, LockedOut
<1>2. ASSUME UNCHANGED user, NEW r \in Requests, NEW q \in RequestRecords,
             request' = [request EXCEPT ![r] = q],
             q.pc = "user" => q.user \in Users /\ (q.shut => user[q.user].locked),
             q.pc = "served" => ~q.shut
      PROVE  ShutIsLocked' /\ LockedOut'
  BY <1>2 DEF ShutIsLocked, LockedOut, UsersInv, TypeOK
<1>3. ASSUME NEW r \in Requests, NEW t \in AccountTokens, FindServiceAccount(r, t)
      PROVE  ShutIsLocked' /\ LockedOut'
  <2> DEFINE q == [NoRequest EXCEPT !.pc = "served", !.token = t]
  <2>1. q \in RequestRecords /\ q.pc = "served" /\ ~q.shut
    BY DEF NoRequest, RequestRecords
  <2> QED BY <1>2, <1>3, <2>1 DEF FindServiceAccount
<1>4. ASSUME NEW r \in Requests, NEW s \in Sessions, FindSession(r, s)
      PROVE  ShutIsLocked' /\ LockedOut'
  <2> DEFINE u == session[s].user
             q == IF u = Root THEN [NoRequest EXCEPT !.pc = "served", !.token = s]
                  ELSE [pc |-> "user", token |-> s, user |-> u,
                        shut |-> user[u].locked]
  <2>1. u # Root => u \in Users /\ user[u].locked \in BOOLEAN
    BY <1>4 DEF FindSession, LiveSession, UsersInv, TypeOK, SessionRecords, UserRecords
  <2>2. /\ q \in RequestRecords
        /\ q.pc = "user" => q.user \in Users /\ (q.shut => user[q.user].locked)
        /\ q.pc = "served" => ~q.shut
    BY <2>1 DEF NoRequest, RequestRecords
  <2>3. request' = [request EXCEPT ![r] = q] /\ UNCHANGED user
    BY <1>4 DEF FindSession
  <2> HIDE DEF q
  <2> QED BY <1>2, <2>2, <2>3
<1>5. ASSUME NEW r \in Requests, request' = [request EXCEPT ![r] = NoRequest],
             UNCHANGED user
      PROVE  ShutIsLocked' /\ LockedOut'
  <2>1. NoRequest.pc = "idle"
    BY DEF NoRequest
  <2> QED BY <1>2, <1>5, <2>1, IdleRecords
<1>6. ASSUME NEW r \in Requests, FindUser(r)
      PROVE  ShutIsLocked' /\ LockedOut'
  <2> DEFINE u == request[r].user
             q == [request[r] EXCEPT !.pc = "served", !.user = None]
  <2>1. CASE user[u].exists /\ ~user[u].locked
    <3>1. ~request[r].shut
      BY <1>6, <2>1 DEF FindUser, ShutIsLocked
    <3>2. q \in RequestRecords /\ q.pc = "served" /\ ~q.shut
      BY <3>1 DEF UsersInv, TypeOK, RequestRecords
    <3>3. request' = [request EXCEPT ![r] = q] /\ UNCHANGED user
      BY <1>6, <2>1 DEF FindUser
    <3> HIDE DEF q
    <3> QED BY <1>2, <3>2, <3>3
  <2>2. CASE ~(user[u].exists /\ ~user[u].locked)
    BY <1>5, <1>6, <2>2 DEF FindUser
  <2> QED BY <2>1, <2>2
<1>7. \A r \in Requests : Respond(r) \/ Logout(r) =>
        request' = [request EXCEPT ![r] = NoRequest] /\ UNCHANGED user
  BY DEF Respond, Logout
<1>8. CASE Restart
  BY <1>8 DEF Restart, ShutIsLocked, LockedOut, NoRequest
<1>9. CASE UNCHANGED request /\ ~\E u \in Users : UnlockUser(u)
  <2>1. \A u \in Users : user[u].locked => user'[u].locked
    BY <1>9, LocksStay
  <2> QED BY <1>9, <2>1 DEF ShutIsLocked, LockedOut
<1>10. \/ \E r \in Requests : \/ \E t \in AccountTokens : FindServiceAccount(r, t)
                              \/ \E s \in Sessions : FindSession(r, s)
                              \/ FindUser(r) \/ Respond(r) \/ Logout(r)
       \/ Restart \/ (\E u \in Users : UnlockUser(u)) \/ UNCHANGED request
  BY DEF Next, vars, CreateRootSession, CreateUserSession, Expire,
         Authenticate, GetUser, CountUsers, CreateUser, AuthenticateSession,
         LoginFails, LockUser, DeleteSessions, LockFails, Grant, Revoke,
         CreateAccount, LockAccount, UnlockAccount
<1> QED BY <1>1, <1>3, <1>4, <1>5, <1>6, <1>7, <1>8, <1>9, <1>10

LEMMA NextRequestsInv == RequestsInv /\ [Next]_vars => RequestsInv'
BY NextUsersInv, RequestsStayOut DEF RequestsInv

-----------------------------------------------------------------------------
(* Locks and the sessions they end.                                        *)

(* While a session is one that a lock is to end, only a sign-in can make   *)
(* it anything but deleted, and then the lock does not count it any more.  *)
LEMMA NextLocksInv ==
  ASSUME LocksInv, LoginsKnowUsers, [Next]_vars
  PROVE  LocksInv'
<1> DEFINE Ended(k, s) ==
      /\ lock[k].pc = "sessions" =>
           \/ session[s] = Deleted
           \/ session[s].state \in Stored /\ session[s].user = lock[k].user
      /\ lock[k].pc = "returned" => session[s] = Deleted
<1>a. \A k \in Locks : \A s \in lock[k].had : Ended(k, s)
  BY DEF LocksInv, LockEndsSessions
<1>b. TypeOK /\ TypeOK'
  BY NextTypes DEF LocksInv
<1>c. \A k \in Locks : lock[k].had \subseteq Sessions
  BY <1>b DEF TypeOK, LockRecords
<1>d. Deleted # NewSession /\ NewSession.state = "new" /\ Deleted.state = "deleted"
  BY DEF Deleted, NewSession
<1> SUFFICES \A k \in Locks : \A s \in lock'[k].had : Ended(k, s)'
  BY <1>b DEF LocksInv, LockEndsSessions
<1>1. CASE UNCHANGED <<session, lock>>
  BY <1>1, <1>a
<1>2. ASSUME UNCHANGED lock,
             \A s \in Sessions :
               \/ session'[s] = session[s] \/ session'[s] = Deleted
               \/ /\ session[s].state \in Stored /\ session'[s].state \in Stored
                  /\ session'[s].user = session[s].user
               \/ session[s] = NewSession
      PROVE  \A k \in Locks : \A s \in lock'[k].had : Ended(k, s)'
  <2> SUFFICES ASSUME NEW k \in Locks, NEW s \in lock[k].had
               PROVE  Ended(k, s)'
    BY <1>2
  <2>1. s \in Sessions /\ Ended(k, s)
    BY <1>a, <1>c
  <2> QED BY <1>2, <1>d, <2>1 DEF Stored
<1>3. ASSUME NEW s \in Sessions,
             CreateRootSession(s) \/ CreateUserSession(s) \/ Expire(s)
      PROVE  /\ UNCHANGED lock
             /\ \A t \in Sessions :
               \/ session'[t] = session[t] \/ session'[t] = Deleted
               \/ /\ session[t].state \in Stored /\ session'[t].state \in Stored
                  /\ session'[t].user = session[t].user
               \/ session[t] = NewSession
  <2>1. CASE CreateRootSession(s) \/ CreateUserSession(s)
    BY <1>b, <2>1 DEF CreateRootSession, CreateUserSession, TypeOK
  <2>2. CASE Expire(s)
    <3>1. session'[s].state = "expired" /\ session'[s].user = session[s].user
      BY <1>b, <2>2 DEF Expire, TypeOK, SessionRecords
    <3> QED BY <1>b, <2>2, <3>1 DEF Expire, TypeOK, Stored
  <2> QED BY <1>3, <2>1, <2>2
<1>4. ASSUME NEW r \in Requests, Logout(r)
      PROVE  /\ UNCHANGED lock
             /\ \A t \in Sessions : session'[t] = session[t] \/ session'[t] = Deleted
  BY <1>4, <1>b DEF Logout, TypeOK
<1>5. ASSUME NEW l \in Logins, AuthenticateSession(l)
      PROVE  \A k \in Locks : \A s \in lock'[k].had : Ended(k, s)'
  <2> DEFINE t == login[l].session
  <2>1. CASE UNCHANGED <<session, lock>>
    BY <1>1, <2>1
  <2>2. CASE session[t].state \in Stored
    <3>1. \A k \in Locks : /\ lock'[k].had = lock[k].had \ {t}
                           /\ lock'[k].pc = lock[k].pc
                           /\ lock'[k].user = lock[k].user
      BY <1>5, <2>2, <1>b DEF AuthenticateSession, TypeOK, LockRecords
    <3>2. \A s \in Sessions \ {t} : session'[s] = session[s]
      BY <1>5, <2>2, <1>b DEF AuthenticateSession, TypeOK
    <3> SUFFICES ASSUME NEW k \in Locks, NEW s \in lock[k].had \ {t}
                 PROVE  Ended(k, s)'
      BY <3>1
    <3>3. Ended(k, s) /\ session'[s] = session[s]
      BY <1>a, <1>c, <3>2
    <3> QED BY <3>1, <3>3
  <2> QED BY <1>5, <2>1, <2>2 DEF AuthenticateSession
<1>6. ASSUME NEW j \in Locks, NEW u \in Users, LockUser(j, u)
      PROVE  \A k \in Locks : \A s \in lock'[k].had : Ended(k, s)'
  <2> SUFFICES ASSUME NEW k \in Locks, NEW s \in lock'[k].had
               PROVE  Ended(k, s)'
    OBVIOUS
  <2>1. CASE k = j
    <3>1. /\ lock'[j].pc = "sessions" /\ lock'[j].user = u
          /\ s \in Sessions /\ session[s].user = u /\ session[s].state \in Stored
      BY <1>6, <1>b, <2>1 DEF LockUser, TypeOK
    <3> QED BY <1>6, <2>1, <3>1 DEF LockUser
  <2>2. CASE k # j
    <3>1. lock'[k] = lock[k] /\ UNCHANGED session
      BY <1>6, <1>b, <2>2 DEF LockUser, TypeOK
    <3> QED BY <1>a, <3>1
  <2> QED BY <2>1, <2>2
<1>7. ASSUME NEW j \in Locks, DeleteSessions(j)
      PROVE  \A k \in Locks : \A s \in lock'[k].had : Ended(k, s)'
  <2> SUFFICES ASSUME NEW k \in Locks, NEW s \in lock'[k].had
               PROVE  Ended(k, s)'
    OBVIOUS
  <2>1. /\ lock'[k].had = lock[k].had
        /\ lock'[k].pc = IF k = j THEN "returned" ELSE lock[k].pc
        /\ k # j => lock'[k].user = lock[k].user
    BY <1>7, <1>b DEF DeleteSessions, TypeOK, LockRecords
  <2>2. s \in Sessions /\ Ended(k, s)
    BY <2>1, <1>a, <1>c
  <2>3. session'[s] = IF session[s].state \in Stored /\ session[s].user = lock[j].user
                      THEN Deleted ELSE session[s]
    BY <1>7, <2>2 DEF DeleteSessions
  <2>4. lock[j].pc = "sessions"
    BY <1>7 DEF DeleteSessions
  <2> QED BY <2>1, <2>2, <2>3, <2>4
<1>8. ASSUME NEW j \in Locks, LockFails(j)
      PROVE  \A k \in Locks : \A s \in lock'[k].had : Ended(k, s)'
  BY <1>8, <1>a, <1>b DEF LockFails, TypeOK, NoLock
<1>9. CASE Restart
  BY <1>9 DEF Restart, NoLock
<1>10. \/ \E s \in Sessions : CreateRootSession(s) \/ CreateUserSession(s) \/ Expire(s)
       \/ \E l \in Logins : AuthenticateSession(l)
       \/ \E k \in Locks : DeleteSessions(k) \/ LockFails(k)
                           \/ \E u \in Users : LockUser(k, u)
       \/ \E r \in Requests : Logout(r)
       \/ Restart \/ UNCHANGED <<session, lock>>
  BY DEF Next, vars, Authenticate, GetUser, CountUsers, CreateUser, LoginFails,
         UnlockUser, Grant, Revoke, CreateAccount,
         LockAccount, UnlockAccount, FindServiceAccount, FindSession, FindUser,
         Respond
<1> HIDE DEF Ended
<1> QED BY <1>1, <1>2, <1>3, <1>4, <1>5, <1>6, <1>7, <1>8, <1>9, <1>10

-----------------------------------------------------------------------------
AccountsInv == RequestsInv /\ LocksInv

LEMMA AccountsInvHolds == Spec => []AccountsInv
<1>1. Init => AccountsInv
  BY InitAccountsInv DEF AccountsInv
<1>2. AccountsInv /\ [Next]_vars => AccountsInv'
  BY NextRequestsInv, NextLocksInv DEF AccountsInv, RequestsInv, UsersInv
<1> QED BY <1>1, <1>2, PTL DEF Spec

(* Sessions, accounts, sign-ins, locks and requests keep their types.      *)
THEOREM AccountsTypes == Spec => []TypeOK
<1>1. AccountsInv => TypeOK
  BY DEF AccountsInv, LocksInv
<1> QED BY <1>1, AccountsInvHolds, PTL

(* No request is served for a user who was locked when its session was     *)
(* found and has not been unlocked since.                                  *)
THEOREM LockedUsersStayOut == Spec => []LockedOut
<1>1. AccountsInv => LockedOut
  BY DEF AccountsInv, RequestsInv
<1> QED BY <1>1, AccountsInvHolds, PTL

(* A lock that returned has ended the sessions its user had, for good.     *)
THEOREM SessionsEndForGood == Spec => []LockEndsSessions
<1>1. AccountsInv => LockEndsSessions
  BY DEF AccountsInv, LocksInv
<1> QED BY <1>1, AccountsInvHolds, PTL

(* The user of a session is in the users' collection.                      *)
THEOREM SessionsHaveTheirUsers == Spec => []AuthenticatedUsersExist
<1>1. AccountsInv => AuthenticatedUsersExist
  BY DEF AccountsInv, RequestsInv, UsersInv
<1> QED BY <1>1, AccountsInvHolds, PTL

(* Where there is a user there is an administrator, until one is revoked.  *)
THEOREM SomeoneIsAdministrator == Spec => []AdministratorExists
<1>1. AccountsInv => AdministratorExists
  BY DEF AccountsInv, RequestsInv, UsersInv
<1> QED BY <1>1, AccountsInvHolds, PTL
=============================================================================
