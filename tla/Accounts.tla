------------------------------- MODULE Accounts -------------------------------
(***************************************************************************)
(* Who may use the API: users that sign in through an identity provider,   *)
(* service accounts with a token, the root user; locking and unlocking;    *)
(* system roles; and the filter that every request passes.                 *)
(*                                                                         *)
(* A request reads the session in one store call and its user in another,  *)
(* a sign-in is four store calls and locking a user two.  Calls interleave *)
(* between any two of them, may fail at any point, and all end when the    *)
(* API server restarts.                                                    *)
(*                                                                         *)
(*   user     per user ID the document: whether it exists, is locked, and  *)
(*            its roles                                                    *)
(*   session  per session ID the document: its state and its user          *)
(*   account  per service account: how many tokens it was given (only the  *)
(*            last is stored), and whether it is locked                    *)
(*   login    sessions.Authenticate calls    lock  users.Lock calls        *)
(*   request  where the token filter is with each request                  *)
(*                                                                         *)
(* Auxiliary: lock[k].had, sessions of the user when its lock took effect; *)
(* request[r].shut, whether its user was locked when it began and ever     *)
(* since; revoked, whether an administrator's role was ever revoked.       *)
(***************************************************************************)
EXTENDS Naturals

CONSTANTS
  Users,       \* e-mail addresses, the IDs of users
  Sessions,    \* session IDs; one stands for its two secrets as well
  Accounts,    \* service account IDs
  MaxTokens,   \* bound on the tokens of one service account
  Roles,       \* the roles that the first user is given
  Admin,       \* RoleAdmin(), one of them
  Root,        \* in a session, the root user
  RootUserEnabled,  \* the server's configuration
  None,
  Logins, Locks, Requests   \* calls under way at once

ASSUME AdminAssumption == Admin \in Roles
ASSUME NamesAssumption == Root \notin Users /\ None \notin Users \cup {Root}
ASSUME TokensAssumption == MaxTokens \in Nat

VARIABLES user, session, account, login, lock, request,
          revoked

vars == <<user, session, account, login, lock, request,
          revoked>>

-----------------------------------------------------------------------------
Stored == {"anonymous", "authenticated", "expired"}

NewSession == [state |-> "new", user |-> None]
Deleted == [state |-> "deleted", user |-> None]
NoCall == [pc |-> "idle", session |-> None, user |-> None, first |-> FALSE]
NoLock == [pc |-> "idle", user |-> None, had |-> {}]

(* A service account's tokens are its pairs with 1, 2, ...                 *)
AccountTokens == Accounts \X (1..MaxTokens)
NoRequest == [pc |-> "idle", token |-> None, user |-> None, shut |-> FALSE]

LiveToken(t) == account[t[1]].tokens = t[2] /\ ~account[t[1]].locked

LiveSession(s) ==
  /\ session[s].state = "authenticated"
  /\ session[s].user = Root => RootUserEnabled

(* Requests that have found a session of u see that u is let in again.     *)
Reopen(u) ==
  request' = [r \in Requests |-> [request[r] EXCEPT !.shut = @ /\ request[r].user # u]]

-----------------------------------------------------------------------------
Init ==
  /\ user = [u \in Users |-> [exists |-> FALSE, locked |-> FALSE, roles |-> {}]]
  /\ session = [s \in Sessions |-> NewSession]
  /\ account = [a \in Accounts |-> [tokens |-> 0, locked |-> FALSE]]
  /\ login = [l \in Logins |-> NoCall]
  /\ lock = [k \in Locks |-> NoLock]
  /\ request = [r \in Requests |-> NoRequest]
  /\ revoked = FALSE

-----------------------------------------------------------------------------
(* Sessions: POST /v2/sessions, the provider's callback, the passing hour. *)

CreateRootSession(s) ==
  /\ session[s] = NewSession /\ RootUserEnabled
  /\ session' = [session EXCEPT ![s] = [state |-> "authenticated", user |-> Root]]
  /\ UNCHANGED <<user, account, login, lock, request, revoked>>

CreateUserSession(s) ==
  /\ session[s] = NewSession
  /\ session' = [session EXCEPT ![s].state = "anonymous"]
  /\ UNCHANGED <<user, account, login, lock, request, revoked>>

Expire(s) ==
  /\ session[s].state = "authenticated"
  /\ session' = [session EXCEPT ![s].state = "expired"]
  /\ UNCHANGED <<user, account, login, lock, request, revoked>>

(* The session is found by its OAuth2 state, whether or not it is still    *)
(* anonymous; the provider says who the user is.                           *)
Authenticate(l, s, u) ==
  /\ login[l].pc = "idle"
  /\ session[s].state \in Stored /\ session[s].user # Root
  /\ login' = [login EXCEPT ![l] = [pc |-> "get", session |-> s, user |-> u,
                                    first |-> FALSE]]
  /\ UNCHANGED <<user, session, account, lock, request, revoked>>

(* Seeded fault: the error is dropped and the zero value of User used.     *)
GetUser_DropsError(l) ==
  /\ login[l].pc = "get"
  /\ login' = [login EXCEPT ![l].pc = "authenticate",
                 ![l].user = IF user[@].exists THEN @ ELSE None]
  /\ UNCHANGED <<user, session, account, lock, request, revoked>>

GetUser(l) ==
  /\ login[l].pc = "get"
  /\ login' = [login EXCEPT ![l].pc =
                 IF user[login[l].user].exists THEN "authenticate" ELSE "count"]
  /\ UNCHANGED <<user, session, account, lock, request, revoked>>

(* Seeded fault: the new user is taken to be counted already.              *)
CountUsers_IncludesNew(l) ==
  /\ login[l].pc = "count"
  /\ login' = [login EXCEPT ![l].pc = "create",
                            ![l].first = \E u \in Users : \A v \in Users :
                                           user[v].exists <=> v = u]
  /\ UNCHANGED <<user, session, account, lock, request, revoked>>

CountUsers(l) ==
  /\ login[l].pc = "count"
  /\ login' = [login EXCEPT ![l].pc = "create",
                            ![l].first = \A u \in Users : ~user[u].exists]
  /\ UNCHANGED <<user, session, account, lock, request, revoked>>

NewUser(l) == [exists |-> TRUE, locked |-> FALSE,
               roles |-> IF login[l].first THEN Roles ELSE {}]

(* Seeded fault: the store's error is dropped.                             *)
CreateUser_IgnoresError(l) ==
  LET u == login[l].user IN
  /\ login[l].pc = "create"
  /\ login' = [login EXCEPT ![l].pc = "authenticate"]
  /\ \/ ~user[u].exists /\ user' = [user EXCEPT ![u] = NewUser(l)]
     \/ UNCHANGED user
  /\ UNCHANGED <<session, account, lock, request, revoked>>

(* A unique index keeps a second document of the ID out.                   *)
CreateUser(l) ==
  LET u == login[l].user IN
  /\ login[l].pc = "create"
  /\ IF user[u].exists
     THEN login' = [login EXCEPT ![l] = NoCall] /\ UNCHANGED user
     ELSE /\ user' = [user EXCEPT ![u] = NewUser(l)]
          /\ login' = [login EXCEPT ![l].pc = "authenticate", ![l].first = FALSE]
  /\ UNCHANGED <<session, account, lock, request, revoked>>

(* Without a look at the user's lock, or at what the session was before.   *)
AuthenticateSession(l) ==
  LET s == login[l].session IN
  /\ login[l].pc = "authenticate"
  /\ login' = [login EXCEPT ![l] = NoCall]
  /\ IF session[s].state \in Stored
     THEN /\ session' = [session EXCEPT ![s] = [state |-> "authenticated",
                                                user |-> login[l].user]]
          /\ lock' = [k \in Locks |-> [lock[k] EXCEPT !.had = @ \ {s}]]
     ELSE UNCHANGED <<session, lock>>
  /\ UNCHANGED <<user, account, request, revoked>>

LoginFails(l) ==
  /\ login[l].pc # "idle"
  /\ login' = [login EXCEPT ![l] = NoCall]
  /\ UNCHANGED <<user, session, account, lock, request, revoked>>

-----------------------------------------------------------------------------
(* Locking: the user's document first, then the user's sessions.           *)

LockUser(k, u) ==
  /\ lock[k].pc # "sessions" /\ user[u].exists
  /\ user' = [user EXCEPT ![u].locked = TRUE]
  /\ lock' = [lock EXCEPT ![k] =
       [pc |-> "sessions", user |-> u,
        had |-> {s \in Sessions : session[s].user = u
                                  /\ session[s].state \in Stored}]]
  /\ UNCHANGED <<session, account, login, request, revoked>>

(* Seeded fault: one session is deleted, DeleteOne for DeleteMany.         *)
DeleteSessions_One(k) ==
  /\ lock[k].pc = "sessions"
  /\ \/ \E s \in Sessions :
          /\ session[s].state \in Stored /\ session[s].user = lock[k].user
          /\ session' = [session EXCEPT ![s] = Deleted]
     \/ /\ \A s \in Sessions : session[s].state \in Stored =>
                                 session[s].user # lock[k].user
        /\ UNCHANGED session
  /\ lock' = [lock EXCEPT ![k].pc = "returned", ![k].user = None]
  /\ UNCHANGED <<user, account, login, request, revoked>>

DeleteSessions(k) ==
  /\ lock[k].pc = "sessions"
  /\ session' = [s \in Sessions |->
       IF session[s].state \in Stored /\ session[s].user = lock[k].user
       THEN Deleted ELSE session[s]]
  /\ lock' = [lock EXCEPT ![k].pc = "returned", ![k].user = None]
  /\ UNCHANGED <<user, account, login, request, revoked>>

LockFails(k) ==
  /\ lock[k].pc = "sessions"
  /\ lock' = [lock EXCEPT ![k] = NoLock]
  /\ UNCHANGED <<user, session, account, login, request, revoked>>

UnlockUser(u) ==
  /\ user[u].exists
  /\ user' = [user EXCEPT ![u].locked = FALSE]
  /\ Reopen(u)
  /\ UNCHANGED <<session, account, login, lock, revoked>>

-----------------------------------------------------------------------------
(* Service accounts: one store call each.  Unlock gives out a new token.   *)

CreateAccount(a) ==
  /\ account[a].tokens = 0 /\ MaxTokens > 0
  /\ account' = [account EXCEPT ![a].tokens = 1]
  /\ UNCHANGED <<user, session, login, lock, request, revoked>>

LockAccount(a) ==
  /\ account[a].tokens > 0
  /\ account' = [account EXCEPT ![a].locked = TRUE]
  /\ UNCHANGED <<user, session, login, lock, request, revoked>>

UnlockAccount(a) ==
  LET n == account[a].tokens + 1 IN
  /\ n \in 2..MaxTokens
  /\ account' = [account EXCEPT ![a] = [tokens |-> n, locked |-> FALSE]]
  /\ UNCHANGED <<user, session, login, lock, request, revoked>>

-----------------------------------------------------------------------------
(* System roles of users.  Users are never deleted, so that the check that *)
(* one exists and the update that follows it are one step.                 *)

Grant(u, role) ==
  /\ user[u].exists /\ role \notin user[u].roles
  /\ user' = [user EXCEPT ![u].roles = @ \cup {role}]
  /\ UNCHANGED <<session, account, login, lock, request, revoked>>

Revoke(u, role) ==
  /\ user[u].exists /\ role \in user[u].roles
  /\ user' = [user EXCEPT ![u].roles = @ \ {role}]
  /\ revoked' = (revoked \/ role = Admin)
  /\ UNCHANGED <<session, account, login, lock, request>>

-----------------------------------------------------------------------------
(* The filter finds the token's service account or its session, each in    *)
(* one read.                                                               *)
FindServiceAccount(r, t) ==
  /\ request[r].pc = "idle" /\ LiveToken(t)
  /\ request' = [request EXCEPT ![r] = [NoRequest EXCEPT !.pc = "served",
                                                        !.token = t]]
  /\ UNCHANGED <<user, session, account, login, lock, revoked>>

FindSession(r, s) ==
  LET u == session[s].user IN
  /\ request[r].pc = "idle" /\ LiveSession(s)
  /\ request' = [request EXCEPT ![r] =
       IF u = Root THEN [NoRequest EXCEPT !.pc = "served", !.token = s]
       ELSE [pc |-> "user", token |-> s, user |-> u, shut |-> user[u].locked]]
  /\ UNCHANGED <<user, session, account, login, lock, revoked>>

(* Seeded fault: Lock deletes the sessions, so the lock is not looked at.  *)
FindUser_TrustsSession(r) ==
  /\ request[r].pc = "user"
  /\ request' = IF user[request[r].user].exists
                THEN [request EXCEPT ![r].pc = "served", ![r].user = None]
                ELSE [request EXCEPT ![r] = NoRequest]
  /\ UNCHANGED <<user, session, account, login, lock, revoked>>

FindUser(r) ==
  LET u == request[r].user IN
  /\ request[r].pc = "user"
  /\ request' = IF user[u].exists /\ ~user[u].locked
                THEN [request EXCEPT ![r].pc = "served", ![r].user = None]
                ELSE [request EXCEPT ![r] = NoRequest]
  /\ UNCHANGED <<user, session, account, login, lock, revoked>>

(* The handler is done; that of DELETE /v2/session deletes the session.    *)
Respond(r) ==
  /\ request[r].pc = "served"
  /\ request' = [request EXCEPT ![r] = NoRequest]
  /\ UNCHANGED <<user, session, account, login, lock, revoked>>

Logout(r) ==
  LET s == request[r].token IN
  /\ request[r].pc = "served" /\ s \in Sessions
  /\ request' = [request EXCEPT ![r] = NoRequest]
  /\ session' = [session EXCEPT ![s] = Deleted]
  /\ UNCHANGED <<user, account, login, lock, revoked>>

(* The server restarts.                                                    *)
Restart ==
  /\ login' = [l \in Logins |-> NoCall]
  /\ lock' = [k \in Locks |-> NoLock]
  /\ request' = [r \in Requests |-> NoRequest]
  /\ UNCHANGED <<user, session, account, revoked>>

-----------------------------------------------------------------------------
Next ==
  \/ \E s \in Sessions : CreateRootSession(s) \/ CreateUserSession(s) \/ Expire(s)
  \/ \E l \in Logins : \/ \E s \in Sessions, u \in Users : Authenticate(l, s, u)
                       \/ GetUser(l) \/ CountUsers(l) \/ CreateUser(l)
                       \/ AuthenticateSession(l) \/ LoginFails(l)
  \/ \E k \in Locks : \/ \E u \in Users : LockUser(k, u)
                      \/ DeleteSessions(k) \/ LockFails(k)
  \/ \E u \in Users : \/ UnlockUser(u)
                      \/ \E role \in Roles : Grant(u, role) \/ Revoke(u, role)
  \/ \E a \in Accounts : CreateAccount(a) \/ LockAccount(a) \/ UnlockAccount(a)
  \/ \E r \in Requests : \/ \E t \in AccountTokens : FindServiceAccount(r, t)
                         \/ \E s \in Sessions : FindSession(r, s)
                         \/ FindUser(r)
                         \/ Respond(r) \/ Logout(r)
  \/ Restart

Spec == Init /\ [][Next]_vars

-----------------------------------------------------------------------------
(* Types.                                                                  *)
UserRecords == [exists : BOOLEAN, locked : BOOLEAN, roles : SUBSET Roles]
SessionRecords ==
  [state : {"new", "anonymous", "deleted"}, user : {None}]
    \cup [state : {"authenticated", "expired"}, user : Users \cup {Root}]
AccountRecords == [tokens : 0..MaxTokens, locked : BOOLEAN]
LoginRecords ==
  [pc : {"idle", "get", "count", "create", "authenticate"},
   session : Sessions \cup {None}, user : Users \cup {None}, first : BOOLEAN]
LockRecords ==
  [pc : {"idle", "sessions", "returned"}, user : Users \cup {None},
   had : SUBSET Sessions]
RequestRecords ==
  [pc : {"idle", "user", "served"},
   token : Sessions \cup AccountTokens \cup {None},
   user : Users \cup {Root, None}, shut : BOOLEAN]

TypeOK ==
  /\ user \in [Users -> UserRecords]
  /\ session \in [Sessions -> SessionRecords]
  /\ account \in [Accounts -> AccountRecords]
  /\ login \in [Logins -> LoginRecords]
  /\ lock \in [Locks -> LockRecords]
  /\ request \in [Requests -> RequestRecords]
  /\ revoked \in BOOLEAN

(* A locked user does not get in: no request is served for a user who was  *)
(* locked before its session was found and was not unlocked since, although*)
(* a sign-in that is under way will authenticate a session afterwards.     *)
LockedOut == \A r \in Requests : request[r].pc = "served" => ~request[r].shut

(* When Lock has returned without an error, the sessions that the user had *)
(* when the lock took effect are gone for good, whatever is unlocked later.*)
LockEndsSessions ==
  \A k \in Locks : lock[k].pc = "returned" =>
    \A s \in lock[k].had : session[s] = Deleted

(* "There should never be an authenticated session for a user that doesn't *)
(* exist" (the filter, which answers with an internal error).              *)
AuthenticatedUsersExist ==
  \A s \in Sessions :
    session[s].user \in Users => user[session[s].user].exists

(* However many users sign in first at once, there is an administrator as  *)
(* soon as there is a user, until one loses the role.                      *)
AdministratorExists ==
  (\E u \in Users : user[u].exists) =>
    revoked \/ \E u \in Users : Admin \in user[u].roles
=============================================================================
