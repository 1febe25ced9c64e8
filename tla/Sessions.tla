------------------------------- MODULE Sessions -------------------------------
(***************************************************************************)
(* Users and their sessions (AuthService, get_current_user, the endpoints  *)
(* under /users).                                                          *)
(*                                                                         *)
(* A session lives in two stores.  PostgreSQL keeps the users and their    *)
(* refresh tokens; a handler changes them when it commits.  Redis keeps a  *)
(* key for every access token in use and the tokens that were logged out;  *)
(* a handler changes it at once, before it commits, and a handler that     *)
(* dies in between has changed Redis alone.                                *)
(*                                                                         *)
(* No handler locks what it reads.  A bulk revocation writes the refresh   *)
(* tokens that exist when its UPDATE runs, not those committed before its  *)
(* own commit.                                                             *)
(*                                                                         *)
(* An access token carries its user and an expiry in whole seconds, and    *)
(* nothing else that varies: two of one user in one second are one token.  *)
(* The tokens of a user are at least a second apart here.  A logged-out    *)
(* token is remembered for longer than it is valid, so it is remembered    *)
(* for ever here, and no access token expires.  Left out: failed logins,   *)
(* names, audit rows, and the mark by which a client learns that another   *)
(* login closed its session.                                               *)
(***************************************************************************)
EXTENDS Integers, FiniteSets

CONSTANTS
  Users, Roles, Requests, RefreshTokens, AccessTokens,
  Seed,            \* the administrator who exists at the start
  Followed,        \* users that are followed; the others stay as they are, with a session at any time
  MaxPasswords,    \* bound on the passwords of a user, one after the other
  MaxUpdates,      \* bound on the accounts created and updated
  SameUser,        \* may handlers that disturb each other work on one account?
  Nil

ASSUME SessionsAssumption ==
  /\ "admin" \in Roles /\ Roles \subseteq {"admin", "supervisor", "operator"}
  /\ Seed \in Users /\ Followed \subseteq Users /\ MaxPasswords \in Nat /\ MaxUpdates \in Nat
  /\ SameUser \in BOOLEAN
  /\ Nil \notin Users \cup RefreshTokens \cup AccessTokens

VARIABLES
  account,         \* users
  refresh,         \* refresh_tokens
  session,         \* Redis session:{user}:{token}
  blacklist,       \* Redis blacklist:{token}
  access,          \* the user each access token was made for
  held,            \* access tokens a client has received
  pc, task,        \* what each request is doing
  updates,         \* accounts created and updated so far
  closed           \* accounts closed on all devices since their last login (for the properties)

database == <<account, refresh>>
redis == <<session, blacklist>>
vars == <<database, redis, access, held, pc, task, updates, closed>>

Account == [role : Roles, active : BOOLEAN, password : 0..MaxPasswords]

RefreshToken == [user : Users, revoked : BOOLEAN, expired : BOOLEAN]

Task == [operation : {"open", "close", "refresh", "logout", "change", "reset", "create", "update"},
         user : Users, access : AccessTokens \cup {Nil}, token : RefreshTokens \cup {Nil},
         rows : SUBSET RefreshTokens, row : Account, byAdmin : BOOLEAN]

\* Nil stands for a row or a task that is not there.
ASSUME NilAssumption == Nil \notin Account /\ Nil \notin RefreshToken /\ Nil \notin Task

TypeOK ==
  /\ account \in [Users -> Account \cup {Nil}]
  /\ refresh \in [RefreshTokens -> RefreshToken \cup {Nil}]
  /\ session \subseteq AccessTokens
  /\ blacklist \subseteq AccessTokens
  /\ access \in [AccessTokens -> Users \cup {Nil}]
  /\ held \subseteq AccessTokens
  /\ pc \in [Requests -> {"idle", "redis", "commit"}]
  /\ task \in [Requests -> Task \cup {Nil}]
  /\ updates \in 0..MaxUpdates
  /\ closed \subseteq Users

NewAccountUnset(role) == [role |-> Nil, active |-> TRUE, password |-> 0]   \* variant

NewAccount(role) == [role |-> role, active |-> TRUE, password |-> 0]

Init ==
  /\ account = [u \in Users |-> IF u = Seed THEN NewAccount("admin") ELSE Nil]
  /\ refresh = [t \in RefreshTokens |-> Nil]
  /\ session = {} /\ blacklist = {}
  /\ access = [a \in AccessTokens |-> Nil]
  /\ held = {}
  /\ pc = [r \in Requests |-> "idle"]
  /\ task = [r \in Requests |-> Nil]
  /\ updates = 0 /\ closed = {}

-----------------------------------------------------------------------------
(* What a handler reads.                                                   *)

Exists(u) == account[u] # Nil

Live(u) == {t \in RefreshTokens : /\ refresh[t] # Nil
                                  /\ refresh[t].user = u /\ ~refresh[t].revoked}

AccessOf(u) == {a \in AccessTokens : access[a] = u}

\* get_current_user: not logged out, a session key in Redis, an active user.
Usable(a) ==
  /\ a \notin blacklist /\ a \in session
  /\ Exists(access[a]) /\ account[access[a]].active

Presented(a) == a \in held /\ Usable(a)

\* require_role(admin, supervisor), _assert_can_manage
CanManage(m, role) ==
  /\ account[m].role \in {"admin", "supervisor"}
  /\ account[m].role = "admin" \/ role # "admin"

Manager(m, role) ==
  /\ account[m].active
  /\ m \in Followed => \E a \in AccessOf(m) : Presented(a)
  /\ CanManage(m, role)

\* Two handlers of one account disturb each other when one opens a session and
\* the other opens or ends one, or when both manage the account.
Opens == {"open", "refresh"}
Ends == {"close", "logout", "change", "reset"}
Manages == {"reset", "create", "update"}

Disturbs(o, p) ==
  \/ o \in Opens /\ p \in Opens \cup Ends
  \/ p \in Opens /\ o \in Ends
  \/ o \in Manages /\ p \in Manages

Start(r, t, next) ==
  /\ pc[r] = "idle"
  /\ SameUser \/ \A q \in Requests :
       pc[q] # "idle" => task[q].user # t.user \/ ~Disturbs(task[q].operation, t.operation)
  /\ pc' = [pc EXCEPT ![r] = next]
  /\ task' = [task EXCEPT ![r] = t]
  /\ UNCHANGED <<database, redis, held, updates, closed>>

Doing(operation, u) ==
  [operation |-> operation, user |-> u, access |-> Nil, token |-> Nil,
   rows |-> {}, row |-> account[u], byAdmin |-> FALSE]

Opening(r, t) ==
  \E a \in AccessTokens :
    /\ access[a] = Nil
    /\ access' = [access EXCEPT ![a] = t.user]
    /\ Start(r, [t EXCEPT !.access = a], "redis")

-----------------------------------------------------------------------------
(* The handlers.  The first step reads, the second writes Redis, the third *)
(* commits.                                                                *)

\* With an unrevoked refresh token, expired or not, a login closes the
\* sessions of the account and fails; the next one opens one.
Login(r, u) ==
  /\ u \in Followed /\ Exists(u) /\ account[u].active
  /\ IF Live(u) # {}
     THEN Start(r, Doing("close", u), "redis") /\ UNCHANGED access
     ELSE Opening(r, Doing("open", u))

\* TOKEN_REVOKED, TOKEN_EXPIRED, ACCOUNT_INACTIVE
Refreshable(t) ==
  /\ refresh[t] # Nil /\ ~refresh[t].revoked
  /\ ~refresh[t].expired
  /\ account[refresh[t].user].active

Refresh(r, t) ==
  /\ Refreshable(t)
  /\ Opening(r, [Doing("refresh", refresh[t].user) EXCEPT !.token = t])

Logout(r, a) ==
  /\ Presented(a)
  /\ Start(r, [Doing("logout", access[a]) EXCEPT !.access = a], "redis")
  /\ UNCHANGED access

\* Who must change the password is not asked for it; the others know it.
ChangePassword(r, a) ==
  LET u == access[a] IN
  /\ Presented(a)
  /\ account[u].password < MaxPasswords
  /\ Start(r, [Doing("change", u) EXCEPT !.access = a], "redis")
  /\ UNCHANGED access

\* reset_user_password revokes before it clears Redis.
ResetPassword(r, m, u) ==
  /\ Exists(u) /\ Manager(m, account[u].role)
  /\ account[u].password < MaxPasswords
  /\ Start(r, [Doing("reset", u) EXCEPT !.rows = Live(u), !.byAdmin = account[m].role = "admin"],
           "redis")
  /\ UNCHANGED access

\* USERNAME_TAKEN
CreateUser(r, m, u) ==
  \E role \in Roles :
    /\ ~Exists(u) /\ Manager(m, role)
    /\ Start(r, [Doing("create", u) EXCEPT !.row = NewAccount(role),
                                           !.byAdmin = account[m].role = "admin"], "commit")
    /\ UNCHANGED access

MayBecomeAny(m, old, new) ==   \* variant: only the role the user has is looked at
  Manager(m, old)

MayBecome(m, old, new) == Manager(m, old) /\ Manager(m, new)

\* update_user: the fields the body names.
UpdateUser(r, m, u) ==
  \E role \in Roles, active \in BOOLEAN :
    /\ Exists(u) /\ MayBecome(m, account[u].role, role)
    /\ Start(r, [Doing("update", u) EXCEPT !.row.role = role, !.row.active = active,
                                           !.byAdmin = account[m].role = "admin"], "commit")
    /\ UNCHANGED access

\* CANNOT_DEACTIVATE_SELF
DeactivateUser(r, m, u) ==
  /\ Exists(u) /\ Manager(m, account[u].role) /\ m # u
  /\ Start(r, [Doing("update", u) EXCEPT !.row.active = FALSE,
                                         !.byAdmin = account[m].role = "admin"], "commit")
  /\ UNCHANGED access

-----------------------------------------------------------------------------
(* Redis: immediate, and never rolled back.                                *)

ToCommit(r, rows) ==
  /\ pc[r] = "redis"
  /\ pc' = [pc EXCEPT ![r] = "commit"]
  /\ task' = [task EXCEPT ![r].rows = rows]
  /\ UNCHANGED <<database, access, held, updates, closed>>

SetSession(r) ==
  /\ task[r] # Nil /\ task[r].operation \in {"open", "refresh"}
  /\ session' = session \cup {task[r].access}
  /\ ToCommit(r, {})
  /\ UNCHANGED blacklist

CutLatest(r, keys) ==   \* variant: only the session of the token in hand
  keys \cap {task[r].access}

Cut(r, keys) == keys

\* _revoke_active_sessions
CloseSessions(r) ==
  /\ task[r] # Nil /\ task[r].operation = "close"
  /\ LET keys == Cut(r, session \cap AccessOf(task[r].user))
     IN  session' = session \ keys
  /\ ToCommit(r, Live(task[r].user))
  /\ UNCHANGED blacklist

BlacklistToken(r) ==
  /\ task[r] # Nil /\ task[r].operation \in {"logout", "change"}
  /\ blacklist' = blacklist \cup {task[r].access}
  /\ ToCommit(r, Live(task[r].user))
  /\ UNCHANGED session

DeleteSessions(r) ==
  /\ task[r] # Nil /\ task[r].operation = "reset"
  /\ session' = session \ Cut(r, session \cap AccessOf(task[r].user))
  /\ ToCommit(r, task[r].rows)
  /\ UNCHANGED blacklist

RedisStep(r) == SetSession(r) \/ CloseSessions(r) \/ BlacklistToken(r) \/ DeleteSessions(r)

-----------------------------------------------------------------------------
(* The commit.                                                             *)

End(r) ==
  /\ pc' = [pc EXCEPT ![r] = "idle"]
  /\ task' = [task EXCEPT ![r] = Nil]
  /\ UNCHANGED <<redis, access>>

Committing(r, operations) ==
  pc[r] = "commit" /\ task[r] # Nil /\ task[r].operation \in operations

\* revoke_all_refresh_tokens
Revoked(rows) ==
  [t \in RefreshTokens |-> IF t \in rows THEN [refresh[t] EXCEPT !.revoked = TRUE] ELSE refresh[t]]

Row(u) == [user |-> u, revoked |-> FALSE, expired |-> FALSE]

\* The session opens when the client gets its tokens.
CommitLogin(r) ==
  LET k == task[r] IN
  /\ Committing(r, {"open"})
  /\ \E t \in RefreshTokens :
       refresh[t] = Nil /\ refresh' = [refresh EXCEPT ![t] = Row(k.user)]
  /\ held' = held \cup {k.access}
  /\ closed' = closed \ {k.user}
  /\ End(r) /\ UNCHANGED <<account, updates>>

UsedButKept(row) == row   \* variant: the token is not rotated

Used(row) == [row EXCEPT !.revoked = TRUE]

CommitRefresh(r) ==
  LET k == task[r] IN
  /\ Committing(r, {"refresh"})
  /\ \E t \in RefreshTokens :
       /\ refresh[t] = Nil
       /\ refresh' = [refresh EXCEPT ![k.token] = Used(@),
                                     ![t] = Row(k.user)]
  /\ held' = held \cup {k.access}
  /\ End(r) /\ UNCHANGED <<account, updates, closed>>

\* SESSION_ALREADY_ACTIVE, and the end of a logout.
CommitRevocation(r) ==
  /\ Committing(r, {"close", "logout"})
  /\ refresh' = Revoked(task[r].rows)
  /\ closed' = IF task[r].operation = "close" THEN closed \cup {task[r].user} ELSE closed
  /\ End(r) /\ UNCHANGED <<account, updates, held>>

CommitPassword(r) ==
  LET k == task[r] IN
  /\ Committing(r, {"change", "reset"})
  /\ account' = [account EXCEPT ![k.user].password = k.row.password + 1]
  /\ refresh' = Revoked(k.rows)
  /\ closed' = IF k.operation = "reset" THEN closed \cup {k.user} ELSE closed
  /\ End(r) /\ UNCHANGED <<updates, held>>

\* The unique key of username is the last word on a new user.
CommitAccount(r) ==
  LET k == task[r] IN
  /\ Committing(r, {"create", "update"})
  /\ k.operation = "create" => ~Exists(k.user)
  /\ updates < MaxUpdates /\ updates' = updates + 1
  /\ account' = [account EXCEPT ![k.user] =
                   IF k.operation = "create" THEN k.row
                   ELSE [@ EXCEPT !.role = k.row.role, !.active = k.row.active]]
  /\ End(r) /\ UNCHANGED <<refresh, held, closed>>

Commit(r) ==
  \/ CommitLogin(r) \/ CommitRefresh(r) \/ CommitRevocation(r)
  \/ CommitPassword(r) \/ CommitAccount(r)

\* The transaction or the process is lost; what Redis was told stays.  The key
\* of a token that no client received is never asked for: the token counts as
\* not made.
Lose(r) ==
  LET k == task[r] IN
  /\ pc[r] # "idle"
  /\ pc' = [pc EXCEPT ![r] = "idle"]
  /\ task' = [task EXCEPT ![r] = Nil]
  /\ IF k.operation \in Opens
     THEN access' = [access EXCEPT ![k.access] = Nil] /\ session' = session \ {k.access}
     ELSE UNCHANGED <<access, session>>
  /\ UNCHANGED <<database, blacklist, held, updates, closed>>

\* The inactivity timeout.  Nobody asks for the key of a token that was logged
\* out or that no client received.
SessionExpires(a) ==
  /\ a \in held \cap session /\ a \notin blacklist
  /\ session' = session \ {a}
  /\ UNCHANGED <<database, blacklist, access, held, pc, task, updates, closed>>

\* Nobody asks whether a revoked token has expired.
RefreshExpires(t) ==
  /\ refresh[t] # Nil /\ ~refresh[t].revoked /\ ~refresh[t].expired
  /\ refresh' = [refresh EXCEPT ![t].expired = TRUE]
  /\ UNCHANGED <<account, redis, access, held, pc, task, updates, closed>>

\* The endpoints under /auth.
AuthRequests(r) ==
  \/ \E u \in Users : Login(r, u)
  \/ \E t \in RefreshTokens : Refresh(r, t)
  \/ \E a \in AccessTokens : Logout(r, a) \/ ChangePassword(r, a)

\* The endpoints under /users.
UserRequests(r) ==
  \E m \in Users, u \in Followed :
    /\ Exists(m)
    /\ (\/ ResetPassword(r, m, u) \/ CreateUser(r, m, u)
        \/ UpdateUser(r, m, u) \/ DeactivateUser(r, m, u))

Next ==
  \/ \E r \in Requests : AuthRequests(r) \/ UserRequests(r) \/ RedisStep(r) \/ Commit(r) \/ Lose(r)
  \/ \E a \in AccessTokens : SessionExpires(a)
  \/ \E t \in RefreshTokens : RefreshExpires(t)

Spec == Init /\ [][Next]_vars

-----------------------------------------------------------------------------
(* Properties.                                                             *)

\* An account has at most one refresh token that is not revoked: login closes
\* those it finds and refresh replaces the one it is given, whatever is lost
\* between Redis and the commit.  Access tokens made before it keep working.
SingleSession == \A u \in Users : Cardinality(Live(u)) <= 1

\* Once an account is closed on all devices, by a second login or a reset, no
\* token a client holds works until somebody logs in again; the refresh tokens
\* in PostgreSQL cannot bring a session key in Redis back.
ClosedOnAllDevices ==
  \A a \in held : access[a] \in closed => ~Usable(a)

\* An administrator's role, state and password change by the owner's or an
\* administrator's hand, and only an administrator makes another.
AdminsAnswerToAdmins ==
  [][\A u \in Users :
       (account'[u] # account[u] /\ "admin" \in (IF account[u] = Nil THEN {} ELSE {account[u].role}) \cup {account'[u].role}) =>
         \E r \in Requests :
           /\ task[r] # Nil /\ task'[r] = Nil /\ task[r].user = u
           /\ task[r].operation = "change" \/ task[r].byAdmin]_vars
=============================================================================
