---------------------------- MODULE SessionsProofs ----------------------------
(***************************************************************************)
(* The sessions of an account, for any users, tokens and requests, as long *)
(* as no two requests that disturb each other work on one account: at most *)
(* one refresh token that is not revoked, and nothing that works on an     *)
(* account closed on all devices.  What is left to chance is what is lost  *)
(* between Redis and PostgreSQL, what expires, and the other accounts.     *)
(*                                                                         *)
(* A request decides on what it read and commits later; Fit says what must *)
(* still hold then, and Calm what the steps of others must leave alone.    *)
(***************************************************************************)
EXTENDS Sessions, FiniteSetTheorems, TLAPS

USE SessionsAssumption, NilAssumption DEF SessionsAssumption, NilAssumption

\* What holds of a request's task k at its step p until it commits.
Fit(k, p) ==
  /\ p # "idle"
  /\ k.operation \in Opens => k.access \in AccessTokens \ held /\ access[k.access] = k.user
  /\ k.operation = "open" => Exists(k.user) /\ Live(k.user) = {}
  /\ k.operation = "refresh" => k.token \in Live(k.user)
  /\ k.operation \in {"logout", "change"} => k.access \in AccessTokens
  /\ \A t \in k.rows : refresh[t] # Nil /\ refresh[t].user = k.user
  /\ (k.operation \in Ends /\ (p = "commit" \/ k.operation = "reset")) => Live(k.user) \subseteq k.rows
  /\ k.operation \in {"change", "reset"} => k.row.password < MaxPasswords
  /\ k.operation \in {"close", "reset"} /\ p = "commit" =>
       \A a \in held : access[a] = k.user => a \notin session
  /\ k.operation \in {"change", "reset", "update"} => Exists(k.user)

\* An account has one refresh token that is not revoked, a closed one none.
OneLive ==
  \A u \in Users : \A s, t \in Live(u) : s = t

ClosedHasNone ==
  \A u \in closed : Live(u) = {} /\ \A a \in held : access[a] = u => a \notin session

\* Tokens belong to users.
Owned ==
  /\ \A t \in RefreshTokens : refresh[t] # Nil => Exists(refresh[t].user)
  /\ \A a \in held : access[a] # Nil

Undisturbed ==
  \A q, r \in Requests : (q # r /\ task[q] # Nil /\ task[r] # Nil) =>
    task[q].user # task[r].user \/ ~Disturbs(task[q].operation, task[r].operation)

SInv ==
  /\ TypeOK /\ OneLive /\ ClosedHasNone /\ Owned /\ Undisturbed
  /\ \A r \in Requests : task[r] = Nil => pc[r] = "idle"
  /\ \A r \in Requests : task[r] # Nil => Fit(task[r], pc[r])

-----------------------------------------------------------------------------

\* One administrator and no session.
LEMMA InitSInv == Init => SInv
<1> SUFFICES ASSUME Init PROVE SInv
  OBVIOUS
<1> USE DEF Init
<1>1. TypeOK
  BY DEF TypeOK, NewAccount, Account
<1>2. OneLive /\ ClosedHasNone /\ Owned /\ Undisturbed
  BY DEF OneLive, ClosedHasNone, Owned, Undisturbed, Live
<1> QED
  BY <1>1, <1>2 DEF SInv

\* What a step of another request leaves alone, so that k still fits.
Calm(k) ==
  /\ \A u \in Users : Exists(u) => Exists(u)'
  /\ \A t \in RefreshTokens : refresh[t] # Nil => refresh'[t] # Nil /\ refresh'[t].user = refresh[t].user
  /\ k.operation \in Opens => access'[k.access] = access[k.access] /\ k.access \notin held'
  /\ k.operation \in Ends \cup {"open"} => Live(k.user)' \subseteq Live(k.user)
  /\ k.operation = "refresh" => k.token \in Live(k.user)'
  /\ k.operation \in Ends => \A a \in held' : access'[a] = k.user =>
       a \in held /\ access[a] = k.user /\ (a \in session' => a \in session)

\* A task that fitted still fits after a calm step.
LEMMA FitStays ==
  ASSUME NEW k \in Task, NEW p, Fit(k, p), Calm(k)
  PROVE  Fit(k, p)'
<1>1. k.user \in Users /\ k.rows \subseteq RefreshTokens
  BY DEF Task
<1> QED
  BY <1>1 DEF Fit, Calm, Opens, Ends, Manages

\* The requests other than r are left alone.
Others(r) ==
  \A q \in Requests \ {r}, k \in Task : task[q] = k =>
    task'[q] = k /\ pc'[q] = pc[q] /\ Calm(k)

Idle(r) == \A q \in Requests \ {r} : task[q] = Nil => task'[q] = Nil /\ pc'[q] = pc[q]

\* What every step of request r has to show for the invariant to hold after it.
LEMMA StepKeeps ==
  ASSUME SInv, TypeOK', OneLive', ClosedHasNone', Owned',
         NEW r \in Requests, Others(r), Idle(r),
         \/ task'[r] = Nil /\ pc'[r] = "idle"
         \/ task'[r] # Nil /\ Fit(task[r], pc[r])' /\ Undisturbed'
  PROVE  SInv'
<1> USE DEF SInv
<1>0. \A q \in Requests : task[q] # Nil => task[q] \in Task
  BY DEF TypeOK
<1>1. ASSUME NEW q \in Requests \ {r}, task'[q] # Nil
      PROVE  task[q] # Nil /\ task'[q] = task[q] /\ Fit(task[q], pc[q])'
  <2>1. task[q] # Nil
    BY <1>1 DEF Idle
  <2>2. PICK k \in Task : k = task[q]
    BY <2>1, <1>0
  <2>3. task'[q] = k /\ pc'[q] = pc[q] /\ Calm(k)
    BY <2>2 DEF Others
  <2>4. PICK p : p = pc[q]
    OBVIOUS
  <2>5. Fit(k, p)
    BY <2>1, <2>2, <2>4
  <2>6. Fit(k, p)'
    BY <2>3, <2>5, FitStays
  <2> QED
    BY <2>1, <2>2, <2>3, <2>4, <2>6
<1>2. \A q \in Requests : task'[q] # Nil => Fit(task[q], pc[q])'
  BY <1>1
<1>3. \A q \in Requests : task'[q] = Nil => pc'[q] = "idle"
  BY <1>0 DEF Idle, Others
<1>4. Undisturbed'
  <2>1. CASE task'[r] = Nil
    BY <1>1, <2>1 DEF Undisturbed
  <2> QED
    BY <2>1
<1> QED
  BY <1>2, <1>3, <1>4

-----------------------------------------------------------------------------
(* A request starts: only its task and the user of a new access token      *)
(* change.                                                                 *)

\* No token changes hands.
Kept ==
  /\ access' \in [AccessTokens -> Users \cup {Nil}]
  /\ \A a \in AccessTokens : access[a] # Nil => access'[a] = access[a]
  /\ \A a \in held : access'[a] = access[a]

\* A request starts with a task that fits.
LEMMA StartKeeps ==
  ASSUME SInv, NEW r \in Requests, NEW t \in Task, NEW p \in {"redis", "commit"},
         Start(r, t, p), Kept, Fit(t, p)', ~SameUser
  PROVE  SInv'
<1> USE DEF SInv
<1>1. /\ pc[r] = "idle" /\ pc' = [pc EXCEPT ![r] = p] /\ task' = [task EXCEPT ![r] = t]
      /\ UNCHANGED <<account, refresh, session, blacklist, held, updates, closed>>
  BY DEF Start, database, redis
<1>2. task' \in [Requests -> Task \cup {Nil}] /\ pc' \in [Requests -> {"idle", "redis", "commit"}]
  BY <1>1 DEF TypeOK
<1>3. TypeOK'
  BY <1>1, <1>2 DEF TypeOK, Kept
<1>4. \A u : Live(u)' = Live(u)
  BY <1>1 DEF Live
<1>5. held \subseteq AccessTokens
  BY DEF TypeOK
<1>6. OneLive' /\ ClosedHasNone' /\ Owned'
  BY <1>1, <1>4, <1>5 DEF OneLive, ClosedHasNone, Owned, Exists, Kept
<1>7. Idle(r)
  BY <1>1 DEF Idle, TypeOK
<1>8. \A q \in Requests : task[q] # Nil => pc[q] # "idle"
  BY DEF Fit
<1>9. Others(r)
  <2> SUFFICES ASSUME NEW q \in Requests \ {r}, NEW k \in Task, task[q] = k
               PROVE  task'[q] = k /\ pc'[q] = pc[q] /\ Calm(k)
    BY DEF Others
  <2>1. task'[q] = k /\ pc'[q] = pc[q]
    BY <1>1 DEF TypeOK
  <2>2. Fit(k, pc[q])
    OBVIOUS
  <2>3. k.user \in Users
    BY DEF Task
  <2>4. k.operation \in Opens => access'[k.access] = access[k.access] /\ k.access \notin held'
    BY <1>1, <2>2, <2>3 DEF Fit, Kept
  <2>5. \A a \in held : access'[a] = access[a]
    BY DEF Kept
  <2>6. k.operation = "refresh" => k.token \in Live(k.user)
    BY <2>2 DEF Fit
  <2>7. Calm(k)
    BY <1>1, <1>4, <2>4, <2>5, <2>6 DEF Calm, Exists
  <2> QED
    BY <2>1, <2>7
<1>10. Undisturbed'
  <2>1. \A q \in Requests \ {r} : task[q] # Nil =>
          task[q].user # t.user \/ ~Disturbs(task[q].operation, t.operation)
    BY <1>8 DEF Start
  <2>2. \A o, n : Disturbs(o, n) <=> Disturbs(n, o)
    BY DEF Disturbs
  <2>3. \A q \in Requests : task'[q] = IF q = r THEN t ELSE task[q]
    BY <1>1 DEF TypeOK
  <2> QED
    BY <2>1, <2>2, <2>3 DEF Undisturbed
<1>11. task'[r] = t /\ pc'[r] = p
  BY <1>1 DEF TypeOK
<1> QED
  BY <1>3, <1>6, <1>7, <1>9, <1>10, <1>11, StepKeeps

Operations == {"open", "close", "refresh", "logout", "change", "reset", "create", "update"}

\* The task of a handler that works on an account that exists.
LEMMA DoingIs ==
  ASSUME TypeOK, NEW u \in Users, Exists(u), NEW o \in Operations, NEW k, k = Doing(o, u)
  PROVE  /\ k \in Task /\ k.operation = o /\ k.user = u /\ k.rows = {}
         /\ k.row = account[u] /\ k.row \in Account
<1>1. account[u] \in Account
  BY DEF TypeOK, Exists
<1>2. PICK w : w = account[u]
  OBVIOUS
<1>3. k = [operation |-> o, user |-> u, access |-> Nil, token |-> Nil, rows |-> {}, row |-> w,
           byAdmin |-> FALSE]
  BY <1>2 DEF Doing
<1> QED
  BY <1>1, <1>2, <1>3 DEF Task, Operations

\* A session is opened: a token nobody has is taken for it.
LEMMA OpeningKeeps ==
  ASSUME SInv, ~SameUser, NEW r \in Requests, NEW t \in Task, Opening(r, t), t.rows = {},
         \/ /\ t.operation = "open" /\ Exists(t.user) /\ Live(t.user) = {}
            /\ t.row.password = account[t.user].password
         \/ t.operation = "refresh" /\ t.token \in Live(t.user)
  PROVE  SInv'
<1>1. PICK a \in AccessTokens :
        access[a] = Nil /\ access' = [access EXCEPT ![a] = t.user]
        /\ Start(r, [t EXCEPT !.access = a], "redis")
  BY DEF Opening
<1>2. PICK k : k = [t EXCEPT !.access = a]
  OBVIOUS
<1>3. k \in Task /\ k.access = a /\ k.operation = t.operation /\ k.user = t.user
      /\ k.rows = {} /\ k.row = t.row /\ k.token = t.token
  BY <1>2 DEF Task
<1>4. t.user \in Users
  BY DEF Task
<1>5. Kept
  BY <1>1, <1>4 DEF Kept, SInv, TypeOK, Owned
<1>6. UNCHANGED <<account, refresh, held>>
  BY <1>1 DEF Start, database
<1>7. access'[a] = t.user /\ a \notin held
  BY <1>1 DEF SInv, TypeOK, Owned
<1>8. Live(t.user)' = Live(t.user)
  BY <1>6 DEF Live
<1>9. Fit(k, "redis")'
  BY <1>3, <1>6, <1>7, <1>8 DEF Fit, Exists, Opens, Ends, Manages
<1> QED
  BY <1>1, <1>2, <1>3, <1>5, <1>9, StartKeeps

\* A handler starts that opens nothing.
LEMMA QuietKeeps ==
  ASSUME SInv, ~SameUser, NEW r \in Requests, NEW t \in Task, NEW p \in {"redis", "commit"},
         Start(r, t, p), UNCHANGED access, Fit(t, p)
  PROVE  SInv'
<1>1. Kept
  BY DEF Kept, SInv, TypeOK
<1>2. UNCHANGED <<account, refresh, held, session>>
  BY DEF Start, database, redis
<1>3. Fit(t, p)'
  BY <1>2 DEF Fit, Exists, Live
<1> QED
  BY <1>1, <1>3, StartKeeps

\* A login fits: it closes the sessions it finds, or finds none.
LEMMA LoginKeeps ==
  ASSUME SInv, ~SameUser, NEW r \in Requests, NEW u \in Users, Login(r, u)
  PROVE  SInv'
<1>1. CASE Live(u) # {}
  <2>1. PICK k : k = Doing("close", u)
    OBVIOUS
  <2>2. k \in Task /\ k.operation = "close" /\ k.user = u /\ k.rows = {}
    BY <2>1, DoingIs DEF Login, SInv, Operations
  <2>3. Fit(k, "redis")
    BY <2>2 DEF Fit, Opens, Ends, Manages
  <2> QED
    BY <1>1, <2>1, <2>2, <2>3, QuietKeeps DEF Login
<1>2. CASE Live(u) = {}
  <2>1. PICK k : k = Doing("open", u)
    OBVIOUS
  <2>2. k \in Task /\ k.operation = "open" /\ k.user = u /\ k.rows = {} /\ k.row = account[u]
    BY <2>1, DoingIs DEF Login, SInv, Operations
  <2> QED
    BY <1>2, <2>1, <2>2, OpeningKeeps DEF Login
<1> QED
  BY <1>1, <1>2

\* A refresh fits: its token is the one that is not revoked.
LEMMA RefreshKeeps ==
  ASSUME SInv, ~SameUser, NEW r \in Requests, NEW t \in RefreshTokens, Refresh(r, t)
  PROVE  SInv'
<1>1. PICK u : u = refresh[t].user
  OBVIOUS
<1>2. u \in Users /\ Exists(u) /\ t \in Live(u)
  BY <1>1 DEF Refresh, Refreshable, SInv, TypeOK, Owned, RefreshToken, Live
<1>3. PICK w : w = Doing("refresh", u)
  OBVIOUS
<1>4. w \in Task /\ w.operation = "refresh" /\ w.user = u /\ w.rows = {}
  BY <1>2, <1>3, DoingIs DEF SInv, Operations
<1>5. PICK k : k = [w EXCEPT !.token = t]
  OBVIOUS
<1>6. k \in Task /\ k.operation = "refresh" /\ k.user = u /\ k.rows = {} /\ k.token = t
  BY <1>4, <1>5 DEF Task
<1>7. Opening(r, k)
  BY <1>1, <1>3, <1>5 DEF Refresh
<1> QED
  BY <1>2, <1>6, <1>7, OpeningKeeps

\* Every token a client holds is a user's, who exists where it can be used.
LEMMA PresentedIs ==
  ASSUME SInv, NEW a \in AccessTokens, Presented(a)
  PROVE  access[a] \in Users /\ Exists(access[a]) /\ account[access[a]].active
BY DEF SInv, TypeOK, Owned, Presented, Usable

\* A logout fits.
LEMMA LogoutKeeps ==
  ASSUME SInv, ~SameUser, NEW r \in Requests, NEW a \in AccessTokens, Logout(r, a)
  PROVE  SInv'
<1>1. PICK u : u = access[a]
  OBVIOUS
<1>2. u \in Users /\ Exists(u)
  BY <1>1, PresentedIs DEF Logout
<1>3. PICK w : w = Doing("logout", u)
  OBVIOUS
<1>4. w \in Task /\ w.operation = "logout" /\ w.user = u /\ w.rows = {}
  BY <1>2, <1>3, DoingIs DEF SInv, Operations
<1>5. PICK k : k = [w EXCEPT !.access = a]
  OBVIOUS
<1>6. k \in Task /\ k.operation = "logout" /\ k.user = u /\ k.rows = {} /\ k.access = a
  BY <1>4, <1>5 DEF Task
<1>7. Fit(k, "redis")
  BY <1>6 DEF Fit, Opens, Ends, Manages
<1>8. Start(r, k, "redis") /\ UNCHANGED access
  BY <1>1, <1>3, <1>5 DEF Logout
<1> QED
  BY <1>6, <1>7, <1>8, QuietKeeps

\* A change of one's own password fits.
LEMMA ChangePasswordKeeps ==
  ASSUME SInv, ~SameUser, NEW r \in Requests, NEW a \in AccessTokens, ChangePassword(r, a)
  PROVE  SInv'
<1>1. PICK u : u = access[a]
  OBVIOUS
<1>2. u \in Users /\ Exists(u) /\ account[u].password < MaxPasswords
  BY <1>1, PresentedIs DEF ChangePassword
<1>3. PICK w : w = Doing("change", u)
  OBVIOUS
<1>4. w \in Task /\ w.operation = "change" /\ w.user = u /\ w.rows = {} /\ w.row = account[u]
  BY <1>2, <1>3, DoingIs DEF SInv, Operations
<1>5. PICK k : k = [w EXCEPT !.access = a]
  OBVIOUS
<1>6. /\ k \in Task /\ k.operation = "change" /\ k.user = u /\ k.rows = {} /\ k.access = a
      /\ k.row = account[u]
  BY <1>4, <1>5 DEF Task
<1>7. Fit(k, "redis")
  BY <1>2, <1>6 DEF Fit, Opens, Ends, Manages
<1>8. Start(r, k, "redis") /\ UNCHANGED access
  BY <1>1, <1>3, <1>5 DEF ChangePassword
<1> QED
  BY <1>6, <1>7, <1>8, QuietKeeps

\* The refresh tokens of an account are rows that are there.
LEMMA LiveRows ==
  ASSUME NEW u
  PROVE  Live(u) \subseteq RefreshTokens /\ \A t \in Live(u) : refresh[t] # Nil /\ refresh[t].user = u
BY DEF Live

\* A reset by an administrator, or of one who is not, fits.
LEMMA ResetPasswordKeeps ==
  ASSUME SInv, ~SameUser, NEW r \in Requests, NEW m \in Users, NEW u \in Users,
         Exists(m), ResetPassword(r, m, u)
  PROVE  SInv'
<1>1. Exists(u) /\ account[u].password < MaxPasswords
  BY DEF ResetPassword
<1>2. account[m].role = "admin" \/ account[u].role # "admin"
  BY DEF ResetPassword, Manager, CanManage
<1>3. PICK w : w = Doing("reset", u)
  OBVIOUS
<1>4. w \in Task /\ w.operation = "reset" /\ w.user = u /\ w.row = account[u]
  BY <1>1, <1>3, DoingIs DEF SInv, Operations
<1>5. PICK L, b : L = Live(u) /\ b = (account[m].role = "admin")
  OBVIOUS
<1>6. PICK k : k = [w EXCEPT !.rows = L, !.byAdmin = b]
  OBVIOUS
<1>7. L \subseteq RefreshTokens /\ b \in BOOLEAN
  BY <1>5, LiveRows
<1>8. /\ k \in Task /\ k.operation = "reset" /\ k.user = u /\ k.rows = L
      /\ k.row = account[u] /\ k.byAdmin = b
  BY <1>4, <1>6, <1>7 DEF Task
<1>9. Fit(k, "redis")
  <2>1. \A t \in L : refresh[t] # Nil /\ refresh[t].user = u
    BY <1>5, LiveRows
  <2> QED
    BY <1>1, <1>2, <1>5, <1>8, <2>1 DEF Fit, Opens, Ends, Manages
<1>10. Start(r, k, "redis") /\ UNCHANGED access
  BY <1>3, <1>5, <1>6 DEF ResetPassword
<1> QED
  BY <1>8, <1>9, <1>10, QuietKeeps

\* A new account fits: an administrator by an administrator only.
LEMMA CreateUserKeeps ==
  ASSUME SInv, ~SameUser, NEW r \in Requests, NEW m \in Users, NEW u \in Users,
         Exists(m), CreateUser(r, m, u)
  PROVE  SInv'
<1>1. PICK role \in Roles :
        /\ ~Exists(u) /\ Manager(m, role) /\ UNCHANGED access
        /\ Start(r, [Doing("create", u) EXCEPT !.row = NewAccount(role),
                                               !.byAdmin = account[m].role = "admin"], "commit")
  BY DEF CreateUser
<1>2. account[m].role = "admin" \/ role # "admin"
  BY <1>1 DEF Manager, CanManage
<1>3. PICK w, b, c : /\ w = account[u] /\ b = (account[m].role = "admin") /\ c = NewAccount(role)
  OBVIOUS
<1>4. c \in Account /\ c.role = role
  BY <1>3 DEF NewAccount, Account
<1>5. PICK v : v = [operation |-> "create", user |-> u, access |-> Nil, token |-> Nil, rows |-> {},
                    row |-> w, byAdmin |-> FALSE]
  OBVIOUS
<1>6. v = Doing("create", u)
  BY <1>3, <1>5 DEF Doing
<1>7. PICK k : k = [v EXCEPT !.row = c, !.byAdmin = b]
  OBVIOUS
<1>8. /\ k \in Task /\ k.operation = "create" /\ k.user = u /\ k.rows = {} /\ k.row = c
      /\ k.byAdmin = (account[m].role = "admin")
  BY <1>3, <1>4, <1>5, <1>7 DEF Task
<1>9. Fit(k, "commit")
  BY <1>1, <1>2, <1>4, <1>8 DEF Fit, Opens, Ends, Manages
<1>10. Start(r, k, "commit")
  BY <1>1, <1>3, <1>6, <1>7
<1> QED
  BY <1>1, <1>8, <1>9, <1>10, QuietKeeps

\* The row a task will write, with another state of the account.
LEMMA ActiveOf ==
  ASSUME NEW k \in Task, NEW v \in BOOLEAN, NEW x, x = [k EXCEPT !.row.active = v]
  PROVE  /\ x \in Task /\ x.operation = k.operation /\ x.user = k.user /\ x.rows = k.rows
         /\ x.row.role = k.row.role
<1>1. PICK w : w = [k.row EXCEPT !.active = v]
  OBVIOUS
<1>2. w \in Account /\ w.role = k.row.role
  BY <1>1 DEF Task, Account
<1>3. x = [k EXCEPT !.row = w]
  BY <1>1
<1> QED
  BY <1>2, <1>3 DEF Task

\* An update fits: an administrator's by an administrator, and no other makes one.
LEMMA UpdateUserKeeps ==
  ASSUME SInv, ~SameUser, NEW r \in Requests, NEW m \in Users, NEW u \in Users,
         Exists(m), UpdateUser(r, m, u)
  PROVE  SInv'
<1>1. PICK role \in Roles, active \in BOOLEAN :
        /\ Exists(u) /\ MayBecome(m, account[u].role, role) /\ UNCHANGED access
        /\ Start(r, [Doing("update", u) EXCEPT !.row.role = role, !.row.active = active,
                                               !.byAdmin = account[m].role = "admin"], "commit")
  BY DEF UpdateUser
<1>2. account[m].role = "admin" \/ (account[u].role # "admin" /\ role # "admin")
  BY <1>1 DEF MayBecome, Manager, CanManage
<1>3. PICK w, b : w = Doing("update", u) /\ b = (account[m].role = "admin")
  OBVIOUS
<1>4. w \in Task /\ w.operation = "update" /\ w.user = u /\ w.rows = {}
  BY <1>1, <1>3, DoingIs DEF SInv, Operations
<1>5. PICK x : x = [w EXCEPT !.row.role = role]
  OBVIOUS
<1>6. PICK y : y = [x EXCEPT !.row.active = active]
  OBVIOUS
<1>7. PICK k : k = [y EXCEPT !.byAdmin = b]
  OBVIOUS
<1>8. x \in Task /\ x.operation = "update" /\ x.user = u /\ x.rows = {} /\ x.row.role = role
  <2>1. PICK d : d = [w.row EXCEPT !.role = role]
    OBVIOUS
  <2>2. d \in Account /\ d.role = role
    BY <1>4, <2>1 DEF Task, Account
  <2>3. x = [w EXCEPT !.row = d]
    BY <1>5, <2>1
  <2> QED
    BY <1>4, <2>2, <2>3 DEF Task
<1>9. y \in Task /\ y.operation = "update" /\ y.user = u /\ y.rows = {} /\ y.row.role = role
  <2>1. /\ y \in Task /\ y.operation = x.operation /\ y.user = x.user /\ y.rows = x.rows
        /\ y.row.role = x.row.role
    BY <1>6, <1>8, ActiveOf, Zenon
  <2> QED
    BY <1>8, <2>1
<1>10. /\ k \in Task /\ k.operation = "update" /\ k.user = u /\ k.rows = {} /\ k.row.role = role
       /\ k.byAdmin = (account[m].role = "admin")
  BY <1>3, <1>7, <1>9 DEF Task
<1>11. Fit(k, "commit")
  BY <1>1, <1>2, <1>10 DEF Fit, Opens, Ends, Manages
<1>12. k = [w EXCEPT !.row.role = role, !.row.active = active, !.byAdmin = b]
  BY <1>5, <1>6, <1>7, Zenon
<1>13. Start(r, k, "commit")
  BY <1>1, <1>3, <1>12
<1> QED
  BY <1>1, <1>10, <1>11, <1>13, QuietKeeps

\* A deactivation fits.
LEMMA DeactivateUserKeeps ==
  ASSUME SInv, ~SameUser, NEW r \in Requests, NEW m \in Users, NEW u \in Users,
         Exists(m), DeactivateUser(r, m, u)
  PROVE  SInv'
<1>1. Exists(u) /\ UNCHANGED access
  BY DEF DeactivateUser
<1>2. account[m].role = "admin" \/ account[u].role # "admin"
  BY DEF DeactivateUser, Manager, CanManage
<1>3. PICK w, b : w = Doing("update", u) /\ b = (account[m].role = "admin")
  OBVIOUS
<1>4. w \in Task /\ w.operation = "update" /\ w.user = u /\ w.rows = {} /\ w.row = account[u]
  BY <1>1, <1>3, DoingIs DEF SInv, Operations
<1>5. PICK y : y = [w EXCEPT !.row.active = FALSE]
  OBVIOUS
<1>6. PICK k : k = [y EXCEPT !.byAdmin = b]
  OBVIOUS
<1>7. /\ y \in Task /\ y.operation = "update" /\ y.user = u /\ y.rows = {}
      /\ y.row.role = account[u].role
  <2>1. /\ y \in Task /\ y.operation = w.operation /\ y.user = w.user /\ y.rows = w.rows
        /\ y.row.role = w.row.role
    BY <1>4, <1>5, ActiveOf, Zenon
  <2> QED
    BY <1>4, <2>1
<1>8. /\ k \in Task /\ k.operation = "update" /\ k.user = u /\ k.rows = {}
      /\ k.row.role = account[u].role /\ k.byAdmin = (account[m].role = "admin")
  BY <1>3, <1>6, <1>7 DEF Task
<1>9. Fit(k, "commit")
  BY <1>1, <1>2, <1>8 DEF Fit, Opens, Ends, Manages
<1>10. k = [w EXCEPT !.row.active = FALSE, !.byAdmin = b]
  BY <1>5, <1>6, Zenon
<1>11. Start(r, k, "commit")
  BY <1>3, <1>10 DEF DeactivateUser
<1> QED
  BY <1>1, <1>8, <1>9, <1>11, QuietKeeps

-----------------------------------------------------------------------------
(* Redis changes: keys that clients hold only go, but for a session that   *)
(* its client does not know yet.                                           *)

\* A request goes on to its commit with the rows it will revoke.
LEMMA ToCommitKeeps ==
  ASSUME SInv, NEW r \in Requests, NEW k \in Task, task[r] = k, NEW rows \in SUBSET RefreshTokens,
         ToCommit(r, rows), session' \subseteq AccessTokens, blacklist' \subseteq AccessTokens,
         \A a \in held : a \in session' => a \in session,
         \A t \in rows : refresh[t] # Nil /\ refresh[t].user = k.user,
         k.operation \in Ends => Live(k.user) \subseteq rows,
         k.operation \in {"close", "reset"} =>
           \A a \in held : access[a] = k.user => a \notin session'
  PROVE  SInv'
<1> USE DEF SInv
<1>1. /\ pc[r] = "redis" /\ pc' = [pc EXCEPT ![r] = "commit"]
      /\ task' = [task EXCEPT ![r].rows = rows]
      /\ UNCHANGED <<account, refresh, access, held, updates, closed>>
  BY DEF ToCommit, database
<1>2. PICK x : x = [k EXCEPT !.rows = rows]
  OBVIOUS
<1>3. /\ x \in Task /\ x.operation = k.operation /\ x.user = k.user /\ x.rows = rows
      /\ x.row = k.row /\ x.access = k.access /\ x.token = k.token /\ x.byAdmin = k.byAdmin
  BY <1>2 DEF Task
<1>4. task' = [task EXCEPT ![r] = x]
  BY <1>1, <1>2
<1>5. /\ task' \in [Requests -> Task \cup {Nil}] /\ task'[r] = x /\ pc'[r] = "commit"
      /\ pc' \in [Requests -> {"idle", "redis", "commit"}]
  BY <1>1, <1>3, <1>4 DEF TypeOK
<1>6. TypeOK'
  BY <1>1, <1>5 DEF TypeOK
<1>7. \A u : Live(u)' = Live(u)
  BY <1>1 DEF Live
<1>8. OneLive' /\ ClosedHasNone' /\ Owned'
  BY <1>1, <1>7 DEF OneLive, ClosedHasNone, Owned, Exists
<1>9. Idle(r)
  BY <1>1, <1>4 DEF Idle, TypeOK
<1>10. Others(r)
  <2> SUFFICES ASSUME NEW q \in Requests \ {r}, NEW w \in Task, task[q] = w
               PROVE  task'[q] = w /\ pc'[q] = pc[q] /\ Calm(w)
    BY DEF Others
  <2>1. task'[q] = w /\ pc'[q] = pc[q]
    BY <1>1, <1>4 DEF TypeOK
  <2>2. Fit(w, pc[q])
    OBVIOUS
  <2>3. w.operation \in Opens => w.access \notin held
    BY <2>2 DEF Fit
  <2>4. w.operation = "refresh" => w.token \in Live(w.user)
    BY <2>2 DEF Fit
  <2>5. Calm(w)
    BY <1>1, <1>7, <2>3, <2>4 DEF Calm, Exists
  <2> QED
    BY <2>1, <2>5
<1>11. Fit(k, "redis")
  BY <1>1
<1>12. Fit(x, "commit")'
  BY <1>1, <1>3, <1>7, <1>11 DEF Fit, Exists, Ends, Opens, Manages
<1>13. Undisturbed'
  <2>1. \A q \in Requests : task'[q] = IF q = r THEN x ELSE task[q]
    BY <1>4 DEF TypeOK
  <2>2. \A q \in Requests : /\ task'[q] # Nil <=> task[q] # Nil
                            /\ task'[q].user = task[q].user
                            /\ task'[q].operation = task[q].operation
    BY <1>3, <2>1
  <2> QED
    BY <2>2 DEF Undisturbed
<1>14. task'[r] # Nil
  BY <1>3, <1>5
<1>15. Fit(task[r], pc[r])'
  BY <1>5, <1>12
<1> QED
  BY <1>6, <1>8, <1>9, <1>10, <1>13, <1>14, <1>15, StepKeeps

\* The token of a session that opens gets its key.
LEMMA SetSessionKeeps ==
  ASSUME SInv, NEW r \in Requests, SetSession(r)
  PROVE  SInv'
<1>1. PICK k \in Task : k = task[r]
  BY DEF SetSession, SInv, TypeOK
<1>2. k.operation \in {"open", "refresh"} /\ session' = session \cup {k.access}
      /\ ToCommit(r, {}) /\ UNCHANGED blacklist
  BY <1>1 DEF SetSession
<1>3. Fit(k, pc[r])
  BY <1>1 DEF SInv, SetSession
<1>4. k.access \in AccessTokens \ held
  BY <1>2, <1>3 DEF Fit, Opens
<1>5. session' \subseteq AccessTokens /\ blacklist' \subseteq AccessTokens
  BY <1>2, <1>4 DEF SInv, TypeOK
<1> QED
  BY <1>1, <1>2, <1>4, <1>5, ToCommitKeeps DEF Ends

\* The second login deletes the keys of the account.
LEMMA CloseSessionsKeeps ==
  ASSUME SInv, NEW r \in Requests, CloseSessions(r)
  PROVE  SInv'
<1>1. PICK k \in Task : k = task[r]
  BY DEF CloseSessions, SInv, TypeOK
<1>2. k.operation = "close" /\ session' = session \ (session \cap AccessOf(k.user))
      /\ ToCommit(r, Live(k.user)) /\ UNCHANGED blacklist
  BY <1>1 DEF CloseSessions, Cut
<1>3. session' \subseteq AccessTokens /\ blacklist' \subseteq AccessTokens /\ held \subseteq AccessTokens
  BY <1>2 DEF SInv, TypeOK
<1>4. \A a \in held : access[a] = k.user => a \notin session'
  BY <1>2, <1>3 DEF AccessOf
<1> QED
  BY <1>1, <1>2, <1>3, <1>4, LiveRows, ToCommitKeeps

\* A logout and a change of password remember the token they were called with.
LEMMA BlacklistTokenKeeps ==
  ASSUME SInv, NEW r \in Requests, BlacklistToken(r)
  PROVE  SInv'
<1>1. PICK k \in Task : k = task[r]
  BY DEF BlacklistToken, SInv, TypeOK
<1>2. k.operation \in {"logout", "change"} /\ blacklist' = blacklist \cup {k.access}
      /\ ToCommit(r, Live(k.user)) /\ UNCHANGED session
  BY <1>1 DEF BlacklistToken
<1>3. Fit(k, pc[r])
  BY <1>1 DEF SInv, BlacklistToken
<1>4. session' \subseteq AccessTokens /\ blacklist' \subseteq AccessTokens
  BY <1>2, <1>3 DEF SInv, TypeOK, Fit
<1> QED
  BY <1>1, <1>2, <1>4, LiveRows, ToCommitKeeps

\* A reset deletes the keys of the account, having read the refresh tokens.
LEMMA DeleteSessionsKeeps ==
  ASSUME SInv, NEW r \in Requests, DeleteSessions(r)
  PROVE  SInv'
<1>1. PICK k \in Task : k = task[r]
  BY DEF DeleteSessions, SInv, TypeOK
<1>2. k.operation = "reset" /\ session' = session \ (session \cap AccessOf(k.user))
      /\ ToCommit(r, k.rows) /\ UNCHANGED blacklist
  BY <1>1 DEF DeleteSessions, Cut
<1>3. session' \subseteq AccessTokens /\ blacklist' \subseteq AccessTokens /\ held \subseteq AccessTokens
  BY <1>2 DEF SInv, TypeOK
<1>4. \A a \in held : access[a] = k.user => a \notin session'
  BY <1>2, <1>3 DEF AccessOf
<1>5. Fit(k, pc[r])
  BY <1>1 DEF SInv, DeleteSessions
<1>6. Live(k.user) \subseteq k.rows /\ \A t \in k.rows : refresh[t] # Nil /\ refresh[t].user = k.user
  BY <1>2, <1>5 DEF Fit, Ends
<1>7. k.rows \in SUBSET RefreshTokens
  BY DEF Task
<1> QED
  BY <1>1, <1>2, <1>3, <1>4, <1>6, <1>7, ToCommitKeeps

-----------------------------------------------------------------------------
(* PostgreSQL changes.                                                     *)

\* What a commit has to show, besides leaving its task behind.
LEMMA CommitKeeps ==
  ASSUME SInv, NEW r \in Requests, End(r),
         account' \in [Users -> Account \cup {Nil}],
         refresh' \in [RefreshTokens -> RefreshToken \cup {Nil}],
         held' \subseteq AccessTokens, updates' \in 0..MaxUpdates, closed' \subseteq Users,
         OneLive', ClosedHasNone', Owned',
         \A q \in Requests \ {r}, w \in Task : task[q] = w => Calm(w)
  PROVE  SInv'
<1> USE DEF SInv
<1>1. /\ pc' = [pc EXCEPT ![r] = "idle"] /\ task' = [task EXCEPT ![r] = Nil]
      /\ UNCHANGED <<session, blacklist, access>>
  BY DEF End, redis
<1>2. /\ task' \in [Requests -> Task \cup {Nil}] /\ pc' \in [Requests -> {"idle", "redis", "commit"}]
      /\ task'[r] = Nil /\ pc'[r] = "idle"
      /\ \A q \in Requests \ {r} : task'[q] = task[q] /\ pc'[q] = pc[q]
  BY <1>1 DEF TypeOK
<1>3. TypeOK'
  BY <1>1, <1>2 DEF TypeOK
<1>4. Others(r) /\ Idle(r)
  BY <1>2 DEF Others, Idle
<1> QED
  BY <1>2, <1>3, <1>4, StepKeeps

\* Two requests in progress do not disturb each other, and each of them fits.
LEMMA ApartAndFit ==
  ASSUME SInv, NEW r \in Requests, NEW k \in Task, task[r] = k,
         NEW q \in Requests \ {r}, NEW w \in Task, task[q] = w
  PROVE  /\ w.user # k.user \/ ~Disturbs(w.operation, k.operation)
         /\ Fit(k, pc[r]) /\ Fit(w, pc[q]) /\ k.user \in Users /\ w.user \in Users
<1>1. task[r] # Nil /\ task[q] # Nil
  OBVIOUS
<1> QED
  BY <1>1 DEF SInv, Undisturbed, Task

\* A new refresh token.
LEMMA RowIs ==
  ASSUME NEW u \in Users
  PROVE  Row(u) \in RefreshToken /\ Row(u).user = u /\ ~Row(u).revoked /\ Row(u) # Nil
<1>1. Row(u) \in RefreshToken /\ Row(u).user = u /\ ~Row(u).revoked
  BY DEF Row, RefreshToken
<1> QED
  BY <1>1

\* A session opens: the account has one refresh token, and had none.
LEMMA CommitLoginKeeps ==
  ASSUME SInv, NEW r \in Requests, CommitLogin(r)
  PROVE  SInv'
<1> USE DEF SInv
<1>1. PICK k \in Task : k = task[r] /\ k.operation = "open" /\ pc[r] = "commit"
  BY DEF CommitLogin, Committing, TypeOK
<1>2. PICK t \in RefreshTokens : refresh[t] = Nil /\ refresh' = [refresh EXCEPT ![t] = Row(k.user)]
  BY <1>1 DEF CommitLogin
<1>3. /\ held' = held \cup {k.access} /\ closed' = closed \ {k.user}
      /\ End(r) /\ UNCHANGED <<account, updates, session, access>>
  BY <1>1 DEF CommitLogin, End, redis
<1>4. Fit(k, "commit")
  BY <1>1
<1>5. /\ k.access \in AccessTokens \ held /\ access[k.access] = k.user
      /\ k.user \in Users /\ Exists(k.user) /\ Live(k.user) = {}
  BY <1>1, <1>4 DEF Fit, Opens, Task
<1>6. /\ Row(k.user) \in RefreshToken /\ Row(k.user).user = k.user /\ ~Row(k.user).revoked
      /\ Row(k.user) # Nil
  BY <1>5, RowIs
<1>7. /\ refresh' \in [RefreshTokens -> RefreshToken \cup {Nil}] /\ refresh'[t] = Row(k.user)
      /\ \A s \in RefreshTokens \ {t} : refresh'[s] = refresh[s]
  BY <1>2, <1>6 DEF TypeOK
<1>8. Live(k.user)' = {t}
  BY <1>5, <1>6, <1>7 DEF Live
<1>9. \A u : u # k.user => Live(u)' = Live(u)
  BY <1>2, <1>6, <1>7 DEF Live
<1>10. /\ account' \in [Users -> Account \cup {Nil}] /\ held' \subseteq AccessTokens
       /\ updates' \in 0..MaxUpdates /\ closed' \subseteq Users
  BY <1>3, <1>5 DEF TypeOK
<1>11. OneLive'
  BY <1>8, <1>9 DEF OneLive
<1>12. ClosedHasNone'
  BY <1>3, <1>5, <1>9 DEF ClosedHasNone
<1>13. Owned'
  BY <1>3, <1>5, <1>6, <1>7 DEF Owned, Exists, TypeOK
<1>14. ASSUME NEW q \in Requests \ {r}, NEW w \in Task, task[q] = w
       PROVE  Calm(w)
  <2>1. /\ w.user # k.user \/ w.operation \notin Opens \cup Ends
        /\ Fit(w, pc[q])
    BY <1>1, <1>14, ApartAndFit DEF Disturbs, Opens
  <2>2. w.operation \in Opens => w.access # k.access /\ w.access \notin held
    BY <1>5, <2>1 DEF Fit
  <2>3. w.operation = "refresh" => w.token \in Live(w.user)
    BY <2>1 DEF Fit
  <2>4. \A s \in RefreshTokens : refresh[s] # Nil =>
          refresh'[s] # Nil /\ refresh'[s].user = refresh[s].user
    BY <1>2, <1>7
  <2> QED
    BY <1>3, <1>5, <1>9, <2>1, <2>2, <2>3, <2>4 DEF Calm, Exists, Opens, Ends
<1> QED
  BY <1>3, <1>7, <1>10, <1>11, <1>12, <1>13, <1>14, CommitKeeps

\* A refresh token is replaced: the account has one again.
LEMMA CommitRefreshKeeps ==
  ASSUME SInv, NEW r \in Requests, CommitRefresh(r)
  PROVE  SInv'
<1> USE DEF SInv
<1>1. PICK k \in Task : k = task[r] /\ k.operation = "refresh" /\ pc[r] = "commit"
  BY DEF CommitRefresh, Committing, TypeOK
<1>2. PICK t \in RefreshTokens :
        /\ refresh[t] = Nil
        /\ refresh' = [refresh EXCEPT ![k.token] = Used(@), ![t] = Row(k.user)]
  BY <1>1, Zenon DEF CommitRefresh
<1>3. /\ held' = held \cup {k.access}
      /\ End(r) /\ UNCHANGED <<account, updates, closed, session, access>>
  BY <1>1 DEF CommitRefresh, End, redis
<1>4. Fit(k, "commit")
  BY <1>1
<1>5. /\ k.access \in AccessTokens \ held /\ access[k.access] = k.user
      /\ k.user \in Users /\ k.token \in Live(k.user) /\ k.token \in RefreshTokens
  BY <1>1, <1>4 DEF Fit, Opens, Task, Live
<1>6. /\ Row(k.user) \in RefreshToken /\ Row(k.user).user = k.user /\ ~Row(k.user).revoked
      /\ Row(k.user) # Nil
  BY <1>5, RowIs
<1>7. PICK v : v = Used(refresh[k.token])
  OBVIOUS
<1>8. v \in RefreshToken /\ v.user = k.user /\ v.revoked /\ v # Nil
  <2>1. refresh[k.token] \in RefreshToken /\ refresh[k.token].user = k.user
    BY <1>5 DEF TypeOK, Live
  <2> QED
    BY <1>7, <2>1 DEF Used, RefreshToken
<1>9. /\ refresh' = [refresh EXCEPT ![k.token] = v, ![t] = Row(k.user)]
      /\ k.token # t
  BY <1>2, <1>5, <1>7 DEF Live
<1>10. /\ refresh' \in [RefreshTokens -> RefreshToken \cup {Nil}]
       /\ refresh'[t] = Row(k.user) /\ refresh'[k.token] = v
       /\ \A s \in RefreshTokens \ {t, k.token} : refresh'[s] = refresh[s]
  <2>1. PICK y : y = Row(k.user)
    OBVIOUS
  <2>2. PICK x : x = [refresh EXCEPT ![k.token] = v]
    OBVIOUS
  <2>3. /\ x \in [RefreshTokens -> RefreshToken \cup {Nil}] /\ x[k.token] = v
        /\ \A s \in RefreshTokens \ {k.token} : x[s] = refresh[s]
    BY <1>5, <1>8, <2>2 DEF TypeOK
  <2>4. refresh' = [x EXCEPT ![t] = y]
    BY <1>9, <2>1, <2>2
  <2> QED
    BY <1>5, <1>6, <1>9, <2>1, <2>3, <2>4
<1>11. \A s \in Live(k.user) : s = k.token
  BY <1>5 DEF OneLive
<1>12. Live(k.user)' = {t}
  BY <1>6, <1>8, <1>10, <1>11 DEF Live
<1>13. \A u : u # k.user => Live(u)' = Live(u)
  BY <1>2, <1>5, <1>6, <1>8, <1>10 DEF Live
<1>14. /\ account' \in [Users -> Account \cup {Nil}] /\ held' \subseteq AccessTokens
       /\ updates' \in 0..MaxUpdates /\ closed' \subseteq Users
  BY <1>3, <1>5 DEF TypeOK
<1>15. OneLive'
  BY <1>12, <1>13 DEF OneLive
<1>16. ClosedHasNone'
  BY <1>3, <1>5, <1>13 DEF ClosedHasNone
<1>17. Exists(k.user)
  BY <1>5 DEF Owned, Live
<1>18. Owned'
  BY <1>3, <1>5, <1>6, <1>8, <1>10, <1>17 DEF Owned, Exists, TypeOK
<1>19. ASSUME NEW q \in Requests \ {r}, NEW w \in Task, task[q] = w
       PROVE  Calm(w)
  <2>1. /\ w.user # k.user \/ w.operation \notin Opens \cup Ends
        /\ Fit(w, pc[q])
    BY <1>1, <1>19, ApartAndFit DEF Disturbs, Opens
  <2>2. w.operation \in Opens => w.access # k.access /\ w.access \notin held
    BY <1>5, <2>1 DEF Fit
  <2>3. w.operation = "refresh" => w.token \in Live(w.user)
    BY <2>1 DEF Fit
  <2>4. \A s \in RefreshTokens : refresh[s] # Nil =>
          refresh'[s] # Nil /\ refresh'[s].user = refresh[s].user
    BY <1>2, <1>5, <1>8, <1>10 DEF Live
  <2> QED
    BY <1>3, <1>5, <1>13, <2>1, <2>2, <2>3, <2>4 DEF Calm, Exists, Opens, Ends
<1> QED
  BY <1>3, <1>10, <1>14, <1>15, <1>16, <1>18, <1>19, CommitKeeps

\* All refresh tokens of an account are revoked, and no other's.
LEMMA RevokedAll ==
  ASSUME TypeOK, NEW u \in Users, NEW rows \in SUBSET RefreshTokens,
         \A t \in rows : refresh[t] # Nil /\ refresh[t].user = u,
         Live(u) \subseteq rows, refresh' = Revoked(rows)
  PROVE  /\ refresh' \in [RefreshTokens -> RefreshToken \cup {Nil}]
         /\ \A t \in RefreshTokens : /\ refresh[t] = Nil => refresh'[t] = Nil
                                     /\ refresh[t] # Nil => refresh'[t] # Nil
                                                            /\ refresh'[t].user = refresh[t].user
         /\ Live(u)' = {}
         /\ \A v : v # u => Live(v)' = Live(v)
<1>1. refresh \in [RefreshTokens -> RefreshToken \cup {Nil}]
  BY DEF TypeOK
<1>2. ASSUME NEW t \in rows
      PROVE  /\ refresh'[t] \in RefreshToken /\ refresh'[t] # Nil /\ refresh'[t].user = u
             /\ refresh'[t].revoked
  <2>1. PICK w : w = refresh[t]
    OBVIOUS
  <2>2. w \in RefreshToken /\ w.user = u
    BY <1>1, <2>1
  <2>3. PICK x : x = [w EXCEPT !.revoked = TRUE]
    OBVIOUS
  <2>4. x \in RefreshToken /\ x.user = u /\ x.revoked
    BY <2>2, <2>3 DEF RefreshToken
  <2>5. refresh'[t] = x
    BY <2>1, <2>3 DEF Revoked
  <2> QED
    BY <2>4, <2>5
<1>3. \A t \in RefreshTokens \ rows : refresh'[t] = refresh[t]
  BY DEF Revoked
<1>4. refresh' = [t \in RefreshTokens |-> refresh'[t]]
  BY DEF Revoked
<1>5. \A t \in RefreshTokens : refresh'[t] \in RefreshToken \cup {Nil}
  BY <1>1, <1>2, <1>3
<1>6. Live(u)' = {}
  BY <1>2, <1>3 DEF Live
<1>7. ASSUME NEW v, v # u
      PROVE  Live(v)' = Live(v)
  BY <1>2, <1>3, <1>7 DEF Live
<1>8. \A t \in RefreshTokens : /\ refresh[t] = Nil => refresh'[t] = Nil
                               /\ refresh[t] # Nil => refresh'[t] # Nil
                                                      /\ refresh'[t].user = refresh[t].user
  BY <1>2, <1>3
<1> QED
  BY <1>4, <1>5, <1>6, <1>7, <1>8

\* The sessions of an account end with a commit, whatever it says of its row.
LEMMA EndingKeeps ==
  ASSUME SInv, NEW r \in Requests, NEW k \in Task, k = task[r], k.operation \in Ends,
         pc[r] = "commit", End(r), refresh' = Revoked(k.rows), UNCHANGED <<held, updates>>,
         closed' = IF k.operation \in {"close", "reset"} THEN closed \cup {k.user} ELSE closed,
         account' \in [Users -> Account \cup {Nil}],
         \A u \in Users : Exists(u) => Exists(u)' /\ account'[u].role = account[u].role,
         \A u \in Users : u # k.user => account'[u] = account[u],
         Exists(k.user)' => Exists(k.user)
  PROVE  SInv'
<1> USE DEF SInv
<1>1. Fit(k, "commit") /\ k.user \in Users /\ k.rows \in SUBSET RefreshTokens
  BY DEF Ends, Task
<1>2. Live(k.user) \subseteq k.rows /\ \A t \in k.rows : refresh[t] # Nil /\ refresh[t].user = k.user
  BY <1>1 DEF Fit
<1>3. /\ refresh' \in [RefreshTokens -> RefreshToken \cup {Nil}]
      /\ \A t \in RefreshTokens : /\ refresh[t] = Nil => refresh'[t] = Nil
                                  /\ refresh[t] # Nil => refresh'[t] # Nil
                                                         /\ refresh'[t].user = refresh[t].user
      /\ Live(k.user)' = {}
      /\ \A v : v # k.user => Live(v)' = Live(v)
  BY <1>1, <1>2, RevokedAll
<1>4. UNCHANGED <<session, access, held>>
  BY DEF End, redis
<1>5. held' \subseteq AccessTokens /\ updates' \in 0..MaxUpdates /\ closed' \subseteq Users
  BY <1>1 DEF TypeOK
<1>6. OneLive'
  BY <1>3 DEF OneLive
<1>7. k.operation \in {"close", "reset"} => \A a \in held : access[a] = k.user => a \notin session
  BY <1>1 DEF Fit
<1>8. ClosedHasNone'
  BY <1>3, <1>4, <1>7 DEF ClosedHasNone
<1>9. Owned'
  <2>1. \A t \in RefreshTokens : refresh'[t] # Nil => refresh'[t].user \in Users /\ Exists(refresh'[t].user)
    BY <1>3 DEF Owned, TypeOK, RefreshToken
  <2> QED
    BY <1>4, <2>1 DEF Owned
<1>10. ASSUME NEW q \in Requests \ {r}, NEW w \in Task, task[q] = w
       PROVE  Calm(w)
  <2>1. /\ w.user # k.user \/ w.operation \notin Opens
        /\ Fit(w, pc[q]) /\ w.user \in Users
    BY <1>10, ApartAndFit DEF Disturbs, Opens, Ends
  <2>2. w.operation \in Opens => w.access \notin held
    BY <2>1 DEF Fit
  <2>3. w.operation = "refresh" => w.token \in Live(w.user)'
    BY <1>3, <2>1 DEF Fit, Opens
  <2>4. Live(w.user)' \subseteq Live(w.user)
    BY <1>3
  <2>5. w.operation = "open" => account'[w.user].password = account[w.user].password
    BY <2>1 DEF Opens
  <2>6. Exists(w.user)' => Exists(w.user) /\ account'[w.user].role = account[w.user].role
    BY <2>1 DEF Exists
  <2> QED
    BY <1>3, <1>4, <2>2, <2>3, <2>4, <2>5, <2>6 DEF Calm
<1> QED
  BY <1>3, <1>5, <1>6, <1>8, <1>9, <1>10, CommitKeeps

\* A second login and a logout end the sessions.
LEMMA CommitRevocationKeeps ==
  ASSUME SInv, NEW r \in Requests, CommitRevocation(r)
  PROVE  SInv'
<1>1. PICK k \in Task : k = task[r] /\ k.operation \in {"close", "logout"} /\ pc[r] = "commit"
  BY DEF CommitRevocation, Committing, SInv, TypeOK
<1>2. /\ refresh' = Revoked(k.rows) /\ End(r) /\ UNCHANGED <<account, updates, held>>
      /\ closed' = IF k.operation = "close" THEN closed \cup {k.user} ELSE closed
  BY <1>1 DEF CommitRevocation
<1>3. /\ account' \in [Users -> Account \cup {Nil}]
      /\ \A u \in Users : Exists(u)' <=> Exists(u)
  BY <1>2 DEF SInv, TypeOK, Exists
<1>4. k.user \in Users
  BY DEF Task
<1> QED
  BY <1>1, <1>2, <1>3, <1>4, EndingKeeps DEF Ends

\* A new password ends them too.
LEMMA CommitPasswordKeeps ==
  ASSUME SInv, NEW r \in Requests, CommitPassword(r)
  PROVE  SInv'
<1>1. PICK k \in Task : k = task[r] /\ k.operation \in {"change", "reset"} /\ pc[r] = "commit"
  BY DEF CommitPassword, Committing, SInv, TypeOK
<1>2. /\ refresh' = Revoked(k.rows) /\ End(r) /\ UNCHANGED <<updates, held>>
      /\ account' = [account EXCEPT ![k.user].password = k.row.password + 1]
      /\ closed' = IF k.operation = "reset" THEN closed \cup {k.user} ELSE closed
  BY <1>1 DEF CommitPassword
<1>3. Fit(k, "commit")
  BY <1>1 DEF SInv
<1>4. k.user \in Users /\ Exists(k.user) /\ k.row.password + 1 \in 0..MaxPasswords
  BY <1>1, <1>3 DEF Fit, Task, Account
<1>5. PICK w : w = account[k.user]
  OBVIOUS
<1>6. w \in Account
  BY <1>4, <1>5 DEF SInv, TypeOK, Exists
<1>7. PICK v : v = [w EXCEPT !.password = k.row.password + 1]
  OBVIOUS
<1>8. v \in Account /\ v.role = w.role
  BY <1>4, <1>6, <1>7 DEF Account
<1>9. account' = [account EXCEPT ![k.user] = v]
  BY <1>2, <1>5, <1>7
<1>10. /\ account' \in [Users -> Account \cup {Nil}]
       /\ \A u \in Users : Exists(u) => Exists(u)' /\ account'[u].role = account[u].role
       /\ \A u \in Users : u # k.user => account'[u] = account[u]
  BY <1>4, <1>5, <1>6, <1>8, <1>9 DEF SInv, TypeOK, Exists
<1> QED
  BY <1>1, <1>2, <1>4, <1>10, EndingKeeps DEF Ends

\* An account is created or updated: the password and the sessions stay.
LEMMA CommitAccountKeeps ==
  ASSUME SInv, NEW r \in Requests, CommitAccount(r)
  PROVE  SInv'
<1> USE DEF SInv
<1>1. PICK k \in Task : k = task[r] /\ k.operation \in {"create", "update"} /\ pc[r] = "commit"
  BY DEF CommitAccount, Committing, TypeOK
<1>2. PICK v : v = IF k.operation = "create" THEN k.row
                   ELSE [account[k.user] EXCEPT !.role = k.row.role, !.active = k.row.active]
  OBVIOUS
<1>3. /\ End(r) /\ UNCHANGED <<refresh, held, closed, session, access>>
      /\ updates < MaxUpdates /\ updates' = updates + 1
      /\ k.operation = "create" => ~Exists(k.user)
      /\ account' = [account EXCEPT ![k.user] = v]
  BY <1>1, <1>2 DEF CommitAccount, End, redis
<1>4. Fit(k, "commit")
  BY <1>1
<1>5. k.user \in Users /\ k.row \in Account
  BY DEF Task
<1>6. v \in Account /\ (Exists(k.user) => v.password = account[k.user].password)
  <2>1. CASE k.operation = "create"
    BY <1>2, <1>3, <1>5, <2>1
  <2>2. CASE k.operation = "update"
    <3>1. PICK w : w = account[k.user]
      OBVIOUS
    <3>2. w \in Account
      BY <1>4, <1>5, <2>2, <3>1 DEF Fit, Exists, TypeOK
    <3>3. v = [w EXCEPT !.role = k.row.role, !.active = k.row.active]
      BY <1>2, <2>2, <3>1
    <3> QED
      BY <1>5, <3>1, <3>2, <3>3 DEF Account
  <2> QED
    BY <1>1, <2>1, <2>2
<1>8. /\ account' \in [Users -> Account \cup {Nil}]
      /\ \A u \in Users : u # k.user => account'[u] = account[u]
      /\ Exists(k.user) => account'[k.user].password = account[k.user].password
      /\ \A u \in Users : Exists(u) => Exists(u)'
  BY <1>3, <1>5, <1>6 DEF TypeOK, Exists
<1>9. \A u : Live(u)' = Live(u)
  BY <1>3 DEF Live
<1>10. held' \subseteq AccessTokens /\ updates' \in 0..MaxUpdates /\ closed' \subseteq Users
       /\ refresh' \in [RefreshTokens -> RefreshToken \cup {Nil}]
  BY <1>3 DEF TypeOK
<1>11. OneLive' /\ ClosedHasNone'
  BY <1>3, <1>9 DEF OneLive, ClosedHasNone
<1>12. Owned'
  <2>1. \A t \in RefreshTokens : refresh[t] # Nil => refresh[t].user \in Users
    BY DEF TypeOK, RefreshToken
  <2> QED
    BY <1>3, <1>8, <2>1 DEF Owned
<1>13. ASSUME NEW q \in Requests \ {r}, NEW w \in Task, task[q] = w
       PROVE  Calm(w)
  <2>1. /\ w.user # k.user \/ w.operation \notin Manages
        /\ Fit(w, pc[q]) /\ w.user \in Users
    BY <1>1, <1>13, ApartAndFit DEF Disturbs, Manages
  <2>2. w.operation \in Opens => w.access \notin held
    BY <2>1 DEF Fit
  <2>3. w.operation = "refresh" => w.token \in Live(w.user)
    BY <2>1 DEF Fit
  <2>4. w.operation = "open" => account'[w.user].password = account[w.user].password
    BY <1>8, <2>1 DEF Fit
  <2>5. w.operation \in Manages => (Exists(w.user)' => Exists(w.user)
                                     /\ account'[w.user].role = account[w.user].role)
    BY <1>8, <2>1 DEF Exists
  <2> QED
    BY <1>3, <1>8, <1>9, <2>2, <2>3, <2>4, <2>5 DEF Calm
<1> QED
  BY <1>3, <1>8, <1>10, <1>11, <1>12, <1>13, CommitKeeps

-----------------------------------------------------------------------------

\* A lost request leaves in Redis the keys it deleted and the token it
\* remembered, and PostgreSQL as it was.
LEMMA LoseKeeps ==
  ASSUME SInv, NEW r \in Requests, Lose(r)
  PROVE  SInv'
<1> USE DEF SInv
<1>1. PICK k \in Task : k = task[r]
  BY DEF Lose, TypeOK
<1>2. /\ pc[r] # "idle" /\ pc' = [pc EXCEPT ![r] = "idle"] /\ task' = [task EXCEPT ![r] = Nil]
      /\ UNCHANGED <<account, refresh, blacklist, held, updates, closed>>
      /\ IF k.operation \in Opens
         THEN access' = [access EXCEPT ![k.access] = Nil] /\ session' = session \ {k.access}
         ELSE UNCHANGED <<access, session>>
  BY <1>1 DEF Lose, database
<1>3. /\ task' \in [Requests -> Task \cup {Nil}] /\ pc' \in [Requests -> {"idle", "redis", "commit"}]
      /\ task'[r] = Nil /\ pc'[r] = "idle"
      /\ \A q \in Requests \ {r} : task'[q] = task[q] /\ pc'[q] = pc[q]
  BY <1>2 DEF TypeOK
<1>4. Fit(k, pc[r])
  BY <1>1
<1>5. /\ session' \subseteq session /\ access' \in [AccessTokens -> Users \cup {Nil}]
      /\ \A a \in held : access'[a] = access[a]
      /\ \A a \in AccessTokens : (access'[a] # access[a]) => k.operation \in Opens /\ a = k.access
  BY <1>2, <1>4 DEF Fit, TypeOK
<1>6. TypeOK'
  BY <1>2, <1>3, <1>5 DEF TypeOK
<1>7. \A u : Live(u)' = Live(u)
  BY <1>2 DEF Live
<1>8. OneLive' /\ ClosedHasNone' /\ Owned'
  BY <1>2, <1>5, <1>7 DEF OneLive, ClosedHasNone, Owned, Exists
<1>9. ASSUME NEW q \in Requests \ {r}, NEW w \in Task, task[q] = w
      PROVE  Calm(w)
  <2>1. /\ w.user # k.user \/ ~Disturbs(w.operation, k.operation)
        /\ Fit(w, pc[q])
    BY <1>1, <1>9, ApartAndFit
  <2>2. w.operation \in Opens => w.access \in AccessTokens /\ access'[w.access] = access[w.access]
    BY <1>4, <1>5, <2>1 DEF Fit, Disturbs
  <2>3. w.operation \in Opens => w.access \notin held
    BY <2>1 DEF Fit
  <2>4. w.operation = "refresh" => w.token \in Live(w.user)
    BY <2>1 DEF Fit
  <2> QED
    BY <1>2, <1>5, <1>7, <2>2, <2>3, <2>4 DEF Calm, Exists
<1>10. Others(r) /\ Idle(r)
  BY <1>3, <1>9 DEF Others, Idle
<1> QED
  BY <1>3, <1>6, <1>8, <1>10, StepKeeps

\* No request steps, and every task stays as it fits.
LEMMA TimeKeeps ==
  ASSUME SInv, UNCHANGED <<account, access, held, pc, task, updates, closed, blacklist>>,
         session' \subseteq session,
         refresh' \in [RefreshTokens -> RefreshToken \cup {Nil}],
         \A t \in RefreshTokens :
           \/ refresh'[t] = refresh[t]
           \/ /\ refresh[t] # Nil /\ refresh'[t] # Nil
              /\ refresh'[t].user = refresh[t].user /\ refresh'[t].revoked = refresh[t].revoked
  PROVE  SInv'
<1> USE DEF SInv
<1>1. \A u : Live(u)' = Live(u)
  BY DEF Live
<1>2. TypeOK'
  BY DEF TypeOK
<1>3. \A t \in RefreshTokens : /\ refresh'[t] = Nil <=> refresh[t] = Nil
                               /\ refresh'[t].user = refresh[t].user
  OBVIOUS
<1>4. OneLive' /\ ClosedHasNone' /\ Owned' /\ Undisturbed'
  BY <1>1, <1>3 DEF OneLive, ClosedHasNone, Owned, Exists, Undisturbed
<1>5. ASSUME NEW q \in Requests, task[q] # Nil
      PROVE  Fit(task[q], pc[q])'
  <2>1. PICK w \in Task : w = task[q]
    BY <1>5 DEF TypeOK
  <2>2. PICK p : p = pc[q]
    OBVIOUS
  <2>3. Fit(w, p)
    BY <1>5, <2>1, <2>2
  <2>4. w.operation \in Opens => w.access \notin held
    BY <2>3 DEF Fit
  <2>5. w.operation = "refresh" => w.token \in Live(w.user)
    BY <2>3 DEF Fit
  <2>6. Calm(w)
    BY <1>1, <1>3, <2>4, <2>5 DEF Calm, Exists
  <2>7. Fit(w, p)'
    BY <2>3, <2>6, FitStays
  <2> QED
    BY <2>1, <2>2, <2>7
<1> QED
  BY <1>2, <1>4, <1>5

\* The inactivity timeout deletes one key.
LEMMA SessionExpiresKeeps ==
  ASSUME SInv, NEW a \in AccessTokens, SessionExpires(a)
  PROVE  SInv'
<1>1. /\ UNCHANGED <<account, access, held, pc, task, updates, closed, blacklist, refresh>>
      /\ session' \subseteq session
  BY DEF SessionExpires, database
<1>2. refresh' \in [RefreshTokens -> RefreshToken \cup {Nil}]
  BY <1>1 DEF SInv, TypeOK
<1> QED
  BY <1>1, <1>2, TimeKeeps

\* An expired refresh token is still there until it is revoked.
LEMMA RefreshExpiresKeeps ==
  ASSUME SInv, NEW t \in RefreshTokens, RefreshExpires(t)
  PROVE  SInv'
<1>1. /\ UNCHANGED <<account, access, held, pc, task, updates, closed, blacklist, session>>
      /\ refresh[t] # Nil /\ refresh' = [refresh EXCEPT ![t].expired = TRUE]
  BY DEF RefreshExpires, redis
<1>2. PICK w : w = refresh[t]
  OBVIOUS
<1>3. w \in RefreshToken
  BY <1>1, <1>2 DEF SInv, TypeOK
<1>4. PICK v : v = [w EXCEPT !.expired = TRUE]
  OBVIOUS
<1>5. v \in RefreshToken /\ v.user = w.user /\ v.revoked = w.revoked
  BY <1>3, <1>4 DEF RefreshToken
<1>6. v # Nil
  BY <1>5
<1>7. refresh' = [refresh EXCEPT ![t] = v]
  BY <1>1, <1>2, <1>4
<1>8. /\ refresh' \in [RefreshTokens -> RefreshToken \cup {Nil}] /\ refresh'[t] = v
      /\ \A s \in RefreshTokens \ {t} : refresh'[s] = refresh[s]
  BY <1>5, <1>7 DEF SInv, TypeOK
<1> QED
  BY <1>1, <1>2, <1>5, <1>6, <1>8, TimeKeeps

\* No step of the specification breaks the invariant.
LEMMA StepSInv == ASSUME ~SameUser PROVE SInv /\ [Next]_vars => SInv'
<1> SUFFICES ASSUME SInv, [Next]_vars PROVE SInv'
  OBVIOUS
<1>1. ASSUME NEW r \in Requests, AuthRequests(r)
      PROVE  SInv'
  BY <1>1, LoginKeeps, RefreshKeeps, LogoutKeeps, ChangePasswordKeeps DEF AuthRequests
<1>2. ASSUME NEW r \in Requests, UserRequests(r)
      PROVE  SInv'
  BY <1>2, ResetPasswordKeeps, CreateUserKeeps, UpdateUserKeeps, DeactivateUserKeeps
  DEF UserRequests
<1>3. ASSUME NEW r \in Requests, RedisStep(r)
      PROVE  SInv'
  BY <1>3, SetSessionKeeps, CloseSessionsKeeps, BlacklistTokenKeeps, DeleteSessionsKeeps
  DEF RedisStep
<1>4. ASSUME NEW r \in Requests, Commit(r)
      PROVE  SInv'
  BY <1>4, CommitLoginKeeps, CommitRefreshKeeps, CommitRevocationKeeps, CommitPasswordKeeps,
     CommitAccountKeeps DEF Commit
<1>5. CASE UNCHANGED vars
  <2>1. UNCHANGED <<account, refresh, session, access, held, pc, task, updates, closed, blacklist>>
    BY <1>5 DEF vars, database, redis
  <2> QED
    BY <2>1, TimeKeeps DEF SInv, TypeOK
<1> QED
  BY <1>1, <1>2, <1>3, <1>4, <1>5, LoseKeeps, SessionExpiresKeeps, RefreshExpiresKeeps DEF Next

-----------------------------------------------------------------------------

\* Under the invariant an account has at most one session, and one closed on
\* all devices has no token that works.
LEMMA SInvMeans == SInv => TypeOK /\ SingleSession /\ ClosedOnAllDevices
<1> SUFFICES ASSUME SInv PROVE TypeOK /\ SingleSession /\ ClosedOnAllDevices
  OBVIOUS
<1>1. ASSUME NEW u \in Users
      PROVE  Cardinality(Live(u)) <= 1
  <2>1. CASE Live(u) = {}
    BY <2>1, FS_EmptySet
  <2>2. CASE Live(u) # {}
    <3>1. PICK t : t \in Live(u)
      BY <2>2
    <3>2. Live(u) = {t}
      BY <3>1 DEF SInv, OneLive
    <3>3. Cardinality({t}) = 1
      BY FS_Singleton, Zenon
    <3>4. Cardinality(Live(u)) = 1
      BY <3>2, <3>3, Zenon
    <3> QED
      BY <3>4
  <2> QED
    BY <2>1, <2>2
<1>2. ASSUME NEW a \in held, access[a] \in closed
      PROVE  ~Usable(a)
  BY <1>2 DEF SInv, ClosedHasNone, Usable
<1> QED
  BY <1>1, <1>2 DEF SInv, SingleSession, ClosedOnAllDevices

\* The inductive invariant holds always.
THEOREM SessionInvariance == ASSUME ~SameUser PROVE Spec => []SInv
<1>1. Init => SInv
  BY InitSInv
<1>2. SInv /\ [Next]_vars => SInv'
  BY StepSInv
<1> QED
  BY <1>1, <1>2, PTL DEF Spec

\* The state has its type.
THEOREM TypeCorrect == ASSUME ~SameUser PROVE Spec => []TypeOK
<1>1. SInv => TypeOK
  BY SInvMeans
<1> QED
  BY <1>1, SessionInvariance, PTL

\* An account never has two refresh tokens that are not revoked, as long as those who
\* open and end its sessions wait for each other, whatever they lose half-way.
THEOREM OneSession == ASSUME ~SameUser PROVE Spec => []SingleSession
<1>1. SInv => SingleSession
  BY SInvMeans
<1> QED
  BY <1>1, SessionInvariance, PTL

\* Once an account is closed on all devices no token works until somebody logs
\* in, whatever requests are lost half-way between Redis and PostgreSQL.
THEOREM SessionsClosed == ASSUME ~SameUser PROVE Spec => []ClosedOnAllDevices
<1>1. SInv => ClosedOnAllDevices
  BY SInvMeans
<1> QED
  BY <1>1, SessionInvariance, PTL
=============================================================================
