----------------------------- MODULE UserAccess -----------------------------
(***************************************************************************)
(* The accounts of the server and what its administrators do to them:      *)
(*   internal/auth/store.go       bootstrap, CreateUser, UpdateAccess,     *)
(*                                DeleteUser                               *)
(*   internal/auth/middleware.go  AuthMiddleware, RequireAdmin             *)
(*   internal/api/auth.go         the handlers that call them              *)
(*   internal/api/rate_limiter.go the failed logins of each address        *)
(*                                                                         *)
(* A handler checks who calls it, and only then begins its transaction.    *)
(* SQLite shows a transaction the database as its first read found it, and *)
(* refuses its first write when another one has committed since.           *)
(***************************************************************************)
EXTENDS Integers, FiniteSets

CONSTANTS
    Users,       \* account ids: UUIDs, never drawn twice
    Requests,    \* slots for administrators' requests that overlap
    Logins,      \* slots for logins that overlap
    Ips,         \* addresses of clients
    MaxAttempts, \* LoginRateLimiter.maxAttempts
    Null         \* no account, no request, no address

ASSUME AccessAssumption ==
    /\ IsFiniteSet(Users) /\ IsFiniteSet(Logins) /\ MaxAttempts \in Nat \ {0}
    /\ Null \notin Users \cup Requests \cup Ips
    /\ Null \notin [role : {"admin", "other"}, active : BOOLEAN]

VARIABLES
    running,  \* the server serves requests
    users,    \* the table of users
    drawn,    \* the account ids that have been drawn
    call,     \* what each request is about and how far its transaction is
    writer,   \* the request whose transaction holds SQLite's write lock
    attempts, \* failures of each address inside the window
    checking  \* per login past Allow, its address

accounts == <<users, drawn>>
limiter == <<attempts, checking>>
vars == <<running, accounts, call, writer, limiter>>

\* Developers and viewers may both not manage users: one role stands for them.
Account == [role : {"admin", "other"}, active : BOOLEAN]

\* An update has a target and an account, a creation no target, a deletion no
\* account.
Call == {c \in [by : Users, target : Users \cup {Null}, account : Account \cup {Null},
                step : {"asked", "checked", "written"}, stale : BOOLEAN] :
           c.target = Null => c.account # Null}

-----------------------------------------------------------------------------
(* The table of users.                                                     *)

IsAdmin(account) == account # Null /\ account.role = "admin" /\ account.active
Administrators == {u \in Users : IsAdmin(users[u])}

\* What others see of a commit: a transaction that has read before it is stale.
Outdated(calls) == [r \in Requests |->
    IF calls[r] # Null /\ calls[r].step = "checked" THEN [calls[r] EXCEPT !.stale = TRUE]
    ELSE calls[r]]

\* Another account is inserted, under an id that was never used.
Insert(account) == \E u \in Users \ drawn :
    users' = [users EXCEPT ![u] = account] /\ drawn' = drawn \cup {u}

-----------------------------------------------------------------------------
(* The server starts, and inserts its default administrator into an empty  *)
(* table; it may stop at any time.                                         *)

Start ==
    /\ ~running /\ running' = TRUE
    /\ IF \A u \in Users : users[u] = Null
       THEN Insert([role |-> "admin", active |-> TRUE])
       ELSE UNCHANGED accounts
    /\ UNCHANGED <<call, writer, limiter>>

Stop ==
    /\ running /\ running' = FALSE
    /\ call' = [r \in Requests |-> Null] /\ writer' = Null
    /\ attempts' = [ip \in Ips |-> 0] /\ checking' = [l \in Logins |-> Null]
    /\ UNCHANGED accounts

-----------------------------------------------------------------------------
(* Administrators' requests.                                               *)

\* Whoever calls is an active administrator at this moment, and deletes
\* another one's account.
ChangeArrives(r, by, target, account) ==
    /\ running /\ call[r] = Null
    /\ by \in Administrators
    /\ account = Null => target \notin {by, Null}
    /\ target = Null => account.active
    /\ call' = [call EXCEPT ![r] = [by |-> by, target |-> target, account |-> account,
                                    step |-> "asked", stale |-> FALSE]]
    /\ UNCHANGED <<running, accounts, writer, limiter>>

\* The password is hashed before the one statement that inserts.
CreateUser(r) ==
    /\ call[r] # Null /\ call[r].target = Null /\ writer = Null
    /\ Insert(call[r].account)
    /\ call' = Outdated([call EXCEPT ![r] = Null])
    /\ UNCHANGED <<running, writer, limiter>>

RemovesAdministrator(c) == c.target \in Administrators /\ ~IsAdmin(c.account)
DeactivatesSelf(c) == c.target = c.by /\ c.account # Null /\ ~c.account.active

\* The reads of UpdateAccess and DeleteUser: all of one snapshot.
Checks(r) ==
    /\ call[r] # Null /\ call[r].target # Null /\ call[r].step = "asked"
    /\ users[call[r].target] # Null /\ ~DeactivatesSelf(call[r])
    /\ RemovesAdministrator(call[r]) => Cardinality(Administrators) > 1
    /\ call' = [call EXCEPT ![r].step = "checked"]
    /\ UNCHANGED <<running, accounts, writer, limiter>>

\* A faulty variant, to show that the properties tell it apart: the checks were
\* made before the transaction, which then meets no conflict.
Writes_checkedBefore(r) ==
    /\ call[r] # Null /\ call[r].step = "checked" /\ writer = Null
    /\ writer' = r /\ call' = [call EXCEPT ![r].step = "written"]
    /\ UNCHANGED <<running, accounts, limiter>>

\* The UPDATE or the DELETE of the transaction that has made its checks.
Writes(r) ==
    /\ call[r] # Null /\ call[r].step = "checked" /\ ~call[r].stale /\ writer = Null
    /\ writer' = r /\ call' = [call EXCEPT ![r].step = "written"]
    /\ UNCHANGED <<running, accounts, limiter>>

Commits(r) ==
    /\ call[r] # Null /\ call[r].step = "written"
    /\ users' = [users EXCEPT ![call[r].target] = call[r].account]
    /\ writer' = Null /\ call' = Outdated([call EXCEPT ![r] = Null])
    /\ UNCHANGED <<running, drawn, limiter>>

\* A refused check, a conflict, an error or a client that has gone: the deferred
\* rollback ends the transaction.
Fails(r) ==
    /\ call[r] # Null /\ call' = [call EXCEPT ![r] = Null]
    /\ writer' = IF writer = r THEN Null ELSE writer
    /\ UNCHANGED <<running, accounts, limiter>>

-----------------------------------------------------------------------------
(* Logins.  The limiter is asked first and told last, with the comparison  *)
(* of the password in between.                                             *)

\* A faulty variant, to show that the properties tell it apart: off by one.
Allow_oneMore(l, ip) ==
    /\ running /\ checking[l] = Null /\ attempts[ip] <= MaxAttempts
    /\ checking' = [checking EXCEPT ![l] = ip]
    /\ UNCHANGED <<running, accounts, call, writer, attempts>>

Allow(l, ip) ==
    /\ running /\ checking[l] = Null /\ attempts[ip] < MaxAttempts
    /\ checking' = [checking EXCEPT ![l] = ip]
    /\ UNCHANGED <<running, accounts, call, writer, attempts>>

\* A body that cannot be read is answered without counting.
Unreadable(l) ==
    /\ checking[l] # Null /\ checking' = [checking EXCEPT ![l] = Null]
    /\ UNCHANGED <<running, accounts, call, writer, attempts>>

RecordFailure(l) ==
    /\ checking[l] # Null /\ checking' = [checking EXCEPT ![l] = Null]
    /\ attempts' = [attempts EXCEPT ![checking[l]] = @ + 1]
    /\ UNCHANGED <<running, accounts, call, writer>>

Reset(l) ==
    /\ checking[l] # Null /\ checking' = [checking EXCEPT ![l] = Null]
    /\ \E u \in Users : users[u] # Null /\ users[u].active
    /\ attempts' = [attempts EXCEPT ![checking[l]] = 0]
    /\ UNCHANGED <<running, accounts, call, writer>>

\* The oldest failure leaves the sliding window.
WindowMoves(ip) ==
    /\ attempts[ip] > 0 /\ attempts' = [attempts EXCEPT ![ip] = @ - 1]
    /\ UNCHANGED <<running, accounts, call, writer, checking>>

-----------------------------------------------------------------------------
TypeOK ==
    /\ running \in BOOLEAN
    /\ users \in [Users -> Account \cup {Null}] /\ drawn \subseteq Users
    /\ call \in [Requests -> Call \cup {Null}] /\ writer \in Requests \cup {Null}
    /\ attempts \in [Ips -> Nat] /\ checking \in [Logins -> Ips \cup {Null}]

\* An installation that was never started.
Init ==
    /\ running = FALSE
    /\ users = [u \in Users |-> Null] /\ drawn = {}
    /\ call = [r \in Requests |-> Null] /\ writer = Null
    /\ attempts = [ip \in Ips |-> 0] /\ checking = [l \in Logins |-> Null]

RequestStep(r) ==
    \/ \E by \in Users, target \in Users \cup {Null}, account \in Account \cup {Null} :
         ChangeArrives(r, by, target, account)
    \/ CreateUser(r)
    \/ Checks(r) \/ Writes(r) \/ Commits(r) \/ Fails(r)

LoginStep(l) ==
    \/ \E ip \in Ips : Allow(l, ip)
    \/ Unreadable(l) \/ RecordFailure(l) \/ Reset(l)

Next ==
    \/ Start \/ Stop
    \/ \E r \in Requests : RequestStep(r)
    \/ \E l \in Logins : LoginStep(l)
    \/ \E ip \in Ips : WindowMoves(ip)

Spec == Init /\ [][Next]_vars

-----------------------------------------------------------------------------
(* Properties.                                                             *)

\* While the server runs there is an active administrator, whoever demotes,
\* deactivates and deletes whom at the same time ("preserves at least one active
\* administrator"): without one nobody could ever appoint another.
AdministratorRemains == running => Administrators # {}

\* An address never has more failures inside the window than the limit, and the
\* logins that were let in together with the one that reaches it.
FailuresBounded == \A ip \in Ips :
    attempts[ip] + Cardinality({l \in Logins : checking[l] = ip})
        < MaxAttempts + Cardinality(Logins)
=============================================================================
