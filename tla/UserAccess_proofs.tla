-------------------------- MODULE UserAccess_proofs --------------------------
(***************************************************************************)
(* Proofs about UserAccess, for any number of accounts, requests, logins   *)
(* and addresses: an active administrator remains, and the failures of an  *)
(* address are bounded.                                                    *)
(***************************************************************************)
EXTENDS UserAccess, FiniteSetTheorems, TLAPS

-----------------------------------------------------------------------------
(* The inductive invariant.                                                *)

\* A table that is not empty has an active administrator.
Governed == running \/ (\E u \in Users : users[u] # Null) => Administrators # {}

\* The ids of accounts are never drawn again.
AllDrawn == \A u \in Users : users[u] # Null => u \in drawn

\* After the change of c somebody is left.
LeavesOne(c) == \E a \in Users : IsAdmin(IF a = c.target THEN c.account ELSE users[a])

\* What a transaction has checked is still so, unless it will meet a conflict.
Pending(c) ==
    c.step # "asked" => c.target \in drawn /\ (~c.stale => LeavesOne(c))

\* A transaction that has written holds the lock, and its snapshot is the newest.
Locked(r) == call[r].step = "written" => writer = r /\ ~call[r].stale

Transactions == \A r \in Requests : call[r] # Null => Pending(call[r]) /\ Locked(r)

\* A stop ends every request.
Serving == \A r \in Requests : call[r] # Null => running

IInv == TypeOK /\ Governed /\ AllDrawn /\ Serving /\ Transactions

-----------------------------------------------------------------------------
(* Facts about the helpers.                                                *)

\* Of more than one, another than a given one.
LEMMA AnotherOne ==
    ASSUME NEW S, IsFiniteSet(S), Cardinality(S) > 1, NEW t
    PROVE  \E a \in S : a # t
<1>1. SUFFICES ASSUME S \subseteq {t} PROVE FALSE
  OBVIOUS
<1>2. IsFiniteSet({t}) /\ Cardinality({t}) = 1
  BY FS_Singleton
<1>3. Cardinality(S) <= 1
  BY <1>1, <1>2, FS_Subset
<1>4. Cardinality(S) \in Nat
  BY FS_CardinalityType
<1>. QED BY <1>3, <1>4

\* A call is not the absence of one, nor an account that of one.
LEMMA NullApart ==
    /\ Null \notin Users /\ Null \notin Requests /\ Null \notin Ips /\ Null \notin Account
    /\ IsFiniteSet(Users) /\ IsFiniteSet(Logins) /\ MaxAttempts \in Nat \ {0}
BY AccessAssumption DEF Account

\* The accounts after an insertion.
LEMMA InsertFits ==
    ASSUME NEW account \in Account, TypeOK, AllDrawn, Insert(account)
    PROVE  /\ users' \in [Users -> Account \cup {Null}] /\ drawn' \subseteq Users
           /\ AllDrawn' /\ drawn \subseteq drawn'
           /\ \A u \in Users : users[u] # Null => users'[u] = users[u]
           /\ \E u \in Users : users'[u] = account
<1>1. PICK u \in Users \ drawn : users' = [users EXCEPT ![u] = account]
                                 /\ drawn' = drawn \cup {u}
  BY DEF Insert
<1>2. users[u] = Null
  BY <1>1 DEF AllDrawn
<1>. QED BY <1>1, <1>2 DEF TypeOK, AllDrawn

\* Every transaction goes on without the lock, those that have read a snapshot
\* as stale ones: what they have checked no longer counts.
LEMMA OutdatedFits ==
    ASSUME NEW calls \in [Requests -> Call \cup {Null}], NEW kept, drawn \subseteq kept,
           \A r \in Requests : calls[r] # Null =>
              /\ calls[r].step # "written"
              /\ calls[r].step # "asked" => calls[r].target \in drawn
    PROVE  /\ Outdated(calls) \in [Requests -> Call \cup {Null}]
           /\ \A r \in Requests : Outdated(calls)[r] # Null =>
                /\ Outdated(calls)[r].step # "written"
                /\ Outdated(calls)[r].step # "asked" =>
                     Outdated(calls)[r].target \in kept /\ Outdated(calls)[r].stale
<1>1. ASSUME NEW r \in Requests, calls[r] # Null
      PROVE  calls[r] \in Call /\ [calls[r] EXCEPT !.stale = TRUE] \in Call
  BY <1>1 DEF Call
<1>2. ASSUME NEW r \in Requests, calls[r] # Null
      PROVE  /\ [calls[r] EXCEPT !.stale = TRUE].stale
             /\ [calls[r] EXCEPT !.stale = TRUE].step = calls[r].step
             /\ [calls[r] EXCEPT !.stale = TRUE].target = calls[r].target
  BY <1>1, <1>2 DEF Call
<1>3. ASSUME NEW r \in Requests, calls[r] # Null, calls[r].step # "checked"
      PROVE  calls[r].step = "asked"
  BY <1>1, <1>3 DEF Call
<1>. QED BY <1>1, <1>2, <1>3 DEF Outdated

-----------------------------------------------------------------------------
(* Each step keeps the invariant.                                          *)

\* A new installation has nobody, and nothing to govern.
LEMMA InitInvariant == Init => IInv
<1>. SUFFICES ASSUME Init PROVE IInv
  OBVIOUS
<1>1. TypeOK
  BY DEF Init, TypeOK
<1>2. Governed /\ AllDrawn /\ Serving
  BY DEF Init, Governed, AllDrawn, Serving
<1>3. Transactions
  BY DEF Init, Transactions
<1>. QED BY <1>1, <1>2, <1>3 DEF IInv

\* A step that leaves the accounts and the requests alone only has to fit the types.
LEMMA OtherStep ==
    ASSUME IInv, TypeOK', UNCHANGED <<running, accounts, call, writer>>
    PROVE  IInv'
BY DEF IInv, Governed, AllDrawn, Serving, Transactions, Pending, Locked, LeavesOne,
       accounts, Administrators

\* Starting inserts an administrator where there is nobody.
LEMMA StartKeeps == IInv /\ Start => IInv'
<1>. SUFFICES ASSUME IInv, Start PROVE IInv'
  OBVIOUS
<1>. DEFINE admin == [role |-> "admin", active |-> TRUE]
<1>0. \A r \in Requests : call[r] = Null /\ call'[r] = Null
  BY DEF Start, IInv, Serving
<1>1. admin \in Account /\ IsAdmin(admin)
  <2>1. admin \in Account
    BY DEF Account
  <2>. QED BY <2>1, NullApart DEF IsAdmin
<1>2. CASE \A u \in Users : users[u] = Null
  <2>1. Insert(admin) /\ TypeOK /\ AllDrawn
    BY <1>2 DEF Start, IInv
  <2>2. /\ users' \in [Users -> Account \cup {Null}] /\ drawn' \subseteq Users
        /\ AllDrawn' /\ drawn \subseteq drawn' /\ \E u \in Users : users'[u] = admin
    BY <1>1, <2>1, InsertFits
  <2>3. TypeOK' /\ Governed'
    BY <1>1, <2>2 DEF Start, IInv, TypeOK, Governed, Administrators, limiter
  <2>. QED BY <1>0, <2>2, <2>3 DEF IInv, Serving, Transactions, Start, limiter
<1>3. CASE ~ \A u \in Users : users[u] = Null
  <2>1. UNCHANGED <<accounts, call, writer, limiter>> /\ running' = TRUE
    BY <1>3 DEF Start
  <2>. QED BY <1>0, <1>3, <2>1 DEF IInv, TypeOK, Governed, AllDrawn, Serving, Transactions,
              accounts, limiter, Administrators
<1>. QED BY <1>2, <1>3

\* A stop ends every transaction.
LEMMA StopKeeps == IInv /\ Stop => IInv'
<1>. SUFFICES ASSUME IInv, Stop PROVE IInv'
  OBVIOUS
<1>1. TypeOK'
  BY DEF IInv, Stop, TypeOK, accounts
<1>2. Governed' /\ AllDrawn'
  BY DEF IInv, Stop, Governed, AllDrawn, accounts, Administrators
<1>3. Serving' /\ Transactions'
  BY DEF Stop, Serving, Transactions
<1>. QED BY <1>1, <1>2, <1>3 DEF IInv

\* A new request has not checked anything.
LEMMA ChangeArrivesKeeps ==
    ASSUME IInv, NEW r \in Requests, NEW by \in Users, NEW target \in Users \cup {Null},
           NEW account \in Account \cup {Null}, ChangeArrives(r, by, target, account)
    PROVE  IInv'
<1>. DEFINE c == [by |-> by, target |-> target, account |-> account,
                  step |-> "asked", stale |-> FALSE]
<1>1. c \in Call /\ call' = [call EXCEPT ![r] = c] /\ c.step = "asked"
  BY DEF Call, ChangeArrives
<1>2. UNCHANGED <<running, users, drawn, writer, attempts, checking>>
  BY DEF ChangeArrives, accounts, limiter
<1>3. TypeOK'
  BY <1>1, <1>2 DEF IInv, TypeOK
<1>4. Governed' /\ AllDrawn' /\ Serving'
  BY <1>2 DEF IInv, Governed, AllDrawn, Serving, Administrators, ChangeArrives
<1>5. ASSUME NEW q \in Requests, call'[q] # Null PROVE Pending(call[q])' /\ Locked(q)'
  <2>1. CASE q = r
    <3>1. call'[q].step = "asked"
      BY <1>1, <2>1 DEF IInv, TypeOK
    <3>. QED BY <3>1 DEF Pending, Locked
  <2>2. CASE q # r
    <3>1. call'[q] = call[q] /\ Pending(call[q]) /\ Locked(q)
      BY <1>1, <1>5, <2>2 DEF IInv, TypeOK, Transactions
    <3>. QED BY <1>2, <3>1 DEF Pending, Locked, LeavesOne
  <2>. QED BY <2>1, <2>2
<1>. QED BY <1>3, <1>4, <1>5 DEF IInv, Transactions

\* The reads leave a transaction with a change that leaves an administrator.
LEMMA ChecksKeeps ==
    ASSUME IInv, NEW r \in Requests, Checks(r)
    PROVE  IInv'
<1>. DEFINE c == call[r]
<1>. DEFINE checked == [c EXCEPT !.step = "checked"]
<1>1. /\ c \in Call /\ c # Null /\ c.target \in Users /\ users[c.target] # Null
      /\ RemovesAdministrator(c) => Cardinality(Administrators) > 1
  BY DEF Checks, IInv, TypeOK, Call
<1>2. /\ call' = [call EXCEPT ![r] = checked] /\ checked \in Call
      /\ checked.step = "checked" /\ checked.target = c.target /\ checked.account = c.account
  BY <1>1 DEF Checks, Call
<1>3. UNCHANGED <<running, users, drawn, writer, attempts, checking>>
  BY DEF Checks, accounts, limiter
<1>4. TypeOK' /\ Governed' /\ AllDrawn' /\ Serving'
  BY <1>1, <1>2, <1>3 DEF IInv, TypeOK, Governed, AllDrawn, Serving, Administrators
<1>5. LeavesOne(c)
  <2>1. CASE RemovesAdministrator(c)
    <3>1. IsFiniteSet(Administrators)
      BY NullApart, FS_Subset DEF Administrators
    <3>2. PICK a \in Administrators : a # c.target
      BY <1>1, <2>1, <3>1, AnotherOne
    <3>. QED BY <3>2 DEF LeavesOne, Administrators
  <2>2. CASE ~RemovesAdministrator(c)
    <3>1. PICK a \in Administrators : TRUE
      BY <1>1 DEF IInv, Governed
    <3>2. CASE IsAdmin(c.account)
      BY <1>1, <3>2 DEF LeavesOne
    <3>3. CASE c.target \notin Administrators
      BY <3>1, <3>3 DEF LeavesOne, Administrators
    <3>. QED BY <2>2, <3>2, <3>3 DEF RemovesAdministrator
  <2>. QED BY <2>1, <2>2
<1>6. ASSUME NEW q \in Requests, call'[q] # Null PROVE Pending(call[q])' /\ Locked(q)'
  <2>1. CASE q = r
    <3>1. call'[q] = checked
      BY <1>2, <2>1 DEF IInv, TypeOK
    <3>2. c.target \in drawn
      BY <1>1 DEF IInv, AllDrawn
    <3>3. call'[q].target = c.target /\ call'[q].account = c.account
      BY <1>2, <3>1
    <3>4. LeavesOne(call[q])' /\ call'[q].target \in drawn'
      BY <1>3, <1>5, <3>2, <3>3 DEF LeavesOne
    <3>5. call'[q].step # "written"
      BY <1>2, <3>1
    <3>. QED BY <3>4, <3>5 DEF Pending, Locked
  <2>2. CASE q # r
    <3>1. call'[q] = call[q] /\ Pending(call[q]) /\ Locked(q)
      BY <1>2, <1>6, <2>2 DEF IInv, TypeOK, Transactions
    <3>. QED BY <1>3, <3>1 DEF Pending, Locked, LeavesOne
  <2>. QED BY <2>1, <2>2
<1>. QED BY <1>4, <1>6 DEF IInv, Transactions

\* A first write takes the lock, with a snapshot nobody has written over.
LEMMA WritesKeeps ==
    ASSUME IInv, NEW r \in Requests, Writes(r)
    PROVE  IInv'
<1>. DEFINE c == call[r]
<1>. DEFINE written == [c EXCEPT !.step = "written"]
<1>1. c \in Call /\ c # Null /\ c.step = "checked" /\ ~c.stale
  BY DEF Writes, IInv, TypeOK
<1>2. /\ call' = [call EXCEPT ![r] = written] /\ written \in Call
      /\ written.target = c.target /\ written.account = c.account /\ written.stale = c.stale
  BY <1>1 DEF Writes, Call
<1>3. UNCHANGED <<running, users, drawn, attempts, checking>> /\ writer = Null /\ writer' = r
  BY DEF Writes, accounts, limiter
<1>4. TypeOK' /\ Governed' /\ AllDrawn' /\ Serving'
  BY <1>1, <1>2, <1>3 DEF IInv, TypeOK, Governed, AllDrawn, Serving, Administrators
<1>5. ASSUME NEW q \in Requests, call'[q] # Null PROVE Pending(call[q])' /\ Locked(q)'
  <2>1. CASE q = r
    <3>1. call'[q] = written /\ Pending(c)
      BY <1>1, <1>2, <2>1 DEF IInv, TypeOK, Transactions
    <3>2. c.target \in drawn /\ LeavesOne(c)
      BY <1>1, <3>1 DEF Pending
    <3>. QED BY <1>1, <1>2, <1>3, <2>1, <3>1, <3>2 DEF Pending, Locked, LeavesOne
  <2>2. CASE q # r
    <3>1. call'[q] = call[q] /\ Pending(call[q]) /\ Locked(q)
      BY <1>2, <1>5, <2>2 DEF IInv, TypeOK, Transactions
    <3>2. call[q].step # "written"
      BY <1>3, <3>1, NullApart DEF Locked
    <3>. QED BY <1>3, <3>1, <3>2 DEF Pending, Locked, LeavesOne
  <2>. QED BY <2>1, <2>2
<1>. QED BY <1>4, <1>5 DEF IInv, Transactions

\* What follows a commit, of a transaction or of an insertion: the others are
\* stale, and only the accounts have to be looked at.
LEMMA CommitStep ==
    ASSUME IInv, NEW r \in Requests, call[r] # Null,
           \A q \in Requests : q # r /\ call[q] # Null => call[q].step # "written",
           call' = Outdated([call EXCEPT ![r] = Null]),
           users' \in [Users -> Account \cup {Null}], drawn' \subseteq Users,
           drawn \subseteq drawn', writer' = Null, UNCHANGED <<running, limiter>>,
           Governed', AllDrawn'
    PROVE  IInv'
<1>. DEFINE calls == [call EXCEPT ![r] = Null]
<1>1. calls \in [Requests -> Call \cup {Null}]
  BY DEF IInv, TypeOK
<1>2. ASSUME NEW q \in Requests, calls[q] # Null
      PROVE  calls[q].step # "written" /\ (calls[q].step # "asked" => calls[q].target \in drawn)
  <2>1. q # r /\ calls[q] = call[q]
    BY <1>2 DEF IInv, TypeOK
  <2>2. Pending(call[q])
    BY <1>2, <2>1 DEF IInv, Transactions
  <2>. QED BY <1>2, <2>1, <2>2 DEF Pending
<1>3. /\ call' \in [Requests -> Call \cup {Null}]
      /\ \A q \in Requests : call'[q] # Null =>
           /\ call'[q].step # "written"
           /\ call'[q].step # "asked" => call'[q].target \in drawn' /\ call'[q].stale
  <2>. HIDE DEF calls
  <2>. QED BY <1>1, <1>2, OutdatedFits DEF calls
<1>4. TypeOK'
  BY <1>3 DEF IInv, TypeOK, limiter
<1>5. Serving' /\ Transactions'
  BY <1>3 DEF IInv, Serving, Transactions, Pending, Locked
<1>. QED BY <1>4, <1>5 DEF IInv

\* A commit leaves the administrator that the checks have found.
LEMMA CommitsKeeps ==
    ASSUME IInv, NEW r \in Requests, Commits(r)
    PROVE  IInv'
<1>. DEFINE c == call[r]
<1>1. c \in Call /\ c # Null /\ c.step = "written"
  BY DEF Commits, IInv, TypeOK
<1>2. writer = r /\ c.target \in drawn /\ LeavesOne(c)
  BY <1>1 DEF IInv, Transactions, Pending, Locked
<1>3. /\ users' = [users EXCEPT ![c.target] = c.account] /\ writer' = Null
      /\ call' = Outdated([call EXCEPT ![r] = Null]) /\ UNCHANGED <<running, drawn, limiter>>
  BY DEF Commits
<1>4. c.target \in Users /\ c.account \in Account \cup {Null}
  BY <1>1, <1>2 DEF IInv, TypeOK, Call
<1>5. users' \in [Users -> Account \cup {Null}] /\ drawn' \subseteq Users /\ AllDrawn'
  BY <1>2, <1>3, <1>4 DEF IInv, TypeOK, AllDrawn
<1>6. Governed'
  <2>1. PICK a \in Users : IsAdmin(IF a = c.target THEN c.account ELSE users[a])
    BY <1>2 DEF LeavesOne
  <2>2. users'[a] = IF a = c.target THEN c.account ELSE users[a]
    BY <1>3 DEF IInv, TypeOK
  <2>3. a \in Administrators'
    BY <2>1, <2>2 DEF Administrators
  <2>. QED BY <2>3 DEF Governed
<1>7. \A q \in Requests : q # r /\ call[q] # Null => call[q].step # "written"
  BY <1>2 DEF IInv, Transactions, Locked
<1>. QED BY <1>1, <1>3, <1>5, <1>6, <1>7, CommitStep

\* A new account takes nothing from those that are there.
LEMMA CreateUserKeeps ==
    ASSUME IInv, NEW r \in Requests, CreateUser(r)
    PROVE  IInv'
<1>1. call[r] # Null /\ call[r].target = Null /\ writer = Null /\ Insert(call[r].account)
  BY DEF CreateUser
<1>2. writer' = Null /\ call' = Outdated([call EXCEPT ![r] = Null]) /\ UNCHANGED <<running, limiter>>
  BY <1>1 DEF CreateUser
<1>3. call[r].account \in Account
  BY <1>1 DEF IInv, TypeOK, Call
<1>4. TypeOK /\ AllDrawn /\ Governed
  BY DEF IInv
<1>5. /\ users' \in [Users -> Account \cup {Null}] /\ drawn' \subseteq Users
      /\ AllDrawn' /\ drawn \subseteq drawn'
      /\ \A u \in Users : users[u] # Null => users'[u] = users[u]
      /\ \E u \in Users : users'[u] = call[r].account
  BY <1>1, <1>3, <1>4, InsertFits
<1>6. Governed'
  <2>1. PICK a \in Users : IsAdmin(users[a])
    BY <1>1 DEF IInv, Serving, Governed, Administrators
  <2>2. users'[a] = users[a]
    BY <1>5, <2>1 DEF IsAdmin
  <2>. QED BY <2>1, <2>2 DEF Governed, Administrators
<1>7. \A q \in Requests : q # r /\ call[q] # Null => call[q].step # "written"
  BY <1>1, NullApart DEF IInv, Transactions, Locked
<1>. QED BY <1>1, <1>2, <1>5, <1>6, <1>7, CommitStep

\* A rollback gives the lock back and changes nothing.
LEMMA FailsKeeps ==
    ASSUME IInv, NEW r \in Requests, Fails(r)
    PROVE  IInv'
<1>1. /\ call' = [call EXCEPT ![r] = Null] /\ writer' = (IF writer = r THEN Null ELSE writer)
      /\ UNCHANGED <<running, users, drawn, attempts, checking>>
  BY DEF Fails, accounts, limiter
<1>2. TypeOK' /\ Governed' /\ AllDrawn' /\ Serving'
  BY <1>1 DEF IInv, TypeOK, Governed, AllDrawn, Serving, Administrators
<1>3. ASSUME NEW q \in Requests, call'[q] # Null PROVE Pending(call[q])' /\ Locked(q)'
  <2>1. q # r /\ call'[q] = call[q] /\ Pending(call[q]) /\ Locked(q)
    BY <1>1, <1>3 DEF IInv, TypeOK, Transactions
  <2>. QED BY <1>1, <2>1 DEF Pending, Locked, LeavesOne
<1>. QED BY <1>2, <1>3 DEF IInv, Transactions

\* Every step of the requests keeps the invariant; logins leave accounts alone.
THEOREM NextInvariant == IInv /\ [Next]_vars => IInv'
<1>. SUFFICES ASSUME IInv, [Next]_vars PROVE IInv'
  OBVIOUS
<1>1. CASE Start
  BY <1>1, StartKeeps
<1>2. CASE Stop
  BY <1>2, StopKeeps
<1>3. ASSUME NEW r \in Requests, RequestStep(r) PROVE IInv'
  BY <1>3, ChangeArrivesKeeps, CreateUserKeeps, ChecksKeeps, WritesKeeps, CommitsKeeps,
     FailsKeeps DEF RequestStep
<1>4. ASSUME NEW l \in Logins, LoginStep(l) PROVE IInv'
  <2>1. attempts' \in [Ips -> Nat] /\ checking' \in [Logins -> Ips \cup {Null}]
    BY <1>4, NullApart DEF IInv, TypeOK, LoginStep, Allow, Unreadable, RecordFailure, Reset
  <2>2. UNCHANGED <<running, accounts, call, writer>>
    BY <1>4 DEF LoginStep, Allow, Unreadable, RecordFailure, Reset
  <2>3. TypeOK'
    BY <2>1, <2>2 DEF IInv, TypeOK, accounts
  <2>. QED BY <2>2, <2>3, OtherStep
<1>5. ASSUME NEW ip \in Ips, WindowMoves(ip) PROVE IInv'
  <2>1. attempts' \in [Ips -> Nat] /\ UNCHANGED <<running, accounts, call, writer, checking>>
    BY <1>5 DEF IInv, TypeOK, WindowMoves
  <2>2. TypeOK'
    BY <2>1 DEF IInv, TypeOK, accounts
  <2>. QED BY <2>1, <2>2, OtherStep
<1>6. CASE UNCHANGED vars
  <2>1. TypeOK'
    BY <1>6 DEF IInv, TypeOK, vars, accounts, limiter
  <2>. QED BY <1>6, <2>1, OtherStep DEF vars
<1>. QED BY <1>1, <1>2, <1>3, <1>4, <1>5, <1>6 DEF Next

\* The invariant of every behaviour.
THEOREM Invariant == Spec => []IInv
BY InitInvariant, NextInvariant, PTL DEF Spec

-----------------------------------------------------------------------------
(* What follows.                                                           *)

\* The variables have their types.
THEOREM TypesHold == Spec => []TypeOK
<1>1. IInv => TypeOK
  BY DEF IInv
<1>. QED BY <1>1, Invariant, PTL

\* Whatever administrators do to each other at the same time, one is left.
THEOREM OneIsLeft == Spec => []AdministratorRemains
<1>1. IInv => AdministratorRemains
  BY DEF IInv, Governed, AdministratorRemains
<1>. QED BY <1>1, Invariant, PTL

\* The logins of an address that Allow has let through.
CheckedFrom(ip) == {l \in Logins : checking[l] = ip}

\* A failure takes the place of the login that makes it, and a login that is let
\* through finds fewer failures than the limit.
LEMMA BoundStep ==
    ASSUME TypeOK, FailuresBounded, [Next]_vars
    PROVE  FailuresBounded'
<1>1. ASSUME NEW ip \in Ips
      PROVE  /\ IsFiniteSet(CheckedFrom(ip)) /\ IsFiniteSet(CheckedFrom(ip)')
             /\ Cardinality(CheckedFrom(ip)) \in Nat /\ Cardinality(CheckedFrom(ip)') \in Nat
             /\ Cardinality(CheckedFrom(ip)') <= Cardinality(Logins)
             /\ Cardinality(Logins) \in Nat /\ attempts[ip] \in Nat
  <2>1. CheckedFrom(ip) \subseteq Logins /\ CheckedFrom(ip)' \subseteq Logins
    BY DEF CheckedFrom
  <2>. QED BY <2>1, NullApart, FS_Subset, FS_CardinalityType DEF TypeOK
<1>2. ASSUME NEW ip \in Ips, CheckedFrom(ip)' \subseteq CheckedFrom(ip), attempts'[ip] \in Nat,
             attempts'[ip] <= attempts[ip]
      PROVE  attempts'[ip] + Cardinality(CheckedFrom(ip)') < MaxAttempts + Cardinality(Logins)
  <2>1. Cardinality(CheckedFrom(ip)') <= Cardinality(CheckedFrom(ip))
    BY <1>1, <1>2, FS_Subset
  <2>2. attempts[ip] + Cardinality(CheckedFrom(ip)) < MaxAttempts + Cardinality(Logins)
    BY DEF FailuresBounded, CheckedFrom
  <2>. QED BY <1>1, <1>2, <2>1, <2>2, NullApart
<1>. SUFFICES ASSUME NEW ip \in Ips
              PROVE  attempts'[ip] + Cardinality(CheckedFrom(ip)') < MaxAttempts + Cardinality(Logins)
  BY DEF FailuresBounded, CheckedFrom
<1>3. CASE UNCHANGED limiter
  <2>1. attempts' = attempts /\ checking' = checking
    BY <1>3 DEF limiter
  <2>2. CheckedFrom(ip)' = CheckedFrom(ip)
    BY <2>1 DEF CheckedFrom
  <2>. QED BY <1>1, <1>2, <2>1, <2>2
<1>4. CASE Stop
  <2>1. attempts'[ip] = 0 /\ \A l \in Logins : checking'[l] = Null
    BY <1>4 DEF Stop
  <2>2. CheckedFrom(ip)' = {}
    BY <2>1, NullApart DEF CheckedFrom
  <2>. QED BY <1>1, <1>2, <2>1, <2>2
<1>5. CASE WindowMoves(ip)
  <2>1. attempts'[ip] = attempts[ip] - 1 /\ attempts[ip] > 0 /\ checking' = checking
    BY <1>5 DEF WindowMoves, TypeOK
  <2>2. CheckedFrom(ip)' = CheckedFrom(ip)
    BY <2>1 DEF CheckedFrom
  <2>. QED BY <1>1, <1>2, <2>1, <2>2
<1>6. ASSUME NEW l \in Logins, NEW from \in Ips, Allow(l, from)
      PROVE  attempts'[ip] + Cardinality(CheckedFrom(ip)') < MaxAttempts + Cardinality(Logins)
  <2>1. attempts' = attempts /\ checking' = [checking EXCEPT ![l] = from] /\ attempts[from] < MaxAttempts
    BY <1>6 DEF Allow
  <2>2. CASE ip = from
    BY <1>1, <2>1, <2>2, NullApart
  <2>3. CASE ip # from
    <3>1. CheckedFrom(ip)' \subseteq CheckedFrom(ip)
      BY <2>1, <2>3 DEF CheckedFrom, TypeOK
    <3>. QED BY <1>1, <1>2, <2>1, <3>1
  <2>. QED BY <2>2, <2>3
<1>7. ASSUME NEW l \in Logins, Unreadable(l) \/ RecordFailure(l) \/ Reset(l)
      PROVE  attempts'[ip] + Cardinality(CheckedFrom(ip)') < MaxAttempts + Cardinality(Logins)
  <2>1. checking[l] \in Ips /\ checking' = [checking EXCEPT ![l] = Null]
    BY <1>7 DEF Unreadable, RecordFailure, Reset, TypeOK
  <2>2. CheckedFrom(ip)' = CheckedFrom(ip) \ {l}
    BY <2>1, NullApart DEF CheckedFrom, TypeOK
  <2>3. CASE RecordFailure(l) /\ checking[l] = ip
    <3>1. attempts'[ip] = attempts[ip] + 1 /\ l \in CheckedFrom(ip)
      BY <2>3 DEF RecordFailure, TypeOK, CheckedFrom
    <3>2. Cardinality(CheckedFrom(ip)') = Cardinality(CheckedFrom(ip)) - 1
      BY <1>1, <2>2, <3>1, FS_RemoveElement
    <3>3. attempts[ip] + Cardinality(CheckedFrom(ip)) < MaxAttempts + Cardinality(Logins)
      BY DEF FailuresBounded, CheckedFrom
    <3>. QED BY <1>1, <3>1, <3>2, <3>3, NullApart
  <2>4. CASE ~(RecordFailure(l) /\ checking[l] = ip)
    <3>1. attempts'[ip] \in {attempts[ip], 0}
      BY <1>7, <2>4 DEF Unreadable, RecordFailure, Reset, TypeOK
    <3>. QED BY <1>1, <1>2, <2>2, <3>1
  <2>. QED BY <2>3, <2>4
<1>8. ASSUME NEW other \in Ips, WindowMoves(other), other # ip
      PROVE  attempts'[ip] + Cardinality(CheckedFrom(ip)') < MaxAttempts + Cardinality(Logins)
  <2>1. attempts'[ip] = attempts[ip] /\ checking' = checking
    BY <1>8 DEF WindowMoves, TypeOK
  <2>2. CheckedFrom(ip)' = CheckedFrom(ip)
    BY <2>1 DEF CheckedFrom
  <2>. QED BY <1>1, <1>2, <2>1, <2>2
<1>9. ASSUME NEW r \in Requests, RequestStep(r) PROVE UNCHANGED limiter
  BY <1>9 DEF RequestStep, ChangeArrives, CreateUser, Checks, Writes, Commits, Fails
<1>10. CASE Start \/ UNCHANGED vars
  BY <1>3, <1>10 DEF Start, vars
<1>. QED BY <1>3, <1>4, <1>5, <1>6, <1>7, <1>8, <1>9, <1>10 DEF Next, LoginStep

\* However many logins overlap, those that are let through are bounded.
THEOREM LoginsAreBounded == Spec => []FailuresBounded
<1>1. Init => FailuresBounded
  <2>. SUFFICES ASSUME Init, NEW ip \in Ips
                PROVE  attempts[ip] + Cardinality(CheckedFrom(ip)) < MaxAttempts + Cardinality(Logins)
    BY DEF FailuresBounded, CheckedFrom
  <2>1. attempts[ip] = 0 /\ CheckedFrom(ip) = {}
    BY NullApart DEF Init, CheckedFrom
  <2>2. Cardinality({}) = 0 /\ Cardinality(Logins) \in Nat
    BY FS_EmptySet, FS_CardinalityType, NullApart
  <2>. QED BY <2>1, <2>2, NullApart
<1>2. TypeOK /\ FailuresBounded /\ [Next]_vars => FailuresBounded'
  BY BoundStep
<1>. QED BY <1>1, <1>2, TypesHold, PTL DEF Spec
=============================================================================
