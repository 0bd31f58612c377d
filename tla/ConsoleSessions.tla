-------------------------- MODULE ConsoleSessions --------------------------
(***************************************************************************)
(* Manual transactions of the query console:                               *)
(*   internal/consolesession/manager.go  the Manager and its mutex         *)
(*   internal/api/console_sessions.go    the handlers, the factory and the *)
(*                                       transaction that owns its pool    *)
(*   internal/adapter/{postgres,mysql}/session.go  the pinned connection   *)
(*                                                                         *)
(* Every HTTP call runs the manager's operation under one mutex that stays *)
(* held while the database is asked.  Meanwhile the other calls wait, time *)
(* passes, request contexts expire, the connection may become read-only    *)
(* and the server may shut down, so a call is a sequence of steps: it      *)
(* arrives, takes the mutex and decides, asks the database, and returns.   *)
(* What happens between taking the mutex and the first database call is    *)
(* one step, because only the holder of the mutex touches that state.      *)
(***************************************************************************)
EXTENDS Integers, FiniteSets

CONSTANTS
  Calls,    \* slots for HTTP calls that are in the server at the same time
  Owners,   \* authenticated users ("local-desktop" when auth is off)
  Tabs,     \* console tabs
  Ids,      \* session tokens: 32 random bytes, never drawn twice
  Janitor,  \* the goroutine in Manager.Run
  Closer,   \* the goroutine in Server.Close
  Nobody,   \* no process holds the mutex
  PerUser,  \* Manager.perUser
  Total,    \* Manager.total
  Idle      \* Manager.idle, in ticks of the clock

ASSUME ConsoleAssumption ==
  /\ PerUser \in Nat \ {0} /\ Total \in Nat \ {0} /\ Idle \in Nat \ {0}
  /\ IsFiniteSet(Ids)
  /\ Janitor # Closer /\ Nobody \notin Calls \cup {Janitor, Closer}
  /\ Calls \cap {Janitor, Closer} = {}
  /\ Nobody \notin Owners \cup Tabs \cup Ids

VARIABLES
  mu,        \* the process holding Manager.mu
  pc,        \* where each process stands
  call,      \* what each busy call asks for
  ctxDone,   \* the calls whose context has been cancelled or has expired
  sessions,  \* Manager.sessions; age is now() - touched, stopped at Idle
  todo,      \* the map entries the loop of Expire or Close has still to visit
  closed,    \* Manager.closed
  cancelled, \* Server.consoleCancel has run
  tx,        \* what became of each transaction in the database
  pools,     \* the dedicated adapter pools that are open
  writable,  \* store.Get succeeds and ReadOnly is off for the connection
  failed     \* history: transactions one of whose statements was refused

manager == <<sessions, todo, closed>>
database == <<tx, pools>>
vars == <<mu, pc, call, ctxDone, sessions, todo, closed, cancelled, tx, pools,
          writable, failed>>

Procs == Calls \cup {Janitor, Closer}

NoSession == [owner |-> Nobody, tab |-> Nobody, aborted |-> FALSE, age |-> 0]
SessionType == [owner : Owners, tab : Tabs, aborted : BOOLEAN, age : 0..Idle]

NoCall == [op |-> "none", owner |-> Nobody, tab |-> Nobody, id |-> Nobody]
CallType ==
  [op : {"begin"}, owner : Owners, tab : Tabs, id : Ids]
    \cup [op : {"execute", "commit", "rollback"}, owner : Owners,
          tab : {Nobody}, id : Ids]

Live == {i \in Ids : sessions[i] # NoSession}
Of(o) == {i \in Live : sessions[i].owner = o}
Expired(i) == sessions[i].age >= Idle

\* Steps of a call between taking the mutex and returning.
InFactory == {"factory", "opened", "begun"}
InDatabase == InFactory \cup {"executing", "finishing", "cleanup"}

Init ==
  /\ mu = Nobody
  /\ pc = [p \in Procs |-> "free"]
  /\ call = [r \in Calls |-> NoCall]
  /\ ctxDone = {}
  /\ sessions = [i \in Ids |-> NoSession]
  /\ todo = {}
  /\ closed = FALSE /\ cancelled = FALSE
  /\ tx = [i \in Ids |-> "none"]
  /\ pools = {}
  /\ writable = TRUE
  /\ failed = {}

-----------------------------------------------------------------------------
(* Building blocks.                                                        *)

\* Mutex.Lock of process p, which was waiting for it.
Lock(p) == pc[p] = "waiting" /\ mu = Nobody

\* The call returns: deferred unlock, deferred cancel, reply to the client.
Return(r) ==
  /\ mu' = Nobody
  /\ pc' = [pc EXCEPT ![r] = "free"]
  /\ call' = [call EXCEPT ![r] = NoCall]
  /\ ctxDone' = ctxDone \ {r}

\* The call keeps the mutex and goes on.
Hold(r, where) ==
  /\ mu' = r
  /\ pc' = [pc EXCEPT ![r] = where]
  /\ UNCHANGED <<call, ctxDone>>

Touched(s) == [s EXCEPT !.age = 0]

Touch(i) == sessions' = [sessions EXCEPT ![i] = Touched(@)]

Delete(i) == sessions' = [sessions EXCEPT ![i] = NoSession]

\* Rollback of the owned transaction.  Whatever the database answers, the
\* deferred releases close the pinned connection and its pool, and a database
\* discards the transaction of a closed connection; one that ended stays ended.
RollbackTx(i) ==
  /\ tx' = [tx EXCEPT ![i] = IF @ = "open" THEN "rolledback" ELSE @]
  /\ pools' = pools \ {i}

\* The session exists, belongs to the owner of the call, and has not expired.
Owned(r) ==
  /\ call[r].id \in Live
  /\ sessions[call[r].id].owner = call[r].owner
  /\ ~Expired(call[r].id)

-----------------------------------------------------------------------------
(* Calls arrive with a context of their own, before they wait for the lock.*)

\* A token not yet drawn, and not set aside for a call that is running.
Fresh(i) ==
  /\ tx[i] = "none" /\ i \notin pools
  /\ \A r \in Calls : call[r].id # i

BeginArrives(r, o, t, i) ==
  /\ pc[r] = "free" /\ writable /\ Fresh(i)
  /\ call' = [call EXCEPT ![r] = [op |-> "begin", owner |-> o, tab |-> t, id |-> i]]
  /\ pc' = [pc EXCEPT ![r] = "waiting"]
  /\ UNCHANGED <<mu, ctxDone, manager, cancelled, database, writable, failed>>

\* A client can name any token, also one it does not own.
SessionCallArrives(r, op, o, i) ==
  /\ pc[r] = "free" /\ op \in {"execute", "commit", "rollback"}
  /\ tx[i] # "none"
  /\ call' = [call EXCEPT ![r] = [op |-> op, owner |-> o, tab |-> Nobody, id |-> i]]
  /\ pc' = [pc EXCEPT ![r] = "waiting"]
  /\ UNCHANGED <<mu, ctxDone, manager, cancelled, database, writable, failed>>

\* The deadline passes, or the client of a begin or execute goes away.
ContextEnds(r) ==
  /\ pc[r] # "free" /\ r \notin ctxDone
  /\ ctxDone' = ctxDone \cup {r}
  /\ UNCHANGED <<mu, pc, call, manager, cancelled, database, writable, failed>>

-----------------------------------------------------------------------------
(* Manager.Begin.                                                          *)

\* A faulty variant, to show that the properties tell it apart: a tab whose session
\* has failed is given another one.
WrongTabInUse(r) ==
  \E i \in Of(call[r].owner) : sessions[i].tab = call[r].tab /\ ~sessions[i].aborted

TabInUse(r) == \E i \in Of(call[r].owner) : sessions[i].tab = call[r].tab

\* A faulty variant, to show that the properties tell it apart: off by one.
WrongAtCapacity(o) == Cardinality(Of(o)) > PerUser \/ Cardinality(Live) > Total

AtCapacity(o) == Cardinality(Of(o)) >= PerUser \/ Cardinality(Live) >= Total

\* A faulty variant, to show that the properties tell it apart: shutdown is not looked at.
WrongMayBegin(r) == ~TabInUse(r) /\ ~AtCapacity(call[r].owner)

MayBegin(r) == ~closed /\ ~TabInUse(r) /\ ~AtCapacity(call[r].owner)

BeginRefused(r) ==
  /\ Lock(r) /\ call[r].op = "begin" /\ ~MayBegin(r)
  /\ Return(r)
  /\ UNCHANGED <<manager, cancelled, database, writable, failed>>

BeginLocks(r) ==
  /\ Lock(r) /\ call[r].op = "begin" /\ MayBegin(r)
  /\ Hold(r, "factory")
  /\ UNCHANGED <<manager, cancelled, database, writable, failed>>

\* openAdapter: the session's own pool.
FactoryOpens(r) ==
  /\ pc[r] = "factory"
  /\ pools' = pools \cup {call[r].id}
  /\ Hold(r, "opened")
  /\ UNCHANGED <<manager, cancelled, tx, writable, failed>>

\* BeginConsoleSession: pin a connection and open the transaction on it.
FactoryBegins(r) ==
  /\ pc[r] = "opened"
  /\ tx' = [tx EXCEPT ![call[r].id] = "open"]
  /\ Hold(r, "begun")
  /\ UNCHANGED <<manager, cancelled, pools, writable, failed>>

\* The factory fails before or after the pool is open: its deferred close runs.
FactoryFails(r) ==
  /\ pc[r] \in {"factory", "opened"}
  /\ pools' = pools \ {call[r].id}
  /\ Return(r)
  /\ UNCHANGED <<manager, cancelled, tx, writable, failed>>

\* A faulty variant, to show that the properties tell it apart: the tab is not recorded.
WrongNewSession(r) == [owner |-> call[r].owner, tab |-> Nobody,
                       aborted |-> FALSE, age |-> 0]

NewSession(r) == [owner |-> call[r].owner, tab |-> call[r].tab,
                  aborted |-> FALSE, age |-> 0]

\* A faulty variant, to show that the properties tell it apart: a late transaction is
\* dropped without a rollback.
WrongBeginTooLate(r) ==
  /\ pc[r] = "begun" /\ r \in ctxDone
  /\ Return(r)
  /\ UNCHANGED <<manager, cancelled, database, writable, failed>>

\* The answer came too late for the request: nobody would ever end the
\* transaction, so it is rolled back instead of registered.
BeginTooLate(r) ==
  /\ pc[r] = "begun" /\ r \in ctxDone
  /\ RollbackTx(call[r].id)
  /\ Return(r)
  /\ UNCHANGED <<manager, cancelled, writable, failed>>

BeginRegisters(r) ==
  /\ pc[r] = "begun" /\ r \notin ctxDone
  /\ sessions' = [sessions EXCEPT ![call[r].id] = NewSession(r)]
  /\ Return(r)
  /\ UNCHANGED <<todo, closed, cancelled, database, writable, failed>>

-----------------------------------------------------------------------------
(* Manager.owned: the failures common to Execute and Finish.               *)

\* A faulty variant, to show that the properties tell it apart: an early return
\* keeps the mutex.
WrongNotFound(r) ==
  /\ Lock(r) /\ call[r].op # "begin"
  /\ call[r].id \notin Live \/ sessions[call[r].id].owner # call[r].owner
  /\ Hold(r, "exited")
  /\ UNCHANGED <<manager, cancelled, database, writable, failed>>

NotFound(r) ==
  /\ Lock(r) /\ call[r].op # "begin"
  /\ call[r].id \notin Live \/ sessions[call[r].id].owner # call[r].owner
  /\ Return(r)
  /\ UNCHANGED <<manager, cancelled, database, writable, failed>>

FoundExpired(r) ==
  /\ Lock(r) /\ call[r].op # "begin"
  /\ call[r].id \in Live /\ sessions[call[r].id].owner = call[r].owner
  /\ Expired(call[r].id)
  /\ Delete(call[r].id)
  /\ RollbackTx(call[r].id)
  /\ Return(r)
  /\ UNCHANGED <<todo, closed, cancelled, writable, failed>>

\* ErrAborted before anything is done: a second statement, or a commit.
RefusedAborted(r) ==
  /\ Lock(r) /\ call[r].op \in {"execute", "commit"}
  /\ Owned(r) /\ sessions[call[r].id].aborted
  /\ Return(r)
  /\ UNCHANGED <<manager, cancelled, database, writable, failed>>

-----------------------------------------------------------------------------
(* Manager.Execute.                                                        *)

FailedSession(s) == [s EXCEPT !.aborted = TRUE, !.age = 0]

\* After an error the session only waits for its rollback; when the request is
\* gone too, nobody may ever send that rollback and the session ends at once.
Aborts(r) ==
  /\ failed' = failed \cup {call[r].id}
  /\ IF r \in ctxDone
       THEN Delete(call[r].id) /\ RollbackTx(call[r].id)
       ELSE /\ sessions' = [sessions EXCEPT ![call[r].id] = FailedSession(@)]
            /\ UNCHANGED database

MayExecute(r) ==
  /\ Lock(r) /\ call[r].op = "execute"
  /\ Owned(r) /\ ~sessions[call[r].id].aborted

\* The owned transaction refuses: the connection is read-only or deleted, or
\* the statement is one that manual mode does not support.
ExecuteRefused(r) ==
  /\ MayExecute(r)
  /\ Aborts(r)
  /\ Return(r)
  /\ UNCHANGED <<todo, closed, cancelled, writable>>

ExecuteLocks(r) ==
  /\ MayExecute(r) /\ writable
  /\ Touch(call[r].id)
  /\ Hold(r, "executing")
  /\ UNCHANGED <<todo, closed, cancelled, database, writable, failed>>

ExecuteSucceeds(r) ==
  /\ pc[r] = "executing" /\ r \notin ctxDone
  /\ Touch(call[r].id)
  /\ Return(r)
  /\ UNCHANGED <<todo, closed, cancelled, database, writable, failed>>

\* The database reports an error, or the context ended meanwhile.
ExecuteFails(r) ==
  /\ pc[r] = "executing"
  /\ Aborts(r)
  /\ Return(r)
  /\ UNCHANGED <<todo, closed, cancelled, writable>>

\* The driver panics: clean up, then let the panic go on to the HTTP server.
ExecutePanics(r) ==
  /\ pc[r] = "executing"
  /\ failed' = failed \cup {call[r].id}
  /\ Delete(call[r].id)
  /\ RollbackTx(call[r].id)
  /\ Return(r)
  /\ UNCHANGED <<todo, closed, cancelled, writable>>

-----------------------------------------------------------------------------
(* Manager.Finish: the session is removed before the database is asked.    *)

\* A faulty variant, to show that the properties tell it apart: a failed session
\* can be committed.
WrongMayFinish(r) == Owned(r) /\ call[r].op \in {"commit", "rollback"}

MayFinish(r) ==
  /\ Owned(r)
  /\ \/ call[r].op = "rollback"
     \/ call[r].op = "commit" /\ ~sessions[call[r].id].aborted

FinishLocks(r) ==
  /\ Lock(r) /\ MayFinish(r)
  /\ Delete(call[r].id)
  /\ Hold(r, "finishing")
  /\ UNCHANGED <<todo, closed, cancelled, database, writable, failed>>

RollbackReturns(r) ==
  /\ pc[r] = "finishing" /\ call[r].op = "rollback"
  /\ RollbackTx(call[r].id)
  /\ Return(r)
  /\ UNCHANGED <<manager, cancelled, writable, failed>>

CommitSucceeds(r) ==
  /\ pc[r] = "finishing" /\ call[r].op = "commit"
  /\ tx' = [tx EXCEPT ![call[r].id] = "committed"]
  /\ pools' = pools \ {call[r].id}
  /\ Return(r)
  /\ UNCHANGED <<manager, cancelled, writable, failed>>

\* An error or a panic from the driver.  The commit may have taken effect all
\* the same; the pool is closed either way, and the manager rolls back once more.
CommitFails(r) ==
  /\ pc[r] = "finishing" /\ call[r].op = "commit"
  /\ \E end \in {"committed", "rolledback"} : tx' = [tx EXCEPT ![call[r].id] = end]
  /\ pools' = pools \ {call[r].id}
  /\ Hold(r, "cleanup")
  /\ UNCHANGED <<manager, cancelled, writable, failed>>

FinishCleansUp(r) ==
  /\ pc[r] = "cleanup"
  /\ RollbackTx(call[r].id)
  /\ Return(r)
  /\ UNCHANGED <<manager, cancelled, writable, failed>>

-----------------------------------------------------------------------------
(* Manager.Run, Expire and Close; Server.Close.                            *)

\* The ticker fires and Expire waits for the mutex.
JanitorWakes ==
  /\ pc[Janitor] = "free"
  /\ pc' = [pc EXCEPT ![Janitor] = "waiting"]
  /\ UNCHANGED <<mu, call, ctxDone, manager, cancelled, database, writable, failed>>

\* Run sees its context done: its deferred Close waits for the mutex.
JanitorStops ==
  /\ pc[Janitor] = "free" /\ cancelled
  /\ pc' = [pc EXCEPT ![Janitor] = "stopping"]
  /\ UNCHANGED <<mu, call, ctxDone, manager, cancelled, database, writable, failed>>

\* Server.Close cancels Run, then calls Close itself.
ServerCloses ==
  /\ pc[Closer] = "free" /\ ~cancelled
  /\ cancelled' = TRUE
  /\ pc' = [pc EXCEPT ![Closer] = "stopping"]
  /\ UNCHANGED <<mu, call, ctxDone, manager, database, writable, failed>>

\* A faulty variant, to show that the properties tell it apart: the sweep does not
\* take the mutex.
WrongExpireLocks ==
  /\ pc[Janitor] = "waiting"
  /\ pc' = [pc EXCEPT ![Janitor] = "expiring"]
  /\ todo' = Live
  /\ UNCHANGED <<mu, call, ctxDone, sessions, closed, cancelled, database, writable, failed>>

ExpireLocks ==
  /\ Lock(Janitor)
  /\ Hold(Janitor, "expiring")
  /\ todo' = Live
  /\ UNCHANGED <<sessions, closed, cancelled, database, writable, failed>>

\* A faulty variant, to show that the properties tell it apart: failed sessions are
\* left to their clients.
WrongExpireVisits(i) ==
  /\ pc[Janitor] = "expiring" /\ i \in todo
  /\ todo' = todo \ {i}
  /\ IF Expired(i) /\ ~sessions[i].aborted
       THEN Delete(i) /\ RollbackTx(i) ELSE UNCHANGED <<sessions, database>>
  /\ UNCHANGED <<mu, pc, call, ctxDone, closed, cancelled, writable, failed>>

ExpireVisits(i) ==
  /\ pc[Janitor] = "expiring" /\ i \in todo
  /\ todo' = todo \ {i}
  /\ IF Expired(i) THEN Delete(i) /\ RollbackTx(i)
                   ELSE UNCHANGED <<sessions, database>>
  /\ UNCHANGED <<mu, pc, call, ctxDone, closed, cancelled, writable, failed>>

ExpireReturns ==
  /\ pc[Janitor] = "expiring" /\ todo = {}
  /\ mu' = Nobody
  /\ pc' = [pc EXCEPT ![Janitor] = "free"]
  /\ UNCHANGED <<call, ctxDone, manager, cancelled, database, writable, failed>>

\* A faulty variant, to show that the properties tell it apart: closed is not set.
WrongCloseLocks(p) ==
  /\ pc[p] = "stopping" /\ mu = Nobody
  /\ Hold(p, "closing")
  /\ todo' = Live
  /\ UNCHANGED <<sessions, closed, cancelled, database, writable, failed>>

CloseLocks(p) ==
  /\ pc[p] = "stopping" /\ mu = Nobody
  /\ Hold(p, "closing")
  /\ closed' = TRUE
  /\ todo' = Live
  /\ UNCHANGED <<sessions, cancelled, database, writable, failed>>

CloseVisits(p, i) ==
  /\ pc[p] = "closing" /\ i \in todo
  /\ todo' = todo \ {i}
  /\ Delete(i)
  /\ RollbackTx(i)
  /\ UNCHANGED <<mu, pc, call, ctxDone, closed, cancelled, writable, failed>>

CloseReturns(p) ==
  /\ pc[p] = "closing" /\ todo = {}
  /\ mu' = Nobody
  /\ pc' = [pc EXCEPT ![p] = "exited"]
  /\ UNCHANGED <<call, ctxDone, manager, cancelled, database, writable, failed>>

-----------------------------------------------------------------------------
(* The environment.                                                        *)

Older(s) == [s EXCEPT !.age = @ + 1]

\* The clock advances for every session; an age beyond Idle is told as Idle.
Tick ==
  /\ \E i \in Live : sessions[i].age < Idle
  /\ sessions' = [i \in Ids |->
       IF i \in Live /\ ~Expired(i)
         THEN Older(sessions[i]) ELSE sessions[i]]
  /\ UNCHANGED <<mu, pc, call, ctxDone, todo, closed, cancelled, database,
                 writable, failed>>

\* The connection is edited to be read-only, or writable again.
ToggleReadOnly ==
  /\ writable' = ~writable
  /\ UNCHANGED <<mu, pc, call, ctxDone, manager, cancelled, database, failed>>

-----------------------------------------------------------------------------
(* Specification.                                                          *)

Arrives(r) ==
  \/ \E o \in Owners, t \in Tabs, i \in Ids : BeginArrives(r, o, t, i)
  \/ \E op \in {"execute", "commit", "rollback"}, o \in Owners, i \in Ids :
       SessionCallArrives(r, op, o, i)

TakesLock(r) ==
  \/ BeginRefused(r) \/ BeginLocks(r)
  \/ NotFound(r) \/ FoundExpired(r) \/ RefusedAborted(r)
  \/ ExecuteRefused(r) \/ ExecuteLocks(r) \/ FinishLocks(r)

DatabaseAnswers(r) ==
  \/ FactoryOpens(r) \/ FactoryBegins(r) \/ FactoryFails(r)
  \/ BeginTooLate(r) \/ BeginRegisters(r)
  \/ ExecuteSucceeds(r) \/ ExecuteFails(r) \/ ExecutePanics(r)
  \/ RollbackReturns(r) \/ CommitSucceeds(r) \/ CommitFails(r)
  \/ FinishCleansUp(r)

Sweeps ==
  \/ \E i \in Ids : ExpireVisits(i) \/ CloseVisits(Janitor, i)
  \/ ExpireReturns \/ CloseReturns(Janitor)

ServerCloseSweeps == (\E i \in Ids : CloseVisits(Closer, i)) \/ CloseReturns(Closer)

Next ==
  \/ \E r \in Calls : Arrives(r) \/ ContextEnds(r) \/ TakesLock(r) \/ DatabaseAnswers(r)
  \/ JanitorWakes \/ JanitorStops \/ ServerCloses
  \/ ExpireLocks \/ CloseLocks(Janitor) \/ CloseLocks(Closer)
  \/ Sweeps \/ ServerCloseSweeps
  \/ Tick \/ ToggleReadOnly

Spec == Init /\ [][Next]_vars

\* Database calls return (their contexts have deadlines), a waiter that is
\* passed over again and again gets the mutex (Go hands it over after 1 ms of
\* starvation), the ticker fires, time passes.  Clients owe nothing.
Fairness ==
  /\ \A r \in Calls : SF_vars(TakesLock(r)) /\ WF_vars(DatabaseAnswers(r))
  /\ SF_vars(ExpireLocks)
  /\ \A p \in {Janitor, Closer} : SF_vars(CloseLocks(p))
  /\ WF_vars(Sweeps) /\ WF_vars(ServerCloseSweeps)
  /\ WF_vars(JanitorWakes) /\ SF_vars(JanitorStops)
  /\ WF_vars(Tick)

FairSpec == Spec /\ Fairness

-----------------------------------------------------------------------------
(* Properties.                                                             *)

TypeOK ==
  /\ mu \in Procs \cup {Nobody}
  /\ pc \in [Procs -> {"free", "waiting", "stopping", "expiring", "closing",
                      "exited"} \cup InDatabase]
  /\ call \in [Calls -> CallType \cup {NoCall}]
  /\ ctxDone \subseteq Calls
  /\ sessions \in [Ids -> SessionType \cup {NoSession}]
  /\ todo \subseteq Ids
  /\ closed \in BOOLEAN /\ cancelled \in BOOLEAN
  /\ tx \in [Ids -> {"none", "open", "committed", "rolledback"}]
  /\ pools \subseteq Ids
  /\ writable \in BOOLEAN
  /\ failed \subseteq Ids

\* "Each session has a dedicated adapter pool ... Caps bound the total number of
\* these pinned connections" (console_sessions.go:21): pools that are open, the
\* ones a factory is still filling or a finish is still closing included, never
\* exceed the cap, and no user has more sessions than perUser allows.
CapsBoundPools ==
  /\ Cardinality(pools) <= Total
  /\ \A o \in Owners : Cardinality(Of(o)) <= PerUser

\* Two sessions are never those of the same console tab of the same user,
\* however the begins of that tab race.
OneSessionPerTab ==
  \A i, j \in Live : sessions[i].owner = sessions[j].owner
                    /\ sessions[i].tab = sessions[j].tab => i = j

\* No pool and no transaction is ever lost: one that is open belongs to a
\* registered session or to the call that holds the mutex, whichever failure,
\* late answer, panic, expiry or shutdown came in between.  And no session is
\* left without: its transaction is open and its pool was not closed under it.
PoolsAccountedFor ==
  /\ \A i \in Ids : i \in pools \/ tx[i] = "open" =>
       i \in Live \/ \E r \in Calls : mu = r /\ call[r].id = i
  /\ \A i \in Live : tx[i] = "open" /\ i \in pools

\* A transaction that has a statement answered with an error, a refusal or a
\* panic is never committed ("transaction aborted: rollback required").
FailedNeverCommits == \A i \in failed : tx[i] # "committed"

\* Once a Close has returned the manager owns nothing: a begin that was waiting
\* for the mutex cannot open a transaction after the shutdown.
ClosedOwnsNothing ==
  (\E p \in {Janitor, Closer} : pc[p] = "exited") => Live = {} /\ pools = {}

\* "Manager serializes operations with cleanup so an expired session cannot
\* execute" (manager.go:35): while a call runs in the database on a session,
\* only that call ends the transaction, closes its pool or drops the session.
SerializedWithCleanup ==
  [][\A r \in Calls : pc[r] \in InDatabase /\ pc'[r] = pc[r] =>
       LET i == call[r].id IN
         /\ tx'[i] = tx[i] /\ (i \in pools' <=> i \in pools)
         /\ i \in Live <=> sessions'[i] # NoSession]_vars

\* The database is asked for a statement or for the end of a transaction only by
\* a call of the session's owner, and never once the session has been idle for
\* Manager.idle, whether or not the janitor has noticed it yet.
OnlyLiveOwnedSessionsRun ==
  [][\A r \in Calls : pc[r] = "waiting" /\ pc'[r] \in {"executing", "finishing"} =>
       LET s == sessions[call[r].id] IN
         s # NoSession /\ s.owner = call[r].owner /\ s.age < Idle]_vars

\* A transaction is committed only by a commit its owner asked for: no other
\* call, no cleanup and no shutdown makes its statements durable.
CommitsAreAskedFor ==
  [][\A i \in Ids : tx[i] # "committed" /\ tx'[i] = "committed" =>
       \E r \in Calls : mu = r /\ call[r].op = "commit" /\ call[r].id = i]_vars

\* The manager implements the ledger of transactions.
Ledger == INSTANCE TransactionLedger WITH outcome <- tx
LedgerSpec == Ledger!Spec

\* Every call is answered: no call waits for the mutex for ever.
EveryCallAnswered == \A r \in Calls : pc[r] # "free" ~> pc[r] = "free"

\* A session that its client has abandoned (begin response lost, browser closed)
\* does not keep its transaction, its pool and its tab: the janitor ends it.
AbandonedIsRolledBack ==
  \A i \in Ids : <>[](\A r \in Calls : call[r].id # i) => <>[](tx[i] # "open" /\ i \notin pools)

\* After Server.Close every transaction ends and none is opened again.
ShutdownEndsAll == [](cancelled => <>[](pools = {} /\ \A i \in Ids : tx[i] # "open"))

\* README.md:81 "Connection writes are blocked for read-only sources": a commit
\* is not sent to a connection that has been made read-only.  The code looks at
\* ReadOnly before a statement and not before the commit.
ReadOnlyTakesNoCommit ==
  [][\A r \in Calls : pc[r] = "waiting" /\ pc'[r] = "finishing" /\ call[r].op = "commit"
       => writable]_vars

=============================================================================
