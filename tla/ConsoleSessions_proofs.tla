---------------------- MODULE ConsoleSessions_proofs ----------------------
(***************************************************************************)
(* Proofs about ConsoleSessions, for any number of calls, users, tabs and  *)
(* tokens and any capacity.                                                *)
(***************************************************************************)
EXTENDS ConsoleSessions, FiniteSetTheorems, TLAPS

(***************************************************************************)
(* Typing and mutual exclusion.  TypeOK alone is not inductive: a busy     *)
(* call must have a request, a process in the critical section must be     *)
(* the one that holds the mutex, and the session a statement runs on must  *)
(* still be registered when its failure is recorded there.                 *)
(***************************************************************************)
Critical == InDatabase \cup {"expiring", "closing"}

BusyCalls ==
  \A r \in Calls :
    /\ pc[r] \in {"free", "waiting"} \cup InDatabase
    /\ pc[r] # "free" => call[r] \in CallType
    /\ pc[r] \in InFactory => call[r].op = "begin"
    /\ pc[r] = "executing" => call[r].id \in Live /\ call[r].op = "execute"

Mutex ==
  /\ pc[Janitor] \notin InDatabase /\ pc[Closer] \notin InDatabase
  /\ \A p \in Procs : pc[p] \in Critical <=> mu = p

TypeInv == TypeOK /\ BusyCalls /\ Mutex

LEMMA InitTypeInv == Init => TypeInv
<1> SUFFICES ASSUME Init PROVE TypeInv
  OBVIOUS
<1>1. TypeOK
  BY DEF Init, TypeOK, Procs
<1>2. BusyCalls
  BY DEF Init, BusyCalls, Procs, InFactory
<1>3. Mutex
  BY ConsoleAssumption DEF Init, Mutex, Procs, Critical, InDatabase, InFactory
<1>. QED
  BY <1>1, <1>2, <1>3 DEF TypeInv

\* The process-side variables after a call has returned; what the call did to
\* the sessions must leave those of the other calls alone.
LEMMA ReturnType ==
  ASSUME TypeInv, NEW r \in Calls, Return(r), mu \in {r, Nobody}
  PROVE  /\ mu' \in Procs \cup {Nobody}
         /\ pc' \in [Procs -> {"free", "waiting", "stopping", "expiring", "closing",
                               "exited"} \cup InDatabase]
         /\ call' \in [Calls -> CallType \cup {NoCall}]
         /\ ctxDone' \subseteq Calls
         /\ BusyCalls'
         /\ Mutex'
<1>1. /\ mu' \in Procs \cup {Nobody}
      /\ pc' \in [Procs -> {"free", "waiting", "stopping", "expiring", "closing",
                            "exited"} \cup InDatabase]
      /\ call' \in [Calls -> CallType \cup {NoCall}]
      /\ ctxDone' \subseteq Calls
  BY DEF Return, TypeInv, TypeOK
<1>2. \A q \in Procs : q # r => pc[q] \notin Critical /\ pc'[q] = pc[q]
  BY ConsoleAssumption DEF Return, TypeInv, TypeOK, Mutex, Procs
<1>3. pc'[r] = "free" /\ mu' = Nobody
  BY DEF Return, TypeInv, TypeOK, Procs
<1>4. Mutex'
  BY <1>1, <1>2, <1>3, ConsoleAssumption DEF Mutex, TypeInv, Procs, Critical, InDatabase, InFactory
<1>5. BusyCalls'
  BY <1>1, <1>2, <1>3 DEF Return, BusyCalls, TypeInv, TypeOK, Procs, Critical, InDatabase, InFactory
<1>. QED
  BY <1>1, <1>4, <1>5

LEMMA HoldType ==
  ASSUME TypeInv, NEW r \in Calls, NEW where \in InDatabase, Hold(r, where),
         mu \in {r, Nobody}, pc[r] # "free",
         where \in InFactory => call[r].op = "begin",
         where = "executing" => call[r].op = "execute" /\ call[r].id \in Live'
  PROVE  /\ mu' \in Procs \cup {Nobody}
         /\ pc' \in [Procs -> {"free", "waiting", "stopping", "expiring", "closing",
                               "exited"} \cup InDatabase]
         /\ call' \in [Calls -> CallType \cup {NoCall}]
         /\ ctxDone' \subseteq Calls
         /\ BusyCalls'
         /\ Mutex'
<1>1. /\ mu' \in Procs \cup {Nobody}
      /\ pc' \in [Procs -> {"free", "waiting", "stopping", "expiring", "closing",
                            "exited"} \cup InDatabase]
      /\ call' \in [Calls -> CallType \cup {NoCall}]
      /\ ctxDone' \subseteq Calls
  BY DEF Hold, TypeInv, TypeOK, Procs
<1>2. \A q \in Procs : q # r => pc[q] \notin Critical /\ pc'[q] = pc[q]
  BY ConsoleAssumption DEF Hold, TypeInv, TypeOK, Mutex, Procs
<1>3. pc'[r] = where /\ mu' = r
  BY DEF Hold, TypeInv, TypeOK, Procs
<1>4. Mutex'
  BY <1>1, <1>2, <1>3, ConsoleAssumption DEF Mutex, TypeInv, Procs, Critical
<1>5. BusyCalls'
  BY <1>1, <1>2, <1>3 DEF Hold, BusyCalls, TypeInv, TypeOK, Procs, Critical, InDatabase, InFactory
<1>. QED
  BY <1>1, <1>4, <1>5

LEMMA RollbackType ==
  ASSUME TypeInv, NEW i, RollbackTx(i)
  PROVE  /\ tx' \in [Ids -> {"none", "open", "committed", "rolledback"}]
         /\ pools' \subseteq Ids
  BY DEF RollbackTx, TypeInv, TypeOK

LEMMA DeleteType ==
  ASSUME TypeInv, NEW i, Delete(i)
  PROVE  sessions' \in [Ids -> SessionType \cup {NoSession}]
  BY DEF Delete, TypeInv, TypeOK

\* The null records are told from sessions and requests by their owner.
LEMMA NullRecords == NoSession \notin SessionType /\ NoCall \notin CallType
  BY ConsoleAssumption DEF NoSession, SessionType, NoCall, CallType

LEMMA TouchType ==
  ASSUME TypeInv, NEW i \in Live
  PROVE  /\ i \in Ids
         /\ Touched(sessions[i]) \in SessionType
         /\ FailedSession(sessions[i]) \in SessionType
         /\ Touched(sessions[i]) # NoSession
         /\ FailedSession(sessions[i]) # NoSession
<1>1. sessions \in [Ids -> SessionType \cup {NoSession}] /\ i \in Ids
  BY DEF TypeInv, TypeOK, Live
<1>2. sessions[i] \in SessionType /\ sessions[i] # NoSession
  BY <1>1 DEF Live
<1>3. 0 \in 0..Idle
  BY ConsoleAssumption
<1>4. Touched(sessions[i]) \in SessionType
  BY <1>2, <1>3 DEF SessionType, Touched, FailedSession
<1>5. FailedSession(sessions[i]) \in SessionType
  BY <1>2, <1>3 DEF SessionType, Touched, FailedSession
<1>. QED
  BY <1>1, <1>4, <1>5, NullRecords

LEMMA AbortsType ==
  ASSUME TypeInv, NEW r \in Calls, call[r].id \in Live, Aborts(r)
  PROVE  /\ sessions' \in [Ids -> SessionType \cup {NoSession}]
         /\ tx' \in [Ids -> {"none", "open", "committed", "rolledback"}]
         /\ pools' \subseteq Ids
         /\ failed' \subseteq Ids
<1>1. CASE r \in ctxDone
  BY <1>1, DeleteType, RollbackType DEF Aborts, Live, TypeInv, TypeOK
<1>2. CASE r \notin ctxDone
  <2>1. /\ call[r].id \in Ids
        /\ FailedSession(sessions[call[r].id]) \in SessionType
    BY TouchType
  <2>2. sessions' \in [Ids -> SessionType \cup {NoSession}]
    BY <1>2, <2>1 DEF Aborts, TypeInv, TypeOK
  <2>. QED
    BY <1>2, <2>1, <2>2 DEF Aborts, database, TypeInv, TypeOK
<1>. QED
  BY <1>1, <1>2

\* The clock leaves every session well formed and registered.
LEMMA TickType ==
  ASSUME TypeInv, Tick
  PROVE  sessions' \in [Ids -> SessionType \cup {NoSession}] /\ Live' = Live
<1>1. ASSUME NEW i \in Ids, i \in Live, ~Expired(i)
      PROVE  Older(sessions[i]) \in SessionType
  <2>1. sessions[i] \in SessionType
    BY <1>1 DEF Live, TypeInv, TypeOK
  <2>2. sessions[i].age \in 0..Idle /\ sessions[i].age + 1 \in 0..Idle
    BY <1>1, <2>1, ConsoleAssumption DEF SessionType, Expired
  <2>. QED
    BY <2>1, <2>2 DEF SessionType, Older
<1>2. sessions' \in [Ids -> SessionType \cup {NoSession}]
  BY <1>1 DEF Tick, TypeInv, TypeOK
<1>3. Live' = Live
  BY <1>1, NullRecords DEF Tick, Live, TypeInv, TypeOK
<1>. QED
  BY <1>2, <1>3

LEMMA NextTypeInv == TypeInv /\ [Next]_vars => TypeInv'
<1> SUFFICES ASSUME TypeInv, [Next]_vars PROVE TypeInv'
  OBVIOUS
<1>1. ASSUME NEW r \in Calls, Arrives(r) PROVE TypeInv'
  BY <1>1, ConsoleAssumption DEF Arrives, BeginArrives, SessionCallArrives, manager, database, CallType,
     TypeInv, TypeOK, BusyCalls, Mutex, Live, Procs, Critical, InDatabase, InFactory
<1>2. ASSUME NEW r \in Calls, ContextEnds(r) PROVE TypeInv'
  BY <1>2 DEF ContextEnds, manager, database, TypeInv, TypeOK, BusyCalls, Mutex, Live
<1>3. ASSUME NEW r \in Calls, TakesLock(r) PROVE TypeInv'
  <2>1. CASE BeginRefused(r) \/ NotFound(r) \/ RefusedAborted(r)
    BY <2>1, ReturnType
       DEF BeginRefused, NotFound, RefusedAborted, Lock, manager, database, TypeInv, TypeOK
  <2>2. CASE BeginLocks(r)
    BY <2>2, HoldType DEF BeginLocks, Lock, InDatabase, InFactory, manager, database, TypeInv, TypeOK
  <2>3. CASE FoundExpired(r)
    BY <2>3, ReturnType, DeleteType, RollbackType
       DEF FoundExpired, Lock, manager, database, TypeInv, TypeOK
  <2>4. CASE ExecuteRefused(r)
    BY <2>4, ReturnType, AbortsType
       DEF ExecuteRefused, MayExecute, Owned, Lock, manager, database, TypeInv, TypeOK
  <2>5. CASE ExecuteLocks(r)
    <3>1. /\ call[r].id \in Live /\ call[r].id \in Ids
          /\ Touched(sessions[call[r].id]) \in SessionType
      BY <2>5, TouchType DEF ExecuteLocks, MayExecute, Owned
    <3>2. sessions' \in [Ids -> SessionType \cup {NoSession}] /\ call[r].id \in Live'
      BY <2>5, <3>1, NullRecords DEF ExecuteLocks, Touch, Live, TypeInv, TypeOK
    <3>. QED
      BY <2>5, <3>2, HoldType
         DEF ExecuteLocks, MayExecute, Lock, InDatabase, InFactory, database, TypeInv, TypeOK
  <2>6. CASE FinishLocks(r)
    BY <2>6, HoldType, DeleteType
       DEF FinishLocks, Lock, InDatabase, InFactory, database, TypeInv, TypeOK
  <2>. QED
    BY <1>3, <2>1, <2>2, <2>3, <2>4, <2>5, <2>6 DEF TakesLock
<1>4. ASSUME NEW r \in Calls, DatabaseAnswers(r) PROVE TypeInv'
  <2>0. mu = r /\ pc[r] \in InDatabase /\ call[r].id \in Ids
    <3>1. pc[r] \in InDatabase
      BY <1>4 DEF DatabaseAnswers, FactoryOpens, FactoryBegins, FactoryFails, BeginTooLate, BeginRegisters,
         ExecuteSucceeds, ExecuteFails, ExecutePanics, RollbackReturns, CommitSucceeds, CommitFails,
         FinishCleansUp, InDatabase, InFactory
    <3>2. mu = r
      BY <3>1 DEF TypeInv, Mutex, Procs, Critical
    <3>3. call[r] \in CallType
      BY <3>1 DEF TypeInv, BusyCalls, InDatabase, InFactory
    <3>. QED
      BY <3>1, <3>2, <3>3 DEF CallType
  <2>1. CASE FactoryOpens(r) \/ FactoryBegins(r)
    BY <2>0, <2>1, HoldType DEF FactoryOpens, FactoryBegins, InDatabase, InFactory, manager, BusyCalls, TypeInv, TypeOK
  <2>2. CASE FactoryFails(r) \/ CommitSucceeds(r)
    BY <2>0, <2>2, ReturnType DEF FactoryFails, CommitSucceeds, manager, TypeInv, TypeOK
  <2>3. CASE BeginTooLate(r) \/ RollbackReturns(r) \/ FinishCleansUp(r)
    BY <2>0, <2>3, ReturnType, RollbackType DEF BeginTooLate, RollbackReturns, FinishCleansUp, manager, TypeInv, TypeOK
  <2>4. CASE BeginRegisters(r)
    <3>1. call[r] \in CallType /\ call[r].op = "begin"
      BY <2>4 DEF BeginRegisters, InFactory, BusyCalls, TypeInv
    <3>2. 0 \in 0..Idle
      BY ConsoleAssumption
    <3>3. NewSession(r) \in SessionType
      BY <3>1, <3>2 DEF NewSession, CallType, SessionType
    <3>. QED
      BY <2>0, <2>4, <3>3, ReturnType DEF BeginRegisters, database, TypeInv, TypeOK
  <2>5. CASE ExecuteSucceeds(r)
    <3>1. /\ call[r].id \in Ids
          /\ Touched(sessions[call[r].id]) \in SessionType
      BY <2>5, TouchType DEF ExecuteSucceeds, BusyCalls, TypeInv
    <3>. QED
      BY <2>0, <2>5, <3>1, ReturnType DEF ExecuteSucceeds, Touch, database, TypeInv, TypeOK
  <2>6. CASE ExecuteFails(r)
    BY <2>0, <2>6, ReturnType, AbortsType DEF ExecuteFails, BusyCalls, TypeInv, TypeOK
  <2>7. CASE ExecutePanics(r)
    BY <2>0, <2>7, ReturnType, DeleteType, RollbackType DEF ExecutePanics, TypeInv, TypeOK
  <2>8. CASE CommitFails(r)
    BY <2>0, <2>8, HoldType DEF CommitFails, InDatabase, InFactory, manager, TypeInv, TypeOK
  <2>. QED
    BY <1>4, <2>1, <2>2, <2>3, <2>4, <2>5, <2>6, <2>7, <2>8 DEF DatabaseAnswers
<1>5. CASE JanitorWakes \/ JanitorStops \/ ServerCloses \/ ToggleReadOnly
  <2>1. TypeOK'
    BY <1>5 DEF JanitorWakes, JanitorStops, ServerCloses, ToggleReadOnly, manager, database,
       TypeInv, TypeOK, Procs
  <2>2. /\ Live' = Live /\ UNCHANGED <<call, mu>>
        /\ \A r \in Calls : pc'[r] = pc[r]
        /\ \A p \in Procs : pc[p] \in Critical <=> pc'[p] \in Critical
        /\ pc'[Janitor] \notin InDatabase /\ pc'[Closer] \notin InDatabase
    BY <1>5, ConsoleAssumption
       DEF JanitorWakes, JanitorStops, ServerCloses, ToggleReadOnly, manager, Live,
           TypeInv, TypeOK, Mutex, Procs, Critical, InDatabase, InFactory
  <2>. QED
    BY <2>1, <2>2 DEF TypeInv, BusyCalls, Mutex
<1>6. ASSUME NEW p \in {Janitor, Closer}, mu = Nobody,
             \/ Hold(p, "expiring")
             \/ Hold(p, "closing"),
             UNCHANGED <<sessions, cancelled, database, writable, failed>>,
             todo' = Live, closed' \in BOOLEAN
      PROVE  TypeInv'
  <2>1. TypeOK'
    BY <1>6 DEF Hold, Live, database, TypeInv, TypeOK, Procs
  <2>2. /\ Live' = Live /\ call' = call /\ mu' = p /\ pc'[p] \in {"expiring", "closing"}
        /\ \A q \in Procs : q # p => pc'[q] = pc[q] /\ pc[q] \notin Critical
    BY <1>6, ConsoleAssumption DEF Hold, Live, TypeInv, TypeOK, Mutex, Procs
  <2>3. Mutex'
    BY <2>2, ConsoleAssumption DEF TypeInv, Mutex, Procs, Critical, InDatabase, InFactory
  <2>. QED
    BY <2>1, <2>2, <2>3, ConsoleAssumption DEF TypeInv, BusyCalls, Procs
<1>7. CASE \E i \in Ids : ExpireVisits(i) \/ CloseVisits(Janitor, i) \/ CloseVisits(Closer, i)
  <2>1. PICK i \in Ids : ExpireVisits(i) \/ CloseVisits(Janitor, i) \/ CloseVisits(Closer, i)
    BY <1>7
  <2>2. \A r \in Calls : pc[r] \notin InDatabase
    BY <2>1, ConsoleAssumption DEF ExpireVisits, CloseVisits, TypeInv, Mutex, Procs, Critical
  <2>3. TypeOK'
    BY <2>1, DeleteType, RollbackType DEF ExpireVisits, CloseVisits, database, TypeInv, TypeOK
  <2>. QED
    BY <2>1, <2>2, <2>3 DEF ExpireVisits, CloseVisits, TypeInv, BusyCalls, Mutex, InDatabase
<1>8. CASE ExpireReturns \/ CloseReturns(Janitor) \/ CloseReturns(Closer)
  BY <1>8, ConsoleAssumption DEF ExpireReturns, CloseReturns, manager, database, Live,
         TypeInv, TypeOK, BusyCalls, Mutex, Procs, Critical, InDatabase, InFactory
<1>9. CASE Tick
  BY <1>9, TickType DEF Tick, database, TypeInv, TypeOK, BusyCalls, Mutex
<1>10. CASE UNCHANGED vars
  BY <1>10 DEF vars, manager, database, TypeInv, TypeOK, BusyCalls, Mutex, Live
<1>11. CASE ExpireLocks \/ CloseLocks(Janitor) \/ CloseLocks(Closer)
  BY <1>11, <1>6 DEF ExpireLocks, CloseLocks, Lock, TypeInv, TypeOK
<1>. QED
  BY <1>1, <1>2, <1>3, <1>4, <1>5, <1>7, <1>8, <1>9, <1>10, <1>11
     DEF Next, Sweeps, ServerCloseSweeps

THEOREM TypeCorrect == Spec => []TypeInv
  BY InitTypeInv, NextTypeInv, PTL DEF Spec

(***************************************************************************)
(* Who owns what.  PoolsAccountedFor needs to know, for every step inside  *)
(* the critical section, what the call has already done to the database,   *)
(* that a token set aside for a begin is named by no other call, and that  *)
(* a transaction with a failed statement is marked in its session.         *)
(***************************************************************************)
InStep(r) ==
  LET i == call[r].id IN
    /\ call[r].op = "begin" /\ pc[r] \in {"waiting", "factory"} =>
         tx[i] = "none" /\ i \notin pools /\ i \notin Live
    /\ pc[r] = "opened" => tx[i] = "none" /\ i \in pools /\ i \notin Live
    /\ pc[r] = "begun" => tx[i] = "open" /\ i \in pools /\ i \notin failed /\ i \notin Live
    /\ pc[r] = "finishing" =>
         /\ tx[i] = "open" /\ i \in pools /\ i \notin Live
         /\ call[r].op = "commit" => i \notin failed
    /\ pc[r] = "cleanup" =>
         tx[i] \in {"committed", "rolledback"} /\ i \notin pools /\ i \notin Live
         /\ (i \in failed => tx[i] = "rolledback")

TokensReserved ==
  \A r, q \in Calls :
    r # q /\ call[r].op = "begin" /\ pc[r] \in {"waiting", "factory", "opened"} =>
      call[q].id # call[r].id

\* A registered session is usable, and knows that one of its statements failed.
Registered(i) ==
  i \in Live => tx[i] = "open" /\ i \in pools /\ (i \in failed => sessions[i].aborted)

FailedRolledBack(i) == i \in failed => tx[i] \in {"open", "rolledback"}

\* No call has anything left to do for the transaction.
Settled(i) ==
  Registered(i) /\ FailedRolledBack(i) /\ (i \notin Live => tx[i] # "open" /\ i \notin pools)

InHand(i) == \E r \in Calls : mu = r /\ call[r].id = i

Accounting ==
  /\ \A i \in Ids : Registered(i) /\ FailedRolledBack(i)
  /\ \A i \in Ids : Settled(i) \/ InHand(i)
  /\ \A r \in Calls : InStep(r)
  /\ TokensReserved

LEMMA InitAccounting == Init => Accounting
  BY ConsoleAssumption DEF Init, Accounting, Registered, FailedRolledBack, Settled, InStep, TokensReserved, Live, NoCall, Procs

\* A step that concerns one transaction leaves the others alone.
OnlyAt(i) ==
  \A j \in Ids : j # i => /\ tx'[j] = tx[j] /\ (j \in pools' <=> j \in pools)
                         /\ sessions'[j] = sessions[j]
                         /\ (j \in failed' <=> j \in failed)

LEMMA OthersKept ==
  ASSUME NEW i, OnlyAt(i), NEW j \in Ids, j # i
  PROVE  /\ Registered(j)' <=> Registered(j)
         /\ FailedRolledBack(j)' <=> FailedRolledBack(j)
         /\ Settled(j)' <=> Settled(j)
  BY DEF OnlyAt, Registered, FailedRolledBack, Settled, Live

\* A call outside the critical section is only concerned when it waits to begin,
\* and then nobody else names its token.
LEMMA WaitingKept ==
  ASSUME TypeInv, Accounting, NEW r \in Calls, NEW q \in Calls, q # r,
         pc[q] \in {"free", "waiting"}, pc'[q] = pc[q], call'[q] = call[q],
         OnlyAt(call[r].id)
  PROVE  InStep(q)'
<1>1. CASE call[q].op = "begin" /\ pc[q] = "waiting"
  <2>1. call[q].id \in Ids /\ call[r].id # call[q].id
    BY <1>1 DEF TypeInv, BusyCalls, CallType, Accounting, TokensReserved
  <2>. QED
    BY <1>1, <2>1 DEF OnlyAt, Accounting, InStep, Live
<1>2. CASE ~(call[q].op = "begin" /\ pc[q] = "waiting")
  BY <1>2 DEF InStep
<1>. QED
  BY <1>1, <1>2

\* A returning call keeps the accounts if it leaves its transaction settled.
LEMMA ReturnAccounting ==
  ASSUME TypeInv, Accounting, NEW r \in Calls, pc[r] # "free", mu \in {r, Nobody},
         Return(r), NEW i, i = call[r].id, OnlyAt(i), Settled(i)'
  PROVE  Accounting'
<1>1. /\ pc'[r] = "free" /\ call'[r] = NoCall /\ mu' = Nobody
      /\ \A q \in Calls : q # r => /\ pc'[q] = pc[q] /\ call'[q] = call[q]
                                  /\ pc[q] \in {"free", "waiting"}
  BY ConsoleAssumption DEF Return, TypeInv, TypeOK, BusyCalls, Mutex, Procs, Critical
<1>2. \A j \in Ids : j # i => Settled(j)
  BY ConsoleAssumption DEF Accounting, InHand
<1>3. \A j \in Ids : Settled(j)'
  BY <1>2, OthersKept
<1>4. \A j \in Ids : Registered(j)' /\ FailedRolledBack(j)'
  BY <1>3 DEF Settled
<1>5. \A q \in Calls : InStep(q)'
  <2>1. InStep(r)'
    BY <1>1 DEF InStep, NoCall
  <2>. QED
    BY <1>1, <2>1, WaitingKept
<1>6. TokensReserved'
  BY <1>1, ConsoleAssumption DEF Accounting, TokensReserved, NoCall, TypeInv, BusyCalls, CallType
<1>. QED
  BY <1>3, <1>4, <1>5, <1>6 DEF Accounting

\* A call that goes on keeps the accounts if its next step is well prepared.
LEMMA HoldAccounting ==
  ASSUME TypeInv, Accounting, NEW r \in Calls, pc[r] # "free", mu \in {r, Nobody},
         NEW where \in InDatabase, Hold(r, where), NEW i, i = call[r].id, OnlyAt(i),
         where \in {"factory", "opened"} => pc[r] \in {"waiting", "factory"},
         Registered(i)', FailedRolledBack(i)', InStep(r)'
  PROVE  Accounting'
<1>1. /\ pc'[r] = where /\ call' = call /\ mu' = r
      /\ \A q \in Calls : q # r => pc'[q] = pc[q] /\ pc[q] \in {"free", "waiting"}
  BY ConsoleAssumption DEF Hold, TypeInv, TypeOK, BusyCalls, Mutex, Procs, Critical
<1>2. \A j \in Ids : j # i => Settled(j)
  BY ConsoleAssumption DEF Accounting, InHand
<1>3. \A j \in Ids : Settled(j)' \/ InHand(j)'
  BY <1>1, <1>2, OthersKept DEF InHand
<1>4. \A j \in Ids : Registered(j)' /\ FailedRolledBack(j)'
  BY OthersKept DEF Accounting
<1>5. \A q \in Calls : InStep(q)'
  BY <1>1, WaitingKept
<1>6. TokensReserved'
  BY <1>1 DEF Accounting, TokensReserved, InDatabase, InFactory
<1>. QED
  BY <1>3, <1>4, <1>5, <1>6 DEF Accounting

LEMMA HolderAnswers ==
  ASSUME TypeInv, NEW r \in Calls, DatabaseAnswers(r)
  PROVE  mu = r /\ pc[r] # "free" /\ call[r].id \in Ids
<1>1. pc[r] \in InDatabase
  BY DEF DatabaseAnswers, FactoryOpens, FactoryBegins, FactoryFails, BeginTooLate, BeginRegisters,
     ExecuteSucceeds, ExecuteFails, ExecutePanics, RollbackReturns, CommitSucceeds, CommitFails,
     FinishCleansUp, InDatabase, InFactory
<1>2. pc[r] # "free" /\ mu = r
  BY <1>1, ConsoleAssumption DEF TypeInv, Mutex, Procs, Critical, InDatabase, InFactory
<1>. QED
  BY <1>2 DEF TypeInv, BusyCalls, CallType

LEMMA TakesLockFacts ==
  ASSUME TypeInv, NEW r \in Calls, TakesLock(r)
  PROVE  mu = Nobody /\ pc[r] = "waiting" /\ call[r].id \in Ids
<1>1. mu = Nobody /\ pc[r] = "waiting"
  BY DEF TakesLock, BeginRefused, BeginLocks, NotFound, FoundExpired, RefusedAborted,
     ExecuteRefused, ExecuteLocks, FinishLocks, MayExecute, Lock
<1>. QED
  BY <1>1 DEF TypeInv, BusyCalls, CallType

\* Recording a failure keeps the accounts of a registered session.
LEMMA AbortsAccounting ==
  ASSUME TypeInv, Accounting, NEW r \in Calls, NEW i \in Live, i = call[r].id, Aborts(r)
  PROVE  OnlyAt(i) /\ Settled(i)'
<1>1. i \in Ids /\ Registered(i) /\ FailedRolledBack(i)
  BY DEF Live, Accounting
<1>2. CASE r \in ctxDone
  BY <1>1, <1>2 DEF Aborts, Delete, RollbackTx, OnlyAt, Settled, Registered, FailedRolledBack, Live,
     TypeInv, TypeOK
<1>3. CASE r \notin ctxDone
  <2>1. FailedSession(sessions[i]).aborted
    BY <1>1 DEF FailedSession, Live, TypeInv, TypeOK, SessionType
  <2>2. sessions'[i] = FailedSession(sessions[i]) /\ failed' = failed \cup {i}
    BY <1>1, <1>3 DEF Aborts, TypeInv, TypeOK
  <2>3. Settled(i)'
    BY <1>1, <1>3, <2>1, <2>2, TouchType DEF Aborts, database, Settled, Registered, FailedRolledBack, Live
  <2>. QED
    BY <1>3, <2>3 DEF Aborts, database, OnlyAt, TypeInv, TypeOK
<1>. QED
  BY <1>2, <1>3

LEMMA TakesLockAccounting ==
  ASSUME TypeInv, Accounting, NEW r \in Calls, TakesLock(r)
  PROVE  Accounting'
<1>i. PICK i \in Ids : i = call[r].id
  BY TakesLockFacts
<1>0. /\ mu = Nobody /\ pc[r] = "waiting" /\ i \in Ids /\ i = call[r].id
      /\ Settled(i) /\ InStep(r) /\ Registered(i)
  BY <1>i, TakesLockFacts, ConsoleAssumption DEF Accounting, InHand
<1>1. CASE BeginRefused(r) \/ NotFound(r) \/ RefusedAborted(r)
  <2>1. OnlyAt(i) /\ Settled(i)' /\ Return(r)
    BY <1>0, <1>1 DEF BeginRefused, NotFound, RefusedAborted, manager, database, OnlyAt,
       Settled, Registered, FailedRolledBack, Live
  <2>. QED
    BY <1>0, <2>1, ReturnAccounting
<1>2. CASE BeginLocks(r)
  <2>1. OnlyAt(i) /\ Settled(i)' /\ Hold(r, "factory")
    BY <1>0, <1>2 DEF BeginLocks, manager, database, OnlyAt, Settled, Registered, FailedRolledBack, Live
  <2>2. InStep(r)'
    BY <1>0, <1>2 DEF BeginLocks, Hold, manager, database, InStep, Live, TypeInv, TypeOK, Procs
  <2>. QED
    BY <1>0, <2>1, <2>2, HoldAccounting DEF InDatabase, InFactory, Settled
<1>3. CASE FoundExpired(r)
  <2>1. OnlyAt(i) /\ Settled(i)' /\ Return(r)
    BY <1>0, <1>3 DEF FoundExpired, Delete, RollbackTx, OnlyAt, Settled, Registered, FailedRolledBack, Live,
       TypeInv, TypeOK
  <2>. QED
    BY <1>0, <2>1, ReturnAccounting
<1>4. CASE ExecuteRefused(r)
  <2>1. OnlyAt(i) /\ Settled(i)' /\ Return(r)
    BY <1>0, <1>4, AbortsAccounting DEF ExecuteRefused, MayExecute, Owned
  <2>. QED
    BY <1>0, <2>1, ReturnAccounting
<1>5. CASE ExecuteLocks(r)
  <2>1. i \in Live /\ sessions' = [sessions EXCEPT ![i] = Touched(@)]
    BY <1>0, <1>5 DEF ExecuteLocks, MayExecute, Owned, Touch
  <2>2. Touched(sessions[i]).aborted = sessions[i].aborted
    BY <2>1 DEF Touched, Live, TypeInv, TypeOK, SessionType
  <2>3. OnlyAt(i) /\ Registered(i)' /\ FailedRolledBack(i)' /\ Hold(r, "executing")
    BY <1>0, <1>5, <2>1, <2>2 DEF ExecuteLocks, database, OnlyAt, Settled, Registered, FailedRolledBack, Live,
       TypeInv, TypeOK
  <2>4. InStep(r)'
    BY <2>3 DEF Hold, InStep, TypeInv, TypeOK, Procs
  <2>. QED
    BY <1>0, <2>3, <2>4, HoldAccounting DEF InDatabase
<1>6. CASE FinishLocks(r)
  <2>1. i \in Live /\ call[r].op \in {"commit", "rollback"}
        /\ (call[r].op = "commit" => ~sessions[i].aborted)
    BY <1>0, <1>6 DEF FinishLocks, MayFinish, Owned
  <2>2. /\ OnlyAt(i) /\ Registered(i)' /\ FailedRolledBack(i)' /\ Hold(r, "finishing")
        /\ i \notin Live'
    BY <1>0, <1>6, <2>1 DEF FinishLocks, Delete, database, OnlyAt, Settled, Registered, FailedRolledBack, Live,
       TypeInv, TypeOK
  <2>3. InStep(r)'
    BY <1>0, <1>6, <2>1, <2>2 DEF FinishLocks, database, Hold, InStep, Registered, TypeInv, TypeOK, Procs
  <2>. QED
    BY <1>0, <2>2, <2>3, HoldAccounting DEF InDatabase
<1>. QED
  BY <1>1, <1>2, <1>3, <1>4, <1>5, <1>6 DEF TakesLock

LEMMA AnswersAccounting ==
  ASSUME TypeInv, Accounting, NEW r \in Calls, DatabaseAnswers(r)
  PROVE  Accounting'
<1>i. PICK i \in Ids : i = call[r].id
  BY HolderAnswers
<1>0. /\ mu = r /\ pc[r] # "free"
      /\ InStep(r) /\ Registered(i) /\ FailedRolledBack(i)
  BY HolderAnswers DEF Accounting
<1>1. CASE FactoryOpens(r) \/ FactoryBegins(r)
  <2>1. PICK where \in {"opened", "begun"} : Hold(r, where) /\ (where = "opened" => pc[r] = "factory")
    BY <1>1 DEF FactoryOpens, FactoryBegins
  <2>2. call[r].op = "begin"
    BY <1>1 DEF FactoryOpens, FactoryBegins, InFactory, TypeInv, BusyCalls
  <2>3. OnlyAt(i) /\ Registered(i)' /\ FailedRolledBack(i)'
    BY <1>i, <1>0, <1>1, <2>2 DEF FactoryOpens, FactoryBegins, manager, OnlyAt, Registered, FailedRolledBack,
       InStep, Live, TypeInv, TypeOK
  <2>4. InStep(r)'
    BY <1>i, <1>0, <1>1, <2>2 DEF FactoryOpens, FactoryBegins, manager, Hold, InStep, FailedRolledBack, Live,
       TypeInv, TypeOK, Procs
  <2>. QED
    BY <1>i, <1>0, <2>1, <2>3, <2>4, HoldAccounting DEF InDatabase, InFactory
<1>2. CASE FactoryFails(r) \/ BeginTooLate(r) \/ RollbackReturns(r) \/ CommitSucceeds(r) \/ FinishCleansUp(r)
  <2>1. i \notin Live /\ (call[r].op = "commit" => pc[r] \notin InFactory)
    BY <1>i, <1>0, <1>2 DEF FactoryFails, BeginTooLate, RollbackReturns, CommitSucceeds, FinishCleansUp,
       InStep, InFactory, TypeInv, BusyCalls
  <2>2. OnlyAt(i) /\ Settled(i)' /\ Return(r)
    BY <1>i, <1>0, <1>2, <2>1 DEF FactoryFails, BeginTooLate, RollbackReturns, CommitSucceeds, FinishCleansUp,
       RollbackTx, manager, OnlyAt, Settled, Registered, FailedRolledBack, InStep, InFactory, Live,
       TypeInv, TypeOK, BusyCalls
  <2>. QED
    BY <1>i, <1>0, <2>2, ReturnAccounting
<1>3. CASE BeginRegisters(r)
  <2>1. NewSession(r) # NoSession /\ ~NewSession(r).aborted
    BY <1>3, ConsoleAssumption DEF BeginRegisters, NewSession, NoSession, InFactory, CallType,
       TypeInv, BusyCalls
  <2>2. sessions' = [sessions EXCEPT ![i] = NewSession(r)]
    BY <1>i, <1>3 DEF BeginRegisters
  <2>3. OnlyAt(i) /\ Settled(i)' /\ Return(r)
    BY <1>i, <1>0, <1>3, <2>1, <2>2 DEF BeginRegisters, database, OnlyAt, Settled, Registered,
       FailedRolledBack, InStep, Live, TypeInv, TypeOK
  <2>. QED
    BY <1>i, <1>0, <2>3, ReturnAccounting
<1>4. CASE ExecuteSucceeds(r)
  <2>1. i \in Live /\ sessions' = [sessions EXCEPT ![i] = Touched(@)]
    BY <1>i, <1>4 DEF ExecuteSucceeds, Touch, TypeInv, BusyCalls
  <2>2. Touched(sessions[i]).aborted = sessions[i].aborted /\ Touched(sessions[i]) # NoSession
    BY <2>1, TouchType DEF Touched, Live, TypeInv, TypeOK, SessionType
  <2>3. OnlyAt(i) /\ Settled(i)' /\ Return(r)
    BY <1>i, <1>0, <1>4, <2>1, <2>2 DEF ExecuteSucceeds, database, OnlyAt, Settled, Registered,
       FailedRolledBack, Live, TypeInv, TypeOK
  <2>. QED
    BY <1>i, <1>0, <2>3, ReturnAccounting
<1>5. CASE ExecuteFails(r)
  <2>1. OnlyAt(i) /\ Settled(i)' /\ Return(r)
    BY <1>i, <1>5, AbortsAccounting DEF ExecuteFails, TypeInv, BusyCalls
  <2>. QED
    BY <1>i, <1>0, <2>1, ReturnAccounting
<1>6. CASE ExecutePanics(r)
  <2>1. OnlyAt(i) /\ Settled(i)' /\ Return(r)
    BY <1>i, <1>0, <1>6 DEF ExecutePanics, Delete, RollbackTx, OnlyAt, Settled, Registered, FailedRolledBack,
       Live, TypeInv, TypeOK, BusyCalls
  <2>. QED
    BY <1>i, <1>0, <2>1, ReturnAccounting
<1>7. CASE CommitFails(r)
  <2>1. i \notin Live /\ i \notin failed /\ i \in Ids
    BY <1>i, <1>0, <1>7 DEF CommitFails, InStep
  <2>2. OnlyAt(i) /\ Registered(i)' /\ FailedRolledBack(i)' /\ Hold(r, "cleanup")
    BY <1>i, <1>0, <1>7, <2>1 DEF CommitFails, manager, OnlyAt, Registered, FailedRolledBack, Live, TypeInv, TypeOK
  <2>3. InStep(r)'
    BY <1>i, <1>0, <1>7, <2>1 DEF CommitFails, manager, Hold, InStep, Live, TypeInv, TypeOK, Procs
  <2>. QED
    BY <1>i, <1>0, <2>2, <2>3, HoldAccounting DEF InDatabase
<1>. QED
  BY <1>1, <1>2, <1>3, <1>4, <1>5, <1>6, <1>7 DEF DatabaseAnswers

\* Expire and Close end a transaction while no call is in the critical section.
LEMMA SweepAccounting ==
  ASSUME TypeInv, Accounting, NEW i \in Ids,
         ExpireVisits(i) \/ CloseVisits(Janitor, i) \/ CloseVisits(Closer, i)
  PROVE  Accounting'
<1>1. \A r \in Calls : mu # r /\ pc[r] \in {"free", "waiting"}
  BY ConsoleAssumption DEF ExpireVisits, CloseVisits, TypeInv, BusyCalls, Mutex, Procs, Critical
<1>2. UNCHANGED <<mu, pc, call, failed>> /\ OnlyAt(i)
  BY DEF ExpireVisits, CloseVisits, Delete, RollbackTx, database, OnlyAt, TypeInv, TypeOK
<1>3. \A j \in Ids : Settled(j)
  BY <1>1 DEF Accounting, InHand
<1>4. Settled(i)' /\ (i \in Live' => i \in Live) /\ (tx[i] = "none" => tx'[i] = "none")
      /\ (i \in pools' => i \in pools)
  BY <1>2, <1>3 DEF ExpireVisits, CloseVisits, Delete, RollbackTx, database, Settled, Registered,
     FailedRolledBack, Live, TypeInv, TypeOK
<1>5. \A j \in Ids : Settled(j)'
  BY <1>2, <1>3, <1>4, OthersKept
<1>6. ASSUME NEW r \in Calls PROVE InStep(r)'
  <2>1. CASE call[r].op = "begin" /\ pc[r] = "waiting"
    BY <1>2, <1>4, <2>1 DEF Accounting, InStep, OnlyAt, Live, TypeInv, BusyCalls, CallType
  <2>2. CASE ~(call[r].op = "begin" /\ pc[r] = "waiting")
    BY <1>1, <1>2, <2>2 DEF InStep
  <2>. QED
    BY <2>1, <2>2
<1>7. TokensReserved'
  BY <1>2 DEF Accounting, TokensReserved
<1>. QED
  BY <1>5, <1>6, <1>7 DEF Accounting, Settled

\* Steps that leave the database, the failures and who is registered alone.
LEMMA QuietAccounting ==
  ASSUME TypeInv, Accounting, UNCHANGED <<call, tx, pools, failed>>,
         \A r \in Calls : pc'[r] = pc[r] /\ (mu' = r <=> mu = r),
         \A i \in Ids : /\ i \in Live' <=> i \in Live
                        /\ i \in Live => sessions'[i].aborted = sessions[i].aborted
  PROVE  Accounting'
<1>1. \A i \in Ids : /\ Registered(i)' <=> Registered(i)
                     /\ FailedRolledBack(i)' <=> FailedRolledBack(i)
                     /\ Settled(i)' <=> Settled(i)
                     /\ InHand(i)' <=> InHand(i)
  BY DEF Registered, FailedRolledBack, Settled, InHand
<1>2. Live' = Live
  BY DEF Live
<1>3. \A r \in Calls : InStep(r)'
  BY <1>2 DEF Accounting, InStep
<1>4. TokensReserved'
  BY DEF Accounting, TokensReserved
<1>. QED
  BY <1>1, <1>3, <1>4 DEF Accounting

LEMMA ArrivesAccounting ==
  ASSUME TypeInv, Accounting, NEW r \in Calls, Arrives(r)
  PROVE  Accounting'
<1>1. /\ UNCHANGED <<mu, sessions, tx, pools, failed>> /\ pc[r] = "free" /\ pc'[r] = "waiting"
      /\ \A q \in Calls : q # r => pc'[q] = pc[q] /\ call'[q] = call[q]
      /\ call'[r] \in CallType
      /\ call'[r].op = "begin" => Fresh(call'[r].id)
      /\ call'[r].op # "begin" => tx[call'[r].id] # "none"
  BY DEF Arrives, BeginArrives, SessionCallArrives, manager, database, CallType, TypeInv, TypeOK, Procs
<1>2. mu # r
  BY <1>1, ConsoleAssumption DEF TypeInv, Mutex, Procs, Critical, InDatabase, InFactory
<1>3. Live' = Live
  BY <1>1 DEF Live
<1>4. \A i \in Ids : /\ Registered(i)' /\ FailedRolledBack(i)'
                     /\ Settled(i)' \/ InHand(i)'
  BY <1>1, <1>2, <1>3 DEF Accounting, Registered, FailedRolledBack, Settled, InHand
<1>5. \A q \in Calls : q # r => InStep(q)'
  BY <1>1, <1>3 DEF Accounting, InStep
<1>6. InStep(r)'
  BY <1>1, <1>3, <1>4 DEF InStep, Fresh, Registered, CallType
<1>7. TokensReserved'
  <2> SUFFICES ASSUME NEW p \in Calls, NEW q \in Calls, p # q, call'[p].op = "begin",
                      pc'[p] \in {"waiting", "factory", "opened"}
               PROVE  call'[q].id # call'[p].id
    BY DEF TokensReserved
  <2>1. CASE p = r
    BY <1>1, <2>1 DEF Fresh
  <2>2. CASE q = r
    BY <1>1, <2>2 DEF Fresh, Accounting, InStep
  <2>3. CASE p # r /\ q # r
    BY <1>1, <2>3 DEF Accounting, TokensReserved
  <2>. QED
    BY <2>1, <2>2, <2>3
<1>. QED
  BY <1>4, <1>5, <1>6, <1>7 DEF Accounting

LEMMA NextAccounting == TypeInv /\ Accounting /\ [Next]_vars => Accounting'
<1> SUFFICES ASSUME TypeInv, Accounting, [Next]_vars PROVE Accounting'
  OBVIOUS
<1>1. ASSUME NEW r \in Calls, ContextEnds(r) PROVE Accounting'
  BY <1>1, QuietAccounting DEF ContextEnds, manager, database, Live
<1>2. CASE JanitorWakes \/ JanitorStops \/ ServerCloses \/ ToggleReadOnly
  BY <1>2, QuietAccounting, ConsoleAssumption
     DEF JanitorWakes, JanitorStops, ServerCloses, ToggleReadOnly, manager, database, Live,
         TypeInv, TypeOK, Procs
<1>3. CASE ExpireLocks \/ CloseLocks(Janitor) \/ CloseLocks(Closer)
  BY <1>3, QuietAccounting, ConsoleAssumption
     DEF ExpireLocks, CloseLocks, Lock, Hold, database, Live, TypeInv, TypeOK, Procs
<1>4. CASE ExpireReturns \/ CloseReturns(Janitor) \/ CloseReturns(Closer)
  <2>1. mu \notin Calls
    BY <1>4, ConsoleAssumption DEF ExpireReturns, CloseReturns, TypeInv, Mutex, Procs, Critical
  <2>. QED
    BY <1>4, <2>1, QuietAccounting, ConsoleAssumption
       DEF ExpireReturns, CloseReturns, manager, database, Live, TypeInv, TypeOK, Procs
<1>5. CASE Tick
  <2>1. ASSUME NEW i \in Ids, i \in Live PROVE sessions'[i].aborted = sessions[i].aborted
    BY <1>5, <2>1 DEF Tick, Older, Live, TypeInv, TypeOK, SessionType
  <2>. QED
    BY <1>5, <2>1, TickType, QuietAccounting DEF Tick, database
<1>6. CASE UNCHANGED vars
  BY <1>6, QuietAccounting DEF vars, manager, database, Live
<1>. QED
  BY <1>1, <1>2, <1>3, <1>4, <1>5, <1>6, ArrivesAccounting, TakesLockAccounting, AnswersAccounting,
     SweepAccounting DEF Next, Sweeps, ServerCloseSweeps

(***************************************************************************)
(* Capacity and shutdown.  The room that Begin has found when it took the  *)
(* mutex is still there when the transaction is registered, because nobody *)
(* else can register one; after a Close nothing is left to run on.         *)
(***************************************************************************)
SessionCaps ==
  /\ Cardinality(Live) <= Total
  /\ \A o \in Owners : Cardinality(Of(o)) <= PerUser
  /\ OneSessionPerTab

RoomKept ==
  \A r \in Calls : /\ pc[r] \in InFactory => MayBegin(r)
                   /\ pc[r] = "finishing" => Cardinality(Live) < Total

Sweeping == \E p \in {Janitor, Closer} : pc[p] = "closing"

Shutdown ==
  /\ \A p \in {Janitor, Closer} : pc[p] \in {"closing", "exited"} => closed
  /\ closed => /\ \A r \in Calls : pc[r] \notin InDatabase
               /\ Live \subseteq (IF Sweeping THEN todo ELSE {})

Caps == SessionCaps /\ RoomKept /\ Shutdown

LEMMA InitCaps == Init => Caps
<1> SUFFICES ASSUME Init PROVE Caps
  OBVIOUS
<1>1. Live = {} /\ \A o \in Owners : Of(o) = {}
  BY DEF Init, Live, Of
<1>. QED
  BY <1>1, FS_EmptySet, ConsoleAssumption
     DEF Init, Caps, SessionCaps, OneSessionPerTab, RoomKept, Shutdown, Sweeping, Procs, InFactory, InDatabase

LEMMA LiveFinite ==
  /\ IsFiniteSet(Live) /\ Cardinality(Live) \in Nat
  /\ \A o : IsFiniteSet(Of(o)) /\ Cardinality(Of(o)) \in Nat
  BY FS_Subset, FS_CardinalityType, ConsoleAssumption DEF Live, Of

\* Sessions may go, age and fail, but the ones that stay keep their place.
Shrinks ==
  /\ Live' \subseteq Live
  /\ \A i \in Live' : /\ sessions'[i].owner = sessions[i].owner
                      /\ sessions'[i].tab = sessions[i].tab

LEMMA ShrinksCaps ==
  ASSUME Shrinks, SessionCaps
  PROVE  /\ SessionCaps'
         /\ Cardinality(Live') <= Cardinality(Live)
         /\ \A o : Of(o)' \subseteq Of(o) /\ Cardinality(Of(o)') <= Cardinality(Of(o))
<1>1. \A o : Of(o)' \subseteq Of(o)
  BY DEF Shrinks, Of
<1>2. \A o : Cardinality(Of(o)') <= Cardinality(Of(o))
  BY <1>1, LiveFinite, FS_Subset
<1>3. Cardinality(Live') <= Cardinality(Live)
  BY LiveFinite, FS_Subset DEF Shrinks
<1>4. Cardinality(Live') \in Nat /\ \A o : Cardinality(Of(o)') \in Nat
  BY <1>1, LiveFinite, FS_Subset, FS_CardinalityType DEF Shrinks
<1>5. OneSessionPerTab'
  BY DEF Shrinks, SessionCaps, OneSessionPerTab
<1>6. Cardinality(Live)' <= Total
  BY <1>3, <1>4, LiveFinite, ConsoleAssumption DEF SessionCaps
<1>7. \A o \in Owners : Cardinality(Of(o))' <= PerUser
  BY <1>2, <1>4, LiveFinite, ConsoleAssumption DEF SessionCaps
<1>. QED
  BY <1>1, <1>2, <1>3, <1>5, <1>6, <1>7 DEF SessionCaps

\* Room that was found stays found while sessions only go.
LEMMA ShrinksRoom ==
  ASSUME Shrinks, SessionCaps, NEW r \in Calls, MayBegin(r),
         call'[r] = call[r], closed' = closed
  PROVE  MayBegin(r)'
<1>1. Cardinality(Live') <= Cardinality(Live) /\ Cardinality(Live') \in Nat
  BY ShrinksCaps, LiveFinite, FS_Subset, FS_CardinalityType DEF Shrinks
<1>2. \A o : /\ Cardinality(Of(o)') <= Cardinality(Of(o)) /\ Cardinality(Of(o)') \in Nat
            /\ Of(o)' \subseteq Of(o)
  BY ShrinksCaps, LiveFinite, FS_Subset, FS_CardinalityType
<1>3. ~TabInUse(r)'
  BY <1>2 DEF MayBegin, TabInUse, Shrinks, Of
<1>4. ~AtCapacity(call[r].owner)'
  BY <1>1, <1>2, LiveFinite, ConsoleAssumption DEF MayBegin, AtCapacity
<1>. QED
  BY <1>3, <1>4 DEF MayBegin, AtCapacity

\* Only the registration of a begin adds a session.
LEMMA StepShrinks ==
  ASSUME TypeInv, [Next]_vars
  PROVE  Shrinks \/ \E r \in Calls : BeginRegisters(r)
<1>1. ASSUME UNCHANGED sessions PROVE Shrinks
  BY <1>1 DEF Shrinks, Live
<1>2. ASSUME NEW i, Delete(i) PROVE Shrinks
  BY <1>2 DEF Shrinks, Delete, Live, TypeInv, TypeOK
<1>3. ASSUME NEW i \in Live,
             \/ sessions' = [sessions EXCEPT ![i] = Touched(@)]
             \/ sessions' = [sessions EXCEPT ![i] = FailedSession(@)]
      PROVE  Shrinks
  <2>1. i \in Ids /\ sessions[i] \in SessionType
    BY DEF Live, TypeInv, TypeOK
  <2>2. /\ Touched(sessions[i]).owner = sessions[i].owner
        /\ Touched(sessions[i]).tab = sessions[i].tab
        /\ FailedSession(sessions[i]).owner = sessions[i].owner
        /\ FailedSession(sessions[i]).tab = sessions[i].tab
    BY <2>1 DEF Touched, FailedSession, SessionType
  <2>. QED
    BY <1>3, <2>1, <2>2 DEF Shrinks, Live, TypeInv, TypeOK
<1>4. ASSUME NEW r \in Calls, call[r].id \in Live, Aborts(r) PROVE Shrinks
  BY <1>2, <1>3, <1>4 DEF Aborts
<1>5. ASSUME NEW r \in Calls, TakesLock(r) PROVE Shrinks
  BY <1>1, <1>2, <1>3, <1>4, <1>5
     DEF TakesLock, BeginRefused, BeginLocks, NotFound, FoundExpired, RefusedAborted, ExecuteRefused,
         ExecuteLocks, FinishLocks, MayExecute, Owned, Touch, manager
<1>6. ASSUME NEW r \in Calls, DatabaseAnswers(r) PROVE Shrinks \/ BeginRegisters(r)
  <2>1. pc[r] = "executing" => call[r].id \in Live
    BY DEF TypeInv, BusyCalls
  <2>. QED
    BY <1>1, <1>2, <1>3, <1>4, <1>6, <2>1
       DEF DatabaseAnswers, FactoryOpens, FactoryBegins, FactoryFails, BeginTooLate, ExecuteSucceeds,
           ExecuteFails, ExecutePanics, RollbackReturns, CommitSucceeds, CommitFails, FinishCleansUp,
           Touch, manager
<1>7. ASSUME NEW i \in Ids, ExpireVisits(i) \/ CloseVisits(Janitor, i) \/ CloseVisits(Closer, i)
      PROVE  Shrinks
  BY <1>1, <1>2, <1>7 DEF ExpireVisits, CloseVisits
<1>8. CASE Tick
  <2>1. \A i \in Live : /\ Older(sessions[i]).owner = sessions[i].owner
                        /\ Older(sessions[i]).tab = sessions[i].tab
    BY DEF Older, Live, TypeInv, TypeOK, SessionType
  <2>2. \A i \in Live : sessions'[i] \in {Older(sessions[i]), sessions[i]}
    BY <1>8 DEF Tick, Live
  <2>. QED
    BY <1>8, <2>1, <2>2, TickType DEF Shrinks
<1>9. ASSUME NEW r \in Calls, Arrives(r) \/ ContextEnds(r) PROVE Shrinks
  BY <1>1, <1>9 DEF Arrives, BeginArrives, SessionCallArrives, ContextEnds, manager
<1>10. CASE \/ JanitorWakes \/ JanitorStops \/ ServerCloses \/ ToggleReadOnly
            \/ ExpireLocks \/ CloseLocks(Janitor) \/ CloseLocks(Closer)
            \/ ExpireReturns \/ CloseReturns(Janitor) \/ CloseReturns(Closer) \/ UNCHANGED vars
  BY <1>1, <1>10 DEF JanitorWakes, JanitorStops, ServerCloses, ToggleReadOnly, ExpireLocks, CloseLocks,
                     ExpireReturns, CloseReturns, manager, vars
<1>. QED
  BY <1>5, <1>6, <1>7, <1>8, <1>9, <1>10 DEF Next, Sweeps, ServerCloseSweeps

LEMMA RegisterCaps ==
  ASSUME TypeInv, Accounting, Caps, NEW r \in Calls, BeginRegisters(r)
  PROVE  SessionCaps'
<1> PICK i \in Ids : i = call[r].id
  BY DEF BeginRegisters, TypeInv, BusyCalls, InDatabase, InFactory, CallType
<1> PICK o \in Owners : o = call[r].owner
  BY DEF BeginRegisters, TypeInv, BusyCalls, InDatabase, InFactory, CallType
<1>1. i \notin Live /\ MayBegin(r)
  BY DEF BeginRegisters, Accounting, InStep, Caps, RoomKept, InFactory
<1>2. /\ sessions' = [sessions EXCEPT ![i] = NewSession(r)]
      /\ NewSession(r).owner = o /\ NewSession(r).tab = call[r].tab
      /\ NewSession(r) # NoSession
  BY ConsoleAssumption DEF BeginRegisters, NewSession, NoSession
<1>3. Live' = Live \cup {i}
  BY <1>2 DEF Live, TypeInv, TypeOK
<1>4. Of(o)' = Of(o) \cup {i} /\ \A u \in Owners : u # o => Of(u)' = Of(u)
  BY <1>1, <1>2, <1>3 DEF Of, Live, TypeInv, TypeOK
<1>5. Cardinality(Live)' = Cardinality(Live) + 1
  BY <1>1, <1>3, LiveFinite, FS_AddElement
<1>6. Cardinality(Of(o))' = Cardinality(Of(o)) + 1
  <2>1. i \notin Of(o)
    BY <1>1 DEF Of
  <2>. QED
    BY <1>4, <2>1, LiveFinite, FS_AddElement
<1>7. ~(Cardinality(Live) >= Total) /\ ~(Cardinality(Of(o)) >= PerUser)
  BY <1>1 DEF MayBegin, AtCapacity
<1>8. Cardinality(Live)' <= Total /\ Cardinality(Of(o))' <= PerUser
  BY <1>5, <1>6, <1>7, LiveFinite, ConsoleAssumption
<1>9. \A u \in Owners : Cardinality(Of(u))' <= PerUser
  BY <1>4, <1>8 DEF Caps, SessionCaps
<1>10. OneSessionPerTab'
  <2>1. \A j \in Live : ~(sessions[j].owner = o /\ sessions[j].tab = call[r].tab)
    BY <1>1 DEF MayBegin, TabInUse, Of
  <2>2. \A j \in Live : sessions'[j] = sessions[j]
    BY <1>1, <1>2 DEF Live, TypeInv, TypeOK
  <2>3. sessions'[i] = NewSession(r)
    BY <1>2 DEF TypeInv, TypeOK
  <2>. QED
    BY <1>2, <1>3, <2>1, <2>2, <2>3 DEF Caps, SessionCaps, OneSessionPerTab
<1>. QED
  BY <1>8, <1>9, <1>10 DEF SessionCaps

\* In each step, who can be in the factory or finishing afterwards.
LEMMA StepRoom ==
  ASSUME TypeInv, TypeInv', [Next]_vars, NEW r \in Calls, pc'[r] \in InFactory \cup {"finishing"}
  PROVE  \/ /\ pc'[r] = pc[r] \/ {pc[r], pc'[r]} \subseteq InFactory
            /\ call'[r] = call[r] /\ closed' = closed /\ Shrinks
         \/ BeginLocks(r)
         \/ FinishLocks(r)
<1>1. mu' = r
  BY DEF TypeInv, Mutex, Procs, Critical, InDatabase
<1>2. ASSUME NEW q \in Calls, Return(q), mu = q PROVE FALSE
  BY <1>1, <1>2, ConsoleAssumption DEF Return
<1>3. ASSUME NEW q \in Calls, BeginRegisters(q) PROVE FALSE
  BY <1>1, <1>3, ConsoleAssumption DEF BeginRegisters, Return
<1>4. Shrinks
  BY <1>3, StepShrinks
<1>5. ASSUME NEW q \in Calls, Arrives(q) \/ ContextEnds(q)
      PROVE  pc'[r] = pc[r] /\ call'[r] = call[r] /\ closed' = closed
  <2>1. mu = r
    BY <1>1, <1>5 DEF Arrives, BeginArrives, SessionCallArrives, ContextEnds
  <2>2. pc[r] # "free"
    BY <2>1 DEF TypeInv, Mutex, Procs, Critical, InDatabase, InFactory
  <2>. QED
    BY <1>5, <2>2 DEF Arrives, BeginArrives, SessionCallArrives, ContextEnds, manager, TypeInv, TypeOK, Procs
<1>7. ASSUME NEW q \in Calls, TakesLock(q)
      PROVE  BeginLocks(r) \/ FinishLocks(r)
  <2>1. BeginLocks(q) \/ ExecuteLocks(q) \/ FinishLocks(q)
    BY <1>1, <1>7, ConsoleAssumption DEF TakesLock, BeginRefused, NotFound, FoundExpired, RefusedAborted,
       ExecuteRefused, Return
  <2>2. q = r /\ ~ExecuteLocks(q)
    BY <1>1, <2>1 DEF BeginLocks, ExecuteLocks, FinishLocks, Hold, InFactory, TypeInv, TypeOK, Procs
  <2>. QED
    BY <2>1, <2>2
<1>8. ASSUME NEW q \in Calls, DatabaseAnswers(q)
      PROVE  pc[r] \in InFactory /\ pc'[r] \in InFactory /\ call'[r] = call[r] /\ closed' = closed
  <2>1. FactoryOpens(q) \/ FactoryBegins(q) \/ CommitFails(q)
    BY <1>1, <1>8, ConsoleAssumption DEF DatabaseAnswers, FactoryFails, BeginTooLate, BeginRegisters,
       ExecuteSucceeds, ExecuteFails, ExecutePanics, RollbackReturns, CommitSucceeds, FinishCleansUp, Return
  <2>2. q = r /\ ~CommitFails(q)
    BY <1>1, <2>1 DEF FactoryOpens, FactoryBegins, CommitFails, Hold, InFactory, TypeInv, TypeOK, Procs
  <2>. QED
    BY <2>1, <2>2 DEF FactoryOpens, FactoryBegins, Hold, manager, InFactory, TypeInv, TypeOK, Procs
<1>9. ASSUME \/ JanitorWakes \/ JanitorStops \/ ServerCloses \/ ToggleReadOnly \/ Tick
             \/ \E i \in Ids : ExpireVisits(i) \/ CloseVisits(Janitor, i) \/ CloseVisits(Closer, i)
             \/ UNCHANGED vars
      PROVE  pc'[r] = pc[r] /\ call'[r] = call[r] /\ closed' = closed
  BY <1>9, ConsoleAssumption DEF JanitorWakes, JanitorStops, ServerCloses, ToggleReadOnly, Tick,
     ExpireVisits, CloseVisits, manager, vars, TypeInv, TypeOK, Procs
<1>10. ~(\/ ExpireLocks \/ CloseLocks(Janitor) \/ CloseLocks(Closer)
         \/ ExpireReturns \/ CloseReturns(Janitor) \/ CloseReturns(Closer))
  BY <1>1, ConsoleAssumption DEF ExpireLocks, CloseLocks, Hold, ExpireReturns, CloseReturns
<1>11. \/ \E q \in Calls : Arrives(q) \/ ContextEnds(q) \/ TakesLock(q) \/ DatabaseAnswers(q)
       \/ JanitorWakes \/ JanitorStops \/ ServerCloses \/ ToggleReadOnly \/ Tick
       \/ \E i \in Ids : ExpireVisits(i) \/ CloseVisits(Janitor, i) \/ CloseVisits(Closer, i)
       \/ UNCHANGED vars
  BY <1>10 DEF Next, Sweeps, ServerCloseSweeps
<1>12. CASE \E q \in Calls : Arrives(q) \/ ContextEnds(q)
  BY <1>4, <1>5, <1>12
<1>13. CASE \E q \in Calls : TakesLock(q)
  BY <1>7, <1>13
<1>14. CASE \E q \in Calls : DatabaseAnswers(q)
  BY <1>4, <1>8, <1>14
<1>15. CASE \/ JanitorWakes \/ JanitorStops \/ ServerCloses \/ ToggleReadOnly \/ Tick
            \/ \E i \in Ids : ExpireVisits(i) \/ CloseVisits(Janitor, i) \/ CloseVisits(Closer, i)
            \/ UNCHANGED vars
  BY <1>4, <1>9, <1>15
<1>. QED
  BY <1>11, <1>12, <1>13, <1>14, <1>15

LEMMA NextRoomKept ==
  ASSUME TypeInv, TypeInv', Accounting, Caps, [Next]_vars
  PROVE  RoomKept'
<1> SUFFICES ASSUME NEW r \in Calls, pc'[r] \in InFactory \cup {"finishing"}
             PROVE  /\ pc'[r] \in InFactory => MayBegin(r)'
                    /\ pc'[r] = "finishing" => Cardinality(Live') < Total
  BY DEF RoomKept
<1>1. CASE /\ pc'[r] = pc[r] \/ {pc[r], pc'[r]} \subseteq InFactory
           /\ call'[r] = call[r] /\ closed' = closed /\ Shrinks
  <2>1. pc'[r] \in InFactory => MayBegin(r)'
    BY <1>1, ShrinksRoom DEF Caps, RoomKept
  <2>2. pc'[r] = "finishing" => Cardinality(Live) < Total
    BY <1>1 DEF Caps, RoomKept, InFactory
  <2>3. Cardinality(Live') <= Cardinality(Live) /\ Cardinality(Live') \in Nat
    BY <1>1, ShrinksCaps, LiveFinite, FS_Subset, FS_CardinalityType DEF Caps, Shrinks
  <2>. QED
    BY <2>1, <2>2, <2>3, LiveFinite, ConsoleAssumption
<1>2. CASE BeginLocks(r)
  <2>1. pc'[r] = "factory" /\ UNCHANGED <<call, sessions, closed>> /\ MayBegin(r)
    BY <1>2 DEF BeginLocks, Hold, manager, TypeInv, TypeOK, Procs
  <2>2. MayBegin(r)'
    BY <2>1 DEF MayBegin, TabInUse, AtCapacity, Of, Live
  <2>. QED
    BY <2>1, <2>2
<1>3. CASE FinishLocks(r)
  <2>1. pc'[r] = "finishing" /\ call[r].id \in Live /\ Delete(call[r].id)
    BY <1>3 DEF FinishLocks, Hold, MayFinish, Owned, TypeInv, TypeOK, Procs
  <2>2. Live' = Live \ {call[r].id}
    BY <2>1 DEF Delete, Live, TypeInv, TypeOK
  <2>3. Cardinality(Live') = Cardinality(Live) - 1
    BY <2>1, <2>2, LiveFinite, FS_RemoveElement
  <2>. QED
    BY <2>1, <2>3, LiveFinite, ConsoleAssumption DEF Caps, SessionCaps, InFactory
<1>. QED
  BY <1>1, <1>2, <1>3, StepRoom

\* With the mutex free, a manager that has been closed has nothing registered.
LEMMA ClosedIsEmpty ==
  ASSUME TypeInv, Shutdown, closed, ~Sweeping
  PROVE  Live = {} /\ \A r \in Calls : ~Owned(r)
  BY DEF Shutdown, Owned

LEMMA NotSweeping ==
  ASSUME TypeInv, NEW q \in Procs \cup {Nobody}, mu = q, pc[q] # "closing" \/ q = Nobody
  PROVE  ~Sweeping
  BY ConsoleAssumption DEF Sweeping, TypeInv, Mutex, Procs, Critical

LEMMA NextShutdown ==
  ASSUME TypeInv, TypeInv', Caps, [Next]_vars
  PROVE  Shutdown'
<1>1. ASSUME NEW r \in Calls, Arrives(r) \/ ContextEnds(r) PROVE Shutdown'
  <2>1. /\ UNCHANGED <<sessions, todo, closed>>
        /\ \A p \in {Janitor, Closer} : pc'[p] = pc[p]
        /\ \A q \in Calls : pc'[q] \in InDatabase => pc[q] \in InDatabase
    BY <1>1, ConsoleAssumption DEF Arrives, BeginArrives, SessionCallArrives, ContextEnds, manager,
       TypeInv, TypeOK, Procs, InDatabase, InFactory
  <2>. QED
    BY <2>1 DEF Caps, Shutdown, Sweeping, Live
<1>2. ASSUME NEW r \in Calls, TakesLock(r) \/ DatabaseAnswers(r) PROVE Shutdown'
  <2>1. /\ UNCHANGED <<todo, closed>> /\ mu \in {r, Nobody}
        /\ \A p \in Procs : p # r => pc'[p] = pc[p]
    BY <1>2, ConsoleAssumption
       DEF TakesLock, BeginRefused, BeginLocks, NotFound, FoundExpired, RefusedAborted, ExecuteRefused,
           ExecuteLocks, FinishLocks, MayExecute, Lock, DatabaseAnswers, FactoryOpens, FactoryBegins,
           FactoryFails, BeginTooLate, BeginRegisters, ExecuteSucceeds, ExecuteFails, ExecutePanics,
           RollbackReturns, CommitSucceeds, CommitFails, FinishCleansUp, manager, Hold, Return,
           TypeInv, TypeOK, Mutex, Procs, Critical, InDatabase, InFactory
  <2>2. \A p \in {Janitor, Closer} : pc'[p] = pc[p]
    BY <2>1, ConsoleAssumption DEF Procs
  <2>3. CASE ~closed
    BY <2>1, <2>2, <2>3 DEF Caps, Shutdown
  <2>4. CASE closed
    <3>1. \A q \in Calls : pc[q] \notin InDatabase
      BY <2>4 DEF Caps, Shutdown
    <3>2. mu = Nobody
      BY <2>1, <3>1, ConsoleAssumption DEF TypeInv, BusyCalls, Mutex, Procs, Critical
    <3>3. Live = {} /\ ~Owned(r) /\ ~Sweeping
      BY <2>4, <3>2, ClosedIsEmpty, NotSweeping DEF Caps
    <3>4. BeginRefused(r) \/ NotFound(r) \/ RefusedAborted(r)
      BY <1>2, <2>4, <3>1, <3>3 DEF TakesLock, BeginLocks, MayBegin, FoundExpired, ExecuteRefused,
         ExecuteLocks, MayExecute, FinishLocks, MayFinish, DatabaseAnswers, FactoryOpens, FactoryBegins,
         FactoryFails, BeginTooLate, BeginRegisters, ExecuteSucceeds, ExecuteFails, ExecutePanics,
         RollbackReturns, CommitSucceeds, CommitFails, FinishCleansUp, InDatabase, InFactory
    <3>5. UNCHANGED sessions /\ pc'[r] = "free"
      BY <3>4 DEF BeginRefused, NotFound, RefusedAborted, Return, manager, TypeInv, TypeOK, Procs
    <3>6. Live' = {}
      BY <3>3, <3>5 DEF Live
    <3>7. \A q \in Calls : pc'[q] \notin InDatabase
      BY <2>1, <3>1, <3>5 DEF Procs, InDatabase, InFactory
    <3>. QED
      BY <2>1, <2>2, <3>6, <3>7 DEF Caps, Shutdown
  <2>. QED
    BY <2>3, <2>4
<1>3. CASE JanitorWakes \/ JanitorStops \/ ServerCloses \/ ToggleReadOnly \/ UNCHANGED vars
  <2>1. /\ UNCHANGED <<sessions, todo, closed>> /\ \A q \in Calls : pc'[q] = pc[q]
        /\ \A p \in {Janitor, Closer} : \/ pc'[p] = pc[p]
                                        \/ pc[p] = "free" /\ pc'[p] \in {"waiting", "stopping"}
    BY <1>3, ConsoleAssumption DEF JanitorWakes, JanitorStops, ServerCloses, ToggleReadOnly, manager, vars,
       TypeInv, TypeOK, Procs
  <2>. QED
    BY <2>1 DEF Caps, Shutdown, Sweeping, Live
<1>4. CASE Tick
  <2>1. Live' = Live
    BY <1>4, TickType
  <2>. QED
    BY <1>4, <2>1 DEF Tick, Caps, Shutdown, Sweeping
<1>5. CASE ExpireLocks
  <2>1. UNCHANGED <<sessions, closed>> /\ \A p \in Procs : p # Janitor => pc'[p] = pc[p]
    BY <1>5 DEF ExpireLocks, Hold, TypeInv, TypeOK, Procs
  <2>2. pc'[Janitor] = "expiring" /\ ~Sweeping
    BY <1>5, NotSweeping DEF ExpireLocks, Hold, Lock, TypeInv, TypeOK, Procs
  <2>3. closed => Live' = {}
    BY <2>1, <2>2 DEF Caps, Shutdown, Live
  <2>. QED
    BY <2>1, <2>2, <2>3, ConsoleAssumption DEF Caps, Shutdown, Procs
<1>6. ASSUME NEW p \in {Janitor, Closer}, CloseLocks(p) PROVE Shutdown'
  <2>1. /\ mu = Nobody /\ closed' /\ Live' = Live /\ todo' = Live
        /\ pc'[p] = "closing" /\ \A q \in Procs : q # p => pc'[q] = pc[q]
    BY <1>6 DEF CloseLocks, Hold, Live, TypeInv, TypeOK, Procs
  <2>2. \A r \in Calls : pc'[r] \notin InDatabase
    BY <2>1, ConsoleAssumption DEF TypeInv, Mutex, Procs, Critical
  <2>. QED
    BY <2>1, <2>2, ConsoleAssumption DEF Shutdown, Sweeping
<1>7. ASSUME NEW i \in Ids, ExpireVisits(i) \/ CloseVisits(Janitor, i) \/ CloseVisits(Closer, i)
      PROVE  Shutdown'
  <2>1. UNCHANGED <<pc, closed>> /\ todo' = todo \ {i}
        /\ (Live' = Live \/ Live' = Live \ {i})
    BY <1>7 DEF ExpireVisits, CloseVisits, Delete, Live, TypeInv, TypeOK
  <2>2. CASE ExpireVisits(i)
    <3>1. ~Sweeping
      BY <2>2, NotSweeping, ConsoleAssumption DEF ExpireVisits, TypeInv, Mutex, Procs, Critical
    <3>. QED
      BY <2>1, <3>1 DEF Caps, Shutdown, Sweeping
  <2>3. CASE CloseVisits(Janitor, i) \/ CloseVisits(Closer, i)
    <3>1. Live' = Live \ {i}
      BY <2>3 DEF CloseVisits, Delete, Live, TypeInv, TypeOK
    <3>. QED
      BY <2>1, <3>1 DEF Caps, Shutdown, Sweeping
  <2>. QED
    BY <1>7, <2>2, <2>3
<1>8. CASE ExpireReturns
  <2>1. UNCHANGED <<sessions, closed>> /\ \A p \in Procs : p # Janitor => pc'[p] = pc[p]
    BY <1>8 DEF ExpireReturns, manager, TypeInv, TypeOK, Procs
  <2>2. pc'[Janitor] = "free" /\ ~Sweeping
    BY <1>8, NotSweeping, ConsoleAssumption DEF ExpireReturns, TypeInv, TypeOK, Mutex, Procs, Critical
  <2>3. closed => Live' = {}
    BY <2>1, <2>2 DEF Caps, Shutdown, Live
  <2>. QED
    BY <2>1, <2>2, <2>3, ConsoleAssumption DEF Caps, Shutdown, Procs
<1>9. ASSUME NEW p \in {Janitor, Closer}, CloseReturns(p) PROVE Shutdown'
  <2>1. UNCHANGED <<sessions, closed>> /\ todo = {} /\ \A q \in Procs : q # p => pc'[q] = pc[q]
    BY <1>9 DEF CloseReturns, manager, TypeInv, TypeOK, Procs
  <2>2. pc[p] = "closing" /\ pc'[p] = "exited" /\ closed
    BY <1>9 DEF CloseReturns, Caps, Shutdown, TypeInv, TypeOK, Procs
  <2>3. Live' = {}
    BY <2>1, <2>2 DEF Caps, Shutdown, Live
  <2>. QED
    BY <2>1, <2>2, <2>3, ConsoleAssumption DEF Caps, Shutdown, Procs
<1>. QED
  BY <1>1, <1>2, <1>3, <1>4, <1>5, <1>6, <1>7, <1>8, <1>9 DEF Next, Sweeps, ServerCloseSweeps

\* A Close that has returned leaves nothing behind, even while the other one
\* is still sweeping.
Drained == (\E p \in {Janitor, Closer} : pc[p] = "exited") => Live = {}

LEMMA NextDrained ==
  ASSUME TypeInv, Caps, Drained, [Next]_vars
  PROVE  Drained'
<1> SUFFICES ASSUME NEW p \in {Janitor, Closer}, pc'[p] = "exited" PROVE Live' = {}
  BY DEF Drained
<1>1. pc[p] = "exited" \/ CloseReturns(p)
  <2>1. ASSUME NEW r \in Calls, Arrives(r) \/ ContextEnds(r) \/ TakesLock(r) \/ DatabaseAnswers(r)
        PROVE  pc'[p] = pc[p]
    BY <2>1, ConsoleAssumption
       DEF Arrives, BeginArrives, SessionCallArrives, ContextEnds, TakesLock, BeginRefused, BeginLocks,
           NotFound, FoundExpired, RefusedAborted, ExecuteRefused, ExecuteLocks, FinishLocks, MayExecute,
           DatabaseAnswers, FactoryOpens, FactoryBegins, FactoryFails, BeginTooLate, BeginRegisters,
           ExecuteSucceeds, ExecuteFails, ExecutePanics, RollbackReturns, CommitSucceeds, CommitFails,
           FinishCleansUp, Hold, Return, TypeInv, TypeOK, Procs
  <2>2. CASE \/ JanitorWakes \/ JanitorStops \/ ServerCloses \/ ToggleReadOnly \/ Tick
             \/ ExpireLocks \/ CloseLocks(Janitor) \/ CloseLocks(Closer) \/ ExpireReturns
             \/ \E i \in Ids : ExpireVisits(i) \/ CloseVisits(Janitor, i) \/ CloseVisits(Closer, i)
             \/ UNCHANGED vars
    BY <2>2, ConsoleAssumption
       DEF JanitorWakes, JanitorStops, ServerCloses, ToggleReadOnly, Tick, ExpireLocks, CloseLocks,
           ExpireReturns, ExpireVisits, CloseVisits, Hold, vars, TypeInv, TypeOK, Procs
  <2>3. CASE CloseReturns(Janitor) \/ CloseReturns(Closer)
    BY <2>3, ConsoleAssumption DEF CloseReturns, TypeInv, TypeOK, Procs
  <2>. QED
    BY <2>1, <2>2, <2>3 DEF Next, Sweeps, ServerCloseSweeps
<1>2. CASE pc[p] = "exited"
  <2>1. closed /\ Live = {}
    BY <1>2 DEF Caps, Shutdown, Drained
  <2>2. \A r \in Calls : ~BeginRegisters(r)
    BY <2>1 DEF Caps, Shutdown, BeginRegisters, InDatabase, InFactory
  <2>. QED
    BY <2>1, <2>2, StepShrinks DEF Shrinks
<1>3. CASE CloseReturns(p)
  <2>1. todo = {} /\ pc[p] = "closing" /\ UNCHANGED sessions
    BY <1>3 DEF CloseReturns, manager
  <2>2. Live = {}
    BY <2>1 DEF Caps, Shutdown
  <2>. QED
    BY <2>1, <2>2 DEF Live
<1>. QED
  BY <1>1, <1>2, <1>3

(***************************************************************************)
(* The inductive invariant and the theorems.                               *)
(***************************************************************************)
IInv == TypeInv /\ Accounting /\ Caps /\ Drained

LEMMA InitIInv == Init => IInv
<1> SUFFICES ASSUME Init PROVE IInv
  OBVIOUS
<1>1. Drained
  BY DEF Init, Drained, Procs
<1>. QED
  BY <1>1, InitTypeInv, InitAccounting, InitCaps DEF IInv

LEMMA NextIInv == IInv /\ [Next]_vars => IInv'
<1> SUFFICES ASSUME IInv, [Next]_vars PROVE IInv'
  OBVIOUS
<1>1. TypeInv'
  BY NextTypeInv DEF IInv
<1>2. Accounting'
  BY NextAccounting DEF IInv
<1>3. SessionCaps'
  BY StepShrinks, ShrinksCaps, RegisterCaps DEF IInv, Caps
<1>4. RoomKept' /\ Shutdown'
  BY <1>1, NextRoomKept, NextShutdown DEF IInv
<1>5. Drained'
  BY NextDrained DEF IInv
<1>. QED
  BY <1>1, <1>2, <1>3, <1>4, <1>5 DEF IInv, Caps

\* The inductive invariant holds in every reachable state.
THEOREM Invariant == Spec => []IInv
  BY InitIInv, NextIInv, PTL DEF Spec

\* Every variable keeps its type (the Manager's maps hold whole sessions only).
THEOREM TypesHold == Spec => []TypeOK
<1>1. IInv => TypeOK
  BY DEF IInv, TypeInv
<1>. QED
  BY <1>1, Invariant, PTL

\* No pool and no transaction is lost on any path of Begin, Execute, Finish,
\* Expire and Close.
THEOREM NothingIsLost == Spec => []PoolsAccountedFor
<1>1. IInv => PoolsAccountedFor
  BY DEF IInv, Accounting, Registered, Settled, InHand, PoolsAccountedFor, Live
<1>. QED
  BY <1>1, Invariant, PTL

\* A transaction with a failed statement is never committed.
THEOREM FailuresStay == Spec => []FailedNeverCommits
<1>1. IInv => FailedNeverCommits
  BY DEF IInv, TypeInv, TypeOK, Accounting, FailedRolledBack, FailedNeverCommits
<1>. QED
  BY <1>1, Invariant, PTL

\* Two begins of one tab never both register, however they race.
THEOREM TabsAreExclusive == Spec => []OneSessionPerTab
<1>1. IInv => OneSessionPerTab
  BY DEF IInv, Caps, SessionCaps
<1>. QED
  BY <1>1, Invariant, PTL

\* The pool that is open and not registered is that of the call in hand, for
\* which Begin or Finish has kept room.
LEMMA PoolsFit == IInv => Cardinality(pools) <= Total
<1> SUFFICES ASSUME IInv PROVE Cardinality(pools) <= Total
  OBVIOUS
<1>1. CASE pools \subseteq Live
  <2>1. Cardinality(pools) <= Cardinality(Live) /\ Cardinality(pools) \in Nat
    BY <1>1, LiveFinite, FS_Subset, FS_CardinalityType
  <2>. QED
    BY <2>1, LiveFinite, ConsoleAssumption DEF IInv, Caps, SessionCaps
<1>2. CASE ~(pools \subseteq Live)
  <2>1. PICK i \in pools : i \notin Live
    BY <1>2
  <2>2. PICK r \in Calls : mu = r /\ call[r].id = i
    BY <2>1 DEF IInv, TypeInv, TypeOK, Accounting, Settled, InHand
  <2>3. \A j \in pools : j \in Live \/ j = i
    BY <2>2 DEF IInv, TypeInv, TypeOK, Accounting, Settled, InHand
  <2>4. pc[r] \in InFactory \cup {"finishing"}
    BY <2>1, <2>2 DEF IInv, TypeInv, BusyCalls, Mutex, Procs, Critical, InDatabase, Accounting, InStep, InFactory
  <2>5. Cardinality(Live) < Total
    BY <2>4, LiveFinite, ConsoleAssumption DEF IInv, Caps, RoomKept, MayBegin, AtCapacity, InFactory
  <2>6. IsFiniteSet(Live \cup {i}) /\ Cardinality(Live \cup {i}) = Cardinality(Live) + 1
    BY <2>1, LiveFinite, FS_AddElement
  <2>7. pools \subseteq Live \cup {i}
    BY <2>3
  <2>8. Cardinality(pools) <= Cardinality(Live) + 1 /\ Cardinality(pools) \in Nat
    BY <2>6, <2>7, FS_Subset, FS_CardinalityType
  <2>. QED
    BY <2>5, <2>8, LiveFinite, ConsoleAssumption
<1>. QED
  BY <1>1, <1>2

\* The caps bound the pools that are open, those in the making included.
THEOREM CapsHold == Spec => []CapsBoundPools
<1>1. IInv => CapsBoundPools
  BY PoolsFit DEF IInv, Caps, SessionCaps, CapsBoundPools
<1>. QED
  BY <1>1, Invariant, PTL

\* Once a Close has returned nothing is open and nothing opens again.
THEOREM ShutdownIsFinal == Spec => []ClosedOwnsNothing
<1>1. ASSUME IInv, NEW p \in {Janitor, Closer}, pc[p] = "exited" PROVE Live = {} /\ pools = {}
  <2>1. Live = {} /\ closed
    BY <1>1 DEF IInv, Drained, Caps, Shutdown
  <2>2. \A r \in Calls : mu # r
    BY <1>1, <2>1, ConsoleAssumption DEF IInv, Caps, Shutdown, TypeInv, BusyCalls, Mutex, Procs, Critical
  <2>3. \A i \in Ids : Settled(i)
    BY <1>1, <2>2 DEF IInv, Accounting, InHand
  <2>. QED
    BY <1>1, <2>1, <2>3 DEF IInv, TypeInv, TypeOK, Settled
<1>2. IInv => ClosedOwnsNothing
  BY <1>1 DEF ClosedOwnsNothing
<1>. QED
  BY <1>2, Invariant, PTL

(***************************************************************************)
(* Action properties and the refinement of the ledger.                     *)
(***************************************************************************)
LEMMA RollsBack ==
  ASSUME TypeInv, NEW i \in Ids, RollbackTx(i), UNCHANGED failed
  PROVE  [Ledger!Next]_Ledger!vars
<1>1. CASE tx[i] = "open"
  <2>1. Ledger!Rollback(i)
    BY <1>1 DEF RollbackTx, Ledger!Rollback, TypeInv, TypeOK
  <2>. QED
    BY <2>1 DEF Ledger!Next
<1>2. CASE tx[i] # "open"
  BY <1>2 DEF RollbackTx, Ledger!vars, TypeInv, TypeOK
<1>. QED
  BY <1>1, <1>2

LEMMA StatementFails ==
  ASSUME TypeInv, NEW i \in Ids, tx[i] = "open", failed' = failed \cup {i},
         tx' = tx \/ RollbackTx(i)
  PROVE  Ledger!Next
<1>1. Ledger!Fail(i)
  BY DEF RollbackTx, Ledger!Fail, TypeInv, TypeOK
<1>. QED
  BY <1>1 DEF Ledger!Next

\* The instance has its own copy of the library's definition.
LEMMA SameCardinality == \A S : Ledger!Cardinality(S) = Cardinality(S)
  BY DEF Ledger!Cardinality, Cardinality

\* The capacity that Begin has checked covers every open transaction.
LEMMA RoomToOpen ==
  ASSUME IInv, NEW r \in Calls, FactoryBegins(r)
  PROVE  Cardinality(Ledger!OpenNow) < Total
<1>1. mu = r /\ tx[call[r].id] = "none"
  BY DEF FactoryBegins, IInv, TypeInv, BusyCalls, Mutex, Procs, Critical, InDatabase, InFactory, Accounting, InStep
<1>2. Ledger!OpenNow \subseteq Live
  <2> SUFFICES ASSUME NEW i \in Ids, tx[i] = "open" PROVE i \in Live
    BY DEF Ledger!OpenNow
  <2>1. i # call[r].id
    BY <1>1
  <2>2. Settled(i) \/ InHand(i)
    BY DEF IInv, Accounting
  <2>. QED
    BY <1>1, <2>1, <2>2 DEF Settled, InHand
<1>3. Cardinality(Live) < Total
  <2>1. MayBegin(r)
    BY DEF FactoryBegins, IInv, Caps, RoomKept, InFactory
  <2>. QED
    BY <2>1, LiveFinite, ConsoleAssumption DEF MayBegin, AtCapacity
<1>4. Cardinality(Ledger!OpenNow) <= Cardinality(Live) /\ Cardinality(Ledger!OpenNow) \in Nat
  BY <1>2, LiveFinite, FS_Subset, FS_CardinalityType
<1>. QED
  BY <1>3, <1>4, LiveFinite, ConsoleAssumption

LEMMA AnswersLedger ==
  ASSUME IInv, NEW r \in Calls, DatabaseAnswers(r)
  PROVE  [Ledger!Next]_Ledger!vars
<1>i. PICK i \in Ids : i = call[r].id
  BY DEF DatabaseAnswers, FactoryOpens, FactoryBegins, FactoryFails, BeginTooLate, BeginRegisters,
         ExecuteSucceeds, ExecuteFails, ExecutePanics, RollbackReturns, CommitSucceeds, CommitFails,
         FinishCleansUp, InFactory, CallType, IInv, TypeInv, BusyCalls, InDatabase
<1>0. TypeInv /\ InStep(r)
  BY DEF IInv, Accounting
<1>1. CASE FactoryOpens(r) \/ FactoryFails(r) \/ BeginRegisters(r) \/ ExecuteSucceeds(r)
  BY <1>1 DEF FactoryOpens, FactoryFails, BeginRegisters, ExecuteSucceeds, database, Ledger!vars
<1>2. CASE FactoryBegins(r)
  <2>0. tx[i] = "none" /\ Cardinality(Ledger!OpenNow) < Total
    BY <1>i, <1>0, <1>2, RoomToOpen DEF FactoryBegins, InStep
  <2>1. Ledger!Open(i)
    BY <1>i, <1>2, <2>0, SameCardinality DEF FactoryBegins, Ledger!Open
  <2>. QED
    BY <2>1 DEF Ledger!Next
<1>3. CASE BeginTooLate(r) \/ RollbackReturns(r) \/ FinishCleansUp(r)
  BY <1>i, <1>0, <1>3, RollsBack DEF BeginTooLate, RollbackReturns, FinishCleansUp
<1>4. CASE ExecuteFails(r) \/ ExecutePanics(r)
  <2>1. tx[i] = "open"
    BY <1>i, <1>4 DEF ExecuteFails, ExecutePanics, IInv, TypeInv, BusyCalls, Accounting, Registered
  <2>2. failed' = failed \cup {i} /\ (tx' = tx \/ RollbackTx(i))
    BY <1>i, <1>4 DEF ExecuteFails, ExecutePanics, Aborts, database
  <2>. QED
    BY <1>0, <2>1, <2>2, StatementFails
<1>5. CASE CommitSucceeds(r) \/ CommitFails(r)
  <2>1. tx[i] = "open" /\ i \notin failed
    BY <1>i, <1>0, <1>5 DEF CommitSucceeds, CommitFails, InStep
  <2>2. Ledger!Commit(i) \/ Ledger!Rollback(i)
    BY <1>i, <1>5, <2>1 DEF CommitSucceeds, CommitFails, Ledger!Commit, Ledger!Rollback
  <2>. QED
    BY <2>2 DEF Ledger!Next
<1>. QED
  BY <1>1, <1>2, <1>3, <1>4, <1>5 DEF DatabaseAnswers

LEMMA TakesLockLedger ==
  ASSUME IInv, NEW r \in Calls, TakesLock(r)
  PROVE  [Ledger!Next]_Ledger!vars
<1>1. CASE BeginRefused(r) \/ BeginLocks(r) \/ NotFound(r) \/ RefusedAborted(r) \/ ExecuteLocks(r) \/ FinishLocks(r)
  BY <1>1 DEF BeginRefused, BeginLocks, NotFound, RefusedAborted, ExecuteLocks, FinishLocks, database, Ledger!vars
<1>2. CASE FoundExpired(r)
  BY <1>2, RollsBack DEF FoundExpired, Live, IInv
<1>3. CASE ExecuteRefused(r)
  <2>1. call[r].id \in Live
    BY <1>3 DEF ExecuteRefused, MayExecute, Owned
  <2>2. call[r].id \in Ids /\ tx[call[r].id] = "open"
    BY <2>1 DEF Live, IInv, Accounting, Registered
  <2>3. failed' = failed \cup {call[r].id} /\ (tx' = tx \/ RollbackTx(call[r].id))
    BY <1>3 DEF ExecuteRefused, Aborts, database
  <2>. QED
    BY <2>2, <2>3, StatementFails DEF IInv
<1>. QED
  BY <1>1, <1>2, <1>3 DEF TakesLock

\* The manager implements the ledger: a transaction opens once, within the
\* capacity, ends once, and is committed only if no statement of it failed.
THEOREM ImplementsLedger == Spec => LedgerSpec
<1>1. Init => Ledger!Init
  BY DEF Init, Ledger!Init
<1>2. IInv /\ [Next]_vars => [Ledger!Next]_Ledger!vars
  <2> SUFFICES ASSUME IInv, [Next]_vars PROVE [Ledger!Next]_Ledger!vars
    OBVIOUS
  <2>1. ASSUME NEW r \in Calls, Arrives(r) \/ ContextEnds(r) PROVE [Ledger!Next]_Ledger!vars
    BY <2>1 DEF Arrives, BeginArrives, SessionCallArrives, ContextEnds, database, Ledger!vars
  <2>2. ASSUME NEW i \in Ids, ExpireVisits(i) \/ CloseVisits(Janitor, i) \/ CloseVisits(Closer, i)
        PROVE  [Ledger!Next]_Ledger!vars
    BY <2>2, RollsBack DEF ExpireVisits, CloseVisits, database, IInv, Ledger!vars
  <2>3. CASE \/ JanitorWakes \/ JanitorStops \/ ServerCloses \/ ToggleReadOnly \/ Tick
             \/ ExpireLocks \/ CloseLocks(Janitor) \/ CloseLocks(Closer)
             \/ ExpireReturns \/ CloseReturns(Janitor) \/ CloseReturns(Closer) \/ UNCHANGED vars
    BY <2>3 DEF JanitorWakes, JanitorStops, ServerCloses, ToggleReadOnly, Tick, ExpireLocks, CloseLocks,
       ExpireReturns, CloseReturns, database, vars, Ledger!vars
  <2>. QED
    BY <2>1, <2>2, <2>3, AnswersLedger, TakesLockLedger DEF Next, Sweeps, ServerCloseSweeps
<1>. QED
  BY <1>1, <1>2, Invariant, PTL DEF Spec, LedgerSpec, Ledger!Spec

LEMMA RollbackNeverCommits ==
  ASSUME TypeInv, NEW j, RollbackTx(j), NEW i \in Ids, tx'[i] = "committed"
  PROVE  tx[i] = "committed"
  BY DEF RollbackTx, TypeInv, TypeOK

\* Only a commit asked for by the session's owner commits.
THEOREM CommitsNeedACommit == Spec => CommitsAreAskedFor
<1>1. ASSUME IInv, [Next]_vars, NEW i \in Ids, tx[i] # "committed", tx'[i] = "committed"
      PROVE  \E r \in Calls : mu = r /\ call[r].op = "commit" /\ call[r].id = i
  <2>0. tx' # tx /\ \A j : ~RollbackTx(j)
    BY <1>1, RollbackNeverCommits DEF IInv
  <2>1. ASSUME NEW r \in Calls, Arrives(r) \/ ContextEnds(r) PROVE FALSE
    BY <2>0, <2>1 DEF Arrives, BeginArrives, SessionCallArrives, ContextEnds, database
  <2>2. ASSUME NEW r \in Calls, TakesLock(r) PROVE FALSE
    BY <2>0, <2>2 DEF TakesLock, BeginRefused, BeginLocks, NotFound, FoundExpired, RefusedAborted,
       ExecuteRefused, ExecuteLocks, FinishLocks, Aborts, database
  <2>3. ASSUME NEW r \in Calls, DatabaseAnswers(r)
        PROVE  FactoryBegins(r) \/ CommitSucceeds(r) \/ CommitFails(r)
    BY <2>0, <2>3 DEF DatabaseAnswers, FactoryOpens, FactoryFails, BeginTooLate, BeginRegisters,
       ExecuteSucceeds, ExecuteFails, ExecutePanics, RollbackReturns, FinishCleansUp, Aborts, database
  <2>4. ASSUME NEW r \in Calls, FactoryBegins(r) PROVE FALSE
    BY <1>1, <2>4 DEF FactoryBegins, IInv, TypeInv, TypeOK
  <2>5. ASSUME NEW r \in Calls, CommitSucceeds(r) \/ CommitFails(r)
        PROVE  mu = r /\ call[r].op = "commit" /\ call[r].id = i
    BY <1>1, <2>5 DEF CommitSucceeds, CommitFails, IInv, TypeInv, TypeOK, Mutex, Procs, Critical, InDatabase
  <2>6. ~(\E j \in Ids : ExpireVisits(j) \/ CloseVisits(Janitor, j) \/ CloseVisits(Closer, j))
    BY <2>0 DEF ExpireVisits, CloseVisits, database
  <2>7. ~(\/ JanitorWakes \/ JanitorStops \/ ServerCloses \/ ToggleReadOnly \/ Tick
          \/ ExpireLocks \/ CloseLocks(Janitor) \/ CloseLocks(Closer)
          \/ ExpireReturns \/ CloseReturns(Janitor) \/ CloseReturns(Closer) \/ UNCHANGED vars)
    BY <2>0 DEF JanitorWakes, JanitorStops, ServerCloses, ToggleReadOnly, Tick, ExpireLocks, CloseLocks,
       ExpireReturns, CloseReturns, database, vars
  <2>8. PICK r \in Calls : DatabaseAnswers(r)
    BY <1>1, <2>1, <2>2, <2>6, <2>7 DEF Next, Sweeps, ServerCloseSweeps
  <2>. QED
    BY <2>3, <2>4, <2>5, <2>8
<1>2. IInv /\ [Next]_vars =>
        [\A i \in Ids : tx[i] # "committed" /\ tx'[i] = "committed" =>
           \E r \in Calls : mu = r /\ call[r].op = "commit" /\ call[r].id = i]_vars
  BY <1>1
<1>. QED
  BY <1>2, Invariant, PTL DEF Spec, CommitsAreAskedFor

\* A statement or the end of a transaction is sent to the database only for the
\* owner of a session that is registered and has not expired.
THEOREM StrangersAndExpiredAreRefused == Spec => OnlyLiveOwnedSessionsRun
<1>1. ASSUME IInv, [Next]_vars, NEW r \in Calls, pc[r] = "waiting", pc'[r] \in {"executing", "finishing"}
      PROVE  Owned(r)
  <2>0. mu' = r /\ pc'[r] # pc[r]
    BY <1>1, NextIInv DEF IInv, TypeInv, Mutex, Procs, Critical, InDatabase
  <2>1. ASSUME NEW q \in Calls, Arrives(q) \/ ContextEnds(q) PROVE FALSE
    BY <1>1, <2>0, <2>1 DEF Arrives, BeginArrives, SessionCallArrives, ContextEnds, IInv, TypeInv, TypeOK, Procs
  <2>2. ASSUME NEW q \in Calls, TakesLock(q) PROVE ExecuteLocks(r) \/ FinishLocks(r)
    <3>1. BeginLocks(q) \/ ExecuteLocks(q) \/ FinishLocks(q)
      BY <2>0, <2>2, ConsoleAssumption DEF TakesLock, BeginRefused, NotFound, FoundExpired, RefusedAborted,
         ExecuteRefused, Return
    <3>2. q = r /\ ~BeginLocks(q)
      BY <1>1, <2>0, <3>1 DEF BeginLocks, ExecuteLocks, FinishLocks, Hold, IInv, TypeInv, TypeOK, Procs
    <3>. QED
      BY <3>1, <3>2
  <2>3. ASSUME NEW q \in Calls, DatabaseAnswers(q) PROVE FALSE
    <3>1. FactoryOpens(q) \/ FactoryBegins(q) \/ CommitFails(q)
      BY <2>0, <2>3, ConsoleAssumption DEF DatabaseAnswers, FactoryFails, BeginTooLate, BeginRegisters,
         ExecuteSucceeds, ExecuteFails, ExecutePanics, RollbackReturns, CommitSucceeds, FinishCleansUp, Return
    <3>. QED
      BY <1>1, <2>0, <3>1 DEF FactoryOpens, FactoryBegins, CommitFails, Hold
  <2>4. ASSUME \/ JanitorWakes \/ JanitorStops \/ ServerCloses \/ ToggleReadOnly \/ Tick
               \/ \E j \in Ids : ExpireVisits(j) \/ CloseVisits(Janitor, j) \/ CloseVisits(Closer, j)
               \/ ExpireLocks \/ CloseLocks(Janitor) \/ CloseLocks(Closer)
               \/ ExpireReturns \/ CloseReturns(Janitor) \/ CloseReturns(Closer) \/ UNCHANGED vars
        PROVE  FALSE
    BY <1>1, <2>0, <2>4, ConsoleAssumption
       DEF JanitorWakes, JanitorStops, ServerCloses, ToggleReadOnly, Tick, ExpireVisits, CloseVisits,
           ExpireLocks, CloseLocks, ExpireReturns, CloseReturns, Hold, vars, IInv, TypeInv, TypeOK, Procs
  <2>5. PICK q \in Calls : TakesLock(q)
    BY <1>1, <2>1, <2>3, <2>4 DEF Next, Sweeps, ServerCloseSweeps
  <2>. QED
    BY <2>2, <2>5 DEF ExecuteLocks, MayExecute, FinishLocks, MayFinish
<1>2. ASSUME IInv, NEW r \in Calls, Owned(r)
      PROVE  LET s == sessions[call[r].id] IN s # NoSession /\ s.owner = call[r].owner /\ s.age < Idle
  <2>1. sessions[call[r].id] \in SessionType
    BY <1>2 DEF Owned, Live, IInv, TypeInv, TypeOK
  <2>2. sessions[call[r].id].age \in 0..Idle
    BY <2>1 DEF SessionType
  <2>. QED
    BY <1>2, <2>2, ConsoleAssumption DEF Owned, Live, Expired
<1>3. IInv /\ [Next]_vars =>
        [\A r \in Calls : pc[r] = "waiting" /\ pc'[r] \in {"executing", "finishing"} =>
           LET s == sessions[call[r].id] IN
             s # NoSession /\ s.owner = call[r].owner /\ s.age < Idle]_vars
  BY <1>1, <1>2
<1>. QED
  BY <1>3, Invariant, PTL DEF Spec, OnlyLiveOwnedSessionsRun

\* While a call runs in the database on a session, no cleanup and no other call
\* ends its transaction, closes its pool, or registers or drops it.
THEOREM CleanupWaits == Spec => SerializedWithCleanup
<1>1. ASSUME IInv, [Next]_vars, NEW r \in Calls, pc[r] \in InDatabase, pc'[r] = pc[r]
      PROVE  UNCHANGED <<tx, pools>> /\ Live' = Live
  <2>0. mu = r
    BY <1>1 DEF IInv, TypeInv, Mutex, Procs, Critical
  <2>1. ASSUME NEW q \in Calls, Arrives(q) \/ ContextEnds(q) PROVE UNCHANGED <<tx, pools, sessions>>
    BY <2>1 DEF Arrives, BeginArrives, SessionCallArrives, ContextEnds, manager, database
  <2>2. ASSUME NEW q \in Calls, TakesLock(q) PROVE FALSE
    BY <2>0, <2>2, ConsoleAssumption DEF TakesLock, BeginRefused, BeginLocks, NotFound, FoundExpired,
       RefusedAborted, ExecuteRefused, ExecuteLocks, MayExecute, FinishLocks, Lock
  <2>3. ASSUME NEW q \in Calls, DatabaseAnswers(q) PROVE FALSE
    <3>1. pc[q] \in InDatabase
      BY <2>3 DEF DatabaseAnswers, FactoryOpens, FactoryBegins, FactoryFails, BeginTooLate, BeginRegisters,
         ExecuteSucceeds, ExecuteFails, ExecutePanics, RollbackReturns, CommitSucceeds, CommitFails,
         FinishCleansUp, InDatabase, InFactory
    <3>2. q = r
      BY <1>1, <2>0, <3>1 DEF IInv, TypeInv, Mutex, Procs, Critical
    <3>3. Return(q) \/ FactoryOpens(q) \/ FactoryBegins(q) \/ CommitFails(q)
      BY <2>3 DEF DatabaseAnswers, FactoryFails, BeginTooLate, BeginRegisters, ExecuteSucceeds,
         ExecuteFails, ExecutePanics, RollbackReturns, CommitSucceeds, FinishCleansUp
    <3>4. pc'[r] # pc[r]
      BY <1>1, <3>2, <3>3 DEF FactoryOpens, FactoryBegins, CommitFails, Return, Hold, InDatabase,
         InFactory, IInv, TypeInv, TypeOK, Procs
    <3>. QED
      BY <1>1, <3>4
  <2>4. ASSUME \/ \E j \in Ids : ExpireVisits(j) \/ CloseVisits(Janitor, j) \/ CloseVisits(Closer, j)
               \/ ExpireLocks \/ CloseLocks(Janitor) \/ CloseLocks(Closer)
        PROVE  FALSE
    BY <1>1, <2>0, <2>4, ConsoleAssumption DEF ExpireVisits, CloseVisits, ExpireLocks, CloseLocks, Lock,
       IInv, TypeInv, Mutex, Procs, Critical
  <2>5. ASSUME \/ JanitorWakes \/ JanitorStops \/ ServerCloses \/ ToggleReadOnly
               \/ ExpireReturns \/ CloseReturns(Janitor) \/ CloseReturns(Closer) \/ UNCHANGED vars
        PROVE  UNCHANGED <<tx, pools, sessions>>
    BY <2>5 DEF JanitorWakes, JanitorStops, ServerCloses, ToggleReadOnly, ExpireReturns, CloseReturns,
       manager, database, vars
  <2>6. UNCHANGED sessions => Live' = Live
    BY DEF Live
  <2>7. ASSUME Tick PROVE UNCHANGED <<tx, pools>> /\ Live' = Live
    BY <1>1, <2>7, TickType DEF Tick, database, IInv
  <2>. QED
    BY <1>1, <2>1, <2>2, <2>3, <2>4, <2>5, <2>6, <2>7 DEF Next, Sweeps, ServerCloseSweeps
<1>2. ASSUME IInv, [Next]_vars, NEW r \in Calls, pc[r] \in InDatabase, pc'[r] = pc[r]
      PROVE  LET i == call[r].id IN
               /\ tx'[i] = tx[i] /\ (i \in pools' <=> i \in pools)
               /\ i \in Live <=> sessions'[i] # NoSession
  <2>1. call[r].id \in Ids
    BY <1>2 DEF IInv, TypeInv, BusyCalls, CallType, InDatabase, InFactory
  <2>. QED
    BY <1>1, <1>2, <2>1 DEF Live
<1>3. IInv /\ [Next]_vars =>
        [\A r \in Calls : pc[r] \in InDatabase /\ pc'[r] = pc[r] =>
           LET i == call[r].id IN
             /\ tx'[i] = tx[i] /\ (i \in pools' <=> i \in pools)
             /\ i \in Live <=> sessions'[i] # NoSession]_vars
  BY <1>2
<1>. QED
  BY <1>3, Invariant, PTL DEF Spec, SerializedWithCleanup

=============================================================================
