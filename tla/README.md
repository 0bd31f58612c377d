# Verification of Pebblebase

Pebblebase is a database client: a Go server (`src/internal`, `src/cmd`) with a web user interface
(`src/web`), run as a web server or as a desktop application. This directory holds TLA+ models of the
parts that keep state shared between requests, goroutines, answers that cross, renders and restarts,
the TLC configurations that check them, and TLAPS proofs about them.

Run `tlc -config X.cfg M` for the pairs in the table of runs, and `tlapm M_proofs.tla` for the proofs.
`PROJECT.json` maps each definition to the lines it models.

## 1. Inventory

The server is one process. `api.New` (`internal/api/server.go`) wires the components below and registers
the HTTP routes; each request runs in its own goroutine and reaches them by direct calls. What is shared
is guarded by a mutex per component (console sessions, adapter cache, store, rate limiter), by SQLite
(users, audit, saved queries, migrations) or by the filesystem (connections, workspaces, updates). No
lock spans two components: that is where the interleavings are.

The web client runs on one thread, one event at a time. What interleaves there are the answers it
awaits: a handler goes on after an await with the state of a later render, or, where it closes over a
variable, with that of the render that created it.

| component | state | operations | correct when |
|---|---|---|---|
| **Console sessions** `consolesession/manager.go`, `api/console_sessions.go`, `adapter/{postgres,mysql}/session.go` | sessions by token, `closed`; per session an open transaction on its own pool | Begin, Execute, Finish (commit, rollback), Expire, Close, Run | no transaction or pool is lost; a failed one is never committed; caps hold; cleanup and calls do not interfere; everything ends |
| **Adapter cache** `api/server.go`, `api/connections.go` | entries (pool, last access) by connection, LRU of 10, idle TTL of 15 min | get, set, delete, closeAll, reapExpired, getAdapter; create, update, delete of a connection | no pool leaks; none is handed out closed; capacity; the entry follows the profile |
| **Connection store and workspaces** `storage/store.go`, `storage/workspaces.go` | two JSON files, one RWMutex | Save, Update, Delete, AddConnectionToWorkspace, SaveWorkspaces | a crash or a concurrent edit loses no connection and no membership |
| **Users** `auth/*.go`, `api/auth.go` | SQLite table of users, stateless tokens | bootstrap, login, create, update access, delete, change password | one active administrator remains, whoever changes whom at the same time |
| **Login rate limiter** `api/rate_limiter.go` | failures per IP in a sliding window | Allow, RecordFailure, Reset | failures per window are bounded, also for overlapping logins |
| **Auto-update** `autoupdate/service.go` | cached release, settings file, the binary on disk | check, download, verify, replace, restart | at each moment, and after a crash, a runnable binary is in place |
| **Migrations** `api/migration.go`, `adapter/*/migration.go` | table of migrations in the target database | execute, roll back | what is recorded is what was applied |
| **Redis relay** `adapter/redis/pubsub.go`, `api/redis_pubsub.go` | one subscription and one WebSocket per request | subscribe, relay, stop | ends on both sides, whoever stops first |
| **Find everywhere** `api/find_everywhere.go`, `modals/FindEverywhereDialog.tsx`, `grid/ReferencedByMenu.tsx`, `lib/api.ts` | workers over connections, a channel, a stream; in the client the search under way and its results | search, cancel, search again, close, deadline | an entry for each connection, nothing of an older search, workers and indicators end |
| **Client: query console** `hooks/useConsoleTransactions.ts`, `lib/consoleTransaction.ts`, `query/QueryConsole.tsx` | per tab: mode, session, pending writes, the run and the calls in flight | run, cancel, commit, rollback, close, idle close, close on leaving | no server session is forgotten; statements go where the tab says |
| **Client: editor** `hooks/useTabs.ts`, `lib/navigationHistory.ts`, `lib/namedWorkspaces.ts`, `hooks/useNamedWorkspaces.ts`, `App.tsx` | tabs, history, workspaces, snapshots in localStorage | open, close, move, duplicate, go back, switch, reload | the three stay in step, over reloads too; staged work goes with consent only |
| **Client: staged rows** `grid/DataGrid.tsx`, `lib/rowDrafts.ts`, `hooks/usePebblebaseStudio.ts` | drafts over a page of rows that is read again | edit, add, delete, submit, revert, refresh, import | a draft goes when it is written, is written once, and writes only itself |
| **Client: reference cache** `lib/referenceCache.ts` | results and loads in flight | resolve, invalidate | not used: every caller passes an abort signal or a declared table |
| **Seeder order** `seeder/seeder.go` | none | ResolveDependencies | a table comes after those it refers to |
| Import/export, saved queries, query guard, audit log, AI assistant, database adapters, diff and catalog, bootstrap, Redis browser, the rest of the interface, docs and scripts | see `PROJECT.json` | | not modelled; section 12 says why |

Interactions. `executeConsoleSession` and `finishConsoleSession` call the manager, whose factory calls
`openAdapter` for a pool that never enters the adapter cache. Handlers that run queries call
`getAdapter`, which reads the store. `createConnection` opens a pool, saves a profile, assigns a workspace
and fills the cache; `deleteConnection` empties the cache and then the store. On a signal
`cmd/server/main.go:44-50` calls `Server.Close` (cancel the janitor, close the sessions, close the cache)
*before* the HTTP server is drained, so requests go on while and after everything is closed;
`app.Instance.Close` then calls it a second time.

The query console of the client talks to the console sessions over HTTP and may lose any answer. The
grid writes rows through handlers that call `getAdapter`, and the workspace a tab belongs to decides
which connections the editor, the explorer and a search see.

Hard behaviours. Requests overlap with requests of any other kind, with the janitor, the reaper and the
shutdown. Database calls last up to 30 s and may answer after the request's context has ended. Responses
get lost, statements fail or panic, and profiles are edited or deleted while their connections are in use.
The store and the updater can die between two writes. In the client, users cancel, close and edit while
calls are in flight, and pages are reloaded. `PROJECT.json` lists these as hazards, each at its
line with the properties that cover it.

## 2. Plan

Done, in this order:

1. `ConsoleSessions` implementing `TransactionLedger`, with proofs.
2. `AdapterCache`, with proofs.
3. `StudioTabs`: tabs, history, workspaces and their snapshots, with proofs.
4. `StagedRows`, with proofs.
5. `ConsoleTabs`: the client of `ConsoleSessions`, over calls that fail and get lost, with proofs.
6. `FindEverywhere`: handler, stream and the two surfaces that read it, with proofs.
7. `UserAccess`: accounts as SQLite transactions and the login limiter, with proofs.

Next:

8. `BinaryUpdate`: `ApplyUpdate` step by step on a small filesystem with a failure or a crash at each
   step, on POSIX and on Windows. Safety: a runnable binary is in place. Liveness: an update that does
   not fail takes effect.
9. `Workspaces`: the store with crashes between its writes and clients that write back whole documents.
   Abstract specification: each connection is in one workspace at most, and no edit is lost.
10. `RedisRelay`: two loops over a subscription and a WebSocket that end each other.
11. Migrations with partial failure, and the pure algorithms (dependency order, migration status)
    against reference definitions.

Each module has a type invariant; further properties come from the hazards. No module declares a
RECURSIVE operator, so that each can be proved about. `MC*` modules hold what only TLC needs: instances
of the constants, symmetry, and bounds on events.

## 3. Console sessions

`ConsoleSessions.tla` models the manager with what calls it and what it calls.

| in the model | in the code |
|---|---|
| `mu`, `sessions`, `closed` | `Manager.mu`, `.sessions`, `.closed`; `age` is `now() - touched`, stopped at `Idle` |
| `pc`, `call`, `ctxDone` | the handlers' goroutines and their contexts |
| `todo` | the entries the loops of `Expire` and `Close` have still to visit |
| `tx`, `pools` | the transaction in the database and its dedicated pool, one for each token |
| `cancelled`, `writable` | `consoleCancel` was called; the profile can be read and is not read-only |
| `failed` | history: transactions that had a statement refused |
| `BeginArrives`, `SessionCallArrives`, `ContextEnds` | the handlers of `api/console_sessions.go` |
| `BeginLocks`, `BeginRefused`, `FactoryOpens`, `FactoryBegins`, `FactoryFails`, `BeginTooLate`, `BeginRegisters` | `Begin` and its factory |
| `ExecuteLocks`, `ExecuteRefused`, `ExecuteSucceeds`, `ExecuteFails`, `ExecutePanics`, `RefusedAborted` | `Execute` and `ownedConsoleTransaction.ExecuteRaw` |
| `FinishLocks`, `CommitSucceeds`, `CommitFails`, `RollbackReturns`, `FinishCleansUp` | `Finish` |
| `NotFound`, `FoundExpired` | `owned` |
| `JanitorWakes`, `ExpireLocks`, `ExpireVisits`, `ExpireReturns`, `JanitorStops` | `Run` and `Expire` |
| `ServerCloses`, `CloseLocks`, `CloseVisits`, `CloseReturns` | `Server.Close` and `Close`, run by two goroutines |

The code holds one mutex from an operation's first line to its last, database calls included. A step
of the model runs from one point where others can observe or interfere to the next: waiting for the
mutex, and each call of the database. A commit that fails may or may not have been applied
(`CommitFails`), and closing the pinned connection ends whatever is still open (`RollbackTx`).
Statements, rows and token bytes are left out: a token is a model value that is never drawn twice.

`TransactionLedger.tla` is the promise without mutex, clock, HTTP or pools: a transaction opens once,
ends once, is committed only if none of its statements failed, and at most `Total` are open.
`ConsoleSessions` implements it with `outcome <- tx` (`LedgerSpec`).

## 4. Adapter cache

`AdapterCache.tla` models the cache, the reaper and the four request kinds that touch it.

| in the model | in the code |
|---|---|
| `cache`, `age` | `adapterCache.entries`: the adapter, and the time since `lastAccessed` stopped at `TTL + 1` |
| `profile`, `drawn` | the records of the store; the IDs already used |
| `opened`, `madeFrom` | the pools that are open, and the DSN each was opened with |
| `pc`, `req`, `held` | a handler between two calls, and its local variables |
| `reaping`, `shut` | the reaper goroutine, and `Server.Close` |
| `CacheHits`, `CacheMisses`, `ProfileRead`, `DsnRead`, `Opens`, `OpenFails`, `Caches`, `UseEnds` | `getAdapter` and the handler that uses the adapter |
| `CreateArrives`, `Saves`, `SaveFails`, `Assigns`, `Undoes` | `createConnection` |
| `UpdateArrives`, `DsnPreserved`, `Updates`, `UpdateFails` | `updateConnection` |
| `DeleteArrives`, `DeleteDrops`, `Deletes` | `deleteConnection` |
| `Reaps`, `ReaperStops`, `ServerCloses` | `reapExpired`, `startReaper`, `closeAll` |

Each method of the cache and of the store is one step, as each runs under a mutex. A handler takes
several and holds no lock in between. The name of a pool may be used again when nothing refers to the
one that had it, so the number of pools opened over time is not bounded, only how many are referred to
at once. `LastAccessed` is told by an age: two entries of the same age may be evicted in either order.
A persist that fails shows up as the failure of `Saves`, `Updates` or `Deletes`, leaving the file as it
was. A DSN is a model value: a request asks for one, or leaves its URL blank (`Nothing`) and keeps the
stored one.

Handlers that only call `getAdapter` behave as `UseArrives`, whatever they run on the adapter. What
they run is not modelled, so a pool that is closed while in use is visible (`held` not in `opened`) and
answered with an error by the driver.

## 5. Accounts

`UserAccess.tla` models the table of users with its administrators' requests, and the login limiter.

| in the model | in the code |
|---|---|
| `users`, `drawn` | the table of users, and the UUIDs drawn for it |
| `call` | a request past `AuthMiddleware` and `RequireAdmin`, with its transaction |
| `writer`, `stale` | SQLite: who holds the write lock, and whose snapshot is no longer the newest |
| `attempts`, `checking` | the failures of an address inside the window, and the logins past `Allow` |
| `Start`, `Stop` | `bootstrap`, and the end of the process, which forgets the limiter and its transactions |
| `ChangeArrives` | the middleware and the handlers up to the store: who calls is known *before* the transaction |
| `Checks`, `Writes`, `Commits`, `Fails` | the reads, the one write, the commit and the rollback of `UpdateAccess` and `DeleteUser` |
| `CreateUser` | `CreateUser`, one statement |
| `Allow`, `Unreadable`, `RecordFailure`, `Reset`, `WindowMoves` | `handleLogin` with the limiter |

SQLite is the part that is not under `src/`: a transaction begins deferred, all its reads are of one
snapshot, and its first write is refused when another commit came after that snapshot. (Without WAL,
which `bootstrap.go:89` only tries to set, a reader would block the commit instead: fewer behaviours.)
The check of the last administrator and the write it allows are two statements, so that this
refusal, and not the check, is what keeps two administrators from demoting each other:
the mutant of the run leaves it out. Passwords, names and tokens are left out: any active account may
have a token, and a login succeeds or fails.

## 6. The editor of the client

`StudioTabs.tla`. One step is an event handler with the effects of the renders it causes, since React
runs them before it delivers another event; a change of the workspaces waits for the server and is two.

| in the model | in the code |
|---|---|
| `editor`, `fresh` | `useTabs`: `openTabs`, `activeTabId`; random ids drawn |
| `nav` | `NavigationHistory` and `previousNavigationTab` of `App.tsx` |
| `conns`, `catalog` | the connections and tables loaded so far |
| `defs`, `choice`, `born` | the named workspaces, the choice among them, ids drawn |
| `store` | the snapshots in localStorage, one for each scope |
| `saving` | the change of the workspaces that the server is saving, with what it leaves behind |
| `asked` | history: the last step had the user's consent to discard |
| `OpenStep`, `TabStep`, `closeAllTabs` | the operations of `useTabs`, with `App.tsx` around them |
| `navigateHistory`, `FocusCell`, `FollowReference` | `navigateHistory`, the focused cell, a followed foreign key |
| `SourceStep` | connections and tables arrive or are deleted: `reconcile` |
| `ScopeStep` | a workspace is switched, or changed by somebody else; a change of one begins |
| `AnswerStep` | the server answers a change: `WorkspacesSaved`, `SaveFails` |
| `Reload` | the page is loaded again |

Left out: the selection, tool windows, sidebar, expanded nodes and titles (they are saved with the
tabs and follow the same path), the migration of older formats, the first workspace of an empty
installation, a localStorage that fails, and several windows that share it. The wait for the server
inside the deletion of a connection is part of the step.

A change of the workspaces is two steps, with any others between them. `CreateWorkspace`,
`UpdateWorkspace` and `DeleteWorkspace` are what `App.tsx:534-565` does before it waits: ask when the scope
is to change and a tab is dirty, write the snapshot of the scope shown, and compute the next document
(`BeginSave`; `useNamedWorkspaces.ts:61-67`). `WorkspacesSaved` is what comes after the wait
(`App.tsx:566-577`): the document and the choice become those computed before it, whatever was
switched or loaded meanwhile, and the editor follows. What the property needs to know of the
moment of the question, the scope shown then and whether the change was to leave it, stays in
`saving`. During the wait the dialog covers the page and takes one change at a time, but the
keyboard shortcuts and answers to earlier requests go past it; the model allows every other event there, which is
more than the page offers. A save that the server applied and whose answer is lost shows only when the
workspaces are loaded again (`LoadWorkspaces`) or after a `Reload`, which finds the save done or not.

What filters and lists compute is said by `Kept` (the elements in a set, in order), a recursive function
and not the library's `SelectSeq`, so that it can be proved about.

`HistoryFollowsEditor` is about steps because a simpler statement, "the cursor of the history is always at
the active tab", is false. A snapshot is scoped when it is written (`namedWorkspaces.ts:232`). When the active
tab is of a connection outside the scope, the snapshot has the first tab left as the active one, and the
history with its cursor at the tab that was left out. Loading it makes that first tab the previous one as
well (`App.tsx:385`), so it is not recorded again, and pruning puts the cursor at a neighbour. Such tabs
exist: a query opened from the log or the scripts window, and the target of a comparison, may be of any
connection (`App.tsx:604-619`, `1255-1271`). "Back" then leaves from another tab than the one on the
screen, until the next tab becomes active. No document promises otherwise, so it is not listed as a
finding; `HistoryFollowsEditor` names it as the one exception (`~Whole(Scope')`), and the proof shows that there is no other.

## 7. Staged rows

`StagedRows.tla`. The table has a primary key and may be written; otherwise nothing is staged.

| in the model | in the code |
|---|---|
| `stored` | the table in the database, written by other clients too (`ForeignWrite`) |
| `rows`, `reading`, `refreshing` | the page of rows, the read under way, `isRefreshing` |
| `drafts`, `batch`, `call` | `rowDrafts`; the drafts `submitDrafts` has captured, the call it awaits |
| `modal` | the dialog with the row it was opened with |
| `held` | the row that an open menu or value panel captured, with its mark of a new row |
| `inserts`, `unseen`, `asked` | history: what became of each new row (`reopened`: staged as new again after it was saved), writes with a lost answer, consent |
| `EditCell`, `AddRow`, `DeleteShown` | the edits of the grid, by `stageCellValue` and `stageDeleteRow` |
| `HoldRow`, `EditHeld`, `DeleteHeld`, `OpenHeld`, `ReleaseRow` | the menu and the value panel, over a row that may have changed since |
| `handleOpenRowModal`, `SaveModal`, `DeleteInModal`, `CloseModal` | the dialog |
| `submitDrafts`, `CommitRow`, `ServerApplies`, `ServerRefuses`, `Committed`, `CommitFails` | a submission, row by row |
| `Discard`, `revertDrafts`, `handleRefresh`, `RefreshEnds` | giving up drafts, refreshing |
| `OpenImport`, `ImportSucceeds` | an import over the grid |
| `ServerReads`, `RowsArrive`, `ReadFails` | the rows are read again; an invalidation restarts a read under way |

`stageCellValue` takes the mark of a new row from the draft and, when there is none, from the row it was
given (`rowDrafts.ts:33`). For a row on the screen the two agree; for a captured row they may not, and a
new row saved since is then staged as new again. The other edits go by the draft alone.

A row is identified by its key, which no edit of the model changes. Pages, filters and messages are left
out; drafts are submitted in any order.

## 8. The query console of the client

`ConsoleTabs.tla` models the tabs of `QueryConsole.tsx` with `useConsoleTransactions`, and as much of
the server as they can notice: sessions begin, execute, end and expire, answers fail and get lost. That
the server keeps what this takes from it (one session for each tab, a failed transaction only rolls
back, an idle one ends) is what `ConsoleSessions` shows.

| in the model | in the code |
|---|---|
| `tabs`, `active`, `mounted` | the tabs, the active one, the console on the screen |
| `tx` | `ConsoleTransactionState`: mode, session, pending writes, aborted |
| `loop`, `isRunning`, `controller` | the run of a tab at an await, `isRunning`, the abort controller |
| `finish`, `idle`, `closing` | the commit, rollback or close awaited; the idle close; closes nobody waits for |
| `sess` | the server's sessions |
| `orphans` | history: sessions whose begin or close got no answer, or whose begin came too late for its tab: only the server can end them |
| `runStatements`, `BeginAnswered`, `ExecuteAnswered`, `ExecuteFails`, `handleCancelQuery` | a run and its awaits |
| `finishActiveTransaction`, `FinishAnswered`, `FinishFails`, `handleConfirmCloseTab` | the end of a transaction, before a close of the tab, too |
| `IdleCloses`, `IdleAnswered`, `Unmount`, `PageHides` | the idle timer, leaving |
| `handleSelectTab`, `handleNewTab`, `SelectMode` | the tabs and the mode |

Statements are confirmed ones on a connection that allows manual transactions; a statement is a write
or not. Results, output and history are left out, as is a change of the connection in place. A reload
is an `Unmount`.

## 9. Find everywhere

`FindEverywhere.tla` models a search from the click to the last worker.

| in the model | in the code |
|---|---|
| `search` | a request with its abort controller; in the server `working`, `channel`, `expired`, `cut`; on its way `stream`; in the client `completed`, `over` |
| `dialog`, `menu` | the dialog (`running`, `results`, `error`) and the "Referenced by" menu (`loading`) |
| `openFindEverywhere`, `closeFindEverywhere`, `run`, `cancel` | the dialog |
| `RunMenu`, `CountReference`, `GoOn`, `CloseMenu` | the menu: counts for declared references, then a search |
| `searchConnection`, `Relay`, `EncodeFails`, `Expire`, `Stop`, `Drained` | the workers and the handler's loop |
| `ReadResult`, `ReadEnd`, `Fail`, `AbortRejects` | `findEverywhere` of `lib/api.ts` and what its callers do |

`Inexact` are the connections whose answer may have no encoding, such as one with an infinite number
among its sampled values. `Encode` writes nothing of it and the handler returns (`find_everywhere.go:152`),
so the stream ends as if all had been said; `cut` says that this happened.

Answers are sets: the order of a stream is that of arrival. What a worker reads, statuses and matches,
the production opt-in, the caps of 30 targets and 24 connections and a session that has ended (401) are
left out. `cleared` marks a search under which the dialog was asked for again with another value: its
results are emptied while it goes on, and `EverySourceAnswered` says nothing of it.

## 10. Runs

| run | question | result |
|---|---|---|
| `console_tabs` | three tabs race at a capacity of two with the janitor, the clock, failures, read-only edits and the shutdown | holds: typing, `PoolsAccountedFor`, `ClosedOwnsNothing`, `CapsBoundPools`, `OneSessionPerTab`, `SerializedWithCleanup`, `LedgerSpec` |
| `console_live` | does everything end | holds: `EveryCallAnswered`, `AbandonedIsRolledBack`, `ShutdownEndsAll` |
| `console_readonly` | "Connection writes are blocked for read-only sources" (`README.md:81`) | **violated**: a commit is sent after the connection became read-only |
| `cache` | two requests of any kind over two connections and a cache of one | holds: typing, `PoolsBounded`, `NoPoolLost`, `EntriesUsable`, `IdlePoolsAreClosed` |
| `cache_update` | does the cache follow an update of the profile | **violated**: a late `set` caches the old DSN's adapter |
| `cache_delete` | does a deleted connection have no pool | **violated**: a request that overlaps the delete caches one |
| `user_access` | administrators change each other while logins overlap and the server restarts | holds: `AdministratorRemains`, `FailuresBounded` |
| `studio_tabs` | tabs, history and workspaces through every operation and reload | holds: typing, `EditorConsistent`, `HistoryFollowsEditor`, `ReloadKeepsTabs`, `OtherScopesUntouched`, `NoSilentDiscard` |
| `staged_rows` | edits, submissions, reads, imports and other clients cross | holds: typing, `SavedOnce`, `ReadsOwnWrites`, `LeavesOnlyCommitted`, `OthersCellsKept`, `SubmissionEnds` |
| `staged_rows_marker` | does the marker of a row go when what it marks is saved (`web/e2e/flow2-datagrid.spec.ts:74`) | **violated**: a newer edit goes with the older one |
| `console_client` | two tabs run, cancel, end, idle and leave over lost answers | holds: typing, `NoSessionForgotten`, `PendingIsOfSession`, `StatementsGoWhereShown`, `LeavingClosesAll` |
| `find_everywhere` | searches are replaced, cancelled, closed, cut and broken | holds: typing, `EverySourceAnswered`, `TimedOutMeansCutShort`, `LateAnswersIgnored`, `WorkersEnd`, `LookupsEnd` |

Bounds, server. Two calls are enough for every interference the console code can have: one holds the
mutex and one waits, and janitor and closer compete with both; what a third waiter could do, one of the
two does in a later turn. `console_tabs` has three tabs and tokens to go over a capacity of two, and
`Idle = 2` so that a touch matters; a second user would add begins that compete for the same capacity,
as another tab does, and calls that are refused before they touch anything. The proofs are for any
number of users. Calls, tabs and tokens are interchangeable, which makes the symmetry sound; runs with
liveness use none. In `cache` a capacity of one makes each second connection evict; two connections and
two pools let a request hold one pool while another is cached. `cache_update` and `cache_delete` have one
connection and three pools (two in flight and one cached), and two DSNs to tell old from new.
`user_access` has three accounts, so that two can fall with one left, and two of each kind of request:
a conflict is between two. Its `TypeOK` is proved and not among the run's invariants.

Bounds, client. `studio_tabs` has three tabs. A client whose scope never moves (it starts with
`moves = MaxMoves`) takes five events, one whose scope moves up to twice takes four, or five when it moves
at once: create a workspace, open three tabs and reload is how a snapshot leaves out the active tab and
keeps two others, the exception above. Answers to changes of the workspaces are not counted; in the
family of five that moves at once the first change is answered at once, otherwise up to three events
come between a change and its answer: work is staged, the scope is switched, a document arrives. What
follows such a load, and longer sequences, are left to the proof, for which `IInv` was also simulated on
larger instances. Three tabs make a first, a last and neighbours; a history of three entries drops
its oldest one; one random id makes a second tab of the same table. `staged_rows` has two keys, so that
one call succeeds and another fails, one new row, two columns (the edited one and one that others
write) and two values; users and other clients act five times (four in `staged_rows_marker`), calls and reads as
often as they need. Five is enough to add a row, capture it, submit it and stage a cell of it through
the menu or panel after it was saved. `console_client` has two tabs and two sessions, a run that reads and then writes, and
five events of the user or the idle timer: run, cancel, change, run and end. `find_everywhere` has two
connections, one in the workspace, a declared reference and two searches: the newest and the one before
it. The answer of one connection may have no encoding, so that the other comes before or after the cut.
Every mutant is found within these bounds.

Deadlock is checked except in `console_client` and `find_everywhere`, where the user may stop and
nothing is left to do. The MC modules of `StudioTabs` and `StagedRows` stutter explicitly when the events
are used up.

The four violations. `console_readonly`: `ExecuteRaw` looks at `ReadOnly` for each statement
(`console_sessions.go:34`) and `Commit` does not (line 50), so writes made before the switch become
durable after it. `cache_update`: `getAdapter` and `createConnection` read the DSN, open the adapter and
call `cache.set` without looking again; an update in between is undone in the cache until the entry is
idle for the TTL, evicted or updated once more. `cache_delete`: `deleteConnection` drops the entry first and the
record second, and a request that has already read the record caches its adapter afterwards. It stays
until the reaper takes it, which `IdlePoolsAreClosed` shows it does. `staged_rows_marker`: `submitDrafts`
works on the drafts it has captured and afterwards removes whatever draft has the id
(`DataGrid.tsx:603-607`): a cell edited again while its row is being written loses the newer value.

Three properties hold up to a behaviour that a reader of the code may not expect and that no document
rules out; each names it as its exception.

- `NoSilentDiscard`: the consent to a change of the workspaces is asked before the wait for the server.
  A tab that becomes dirty during the wait goes with the answer, unasked, and a workspace switched to
  meanwhile is left again for the one computed before the wait (`App.tsx:553-566`).
- `SavedOnce`: a cell of a new row that is staged through a menu or value panel opened before the row was
  saved makes it a new row once more, and the next submission inserts it again (`rowDrafts.ts:33`,
  `DataGrid.tsx:3117-3155`, `3235`). `rowDrafts.test.ts:68` wants the mark kept, of a row that is still staged.
- `TimedOutMeansCutShort`: after an answer that cannot be encoded the dialog says "timed out" of that
  connection and of all that had not answered, although no deadline passed
  (`find_everywhere.go:152-154`, `FindEverywhereDialog.tsx:88-99`).

### Hazards without a property

`PROJECT.json` lists four: two clients that write back the workspaces document, the Windows fallback of
the update, an insert whose answer is lost and that is submitted again, and a dialog asked for
again under a running search, which the run reaches and `EverySourceAnswered` exempts. Further observations,
made while reading, that no property states:

- a commit's context of 5 s starts before the wait for the mutex (`console_sessions.go:158`);
- an adapter is closed by `delete`, `set` or the reaper while a request uses it (`server.go:314`), and a
  `set` after `closeAll` leaves a pool until the process exits (`server.go:379`);
- a crash between the save of a connection and its workspace (`storage/store.go:74`);
- DDL commits implicitly in MySQL, so that a failed migration is half applied (`adapter/mysql/migration.go:16`);
- a request whose sender is demoted meanwhile still does what it was let through for (`auth/middleware.go:36`
  reads the role once, at its start);
- a staged new row that is edited in the dialog becomes an update without a key and is refused for ever
  (`DataGrid.tsx:495`); an edit goes by the position of its row (`DataGrid.tsx:1628`);
- the `finally` of a cancelled run comes late (`QueryConsole.tsx:1536`), a run that is cancelled during
  its begin still executes in the session (`useConsoleTransactions.ts:105`), "Run anyway" runs the
  statements of the moment of the warning (`QueryConsole.tsx:1649`);
- the menu does not say "partial" at the server's deadline (`ReferencedByMenu.tsx:191`), the grid's
  lookup of references is neither aborted nor caught (`DataGrid.tsx:3288`), cells share a controller (`ReferenceCell.tsx:70`);
- the reference cache stores a load that began before an invalidation (`referenceCache.ts:68`), on a path
  no caller takes;
- the last active table tab, opened again after all tabs were closed, is not recorded in the history
  (`App.tsx:424-439`).

### Fairness

Console. Calls that the database is serving return, because their contexts have deadlines
(`WF` of `DatabaseAnswers`). A waiter gets the mutex if it comes free again and again (`SF` of the
steps that take it): Go's mutex hands itself to a waiter that has starved for 1 ms. The loops go on
(`WF`), the ticker fires (`WF` of `JanitorWakes`), the janitor's `select` takes a `Done` channel that
stays ready although the ticker may be ready too (`SF` of `JanitorStops`), and time passes. Nothing is
assumed of clients: they may never finish, and their responses may get lost.

Cache. The ticker fires (`WF` of `Reaps`) and time passes (`WF` of `Tick`). Nothing is assumed of
requests, which may stay in use for ever. `IdlePoolsAreClosed` is about a server that is not shut: a
shutdown ends the reaper, and an adapter set after `closeAll` stays until the process exits.

Client. The browser ends every call with an answer or an error, and deadlines pass: `WF` of `CommitStep`
(`StagedRows`), of `CallStep` (`ConsoleTabs`) and of `SystemStep` (`FindEverywhere`, the workers
included). Nothing is assumed of users. `StudioTabs` and `UserAccess` have safety properties only.

## 11. Proofs

The proofs hold for any sets of calls, users, tabs, tokens, requests, connections, pools, rows,
workspaces and searches, and any bounds, under the assumptions the modules state: bounds are natural numbers and
positive where the code makes them so, sets that are counted are finite, and the values for "nobody" and "nothing"
are not used for anything else. Each module of proofs has an inductive invariant `IInv`, since the
properties are not inductive by themselves, and derives its theorems from it.

`ConsoleSessions_proofs.tla`. `IInv` adds what each step of a call knows:

- `TypeInv`, typing with mutual exclusion: whoever is past `Lock` holds `mu`;
- `Accounting`: each token is unused, registered with its transaction and pool open, settled with
  both gone, or in the hands of the one call that holds the mutex, in the state its `pc` says; no two
  calls share the token of a begin;
- `Caps`: sessions respect the caps, a begin in the factory still has the room it has checked for
  and its tab has no other session, and once a `Close` has started no call is in the database and the
  sessions that are left are those its loop has still to visit;
- `Drained`: a `Close` that has returned left no session.

From `Invariant` follow `TypesHold`, `NothingIsLost`, `CapsHold`, `TabsAreExclusive`, `ShutdownIsFinal`
and `FailuresStay`; with one case for each action, `CleanupWaits`, `StrangersAndExpiredAreRefused` and
`CommitsNeedACommit`; and `ImplementsLedger`, where each step maps to a step of the ledger or a stutter.

`AdapterCache_proofs.tla`. `IInv` adds to typing what a request has at each step (`SteadyAt`), and
for pools that each has one owner: `HeldOpen` (a request that is to hand a pool over or close it has an
open one), `HeldApart` (no other request has it), `EntriesUsable`, `NoPoolLost` and `CacheBounded`.
Every step is one of five on pools: none, drop entries, open, close one's own, hand over with `Set`.
There is a lemma for each of the five, and the actions only say which they are. `TypeCorrect`,
`NothingLeaks`, `HandsOutOpenPools` and `BoundHolds` follow; the last one counts: open pools are images
of entries and of owning requests.

`UserAccess_proofs.tla`. A check is about the accounts of its moment and the write comes later. `IInv`
carries it over: a transaction that is past its checks and not stale leaves an administrator *now*
(`Pending`), because every commit makes the others stale; one that has written holds the lock (`Locked`),
so that nobody commits before it; and requests are served only while somebody administrates
(`Serving`, `Governed`). `OneIsLeft` follows. `LoginsAreBounded` is inductive with the types: a failure
takes the place of the login that makes it.

`FindEverywhere_proofs.tla`. Each connection of a search is on its way from worker
to client, and the handler waits for all of them unless the deadline passed, the client has gone or it
stopped at an answer it could not encode (`Flow`); a search that is still
read is the newest of its open surface (`Owned`); the dialog has an entry for each connection that
answered (`ShownFor`) and marks only what it should as timed out (`Entries`). `TypesHold`,
`SourcesAnswered`, `TimeOutsAreTrue` and `LateAnswersAreIgnored` follow.
`WorkersNeverBlock` is the half of `WorkersEnd` that is about states: whoever is still at work is not
in the channel (`AllApart`), so what is in it is fewer than its capacity. That the worker is then
scheduled is left to the run.

`StagedRows_proofs.tla`. A draft is of an existing row or a new one and says what it was made from;
it is new only when the row is a new one that was not saved, or was reopened since (`DraftsFit`). A
captured row is marked new only when it is one (`HeldFits`), so that no existing row becomes new. The call of a
submission is of a draft it has captured (`CallOfBatch`), and a page differs from
the table only where a read is under way or a write is unseen (`RowsFollow`). `NewRowsSavedOnce`,
`OwnWritesAreRead`, `DraftsLeaveOnlyCommitted` and `CellsOfOthersKept` follow.

`ConsoleTabs_proofs.tla`. For each tab, its run, its transaction, its idle close and the count of its
writes fit together (`TabsFit`), the awaited end fits its session (`FinishFits`), and no session is
forgotten. The lemma `TabStep` says it once: a step about one tab keeps the invariant if that tab fits
afterwards, sessions only go on, and those that leave the tab are remembered. `NoSessionIsForgotten`,
`PendingCounts` and `StatementsGo` follow.

`StudioTabs_proofs.tla`. `IInv` adds to typing

- `View`: the ids of the tabs differ and were drawn, the active tab is open, every tab is valid; the history
  has entries of open tabs only, its cursor at one of them, and remembers the active tab as the
  previous one. Without the ids that were drawn, a copy could get an id that is open; without the previous
  tab, a render could record the active tab again;
- `SnapshotsSound`: what is stored for any scope can be loaded, in a scope not shown for a long time, too;
- `SnapshotCurrent`: the snapshot of the scope shown has the history and, once scoped, the tabs of the
  screen. It is what `ReloadKeepsTabs` needs from a reload and a switch, which read it back;
- `WorkspacesFit`: there is a workspace, ids differ, and none is used that is still to be drawn: a
  deletion takes one, and the id of a new one has no snapshot of an older one;
- `SavingFits`: the same of what the server is saving, which takes effect later whatever came between;
  a change that was not to leave the scope leads back to the scope it was asked for in. With it the
  answer of such a change discards nothing unless the user has switched meanwhile, which is the exception of
  `StagedWorkKept`.

The lemmas come first: `KeptRanks` says where each kept element ends up, and with it reconciling
(`ReconcileSound`), scoping (`ScopedSound`: scoping twice is scoping once), pruning (`PruneTidy`) and
recording (`PushTidy`, `RecordedTidy`) keep a sound editor and a tidy history, and a render does
(`ShownSound`). `Kept` is a recursion over a sequence of any length; the induction is done without the
library's induction theorems, on the least member of a set of counterexamples (`Least`, `UpTo`).
Each event within a scope is then shown to be an edit (`IsEdit`: it hands a sound editor and a
history that leads to it to the render, and carries each staged tab over or has asked), and `EditFacts`
says once what an edit keeps. Loading and switching workspaces and the answer to a change of them are
`Moved` (`AnswerMoves`, `WholeLeads`); a change that begins writes the snapshot and leaves the editor alone (`BeginMoves`).
`TypesHold`, `EditorStaysConsistent`, `ReloadsKeepTabs`, `HistoryFollows`, `OtherScopesKept` and
`StagedWorkKept` follow. TLC checked `IInv` as an invariant of instances like that of `studio_tabs` first.

Only model-checked: the liveness properties, since they need `ENABLED` and fairness, which is out of
the prover's reach (`EveryCallAnswered`, `AbandonedIsRolledBack`, `ShutdownEndsAll`,
`IdlePoolsAreClosed`, `SubmissionEnds`, `LeavingClosesAll`, `WorkersEnd`, `LookupsEnd`). Every other
property of a run that holds is a theorem.

## 12. Not modelled

- In the modelled components: routing, decoding, validation of input and audit lines; what a statement
  does to data; the time a context has left (whether it has ended is a choice of the environment).
- Console sessions for engines other than PostgreSQL and MySQL do not exist in the code.
- The update of the binary, the server's side of workspaces, migrations and the Redis relay: steps 8 to
  11 of the plan.
- The reference cache of the client: no caller reaches it.
- Import and export, query history, query guard, audit log, AI assistant, the database adapters, diff
  and catalog are formatting, parsing or input and output against external systems, with no shared
  state whose order matters. The dialogs, trees, charts and the Redis browser of the client keep state
  that does not outlive a form or a panel, and send one request at a time; the documentation site,
  scripts and test data carry no protocol of their own.
