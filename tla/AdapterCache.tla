---------------------------- MODULE AdapterCache ----------------------------
(***************************************************************************)
(* The pools of database connections the server shares between requests:   *)
(*   internal/api/server.go       adapterCache, getAdapter, Server.Close   *)
(*   internal/api/connections.go  createConnection, updateConnection,      *)
(*                                deleteConnection                         *)
(*   internal/storage/store.go    the profiles they read and write         *)
(*                                                                         *)
(* The cache has a mutex and the store has another; each method of either  *)
(* is one step.  A handler calls several of them, opens a pool in between, *)
(* and holds neither mutex across calls: its steps interleave with those   *)
(* of every other request, the reaper and the shutdown.                    *)
(***************************************************************************)
EXTENDS Integers, FiniteSets

CONSTANTS
  Requests,  \* slots for requests that run at the same time
  Conns,     \* connection IDs: UUIDs, never drawn twice
  Pools,     \* the adapters, each with its own pool
  Dsns,      \* what a profile says about where to connect and how
  Nothing,   \* no pool, no profile, no connection
  Capacity,  \* adapterCache.maxCapacity
  TTL        \* adapterCache.idleTTL, in ticks of the clock

ASSUME CacheAssumption ==
  /\ Capacity \in Nat \ {0} /\ TTL \in Nat
  /\ IsFiniteSet(Requests) /\ IsFiniteSet(Conns)
  /\ Nothing \notin Pools \cup Conns \cup Dsns

VARIABLES
  profile,   \* the store: the profile of each connection
  drawn,     \* the connection IDs that have been drawn
  cache,     \* adapterCache.entries: the pool of each connection
  age,       \* the time since entry.lastAccessed, stopped at TTL + 1
  reaping,   \* the reaper goroutine runs
  shut,      \* Server.Close has run
  opened,    \* pools that are open
  madeFrom,  \* the DSN each pool was opened with
  pc,        \* where each request stands
  req,       \* what each request is about
  held       \* the pool in a request's local variable

store == <<profile, drawn>>
entries == <<cache, age>>
adapters == <<opened, madeFrom>>
server == <<reaping, shut>>
vars == <<store, entries, adapters, server, pc, req, held>>

\* SavePassword tells whether the encrypted DSN is kept; a running pool
\* outlives the DSN that nobody stored.
Profile == [dsn : Dsns, saved : BOOLEAN]

NoRequest == [op |-> "none", conn |-> Nothing, dsn |-> Nothing, saved |-> FALSE]
RequestType == [op : {"use", "create", "update", "delete"}, conn : Conns \cup {Nothing},
                dsn : Dsns \cup {Nothing}, saved : BOOLEAN]

Cached == {c \in Conns : cache[c] # Nothing}
Expired(c) == age[c] > TTL
Exists(c) == profile[c] # Nothing

\* A name for the next adapter: nothing refers to the one that had it.
Unused(p) == p \notin opened /\ \A r \in Requests : held[r] # p

\* The pool is the request's own: nothing else refers to it.
Owning == {"saving", "assigning", "undoing", "updating", "caching"}

Init ==
  /\ profile = [c \in Conns |-> Nothing] /\ drawn = {}
  /\ cache = [c \in Conns |-> Nothing] /\ age = [c \in Conns |-> 0]
  /\ reaping = TRUE /\ shut = FALSE
  /\ opened = {} /\ madeFrom = [p \in Pools |-> Nothing]
  /\ pc = [r \in Requests |-> "free"]
  /\ req = [r \in Requests |-> NoRequest]
  /\ held = [r \in Requests |-> Nothing]

-----------------------------------------------------------------------------
(* Steps of a request.                                                     *)

Arrive(r, what, first) ==
  /\ pc[r] = "free"
  /\ req' = [req EXCEPT ![r] = what]
  /\ pc' = [pc EXCEPT ![r] = first]
  /\ UNCHANGED <<held, store, entries, adapters, server>>

GoTo(r, where) == pc' = [pc EXCEPT ![r] = where]

Return(r) ==
  /\ pc' = [pc EXCEPT ![r] = "free"]
  /\ req' = [req EXCEPT ![r] = NoRequest]
  /\ held' = [held EXCEPT ![r] = Nothing]

-----------------------------------------------------------------------------
(* The cache's methods.                                                    *)

\* Close the pools of the connections in C and delete their entries.
Drop(C) ==
  /\ opened' = opened \ {cache[c] : c \in C}
  /\ cache' = [c \in Conns |-> IF c \in C THEN Nothing ELSE cache[c]]
  /\ age' = [c \in Conns |-> IF c \in C THEN 0 ELSE age[c]]

\* A faulty variant, to show that the properties tell it apart: off by one.
WrongEvicted(c) ==
  IF cache[c] = Nothing /\ Cardinality(Cached) > Capacity
    THEN {{d} : d \in {d \in Cached : \A e \in Cached : age[e] <= age[d]}} ELSE {{}}

\* What set(c) may evict: the entry that was not accessed for the longest time,
\* when the cache is full and c is new to it.
Evicted(c) ==
  IF cache[c] = Nothing /\ Cardinality(Cached) >= Capacity
    THEN {{d} : d \in {d \in Cached : \A e \in Cached : age[e] <= age[d]}} ELSE {{}}

Set(c, p) ==
  \E E \in Evicted(c) :
    /\ opened' = opened \ {cache[d] : d \in E \cup {c}}
    /\ cache' = [d \in Conns |-> IF d = c THEN p ELSE IF d \in E THEN Nothing ELSE cache[d]]
    /\ age' = [d \in Conns |-> IF d \in E \cup {c} THEN 0 ELSE age[d]]

-----------------------------------------------------------------------------
(* getAdapter, for the handlers that then run queries on the pool.         *)

UseArrives(r, c) ==
  Arrive(r, [op |-> "use", conn |-> c, dsn |-> Nothing, saved |-> FALSE], "looking")

CacheHits(r) ==
  LET c == req[r].conn IN
  /\ pc[r] = "looking" /\ c \in Cached /\ ~Expired(c)
  /\ age' = [age EXCEPT ![c] = 0]
  /\ held' = [held EXCEPT ![r] = cache[c]]
  /\ GoTo(r, "using")
  /\ UNCHANGED <<req, store, cache, adapters, server>>

CacheMisses(r) ==
  LET c == req[r].conn IN
  /\ pc[r] = "looking"
  /\ c \in Cached => Expired(c)
  /\ Drop({c} \cap Cached)
  /\ GoTo(r, "reading")
  /\ UNCHANGED <<req, held, store, madeFrom, server>>

\* store.Get, and the check of SavePassword.
ProfileRead(r) ==
  /\ pc[r] = "reading"
  /\ IF Exists(req[r].conn) /\ profile[req[r].conn].saved
       THEN GoTo(r, "decrypting") /\ UNCHANGED <<req, held>>
       ELSE Return(r)
  /\ UNCHANGED <<store, entries, adapters, server>>

\* store.DSN reads the record once more.
DsnRead(r) ==
  /\ pc[r] = "decrypting"
  /\ IF Exists(req[r].conn) /\ profile[req[r].conn].saved
       THEN /\ req' = [req EXCEPT ![r].dsn = profile[req[r].conn].dsn]
            /\ GoTo(r, "opening")
            /\ UNCHANGED held
       ELSE Return(r)
  /\ UNCHANGED <<store, entries, adapters, server>>

\* openAdapter.  A create goes on to save the profile, an update to replace it.
Opens(r, p) ==
  /\ pc[r] = "opening" /\ Unused(p)
  /\ opened' = opened \cup {p}
  /\ madeFrom' = [madeFrom EXCEPT ![p] = req[r].dsn]
  /\ held' = [held EXCEPT ![r] = p]
  /\ GoTo(r, CASE req[r].op = "use" -> "caching"
               [] req[r].op = "create" -> "saving"
               [] req[r].op = "update" -> "updating")
  /\ UNCHANGED <<req, store, entries, server>>

OpenFails(r) ==
  /\ pc[r] = "opening"
  /\ Return(r)
  /\ UNCHANGED <<store, entries, adapters, server>>

\* cache.set; the pool is then shared, also with the request that opened it.
Caches(r) ==
  /\ pc[r] = "caching"
  /\ Set(req[r].conn, held[r])
  /\ IF req[r].op = "use" THEN GoTo(r, "using") /\ UNCHANGED <<req, held>> ELSE Return(r)
  /\ UNCHANGED <<store, madeFrom, server>>

\* A faulty variant, to show that the properties tell it apart: the request closes
\* the pool as if it were its own.
WrongUseEnds(r) ==
  /\ pc[r] = "using"
  /\ opened' = opened \ {held[r]}
  /\ Return(r)
  /\ UNCHANGED <<store, entries, madeFrom, server>>

UseEnds(r) ==
  /\ pc[r] = "using"
  /\ Return(r)
  /\ UNCHANGED <<store, entries, adapters, server>>

-----------------------------------------------------------------------------
(* createConnection.                                                       *)

CreateArrives(r, d, saved) ==
  Arrive(r, [op |-> "create", conn |-> Nothing, dsn |-> d, saved |-> saved], "opening")

\* store.Save draws the ID.
Saves(r, c) ==
  /\ pc[r] = "saving" /\ c \notin drawn
  /\ drawn' = drawn \cup {c}
  /\ profile' = [profile EXCEPT ![c] = [dsn |-> req[r].dsn, saved |-> req[r].saved]]
  /\ req' = [req EXCEPT ![r].conn = c]
  /\ GoTo(r, "assigning")
  /\ UNCHANGED <<held, entries, adapters, server>>

\* A faulty variant, to show that the properties tell it apart: the pool is not closed.
WrongCloseHeld(r) ==
  /\ UNCHANGED opened
  /\ Return(r)

\* The error paths close the pool the handler has opened.
CloseHeld(r) ==
  /\ opened' = opened \ {held[r]}
  /\ Return(r)

SaveFails(r) ==
  /\ pc[r] = "saving"
  /\ CloseHeld(r)
  /\ UNCHANGED <<store, entries, madeFrom, server>>

\* AddConnectionToWorkspace: it fails when the workspace was removed meanwhile.
Assigns(r) ==
  /\ pc[r] = "assigning"
  /\ \E where \in {"caching", "undoing"} : GoTo(r, where)
  /\ UNCHANGED <<req, held, store, entries, adapters, server>>

\* store.Delete, whose error is ignored, and the pool is closed.
Undoes(r) ==
  /\ pc[r] = "undoing"
  /\ profile' \in {profile, [profile EXCEPT ![req[r].conn] = Nothing]}
  /\ CloseHeld(r)
  /\ UNCHANGED <<drawn, entries, madeFrom, server>>

-----------------------------------------------------------------------------
(* updateConnection.                                                       *)

\* The handler reads the record before anything else; a connection that does
\* not exist is refused.  A blank password preserves the stored one; with a blank
\* URL (no DSN in the request) all of the stored DSN is preserved.
UpdateArrives(r, c, d, saved) ==
  /\ Exists(c)
  /\ \/ Arrive(r, [op |-> "update", conn |-> c, dsn |-> d, saved |-> saved], "opening")
     \/ /\ profile[c].saved
        /\ \E asked \in {d, Nothing} :
             Arrive(r, [op |-> "update", conn |-> c, dsn |-> asked, saved |-> saved], "preserving")

\* A faulty variant, to show that the properties tell it apart: the stored DSN is
\* not read.
WrongDsnPreserved(r) ==
  /\ pc[r] = "preserving"
  /\ GoTo(r, "opening")
  /\ UNCHANGED <<req, held, store, entries, adapters, server>>

\* store.DSN of the profile to preserve.  The stored password completes the DSN
\* that was asked for.
DsnPreserved(r) ==
  /\ pc[r] = "preserving"
  /\ IF Exists(req[r].conn) /\ profile[req[r].conn].saved
       THEN /\ req' = IF req[r].dsn # Nothing THEN req
                      ELSE [req EXCEPT ![r].dsn = profile[req[r].conn].dsn]
            /\ GoTo(r, "opening")
            /\ UNCHANGED held
       ELSE Return(r)
  /\ UNCHANGED <<store, entries, adapters, server>>

\* store.Update.
Updates(r) ==
  /\ pc[r] = "updating" /\ Exists(req[r].conn)
  /\ profile' = [profile EXCEPT ![req[r].conn] = [dsn |-> req[r].dsn, saved |-> req[r].saved]]
  /\ GoTo(r, "caching")
  /\ UNCHANGED <<req, held, drawn, entries, adapters, server>>

\* The connection was deleted meanwhile, or the file cannot be written.
UpdateFails(r) ==
  /\ pc[r] = "updating"
  /\ CloseHeld(r)
  /\ UNCHANGED <<store, entries, madeFrom, server>>

-----------------------------------------------------------------------------
(* deleteConnection.                                                       *)

DeleteArrives(r, c) ==
  Arrive(r, [op |-> "delete", conn |-> c, dsn |-> Nothing, saved |-> FALSE], "dropping")

DeleteDrops(r) ==
  /\ pc[r] = "dropping"
  /\ Drop({req[r].conn} \cap Cached)
  /\ GoTo(r, "deleting")
  /\ UNCHANGED <<req, held, store, madeFrom, server>>

\* The record is removed, or it was not there, or the file cannot be written.
Deletes(r) ==
  /\ pc[r] = "deleting"
  /\ profile' \in {profile, [profile EXCEPT ![req[r].conn] = Nothing]}
  /\ Return(r)
  /\ UNCHANGED <<drawn, entries, adapters, server>>

-----------------------------------------------------------------------------
(* The reaper, the shutdown and the clock.                                 *)

\* A faulty variant, to show that the properties tell it apart: an entry that is
\* old enough to be expired is kept when it is the only one.
WrongReaps ==
  /\ reaping /\ Cardinality(Cached) > 1
  /\ \E c \in Cached : Expired(c)
  /\ Drop({c \in Cached : Expired(c)})
  /\ UNCHANGED <<store, madeFrom, server, pc, req, held>>

Reaps ==
  /\ reaping
  /\ \E c \in Cached : Expired(c)
  /\ Drop({c \in Cached : Expired(c)})
  /\ UNCHANGED <<store, madeFrom, server, pc, req, held>>

\* The reaper may still see one tick after the stop channel has been closed.
ReaperStops ==
  /\ reaping /\ shut
  /\ reaping' = FALSE
  /\ UNCHANGED <<shut, store, entries, adapters, pc, req, held>>

\* Server.Close, by the signal handler and once more by Instance.Close.
ServerCloses ==
  /\ shut' = TRUE
  /\ Drop(Cached)
  /\ UNCHANGED <<reaping, store, madeFrom, pc, req, held>>

Tick ==
  /\ \E c \in Cached : ~Expired(c)
  /\ age' = [c \in Conns |-> IF c \in Cached /\ ~Expired(c) THEN age[c] + 1 ELSE age[c]]
  /\ UNCHANGED <<store, cache, adapters, server, pc, req, held>>

-----------------------------------------------------------------------------
(* Specification.                                                          *)

Arrives(r) ==
  \/ \E c \in drawn : UseArrives(r, c) \/ DeleteArrives(r, c)
  \/ \E d \in Dsns, saved \in BOOLEAN :
       CreateArrives(r, d, saved) \/ \E c \in drawn : UpdateArrives(r, c, d, saved)

Proceeds(r) ==
  \/ CacheHits(r) \/ CacheMisses(r) \/ ProfileRead(r) \/ DsnRead(r)
  \/ OpenFails(r) \/ Caches(r) \/ UseEnds(r)
  \/ \E p \in Pools : Opens(r, p)
  \/ \E c \in Conns : Saves(r, c)
  \/ SaveFails(r) \/ Assigns(r) \/ Undoes(r)
  \/ DsnPreserved(r) \/ Updates(r) \/ UpdateFails(r)
  \/ DeleteDrops(r) \/ Deletes(r)

Next ==
  \/ \E r \in Requests : Arrives(r) \/ Proceeds(r)
  \/ Reaps \/ ReaperStops \/ ServerCloses \/ Tick

Spec == Init /\ [][Next]_vars

\* The reaper's ticker fires and time passes.  Requests owe nothing: they may
\* keep a connection in use for ever.
Fairness == WF_vars(Tick) /\ WF_vars(Reaps)

FairSpec == Spec /\ Fairness

-----------------------------------------------------------------------------
(* Properties.                                                             *)

TypeOK ==
  /\ profile \in [Conns -> Profile \cup {Nothing}] /\ drawn \subseteq Conns
  /\ cache \in [Conns -> Pools \cup {Nothing}]
  /\ age \in [Conns -> 0..TTL + 1]
  /\ reaping \in BOOLEAN /\ shut \in BOOLEAN
  /\ opened \subseteq Pools
  /\ madeFrom \in [Pools -> Dsns \cup {Nothing}]
  /\ pc \in [Requests -> {"free", "looking", "reading", "decrypting", "opening", "using",
                         "preserving", "dropping", "deleting"} \cup Owning]
  /\ req \in [Requests -> RequestType \cup {NoRequest}]
  /\ held \in [Requests -> Pools \cup {Nothing}]

\* The cache never has more entries than its capacity, and so the open pools
\* never exceed it by more than the requests that are about to hand one over.
PoolsBounded ==
  /\ Cardinality(Cached) <= Capacity
  /\ Cardinality(opened) <= Capacity + Cardinality({r \in Requests : pc[r] \in Owning})

\* No pool is lost: one that is open is in the cache or still belongs to the
\* one request that opened it, also when profiles are deleted, replaced or
\* refused and entries are evicted meanwhile.
NoPoolLost ==
  \A p \in opened : \/ \E c \in Conns : cache[c] = p
                    \/ \E r \in Requests : held[r] = p /\ pc[r] \in Owning

\* Nothing the cache hands out is closed, and no two connections share a pool:
\* the pool of an entry is open, and neither another entry nor a request that
\* may still close it refers to it.
EntriesUsable ==
  \A c \in Cached :
    /\ cache[c] \in opened
    /\ \A d \in Cached : cache[d] = cache[c] => d = c
    /\ \A r \in Requests : pc[r] \in Owning => held[r] # cache[c]

\* A pool whose connection nobody asks for any more is closed by the reaper,
\* whatever happens to its profile.
IdlePoolsAreClosed ==
  \A c \in Conns : <>[](~shut /\ \A r \in Requests : req[r].conn # c) => <>[](c \notin Cached)

\* getAdapter "returns a cached adapter or opens a new one from the stored DSN"
\* (server.go:385): when no request is running, the pool of an entry has been
\* opened with the DSN that the connection's profile has.
EntriesFollowUpdates ==
  (\A r \in Requests : pc[r] = "free") =>
    \A c \in Cached : Exists(c) => madeFrom[cache[c]] = profile[c].dsn

\* deleteConnection does "close adapter if open" (connections.go:313): when no
\* request is running, a connection that is not in the store has no pool.
DeletedHaveNoPool ==
  (\A r \in Requests : pc[r] = "free") => \A c \in Cached : Exists(c)

=============================================================================
