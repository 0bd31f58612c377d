------------------------ MODULE AdapterCache_proofs ------------------------
(***************************************************************************)
(* Proofs about AdapterCache, for any number of requests, connections,     *)
(* pools and DSNs and any capacity.                                        *)
(***************************************************************************)
EXTENDS AdapterCache, FiniteSetTheorems, TLAPS

(***************************************************************************)
(* Types.  TypeOK is not inductive: a profile is typed only if the request *)
(* that saves it has a DSN, and an entry only if its request has a         *)
(* connection and a pool.  Steady says what a request has at each step.    *)
(***************************************************************************)
States == {"free", "looking", "reading", "decrypting", "opening", "using",
           "preserving", "dropping", "deleting"} \cup Owning

Using == {"looking", "reading", "decrypting"}

SteadyAt(at, what, pool) ==
  /\ at # "free" => what \in RequestType
  /\ at \notin {"free", "using", "opening", "saving"} => what.conn \in Conns
  /\ at \in Using => what.op = "use"
  /\ at = "preserving" => what.op = "update"
  /\ at \in Owning \cup {"opening"} => what.dsn \in Dsns
  /\ at = "opening" => /\ what.op \in {"use", "create", "update"}
                       /\ what.op # "create" => what.conn \in Conns
  /\ at \in Owning => pool \in Pools

Steady == \A r \in Requests : SteadyAt(pc[r], req[r], held[r])

TypeInv == TypeOK /\ Steady

\* The part of TypeInv about the requests, and the part about the rest.
RequestsOK ==
  /\ pc \in [Requests -> States]
  /\ req \in [Requests -> RequestType \cup {NoRequest}]
  /\ held \in [Requests -> Pools \cup {Nothing}]
  /\ Steady

StoreOK == profile \in [Conns -> Profile \cup {Nothing}] /\ drawn \subseteq Conns

CacheOK ==
  /\ cache \in [Conns -> Pools \cup {Nothing}]
  /\ age \in [Conns -> 0..TTL + 1]
  /\ opened \subseteq Pools

RestOK ==
  /\ reaping \in BOOLEAN /\ shut \in BOOLEAN
  /\ madeFrom \in [Pools -> Dsns \cup {Nothing}]

LEMMA Parts == TypeInv <=> RequestsOK /\ StoreOK /\ CacheOK /\ RestOK
  BY DEF TypeInv, TypeOK, RequestsOK, StoreOK, CacheOK, RestOK, States

LEMMA PartsNext == TypeInv' <=> RequestsOK' /\ StoreOK' /\ CacheOK' /\ RestOK'
  BY DEF TypeInv, TypeOK, RequestsOK, StoreOK, CacheOK, RestOK, States

LEMMA InitType == Init => TypeInv
<1> SUFFICES ASSUME Init PROVE TypeInv
  OBVIOUS
<1>1. RequestsOK
  BY DEF Init, RequestsOK, States, Steady, SteadyAt, Using, Owning
<1>2. StoreOK /\ RestOK
  BY DEF Init, StoreOK, RestOK
<1>3. 0 \in 0..TTL + 1
  BY CacheAssumption
<1>4. CacheOK
  BY <1>3 DEF Init, CacheOK
<1>. QED
  BY <1>1, <1>2, <1>4, Parts

LEMMA DropType ==
  ASSUME CacheOK, NEW C \in SUBSET Conns, Drop(C)
  PROVE  CacheOK'
  BY CacheAssumption DEF Drop, CacheOK

LEMMA SetType ==
  ASSUME CacheOK, NEW c \in Conns, NEW p \in Pools, Set(c, p)
  PROVE  CacheOK'
<1>1. PICK E \in Evicted(c) : 
         /\ opened' = opened \ {cache[d] : d \in E \cup {c}}
         /\ cache' = [d \in Conns |-> IF d = c THEN p ELSE IF d \in E THEN Nothing ELSE cache[d]]
         /\ age' = [d \in Conns |-> IF d \in E \cup {c} THEN 0 ELSE age[d]]
  BY DEF Set
<1>2. 0 \in 0..TTL + 1
  BY CacheAssumption
<1>. QED
  BY <1>1, <1>2 DEF CacheOK

\* A step that changes what one request is at keeps the others as they are.
LEMMA OneRequest ==
  ASSUME RequestsOK, NEW r \in Requests,
         NEW at \in States, NEW what \in RequestType \cup {NoRequest},
         NEW pool \in Pools \cup {Nothing},
         SteadyAt(at, what, pool),
         pc' = [pc EXCEPT ![r] = at], req' = [req EXCEPT ![r] = what],
         held' = [held EXCEPT ![r] = pool]
  PROVE  RequestsOK'
  BY DEF RequestsOK, Steady

LEMMA GoToType ==
  ASSUME RequestsOK, NEW r \in Requests, NEW at \in States,
         SteadyAt(at, req[r], held[r]), GoTo(r, at), UNCHANGED <<req, held>>
  PROVE  RequestsOK'
<1> USE DEF GoTo
<1>1. pc' \in [Requests -> States]
  BY DEF RequestsOK
<1>2. ASSUME NEW q \in Requests PROVE SteadyAt(pc'[q], req[q], held[q])
  <2>1. SteadyAt(pc[q], req[q], held[q])
    BY DEF RequestsOK, Steady
  <2>. QED
    BY <2>1 DEF RequestsOK
<1>. QED
  BY <1>1, <1>2 DEF RequestsOK, Steady

LEMMA ReturnType ==
  ASSUME RequestsOK, NEW r \in Requests, Return(r)
  PROVE  RequestsOK'
<1>1. SteadyAt("free", NoRequest, Nothing)
  BY DEF SteadyAt, Using, Owning
<1>. QED
  BY <1>1, OneRequest DEF Return, States

LEMMA ArriveType ==
  ASSUME RequestsOK, NEW r \in Requests, NEW what \in RequestType,
         NEW first \in {"looking", "opening", "preserving", "dropping"},
         SteadyAt(first, what, Nothing), Arrive(r, what, first)
  PROVE  RequestsOK'
<1>1. held[r] \in Pools \cup {Nothing} /\ held' = [held EXCEPT ![r] = held[r]]
  BY DEF RequestsOK, Arrive
<1>2. SteadyAt(first, what, held[r])
  BY DEF SteadyAt, Owning
<1>. QED
  BY <1>1, <1>2, OneRequest DEF Arrive, States

\* The rest of the state when a step leaves it alone.
LEMMA Untouched ==
  /\ StoreOK /\ UNCHANGED store => StoreOK'
  /\ CacheOK /\ UNCHANGED <<entries, opened>> => CacheOK'
  /\ RestOK /\ UNCHANGED <<server, madeFrom>> => RestOK'
  /\ RequestsOK /\ UNCHANGED <<pc, req, held>> => RequestsOK'
  BY DEF StoreOK, CacheOK, RestOK, RequestsOK, Steady, store, entries, server

LEMMA ArrivesType ==
  ASSUME TypeInv, NEW r \in Requests, Arrives(r) PROVE TypeInv'
<1>1. RequestsOK /\ StoreOK /\ CacheOK /\ RestOK
  BY Parts
<1>2. ASSUME NEW what, NEW first, Arrive(r, what, first)
      PROVE  StoreOK' /\ CacheOK' /\ RestOK'
  BY <1>1, <1>2, Untouched DEF Arrive, adapters
<1>3. ASSUME NEW c \in drawn, UseArrives(r, c) PROVE TypeInv'
  <2> DEFINE what == [op |-> "use", conn |-> c, dsn |-> Nothing, saved |-> FALSE]
  <2>1. c \in Conns
    BY <1>1 DEF StoreOK
  <2>2. what \in RequestType /\ SteadyAt("looking", what, Nothing)
    BY <2>1 DEF RequestType, SteadyAt, Using, Owning
  <2>3. Arrive(r, what, "looking")
    BY <1>3 DEF UseArrives
  <2> HIDE DEF what
  <2>4. RequestsOK'
    BY <1>1, <2>2, <2>3, ArriveType
  <2>. QED
    BY <1>2, <2>3, <2>4, PartsNext
<1>4. ASSUME NEW c \in drawn, DeleteArrives(r, c) PROVE TypeInv'
  <2> DEFINE what == [op |-> "delete", conn |-> c, dsn |-> Nothing, saved |-> FALSE]
  <2>1. c \in Conns
    BY <1>1 DEF StoreOK
  <2>2. what \in RequestType /\ SteadyAt("dropping", what, Nothing)
    BY <2>1 DEF RequestType, SteadyAt, Using, Owning
  <2>3. Arrive(r, what, "dropping")
    BY <1>4 DEF DeleteArrives
  <2> HIDE DEF what
  <2>4. RequestsOK'
    BY <1>1, <2>2, <2>3, ArriveType
  <2>. QED
    BY <1>2, <2>3, <2>4, PartsNext
<1>5. ASSUME NEW d \in Dsns, NEW saved \in BOOLEAN, CreateArrives(r, d, saved) PROVE TypeInv'
  <2> DEFINE what == [op |-> "create", conn |-> Nothing, dsn |-> d, saved |-> saved]
  <2>2. what \in RequestType /\ SteadyAt("opening", what, Nothing)
    BY DEF RequestType, SteadyAt, Using, Owning
  <2>3. Arrive(r, what, "opening")
    BY <1>5 DEF CreateArrives
  <2> HIDE DEF what
  <2>4. RequestsOK'
    BY <1>1, <2>2, <2>3, ArriveType
  <2>. QED
    BY <1>2, <2>3, <2>4, PartsNext
<1>6. ASSUME NEW d \in Dsns, NEW saved \in BOOLEAN, NEW c \in drawn, UpdateArrives(r, c, d, saved)
      PROVE  TypeInv'
  <2>1. c \in Conns
    BY <1>1 DEF StoreOK
  <2>2. PICK asked \in Dsns \cup {Nothing}, first \in {"opening", "preserving"} :
          /\ first = "opening" => asked \in Dsns
          /\ Arrive(r, [op |-> "update", conn |-> c, dsn |-> asked, saved |-> saved], first)
    BY <1>6 DEF UpdateArrives
  <2> DEFINE what == [op |-> "update", conn |-> c, dsn |-> asked, saved |-> saved]
  <2>3. what \in RequestType /\ SteadyAt(first, what, Nothing)
    BY <2>1, <2>2 DEF RequestType, SteadyAt, Using, Owning
  <2>4. Arrive(r, what, first)
    BY <2>2
  <2> HIDE DEF what
  <2>5. RequestsOK'
    BY <1>1, <2>3, <2>4, ArriveType
  <2>. QED
    BY <1>2, <2>4, <2>5, PartsNext
<1>. QED
  BY <1>3, <1>4, <1>5, <1>6 DEF Arrives

\* What a step of a request does to the request itself.
LEMMA ProceedsRequests ==
  ASSUME RequestsOK, StoreOK, CacheOK, NEW r \in Requests, Proceeds(r)
  PROVE  RequestsOK'
<1> DEFINE q == req[r]
<1>1. /\ SteadyAt(pc[r], req[r], held[r])
      /\ req[r] \in RequestType \cup {NoRequest}
      /\ held[r] \in Pools \cup {Nothing}
  BY DEF RequestsOK, Steady
<1>2. CASE CacheHits(r)
  <2>1. cache[q.conn] \in Pools /\ SteadyAt("using", req[r], cache[q.conn])
    BY <1>1, <1>2 DEF CacheHits, Cached, CacheOK, SteadyAt, Using, Owning
  <2>2. req' = [req EXCEPT ![r] = req[r]]
    BY <1>2 DEF CacheHits, RequestsOK
  <2>. QED
    BY <1>1, <1>2, <2>1, <2>2, OneRequest DEF CacheHits, GoTo, States
<1>3. CASE CacheMisses(r)
  BY <1>1, <1>3, GoToType DEF CacheMisses, SteadyAt, Using, Owning, States
<1>4. CASE ProfileRead(r)
  BY <1>1, <1>4, GoToType, ReturnType DEF ProfileRead, SteadyAt, Using, Owning, States
<1>5. CASE DsnRead(r)
  <2>1. CASE Exists(q.conn) /\ profile[q.conn].saved
    <3> DEFINE new == [q EXCEPT !.dsn = profile[q.conn].dsn]
    <3>1. q \in RequestType /\ q.conn \in Conns /\ q.op = "use"
      BY <1>1, <1>5 DEF DsnRead, SteadyAt, Using
    <3>2. profile[q.conn].dsn \in Dsns
      BY <2>1, <3>1 DEF Exists, StoreOK, Profile
    <3>3. new \in RequestType /\ new.conn \in Conns /\ new.op = "use" /\ new.dsn \in Dsns
      BY <3>1, <3>2 DEF RequestType
    <3>4. req' = [req EXCEPT ![r] = new] /\ held' = [held EXCEPT ![r] = held[r]]
      BY <1>5, <2>1 DEF DsnRead, RequestsOK
    <3>5. SteadyAt("opening", new, held[r])
      <4> HIDE DEF new
      <4>. QED
        BY <3>3 DEF SteadyAt, Using, Owning
    <3>6. GoTo(r, "opening")
      BY <1>5, <2>1 DEF DsnRead
    <3> HIDE DEF new
    <3>. QED
      BY <1>1, <3>3, <3>4, <3>5, <3>6, OneRequest DEF GoTo, States
  <2>. QED
    BY <1>5, <2>1, ReturnType DEF DsnRead
<1>6. CASE OpenFails(r)
  BY <1>6, ReturnType DEF OpenFails
<1>7. CASE Caches(r)
  <2>1. CASE req[r].op = "use"
    BY <1>1, <1>7, <2>1, GoToType DEF Caches, SteadyAt, Using, Owning, States
  <2>. QED
    BY <1>7, <2>1, ReturnType DEF Caches
<1>8. CASE UseEnds(r)
  BY <1>8, ReturnType DEF UseEnds
<1>9. ASSUME NEW p \in Pools, Opens(r, p) PROVE RequestsOK'
  <2>1. PICK at \in {"caching", "saving", "updating"} :
          /\ GoTo(r, at)
          /\ at # "saving" => q.conn \in Conns
    BY <1>1, <1>9 DEF Opens, SteadyAt
  <2>2. SteadyAt(at, req[r], p)
    BY <1>1, <1>9, <2>1 DEF Opens, SteadyAt, Using, Owning
  <2>3. req' = [req EXCEPT ![r] = req[r]] /\ held' = [held EXCEPT ![r] = p]
    BY <1>9 DEF Opens, RequestsOK
  <2>. QED
    BY <1>1, <2>1, <2>2, <2>3, OneRequest DEF GoTo, States, Owning
<1>10. ASSUME NEW c \in Conns, Saves(r, c) PROVE RequestsOK'
  <2> DEFINE new == [q EXCEPT !.conn = c]
  <2>1. q \in RequestType /\ q.dsn \in Dsns /\ held[r] \in Pools
    BY <1>1, <1>10 DEF Saves, SteadyAt, Owning
  <2>2. new \in RequestType /\ new.conn \in Conns /\ new.dsn \in Dsns
    BY <2>1 DEF RequestType
  <2>3. req' = [req EXCEPT ![r] = new] /\ held' = [held EXCEPT ![r] = held[r]]
    BY <1>10 DEF Saves, RequestsOK
  <2>4. GoTo(r, "assigning")
    BY <1>10 DEF Saves
  <2> HIDE DEF new
  <2>5. SteadyAt("assigning", new, held[r])
    BY <2>1, <2>2 DEF SteadyAt, Using, Owning
  <2>. QED
    BY <1>1, <2>2, <2>3, <2>4, <2>5, OneRequest DEF GoTo, States, Owning
<1>11. CASE SaveFails(r)
  BY <1>11, ReturnType DEF SaveFails, CloseHeld
<1>12. CASE Assigns(r)
  <2>1. PICK at \in {"caching", "undoing"} : GoTo(r, at)
    BY <1>12 DEF Assigns
  <2>2. at \in States /\ SteadyAt(at, req[r], held[r])
    BY <1>1, <1>12, <2>1 DEF Assigns, SteadyAt, Using, Owning, States
  <2>. QED
    BY <1>12, <2>1, <2>2, GoToType DEF Assigns
<1>13. CASE Undoes(r)
  BY <1>13, ReturnType DEF Undoes, CloseHeld
<1>14. CASE DsnPreserved(r)
  <2>1. CASE Exists(q.conn) /\ profile[q.conn].saved
    <3>1. PICK d \in Dsns : req' = [req EXCEPT ![r] = [q EXCEPT !.dsn = d]]
      <4>1. q \in RequestType /\ q.conn \in Conns
        BY <1>1, <1>14 DEF DsnPreserved, SteadyAt
      <4>2. CASE q.dsn = Nothing
        <5>1. profile[q.conn].dsn \in Dsns
          BY <2>1, <4>1 DEF Exists, StoreOK, Profile
        <5>. QED
          BY <1>14, <2>1, <4>2, <5>1 DEF DsnPreserved, RequestsOK
      <4>3. CASE q.dsn # Nothing
        <5>1. q.dsn \in Dsns /\ q = [q EXCEPT !.dsn = q.dsn]
          BY <4>1, <4>3 DEF RequestType
        <5>2. req' = [req EXCEPT ![r] = q]
          BY <1>14, <2>1, <4>3 DEF DsnPreserved, RequestsOK
        <5>. QED
          BY <5>1, <5>2
      <4>. QED
        BY <4>2, <4>3
    <3> DEFINE new == [q EXCEPT !.dsn = d]
    <3>2. q \in RequestType /\ q.conn \in Conns /\ q.op = "update"
      BY <1>1, <1>14 DEF DsnPreserved, SteadyAt
    <3>3. new \in RequestType /\ new.conn \in Conns /\ new.op = "update" /\ new.dsn \in Dsns
      BY <3>2 DEF RequestType
    <3>4. req' = [req EXCEPT ![r] = new] /\ held' = [held EXCEPT ![r] = held[r]]
      BY <1>14, <2>1, <3>1 DEF DsnPreserved, RequestsOK
    <3>5. GoTo(r, "opening")
      BY <1>14, <2>1 DEF DsnPreserved
    <3> HIDE DEF new
    <3>6. SteadyAt("opening", new, held[r])
      BY <3>3 DEF SteadyAt, Using, Owning
    <3>. QED
      BY <1>1, <3>3, <3>4, <3>5, <3>6, OneRequest DEF GoTo, States
  <2>. QED
    BY <1>14, <2>1, ReturnType DEF DsnPreserved
<1>15. CASE Updates(r)
  BY <1>1, <1>15, GoToType DEF Updates, SteadyAt, Using, Owning, States
<1>16. CASE UpdateFails(r)
  BY <1>16, ReturnType DEF UpdateFails, CloseHeld
<1>17. CASE DeleteDrops(r)
  BY <1>1, <1>17, GoToType DEF DeleteDrops, SteadyAt, Using, Owning, States
<1>18. CASE Deletes(r)
  BY <1>18, ReturnType DEF Deletes
<1>. QED
  BY <1>2, <1>3, <1>4, <1>5, <1>6, <1>7, <1>8, <1>9, <1>10, <1>11, <1>12, <1>13, <1>14,
     <1>15, <1>16, <1>17, <1>18 DEF Proceeds

\* What a step of a request does to the store, the cache and the adapters.
LEMMA ProceedsRest ==
  ASSUME TypeInv, NEW r \in Requests, Proceeds(r)
  PROVE  StoreOK' /\ CacheOK' /\ RestOK'
<1>1. RequestsOK /\ StoreOK /\ CacheOK /\ RestOK
  BY Parts
<1>2. SteadyAt(pc[r], req[r], held[r])
  BY <1>1 DEF RequestsOK, Steady
<1> DEFINE c == req[r].conn
<1>3. CASE CacheHits(r)
  <2>1. 0 \in 0..TTL + 1
    BY CacheAssumption
  <2>2. CacheOK'
    BY <1>1, <1>3, <2>1 DEF CacheHits, CacheOK, adapters
  <2>. QED
    BY <1>1, <1>3, <2>2, Untouched DEF CacheHits, adapters
<1>4. CASE CacheMisses(r)
  <2>1. CacheOK'
    BY <1>1, <1>4, DropType DEF CacheMisses, Cached
  <2>. QED
    BY <1>1, <1>4, <2>1, Untouched DEF CacheMisses
<1>5. CASE ProfileRead(r) \/ DsnRead(r) \/ OpenFails(r) \/ UseEnds(r) \/ Assigns(r) \/ DsnPreserved(r)
  BY <1>1, <1>5, Untouched
     DEF ProfileRead, DsnRead, OpenFails, UseEnds, Assigns, DsnPreserved, adapters
<1>6. CASE Caches(r)
  <2>1. c \in Conns /\ held[r] \in Pools
    BY <1>2, <1>6 DEF Caches, SteadyAt, Owning
  <2>2. CacheOK'
    BY <1>1, <1>6, <2>1, SetType DEF Caches
  <2>. QED
    BY <1>1, <1>6, <2>2, Untouched DEF Caches
<1>7. ASSUME NEW p \in Pools, Opens(r, p) PROVE StoreOK' /\ CacheOK' /\ RestOK'
  <2>1. req[r].dsn \in Dsns
    BY <1>2, <1>7 DEF Opens, SteadyAt
  <2>2. CacheOK'
    BY <1>1, <1>7 DEF Opens, CacheOK, entries
  <2>3. RestOK'
    BY <1>1, <1>7, <2>1 DEF Opens, RestOK, server
  <2>. QED
    BY <1>1, <1>7, <2>2, <2>3, Untouched DEF Opens
<1>8. ASSUME NEW d \in Conns, Saves(r, d) PROVE StoreOK' /\ CacheOK' /\ RestOK'
  <2>1. [dsn |-> req[r].dsn, saved |-> req[r].saved] \in Profile
    BY <1>2, <1>8 DEF Saves, SteadyAt, Owning, RequestType, Profile
  <2>2. StoreOK'
    BY <1>1, <1>8, <2>1 DEF Saves, StoreOK
  <2>. QED
    BY <1>1, <1>8, <2>2, Untouched DEF Saves, adapters
<1>9. CASE Updates(r)
  <2>1. [dsn |-> req[r].dsn, saved |-> req[r].saved] \in Profile
    BY <1>2, <1>9 DEF Updates, SteadyAt, Owning, RequestType, Profile
  <2>2. StoreOK'
    BY <1>1, <1>9, <2>1 DEF Updates, StoreOK
  <2>. QED
    BY <1>1, <1>9, <2>2, Untouched DEF Updates, adapters
<1>10. CASE SaveFails(r) \/ UpdateFails(r)
  <2>1. CacheOK'
    BY <1>1, <1>10 DEF SaveFails, UpdateFails, CloseHeld, CacheOK, entries
  <2>. QED
    BY <1>1, <1>10, <2>1, Untouched DEF SaveFails, UpdateFails
<1>11. CASE Undoes(r)
  <2>1. CacheOK' /\ StoreOK'
    BY <1>1, <1>11 DEF Undoes, CloseHeld, CacheOK, StoreOK, entries
  <2>. QED
    BY <1>1, <1>11, <2>1, Untouched DEF Undoes
<1>12. CASE DeleteDrops(r)
  <2>1. CacheOK'
    BY <1>1, <1>12, DropType DEF DeleteDrops, Cached
  <2>. QED
    BY <1>1, <1>12, <2>1, Untouched DEF DeleteDrops
<1>13. CASE Deletes(r)
  <2>1. StoreOK'
    BY <1>1, <1>13 DEF Deletes, StoreOK
  <2>. QED
    BY <1>1, <1>13, <2>1, Untouched DEF Deletes, adapters
<1>. QED
  BY <1>3, <1>4, <1>5, <1>6, <1>7, <1>8, <1>9, <1>10, <1>11, <1>12, <1>13 DEF Proceeds

LEMMA NextType == TypeInv /\ [Next]_vars => TypeInv'
<1> SUFFICES ASSUME TypeInv, [Next]_vars PROVE TypeInv'
  OBVIOUS
<1>1. RequestsOK /\ StoreOK /\ CacheOK /\ RestOK
  BY Parts
<1>2. ASSUME NEW r \in Requests, Arrives(r) PROVE TypeInv'
  BY <1>2, ArrivesType
<1>3. ASSUME NEW r \in Requests, Proceeds(r) PROVE TypeInv'
  BY <1>1, <1>3, ProceedsRequests, ProceedsRest, PartsNext
<1>4. CASE Reaps
  <2>1. CacheOK'
    BY <1>1, <1>4, DropType DEF Reaps, Cached
  <2>. QED
    BY <1>1, <1>4, <2>1, Untouched, PartsNext DEF Reaps
<1>5. CASE ReaperStops
  <2>1. RestOK'
    BY <1>1, <1>5 DEF ReaperStops, RestOK, adapters
  <2>. QED
    BY <1>1, <1>5, <2>1, Untouched, PartsNext DEF ReaperStops, adapters
<1>6. CASE ServerCloses
  <2>1. CacheOK'
    BY <1>1, <1>6, DropType DEF ServerCloses, Cached
  <2>2. RestOK'
    BY <1>1, <1>6 DEF ServerCloses, RestOK
  <2>. QED
    BY <1>1, <1>6, <2>1, <2>2, Untouched, PartsNext DEF ServerCloses
<1>7. CASE Tick
  <2>1. \A n \in 0..TTL + 1 : ~(n > TTL) => n + 1 \in 0..TTL + 1
    BY CacheAssumption
  <2>2. CacheOK'
    BY <1>1, <1>7, <2>1 DEF Tick, CacheOK, adapters, Expired
  <2>. QED
    BY <1>1, <1>7, <2>2, Untouched, PartsNext DEF Tick, adapters
<1>8. CASE UNCHANGED vars
  BY <1>1, <1>8, Untouched, PartsNext DEF vars, adapters
<1>. QED
  BY <1>2, <1>3, <1>4, <1>5, <1>6, <1>7, <1>8 DEF Next

\* Every variable keeps its type, whatever the interleaving.
THEOREM TypeCorrect == Spec => []TypeOK
<1>1. TypeInv => TypeOK
  BY DEF TypeInv
<1>. QED
  BY <1>1, InitType, NextType, PTL DEF Spec

(***************************************************************************)
(* Pools.  That none is lost, and that entries are usable, is inductive    *)
(* only with what requests hold before they hand it over: an open pool,    *)
(* which no other request holds.                                           *)
(***************************************************************************)
Owns(r) == pc[r] \in Owning

HeldOpen == \A r \in Requests : Owns(r) => held[r] \in opened

HeldApart == \A r, q \in Requests : Owns(r) /\ Owns(q) /\ held[r] = held[q] => r = q

CacheBounded == Cardinality(Cached) <= Capacity

PoolsInv == HeldOpen /\ HeldApart /\ EntriesUsable /\ NoPoolLost

IInv == TypeInv /\ PoolsInv /\ CacheBounded

\* No request comes to own a pool or stops owning the one it has.
OwnersStay ==
  \A r \in Requests : /\ Owns(r)' <=> Owns(r)
                      /\ Owns(r) => held'[r] = held[r]

\* As OwnersStay, for all but one.
OthersStay(r) ==
  \A q \in Requests \ {r} : /\ Owns(q)' <=> Owns(q)
                            /\ Owns(q) => held'[q] = held[q]

LEMMA QuietPools ==
  ASSUME PoolsInv, OwnersStay, UNCHANGED <<cache, opened>>
  PROVE  PoolsInv'
  BY DEF PoolsInv, OwnersStay, HeldOpen, HeldApart, EntriesUsable, NoPoolLost, Cached, Owns

LEMMA DropPools ==
  ASSUME TypeInv, PoolsInv, OwnersStay, NEW C \in SUBSET Cached, Drop(C)
  PROVE  PoolsInv'
<1> USE DEF Owns
<1>1. \A c \in Conns : cache'[c] = IF c \in C THEN Nothing ELSE cache[c]
  BY DEF Drop
<1>2. opened' = opened \ {cache[c] : c \in C}
  BY DEF Drop
<1>3. \A c \in Cached' : c \in Cached /\ c \notin C /\ cache'[c] = cache[c]
  BY <1>1 DEF Cached
<1>4. HeldOpen'
  <2> SUFFICES ASSUME NEW r \in Requests, Owns(r)' PROVE held'[r] \in opened'
    BY DEF HeldOpen
  <2>1. Owns(r) /\ held'[r] = held[r]
    BY DEF OwnersStay
  <2>2. held[r] \in opened
    BY <2>1 DEF PoolsInv, HeldOpen
  <2>3. \A c \in C : held[r] # cache[c]
    BY <2>1 DEF PoolsInv, EntriesUsable
  <2>. QED
    BY <1>2, <2>1, <2>2, <2>3
<1>5. HeldApart'
  BY DEF PoolsInv, HeldApart, OwnersStay
<1>6. EntriesUsable'
  <2> SUFFICES ASSUME NEW c \in Cached'
               PROVE  /\ cache'[c] \in opened'
                      /\ \A d \in Cached' : cache'[d] = cache'[c] => d = c
                      /\ \A r \in Requests : pc'[r] \in Owning => held'[r] # cache'[c]
    BY DEF EntriesUsable
  <2>1. c \in Cached /\ c \notin C /\ cache'[c] = cache[c]
    BY <1>3
  <2>2. cache[c] \in opened /\ \A d \in C : cache[d] # cache[c]
    BY <2>1 DEF PoolsInv, EntriesUsable
  <2>3. \A d \in Cached' : cache'[d] = cache'[c] => d = c
    BY <1>3, <2>1 DEF PoolsInv, EntriesUsable
  <2>4. \A r \in Requests : pc'[r] \in Owning => held'[r] # cache'[c]
    BY <2>1 DEF PoolsInv, EntriesUsable, OwnersStay
  <2>. QED
    BY <1>2, <2>1, <2>2, <2>3, <2>4
<1>7. NoPoolLost'
  <2> SUFFICES ASSUME NEW p \in opened'
               PROVE  \/ \E c \in Conns : cache'[c] = p
                      \/ \E r \in Requests : held'[r] = p /\ pc'[r] \in Owning
    BY DEF NoPoolLost
  <2>1. p \in opened /\ \A c \in C : cache[c] # p
    BY <1>2
  <2>2. CASE \E c \in Conns : cache[c] = p
    BY <1>1, <2>1, <2>2
  <2>3. CASE \E r \in Requests : held[r] = p /\ pc[r] \in Owning
    BY <2>3 DEF OwnersStay
  <2>. QED
    BY <2>1, <2>2, <2>3 DEF PoolsInv, NoPoolLost
<1>. QED
  BY <1>4, <1>5, <1>6, <1>7 DEF PoolsInv

LEMMA OpenPools ==
  ASSUME TypeInv, PoolsInv, NEW r \in Requests, NEW p \in Pools, Unused(p), ~Owns(r),
         opened' = opened \cup {p}, held'[r] = p, Owns(r)', OthersStay(r), UNCHANGED cache
  PROVE  PoolsInv'
<1> USE DEF Owns
<1>1. \A q \in Requests : held[q] # p
  BY DEF Unused
<1>2. \A c \in Cached : cache[c] # p
  BY DEF Unused, PoolsInv, EntriesUsable
<1>3. HeldOpen'
  BY DEF HeldOpen, PoolsInv, OthersStay
<1>4. HeldApart'
  BY <1>1 DEF HeldApart, PoolsInv, OthersStay
<1>5. EntriesUsable'
  BY <1>2 DEF EntriesUsable, PoolsInv, OthersStay, Cached
<1>6. NoPoolLost'
  BY DEF NoPoolLost, PoolsInv, OthersStay
<1>. QED
  BY <1>3, <1>4, <1>5, <1>6 DEF PoolsInv

LEMMA ClosePools ==
  ASSUME TypeInv, PoolsInv, NEW r \in Requests, Owns(r),
         opened' = opened \ {held[r]}, ~Owns(r)', OthersStay(r), UNCHANGED cache
  PROVE  PoolsInv'
<1> USE DEF Owns
<1>1. \A q \in Requests : Owns(q)' => q # r /\ Owns(q) /\ held'[q] = held[q]
  BY DEF OthersStay
<1>2. HeldOpen'
  BY <1>1 DEF HeldOpen, HeldApart, PoolsInv
<1>3. HeldApart'
  BY <1>1 DEF HeldApart, PoolsInv
<1>4. EntriesUsable'
  BY <1>1 DEF EntriesUsable, PoolsInv, Cached
<1>5. NoPoolLost'
  BY DEF NoPoolLost, PoolsInv, OthersStay
<1>. QED
  BY <1>2, <1>3, <1>4, <1>5 DEF PoolsInv

\* What set does, seen from the entries: an evicted one is not the new one.
LEMMA SetEffect ==
  ASSUME TypeInv, NEW c \in Conns, NEW p \in Pools, Set(c, p)
  PROVE  \E E \in SUBSET Cached :
           /\ c \notin E
           /\ E = {} => c \in Cached \/ ~(Cardinality(Cached) >= Capacity)
           /\ opened' = opened \ {cache[d] : d \in E \cup {c}}
           /\ \A d \in Conns : cache'[d] = IF d = c THEN p ELSE IF d \in E THEN Nothing ELSE cache[d]
<1>1. PICK E \in Evicted(c) :
         /\ opened' = opened \ {cache[d] : d \in E \cup {c}}
         /\ cache' = [d \in Conns |-> IF d = c THEN p ELSE IF d \in E THEN Nothing ELSE cache[d]]
  BY DEF Set
<1>2. CASE cache[c] = Nothing /\ Cardinality(Cached) >= Capacity
  <2>1. PICK d \in Cached : E = {d}
    BY <1>1, <1>2 DEF Evicted
  <2>2. E \in SUBSET Cached /\ c \notin E /\ E # {}
    BY <1>2, <2>1 DEF Cached
  <2>. QED
    BY <1>1, <2>2
<1>3. CASE ~(cache[c] = Nothing /\ Cardinality(Cached) >= Capacity)
  <2>1. E = {}
    BY <1>1, <1>3 DEF Evicted
  <2>2. c \in Cached \/ ~(Cardinality(Cached) >= Capacity)
    BY <1>3 DEF Cached
  <2>. QED
    BY <1>1, <2>1, <2>2
<1>. QED
  BY <1>2, <1>3

LEMMA SetPools ==
  ASSUME TypeInv, PoolsInv, NEW r \in Requests, Owns(r), NEW c \in Conns,
         Set(c, held[r]), ~Owns(r)', OthersStay(r)
  PROVE  PoolsInv'
<1> USE DEF Owns
<1> DEFINE p == held[r]
<1>1. p \in Pools /\ p # Nothing
  BY CacheAssumption DEF TypeInv, Steady, SteadyAt
<1>2. PICK E \in SUBSET Cached :
         /\ c \notin E
         /\ opened' = opened \ {cache[d] : d \in E \cup {c}}
         /\ \A d \in Conns : cache'[d] = IF d = c THEN p ELSE IF d \in E THEN Nothing ELSE cache[d]
  BY <1>1, SetEffect
<1>3. \A q \in Requests : Owns(q)' => q # r /\ Owns(q) /\ held'[q] = held[q]
  BY DEF OthersStay
<1>4. \A q \in Requests : Owns(q) => held[q] \in opened
  BY DEF PoolsInv, HeldOpen
<1>5. \A q \in Requests : Owns(q) => \A d \in E \cup {c} : held[q] # cache[d]
  <2> SUFFICES ASSUME NEW q \in Requests, Owns(q), NEW d \in E \cup {c} PROVE held[q] # cache[d]
    OBVIOUS
  <2>1. CASE cache[d] = Nothing
    BY <2>1, CacheAssumption DEF TypeInv, Steady, SteadyAt
  <2>2. CASE cache[d] # Nothing
    BY <2>2 DEF PoolsInv, EntriesUsable, Cached
  <2>. QED
    BY <2>1, <2>2
<1>6. \A d \in Cached' : d # c => d \in Cached /\ d \notin E /\ cache'[d] = cache[d]
  BY <1>2 DEF Cached
<1>7. HeldOpen'
  BY <1>2, <1>3, <1>4, <1>5 DEF HeldOpen
<1>8. HeldApart'
  BY <1>3 DEF PoolsInv, HeldApart
<1>9. EntriesUsable'
  <2> SUFFICES ASSUME NEW d \in Cached'
               PROVE  /\ cache'[d] \in opened'
                      /\ \A e \in Cached' : cache'[e] = cache'[d] => e = d
                      /\ \A q \in Requests : pc'[q] \in Owning => held'[q] # cache'[d]
    BY DEF EntriesUsable
  <2>1. \A e \in Cached : cache[e] # p
    BY DEF PoolsInv, EntriesUsable
  <2>2. cache'[c] = p
    BY <1>2
  <2>3. CASE d = c
    <3>1. p \in opened'
      BY <1>2, <1>4, <1>5
    <3>2. \A e \in Cached' : cache'[e] = p => e = c
      BY <1>6, <2>1
    <3>3. \A q \in Requests : pc'[q] \in Owning => held'[q] # p
      BY <1>3 DEF PoolsInv, HeldApart
    <3>. QED
      BY <2>2, <2>3, <3>1, <3>2, <3>3
  <2>4. CASE d # c
    <3>1. d \in Cached /\ d \notin E /\ cache'[d] = cache[d]
      BY <1>6, <2>4
    <3>2. cache[d] \in opened /\ \A e \in E \cup {c} : cache[e] # cache[d]
      <4>1. cache[d] # Nothing
        BY <3>1 DEF Cached
      <4>2. cache[c] # Nothing => c \in Cached
        BY DEF Cached
      <4>. QED
        BY <2>4, <3>1, <4>1, <4>2 DEF PoolsInv, EntriesUsable
    <3>3. cache'[d] \in opened'
      BY <1>2, <3>1, <3>2
    <3>4. \A e \in Cached' : cache'[e] = cache'[d] => e = d
      BY <1>6, <2>1, <2>2, <3>1 DEF PoolsInv, EntriesUsable
    <3>5. \A q \in Requests : pc'[q] \in Owning => held'[q] # cache'[d]
      BY <1>3, <3>1 DEF PoolsInv, EntriesUsable
    <3>. QED
      BY <3>3, <3>4, <3>5
  <2>. QED
    BY <2>3, <2>4
<1>10. NoPoolLost'
  <2> SUFFICES ASSUME NEW o \in opened'
               PROVE  \/ \E d \in Conns : cache'[d] = o
                      \/ \E q \in Requests : held'[q] = o /\ pc'[q] \in Owning
    BY DEF NoPoolLost
  <2>1. o \in opened /\ \A d \in E \cup {c} : cache[d] # o
    BY <1>2
  <2>2. CASE \E d \in Conns : cache[d] = o
    BY <1>2, <2>1, <2>2
  <2>3. ASSUME NEW q \in Requests, held[q] = o, pc[q] \in Owning
        PROVE  \/ \E d \in Conns : cache'[d] = o
               \/ \E x \in Requests : held'[x] = o /\ pc'[x] \in Owning
    BY <1>2, <2>3 DEF OthersStay
  <2>. QED
    BY <2>1, <2>2, <2>3 DEF PoolsInv, NoPoolLost
<1>. QED
  BY <1>7, <1>8, <1>9, <1>10 DEF PoolsInv

\* A request that is neither at nor comes to a step of Owning.
LEMMA Walks ==
  ASSUME TypeInv, NEW r \in Requests, NEW at \in States \ Owning, pc[r] \notin Owning,
         pc' = [pc EXCEPT ![r] = at],
         \/ held' = held
         \/ \E h : held' = [held EXCEPT ![r] = h]
  PROVE  OwnersStay
  BY DEF OwnersStay, Owns, TypeInv, TypeOK

LEMMA ReturnLeaves ==
  ASSUME TypeInv, NEW r \in Requests, Return(r)
  PROVE  /\ ~Owns(r)' /\ OthersStay(r)
         /\ pc[r] \notin Owning => OwnersStay
  BY DEF Return, OthersStay, OwnersStay, Owns, Owning, TypeInv, TypeOK

LEMMA GoToLeaves ==
  ASSUME TypeInv, NEW r \in Requests, NEW at, GoTo(r, at)
  PROVE  /\ pc'[r] = at
         /\ \A q \in Requests \ {r} : pc'[q] = pc[q]
         /\ held' = held => OthersStay(r)
         /\ held' = held /\ (at \in Owning <=> pc[r] \in Owning) => OwnersStay
  BY DEF GoTo, OthersStay, OwnersStay, Owns, TypeInv, TypeOK

LEMMA ProceedsPools ==
  ASSUME TypeInv, PoolsInv, NEW r \in Requests, Proceeds(r)
  PROVE  PoolsInv'
<1>1. CASE CacheHits(r)
  <2>1. OwnersStay
    BY <1>1, Walks DEF CacheHits, GoTo, States, Owning
  <2>. QED
    BY <1>1, <2>1, QuietPools DEF CacheHits, adapters
<1>2. CASE CacheMisses(r)
  <2>1. OwnersStay
    BY <1>2, GoToLeaves DEF CacheMisses, Owning
  <2>. QED
    BY <1>2, <2>1, DropPools DEF CacheMisses
<1>3. CASE ProfileRead(r) \/ DsnRead(r) \/ DsnPreserved(r)
  <2>1. OwnersStay
    BY <1>3, GoToLeaves, ReturnLeaves DEF ProfileRead, DsnRead, DsnPreserved, Owning
  <2>. QED
    BY <1>3, <2>1, QuietPools DEF ProfileRead, DsnRead, DsnPreserved, entries, adapters
<1>4. CASE OpenFails(r) \/ UseEnds(r) \/ Deletes(r)
  <2>1. OwnersStay
    BY <1>4, ReturnLeaves DEF OpenFails, UseEnds, Deletes, Owning
  <2>. QED
    BY <1>4, <2>1, QuietPools DEF OpenFails, UseEnds, Deletes, entries, adapters
<1>5. CASE Caches(r)
  <2>1. req[r].conn \in Conns /\ Owns(r)
    BY <1>5 DEF Caches, TypeInv, Steady, SteadyAt, Owns, Owning
  <2>2. ~Owns(r)' /\ OthersStay(r)
    <3>1. CASE req[r].op = "use"
      BY <1>5, <3>1, GoToLeaves DEF Caches, Owns, Owning
    <3>2. CASE req[r].op # "use"
      BY <1>5, <3>2, ReturnLeaves DEF Caches
    <3>. QED
      BY <3>1, <3>2
  <2>. QED
    BY <1>5, <2>1, <2>2, SetPools DEF Caches
<1>6. ASSUME NEW p \in Pools, Opens(r, p) PROVE PoolsInv'
  <2>1. PICK at \in {"caching", "saving", "updating"} : GoTo(r, at)
    BY <1>6 DEF Opens, TypeInv, Steady, SteadyAt
  <2>2. ~Owns(r) /\ Owns(r)' /\ held'[r] = p /\ OthersStay(r)
    BY <1>6, <2>1 DEF Opens, GoTo, Owns, Owning, OthersStay, TypeInv, TypeOK
  <2>. QED
    BY <1>6, <2>2, OpenPools DEF Opens, entries
<1>7. ASSUME NEW c \in Conns, Saves(r, c) PROVE PoolsInv'
  <2>1. OwnersStay
    BY <1>7, GoToLeaves DEF Saves, Owning
  <2>. QED
    BY <1>7, <2>1, QuietPools DEF Saves, entries, adapters
<1>8. CASE SaveFails(r) \/ UpdateFails(r) \/ Undoes(r)
  <2>1. Owns(r) /\ CloseHeld(r) /\ UNCHANGED cache
    BY <1>8 DEF SaveFails, UpdateFails, Undoes, Owns, Owning, entries
  <2>. QED
    BY <2>1, ReturnLeaves, ClosePools DEF CloseHeld
<1>9. CASE Assigns(r)
  <2>1. OwnersStay
    BY <1>9, GoToLeaves DEF Assigns, Owning
  <2>. QED
    BY <1>9, <2>1, QuietPools DEF Assigns, entries, adapters
<1>10. CASE Updates(r)
  <2>1. OwnersStay
    BY <1>10, GoToLeaves DEF Updates, Owning
  <2>. QED
    BY <1>10, <2>1, QuietPools DEF Updates, entries, adapters
<1>11. CASE DeleteDrops(r)
  <2>1. OwnersStay
    BY <1>11, GoToLeaves DEF DeleteDrops, Owning
  <2>. QED
    BY <1>11, <2>1, DropPools DEF DeleteDrops
<1>. QED
  BY <1>1, <1>2, <1>3, <1>4, <1>5, <1>6, <1>7, <1>8, <1>9, <1>10, <1>11 DEF Proceeds

LEMMA NextPools == TypeInv /\ PoolsInv /\ [Next]_vars => PoolsInv'
<1> SUFFICES ASSUME TypeInv, PoolsInv, [Next]_vars PROVE PoolsInv'
  OBVIOUS
<1>1. UNCHANGED <<pc, held>> => OwnersStay
  BY DEF OwnersStay, Owns
<1>2. ASSUME NEW r \in Requests, Arrives(r) PROVE PoolsInv'
  <2>1. PICK first \in {"looking", "opening", "preserving", "dropping"} :
          \E what : Arrive(r, what, first)
    BY <1>2 DEF Arrives, UseArrives, DeleteArrives, CreateArrives, UpdateArrives
  <2>2. OwnersStay
    BY <2>1, Walks DEF Arrive, States, Owning
  <2>. QED
    BY <2>1, <2>2, QuietPools DEF Arrive, entries, adapters
<1>3. ASSUME NEW r \in Requests, Proceeds(r) PROVE PoolsInv'
  BY <1>3, ProceedsPools
<1>4. CASE Reaps
  BY <1>1, <1>4, DropPools DEF Reaps
<1>5. CASE ReaperStops
  BY <1>1, <1>5, QuietPools DEF ReaperStops, entries, adapters
<1>6. CASE ServerCloses
  BY <1>1, <1>6, DropPools DEF ServerCloses
<1>7. CASE Tick
  BY <1>1, <1>7, QuietPools DEF Tick, adapters
<1>8. CASE UNCHANGED vars
  BY <1>1, <1>8, QuietPools DEF vars, entries, adapters
<1>. QED
  BY <1>2, <1>3, <1>4, <1>5, <1>6, <1>7, <1>8 DEF Next

\* The entries never outnumber the capacity: set makes room before it adds one.
LEMMA Fewer ==
  ASSUME Cached' \subseteq Cached, CacheBounded
  PROVE  CacheBounded'
<1>1. IsFiniteSet(Cached)
  BY FS_Subset, CacheAssumption DEF Cached
<1>2. Cardinality(Cached') <= Cardinality(Cached) /\ IsFiniteSet(Cached')
  BY <1>1, FS_Subset
<1>3. Cardinality(Cached') \in Nat /\ Cardinality(Cached) \in Nat
  BY <1>1, <1>2, FS_CardinalityType
<1>. QED
  BY <1>2, <1>3, CacheAssumption DEF CacheBounded

LEMMA SetBounded ==
  ASSUME TypeInv, CacheBounded, NEW c \in Conns, NEW p \in Pools, Set(c, p)
  PROVE  CacheBounded'
<1>1. PICK E \in SUBSET Cached :
         /\ c \notin E
         /\ E = {} => c \in Cached \/ ~(Cardinality(Cached) >= Capacity)
         /\ \A d \in Conns : cache'[d] = IF d = c THEN p ELSE IF d \in E THEN Nothing ELSE cache[d]
  BY SetEffect
<1>2. Cached' \subseteq (Cached \ E) \cup {c}
  BY <1>1 DEF Cached
<1>3. IsFiniteSet(Cached) /\ Cardinality(Cached) \in Nat
  BY FS_Subset, FS_CardinalityType, CacheAssumption DEF Cached
<1>4. CASE c \in Cached
  BY <1>2, <1>4, Fewer
<1>5. CASE c \notin Cached /\ E = {}
  <2>1. Cardinality(Cached \cup {c}) = Cardinality(Cached) + 1 /\ IsFiniteSet(Cached \cup {c})
    BY <1>3, <1>5, FS_AddElement
  <2>2. Cardinality(Cached') <= Cardinality(Cached) + 1
    BY <1>2, <1>5, <2>1, FS_Subset
  <2>3. IsFiniteSet(Cached')
    BY <1>2, <1>5, <2>1, FS_Subset
  <2>4. Cardinality(Cached') \in Nat
    BY <2>3, FS_CardinalityType
  <2>. QED
    BY <1>1, <1>3, <1>5, <2>2, <2>4, CacheAssumption DEF CacheBounded
<1>6. CASE c \notin Cached /\ E # {}
  <2>1. PICK d \in E : TRUE
    BY <1>6
  <2> DEFINE rest == Cached \ {d}
  <2>2. Cardinality(rest) = Cardinality(Cached) - 1 /\ IsFiniteSet(rest)
    BY <1>3, <2>1, FS_RemoveElement
  <2>3. Cardinality(rest \cup {c}) = Cardinality(rest) + 1 /\ IsFiniteSet(rest \cup {c})
    BY <1>6, <2>2, FS_AddElement
  <2>4. Cached' \subseteq rest \cup {c}
    BY <1>2, <2>1
  <2>5. Cardinality(Cached') <= Cardinality(rest \cup {c}) /\ IsFiniteSet(Cached')
    BY <2>3, <2>4, FS_Subset
  <2>6. Cardinality(Cached') \in Nat
    BY <2>5, FS_CardinalityType
  <2>. QED
    BY <1>3, <2>2, <2>3, <2>5, <2>6, CacheAssumption DEF CacheBounded
<1>. QED
  BY <1>4, <1>5, <1>6

LEMMA DropFewer ==
  ASSUME NEW C, Drop(C) PROVE Cached' \subseteq Cached
  BY DEF Drop, Cached

LEMMA NextBounded == TypeInv /\ CacheBounded /\ [Next]_vars => CacheBounded'
<1> SUFFICES ASSUME TypeInv, CacheBounded, [Next]_vars PROVE CacheBounded'
  OBVIOUS
<1>1. UNCHANGED cache => Cached' \subseteq Cached
  BY DEF Cached
<1>2. ASSUME NEW r \in Requests, Arrives(r) PROVE UNCHANGED cache
  BY <1>2 DEF Arrives, UseArrives, DeleteArrives, CreateArrives, UpdateArrives, Arrive, entries
<1>3. ASSUME NEW r \in Requests, Proceeds(r) PROVE CacheBounded'
  <2>1. CASE Caches(r)
    <3>1. req[r].conn \in Conns /\ held[r] \in Pools
      BY <2>1 DEF Caches, TypeInv, Steady, SteadyAt, Owning
    <3>. QED
      BY <2>1, <3>1, SetBounded DEF Caches
  <2>2. CASE CacheMisses(r) \/ DeleteDrops(r)
    BY <2>2, DropFewer, Fewer DEF CacheMisses, DeleteDrops
  <2>3. CASE ~Caches(r) /\ ~CacheMisses(r) /\ ~DeleteDrops(r)
    <3>1. UNCHANGED cache
      BY <1>3, <2>3 DEF Proceeds, CacheHits, ProfileRead, DsnRead, OpenFails, UseEnds, Opens, Saves,
         SaveFails, Assigns, Undoes, DsnPreserved, Updates, UpdateFails, Deletes, entries
    <3>. QED
      BY <1>1, <3>1, Fewer
  <2>. QED
    BY <2>1, <2>2, <2>3
<1>4. CASE Reaps \/ ServerCloses
  BY <1>4, DropFewer, Fewer DEF Reaps, ServerCloses
<1>5. CASE ReaperStops \/ Tick \/ UNCHANGED vars
  BY <1>1, <1>5, Fewer DEF ReaperStops, Tick, vars, entries
<1>. QED
  BY <1>1, <1>2, <1>3, <1>4, <1>5, Fewer DEF Next

(***************************************************************************)
(* The theorems.                                                           *)
(***************************************************************************)
LEMMA InitInv == Init => IInv
<1> SUFFICES ASSUME Init PROVE IInv
  OBVIOUS
<1>1. PoolsInv
  BY DEF Init, PoolsInv, HeldOpen, HeldApart, EntriesUsable, NoPoolLost, Cached, Owns, Owning
<1>2. Cached = {}
  BY DEF Init, Cached
<1>3. CacheBounded
  BY <1>2, FS_EmptySet, CacheAssumption DEF CacheBounded
<1>. QED
  BY <1>1, <1>3, InitType DEF IInv

\* The inductive invariant: typing, pools with one owner, and the capacity.
THEOREM Invariant == Spec => []IInv
<1>1. IInv /\ [Next]_vars => IInv'
  BY NextType, NextPools, NextBounded DEF IInv
<1>. QED
  BY <1>1, InitInv, PTL DEF Spec

\* No interleaving of creates, updates, deletes, misses, evictions and the
\* shutdown leaks a pool: an open one is in the cache or on its way there.
THEOREM NothingLeaks == Spec => []NoPoolLost
<1>1. IInv => NoPoolLost
  BY DEF IInv, PoolsInv
<1>. QED
  BY <1>1, Invariant, PTL

\* The cache never hands out a closed pool, and never the same one for two
\* connections.
THEOREM HandsOutOpenPools == Spec => []EntriesUsable
<1>1. IInv => EntriesUsable
  BY DEF IInv, PoolsInv
<1>. QED
  BY <1>1, Invariant, PTL

\* A function has no more values than arguments.
LEMMA ImageSize ==
  ASSUME NEW S, IsFiniteSet(S), NEW f
  PROVE  IsFiniteSet({f[x] : x \in S}) /\ Cardinality({f[x] : x \in S}) <= Cardinality(S)
<1> DEFINE T == {f[x] : x \in S}
           g == [x \in S |-> f[x]]
<1>1. g \in Surjection(S, T)
  BY DEF Surjection
<1>. QED
  BY <1>1, FS_Surjection

\* The capacity bounds the entries, and with the requests about to hand one
\* over, the open pools.
THEOREM BoundHolds == Spec => []PoolsBounded
<1> DEFINE owners == {r \in Requests : pc[r] \in Owning}
           cachedPools == {cache[c] : c \in Cached}
           heldPools == {held[r] : r \in owners}
<1>1. IInv => PoolsBounded
  <2> SUFFICES ASSUME IInv PROVE PoolsBounded
    OBVIOUS
  <2>1. IsFiniteSet(Cached) /\ IsFiniteSet(owners)
    BY FS_Subset, CacheAssumption DEF Cached
  <2>2. IsFiniteSet(cachedPools) /\ Cardinality(cachedPools) <= Cardinality(Cached)
    BY <2>1, ImageSize
  <2>3. IsFiniteSet(heldPools) /\ Cardinality(heldPools) <= Cardinality(owners)
    BY <2>1, ImageSize
  <2>4. opened \subseteq cachedPools \cup heldPools
    BY CacheAssumption DEF IInv, PoolsInv, NoPoolLost, TypeInv, TypeOK, Cached
  <2>5. /\ IsFiniteSet(cachedPools \cup heldPools)
        /\ Cardinality(cachedPools \cup heldPools) <= Cardinality(cachedPools) + Cardinality(heldPools)
    <3>1. /\ IsFiniteSet(cachedPools \cup heldPools)
          /\ Cardinality(cachedPools \cup heldPools)
             = Cardinality(cachedPools) + Cardinality(heldPools) - Cardinality(cachedPools \cap heldPools)
      BY <2>2, <2>3, FS_Union
    <3>2. Cardinality(cachedPools \cap heldPools) \in Nat
      BY <2>2, FS_Intersection, FS_CardinalityType
    <3>3. Cardinality(cachedPools) \in Nat /\ Cardinality(heldPools) \in Nat
      BY <2>2, <2>3, FS_CardinalityType
    <3>. QED
      BY <3>1, <3>2, <3>3
  <2>6. Cardinality(opened) <= Cardinality(cachedPools \cup heldPools) /\ IsFiniteSet(opened)
    BY <2>4, <2>5, FS_Subset
  <2>7. /\ Cardinality(opened) \in Nat /\ Cardinality(cachedPools \cup heldPools) \in Nat
        /\ Cardinality(cachedPools) \in Nat /\ Cardinality(heldPools) \in Nat
        /\ Cardinality(Cached) \in Nat /\ Cardinality(owners) \in Nat
    BY <2>1, <2>2, <2>3, <2>5, <2>6, FS_CardinalityType
  <2>8. Cardinality(Cached) <= Capacity
    BY DEF IInv, CacheBounded
  <2>9. Cardinality(opened) <= Capacity + Cardinality(owners)
    BY <2>2, <2>3, <2>5, <2>6, <2>7, <2>8, CacheAssumption
  <2>. QED
    BY <2>8, <2>9 DEF PoolsBounded
<1>. QED
  BY <1>1, Invariant, PTL

=============================================================================
