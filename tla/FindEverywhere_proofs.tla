------------------------ MODULE FindEverywhere_proofs ------------------------
(***************************************************************************)
(* Proofs about FindEverywhere: its type invariant, that the dialog and    *)
(* the menu show nothing but what their newest search found, an entry for  *)
(* each connection, and a time-out only where the handler stopped short,   *)
(* at the deadline or at an answer it could not encode; and that no worker *)
(* blocks on its channel.                                                  *)
(***************************************************************************)
EXTENDS FindEverywhere, FiniteSetTheorems, TLAPS

-----------------------------------------------------------------------------
(* The inductive invariant.                                                *)

\* On its way from the worker to the client no answer is lost while the client
\* still waits and the handler stopped at none it could not encode; without that,
\* and without the deadline, the handler waits for all of them.
Flow(s) ==
    /\ s.by = "dialog" => s.server # "idle" /\ s.refs = {}
    /\ s.working \subseteq s.conns /\ s.channel \subseteq s.conns
    /\ s.stream \subseteq s.conns /\ s.completed \subseteq s.conns
    /\ ~s.aborted /\ ~s.over /\ s.server # "idle" /\ ~s.cut
         => s.conns \subseteq s.working \cup s.channel \cup s.stream \cup s.completed
    /\ ~s.aborted /\ ~s.over /\ s.server = "returned" /\ ~s.expired /\ ~s.cut
         => s.working = {} /\ s.channel = {}
    /\ s.failed => s.over

\* A search that the client still reads is the one of its open surface.
Owned(i) == Pending(i) =>
    IF search[i].by = "dialog" THEN dialog.open /\ i = dialog.current
    ELSE menu.open /\ i = menu.current

\* The dialog shows what its search has answered so far, once for each connection.
ShownFor(s) == ~s.aborted /\ ~s.failed /\ ~s.cleared =>
    /\ {e.conn : e \in dialog.results} = IF s.over THEN s.conns ELSE s.completed
    /\ \A e, f \in dialog.results : e.conn = f.conn => e = f

Entries == \A e \in dialog.results :
    e.of \in Made /\ (e.timedOut => search[e.of].expired \/ search[e.of].cut)

Inv ==
    /\ \A i \in Made : Flow(search[i]) /\ Owned(i)
    /\ dialog.current \in Made => search[dialog.current].by = "dialog" /\ ShownFor(search[dialog.current])
    /\ Entries

IInv == TypeOK /\ Inv
-----------------------------------------------------------------------------
(* Searches.                                                               *)

\* A search that was made is a record of its type.
LEMMA MadeIsASearch ==
    ASSUME TypeOK, NEW i \in Made
    PROVE  i \in Ids /\ search[i] \in Search
  BY DEF TypeOK, Made

\* While an identity is left, the new one was not used.
LEMMA NewIdIsNew ==
    ASSUME Made # Ids
    PROVE  NewId \in Ids /\ NewId \notin Made
  BY DEF NewId, Made

\* What aborting does to each search.
LEMMA AbortEffect ==
    ASSUME TypeOK, NEW k \in 0..MaxSearches
    PROVE  /\ Abort(k) \in [Ids -> Search \cup {Null}]
           /\ \A j \in Ids : j # k => Abort(k)[j] = search[j]
           /\ \A j \in Ids : Abort(k)[j] = Null <=> search[j] = Null
           /\ k \in Made =>
                IF search[k].over \/ search[k].aborted THEN Abort(k)[k] = search[k]
                ELSE Abort(k)[k] = [search[k] EXCEPT !.aborted = TRUE, !.stream = {}]
  <1>1. CASE Pending(k)
    <2>1. k \in Ids /\ search[k] \in Search /\ k \in Made /\ ~search[k].over /\ ~search[k].aborted
      BY <1>1, MadeIsASearch DEF Pending
    <2>2. [search[k] EXCEPT !.aborted = TRUE, !.stream = {}] \in Search
      BY <2>1 DEF Search
    <2>3. Abort(k) = [search EXCEPT ![k] = [search[k] EXCEPT !.aborted = TRUE, !.stream = {}]]
      BY <1>1, <2>1 DEF Abort, TypeOK
    <2>4. Null \notin Search
      BY FindEverywhereAssumption
    <2> QED BY <2>1, <2>2, <2>3, <2>4 DEF TypeOK, Made
  <1>2. CASE ~Pending(k)
    BY <1>2, MadeIsASearch DEF Abort, TypeOK, Pending, Made
  <1> QED BY <1>1, <1>2

\* A new search is well typed.
LEMMA NewSearchType ==
    ASSUME NEW by \in {"dialog", "menu"}, NEW conns \in SUBSET Conns, NEW refs \in SUBSET Refs,
           NEW isId \in BOOLEAN
    PROVE  NewSearch(by, conns, refs, isId) \in Search
  BY DEF NewSearch, Search

\* Sending a search keeps its type and starts a worker for each connection.
LEMMA SentType ==
    ASSUME NEW s \in Search
    PROVE  /\ Sent(s) \in Search
           /\ Sent(s) = [s EXCEPT !.server = "serving", !.working = s.conns]
  BY DEF Sent, Search
-----------------------------------------------------------------------------
(* Types.                                                                  *)

\* Nothing is searched for at first, and every variable has its type.
THEOREM InitType == Init => TypeOK
  <1> SUFFICES ASSUME Init PROVE TypeOK
    OBVIOUS
  <1>1. 0 \in 0..MaxSearches /\ 0 \in 0..MaxEvents
    BY FindEverywhereAssumption
  <1> QED BY <1>1 DEF Init, TypeOK, Dialog, Menu, Made


\* A step that changes one search that was made, and no surface's current one.
LEMMA OneSearchType ==
    ASSUME TypeOK, NEW i \in Made, NEW s \in Search,
           search' = [search EXCEPT ![i] = s],
           dialog' \in Dialog, dialog'.current = dialog.current,
           menu' \in Menu, menu'.current = menu.current,
           events' \in 0..MaxEvents
    PROVE  /\ TypeOK' /\ Made' = Made /\ search'[i] = s
           /\ \A j \in Ids : j # i => search'[j] = search[j]
  <1>1. i \in Ids /\ Null \notin Search
    BY MadeIsASearch, FindEverywhereAssumption
  <1>2. search' \in [Ids -> Search \cup {Null}] /\ search'[i] = s
    BY <1>1 DEF TypeOK
  <1>3. \A j \in Ids : j # i => search'[j] = search[j]
    BY DEF TypeOK
  <1>4. Made' = Made
    BY <1>1, <1>2, <1>3 DEF Made
  <1> QED BY <1>2, <1>3, <1>4 DEF TypeOK

\* A counted event stays within its bound.
LEMMA CountedType == ASSUME TypeOK, Counted PROVE events' \in 0..MaxEvents
  BY FindEverywhereAssumption DEF TypeOK, Counted

\* A step of the user aborts at most one search and makes none, or a new one.
LEMMA AbortType ==
    ASSUME TypeOK, NEW k \in Made \cup {0}, search' = Abort(k),
           dialog' \in Dialog, dialog'.current \in {dialog.current, 0},
           menu' \in Menu, menu'.current \in {menu.current, 0}, Counted
    PROVE  TypeOK' /\ Made' = Made
  <1>1. k \in 0..MaxSearches
    BY FindEverywhereAssumption DEF Made, Ids
  <1>2. search' \in [Ids -> Search \cup {Null}] /\ Made' = Made
    BY <1>1, AbortEffect DEF Made
  <1> QED BY <1>2, CountedType DEF TypeOK

\* What starting a search does to each search.
LEMMA NewSearchEffect ==
    ASSUME TypeOK, NEW k \in Made \cup {0}, NEW s \in Search, Made # Ids,
           search' = [Abort(k) EXCEPT ![NewId] = s],
           dialog' \in Dialog, dialog'.current \in {dialog.current, NewId},
           menu' \in Menu, menu'.current \in {menu.current, NewId}, Counted
    PROVE  /\ TypeOK' /\ Made' = Made \cup {NewId} /\ search'[NewId] = s
           /\ \A j \in Made : search'[j] = Abort(k)[j]
  <1>1. k \in 0..MaxSearches /\ NewId \in Ids /\ NewId \notin Made /\ Null \notin Search
    BY FindEverywhereAssumption, NewIdIsNew DEF Made, Ids
  <1>2. Abort(k) \in [Ids -> Search \cup {Null}] /\ \A j \in Ids : Abort(k)[j] = Null <=> search[j] = Null
    BY <1>1, AbortEffect
  <1>3. /\ search' \in [Ids -> Search \cup {Null}] /\ search'[NewId] = s
        /\ \A j \in Ids : j # NewId => search'[j] = Abort(k)[j]
    BY <1>1, <1>2
  <1>4. Made' = Made \cup {NewId}
    BY <1>1, <1>2, <1>3 DEF Made
  <1> QED BY <1>1, <1>3, <1>4, CountedType DEF TypeOK, Made

-----------------------------------------------------------------------------
(* Steps of one search.                                                    *)

\* What such a step keeps, when it neither revives the search nor loses an
\* answer of it.
LEMMA OneSearchKeeps ==
    ASSUME IInv, NEW i \in Made, NEW s \in Search,
           search' = [search EXCEPT ![i] = s],
           dialog' \in Dialog, dialog'.current = dialog.current, dialog'.open = dialog.open,
           menu' \in Menu, menu'.current = menu.current, menu'.open = menu.open,
           events' = events,
           Flow(s), s.by = search[i].by, search[i].expired => s.expired, search[i].cut => s.cut,
           ~s.over /\ ~s.aborted => Pending(i)
    PROVE  /\ TypeOK' /\ Made' = Made /\ search'[i] = s
           /\ \A j \in Made : j # i => search'[j] = search[j]
           /\ \A j \in Made' : Flow(search'[j]) /\ Owned(j)'
           /\ dialog'.results = dialog.results => Entries'
           /\ dialog'.current \in Made' => search'[dialog'.current].by = "dialog"
           /\ dialog.current \in Made /\ dialog.current # i /\ dialog'.results = dialog.results
                => ShownFor(search[dialog.current])'
  <1>1. TypeOK /\ Inv /\ events' \in 0..MaxEvents /\ Made \subseteq Ids
    BY DEF IInv, TypeOK, Made
  <1>2. TypeOK' /\ Made' = Made /\ search'[i] = s /\ \A j \in Made : j # i => search'[j] = search[j]
    BY <1>1, OneSearchType
  <1>3. \A j \in Made' : Flow(search'[j])
    BY <1>1, <1>2 DEF Inv
  <1>4. ASSUME NEW j \in Made' PROVE Owned(j)'
    <2>1. CASE j = i
      BY <1>1, <1>2, <2>1 DEF Inv, Owned, Pending
    <2>2. CASE j # i
      BY <1>1, <1>2, <2>2 DEF Inv, Owned, Pending
    <2> QED BY <2>1, <2>2
  <1>5. dialog'.results = dialog.results => Entries'
    BY <1>1, <1>2 DEF Inv, Entries
  <1>6. dialog'.current \in Made' => search'[dialog'.current].by = "dialog"
    BY <1>1, <1>2 DEF Inv
  <1>7. dialog.current \in Made /\ dialog.current # i /\ dialog'.results = dialog.results
          => ShownFor(search[dialog.current])'
    BY <1>1, <1>2 DEF Inv, ShownFor
  <1> QED BY <1>2, <1>3, <1>4, <1>5, <1>6, <1>7

\* A step that neither shows an answer nor ends a search of the dialog.
LEMMA QuietStep ==
    ASSUME IInv, NEW i \in Made, NEW s \in Search,
           search' = [search EXCEPT ![i] = s],
           dialog' \in Dialog, dialog'.current = dialog.current, dialog'.open = dialog.open,
           dialog'.results = dialog.results,
           menu' \in Menu, menu'.current = menu.current, menu'.open = menu.open,
           events' = events,
           Flow(s), s.by = search[i].by, search[i].expired => s.expired, search[i].cut => s.cut,
           ~s.over /\ ~s.aborted => Pending(i),
           s.by = "menu" \/ s.aborted \/ s.failed
             \/ (s.over = search[i].over /\ s.conns = search[i].conns
                 /\ s.completed = search[i].completed
                 /\ (search[i].aborted => s.aborted) /\ (search[i].failed => s.failed)
                 /\ (search[i].cleared => s.cleared))
    PROVE  IInv'
  <1>1. /\ TypeOK' /\ Made' = Made /\ search'[i] = s
        /\ \A j \in Made' : Flow(search'[j]) /\ Owned(j)'
        /\ Entries'
        /\ dialog'.current \in Made' => search'[dialog'.current].by = "dialog"
        /\ dialog.current \in Made /\ dialog.current # i => ShownFor(search[dialog.current])'
    BY OneSearchKeeps
  <1>2. ASSUME dialog.current = i PROVE ShownFor(search[dialog.current])'
    BY <1>1, <1>2 DEF IInv, Inv, ShownFor
  <1> QED BY <1>1, <1>2 DEF IInv, Inv

-----------------------------------------------------------------------------
(* The handler and its workers.                                            *)

\* A worker that has answered leaves its answer in the channel.
LEMMA WorkerStep == ASSUME IInv, NEW i \in Ids, NEW c \in Conns, searchConnection(i, c) PROVE IInv'
  <1> DEFINE s == [search[i] EXCEPT !.working = @ \ {c}, !.channel = @ \cup {c}]
  <1>1. i \in Made /\ search[i] \in Search /\ c \in search[i].working
    BY MadeIsASearch DEF IInv, searchConnection, Works
  <1>2. Flow(search[i])
    BY <1>1 DEF IInv, Inv
  <1>3. search' = [search EXCEPT ![i] = s]
    BY DEF searchConnection
  <1>4. s \in Search
    BY <1>1 DEF Search
  <1>5. Flow(s)
    BY <1>1, <1>2 DEF Flow, Search
  <1>6. /\ s.by = search[i].by /\ s.expired = search[i].expired /\ s.cut = search[i].cut /\ s.over = search[i].over
        /\ s.aborted = search[i].aborted /\ s.conns = search[i].conns /\ s.failed = search[i].failed
        /\ s.completed = search[i].completed /\ s.cleared = search[i].cleared
    BY <1>1 DEF Search
  <1>7. UNCHANGED <<dialog, menu, events>> /\ dialog \in Dialog /\ menu \in Menu
    BY DEF searchConnection, IInv, TypeOK
  <1>8. ~s.over /\ ~s.aborted => Pending(i)
    BY <1>1, <1>6 DEF Pending
  <1> HIDE DEF s
  <1> QED BY <1>1, <1>3, <1>4, <1>5, <1>6, <1>7, <1>8, QuietStep

\* The handler passes an answer on, to a client that may have gone.
LEMMA RelayStep == ASSUME IInv, NEW i \in Ids, NEW c \in Conns, Relay(i, c) PROVE IInv'
  <1> DEFINE s == [search[i] EXCEPT !.channel = @ \ {c}, !.stream = IF Pending(i) THEN @ \cup {c} ELSE @]
  <1>1. i \in Made /\ search[i] \in Search /\ c \in search[i].channel /\ search[i].server = "serving"
    BY MadeIsASearch DEF IInv, Relay, Serving
  <1>2. Flow(search[i])
    BY <1>1 DEF IInv, Inv
  <1>3. search' = [search EXCEPT ![i] = s]
    BY DEF Relay
  <1>4. s \in Search
    BY <1>1 DEF Search
  <1>5. Flow(s)
    BY <1>1, <1>2 DEF Flow, Search, Pending
  <1>6. /\ s.by = search[i].by /\ s.expired = search[i].expired /\ s.cut = search[i].cut /\ s.over = search[i].over
        /\ s.aborted = search[i].aborted /\ s.conns = search[i].conns /\ s.failed = search[i].failed
        /\ s.completed = search[i].completed /\ s.cleared = search[i].cleared
    BY <1>1 DEF Search
  <1>7. UNCHANGED <<dialog, menu, events>> /\ dialog \in Dialog /\ menu \in Menu
    BY DEF Relay, IInv, TypeOK
  <1>8. ~s.over /\ ~s.aborted => Pending(i)
    BY <1>1, <1>6 DEF Pending
  <1> HIDE DEF s
  <1> QED BY <1>1, <1>3, <1>4, <1>5, <1>6, <1>7, <1>8, QuietStep

\* The handler returns at an answer it could not encode.
LEMMA EncodeFailsStep == ASSUME IInv, NEW i \in Ids, NEW c \in Conns, EncodeFails(i, c) PROVE IInv'
  <1> DEFINE s == [search[i] EXCEPT !.channel = @ \ {c}, !.server = "returned", !.cut = TRUE]
  <1>1. i \in Made /\ search[i] \in Search /\ search[i].server = "serving"
    BY MadeIsASearch DEF IInv, EncodeFails, Serving
  <1>2. Flow(search[i])
    BY <1>1 DEF IInv, Inv
  <1>3. search' = [search EXCEPT ![i] = s]
    BY DEF EncodeFails
  <1>4. s \in Search
    BY <1>1 DEF Search
  <1>5. Flow(s)
    BY <1>1, <1>2 DEF Flow, Search
  <1>6. /\ s.by = search[i].by /\ s.expired = search[i].expired /\ s.cut /\ s.over = search[i].over
        /\ s.aborted = search[i].aborted /\ s.conns = search[i].conns /\ s.failed = search[i].failed
        /\ s.completed = search[i].completed /\ s.cleared = search[i].cleared
    BY <1>1 DEF Search
  <1>7. UNCHANGED <<dialog, menu, events>> /\ dialog \in Dialog /\ menu \in Menu
    BY DEF EncodeFails, IInv, TypeOK
  <1>8. ~s.over /\ ~s.aborted => Pending(i)
    BY <1>1, <1>6 DEF Pending
  <1> HIDE DEF s
  <1> QED BY <1>1, <1>3, <1>4, <1>5, <1>6, <1>7, <1>8, QuietStep

\* The deadline passes.
LEMMA ExpireStep == ASSUME IInv, NEW i \in Ids, Expire(i) PROVE IInv'
  <1> DEFINE s == [search[i] EXCEPT !.expired = TRUE]
  <1>1. i \in Made /\ search[i] \in Search
    BY MadeIsASearch DEF IInv, Expire, Serving
  <1>2. Flow(search[i])
    BY <1>1 DEF IInv, Inv
  <1>3. search' = [search EXCEPT ![i] = s]
    BY DEF Expire
  <1>4. s \in Search
    BY <1>1 DEF Search
  <1>5. Flow(s)
    BY <1>1, <1>2 DEF Flow, Search
  <1>6. /\ s.by = search[i].by /\ s.expired /\ s.cut = search[i].cut /\ s.over = search[i].over
        /\ s.aborted = search[i].aborted /\ s.conns = search[i].conns /\ s.failed = search[i].failed
        /\ s.completed = search[i].completed /\ s.cleared = search[i].cleared
    BY <1>1 DEF Search
  <1>7. UNCHANGED <<dialog, menu, events>> /\ dialog \in Dialog /\ menu \in Menu
    BY DEF Expire, IInv, TypeOK
  <1>8. ~s.over /\ ~s.aborted => Pending(i)
    BY <1>1, <1>6 DEF Pending
  <1> HIDE DEF s
  <1> QED BY <1>1, <1>3, <1>4, <1>5, <1>6, <1>7, <1>8, QuietStep

\* The handler returns: every answer has been passed on, or the deadline has passed,
\* or the client has gone.
LEMMA ReturnStep == ASSUME IInv, NEW i \in Ids, Stop(i) \/ Drained(i) PROVE IInv'
  <1> DEFINE s == [search[i] EXCEPT !.server = "returned"]
  <1>1. i \in Made /\ search[i] \in Search
    BY MadeIsASearch DEF IInv, Stop, Drained, Serving
  <1>2. Flow(search[i])
    BY <1>1 DEF IInv, Inv
  <1>3. search' = [search EXCEPT ![i] = s]
    BY DEF Stop, Drained
  <1>4. s \in Search
    BY <1>1 DEF Search
  <1>5. Flow(s)
    BY <1>1, <1>2 DEF Flow, Search, Stop, Drained, Serving, Gone
  <1>6. /\ s.by = search[i].by /\ s.expired = search[i].expired /\ s.cut = search[i].cut /\ s.over = search[i].over
        /\ s.aborted = search[i].aborted /\ s.conns = search[i].conns /\ s.failed = search[i].failed
        /\ s.completed = search[i].completed /\ s.cleared = search[i].cleared
    BY <1>1 DEF Search
  <1>7. UNCHANGED <<dialog, menu, events>> /\ dialog \in Dialog /\ menu \in Menu
    BY DEF Stop, Drained, IInv, TypeOK
  <1>8. ~s.over /\ ~s.aborted => Pending(i)
    BY <1>1, <1>6 DEF Pending
  <1> HIDE DEF s
  <1> QED BY <1>1, <1>3, <1>4, <1>5, <1>6, <1>7, <1>8, QuietStep

-----------------------------------------------------------------------------
(* The client.                                                             *)

\* The rows of a declared reference are counted for the menu that asked.
LEMMA CountReferenceStep ==
    ASSUME IInv, NEW i \in Ids, NEW r \in Refs, NEW counted \in BOOLEAN, CountReference(i, r, counted)
    PROVE  IInv'
  <1> DEFINE s == [search[i] EXCEPT !.refs = @ \ {r}]
  <1>1. i \in Made /\ search[i] \in Search /\ ~search[i].over /\ ~search[i].aborted
    BY MadeIsASearch DEF IInv, CountReference, Pending
  <1>2. Flow(search[i])
    BY <1>1 DEF IInv, Inv
  <1>3. search' = [search EXCEPT ![i] = s]
    BY DEF CountReference
  <1>4. s \in Search
    BY <1>1 DEF Search
  <1>5. Flow(s)
    BY <1>1, <1>2 DEF Flow, Search
  <1>6. /\ s.by = search[i].by /\ s.expired = search[i].expired /\ s.cut = search[i].cut /\ s.over = search[i].over
        /\ s.aborted = search[i].aborted /\ s.conns = search[i].conns /\ s.failed = search[i].failed
        /\ s.completed = search[i].completed /\ s.cleared = search[i].cleared
    BY <1>1 DEF Search
  <1>7. UNCHANGED <<dialog, events>> /\ dialog \in Dialog /\ menu \in Menu
    BY DEF CountReference, IInv, TypeOK
  <1>8. menu' \in Menu /\ menu'.current = menu.current /\ menu'.open = menu.open
    BY <1>7 DEF CountReference, Menu
  <1>9. ~s.over /\ ~s.aborted => Pending(i)
    BY <1>1, <1>6 DEF Pending
  <1> HIDE DEF s
  <1> QED BY <1>1, <1>3, <1>4, <1>5, <1>6, <1>7, <1>8, <1>9, QuietStep

\* The menu's lookup goes on to the search by id, or is over.
LEMMA GoOnStep == ASSUME IInv, NEW i \in Ids, GoOn(i) PROVE IInv'
  <1> DEFINE s == IF search[i].isId THEN Sent(search[i]) ELSE [search[i] EXCEPT !.over = TRUE]
  <1>1. /\ i \in Made /\ search[i] \in Search /\ ~search[i].over /\ ~search[i].aborted
        /\ search[i].by = "menu" /\ search[i].server = "idle"
    BY MadeIsASearch DEF IInv, GoOn, Pending
  <1>2. Flow(search[i])
    BY <1>1 DEF IInv, Inv
  <1>3. search' = [search EXCEPT ![i] = s]
    BY DEF GoOn
  <1>4. s \in Search /\ Flow(s) /\ s.by = "menu" /\ s.expired = search[i].expired /\ s.cut = search[i].cut
    <2>1. CASE search[i].isId
      <3> DEFINE t == [search[i] EXCEPT !.server = "serving", !.working = search[i].conns]
      <3>1. s = t
        BY <1>1, <2>1, SentType
      <3>2. t \in Search
        BY <1>1 DEF Search
      <3>3. Flow(t) /\ t.by = "menu" /\ t.expired = search[i].expired /\ t.cut = search[i].cut
        BY <1>1, <1>2 DEF Flow, Search
      <3> QED BY <3>1, <3>2, <3>3
    <2>2. CASE ~search[i].isId
      <3> DEFINE t == [search[i] EXCEPT !.over = TRUE]
      <3>1. s = t
        BY <2>2
      <3>2. t \in Search
        BY <1>1 DEF Search
      <3>3. Flow(t) /\ t.by = "menu" /\ t.expired = search[i].expired /\ t.cut = search[i].cut
        BY <1>1, <1>2 DEF Flow, Search
      <3> QED BY <3>1, <3>2, <3>3
    <2> QED BY <2>1, <2>2
  <1>7. UNCHANGED <<dialog, events>> /\ dialog \in Dialog /\ menu \in Menu
    BY DEF GoOn, IInv, TypeOK
  <1>8. menu' \in Menu /\ menu'.current = menu.current /\ menu'.open = menu.open
    BY <1>7 DEF GoOn, Menu
  <1>9. Pending(i)
    BY <1>1 DEF Pending
  <1> HIDE DEF s
  <1> QED BY <1>1, <1>3, <1>4, <1>7, <1>8, <1>9, QuietStep

\* Settling a search changes no result of the dialog.
LEMMA SettledKeeps ==
    ASSUME TypeOK, NEW i \in Ids
    PROVE  /\ Settled(i) \in Dialog /\ Settled(i).current = dialog.current
           /\ Settled(i).open = dialog.open /\ Settled(i).results = dialog.results
  BY DEF TypeOK, Settled, Dialog

\* The client notices that its search was cancelled.
LEMMA AbortRejectsStep == ASSUME IInv, NEW i \in Ids, AbortRejects(i) PROVE IInv'
  <1> DEFINE s == [search[i] EXCEPT !.over = TRUE, !.refs = {}]
  <1>1. i \in Made /\ search[i] \in Search /\ search[i].aborted
    BY MadeIsASearch DEF IInv, AbortRejects
  <1>2. Flow(search[i])
    BY <1>1 DEF IInv, Inv
  <1>3. search' = [search EXCEPT ![i] = s]
    BY DEF AbortRejects
  <1>4. s \in Search
    BY <1>1 DEF Search
  <1>5. Flow(s)
    BY <1>1, <1>2 DEF Flow, Search
  <1>6. s.by = search[i].by /\ s.expired = search[i].expired /\ s.cut = search[i].cut /\ s.aborted
    BY <1>1 DEF Search
  <1>7. UNCHANGED <<menu, events>> /\ menu \in Menu /\ dialog' = Settled(i)
    BY DEF AbortRejects, IInv, TypeOK
  <1>8. /\ dialog' \in Dialog /\ dialog'.current = dialog.current
        /\ dialog'.open = dialog.open /\ dialog'.results = dialog.results
    BY <1>7, SettledKeeps DEF IInv
  <1> HIDE DEF s
  <1> QED BY <1>1, <1>3, <1>4, <1>5, <1>6, <1>7, <1>8, QuietStep

\* A search that failed is over, and its results need not be complete.
LEMMA FailStep == ASSUME IInv, NEW i \in Ids, Fail(i) PROVE IInv'
  <1> DEFINE s == [search[i] EXCEPT !.over = TRUE, !.failed = TRUE, !.stream = {}]
  <1>1. i \in Made /\ search[i] \in Search
    BY MadeIsASearch DEF IInv, Fail, Sending, Pending
  <1>2. Flow(search[i])
    BY <1>1 DEF IInv, Inv
  <1>3. search' = [search EXCEPT ![i] = s]
    BY DEF Fail
  <1>4. s \in Search
    BY <1>1 DEF Search
  <1>5. Flow(s)
    BY <1>1, <1>2 DEF Flow, Search
  <1>6. s.by = search[i].by /\ s.expired = search[i].expired /\ s.cut = search[i].cut /\ s.failed /\ s.over
    BY <1>1 DEF Search
  <1>7. UNCHANGED events /\ menu \in Menu /\ dialog \in Dialog
    BY DEF Fail, IInv, TypeOK
  <1>8. /\ dialog' \in Dialog /\ dialog'.current = dialog.current
        /\ dialog'.open = dialog.open /\ dialog'.results = dialog.results
        /\ menu' \in Menu /\ menu'.current = menu.current /\ menu'.open = menu.open
    BY <1>7, SettledKeeps DEF IInv, Fail, Dialog, Menu
  <1> HIDE DEF s
  <1> QED BY <1>1, <1>3, <1>4, <1>5, <1>6, <1>7, <1>8, QuietStep

\* An answer read takes the place of nothing else: the results are those completed.
LEMMA ReadResultStep ==
    ASSUME IInv, NEW i \in Ids, NEW c \in Conns, NEW matches \in BOOLEAN, ReadResult(i, c, matches)
    PROVE  IInv'
  <1> DEFINE s == [search[i] EXCEPT !.stream = @ \ {c}, !.completed = @ \cup {c}]
             e0 == [conn |-> c, timedOut |-> FALSE, of |-> i]
  <1>1. /\ i \in Made /\ search[i] \in Search /\ ~search[i].over /\ ~search[i].aborted
        /\ c \in search[i].stream /\ Pending(i)
    BY MadeIsASearch DEF IInv, ReadResult, Sending, Pending
  <1>2. Flow(search[i]) /\ Owned(i)
    BY <1>1 DEF IInv, Inv
  <1>3. search' = [search EXCEPT ![i] = s]
    BY DEF ReadResult
  <1>4. s \in Search
    BY <1>1 DEF Search
  <1>5. Flow(s)
    BY <1>1, <1>2 DEF Flow, Search
  <1>6. /\ s.by = search[i].by /\ s.expired = search[i].expired /\ s.cut = search[i].cut /\ s.over = search[i].over
        /\ s.aborted = search[i].aborted /\ s.conns = search[i].conns /\ s.failed = search[i].failed
        /\ s.completed = search[i].completed \cup {c} /\ s.cleared = search[i].cleared
    BY <1>1 DEF Search
  <1>7. UNCHANGED events /\ dialog \in Dialog /\ menu \in Menu
    BY DEF ReadResult, IInv, TypeOK
  <1>8. CASE s.by = "menu"
    <2>1. UNCHANGED dialog
      BY <1>6, <1>8 DEF ReadResult
    <2>2. menu' \in Menu /\ menu'.current = menu.current /\ menu'.open = menu.open
      BY <1>6, <1>7, <1>8 DEF ReadResult, Menu
    <2> HIDE DEF s
    <2> QED BY <1>1, <1>3, <1>4, <1>5, <1>6, <1>7, <1>8, <2>1, <2>2, QuietStep
  <1>9. CASE s.by = "dialog"
    <2>1. UNCHANGED menu /\ dialog' = [dialog EXCEPT !.results = {e \in @ : e.conn # c} \cup {e0}]
      BY <1>6, <1>9 DEF ReadResult
    <2>2. /\ dialog' \in Dialog /\ dialog'.current = dialog.current /\ dialog'.open = dialog.open
          /\ dialog'.results = {e \in dialog.results : e.conn # c} \cup {e0}
      <3>1. e0 \in [conn : Conns, timedOut : BOOLEAN, of : Ids]
        OBVIOUS
      <3> HIDE DEF e0
      <3> QED BY <1>7, <2>1, <3>1 DEF Dialog
    <2>3. i = dialog.current
      BY <1>1, <1>2, <1>6, <1>9 DEF Owned
    <2>4. /\ TypeOK' /\ Made' = Made /\ search'[i] = s
          /\ \A j \in Made : j # i => search'[j] = search[j]
          /\ \A j \in Made' : Flow(search'[j]) /\ Owned(j)'
          /\ dialog'.current \in Made' => search'[dialog'.current].by = "dialog"
      <3> HIDE DEF s
      <3> QED BY <1>1, <1>3, <1>4, <1>5, <1>6, <1>7, <2>1, <2>2, OneSearchKeeps
    <2>5. ShownFor(search[i])
      BY <1>1, <2>3 DEF IInv, Inv
    <2>6. ShownFor(search[i])'
      <3>1. SUFFICES ASSUME ~s.aborted, ~s.failed, ~s.cleared
                     PROVE  /\ {e.conn : e \in dialog'.results} = s.completed
                            /\ \A e, f \in dialog'.results : e.conn = f.conn => e = f
        BY <1>1, <1>6, <2>4 DEF ShownFor
      <3>2. /\ {e.conn : e \in dialog.results} = search[i].completed
            /\ \A e, f \in dialog.results : e.conn = f.conn => e = f
        BY <1>1, <1>6, <2>5, <3>1 DEF ShownFor
      <3>3. e0.conn = c
        OBVIOUS
      <3>4. {e.conn : e \in dialog'.results} = search[i].completed \cup {c}
        <4> HIDE DEF e0
        <4> QED BY <2>2, <3>2, <3>3
      <3>5. \A e, f \in dialog'.results : e.conn = f.conn => e = f
        <4> HIDE DEF e0
        <4> QED BY <2>2, <3>2, <3>3
      <3> QED BY <1>6, <3>4, <3>5
    <2>7. Entries'
      <3>1. Entries /\ e0.of = i /\ e0.timedOut = FALSE
        BY DEF IInv, Inv
      <3> HIDE DEF e0
      <3> QED BY <1>1, <1>6, <2>2, <2>4, <3>1 DEF Entries
    <2> QED BY <2>2, <2>3, <2>4, <2>6, <2>7 DEF IInv, Inv
  <1> QED BY <1>4, <1>8, <1>9 DEF Search

\* The end of the stream adds an entry for each connection that did not answer.
LEMMA ReadEndStep == ASSUME IInv, NEW i \in Ids, ReadEnd(i) PROVE IInv'
  <1> DEFINE s == [search[i] EXCEPT !.over = TRUE]
  <1>1. /\ i \in Made /\ search[i] \in Search /\ ~search[i].over /\ ~search[i].aborted
        /\ Pending(i) /\ search[i].server = "returned" /\ search[i].stream = {}
    BY MadeIsASearch DEF IInv, ReadEnd, Sending, Pending
  <1>2. Flow(search[i]) /\ Owned(i)
    BY <1>1 DEF IInv, Inv
  <1>3. search' = [search EXCEPT ![i] = s]
    BY DEF ReadEnd
  <1>4. s \in Search
    BY <1>1 DEF Search
  <1>5. Flow(s)
    BY <1>1, <1>2 DEF Flow, Search
  <1>6. /\ s.by = search[i].by /\ s.expired = search[i].expired /\ s.cut = search[i].cut /\ s.over
        /\ s.aborted = search[i].aborted /\ s.conns = search[i].conns /\ s.failed = search[i].failed
        /\ s.completed = search[i].completed /\ s.cleared = search[i].cleared
    BY <1>1 DEF Search
  <1>7. UNCHANGED events /\ dialog \in Dialog /\ menu \in Menu
    BY DEF ReadEnd, IInv, TypeOK
  <1>8. CASE s.by = "menu"
    <2>1. UNCHANGED dialog
      BY <1>6, <1>8 DEF ReadEnd
    <2>2. menu' \in Menu /\ menu'.current = menu.current /\ menu'.open = menu.open
      BY <1>6, <1>7, <1>8 DEF ReadEnd, Menu
    <2> HIDE DEF s
    <2> QED BY <1>1, <1>3, <1>4, <1>5, <1>6, <1>7, <1>8, <2>1, <2>2, QuietStep
  <1>9. CASE s.by = "dialog"
    <2>1. UNCHANGED menu /\ dialog' = [Settled(i) EXCEPT !.results = @ \cup Unfinished(i)]
      BY <1>6, <1>9 DEF ReadEnd
    <2>2. Unfinished(i) \in SUBSET [conn : Conns, timedOut : BOOLEAN, of : Ids]
      <3>1. \A c \in Conns : [conn |-> c, timedOut |-> TRUE, of |-> i]
                               \in [conn : Conns, timedOut : BOOLEAN, of : Ids]
        OBVIOUS
      <3>2. search[i].conns \subseteq Conns
        BY <1>1 DEF Search
      <3> QED BY <3>1, <3>2 DEF Unfinished
    <2>3. /\ dialog' \in Dialog /\ dialog'.current = dialog.current /\ dialog'.open = dialog.open
          /\ dialog'.results = dialog.results \cup Unfinished(i)
      <3>1. /\ Settled(i) \in Dialog /\ Settled(i).current = dialog.current
            /\ Settled(i).open = dialog.open /\ Settled(i).results = dialog.results
        BY SettledKeeps DEF IInv
      <3> QED BY <2>1, <2>2, <3>1 DEF Dialog
    <2>4. i = dialog.current
      BY <1>1, <1>2, <1>6, <1>9 DEF Owned
    <2>5. /\ TypeOK' /\ Made' = Made /\ search'[i] = s
          /\ \A j \in Made : j # i => search'[j] = search[j]
          /\ \A j \in Made' : Flow(search'[j]) /\ Owned(j)'
          /\ dialog'.current \in Made' => search'[dialog'.current].by = "dialog"
      <3> HIDE DEF s
      <3> QED BY <1>1, <1>3, <1>4, <1>5, <1>6, <1>7, <2>1, <2>3, OneSearchKeeps
    <2>6. /\ \A e \in Unfinished(i) : /\ e.conn \in search[i].conns \ search[i].completed
                                      /\ e.timedOut /\ e.of = i
          /\ \A c \in search[i].conns \ search[i].completed : \E e \in Unfinished(i) : e.conn = c
          /\ \A e, f \in Unfinished(i) : e.conn = f.conn => e = f
      <3> DEFINE entry(c) == [conn |-> c, timedOut |-> TRUE, of |-> i]
      <3>1. \A c : entry(c).conn = c /\ entry(c).timedOut /\ entry(c).of = i
        OBVIOUS
      <3>2. Unfinished(i) = {entry(c) : c \in search[i].conns \ search[i].completed}
        BY DEF Unfinished
      <3> HIDE DEF entry
      <3> QED BY <3>1, <3>2
    <2>7. ShownFor(search[i])
      BY <1>1, <2>4 DEF IInv, Inv
    <2>8. ShownFor(search[i])'
      <3>1. SUFFICES ASSUME ~s.aborted, ~s.failed, ~s.cleared
                     PROVE  /\ {e.conn : e \in dialog'.results} = s.conns
                            /\ \A e, f \in dialog'.results : e.conn = f.conn => e = f
        BY <1>1, <1>6, <2>5 DEF ShownFor
      <3>2. /\ {e.conn : e \in dialog.results} = search[i].completed
            /\ \A e, f \in dialog.results : e.conn = f.conn => e = f
        BY <1>1, <1>6, <2>7, <3>1 DEF ShownFor
      <3>3. search[i].completed \subseteq search[i].conns
        BY <1>2 DEF Flow
      <3>4. {e.conn : e \in dialog'.results} = search[i].conns
        BY <2>3, <2>6, <3>2, <3>3
      <3>5. \A e, f \in dialog'.results : e.conn = f.conn => e = f
        <4>1. \A e \in dialog.results : e.conn \in search[i].completed
          BY <3>2
        <4> QED BY <2>3, <2>6, <3>2, <4>1
      <3> QED BY <1>6, <3>4, <3>5
    <2>9. Entries'
      <3>1. Unfinished(i) # {} => search[i].expired \/ search[i].cut
        <4>1. ~search[i].expired /\ ~search[i].cut => search[i].conns \subseteq search[i].completed
          BY <1>1, <1>2 DEF Flow
        <4> QED BY <2>6, <4>1
      <3>2. Entries
        BY DEF IInv, Inv
      <3> HIDE DEF s
      <3> QED BY <1>1, <1>6, <2>3, <2>5, <2>6, <3>1, <3>2 DEF Entries
    <2> QED BY <2>3, <2>4, <2>5, <2>8, <2>9 DEF IInv, Inv
  <1> QED BY <1>4, <1>8, <1>9 DEF Search

-----------------------------------------------------------------------------
(* The user.                                                               *)

\* Aborting a search keeps what the invariant says of every search.
LEMMA AbortKeeps ==
    ASSUME IInv, NEW k \in Made \cup {0}, NEW j \in Made
    PROVE  /\ Abort(k)[j] \in Search /\ Flow(Abort(k)[j])
           /\ Abort(k)[j].by = search[j].by /\ Abort(k)[j].expired = search[j].expired /\ Abort(k)[j].cut = search[j].cut
           /\ Abort(k)[j].over = search[j].over /\ Abort(k)[j].conns = search[j].conns
           /\ Abort(k)[j].failed = search[j].failed /\ Abort(k)[j].cleared = search[j].cleared
           /\ Abort(k)[j].completed = search[j].completed
           /\ search[j].aborted => Abort(k)[j].aborted
           /\ ~Abort(k)[j].over /\ ~Abort(k)[j].aborted => Pending(j) /\ j # k
  <1>1. j \in Ids /\ search[j] \in Search /\ Flow(search[j]) /\ k \in 0..MaxSearches
    BY MadeIsASearch, FindEverywhereAssumption DEF IInv, Inv, Made, Ids
  <1>2. CASE Abort(k)[j] = search[j] /\ (j = k => search[j].over \/ search[j].aborted)
    BY <1>1, <1>2 DEF Pending
  <1>3. CASE j = k /\ Abort(k)[j] = [search[j] EXCEPT !.aborted = TRUE, !.stream = {}]
    BY <1>1, <1>3 DEF Flow, Search
  <1> QED BY <1>1, <1>2, <1>3, AbortEffect DEF IInv

\* Opening the dialog empties it: the current search counts as cleared.
LEMMA OpenStep == ASSUME IInv, openFindEverywhere PROVE IInv'
  <1>1. TypeOK /\ Inv /\ events' \in 0..MaxEvents /\ UNCHANGED menu /\ menu \in Menu
    BY CountedType DEF IInv, TypeOK, openFindEverywhere
  <1>2. /\ dialog' \in Dialog /\ dialog'.current = dialog.current
        /\ dialog'.open = TRUE /\ dialog'.results = {}
    BY <1>1 DEF openFindEverywhere, TypeOK, Dialog
  <1>3. CASE dialog.current \in Made
    <2> DEFINE i == dialog.current
               s == [search[i] EXCEPT !.cleared = TRUE]
    <2>1. search' = [search EXCEPT ![i] = s]
      BY <1>3 DEF openFindEverywhere
    <2>2. search[i] \in Search /\ Flow(search[i])
      BY <1>1, <1>3, MadeIsASearch DEF Inv
    <2>3. s \in Search /\ s.by = search[i].by /\ s.over = search[i].over
          /\ s.aborted = search[i].aborted /\ s.cleared
      BY <2>2 DEF Search
    <2>4. Flow(s)
      BY <2>2 DEF Flow, Search
    <2> HIDE DEF s
    <2>5. TypeOK' /\ Made' = Made /\ search'[i] = s /\ \A j \in Ids : j # i => search'[j] = search[j]
      BY <1>1, <1>2, <1>3, <2>1, <2>3, OneSearchType
    <2>6. ASSUME NEW j \in Made' PROVE Flow(search'[j]) /\ Owned(j)'
      <3>1. j \in Ids /\ Flow(search[j]) /\ Owned(j)
        BY <1>1, <2>5, <2>6 DEF Inv, Made
      <3>2. CASE j = i
        BY <1>1, <1>2, <2>3, <2>4, <2>5, <2>6, <3>1, <3>2 DEF Owned, Pending
      <3>3. CASE j # i
        BY <1>1, <1>2, <2>5, <2>6, <3>1, <3>3 DEF Owned, Pending
      <3> QED BY <3>2, <3>3
    <2>7. search'[i].by = "dialog" /\ ShownFor(search[i])'
      BY <1>1, <1>2, <1>3, <2>3, <2>5 DEF Inv, ShownFor
    <2>8. Entries'
      BY <1>2 DEF Entries
    <2> QED BY <1>2, <2>5, <2>6, <2>7, <2>8 DEF IInv, Inv
  <1>4. CASE dialog.current \notin Made
    <2>1. search' = search
      BY <1>4 DEF openFindEverywhere
    <2>2. TypeOK' /\ Made' = Made
      BY <1>1, <1>2, <1>4, <2>1 DEF TypeOK, Made
    <2>3. \A j \in Made' : Flow(search'[j]) /\ Owned(j)'
      BY <1>1, <1>2, <2>1, <2>2 DEF Inv, Owned, Pending
    <2>4. Entries'
      BY <1>2 DEF Entries
    <2> QED BY <1>2, <1>4, <2>2, <2>3, <2>4 DEF IInv, Inv
  <1> QED BY <1>3, <1>4

\* Closing the dialog, cancelling, closing the menu, or waiting for metadata.
LEMMA LeaveStep ==
    ASSUME IInv, NEW k \in Made \cup {0}, search' = Abort(k), Counted,
           dialog' \in Dialog, dialog'.current = dialog.current, dialog'.results = dialog.results,
           dialog'.open = dialog.open \/ k = dialog.current,
           menu' \in Menu, menu'.current \in {menu.current, 0},
           (menu'.current = menu.current /\ menu'.open = menu.open) \/ k = menu.current
    PROVE  IInv'
  <1>1. TypeOK /\ Inv
    BY DEF IInv
  <1>2. TypeOK' /\ Made' = Made
    BY <1>1, AbortType
  <1>3. ASSUME NEW j \in Made' PROVE Flow(search'[j]) /\ Owned(j)'
    <2>1. Owned(j)
      BY <1>1, <1>2, <1>3 DEF Inv
    <2> QED BY <1>2, <1>3, <2>1, AbortKeeps DEF Owned, Pending
  <1>4. dialog'.current \in Made' => search'[dialog'.current].by = "dialog" /\ ShownFor(search[dialog.current])'
    BY <1>1, <1>2, AbortKeeps DEF Inv, ShownFor
  <1>5. Entries'
    BY <1>1, <1>2, AbortKeeps DEF Inv, Entries
  <1> QED BY <1>2, <1>3, <1>4, <1>5 DEF IInv, Inv

\* Closing or cancelling leaves no search of the dialog pending.
LEMMA CloseStep == ASSUME IInv, closeFindEverywhere \/ cancel PROVE IInv'
  <1>1. /\ dialog.current \in Made \cup {0} /\ search' = Abort(dialog.current) /\ Counted
        /\ UNCHANGED menu /\ menu \in Menu
    BY DEF IInv, TypeOK, closeFindEverywhere, cancel
  <1>2. dialog' \in Dialog /\ dialog'.current = dialog.current /\ dialog'.results = dialog.results
    BY DEF IInv, TypeOK, Dialog, closeFindEverywhere, cancel
  <1> QED BY <1>1, <1>2, LeaveStep

\* Closing the menu leaves no search of it pending.
LEMMA CloseMenuStep == ASSUME IInv, CloseMenu PROVE IInv'
  <1>1. /\ menu.current \in Made \cup {0} /\ search' = Abort(menu.current) /\ Counted
        /\ UNCHANGED dialog /\ dialog \in Dialog
    BY DEF IInv, TypeOK, CloseMenu
  <1>2. menu' \in Menu /\ menu'.current = 0
    BY FindEverywhereAssumption DEF CloseMenu, Menu
  <1> QED BY <1>1, <1>2, LeaveStep

\* What a step that starts a search keeps of the others.
LEMMA NewSearchKeeps ==
    ASSUME IInv, NEW k \in Made \cup {0}, NEW s \in Search, Made # Ids, Counted,
           search' = [Abort(k) EXCEPT ![NewId] = s],
           dialog' \in Dialog, dialog'.current \in {dialog.current, NewId},
           menu' \in Menu, menu'.current \in {menu.current, NewId},
           (dialog'.current = dialog.current /\ dialog'.open = dialog.open) \/ k = dialog.current,
           (menu'.current = menu.current /\ menu'.open = menu.open) \/ k = menu.current
    PROVE  /\ TypeOK' /\ Made' = Made \cup {NewId} /\ search'[NewId] = s /\ NewId \notin Made
           /\ \A j \in Made : Flow(search'[j]) /\ Owned(j)' /\ search'[j] = Abort(k)[j]
  <1>1. TypeOK /\ Inv
    BY DEF IInv
  <1>2. /\ TypeOK' /\ Made' = Made \cup {NewId} /\ search'[NewId] = s
        /\ \A j \in Made : search'[j] = Abort(k)[j]
    BY <1>1, NewSearchEffect
  <1>3. ASSUME NEW j \in Made PROVE Flow(search'[j]) /\ Owned(j)'
    <2>1. Owned(j)
      BY <1>1, <1>3 DEF Inv
    <2> QED BY <1>2, <1>3, <2>1, AbortKeeps DEF Owned, Pending
  <1> QED BY <1>2, <1>3, NewIdIsNew

\* A new search of the dialog aborts the one it replaces.
LEMMA RunStep == ASSUME IInv, NEW all \in BOOLEAN, run(all) PROVE IInv'
  <1> DEFINE sources == IF all THEN Conns ELSE Scoped
             s == Sent(NewSearch("dialog", sources, {}, TRUE))
  <1>1. sources \in SUBSET Conns
    BY FindEverywhereAssumption
  <1>2. s \in Search /\ s = [NewSearch("dialog", sources, {}, TRUE)
                               EXCEPT !.server = "serving", !.working = sources]
    <2>1. NewSearch("dialog", sources, {}, TRUE) \in Search
      BY <1>1, NewSearchType
    <2>2. NewSearch("dialog", sources, {}, TRUE).conns = sources
      BY DEF NewSearch
    <2> QED BY <2>1, <2>2, SentType
  <1>3. Flow(s) /\ s.by = "dialog" /\ s.completed = {} /\ ~s.over
    <2> DEFINE t == [NewSearch("dialog", sources, {}, TRUE)
                       EXCEPT !.server = "serving", !.working = sources]
    <2>1. /\ t.by = "dialog" /\ t.server = "serving" /\ t.refs = {} /\ t.conns = sources
          /\ t.working = sources /\ t.channel = {} /\ t.stream = {} /\ t.completed = {}
          /\ t.over = FALSE /\ t.failed = FALSE
      BY DEF NewSearch
    <2> HIDE DEF s, t
    <2>2. s = t
      BY <1>2 DEF t
    <2> QED BY <2>1, <2>2 DEF Flow
  <1>4. /\ dialog.current \in Made \cup {0} /\ Made # Ids /\ Counted
        /\ search' = [Abort(dialog.current) EXCEPT ![NewId] = s]
        /\ UNCHANGED menu /\ menu \in Menu /\ dialog \in Dialog /\ dialog.open
    BY DEF IInv, TypeOK, run
  <1> HIDE DEF s
  <1>5. PICK n \in Ids : n = NewId /\ n \notin Made /\ n \in 0..MaxSearches
    BY <1>4, NewIdIsNew, FindEverywhereAssumption DEF Ids
  <1>6. dialog' \in Dialog /\ dialog'.current = n /\ dialog'.open /\ dialog'.results = {}
    BY <1>4, <1>5 DEF run, Dialog
  <1>7. /\ TypeOK' /\ Made' = Made \cup {n} /\ search'[n] = s
        /\ \A j \in Made : Flow(search'[j]) /\ Owned(j)'
    BY <1>2, <1>4, <1>5, <1>6, NewSearchKeeps
  <1>8. Owned(n)'
    BY <1>3, <1>6, <1>7 DEF Owned
  <1>9. ShownFor(search[dialog.current])' /\ Entries'
    BY <1>3, <1>6, <1>7 DEF ShownFor, Entries
  <1> QED BY <1>3, <1>6, <1>7, <1>8, <1>9 DEF IInv, Inv

\* A new lookup of the menu aborts the one it replaces.
LEMMA RunMenuStep == ASSUME IInv, NEW ready \in BOOLEAN, NEW isId \in BOOLEAN, RunMenu(ready, isId)
                     PROVE  IInv'
  <1>1. /\ menu.current \in Made \cup {0} /\ Counted /\ UNCHANGED dialog /\ dialog \in Dialog
    BY DEF IInv, TypeOK, RunMenu
  <1>2. CASE ~ready
    <2>1. search' = Abort(menu.current)
      BY <1>2 DEF RunMenu
    <2>2. menu' \in Menu /\ menu'.current = 0
      BY <1>2, FindEverywhereAssumption DEF RunMenu, Menu
    <2> QED BY <1>1, <2>1, <2>2, LeaveStep
  <1>3. CASE ready
    <2> DEFINE s == NewSearch("menu", Scoped, Refs, isId)
    <2>1. s \in Search
      BY FindEverywhereAssumption, NewSearchType
    <2>2. Flow(s) /\ s.by = "menu"
      BY DEF Flow, NewSearch
    <2>3. Made # Ids /\ search' = [Abort(menu.current) EXCEPT ![NewId] = s]
      BY <1>3 DEF RunMenu
    <2> HIDE DEF s
    <2>4. PICK n \in Ids : n = NewId /\ n \notin Made /\ n \in 0..MaxSearches
      BY <2>3, NewIdIsNew, FindEverywhereAssumption DEF Ids
    <2>5. menu' \in Menu /\ menu'.current = n /\ menu'.open
      BY <1>3, <2>4 DEF RunMenu, Menu
    <2>6. /\ TypeOK' /\ Made' = Made \cup {n} /\ search'[n] = s
          /\ \A j \in Made : Flow(search'[j]) /\ Owned(j)' /\ search'[j] = Abort(menu.current)[j]
      BY <1>1, <2>1, <2>3, <2>4, <2>5, NewSearchKeeps
    <2>7. Owned(n)'
      BY <2>2, <2>5, <2>6 DEF Owned
    <2>8. dialog.current \in Made \cup {0}
      BY DEF IInv, TypeOK
    <2>9. n # 0
      BY DEF Ids
    <2>10. dialog'.current \in Made' => search'[dialog'.current].by = "dialog" /\ ShownFor(search[dialog.current])'
      BY <1>1, <2>6, <2>8, <2>9, AbortKeeps DEF IInv, Inv, ShownFor
    <2>11. Entries'
      BY <1>1, <2>6, AbortKeeps DEF IInv, Inv, Entries
    <2> QED BY <2>2, <2>6, <2>7, <2>10, <2>11 DEF IInv, Inv
  <1> QED BY <1>2, <1>3

-----------------------------------------------------------------------------
(* The theorems.                                                           *)

\* The inductive invariant holds at first: no search was made (the dialog's and the
\* menu's initial state).
THEOREM InitInvariant == Init => IInv
  <1>1. Init => Made = {} /\ dialog.results = {}
    BY DEF Init, Made
  <1> QED BY <1>1, InitType DEF IInv, Inv, Entries, Init

\* Each operation of the dialog, the menu, the handler and its workers keeps the
\* inductive invariant.
THEOREM NextInvariant == IInv /\ [Next]_vars => IInv'
  <1> SUFFICES ASSUME IInv, [Next]_vars PROVE IInv'
    OBVIOUS
  <1>1. CASE UserStep
    BY <1>1, OpenStep, CloseStep, CloseMenuStep, RunStep, RunMenuStep DEF UserStep
  <1>2. CASE ServerStep
    BY <1>2, WorkerStep, RelayStep, EncodeFailsStep, ExpireStep, ReturnStep DEF ServerStep
  <1>3. CASE ClientStep
    BY <1>3, ReadResultStep, CountReferenceStep, GoOnStep, ReadEndStep, FailStep, AbortRejectsStep
       DEF ClientStep
  <1>4. CASE UNCHANGED vars
    BY <1>4 DEF vars, IInv, TypeOK, Inv, Made, Flow, Owned, Pending, ShownFor, Entries
  <1> QED BY <1>1, <1>2, <1>3, <1>4 DEF Next, SystemStep

\* In every reachable state a search that is still read belongs to its open
\* surface, no answer to it is lost, and the dialog shows what it answered.
THEOREM Invariant == Spec => []IInv
  BY InitInvariant, NextInvariant, PTL DEF Spec

\* Every variable keeps its type, and a surface knows only searches that were made.
THEOREM TypesHold == Spec => []TypeOK
  <1>1. IInv => TypeOK
    BY DEF IInv
  <1> QED BY <1>1, Invariant, PTL

\* A search of the dialog that ran to its end has an entry for each connection.
THEOREM SourcesAnswered == Spec => []EverySourceAnswered
  <1>1. IInv => EverySourceAnswered
    BY DEF IInv, Inv, ShownFor, EverySourceAnswered
  <1> QED BY <1>1, Invariant, PTL

\* A connection is said to have timed out only when the handler stopped short of
\* it: at the deadline, or at an answer it could not encode.
THEOREM TimeOutsAreTrue == Spec => []TimedOutMeansCutShort
  <1>1. IInv => TimedOutMeansCutShort
    BY DEF IInv, Inv, Entries, TimedOutMeansCutShort
  <1> QED BY <1>1, Invariant, PTL

\* What the step of a search shows was found by a search its surface still owns.
LEMMA ShowingStep ==
    ASSUME IInv, Next
    PROVE  /\ \A e \in dialog'.results \ dialog.results : dialog.open /\ e.of = dialog.current
           /\ \A e \in menu'.targets \ menu.targets : menu.open /\ e.of = menu.current
  <1>1. TypeOK /\ dialog \in Dialog /\ menu \in Menu
    BY DEF IInv, TypeOK
  <1>2. CASE UserStep
    <2>1. dialog'.results \subseteq dialog.results
      BY <1>1, <1>2 DEF UserStep, openFindEverywhere, closeFindEverywhere, cancel, CloseMenu, run,
                        RunMenu, Dialog
    <2>2. menu'.targets \subseteq menu.targets
      <3>1. CASE CloseMenu
        BY <3>1 DEF CloseMenu
      <3>2. ASSUME NEW ready \in BOOLEAN, NEW isId \in BOOLEAN, RunMenu(ready, isId)
            PROVE  menu'.targets \subseteq menu.targets
        BY <3>2 DEF RunMenu
      <3>3. CASE openFindEverywhere \/ closeFindEverywhere \/ cancel \/ \E all \in BOOLEAN : run(all)
        BY <3>3 DEF openFindEverywhere, closeFindEverywhere, cancel, run
      <3> QED BY <1>2, <3>1, <3>2, <3>3 DEF UserStep
    <2> QED BY <2>1, <2>2
  <1>3. CASE ServerStep
    <2>1. UNCHANGED <<dialog, menu>>
      BY <1>3 DEF ServerStep, searchConnection, Relay, EncodeFails, Expire, Stop, Drained
    <2> QED BY <2>1
  <1>4. ASSUME NEW i \in Ids, NEW c \in Conns, NEW matches \in BOOLEAN, ReadResult(i, c, matches)
        PROVE  /\ \A e \in dialog'.results \ dialog.results : dialog.open /\ e.of = dialog.current
               /\ \A e \in menu'.targets \ menu.targets : menu.open /\ e.of = menu.current
    <2> DEFINE e0 == [conn |-> c, timedOut |-> FALSE, of |-> i]
               m0 == [from |-> c, of |-> i]
    <2>1. i \in Made /\ Pending(i) /\ Owned(i)
      BY <1>4 DEF IInv, Inv, ReadResult, Sending, Pending
    <2>2. e0.of = i /\ m0.of = i
      OBVIOUS
    <2>3. CASE search[i].by = "dialog"
      <3>1. UNCHANGED menu /\ dialog' = [dialog EXCEPT !.results = {e \in @ : e.conn # c} \cup {e0}]
        BY <1>4, <2>3 DEF ReadResult
      <3> HIDE DEF e0
      <3>2. dialog'.results \subseteq dialog.results \cup {e0}
        BY <1>1, <3>1 DEF Dialog
      <3> QED BY <2>1, <2>2, <2>3, <3>1, <3>2 DEF Owned
    <2>4. CASE search[i].by # "dialog"
      <3>1. UNCHANGED dialog
        BY <1>4, <2>4 DEF ReadResult
      <3>2. menu' = [menu EXCEPT !.targets = @ \cup {m0}] \/ menu' = menu
        BY <1>4, <2>4 DEF ReadResult
      <3> HIDE DEF m0
      <3>3. menu'.targets \subseteq menu.targets \cup {m0}
        BY <1>1, <3>2 DEF Menu
      <3> QED BY <2>1, <2>2, <2>4, <3>1, <3>3 DEF Owned
    <2> QED BY <2>3, <2>4
  <1>5. ASSUME NEW i \in Ids, NEW r \in Refs, NEW counted \in BOOLEAN, CountReference(i, r, counted)
        PROVE  /\ \A e \in dialog'.results \ dialog.results : dialog.open /\ e.of = dialog.current
               /\ \A e \in menu'.targets \ menu.targets : menu.open /\ e.of = menu.current
    <2> DEFINE m0 == [from |-> r, of |-> i]
    <2>1. i \in Made /\ Pending(i) /\ Owned(i) /\ Flow(search[i]) /\ r \in search[i].refs
      BY <1>5 DEF IInv, Inv, CountReference, Pending
    <2>2. search[i].by # "dialog" /\ m0.of = i
      BY <2>1 DEF Flow
    <2>3. UNCHANGED dialog /\ (menu' = [menu EXCEPT !.targets = @ \cup {m0}] \/ menu' = menu)
      BY <1>5 DEF CountReference
    <2> HIDE DEF m0
    <2>4. menu'.targets \subseteq menu.targets \cup {m0}
      BY <1>1, <2>3 DEF Menu
    <2> QED BY <2>1, <2>2, <2>3, <2>4 DEF Owned
  <1>6. ASSUME NEW i \in Ids, ReadEnd(i)
        PROVE  /\ \A e \in dialog'.results \ dialog.results : dialog.open /\ e.of = dialog.current
               /\ \A e \in menu'.targets \ menu.targets : menu.open /\ e.of = menu.current
    <2>1. i \in Made /\ Pending(i) /\ Owned(i)
      BY <1>6 DEF IInv, Inv, ReadEnd, Sending, Pending
    <2>2. \A e \in Unfinished(i) : e.of = i
      BY DEF Unfinished
    <2>3. CASE search[i].by = "dialog"
      <3>1. UNCHANGED menu /\ dialog' = [Settled(i) EXCEPT !.results = @ \cup Unfinished(i)]
        BY <1>6, <2>3 DEF ReadEnd
      <3>2. Settled(i) \in Dialog /\ Settled(i).results = dialog.results
        BY <1>1, SettledKeeps
      <3>3. dialog'.results = dialog.results \cup Unfinished(i)
        BY <3>1, <3>2 DEF Dialog
      <3> QED BY <2>1, <2>2, <2>3, <3>1, <3>3 DEF Owned
    <2>4. CASE search[i].by # "dialog"
      <3>1. UNCHANGED dialog /\ menu'.targets = menu.targets
        BY <1>1, <1>6, <2>4 DEF ReadEnd, Menu
      <3> QED BY <3>1
    <2> QED BY <2>3, <2>4
  <1>7. ASSUME NEW i \in Ids, GoOn(i) \/ Fail(i) \/ AbortRejects(i)
        PROVE  dialog'.results = dialog.results /\ menu'.targets = menu.targets
    <2>1. Settled(i) \in Dialog /\ Settled(i).results = dialog.results
      BY <1>1, SettledKeeps
    <2> QED BY <1>1, <1>7, <2>1 DEF GoOn, Fail, AbortRejects, Dialog, Menu
  <1>8. CASE ClientStep
    BY <1>4, <1>5, <1>6, <1>7, <1>8 DEF ClientStep
  <1> QED BY <1>2, <1>3, <1>8 DEF Next, SystemStep

\* No answer of a search that was cancelled, replaced or left behind is shown.
THEOREM LateAnswersAreIgnored == Spec => LateAnswersIgnored
  <1>1. IInv /\ [Next]_vars =>
          [/\ \A e \in dialog'.results \ dialog.results : dialog.open /\ e.of = dialog.current
           /\ \A e \in menu'.targets \ menu.targets : menu.open /\ e.of = menu.current]_vars
    BY ShowingStep
  <1> QED BY <1>1, Invariant, PTL DEF Spec, LateAnswersIgnored

-----------------------------------------------------------------------------
(* The channel.                                                            *)

\* A worker that has sent is no longer at work, and none has before the request
\* was sent.
Apart(s) == /\ s.working \cap s.channel = {}
            /\ s.server = "idle" => s.working = {} /\ s.channel = {}
AllApart == \A i \in Made : Apart(search[i])

\* Whoever is still at work finds room in the channel, so that no worker waits for
\* a handler that has returned (find_everywhere.go:138).
WorkersHaveRoom == \A i \in Made : \A c \in search[i].working :
    Cardinality(search[i].channel) < Capacity(i)

\* A step of one search keeps the others as they are.
LEMMA OneApart ==
    ASSUME TypeOK, AllApart, NEW i \in Made, NEW s \in Search, Apart(s),
           search' = [search EXCEPT ![i] = s]
    PROVE  AllApart'
  <1>1. i \in Ids /\ Null \notin Search
    BY MadeIsASearch, FindEverywhereAssumption
  <1>2. search'[i] = s /\ \A j \in Ids : j # i => search'[j] = search[j]
    BY <1>1 DEF TypeOK
  <1>3. Made' = Made
    BY <1>1, <1>2 DEF Made
  <1> QED BY <1>1, <1>2, <1>3 DEF AllApart, Made

\* Aborting a search leaves its workers and its channel alone.
LEMMA AbortApart ==
    ASSUME TypeOK, AllApart, NEW k \in Made \cup {0}, NEW j \in Made
    PROVE  Apart(Abort(k)[j])
  <1>1. k \in 0..MaxSearches /\ j \in Ids /\ search[j] \in Search /\ Apart(search[j])
    BY FindEverywhereAssumption, MadeIsASearch DEF Made, Ids, AllApart
  <1>2. CASE j = k
    <2> DEFINE s == [search[k] EXCEPT !.aborted = TRUE, !.stream = {}]
    <2>1. s.working = search[k].working /\ s.channel = search[k].channel /\ s.server = search[k].server
      OBVIOUS
    <2> HIDE DEF s
    <2>2. Abort(k)[k] = search[k] \/ Abort(k)[k] = s
      BY <1>1, <1>2, AbortEffect DEF s
    <2> QED BY <1>1, <1>2, <2>1, <2>2 DEF Apart
  <1>3. CASE j # k
    BY <1>1, <1>3, AbortEffect
  <1> QED BY <1>2, <1>3

\* What the user does keeps working and sent workers apart: a new search has an
\* empty channel.
LEMMA UserApart == ASSUME TypeOK, AllApart, UserStep PROVE AllApart'
  <1>1. /\ dialog.current \in Made \cup {0} /\ menu.current \in Made \cup {0}
        /\ dialog.current \in 0..MaxSearches /\ menu.current \in 0..MaxSearches
    BY FindEverywhereAssumption DEF TypeOK, Made, Ids
  <1>2. ASSUME NEW k \in Made \cup {0}, search' = Abort(k) PROVE AllApart'
    <2>1. k \in 0..MaxSearches
      BY FindEverywhereAssumption DEF Made, Ids
    <2>2. Made' = Made
      BY <1>2, <2>1, AbortEffect DEF Made
    <2> QED BY <1>2, <2>2, AbortApart DEF AllApart
  <1>3. ASSUME NEW k \in Made \cup {0}, NEW s, Apart(s), s # Null, Made # Ids,
               search' = [Abort(k) EXCEPT ![NewId] = s]
        PROVE  AllApart'
    <2>1. k \in 0..MaxSearches /\ NewId \in Ids /\ NewId \notin Made
      BY <1>3, NewIdIsNew, FindEverywhereAssumption DEF Made, Ids
    <2>2. /\ Abort(k) \in [Ids -> Search \cup {Null}]
          /\ \A j \in Ids : Abort(k)[j] = Null <=> search[j] = Null
      BY <2>1, AbortEffect
    <2>3. search'[NewId] = s /\ \A j \in Ids : j # NewId => search'[j] = Abort(k)[j]
      BY <1>3, <2>1, <2>2
    <2>4. Made' = Made \cup {NewId}
      BY <1>3, <2>1, <2>2, <2>3 DEF Made
    <2>5. \A j \in Made : search'[j] = Abort(k)[j]
      BY <2>1, <2>3 DEF Made
    <2> QED BY <1>3, <2>3, <2>4, <2>5, AbortApart DEF AllApart
  <1>4. CASE openFindEverywhere
    <2>1. CASE dialog.current \in Made
      <3> DEFINE s == [search[dialog.current] EXCEPT !.cleared = TRUE]
      <3>1. search[dialog.current] \in Search /\ Apart(search[dialog.current])
        BY <2>1, MadeIsASearch DEF AllApart
      <3>2. s \in Search /\ Apart(s)
        BY <3>1 DEF Search, Apart
      <3>3. search' = [search EXCEPT ![dialog.current] = s]
        BY <1>4, <2>1 DEF openFindEverywhere
      <3> HIDE DEF s
      <3> QED BY <2>1, <3>2, <3>3, OneApart
    <2>2. CASE dialog.current \notin Made
      BY <1>4, <2>2 DEF openFindEverywhere, AllApart, Made
    <2> QED BY <2>1, <2>2
  <1>5. CASE closeFindEverywhere \/ cancel \/ CloseMenu
    BY <1>1, <1>2, <1>5 DEF closeFindEverywhere, cancel, CloseMenu
  <1>6. ASSUME NEW all \in BOOLEAN, run(all) PROVE AllApart'
    <2> DEFINE sources == IF all THEN Conns ELSE Scoped
               n == NewSearch("dialog", sources, {}, TRUE)
               s == Sent(n)
    <2>1. n \in Search /\ n.channel = {}
      BY FindEverywhereAssumption, NewSearchType DEF NewSearch
    <2> HIDE DEF n
    <2>2. s \in Search /\ s.channel = {} /\ s.server # "idle"
      <3>1. s \in Search /\ s = [n EXCEPT !.server = "serving", !.working = n.conns]
        BY <2>1, SentType
      <3> HIDE DEF s
      <3> QED BY <2>1, <3>1 DEF Search
    <2>3. Made # Ids /\ search' = [Abort(dialog.current) EXCEPT ![NewId] = s]
      BY <1>6 DEF run, n
    <2> HIDE DEF s
    <2> QED BY <1>1, <1>3, <2>2, <2>3, FindEverywhereAssumption DEF Apart
  <1>7. ASSUME NEW ready \in BOOLEAN, NEW isId \in BOOLEAN, RunMenu(ready, isId) PROVE AllApart'
    <2>1. CASE ~ready
      BY <1>1, <1>2, <1>7, <2>1 DEF RunMenu
    <2>2. CASE ready
      <3> DEFINE n == NewSearch("menu", Scoped, Refs, isId)
      <3>1. n \in Search /\ n.working = {} /\ n.channel = {}
        BY FindEverywhereAssumption, NewSearchType DEF NewSearch
      <3>2. Made # Ids /\ search' = [Abort(menu.current) EXCEPT ![NewId] = n]
        BY <1>7, <2>2 DEF RunMenu
      <3> HIDE DEF n
      <3> QED BY <1>1, <1>3, <3>1, <3>2, FindEverywhereAssumption DEF Apart
    <2> QED BY <2>1, <2>2
  <1> QED BY <1>4, <1>5, <1>6, <1>7 DEF UserStep

\* Of the handler, its workers and the client, a worker alone fills the channel,
\* with what it then no longer works at.
LEMMA SystemApart == ASSUME TypeOK, AllApart, SystemStep PROVE AllApart'
  <1>1. ASSUME NEW i \in Made PROVE search[i] \in Search /\ Apart(search[i])
    BY <1>1, MadeIsASearch DEF AllApart
  <1>2. ASSUME NEW i \in Ids, NEW c \in Conns, searchConnection(i, c) PROVE AllApart'
    <2> DEFINE s == [search[i] EXCEPT !.working = @ \ {c}, !.channel = @ \cup {c}]
    <2>1. i \in Made /\ search' = [search EXCEPT ![i] = s] /\ c \in search[i].working
      BY <1>2 DEF searchConnection, Works
    <2>2. s \in Search /\ Apart(s)
      BY <1>1, <2>1 DEF Search, Apart
    <2> HIDE DEF s
    <2> QED BY <2>1, <2>2, OneApart
  <1>3. ASSUME NEW i \in Ids, NEW c \in Conns, Relay(i, c) PROVE AllApart'
    <2> DEFINE s == [search[i] EXCEPT !.channel = @ \ {c}, !.stream = IF Pending(i) THEN @ \cup {c} ELSE @]
    <2>1. i \in Made /\ search' = [search EXCEPT ![i] = s]
      BY <1>3 DEF Relay, Serving
    <2>2. s \in Search /\ Apart(s)
      BY <1>1, <2>1 DEF Search, Apart
    <2> HIDE DEF s
    <2> QED BY <2>1, <2>2, OneApart
  <1>3a. ASSUME NEW i \in Ids, NEW c \in Conns, EncodeFails(i, c) PROVE AllApart'
    <2> DEFINE s == [search[i] EXCEPT !.channel = @ \ {c}, !.server = "returned", !.cut = TRUE]
    <2>1. i \in Made /\ search' = [search EXCEPT ![i] = s] /\ search[i].server = "serving"
      BY <1>3a DEF EncodeFails, Serving
    <2>2. s \in Search /\ Apart(s)
      BY <1>1, <2>1 DEF Search, Apart
    <2> HIDE DEF s
    <2> QED BY <2>1, <2>2, OneApart
  <1>4. ASSUME NEW i \in Ids, Expire(i) PROVE AllApart'
    <2> DEFINE s == [search[i] EXCEPT !.expired = TRUE]
    <2>1. i \in Made /\ search' = [search EXCEPT ![i] = s]
      BY <1>4 DEF Expire, Serving
    <2>2. s \in Search /\ Apart(s)
      BY <1>1, <2>1 DEF Search, Apart
    <2> HIDE DEF s
    <2> QED BY <2>1, <2>2, OneApart
  <1>5. ASSUME NEW i \in Ids, Stop(i) \/ Drained(i) PROVE AllApart'
    <2> DEFINE s == [search[i] EXCEPT !.server = "returned"]
    <2>1. i \in Made /\ search' = [search EXCEPT ![i] = s] /\ search[i].server = "serving"
      BY <1>5 DEF Stop, Drained, Serving
    <2>2. s \in Search /\ Apart(s)
      BY <1>1, <2>1 DEF Search, Apart
    <2> HIDE DEF s
    <2> QED BY <2>1, <2>2, OneApart
  <1>6. ASSUME NEW i \in Ids, NEW c \in Conns, NEW matches \in BOOLEAN, ReadResult(i, c, matches)
        PROVE  AllApart'
    <2> DEFINE s == [search[i] EXCEPT !.stream = @ \ {c}, !.completed = @ \cup {c}]
    <2>1. i \in Made /\ search' = [search EXCEPT ![i] = s]
      BY <1>6 DEF ReadResult, Sending, Pending
    <2>2. s \in Search /\ Apart(s)
      BY <1>1, <2>1 DEF Search, Apart
    <2> HIDE DEF s
    <2> QED BY <2>1, <2>2, OneApart
  <1>7. ASSUME NEW i \in Ids, NEW r \in Refs, NEW counted \in BOOLEAN, CountReference(i, r, counted)
        PROVE  AllApart'
    <2> DEFINE s == [search[i] EXCEPT !.refs = @ \ {r}]
    <2>1. i \in Made /\ search' = [search EXCEPT ![i] = s]
      BY <1>7 DEF CountReference, Pending
    <2>2. s \in Search /\ Apart(s)
      BY <1>1, <2>1 DEF Search, Apart
    <2> HIDE DEF s
    <2> QED BY <2>1, <2>2, OneApart
  <1>8. ASSUME NEW i \in Ids, GoOn(i) PROVE AllApart'
    <2> DEFINE s == IF search[i].isId THEN Sent(search[i]) ELSE [search[i] EXCEPT !.over = TRUE]
    <2>1. i \in Made /\ search' = [search EXCEPT ![i] = s] /\ search[i].server = "idle"
      BY <1>8 DEF GoOn, Pending
    <2>2. s \in Search /\ Apart(s)
      <3>1. CASE search[i].isId
        <4>1. s \in Search /\ s = [search[i] EXCEPT !.server = "serving", !.working = search[i].conns]
          BY <1>1, <2>1, <3>1, SentType
        <4> HIDE DEF s
        <4> QED BY <1>1, <2>1, <4>1 DEF Search, Apart
      <3>2. CASE ~search[i].isId
        BY <1>1, <2>1, <3>2 DEF Search, Apart
      <3> QED BY <3>1, <3>2
    <2> HIDE DEF s
    <2> QED BY <2>1, <2>2, OneApart
  <1>9. ASSUME NEW i \in Ids, ReadEnd(i) PROVE AllApart'
    <2> DEFINE s == [search[i] EXCEPT !.over = TRUE]
    <2>1. i \in Made /\ search' = [search EXCEPT ![i] = s]
      BY <1>9 DEF ReadEnd, Sending, Pending
    <2>2. s \in Search /\ Apart(s)
      BY <1>1, <2>1 DEF Search, Apart
    <2> HIDE DEF s
    <2> QED BY <2>1, <2>2, OneApart
  <1>10. ASSUME NEW i \in Ids, Fail(i) PROVE AllApart'
    <2> DEFINE s == [search[i] EXCEPT !.over = TRUE, !.failed = TRUE, !.stream = {}]
    <2>1. i \in Made /\ search' = [search EXCEPT ![i] = s]
      BY <1>10 DEF Fail, Sending, Pending
    <2>2. s \in Search /\ Apart(s)
      BY <1>1, <2>1 DEF Search, Apart
    <2> HIDE DEF s
    <2> QED BY <2>1, <2>2, OneApart
  <1>11. ASSUME NEW i \in Ids, AbortRejects(i) PROVE AllApart'
    <2> DEFINE s == [search[i] EXCEPT !.over = TRUE, !.refs = {}]
    <2>1. i \in Made /\ search' = [search EXCEPT ![i] = s]
      BY <1>11 DEF AbortRejects
    <2>2. s \in Search /\ Apart(s)
      BY <1>1, <2>1 DEF Search, Apart
    <2> HIDE DEF s
    <2> QED BY <2>1, <2>2, OneApart
  <1> QED BY <1>2, <1>3, <1>3a, <1>4, <1>5, <1>6, <1>7, <1>8, <1>9, <1>10, <1>11
          DEF SystemStep, ServerStep, ClientStep

\* No worker of any search is both at work and in the channel.
LEMMA AlwaysApart == Spec => []AllApart
  <1>1. Init => AllApart
    BY DEF Init, AllApart, Made
  <1>2. TypeOK /\ AllApart /\ [Next]_vars => AllApart'
    <2>1. TypeOK /\ AllApart /\ UNCHANGED vars => AllApart'
      BY DEF vars, AllApart, Made
    <2> QED BY <2>1, UserApart, SystemApart DEF Next
  <1> QED BY <1>1, <1>2, TypesHold, PTL DEF Spec

\* A worker never blocks on the buffered channel, also when the handler returned
\* at its deadline or its client has gone: no worker of searchConnection is left behind.
THEOREM WorkersNeverBlock == Spec => []WorkersHaveRoom
  <1>1. ASSUME IInv, AllApart PROVE WorkersHaveRoom
    <2> SUFFICES ASSUME NEW i \in Made, NEW c \in search[i].working
                 PROVE  Cardinality(search[i].channel) < Capacity(i)
      BY DEF WorkersHaveRoom
    <2>1. search[i] \in Search /\ Flow(search[i]) /\ Apart(search[i])
      BY <1>1, MadeIsASearch DEF IInv, Inv, AllApart
    <2>2. c \in search[i].conns /\ search[i].channel \subseteq search[i].conns \ {c}
      BY <2>1 DEF Flow, Apart
    <2>3. IsFiniteSet(search[i].conns)
      <3>1. search[i].conns \subseteq Conns /\ IsFiniteSet(Conns)
        BY <2>1, FindEverywhereAssumption DEF Search
      <3> QED BY <3>1, FS_Subset
    <2>4. /\ IsFiniteSet(search[i].conns \ {c})
          /\ Cardinality(search[i].conns \ {c}) = Cardinality(search[i].conns) - 1
      BY <2>2, <2>3, FS_RemoveElement
    <2>5. Cardinality(search[i].channel) <= Cardinality(search[i].conns \ {c})
      BY <2>2, <2>4, FS_Subset
    <2>6. Cardinality(search[i].conns) \in Nat /\ Cardinality(search[i].channel) \in Nat
      BY <2>2, <2>3, <2>4, FS_CardinalityType, FS_Subset
    <2> QED BY <2>4, <2>5, <2>6 DEF Capacity
  <1> QED BY <1>1, Invariant, AlwaysApart, PTL
=============================================================================
