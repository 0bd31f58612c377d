---------------------------- MODULE FindEverywhere ----------------------------
(***************************************************************************)
(* Looking a value up in several connections at once: the Find Everywhere  *)
(* dialog (modals/FindEverywhereDialog.tsx) and the "Referenced by" menu   *)
(* of the data grid (grid/ReferencedByMenu.tsx), which read the same       *)
(* stream of answers (lib/api.ts), and the handler that produces it, one   *)
(* worker per connection under one deadline (api/find_everywhere.go).      *)
(*                                                                         *)
(* A search is a request with its abort controller.  Its answers are told  *)
(* apart by their connection only; which tables a worker reads, and the    *)
(* production opt-in that makes one skip them, are left out.               *)
(***************************************************************************)
EXTENDS Naturals, FiniteSets

CONSTANTS
    Conns,       \* all connections
    Scoped,      \* those of the current workspace
    Inexact,     \* those whose rows may hold what an answer cannot encode
    Refs,        \* incoming references the metadata of these declares
    MaxSearches, \* bound: searches and runs of the menu
    MaxEvents,   \* bound: what the user does
    Null         \* a search that was not made

Ids == 1..MaxSearches

VARIABLES
    search, \* each search made, in the client and in the server
    dialog, \* the Find Everywhere dialog
    menu,   \* the "Referenced by" menu of the grid
    events  \* how many bounded events there were

vars == <<search, dialog, menu, events>>

Search == [by : {"dialog", "menu"}, conns : SUBSET Conns,
           refs : SUBSET Refs, isId : BOOLEAN, \* a menu's lookups first, and whether it goes on
           server : {"idle", "serving", "returned"}, expired : BOOLEAN,
           cut : BOOLEAN, \* the handler left at an answer it could not encode
           working : SUBSET Conns, channel : SUBSET Conns, stream : SUBSET Conns,
           aborted : BOOLEAN, failed : BOOLEAN, over : BOOLEAN, completed : SUBSET Conns,
           cleared : BOOLEAN] \* the dialog was emptied since
Dialog == [open : BOOLEAN, running : BOOLEAN, error : BOOLEAN, current : 0..MaxSearches,
           results : SUBSET [conn : Conns, timedOut : BOOLEAN, of : Ids]]
Menu == [open : BOOLEAN, loading : BOOLEAN, current : 0..MaxSearches,
         targets : SUBSET [from : Conns \cup Refs, of : Ids]]

ASSUME FindEverywhereAssumption ==
    /\ Scoped \subseteq Conns /\ Inexact \subseteq Conns /\ IsFiniteSet(Conns) /\ Conns \cap Refs = {}
    /\ MaxSearches \in Nat /\ MaxEvents \in Nat
    /\ Null \notin Search

Made == {i \in Ids : search[i] # Null}
NewId == CHOOSE i \in Ids : i \notin Made
Pending(i) == i \in Made /\ ~search[i].over /\ ~search[i].aborted
Counted == events < MaxEvents /\ events' = events + 1

NewSearch(by, conns, refs, isId) ==
    [by |-> by, conns |-> conns, refs |-> refs, isId |-> isId,
     server |-> "idle", expired |-> FALSE, cut |-> FALSE, working |-> {}, channel |-> {}, stream |-> {},
     aborted |-> FALSE, failed |-> FALSE, over |-> FALSE, completed |-> {}, cleared |-> FALSE]

\* The request leaves and the handler starts a worker per connection.
Sent(s) == [s EXCEPT !.server = "serving", !.working = s.conns]

\* All searches, with the one of a controller aborted, if it has one: what the
\* client has not read of it is lost.
Abort(i) == IF Pending(i) THEN [search EXCEPT ![i].aborted = TRUE, ![i].stream = {}]
            ELSE search
-----------------------------------------------------------------------------
(* The dialog.                                                             *)

\* Opened, or asked for again with another value while it is open: the effect
\* that empties it leaves a search that runs alone.
openFindEverywhere ==
    /\ Counted
    /\ dialog' = [dialog EXCEPT !.open = TRUE, !.results = {}, !.error = FALSE]
    /\ search' = IF dialog.current \in Made
                 THEN [search EXCEPT ![dialog.current].cleared = TRUE] ELSE search
    /\ UNCHANGED menu

\* Mutant: closing leaves the search alone.
closeFindEverywhere_leaves ==
    /\ Counted /\ dialog.open
    /\ dialog' = [dialog EXCEPT !.open = FALSE, !.running = FALSE]
    /\ UNCHANGED <<search, menu>>

closeFindEverywhere ==
    /\ Counted /\ dialog.open
    /\ search' = Abort(dialog.current)
    /\ dialog' = [dialog EXCEPT !.open = FALSE, !.running = FALSE]
    /\ UNCHANGED menu

\* The Enter key starts a search whatever is running.
run(all) ==
    /\ Counted /\ dialog.open /\ Made # Ids
    /\ LET sources == IF all THEN Conns ELSE Scoped
       IN search' = [Abort(dialog.current)
                       EXCEPT ![NewId] = Sent(NewSearch("dialog", sources, {}, TRUE))]
    /\ dialog' = [dialog EXCEPT !.running = TRUE, !.error = FALSE, !.results = {},
                                !.current = NewId]
    /\ UNCHANGED menu

cancel ==
    /\ Counted /\ dialog.open /\ dialog.running
    /\ search' = Abort(dialog.current)
    /\ UNCHANGED <<dialog, menu>>
-----------------------------------------------------------------------------
(* The menu.                                                               *)

\* Mutant: the controller is made before it is known whether there is metadata.
RunMenu_unready(ready, isId) ==
    /\ Counted
    /\ ready => Made # Ids
    /\ search' = IF ready
                 THEN [Abort(menu.current) EXCEPT ![NewId] = NewSearch("menu", Scoped, Refs, isId)]
                 ELSE Abort(menu.current)
    /\ menu' = [open |-> TRUE, loading |-> ready, targets |-> {}, current |-> NewId]
    /\ UNCHANGED dialog

\* The effect runs again: another row or value, metadata or connections that
\* changed.  Without metadata there is nothing to look up yet.
RunMenu(ready, isId) ==
    /\ Counted
    /\ ready => Made # Ids
    /\ search' = IF ready
                 THEN [Abort(menu.current) EXCEPT ![NewId] = NewSearch("menu", Scoped, Refs, isId)]
                 ELSE Abort(menu.current)
    /\ menu' = [open |-> TRUE, loading |-> ready, targets |-> {},
                current |-> IF ready THEN NewId ELSE 0]
    /\ UNCHANGED dialog

\* Closed by the user, by another focused cell or by another tab.
CloseMenu ==
    /\ Counted /\ menu.open
    /\ search' = Abort(menu.current)
    /\ menu' = [open |-> FALSE, loading |-> FALSE, targets |-> {}, current |-> 0]
    /\ UNCHANGED dialog

\* The rows of a declared reference were counted, or not in 300 ms.
CountReference(i, r, counted) ==
    /\ Pending(i) /\ r \in search[i].refs
    /\ search' = [search EXCEPT ![i].refs = @ \ {r}]
    /\ menu' = IF counted THEN [menu EXCEPT !.targets = @ \cup {[from |-> r, of |-> i]}]
               ELSE menu
    /\ UNCHANGED <<dialog, events>>

\* After the declared references, a value that may be an id is searched for.
GoOn(i) ==
    /\ Pending(i) /\ search[i].by = "menu"
    /\ search[i].refs = {} /\ search[i].server = "idle"
    /\ IF search[i].isId
       THEN search' = [search EXCEPT ![i] = Sent(@)] /\ UNCHANGED menu
       ELSE /\ search' = [search EXCEPT ![i].over = TRUE]
            /\ menu' = [menu EXCEPT !.loading = FALSE]
    /\ UNCHANGED <<dialog, events>>
-----------------------------------------------------------------------------
(* The handler and its workers.                                            *)

Works(i, c) == i \in Made /\ c \in search[i].working
Serving(i) == i \in Made /\ search[i].server = "serving"

\* Mutant: a buffer of one, whatever the number of workers.
Capacity_one(i) == 1
Capacity(i) == Cardinality(search[i].conns)

\* A worker keeps to its own time-out of 8 s and to the handler's context.
searchConnection(i, c) ==
    /\ Works(i, c)
    /\ Cardinality(search[i].channel) < Capacity(i)
    /\ search' = [search EXCEPT ![i].working = @ \ {c}, ![i].channel = @ \cup {c}]
    /\ UNCHANGED <<dialog, menu, events>>

Relay(i, c) ==
    /\ Serving(i) /\ c \in search[i].channel
    /\ search' = [search EXCEPT ![i].channel = @ \ {c},
                              ![i].stream = IF Pending(i) THEN @ \cup {c} ELSE @]
    /\ UNCHANGED <<dialog, menu, events>>

\* An answer that has no encoding, such as one with an infinite number among the
\* values sampled: nothing of it is written, the handler returns and the stream
\* ends as if all had been said.
EncodeFails(i, c) ==
    /\ Serving(i) /\ c \in search[i].channel \cap Inexact
    /\ search' = [search EXCEPT ![i].channel = @ \ {c}, ![i].server = "returned", ![i].cut = TRUE]
    /\ UNCHANGED <<dialog, menu, events>>

\* The handler's context, without its time-out: the client has gone.
Gone(i) == search[i].aborted \/ search[i].failed

\* The global time-out of 12 s.
Expire(i) ==
    /\ Serving(i) /\ ~search[i].expired /\ ~Gone(i)
    /\ search' = [search EXCEPT ![i].expired = TRUE]
    /\ UNCHANGED <<dialog, menu, events>>

\* With the context done the select may still relay an answer that is ready.
Stop(i) ==
    /\ Serving(i)
    /\ search[i].expired \/ Gone(i)
    /\ search' = [search EXCEPT ![i].server = "returned"]
    /\ UNCHANGED <<dialog, menu, events>>

\* Mutant: the channel is closed before the last worker has sent.
Drained_early(i) ==
    /\ Serving(i) /\ search[i].channel = {}
    /\ search' = [search EXCEPT ![i].server = "returned"]
    /\ UNCHANGED <<dialog, menu, events>>

\* The channel is closed once every worker has sent, and is empty.
Drained(i) ==
    /\ Serving(i) /\ search[i].working = {} /\ search[i].channel = {}
    /\ search' = [search EXCEPT ![i].server = "returned"]
    /\ UNCHANGED <<dialog, menu, events>>
-----------------------------------------------------------------------------
(* The client reads.                                                       *)

Sending(i) == Pending(i) /\ search[i].server # "idle"

\* Only the newest search of the dialog says that nothing runs any more.
Settled(i) == IF dialog.current = i THEN [dialog EXCEPT !.running = FALSE] ELSE dialog

\* onResult.  The menu makes a target of an answer with matches.
ReadResult(i, c, matches) ==
    /\ Sending(i) /\ c \in search[i].stream
    /\ search' = [search EXCEPT ![i].stream = @ \ {c}, ![i].completed = @ \cup {c}]
    /\ IF search[i].by = "dialog"
       THEN /\ dialog' = [dialog EXCEPT !.results =
                            {e \in @ : e.conn # c} \cup {[conn |-> c, timedOut |-> FALSE, of |-> i]}]
            /\ UNCHANGED menu
       ELSE /\ menu' = IF matches
                       THEN [menu EXCEPT !.targets = @ \cup {[from |-> c, of |-> i]}] ELSE menu
            /\ UNCHANGED dialog
    /\ UNCHANGED events

\* Mutant: nothing is said of the connections that did not answer.
Unfinished_none(i) == {}
Unfinished(i) == {[conn |-> c, timedOut |-> TRUE, of |-> i] :
                    c \in search[i].conns \ search[i].completed}

ReadEnd(i) ==
    /\ Sending(i) /\ search[i].server = "returned" /\ search[i].stream = {}
    /\ search' = [search EXCEPT ![i].over = TRUE]
    /\ IF search[i].by = "dialog"
       THEN /\ dialog' = [Settled(i) EXCEPT !.results = @ \cup Unfinished(i)]
            /\ UNCHANGED menu
       ELSE menu' = [menu EXCEPT !.loading = FALSE] /\ UNCHANGED dialog
    /\ UNCHANGED events

\* The request is refused or the stream breaks.
Fail(i) ==
    /\ Sending(i)
    /\ search' = [search EXCEPT ![i].over = TRUE, ![i].failed = TRUE, ![i].stream = {}]
    /\ IF search[i].by = "dialog"
       THEN dialog' = [Settled(i) EXCEPT !.error = TRUE] /\ UNCHANGED menu
       ELSE menu' = [menu EXCEPT !.loading = FALSE] /\ UNCHANGED dialog
    /\ UNCHANGED events

\* Mutant: a search that was cancelled keeps saying that it runs.
AbortRejects_silent(i) ==
    /\ i \in Made /\ search[i].aborted /\ ~search[i].over
    /\ search' = [search EXCEPT ![i].over = TRUE, ![i].refs = {}]
    /\ UNCHANGED <<dialog, menu, events>>

\* What an aborted search awaits rejects.
AbortRejects(i) ==
    /\ i \in Made /\ search[i].aborted /\ ~search[i].over
    /\ search' = [search EXCEPT ![i].over = TRUE, ![i].refs = {}]
    /\ dialog' = Settled(i)
    /\ UNCHANGED <<menu, events>>
-----------------------------------------------------------------------------
Init ==
    /\ search = [i \in Ids |-> Null]
    /\ dialog = [open |-> FALSE, running |-> FALSE, error |-> FALSE, current |-> 0, results |-> {}]
    /\ menu = [open |-> FALSE, loading |-> FALSE, targets |-> {}, current |-> 0]
    /\ events = 0

UserStep ==
    \/ openFindEverywhere \/ closeFindEverywhere \/ cancel \/ CloseMenu
    \/ \E all \in BOOLEAN : run(all)
    \/ \E ready, isId \in BOOLEAN : RunMenu(ready, isId)

ServerStep == \E i \in Ids :
    \/ \E c \in Conns : searchConnection(i, c) \/ Relay(i, c) \/ EncodeFails(i, c)
    \/ Expire(i) \/ Stop(i) \/ Drained(i)

ClientStep == \E i \in Ids :
    \/ \E c \in Conns, matches \in BOOLEAN : ReadResult(i, c, matches)
    \/ \E r \in Refs, counted \in BOOLEAN : CountReference(i, r, counted)
    \/ GoOn(i) \/ ReadEnd(i) \/ Fail(i) \/ AbortRejects(i)

SystemStep == ServerStep \/ ClientStep

Next == UserStep \/ SystemStep

\* What the user does may stop; deadlines pass, and what was sent arrives, is
\* answered or fails.
Spec == Init /\ [][Next]_vars /\ WF_vars(SystemStep)
-----------------------------------------------------------------------------
(* Properties.                                                             *)

\* The variables hold values of their types, and a surface knows only searches
\* that were made.
TypeOK ==
    /\ {dialog.current, menu.current} \subseteq Made \cup {0}
    /\ search \in [Ids -> Search \cup {Null}]
    /\ dialog \in Dialog /\ menu \in Menu
    /\ events \in 0..MaxEvents

\* What appears in the dialog or in the menu was found by its newest search,
\* while it is open: a search that was cancelled, replaced by another or left
\* behind adds nothing.
LateAnswersIgnored == [][
    /\ \A e \in dialog'.results \ dialog.results : dialog.open /\ e.of = dialog.current
    /\ \A e \in menu'.targets \ menu.targets : menu.open /\ e.of = menu.current]_vars

\* When a search of the dialog has run to its end each connection it asked
\* has one entry, were it to say that there was no answer in time; unless the
\* dialog was opened again since it started.
EverySourceAnswered == dialog.current \in Made =>
    LET s == search[dialog.current] IN
    s.over /\ ~s.aborted /\ ~s.failed /\ ~s.cleared
        => /\ {e.conn : e \in dialog.results} = s.conns
           /\ \A e, f \in dialog.results : e.conn = f.conn => e = f

\* A connection is said to have timed out only when the handler stopped short of
\* it: at the server's deadline, or at an answer it could not encode, after which
\* the dialog says so of the rest although no deadline passed.
TimedOutMeansCutShort ==
    \A e \in dialog.results : e.timedOut => search[e.of].expired \/ search[e.of].cut

\* When the user does no more every worker has ended, also those whose handler
\* returned long ago.
WorkersEnd == <>[](\A i \in Ids, c \in Conns : ~Works(i, c))

\* When the user does no more the dialog and the menu no longer say that they
\* look, whatever was cancelled, closed, refused or late.
LookupsEnd == <>[](~dialog.running /\ ~menu.loading)
=============================================================================
