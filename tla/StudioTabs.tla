----------------------------- MODULE StudioTabs -----------------------------
(***************************************************************************)
(* The editor of the web client: its tabs (hooks/useTabs.ts), the back and *)
(* forward history of the tabs visited (lib/navigationHistory.ts), the     *)
(* named workspaces that scope it (lib/namedWorkspaces.ts and              *)
(* hooks/useNamedWorkspaces.ts) and the effects of App.tsx that keep the   *)
(* three in step.                                                          *)
(*                                                                         *)
(* One step is an event handler together with the effects of the renders   *)
(* it causes: the effects run before the next event is delivered.          *)
(* Positions in a sequence count from 1 (the code's from 0), so the        *)
(* cursor of an empty history is 0.                                        *)
(***************************************************************************)
EXTENDS Integers, FiniteSets, SequencesExt

CONSTANTS
    Conns,       \* connections the server may list
    Tables,      \* table names
    Erds, Diffs, \* connections drawn and pairs compared: a bound on both
    All,         \* the scope that shows every connection
    Null,        \* no tab, no object, no snapshot
    Cells,       \* what a visited location remembers of its focused cell
    NavLimit,    \* entries the history keeps (100 in the code)
    MaxTabs,     \* bound: tabs open at once
    MaxFresh,    \* bound: random ids drawn for tabs
    MaxMoves     \* bound: changes of the scope or of the workspaces

ASSUME BoundsAssumption ==
    /\ NavLimit \in Nat \ {0} /\ MaxTabs \in Nat /\ MaxFresh \in Nat /\ MaxMoves \in Nat
    /\ Erds \subseteq Conns /\ Diffs \subseteq Conns \X Conns /\ Cells # {}

VARIABLES
    conns,    \* connections the client has loaded
    catalog,  \* per connection, the tables loaded from it, or Null
    editor,   \* [tabs, active]: the open tabs and the active one
    nav,      \* [entries, cursor, prev]: history, and previousNavigationTab
    defs,     \* the named workspaces, in the server's order
    choice,   \* [active, all]: the workspace choice kept in localStorage
    saving,   \* the change of the workspaces the server is saving, or Null
    store,    \* localStorage: the snapshot of each scope, or Null
    fresh,    \* random ids drawn for tabs so far
    born,     \* workspaces ever created; the ids of new ones are random
    moves,    \* changes of the scope so far
    asked     \* whether the last step had the user's consent to discard

vars == <<conns, catalog, editor, nav, defs, choice, saving, store, fresh, born, moves, asked>>

-----------------------------------------------------------------------------
(* Tabs.  An id stands for the code's string id: what the tab shows and a  *)
(* number that is 0 for the one tab an object has by default.              *)

Id == [kind : {"table", "query", "erd", "diff"}, conn : Conns,
       obj : Tables \cup Conns \cup {Null}, n : 0..MaxFresh]
Tab == [id : Id, ends : (Conns \X Conns) \cup {Null}, dirty : BOOLEAN]

\* The elements of a sequence that are in S, in order.
Kept(seq, S) ==
    LET kept[i \in 0..Len(seq)] ==
            IF i = 0 THEN <<>>
            ELSE IF seq[i] \in S THEN Append(kept[i - 1], seq[i]) ELSE kept[i - 1]
    IN kept[Len(seq)]

stableTabId(kind, c, obj, n) == [kind |-> kind, conn |-> c, obj |-> obj, n |-> n]
NewTab(id, ends) == [id |-> id, ends |-> ends, dirty |-> FALSE]
IdsOf(tabs) == {tabs[i].id : i \in DOMAIN tabs}
Editor == [tabs : Seq(Tab), active : Id \cup {Null}]
Empty == [tabs |-> <<>>, active |-> Null]

\* The active tab if it is still there, else the first one.
KeptActive(tabs, active) ==
    IF active \in IdsOf(tabs) THEN active
    ELSE IF tabs = <<>> THEN Null ELSE Head(tabs).id

\* The editor with the tabs that are kept.
Keeping(ed, kept) == [tabs |-> kept, active |-> KeptActive(kept, ed.active)]

\* Shows a tab, adding it at the end unless one with its id is open.
Opened(ed, tab) ==
    [tabs |-> IF tab.id \in IdsOf(ed.tabs) THEN ed.tabs ELSE Append(ed.tabs, tab),
     active |-> tab.id]

\* Drops the tabs whose connection, table or pair is gone.
Valid(tab, cs, cat) ==
    /\ tab.id.conn \in cs
    /\ tab.id.kind = "diff" =>
          tab.ends[1] # tab.ends[2] /\ {tab.ends[1], tab.ends[2]} \subseteq cs
    /\ tab.id.kind = "table" =>
          cat[tab.id.conn] = Null \/ tab.id.obj \in cat[tab.id.conn]
reconcile(ed, cs, cat) ==
    Keeping(ed, Kept(ed.tabs, {tab \in ToSet(ed.tabs) : Valid(tab, cs, cat)}))

-----------------------------------------------------------------------------
(* The history of visited tabs *)

Location == [tab : Id, cell : Cells]
emptyNavigationHistory == [entries |-> <<>>, cursor |-> 0, prev |-> Null]

\* Mutant: the entries ahead of the cursor survive a new visit.
pushNavigation_keepsForward(h, loc) ==
    [h EXCEPT !.entries = Append(IF Len(@) < NavLimit THEN @ ELSE Tail(@), loc),
              !.cursor = IF h.cursor < NavLimit THEN h.cursor + 1 ELSE NavLimit]

pushNavigation(h, loc) ==
    IF h.cursor \in DOMAIN h.entries /\ h.entries[h.cursor] = loc THEN h
    ELSE LET entries == Append(SubSeq(h.entries, 1, h.cursor), loc)
             overflow == IF Len(entries) > NavLimit THEN Len(entries) - NavLimit ELSE 0
         IN [h EXCEPT !.entries = SubSeq(entries, overflow + 1, Len(entries)),
                      !.cursor = Len(entries) - overflow]

\* Mutant: the cursor is not clamped to the entries that are left.
pruneNavigation_unclamped(h, open) ==
    LET entries == Kept(h.entries, [tab : open, cell : Cells])
        before == Cardinality({k \in 1..(h.cursor - 1) : h.entries[k].tab \in open})
    IN IF Len(entries) = Len(h.entries) THEN h
       ELSE [h EXCEPT !.entries = entries, !.cursor = before + 1]

pruneNavigation(h, open) ==
    LET entries == Kept(h.entries, [tab : open, cell : Cells])
        before == Cardinality({k \in 1..(h.cursor - 1) : h.entries[k].tab \in open})
    IN IF Len(entries) = Len(h.entries) THEN h
       ELSE [h EXCEPT !.entries = entries,
                      !.cursor = IF before + 1 > Len(entries) THEN Len(entries) ELSE before + 1]

\* The position a step back or forward reaches, 0 when there is none.
stepNavigation(h, direction, open) ==
    LET Open == {k \in DOMAIN h.entries : h.entries[k].tab \in open}
        back == {k \in Open : k < h.cursor}
        forth == {k \in Open : k > h.cursor}
    IN CASE direction = "back" /\ back # {} -> CHOOSE k \in back : \A j \in back : j <= k
         [] direction = "forward" /\ forth # {} -> CHOOSE k \in forth : \A j \in forth : k <= j
         [] OTHER -> 0

updateCurrentNavigationCell(h, id, cell) ==
    IF h.cursor \in DOMAIN h.entries /\ h.entries[h.cursor].tab = id
    THEN [h EXCEPT !.entries[h.cursor].cell = cell] ELSE h

\* The effect on [activeTabId, tabs]: prune, then record a newly active tab.
Recorded(h, ed, cell) ==
    LET pruned == pruneNavigation(h, IdsOf(ed.tabs))
    IN IF ed.active = Null \/ ed.active = h.prev THEN pruned
       ELSE [pushNavigation(pruned, [tab |-> ed.active, cell |-> cell])
                EXCEPT !.prev = ed.active]

-----------------------------------------------------------------------------
(* Scopes and their snapshots *)

Default == 0             \* the workspace every installation starts with
Workspaces == 0..MaxMoves

WorkspaceIds(ds) == {ds[i].id : i \in DOMAIN ds}
MembersOf(ds, w) == UNION {ds[i].members : i \in {j \in DOMAIN ds : ds[j].id = w}}

Without(ds, w) == Kept(ds, {d \in ToSet(ds) : d.id # w})

\* A chosen workspace that no longer exists falls back to the first one.
ActiveId(ds, ch) == IF ch.active \in WorkspaceIds(ds) THEN ch.active ELSE Head(ds).id
ScopeId(ds, ch) == IF ch.all THEN All ELSE ActiveId(ds, ch)
Scope == ScopeId(defs, choice)

\* A change the server is saving: the workspaces and the choice that follow
\* its answer, whether members left the workspace shown, the snapshot that
\* goes, and the scope the change was asked for in: did it change the scope?
Definitions == Seq([id : Workspaces, members : SUBSET Conns])
Choice == [active : Workspaces, all : BOOLEAN]
Saving == [defs : Definitions, choice : Choice, removed : BOOLEAN,
           forget : SUBSET Workspaces, scope : Workspaces \cup {All}, changes : BOOLEAN]

selectWorkspaceConnections(cs, ds, s) ==
    IF s = All THEN cs ELSE cs \cap MembersOf(ds, s)

scopeWorkspaceSnapshot(ed, allowed) ==
    LET InScope == {tab \in ToSet(ed.tabs) :
                      /\ tab.id.conn \in allowed
                      /\ tab.ends # Null => tab.ends[2] \in allowed}
        kept == Keeping(ed, Kept(ed.tabs, InScope))
    IN [kept EXCEPT !.tabs = [i \in DOMAIN kept.tabs |-> [kept.tabs[i] EXCEPT !.dirty = FALSE]]]

Snapshot(ed, h, allowed) ==
    [editor |-> scopeWorkspaceSnapshot(ed, allowed),
     entries |-> h.entries, cursor |-> h.cursor]

SavedEditor(s, missing) == IF store[s] = Null THEN missing ELSE store[s].editor
SavedHistory(s) ==
    IF store[s] = Null THEN emptyNavigationHistory
    ELSE [entries |-> store[s].entries, cursor |-> store[s].cursor,
          prev |-> store[s].editor.active]

\* All and Null are values of their own.
ASSUME NamesAssumption ==
    /\ All \notin Workspaces /\ Null \notin Id
    /\ Null \notin [editor : Editor, entries : Seq(Location), cursor : Nat]
    /\ Null \notin Saving

-----------------------------------------------------------------------------
(* The effects of a render: history, reconciliation, history again, and the *)
(* snapshot of the scope shown.                                             *)

Shown(ed, h) ==
    /\ editor' = reconcile(ed, conns', catalog')
    /\ \E cell \in Cells : nav' = Recorded(Recorded(h, ed, cell), editor', cell)

Written(s) ==
    Snapshot(editor', nav', selectWorkspaceConnections(conns', defs', s))

\* Mutant: the effect that saves depends on the active tab alone.
Render_onActiveOnly(ed, h) ==
    /\ UNCHANGED <<conns, catalog, defs, choice, saving, born, moves>>
    /\ Shown(ed, h)
    /\ store' = IF editor'.active = editor.active THEN store
                ELSE [store EXCEPT ![Scope] = Written(Scope)]

\* An event that changes the editor and stays in its scope.
Render(ed, h) ==
    /\ UNCHANGED <<conns, catalog, defs, choice, saving, born, moves>>
    /\ Shown(ed, h)
    /\ store' = IF editor' = editor /\ nav' = nav THEN store
                ELSE [store EXCEPT ![Scope] = Written(Scope)]

Commit(ed) == Render(ed, nav)

Dirty(S) == \E i \in S : editor.tabs[i].dirty
\* The handler asks before it discards staged work; a refusal changes nothing.
Confirmed(S) == asked' = Dirty(S)
Positions == DOMAIN editor.tabs
Room == Len(editor.tabs) < MaxTabs

-----------------------------------------------------------------------------
(* Opening, showing and moving tabs *)

SameTable(tab, c, t) ==
    tab.id.kind = "table" /\ tab.id.conn = c /\ tab.id.obj = t

\* The open tab of the table, or a new one; "open in a new tab" draws an id.
TableTabId(c, t) ==
    IF \E i \in Positions : SameTable(editor.tabs[i], c, t)
    THEN editor.tabs[SelectInSeq(editor.tabs, LAMBDA tab : SameTable(tab, c, t))].id
    ELSE stableTabId("table", c, t, 0)

openTableTab(c, t) ==
    /\ Room \/ \E i \in Positions : SameTable(editor.tabs[i], c, t)
    /\ Commit(Opened(editor, NewTab(TableTabId(c, t), Null)))
    /\ asked' = FALSE /\ UNCHANGED fresh

openInNewTab(c, t) ==
    /\ Room /\ fresh < MaxFresh
    /\ Commit(Opened(editor, NewTab(stableTabId("table", c, t, fresh + 1), Null)))
    /\ fresh' = fresh + 1 /\ asked' = FALSE

openQueryTab(c) ==
    /\ Room /\ fresh < MaxFresh /\ c \in conns
    /\ Commit(Opened(editor, NewTab(stableTabId("query", c, Null, fresh + 1), Null)))
    /\ fresh' = fresh + 1 /\ asked' = FALSE

ErdTabId(c) ==
    LET erds == {i \in Positions : editor.tabs[i].id.kind = "erd" /\ editor.tabs[i].id.conn = c}
    IN IF erds = {} THEN stableTabId("erd", c, Null, 0)
       ELSE editor.tabs[CHOOSE i \in erds : \A j \in erds : i <= j].id

openErdTab(c) ==
    /\ ErdTabId(c) \in IdsOf(editor.tabs) \/ Room
    /\ Commit(Opened(editor, NewTab(ErdTabId(c), Null)))
    /\ asked' = FALSE /\ UNCHANGED fresh

openDiffTab(from, to) ==
    LET id == stableTabId("diff", from, to, 0)
    IN /\ from # to /\ (id \in IdsOf(editor.tabs) \/ Room)
       /\ Commit(Opened(editor, NewTab(id, <<from, to>>)))
       /\ asked' = FALSE /\ UNCHANGED fresh

\* The comparison shown by a diff tab moves to another pair; its id does not.
ChangePair(i, from, to) ==
    /\ editor.tabs[i].ends # Null /\ from # to
    /\ Commit([editor EXCEPT !.tabs[i].ends = <<from, to>>])
    /\ asked' = FALSE /\ UNCHANGED fresh

setActiveTabId(i) ==
    /\ Commit([editor EXCEPT !.active = editor.tabs[i].id])
    /\ asked' = FALSE /\ UNCHANGED fresh

\* Mutant: the copy keeps the id of the original.
duplicateTab_sameId(i) ==
    /\ Room /\ fresh < MaxFresh
    /\ Commit([tabs |-> InsertAt(editor.tabs, i + 1, editor.tabs[i]),
               active |-> editor.tabs[i].id])
    /\ fresh' = fresh + 1 /\ asked' = FALSE

duplicateTab(i) ==
    LET copy == [editor.tabs[i] EXCEPT !.id.n = fresh + 1, !.dirty = FALSE]
    IN /\ Room /\ fresh < MaxFresh
       /\ Commit([tabs |-> InsertAt(editor.tabs, i + 1, copy), active |-> copy.id])
       /\ fresh' = fresh + 1 /\ asked' = FALSE

reorderTabs(i, j) ==
    /\ i # j
    /\ Commit([editor EXCEPT !.tabs = InsertAt(RemoveAt(@, i), j, editor.tabs[i])])
    /\ asked' = FALSE /\ UNCHANGED fresh

\* A grid staged or dropped its last change, or a console its transaction.
setTabDirty(i, dirty) ==
    /\ editor.tabs[i].dirty # dirty
    /\ Commit([editor EXCEPT !.tabs[i].dirty = dirty])
    /\ asked' = FALSE /\ UNCHANGED fresh

FocusCell(i, cell) ==
    /\ editor.tabs[i].id.kind = "table"
    /\ Render(editor, updateCurrentNavigationCell(nav, editor.tabs[i].id, cell))
    /\ asked' = FALSE /\ UNCHANGED fresh

\* Following a reference records where it started and the cell it leads to.
FollowReference(c, t, from, to) ==
    LET target == TableTabId(c, t)
        opened == Opened(editor, NewTab(target, Null))
        leaving == pushNavigation(nav, [tab |-> editor.active, cell |-> from])
    IN /\ editor.active # Null /\ (Room \/ target \in IdsOf(editor.tabs))
       /\ Render(opened, pushNavigation(leaving, [tab |-> target, cell |-> to]))
       /\ asked' = FALSE /\ UNCHANGED fresh

navigateHistory(direction) ==
    LET k == stepNavigation(nav, direction, IdsOf(editor.tabs))
    IN /\ k # 0
       /\ Render([editor EXCEPT !.active = nav.entries[k].tab],
                 [nav EXCEPT !.cursor = k, !.prev = nav.entries[k].tab])
       /\ asked' = FALSE /\ UNCHANGED fresh

-----------------------------------------------------------------------------
(* Closing tabs *)

closeTab(i) ==
    LET left == IF i = 1 THEN 1 ELSE i - 1
        tabs == RemoveAt(editor.tabs, i)
    IN /\ Confirmed({i}) /\ UNCHANGED fresh
       /\ Commit([tabs |-> tabs,
                  active |-> IF editor.active # editor.tabs[i].id THEN editor.active
                             ELSE IF tabs = <<>> THEN Null ELSE tabs[left].id])

closeAllTabs ==
    /\ editor.tabs # <<>>
    /\ Confirmed(Positions) /\ UNCHANGED fresh
    /\ Commit(Empty)

closeOtherTabs(i) ==
    /\ Confirmed(Positions \ {i}) /\ UNCHANGED fresh
    /\ Commit([tabs |-> <<editor.tabs[i]>>, active |-> editor.tabs[i].id])

\* Mutant: the prompt looks one tab too far to the right.
closeTabsToRight_asksTooFar(i) ==
    LET tabs == SubSeq(editor.tabs, 1, i)
    IN /\ Confirmed({j \in Positions : j > i + 1}) /\ UNCHANGED fresh
       /\ Commit([tabs |-> tabs,
                  active |-> IF editor.active \in IdsOf(tabs) THEN editor.active
                             ELSE editor.tabs[i].id])

closeTabsToRight(i) ==
    LET tabs == SubSeq(editor.tabs, 1, i)
    IN /\ Confirmed({j \in Positions : j > i}) /\ UNCHANGED fresh
       /\ Commit([tabs |-> tabs,
                  active |-> IF editor.active \in IdsOf(tabs) THEN editor.active
                             ELSE editor.tabs[i].id])

-----------------------------------------------------------------------------
(* The connections and tables behind the tabs *)

Uses(tab, c) == tab.id.conn = c \/ (tab.ends # Null /\ c \in {tab.ends[1], tab.ends[2]})

DeleteConnection(c) ==
    /\ c \in conns
    /\ UNCHANGED <<defs, choice, saving, fresh, born, moves>>
    /\ conns' = conns \ {c}
    /\ catalog' = [catalog EXCEPT ![c] = Null]
    /\ Shown(Keeping(editor, Kept(editor.tabs, {tab \in ToSet(editor.tabs) : ~Uses(tab, c)})), nav)
    /\ store' = [store EXCEPT ![Scope] = Written(Scope)]
    /\ Confirmed({i \in Positions : Uses(editor.tabs[i], c)})

\* The list of connections or of a connection's tables is loaded again.
Refetch(cs, cat) ==
    /\ conns' = cs /\ catalog' = cat /\ <<cs, cat>> # <<conns, catalog>>
    /\ UNCHANGED <<defs, choice, saving, fresh, born, moves>>
    /\ Shown(editor, nav)
    /\ store' = [store EXCEPT ![Scope] = Written(Scope)]
    /\ asked' = FALSE

LoadConnections(cs) ==
    Refetch(cs, [c \in Conns |-> IF c \in cs THEN catalog[c] ELSE Null])
LoadTables(c, ts) == c \in conns /\ Refetch(conns, [catalog EXCEPT ![c] = ts])

-----------------------------------------------------------------------------
(* Changing the scope *)

\* The effect of App.tsx that loads the snapshot of a scope newly shown.
RestoreScope(s) ==
    Shown(scopeWorkspaceSnapshot(SavedEditor(s, Empty),
                                 selectWorkspaceConnections(conns, defs', s)),
          SavedHistory(s))

Move == moves < MaxMoves /\ moves' = moves + 1

SavedScope ==
    [store EXCEPT ![Scope] =
        Snapshot(editor, nav, selectWorkspaceConnections(conns, defs, Scope))]

\* Mutant: the snapshot of all connections is refreshed as well.
FollowWorkspaces_savesAll(kept) ==
    LET s == ScopeId(defs', choice')
    IN /\ UNCHANGED <<conns, catalog, fresh>>
       /\ IF s = Scope THEN Shown(editor, nav) ELSE RestoreScope(s)
       /\ store' = [kept EXCEPT ![s] = Written(s), ![All] = Written(All)]

\* After the named workspaces changed: the scope shown follows them.
FollowWorkspaces(kept) ==
    LET s == ScopeId(defs', choice')
    IN /\ UNCHANGED <<conns, catalog, fresh>>
       /\ IF s = Scope THEN Shown(editor, nav) ELSE RestoreScope(s)
       /\ store' = [kept EXCEPT ![s] = Written(s)]

\* The handler saves the scope it leaves; the one it enters is written again
\* only when its first renders change something.
switchNamedWorkspace(s) ==
    LET allowed == selectWorkspaceConnections(conns, defs, s)
        entered == scopeWorkspaceSnapshot(SavedEditor(s, Empty), allowed)
    IN /\ Move /\ UNCHANGED born
       /\ s # Scope /\ s \in WorkspaceIds(defs) \cup {All}
       /\ Confirmed(Positions)
       /\ choice' = IF s = All THEN [active |-> ActiveId(defs, choice), all |-> TRUE]
                    ELSE [active |-> s, all |-> FALSE]
       /\ UNCHANGED <<conns, catalog, defs, saving, fresh>>
       /\ RestoreScope(s)
       /\ store' = IF editor' = entered /\ nav' = SavedHistory(s) THEN SavedScope
                   ELSE [SavedScope EXCEPT ![s] = Written(s)]

\* The user is asked, the scope shown is saved, and the change goes to the
\* server; the editor goes on meanwhile.  The dialog takes one at a time.
BeginSave(next) ==
    /\ Move /\ saving = Null /\ saving' = next
    /\ Confirmed(IF next.changes THEN Positions ELSE {})
    /\ store' = SavedScope
    /\ UNCHANGED <<conns, catalog, editor, nav, defs, choice, fresh>>

CreateWorkspace(members) ==
    /\ born' = born + 1
    /\ BeginSave([defs |-> Append(defs, [id |-> born + 1, members |-> members]),
                  choice |-> [active |-> born + 1, all |-> FALSE],
                  removed |-> FALSE, forget |-> {}, scope |-> Scope, changes |-> TRUE])

DeleteWorkspace(w) ==
    LET active == ActiveId(defs, choice)
        left == Without(defs, w)
    IN /\ w \in WorkspaceIds(defs) /\ Len(defs) > 1 /\ UNCHANGED born
       /\ BeginSave([defs |-> left,
                     choice |-> [choice EXCEPT !.active = IF w = active THEN Head(left).id ELSE active],
                     removed |-> FALSE, forget |-> {w}, scope |-> Scope, changes |-> w = active])

\* The members of a workspace change, or no more than its name.
UpdateWorkspace(w, members) ==
    LET removed == w = Scope /\ ~(MembersOf(defs, w) \subseteq members)
    IN /\ w \in WorkspaceIds(defs) /\ UNCHANGED born
       /\ BeginSave([defs |-> [i \in DOMAIN defs |->
                                 IF defs[i].id = w THEN [id |-> w, members |-> members]
                                 ELSE defs[i]],
                     choice |-> [choice EXCEPT !.active = ActiveId(defs, choice)],
                     removed |-> removed, forget |-> {}, scope |-> Scope, changes |-> removed])

\* The server's answer: the workspaces and the choice become what they were
\* computed to be before the wait, whatever was switched or loaded since.
\* When members left the workspace shown, its tabs are scoped again.
WorkspacesSaved ==
    LET s == ScopeId(saving.defs, saving.choice)
        allowed == selectWorkspaceConnections(conns, saving.defs, s)
        kept == [x \in DOMAIN store |-> IF x \in saving.forget THEN Null ELSE store[x]]
    IN /\ saving # Null /\ saving' = Null
       /\ defs' = saving.defs /\ choice' = saving.choice
       /\ asked' = FALSE /\ UNCHANGED <<born, moves>>
       /\ IF saving.removed /\ s = Scope
          THEN /\ UNCHANGED <<conns, catalog, fresh>>
               /\ Shown(scopeWorkspaceSnapshot(editor, allowed), SavedHistory(s))
               /\ store' = [store EXCEPT ![s] = Written(s)]
          ELSE FollowWorkspaces(kept)

\* The server refused the change, or could not be reached.
SaveFails ==
    /\ saving # Null /\ saving' = Null /\ asked' = FALSE
    /\ UNCHANGED <<conns, catalog, editor, nav, defs, choice, store, fresh, born, moves>>

\* Another session changed the workspaces; this one learns of it.
LoadWorkspaces(ds) ==
    /\ Move /\ born' = IF Len(ds) > Len(defs) THEN born + 1 ELSE born
    /\ ds # defs /\ defs' = ds
    /\ asked' = FALSE /\ UNCHANGED <<choice, saving>>
    /\ FollowWorkspaces(store)

\* The page is loaded again: the snapshot of the scope wins over the copy in
\* sessionStorage, which only the default scope falls back to.  A change the
\* server was saving has reached it or not.
Reload ==
    LET s == ScopeId(defs', choice)
        saved == SavedEditor(s, IF s = Default THEN editor ELSE Empty)
    IN /\ UNCHANGED <<conns, catalog, choice, fresh, born, moves>>
       /\ defs' \in {defs} \cup (IF saving = Null THEN {} ELSE {saving.defs})
       /\ saving' = Null /\ asked' = TRUE
       /\ Shown(scopeWorkspaceSnapshot(saved, selectWorkspaceConnections(conns, defs', s)),
                SavedHistory(s))
       /\ store' = [store EXCEPT ![s] = Written(s)]
-----------------------------------------------------------------------------
TypeOK ==
    /\ conns \subseteq Conns /\ catalog \in [Conns -> {Null} \cup SUBSET Tables]
    /\ editor \in Editor
    /\ nav \in [entries : Seq(Location), cursor : Nat, prev : Id \cup {Null}]
    /\ nav.cursor <= Len(nav.entries)
    /\ defs \in Definitions /\ choice \in Choice /\ saving \in {Null} \cup Saving
    /\ store \in [Workspaces \cup {All} ->
                    {Null} \cup [editor : Editor, entries : Seq(Location), cursor : Nat]]
    /\ fresh \in 0..MaxFresh /\ born \in 0..MaxMoves /\ moves \in 0..MaxMoves
    /\ asked \in BOOLEAN

Init ==
    /\ conns = Conns /\ catalog = [c \in Conns |-> Tables]
    /\ editor = Empty /\ nav = emptyNavigationHistory
    /\ defs = <<[id |-> Default, members |-> Conns]>>
    /\ choice = [active |-> Default, all |-> FALSE] /\ saving = Null
    /\ store = [s \in Workspaces \cup {All} |-> Null]
    /\ fresh = 0 /\ born = 0 /\ moves \in {0, MaxMoves} /\ asked = FALSE

\* What another session can have made of the workspaces.
ElsewhereChanged ==
    ({Without(defs, w) : w \in WorkspaceIds(defs)} \ {<<>>})
    \cup {Append(defs, [id |-> born + 1, members |-> {c}]) : c \in Conns}

OpenStep ==
    \/ \E c \in conns, t \in Tables : openTableTab(c, t) \/ openInNewTab(c, t)
    \/ \E c \in conns : openQueryTab(c)
    \/ \E c \in conns \cap Erds : openErdTab(c)
    \/ \E from, to \in conns : <<from, to>> \in Diffs /\ openDiffTab(from, to)
    \/ \E c \in conns, t \in Tables, from, to \in Cells : FollowReference(c, t, from, to)

TabStep(i) ==
    \/ setActiveTabId(i) \/ duplicateTab(i) \/ closeTab(i)
    \/ closeOtherTabs(i) \/ closeTabsToRight(i)
    \/ \E j \in Positions : reorderTabs(i, j)
    \/ \E dirty \in BOOLEAN : setTabDirty(i, dirty)
    \/ \E cell \in Cells : FocusCell(i, cell)
    \/ \E from, to \in conns : ChangePair(i, from, to)

SourceStep ==
    \/ \E c \in conns : DeleteConnection(c)
    \/ \E cs \in SUBSET Conns : LoadConnections(cs)
    \/ \E c \in conns, ts \in SUBSET Tables : LoadTables(c, ts)

ScopeStep ==
    \/ \E s \in Workspaces \cup {All} : switchNamedWorkspace(s)
    \/ \E w \in Workspaces : DeleteWorkspace(w)
    \/ \E members \in SUBSET Conns : CreateWorkspace(members)
    \/ \E w \in Workspaces, members \in SUBSET Conns : UpdateWorkspace(w, members)
    \/ \E ds \in ElsewhereChanged : LoadWorkspaces(ds)

AnswerStep == WorkspacesSaved \/ SaveFails

EventStep ==
    \/ OpenStep \/ SourceStep \/ ScopeStep \/ closeAllTabs \/ Reload
    \/ \E i \in Positions : TabStep(i)
    \/ \E direction \in {"back", "forward"} : navigateHistory(direction)

Next == EventStep \/ AnswerStep

Spec == Init /\ [][Next]_vars

-----------------------------------------------------------------------------
(* No operation leaves two tabs with one id, a tab whose connection, table  *)
(* or pair is gone, or an active tab that is not open; there is an active   *)
(* tab whenever one is open (useTabs.ts, every commit).                     *)
EditorConsistent ==
    /\ \A i, j \in Positions : i # j => editor.tabs[i].id # editor.tabs[j].id
    /\ \A i \in Positions : Valid(editor.tabs[i], conns, catalog)
    /\ IF editor.tabs = <<>> THEN editor.active = Null
       ELSE editor.active \in IdsOf(editor.tabs)

(* The history holds open tabs only, never more than its limit, and its    *)
(* cursor is at one of them.                                               *)
HistoryOfOpenTabs ==
    /\ Len(nav.entries) <= NavLimit
    /\ \A k \in DOMAIN nav.entries : nav.entries[k].tab \in IdsOf(editor.tabs)
    /\ nav.entries # <<>> => nav.cursor \in DOMAIN nav.entries

\* Back and forward leave from the tab the user is in.
AtActive == nav.entries # <<>> => nav.entries[nav.cursor].tab = editor.active

\* The snapshot holds the tab that was active when it was taken.
Whole(s) ==
    store[s] # Null /\ store[s].entries # <<>> =>
        store[s].entries[store[s].cursor].tab = store[s].editor.active

(* After every step the history holds open tabs and its cursor is at the   *)
(* active one, so that back and forward leave from where the user is.  The *)
(* one way off it is to load a snapshot that left the active tab out, its  *)
(* connection being outside the scope; the cursor is back with the next    *)
(* tab that becomes active (navigationHistory.ts, App.tsx 367-465).        *)
HistoryFollowsEditor ==
    [][/\ HistoryOfOpenTabs'
       /\ \/ AtActive'
          \/ ~AtActive /\ editor'.active = editor.active
          \/ (Reload \/ ScopeStep \/ AnswerStep) /\ ~Whole(Scope')]_vars

(* Whatever the order of switches, changes of the workspaces and edits, the *)
(* snapshot of the scope shown brings back the tabs it shows, in order and  *)
(* with the same one active: a reload at any moment loses none (App.tsx     *)
(* 351-421, namedWorkspaces.ts 128-253).                                    *)
ReloadKeepsTabs ==
    LET allowed == selectWorkspaceConnections(conns, defs, Scope)
    IN store[Scope] # Null =>
         scopeWorkspaceSnapshot(store[Scope].editor, allowed)
            = scopeWorkspaceSnapshot(editor, allowed)

(* A step writes the snapshot of the scope it leaves and of the one it      *)
(* enters and no other, so one workspace's tabs never reach another's       *)
(* snapshot; a deleted workspace's snapshot may go.                         *)
OtherScopesUntouched ==
    [][\A s \in DOMAIN store :
         s \notin {Scope, Scope'} => store'[s] \in {store[s], Null}]_vars

(* A tab with staged changes or an open transaction goes only with the      *)
(* user's consent, or because what it shows is gone, or because another     *)
(* session deleted the workspace that was shown (useTabs.ts close*, App.tsx *)
(* 476-480, 937-968).  The consent to a change of the workspaces is asked   *)
(* before it is saved: what is staged while the server saves it goes with   *)
(* the answer unasked, when the change was to leave the scope or the user   *)
(* has left it meanwhile (App.tsx 553-566).                                 *)
NoSilentDiscard ==
    [][\A i \in Positions :
         editor.tabs[i].dirty /\ editor.tabs[i].id \notin IdsOf(editor'.tabs) =>
            \/ asked'
            \/ ~Valid(editor.tabs[i], conns', catalog')
            \/ /\ \E ds \in ElsewhereChanged : LoadWorkspaces(ds)
               /\ ~choice.all /\ ActiveId(defs, choice) \notin WorkspaceIds(defs')
            \/ WorkspacesSaved /\ (saving.changes \/ saving.scope # Scope)]_vars
=============================================================================
