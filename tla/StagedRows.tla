----------------------------- MODULE StagedRows -----------------------------
(***************************************************************************)
(* Staged changes of a table tab: rows edited, added and deleted in        *)
(* components/grid/DataGrid.tsx stay drafts (lib/rowDrafts.ts) until they  *)
(* are submitted one by one, while the page of rows below them is read     *)
(* again after each write (hooks/usePebblebaseStudio.ts) and other clients *)
(* write the same table.                                                   *)
(*                                                                         *)
(* The table has a primary key and the connection is writable: otherwise   *)
(* nothing is staged.  A row is identified by its key, which no edit       *)
(* changes and the database gives to a new row; a staged new row by the    *)
(* random id it gets.  A submission takes its drafts in any order, and one *)
(* step of it ends at an await.                                            *)
(***************************************************************************)
EXTENDS Naturals, FiniteSets

CONSTANTS
    Keys,       \* primary keys, and so the draft ids of stored rows
    News,       \* random ids of staged new rows
    Cols, Vals, \* the other columns and what they can hold
    None,       \* no row yet, no draft, no call, no dialog
    Gone,       \* a row that was deleted
    Importing   \* the import dialog

VARIABLES
    stored,     \* the table in the database
    rows,       \* the page of rows the client holds
    drafts,     \* rowDrafts
    batch,      \* the captured drafts a submission still has to commit
    call,       \* the write request under way
    reading,    \* the read of the rows under way, with its answer or None
    refreshing, \* isRefreshing
    modal,      \* the dialog over the grid: the row it was opened with
    held,       \* the row that an open menu or value panel captured
    inserts,    \* what became of the id of each staged new row
    unseen,     \* rows changed by a write the client was not told of
    asked       \* whether the last step had the user's consent to discard

vars == <<stored, rows, drafts, batch, call, reading, refreshing, modal, held, inserts, unseen, asked>>

Ids == Keys \cup News
Rows == [Cols -> Vals]
Tables == [Keys -> Rows \cup {None, Gone}]
Draft == [original : Rows \cup {None}, current : Rows, deleted : BOOLEAN, inserted : BOOLEAN]
Drafts == [Ids -> Draft \cup {None}]
Call == [id : Ids, draft : Draft, key : Keys \cup {None}, state : {"sent", "done", "refused"}]
Modal == [id : Ids, cells : Rows]
Row == [id : Ids, cells : Rows, isNew : BOOLEAN] \* as displayed: _pb_draft_id, _pb_draft_inserted
Reading == [answer : Tables \cup {None}]

ASSUME StagedRowsAssumption ==
    /\ Keys \cap News = {} /\ Cols # {} /\ Vals # {}
    /\ None \notin Keys \cup News /\ Gone # None /\ Importing # None
    /\ None \notin Rows /\ None \notin Draft /\ None \notin Call /\ None \notin Reading
    /\ None \notin Row

NoDrafts == [id \in Ids |-> None]
Exists(table, k) == table[k] \notin {None, Gone}
isSubmittingDrafts == batch # NoDrafts
-----------------------------------------------------------------------------
(* What the grid shows: the rows it holds, each under its draft, and the   *)
(* staged new ones.                                                        *)

Shows(id) ==
    IF id \in Keys THEN Exists(rows, id)
    ELSE drafts[id] # None /\ drafts[id].inserted

Cells(id) == IF drafts[id] # None THEN drafts[id].current ELSE rows[id]

Staged(id, draft) == drafts' = [drafts EXCEPT ![id] = draft]
Unstaged(id) == Staged(id, None)

OriginalOf(id, cells) ==
    IF drafts[id] = None \/ drafts[id].original = None THEN cells ELSE drafts[id].original

IsNew(id) == drafts[id] # None /\ drafts[id].inserted
Displayed(id) == [id |-> id, cells |-> Cells(id), isNew |-> IsNew(id)]

\* A cell of a row as it was displayed: the draft goes before what was captured,
\* whether the row is new included.  Going back to the original values takes the
\* draft away.
stageCellValue(row, col, val) ==
    LET draft == drafts[row.id]
        isNew == IF draft # None THEN draft.inserted ELSE row.isNew
        original == IF isNew THEN None ELSE OriginalOf(row.id, row.cells)
        current == [IF draft # None THEN draft.current ELSE row.cells EXCEPT ![col] = val]
    IN /\ IF current = original THEN Unstaged(row.id)
          ELSE Staged(row.id, [original |-> original, current |-> current,
                               deleted |-> FALSE, inserted |-> isNew])
       /\ inserts' = [id \in News |-> IF id = row.id /\ isNew /\ inserts[id] = "saved"
                                      THEN "reopened" ELSE inserts[id]]
       /\ asked' = (current = original)

\* A cell is edited in place.
EditCell(id, col, val) ==
    /\ modal = None /\ Shows(id)
    /\ stageCellValue(Displayed(id), col, val)
    /\ UNCHANGED <<stored, rows, batch, call, reading, refreshing, modal, unseen, held>>

\* The row was on the grid, in a menu or in the dialog when the user deleted it.
stageDeleteRow(id, cells) ==
    /\ IF IsNew(id) THEN Unstaged(id)
       ELSE Staged(id, [original |-> OriginalOf(id, cells),
                        current |-> IF drafts[id] = None THEN cells ELSE drafts[id].current,
                        deleted |-> TRUE, inserted |-> FALSE])
    /\ asked' = IsNew(id)

DeleteShown(id) ==
    /\ modal = None /\ Shows(id)
    /\ stageDeleteRow(id, Cells(id))
    /\ UNCHANGED <<stored, rows, batch, call, reading, refreshing, modal, inserts, unseen, held>>

\* A row is added or duplicated: the dialog gives all of its values.
AddRow(id, values) ==
    /\ modal = None /\ id \in News /\ inserts[id] = "unused"
    /\ Staged(id, [original |-> None, current |-> values, deleted |-> FALSE, inserted |-> TRUE])
    /\ inserts' = [inserts EXCEPT ![id] = "staged"]
    /\ asked' = FALSE
    /\ UNCHANGED <<stored, rows, batch, call, reading, refreshing, modal, unseen, held>>

\* Mutant: the dialog opens for a row that is no longer shown.
handleOpenRowModal_stale(id) ==
    /\ modal = None /\ id \in Keys
    /\ modal' = [id |-> id, cells |-> rows[id]]
    /\ asked' = FALSE
    /\ UNCHANGED <<stored, rows, drafts, batch, call, reading, refreshing, inserts, unseen, held>>

\* The edit dialog keeps the row it was opened with; a submission goes on
\* under it.
handleOpenRowModal(id) ==
    /\ modal = None /\ Shows(id)
    /\ modal' = [id |-> id, cells |-> Cells(id)]
    /\ asked' = FALSE
    /\ UNCHANGED <<stored, rows, drafts, batch, call, reading, refreshing, inserts, unseen, held>>

\* Mutant: a row is new when it carries the id of a new row.
stageWholeRow_byId(id, cells, values) ==
    Staged(id, [original |-> IF id \in News THEN None ELSE OriginalOf(id, cells),
                current |-> values, deleted |-> FALSE, inserted |-> id \in News])

stageWholeRow(id, cells, values) ==
    Staged(id, [original |-> OriginalOf(id, cells), current |-> values, deleted |-> FALSE,
                inserted |-> IsNew(id)])

SaveModal(values) ==
    /\ modal \notin {None, Importing}
    /\ stageWholeRow(modal.id, modal.cells, values)
    /\ modal' = None /\ asked' = FALSE
    /\ UNCHANGED <<stored, rows, batch, call, reading, refreshing, inserts, unseen, held>>

DeleteInModal ==
    /\ modal \notin {None, Importing}
    /\ stageDeleteRow(modal.id, modal.cells)
    /\ modal' = None
    /\ UNCHANGED <<stored, rows, batch, call, reading, refreshing, inserts, unseen, held>>

CloseModal ==
    /\ modal # None
    /\ modal' = None /\ asked' = FALSE
    /\ UNCHANGED <<stored, rows, drafts, batch, call, reading, refreshing, inserts, unseen, held>>

-----------------------------------------------------------------------------
(* A row captured: the context menu keeps the one it was opened on, and the *)
(* value panel the last one it showed when its place on the grid is empty.  *)
(* A submission, its shortcut or its button, goes on beside them.           *)

HoldRow(id) ==
    /\ modal = None /\ Shows(id)
    /\ held' = Displayed(id) /\ asked' = FALSE
    /\ UNCHANGED <<stored, rows, drafts, batch, call, reading, refreshing, modal, inserts, unseen>>

ReleaseRow ==
    /\ modal = None /\ held # None
    /\ held' = None /\ asked' = FALSE
    /\ UNCHANGED <<stored, rows, drafts, batch, call, reading, refreshing, modal, inserts, unseen>>

EditHeld(col, val) ==
    /\ modal = None /\ held # None
    /\ stageCellValue(held, col, val)
    /\ UNCHANGED <<stored, rows, batch, call, reading, refreshing, modal, unseen, held>>

DeleteHeld ==
    /\ modal = None /\ held # None
    /\ stageDeleteRow(held.id, held.cells)
    /\ UNCHANGED <<stored, rows, batch, call, reading, refreshing, modal, inserts, unseen, held>>

OpenHeld ==
    /\ modal = None /\ held # None
    /\ modal' = [id |-> held.id, cells |-> held.cells]
    /\ asked' = FALSE
    /\ UNCHANGED <<stored, rows, drafts, batch, call, reading, refreshing, inserts, unseen, held>>

-----------------------------------------------------------------------------
(* Submission.                                                             *)

\* Captures the drafts; a second submission waits for the first.
submitDrafts ==
    /\ modal = None /\ drafts # NoDrafts /\ ~isSubmittingDrafts
    /\ batch' = drafts
    /\ asked' = FALSE
    /\ UNCHANGED <<stored, rows, drafts, call, reading, refreshing, modal, inserts, unseen, held>>

Changed(d) == {c \in Cols : d.original = None \/ d.current[c] # d.original[c]}

\* Mutant: the whole row is written.
CommitValues_all(d) == Cols

\* The columns a commit of the draft writes.
CommitValues(d) == IF d.inserted THEN Cols ELSE Changed(d)

HasCall(d) == d.deleted \/ CommitValues(d) # {}

CommitRow(id) ==
    /\ call = None /\ batch[id] # None
    /\ IF HasCall(batch[id])
       THEN /\ call' = [id |-> id, draft |-> batch[id], key |-> None, state |-> "sent"]
            /\ UNCHANGED <<drafts, batch>>
       ELSE Unstaged(id) /\ batch' = [batch EXCEPT ![id] = None] /\ UNCHANGED call
    /\ asked' = FALSE
    /\ UNCHANGED <<stored, rows, reading, refreshing, modal, inserts, unseen, held>>

\* The request inserts when the draft has no original row; otherwise it
\* updates or deletes where the key is that of the row.
IsInsert(d) == ~d.deleted /\ d.original = None

Applied(k, d) ==
    [stored EXCEPT ![k] =
        IF IsInsert(d) THEN d.current
        ELSE IF ~Exists(stored, k) THEN @
        ELSE IF d.deleted THEN Gone
        ELSE [c \in Cols |-> IF c \in CommitValues(d) THEN d.current[c] ELSE @[c]]]

\* The database executes the request.  No row with the key is no error.
ServerApplies(k) ==
    /\ call # None /\ call.state = "sent"
    /\ IF IsInsert(call.draft) THEN stored[k] = None ELSE k = call.id
    /\ stored' = Applied(k, call.draft)
    /\ call' = [call EXCEPT !.state = "done", !.key = k]
    /\ asked' = FALSE
    /\ UNCHANGED <<rows, drafts, batch, reading, refreshing, modal, inserts, unseen, held>>

\* The server refuses it: a constraint, no connection, or, when the row has
\* no key, an empty "where".
ServerRefuses ==
    /\ call # None /\ call.state = "sent"
    /\ call' = [call EXCEPT !.state = "refused"]
    /\ asked' = FALSE
    /\ UNCHANGED <<stored, rows, drafts, batch, reading, refreshing, modal, inserts, unseen, held>>

\* Mutant: a read that is under way is left to finish.
invalidateTableRows_joins == reading' = IF reading = None THEN [answer |-> None] ELSE reading

\* A successful write reads the rows again, whatever was being read.
invalidateTableRows == reading' = [answer |-> None]

Committed ==
    /\ call # None /\ call.state = "done"
    /\ Unstaged(call.id)
    /\ inserts' = [id \in News |->
                     IF id = call.id /\ IsInsert(call.draft) THEN "saved" ELSE inserts[id]]
    /\ invalidateTableRows
    /\ batch' = [batch EXCEPT ![call.id] = None]
    /\ call' = None /\ asked' = FALSE
    /\ UNCHANGED <<stored, rows, refreshing, modal, unseen, held>>

\* Mutant: the draft goes although the call failed.
CommitFails_drops ==
    /\ call # None /\ call.state # "sent"
    /\ Unstaged(call.id)
    /\ unseen' = IF call.state = "done" THEN unseen \cup {call.key} ELSE unseen
    /\ batch' = [batch EXCEPT ![call.id] = None]
    /\ call' = None /\ asked' = FALSE
    /\ UNCHANGED <<stored, rows, reading, refreshing, modal, inserts, held>>

\* Mutant: the submission tries the draft again.
CommitFails_retries ==
    /\ call # None /\ call.state # "sent"
    /\ unseen' = IF call.state = "done" THEN unseen \cup {call.key} ELSE unseen
    /\ call' = None /\ asked' = FALSE
    /\ UNCHANGED <<stored, rows, drafts, batch, reading, refreshing, modal, inserts, held>>

\* The call fails, before or after the database executed it: the draft stays.
CommitFails ==
    /\ call # None /\ call.state # "sent"
    /\ unseen' = IF call.state = "done" THEN unseen \cup {call.key} ELSE unseen
    /\ batch' = [batch EXCEPT ![call.id] = None]
    /\ call' = None /\ asked' = FALSE
    /\ UNCHANGED <<stored, rows, drafts, reading, refreshing, modal, inserts, held>>

-----------------------------------------------------------------------------
(* Giving the drafts up.                                                   *)

Discard ==
    /\ modal = None
    /\ drafts' = NoDrafts
    /\ asked' = (drafts # NoDrafts)

\* The button is disabled during a submission.
revertDrafts ==
    /\ drafts # NoDrafts /\ ~isSubmittingDrafts
    /\ Discard
    /\ UNCHANGED <<stored, rows, batch, call, reading, refreshing, modal, inserts, unseen, held>>

handleRefresh ==
    /\ ~refreshing
    /\ Discard
    /\ refreshing' = TRUE /\ invalidateTableRows
    /\ UNCHANGED <<stored, rows, batch, call, modal, inserts, unseen, held>>

RefreshEnds ==
    /\ refreshing
    /\ refreshing' = FALSE /\ asked' = FALSE
    /\ UNCHANGED <<stored, rows, drafts, batch, call, reading, modal, inserts, unseen, held>>

OpenImport ==
    /\ Discard
    /\ modal' = Importing
    /\ UNCHANGED <<stored, rows, batch, call, reading, refreshing, inserts, unseen, held>>

ImportSucceeds(k, cells) ==
    /\ modal = Importing /\ stored[k] = None
    /\ stored' = [stored EXCEPT ![k] = cells]
    /\ invalidateTableRows /\ asked' = FALSE
    /\ UNCHANGED <<rows, drafts, batch, call, refreshing, modal, inserts, unseen, held>>

-----------------------------------------------------------------------------
(* The rows.                                                               *)

ServerReads ==
    /\ reading # None /\ reading.answer = None
    /\ reading' = [answer |-> stored] /\ asked' = FALSE
    /\ UNCHANGED <<stored, rows, drafts, batch, call, refreshing, modal, inserts, unseen, held>>

RowsArrive ==
    /\ reading # None /\ reading.answer # None
    /\ rows' = reading.answer
    /\ unseen' = {k \in unseen : reading.answer[k] # stored[k]}
    /\ reading' = None /\ asked' = FALSE
    /\ UNCHANGED <<stored, drafts, batch, call, refreshing, modal, inserts, held>>

ReadFails ==
    /\ reading # None
    /\ reading' = None /\ unseen' = Keys /\ asked' = FALSE
    /\ UNCHANGED <<stored, rows, drafts, batch, call, refreshing, modal, inserts, held>>

\* Another client inserts, changes or deletes a row.
ForeignWrite(k, cells) ==
    /\ stored[k] # Gone
    /\ cells = Gone => Exists(stored, k)
    /\ stored' = [stored EXCEPT ![k] = cells]
    /\ unseen' = unseen \cup {k} /\ asked' = FALSE
    /\ UNCHANGED <<rows, drafts, batch, call, reading, refreshing, modal, inserts, held>>
-----------------------------------------------------------------------------
TypeOK ==
    /\ stored \in Tables /\ rows \in Tables
    /\ drafts \in Drafts /\ batch \in Drafts
    /\ call \in Call \cup {None}
    /\ reading \in Reading \cup {None}
    /\ refreshing \in BOOLEAN /\ asked \in BOOLEAN
    /\ modal \in Modal \cup {None, Importing}
    /\ held \in Row \cup {None}
    /\ inserts \in [News -> {"unused", "staged", "saved", "reopened"}]
    /\ unseen \subseteq Keys

\* The rows are loaded and nothing is staged.
Init ==
    /\ stored \in Tables /\ rows = stored
    /\ drafts = NoDrafts /\ batch = NoDrafts /\ call = None
    /\ reading = None /\ refreshing = FALSE /\ modal = None /\ held = None
    /\ inserts = [id \in News |-> "unused"]
    /\ unseen = {} /\ asked = FALSE

StageStep ==
    \/ \E id \in Ids, col \in Cols, val \in Vals : EditCell(id, col, val)
    \/ \E id \in Ids : DeleteShown(id) \/ handleOpenRowModal(id) \/ HoldRow(id)
    \/ \E id \in News, values \in Rows : AddRow(id, values)
    \/ \E values \in Rows : SaveModal(values)
    \/ DeleteInModal \/ CloseModal
    \/ \E col \in Cols, val \in Vals : EditHeld(col, val)
    \/ DeleteHeld \/ OpenHeld \/ ReleaseRow
    \/ revertDrafts \/ handleRefresh \/ OpenImport

ImportStep == \E k \in Keys, cells \in Rows : ImportSucceeds(k, cells)
ForeignStep == \E k \in Keys, cells \in Rows \cup {Gone} : ForeignWrite(k, cells)

CommitStep ==
    \/ \E id \in Ids : CommitRow(id)
    \/ \E k \in Keys : ServerApplies(k)
    \/ ServerRefuses \/ Committed \/ CommitFails

ReadStep == ServerReads \/ RowsArrive \/ ReadFails \/ RefreshEnds

Next == StageStep \/ submitDrafts \/ CommitStep \/ ReadStep \/ ImportStep \/ ForeignStep

\* The browser ends every call, with an answer or with an error.
Spec == Init /\ [][Next]_vars /\ WF_vars(CommitStep)

-----------------------------------------------------------------------------
(* A staged change leaves the grid only when the user gives it up or puts   *)
(* the old values back, or when a submission that captured it has written   *)
(* its row (or found nothing to write): never because a call failed or      *)
(* rows were read again (DataGrid.tsx:570-634, 655-751).                    *)
LeavesOnlyCommitted ==
    [][\A id \in Ids : drafts[id] # None /\ drafts'[id] = None =>
         \/ asked'
         \/ /\ batch[id] # None
            /\ HasCall(batch[id]) => call.id = id /\ call.state = "done"]_vars

(* A commit never puts back a cell's old value: what another client wrote   *)
(* to a cell since the row was read is overwritten only where the user      *)
(* staged a different value (DataGrid.tsx:589-601, rowDrafts.ts:32-47).     *)
OthersCellsKept ==
    [][call # None /\ call.state = "sent" /\ stored' # stored /\ call' # call /\ ~IsInsert(call.draft) =>
         \A k \in Keys : Exists(stored', k) =>
            \A c \in Cols : stored'[k][c] # stored[k][c] =>
               call.draft.original[c] # stored'[k][c]]_vars

(* A new row whose insertion was acknowledged is not submitted as a new row *)
(* again, also not by an edit dialog opened before it was saved, unless a   *)
(* cell of it was staged through a menu or a value panel that had captured  *)
(* it as new before: the row is then a new one once more                    *)
(* (rowDrafts.ts:33, DataGrid.tsx:469-509, 603-607, 3117-3155, 3235).       *)
SavedOnce ==
    \A id \in News : inserts[id] = "saved" =>
        \A ds \in {drafts, batch} : ds[id] = None \/ ~IsInsert(ds[id])

(* With no read and no write under way, the rows shown are those of the     *)
(* database, except where another client or a call whose answer was lost    *)
(* changed it: a read that began before a commit never has the last word    *)
(* (usePebblebaseStudio.ts:301-390).                                        *)
ReadsOwnWrites ==
    reading = None /\ (call = None \/ call.state # "done") =>
        \A k \in Keys \ unseen : rows[k] = stored[k]

(* A submission ends, whatever is staged while it runs and whichever of its *)
(* calls fail (DataGrid.tsx:583-626).                                       *)
SubmissionEnds == isSubmittingDrafts ~> ~isSubmittingDrafts

(* The draft that a submission drops is the one it wrote: when the pending  *)
(* marker goes, the database holds what the cell showed                     *)
(* (web/e2e/flow2-datagrid.spec.ts:74, DataGrid.tsx:603-607).               *)
MarkerGoesWhenSaved ==
    [][\A id \in Ids : drafts[id] # None /\ drafts'[id] = None /\ ~asked' =>
         drafts[id] = batch[id]]_vars
=============================================================================
