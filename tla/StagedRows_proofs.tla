--------------------------- MODULE StagedRows_proofs ---------------------------
(***************************************************************************)
(* Proofs about StagedRows, for tables, drafts and values of any number:   *)
(* its type invariant; that a staged row is dropped only when it was       *)
(* written or given up, is added once unless it is staged again through a  *)
(* row captured before, and writes nothing but what was staged; and that   *)
(* the rows shown are those of the last own write.                         *)
(***************************************************************************)
EXTENDS StagedRows, TLAPS

-----------------------------------------------------------------------------
(* The inductive invariant.                                                *)

\* A draft is of a new row when it says so, until the row is saved, and a
\* draft without an original row is of a new one.
Fits(id, d) == d # None =>
    /\ d.inserted => id \in News /\ inserts[id] # "saved"
    /\ d.original = None => d.inserted

DraftsFit == \A id \in Ids : Fits(id, drafts[id]) /\ Fits(id, batch[id])

\* The call writes a draft that the submission still has to commit.
CallOfBatch == call # None =>
    /\ batch[call.id] = call.draft /\ batch[call.id] # None
    /\ call.state = "done" => call.key \in Keys

\* The database executed a write of the row that the client was not told of yet.
Untold(k) == call # None /\ call.state = "done" /\ call.key = k

\* What is read, or was read last, is what the database holds, for the rows
\* that nobody else wrote.
RowsFollow == \A k \in Keys \ unseen :
    /\ reading = None => rows[k] = stored[k] \/ Untold(k)
    /\ reading # None => reading.answer = None \/ reading.answer[k] = stored[k] \/ Untold(k)

\* A row that was captured as new has the id of a new one, saved since or not.
HeldFits == held # None /\ held.isNew => held.id \in News

IInv == TypeOK /\ DraftsFit /\ HeldFits /\ CallOfBatch /\ RowsFollow
-----------------------------------------------------------------------------
(* Drafts.                                                                 *)

\* None is no row, displayed or not, no draft, no call and no read.
LEMMA NoneIsNothing ==
    None \notin Rows /\ None \notin Draft /\ None \notin Call /\ None \notin Reading /\ None \notin Row
  BY StagedRowsAssumption

\* A row that the grid shows has cells.
LEMMA CellsAreARow ==
    ASSUME TypeOK, NEW id \in Ids, Shows(id)
    PROVE  Cells(id) \in Rows
  <1>1. drafts[id] # None => drafts[id] \in Draft
    BY DEF TypeOK, Drafts
  <1>2. CASE drafts[id] # None
    BY <1>1, <1>2 DEF Cells, Draft
  <1>3. CASE drafts[id] = None
    <2>1. id \in Keys /\ Exists(rows, id)
      BY <1>3 DEF Shows, Ids
    <2> QED BY <1>3, <2>1 DEF Cells, Exists, TypeOK, Tables
  <1> QED BY <1>2, <1>3

\* It is displayed as new when its draft is of a new row.
LEMMA DisplayedIsARow ==
    ASSUME IInv, NEW id \in Ids, Shows(id)
    PROVE  /\ Displayed(id) \in Row /\ Displayed(id).id = id
           /\ Displayed(id).isNew => id \in News
  <1>1. Cells(id) \in Rows
    BY CellsAreARow DEF IInv
  <1>2. IsNew(id) \in BOOLEAN
    BY DEF IsNew, IInv, TypeOK, Drafts, Draft
  <1>3. IsNew(id) => id \in News
    BY DEF IsNew, IInv, DraftsFit, Fits
  <1> QED BY <1>1, <1>2, <1>3 DEF Displayed, Row

\* Staging a stored row gives its draft an original row.
LEMMA OriginalIsARow ==
    ASSUME TypeOK, NEW id \in Ids, NEW cells \in Rows
    PROVE  OriginalOf(id, cells) \in Rows
  <1>1. drafts[id] # None => drafts[id] \in Draft
    BY DEF TypeOK, Drafts
  <1> QED BY <1>1 DEF OriginalOf, Draft

\* A draft that fits keeps all of them fitting.
LEMMA StagedFits ==
    ASSUME IInv, NEW id \in Ids, NEW d \in Draft \cup {None}, Fits(id, d), Staged(id, d)
    PROVE  drafts' \in Drafts /\ \A i \in Ids : Fits(i, drafts'[i])
  BY DEF IInv, TypeOK, Drafts, DraftsFit, Staged

\* A step that only changes drafts, the dialog and the captured row.
LEMMA StagingStep ==
    ASSUME IInv, drafts' \in Drafts, \A i \in Ids : Fits(i, drafts'[i]),
           modal' \in Modal \cup {None, Importing}, asked' \in BOOLEAN,
           held' \in Row \cup {None}, HeldFits',
           UNCHANGED <<stored, rows, batch, call, reading, refreshing, inserts, unseen>>
    PROVE  IInv'
  <1>1. TypeOK'
    BY DEF IInv, TypeOK
  <1>2. DraftsFit' /\ CallOfBatch'
    BY DEF IInv, DraftsFit, Fits, CallOfBatch
  <1>3. RowsFollow'
    BY DEF IInv, RowsFollow, Untold
  <1> QED BY <1>1, <1>2, <1>3 DEF IInv

\* The same when no row is captured or let go.
LEMMA UnheldStep ==
    ASSUME IInv, drafts' \in Drafts, \A i \in Ids : Fits(i, drafts'[i]),
           modal' \in Modal \cup {None, Importing}, asked' \in BOOLEAN,
           UNCHANGED <<stored, rows, batch, call, reading, refreshing, inserts, unseen, held>>
    PROVE  IInv'
  <1>1. held' \in Row \cup {None} /\ HeldFits'
    BY DEF IInv, TypeOK, HeldFits
  <1> QED BY <1>1, StagingStep

\* A cell staged through a row, displayed or captured: a row that was saved
\* and is new once more is no longer one that was saved.
LEMMA CellStages ==
    ASSUME IInv, NEW row \in Row, row.isNew => row.id \in News,
           NEW col \in Cols, NEW val \in Vals, stageCellValue(row, col, val),
           UNCHANGED <<stored, rows, batch, call, reading, refreshing, modal, unseen, held>>
    PROVE  IInv'
  <1> DEFINE id == row.id
             draft == drafts[id]
             isNew == IF draft # None THEN draft.inserted ELSE row.isNew
             original == IF isNew THEN None ELSE OriginalOf(id, row.cells)
             current == [IF draft # None THEN draft.current ELSE row.cells EXCEPT ![col] = val]
             d == [original |-> original, current |-> current, deleted |-> FALSE, inserted |-> isNew]
  <1>1. TypeOK /\ id \in Ids /\ row.cells \in Rows /\ row.isNew \in BOOLEAN
    BY DEF IInv, Row
  <1>2. draft # None => draft \in Draft
    BY <1>1 DEF TypeOK, Drafts
  <1>3. OriginalOf(id, row.cells) \in Rows /\ OriginalOf(id, row.cells) # None
    BY <1>1, OriginalIsARow, NoneIsNothing
  <1>4. isNew \in BOOLEAN /\ original \in Rows \cup {None} /\ (original = None => isNew)
    BY <1>1, <1>2, <1>3 DEF Draft
  <1>5. current \in Rows
    <2>1. (IF draft # None THEN draft.current ELSE row.cells) \in Rows
      BY <1>1, <1>2 DEF Draft
    <2> QED BY <2>1 DEF Rows
  <1>6. isNew => id \in News
    BY <1>1 DEF IInv, DraftsFit, Fits
  <1>7. d \in Draft /\ d.inserted = isNew /\ d.original = original
    BY <1>4, <1>5 DEF Draft
  <1>8. /\ inserts' = [i \in News |-> IF i = id /\ isNew /\ inserts[i] = "saved"
                                     THEN "reopened" ELSE inserts[i]]
        /\ asked' = (current = original)
        /\ Staged(id, d) \/ Staged(id, None)
    BY DEF stageCellValue, Unstaged
  <1> HIDE DEF d, isNew, original, current
  <1>9. /\ inserts' \in [News -> {"unused", "staged", "saved", "reopened"}]
        /\ \A i \in News : inserts'[i] = "saved" => inserts[i] = "saved" /\ ~(i = id /\ isNew)
    BY <1>8 DEF IInv, TypeOK
  <1>10. /\ drafts' \in Drafts /\ drafts'[id] \in {d, None}
         /\ \A i \in Ids : i # id => drafts'[i] = drafts[i]
    BY <1>1, <1>7, <1>8 DEF Staged, TypeOK, Drafts
  <1>11. TypeOK'
    BY <1>1, <1>8, <1>9, <1>10 DEF TypeOK
  <1>12. DraftsFit'
    <2>1. \A i \in Ids : Fits(i, batch[i])'
      BY <1>9 DEF IInv, DraftsFit, Fits
    <2>2. Fits(id, drafts[id])'
      BY <1>4, <1>6, <1>7, <1>9, <1>10 DEF Fits
    <2>3. \A i \in Ids : i # id => Fits(i, drafts[i])'
      BY <1>9, <1>10 DEF IInv, DraftsFit, Fits
    <2> QED BY <1>1, <2>1, <2>2, <2>3 DEF DraftsFit
  <1>13. HeldFits' /\ CallOfBatch' /\ RowsFollow'
    BY DEF IInv, HeldFits, CallOfBatch, RowsFollow, Untold
  <1> QED BY <1>11, <1>12, <1>13 DEF IInv

\* A cell is edited in place, or through the captured row.
LEMMA CellStep ==
    ASSUME IInv, NEW col \in Cols, NEW val \in Vals,
           EditHeld(col, val) \/ \E id \in Ids : EditCell(id, col, val)
    PROVE  IInv'
  <1>1. ASSUME NEW id \in Ids, EditCell(id, col, val) PROVE IInv'
    BY <1>1, DisplayedIsARow, CellStages DEF EditCell
  <1>2. CASE EditHeld(col, val)
    <2>1. held \in Row /\ (held.isNew => held.id \in News)
      BY <1>2 DEF EditHeld, IInv, TypeOK, HeldFits
    <2> QED BY <1>2, <2>1, CellStages DEF EditHeld
  <1> QED BY <1>1, <1>2

\* A row is marked as deleted, or a new one taken away.
LEMMA DeleteFits ==
    ASSUME IInv, NEW id \in Ids, NEW cells \in Rows, stageDeleteRow(id, cells)
    PROVE  drafts' \in Drafts /\ \A i \in Ids : Fits(i, drafts'[i])
  <1> DEFINE d == [original |-> OriginalOf(id, cells),
                   current |-> IF drafts[id] = None THEN cells ELSE drafts[id].current,
                   deleted |-> TRUE, inserted |-> FALSE]
  <1>1. OriginalOf(id, cells) \in Rows
    BY OriginalIsARow DEF IInv
  <1>2. d \in Draft
    BY <1>1 DEF IInv, TypeOK, Drafts, Draft
  <1>3. Fits(id, d) /\ Fits(id, None)
    BY <1>1, NoneIsNothing DEF Fits
  <1>4. Staged(id, d) \/ Staged(id, None)
    BY DEF stageDeleteRow, Unstaged
  <1> QED BY <1>2, <1>3, <1>4, StagedFits

\* A row is deleted on the grid.
LEMMA DeleteShownStep == ASSUME IInv, NEW id \in Ids, DeleteShown(id) PROVE IInv'
  <1>1. Cells(id) \in Rows
    BY CellsAreARow DEF IInv, DeleteShown
  <1>2. drafts' \in Drafts /\ \A i \in Ids : Fits(i, drafts'[i])
    BY <1>1, DeleteFits DEF DeleteShown
  <1>3. asked' \in BOOLEAN
    BY DEF DeleteShown, stageDeleteRow, IsNew, IInv, TypeOK, Drafts, Draft
  <1> QED BY <1>2, <1>3, UnheldStep DEF DeleteShown, IInv, TypeOK

\* A captured row is deleted.
LEMMA DeleteHeldStep == ASSUME IInv, DeleteHeld PROVE IInv'
  <1>1. held.id \in Ids /\ held.cells \in Rows
    BY DEF DeleteHeld, IInv, TypeOK, Row
  <1>2. drafts' \in Drafts /\ \A i \in Ids : Fits(i, drafts'[i])
    BY <1>1, DeleteFits DEF DeleteHeld
  <1>3. asked' \in BOOLEAN
    BY <1>1 DEF DeleteHeld, stageDeleteRow, IsNew, IInv, TypeOK, Drafts, Draft
  <1> QED BY <1>2, <1>3, UnheldStep DEF DeleteHeld, IInv, TypeOK

\* A row is deleted in the dialog it was opened in.
LEMMA DeleteInModalStep == ASSUME IInv, DeleteInModal PROVE IInv'
  <1>1. modal.id \in Ids /\ modal.cells \in Rows
    BY DEF DeleteInModal, IInv, TypeOK, Modal
  <1>2. drafts' \in Drafts /\ \A i \in Ids : Fits(i, drafts'[i])
    BY <1>1, DeleteFits DEF DeleteInModal
  <1>3. asked' \in BOOLEAN
    BY <1>1 DEF DeleteInModal, stageDeleteRow, IsNew, IInv, TypeOK, Drafts, Draft
  <1> QED BY <1>2, <1>3, UnheldStep DEF DeleteInModal

\* A row is saved in the dialog it was opened in.
LEMMA SaveModalStep == ASSUME IInv, NEW values \in Rows, SaveModal(values) PROVE IInv'
  <1> DEFINE id == modal.id
             d == [original |-> OriginalOf(id, modal.cells), current |-> values, deleted |-> FALSE,
                   inserted |-> IsNew(id)]
  <1>1. id \in Ids /\ modal.cells \in Rows
    BY DEF SaveModal, IInv, TypeOK, Modal
  <1>2. OriginalOf(id, modal.cells) \in Rows
    BY <1>1, OriginalIsARow DEF IInv
  <1>3. d.inserted \in BOOLEAN
    BY <1>1 DEF IsNew, IInv, TypeOK, Drafts, Draft
  <1>4. d \in Draft
    BY <1>2, <1>3 DEF Draft
  <1>5. Fits(id, d)
    BY <1>1, <1>2, NoneIsNothing DEF Fits, IsNew, IInv, DraftsFit
  <1>6. Staged(id, d)
    BY DEF SaveModal, stageWholeRow
  <1>7. drafts' \in Drafts /\ \A i \in Ids : Fits(i, drafts'[i])
    <2> HIDE DEF d
    <2> QED BY <1>1, <1>4, <1>5, <1>6, StagedFits
  <1> QED BY <1>7, UnheldStep DEF SaveModal

\* The dialog is opened, on a row shown or captured, or closed.
LEMMA ModalStep ==
    ASSUME IInv, CloseModal \/ OpenHeld \/ \E id \in Ids : handleOpenRowModal(id) PROVE IInv'
  <1>1. \A id \in Ids : Shows(id) => [id |-> id, cells |-> Cells(id)] \in Modal
    BY CellsAreARow DEF IInv, Modal
  <1>2. held # None => [id |-> held.id, cells |-> held.cells] \in Modal
    BY DEF IInv, TypeOK, Row, Modal
  <1>3. modal' \in Modal \cup {None, Importing} /\ asked' \in BOOLEAN
    BY <1>1, <1>2 DEF CloseModal, OpenHeld, handleOpenRowModal
  <1>4. UNCHANGED <<drafts, stored, rows, batch, call, reading, refreshing, inserts, unseen, held>>
    BY DEF CloseModal, OpenHeld, handleOpenRowModal
  <1>5. drafts' \in Drafts /\ \A i \in Ids : Fits(i, drafts'[i])
    BY <1>4 DEF IInv, TypeOK, DraftsFit
  <1> QED BY <1>3, <1>4, <1>5, UnheldStep

\* A menu or a panel captures a row, or lets it go.
LEMMA HoldStep == ASSUME IInv, ReleaseRow \/ \E id \in Ids : HoldRow(id) PROVE IInv'
  <1>1. /\ UNCHANGED <<stored, rows, drafts, batch, call, reading, refreshing, modal, inserts, unseen>>
        /\ asked' = FALSE
    BY DEF ReleaseRow, HoldRow
  <1>2. held' \in Row \cup {None} /\ HeldFits'
    <2>1. CASE ReleaseRow
      BY <2>1 DEF ReleaseRow, HeldFits
    <2>2. ASSUME NEW id \in Ids, HoldRow(id) PROVE held' \in Row \cup {None} /\ HeldFits'
      BY <2>2, DisplayedIsARow DEF HoldRow, HeldFits
    <2> QED BY <2>1, <2>2
  <1>3. drafts' \in Drafts /\ \A i \in Ids : Fits(i, drafts'[i])
    BY <1>1 DEF IInv, TypeOK, DraftsFit
  <1>4. modal' \in Modal \cup {None, Importing}
    BY <1>1 DEF IInv, TypeOK
  <1> QED BY <1>1, <1>2, <1>3, <1>4, StagingStep

\* A new row is staged: its id was not used before.
LEMMA AddRowStep ==
    ASSUME IInv, NEW id \in News, NEW values \in Rows, AddRow(id, values) PROVE IInv'
  <1> DEFINE d == [original |-> None, current |-> values, deleted |-> FALSE, inserted |-> TRUE]
  <1>0. d \in Draft /\ d.inserted = TRUE
    BY DEF Draft
  <1>1. d \in Draft /\ d.inserted = TRUE /\ d # None
    BY <1>0, NoneIsNothing
  <1> HIDE DEF d
  <1>2. /\ drafts' = [drafts EXCEPT ![id] = d] /\ inserts' = [inserts EXCEPT ![id] = "staged"]
        /\ asked' = FALSE
        /\ UNCHANGED <<stored, rows, batch, call, reading, refreshing, modal, unseen, held>>
    BY DEF AddRow, Staged, d
  <1>3. TypeOK'
    BY <1>1, <1>2 DEF IInv, TypeOK, Drafts, Ids
  <1>4. \A i \in News : inserts'[i] = "saved" => inserts[i] = "saved"
    BY <1>2 DEF IInv, TypeOK
  <1>5. inserts'[id] # "saved"
    BY <1>2 DEF IInv, TypeOK
  <1>6. DraftsFit'
    BY <1>1, <1>2, <1>4, <1>5 DEF IInv, TypeOK, Drafts, DraftsFit, Fits
  <1>7. HeldFits' /\ CallOfBatch' /\ RowsFollow'
    BY <1>2 DEF IInv, HeldFits, CallOfBatch, RowsFollow, Untold
  <1> QED BY <1>3, <1>6, <1>7 DEF IInv

\* A read that is to begin finds what the database holds.
LEMMA InvalidatedFollow ==
    ASSUME invalidateTableRows PROVE RowsFollow' /\ reading' \in Reading
  <1>1. reading' \in Reading
    BY DEF invalidateTableRows, Reading
  <1> QED BY <1>1, NoneIsNothing DEF invalidateTableRows, RowsFollow

\* All drafts are given up: reverted, refreshed, or for an import.
LEMMA DiscardStep == ASSUME IInv, revertDrafts \/ handleRefresh \/ OpenImport PROVE IInv'
  <1>1. NoDrafts \in Drafts /\ \A i \in Ids : Fits(i, NoDrafts[i])
    BY DEF NoDrafts, Drafts, Fits
  <1>2. drafts' = NoDrafts /\ asked' \in BOOLEAN
    BY DEF revertDrafts, handleRefresh, OpenImport, Discard
  <1>3. CASE revertDrafts \/ OpenImport
    <2>1. modal' \in Modal \cup {None, Importing}
      BY <1>3 DEF revertDrafts, OpenImport, IInv, TypeOK
    <2>2. UNCHANGED <<stored, rows, batch, call, reading, refreshing, inserts, unseen, held>>
      BY <1>3 DEF revertDrafts, OpenImport
    <2> QED BY <1>1, <1>2, <2>1, <2>2, UnheldStep
  <1>4. CASE handleRefresh
    <2>1. /\ UNCHANGED <<stored, rows, batch, call, modal, inserts, unseen, held>>
          /\ refreshing' = TRUE /\ invalidateTableRows
      BY <1>4 DEF handleRefresh
    <2>2. TypeOK'
      BY <1>1, <1>2, <2>1, InvalidatedFollow DEF IInv, TypeOK
    <2>3. DraftsFit' /\ HeldFits' /\ CallOfBatch'
      BY <1>1, <1>2, <2>1 DEF IInv, DraftsFit, Fits, HeldFits, CallOfBatch
    <2> QED BY <2>1, <2>2, <2>3, InvalidatedFollow DEF IInv
  <1> QED BY <1>3, <1>4
-----------------------------------------------------------------------------
(* Submission.                                                             *)

\* A submission captures the drafts; no call of an earlier one is under way.
LEMMA SubmitStep == ASSUME IInv, submitDrafts PROVE IInv'
  <1>1. /\ batch' = drafts /\ asked' = FALSE /\ batch = NoDrafts
        /\ UNCHANGED <<stored, rows, drafts, call, reading, refreshing, modal, inserts, unseen, held>>
    BY DEF submitDrafts, isSubmittingDrafts
  <1>2. TypeOK'
    BY <1>1 DEF IInv, TypeOK
  <1>3. call = None
    BY <1>1 DEF IInv, HeldFits, CallOfBatch, TypeOK, Call, NoDrafts
  <1>4. DraftsFit' /\ HeldFits' /\ CallOfBatch' /\ RowsFollow'
    BY <1>1, <1>3 DEF IInv, DraftsFit, Fits, HeldFits, CallOfBatch, RowsFollow, Untold
  <1> QED BY <1>2, <1>4 DEF IInv

\* The submission takes a draft: it sends its call, or drops it when there is
\* nothing to write.
LEMMA CommitRowStep == ASSUME IInv, NEW id \in Ids, CommitRow(id) PROVE IInv'
  <1>1. call = None /\ batch[id] # None /\ batch[id] \in Draft /\ asked' = FALSE
    BY DEF CommitRow, IInv, TypeOK, Drafts
  <1>2. UNCHANGED <<stored, rows, reading, refreshing, modal, inserts, unseen, held>>
    BY DEF CommitRow
  <1>3. CASE HasCall(batch[id])
    <2> DEFINE m == [id |-> id, draft |-> batch[id], key |-> None, state |-> "sent"]
    <2>1. m \in Call /\ m.id = id /\ m.draft = batch[id] /\ m.state = "sent"
      BY <1>1 DEF Call
    <2>2. call' = m /\ UNCHANGED <<drafts, batch>>
      BY <1>3 DEF CommitRow
    <2> HIDE DEF m
    <2>3. TypeOK'
      BY <1>1, <1>2, <2>1, <2>2 DEF IInv, TypeOK
    <2>4. DraftsFit' /\ HeldFits' /\ CallOfBatch'
      BY <1>1, <1>2, <2>1, <2>2 DEF IInv, DraftsFit, Fits, HeldFits, CallOfBatch
    <2>5. RowsFollow'
      BY <1>1, <1>2, <2>1, <2>2 DEF IInv, RowsFollow, Untold
    <2> QED BY <2>3, <2>4, <2>5 DEF IInv
  <1>4. CASE ~HasCall(batch[id])
    <2>1. /\ drafts' = [drafts EXCEPT ![id] = None] /\ batch' = [batch EXCEPT ![id] = None]
          /\ UNCHANGED call
      BY <1>4 DEF CommitRow, Unstaged, Staged
    <2>2. TypeOK'
      BY <1>1, <1>2, <2>1 DEF IInv, TypeOK, Drafts
    <2>3. DraftsFit' /\ HeldFits' /\ CallOfBatch'
      BY <1>1, <1>2, <2>1 DEF IInv, TypeOK, Drafts, DraftsFit, Fits, HeldFits, CallOfBatch
    <2>4. RowsFollow'
      BY <1>1, <1>2, <2>1 DEF IInv, RowsFollow, Untold
    <2> QED BY <2>2, <2>3, <2>4 DEF IInv
  <1> QED BY <1>3, <1>4

\* What a write leaves of the table.
LEMMA AppliedIsATable ==
    ASSUME TypeOK, NEW k \in Keys, NEW d \in Draft
    PROVE  Applied(k, d) \in Tables /\ \A j \in Keys : j # k => Applied(k, d)[j] = stored[j]
  <1> DEFINE old == stored[k]
             new == IF IsInsert(d) THEN d.current
                    ELSE IF ~Exists(stored, k) THEN old
                    ELSE IF d.deleted THEN Gone
                    ELSE [c \in Cols |-> IF c \in CommitValues(d) THEN d.current[c] ELSE old[c]]
  <1>1. old \in Rows \cup {None, Gone} /\ d.current \in Rows
    BY DEF TypeOK, Tables, Draft
  <1>2. Exists(stored, k) => old \in Rows
    BY <1>1 DEF Exists
  <1>3. Exists(stored, k) =>
          [c \in Cols |-> IF c \in CommitValues(d) THEN d.current[c] ELSE old[c]] \in Rows
    BY <1>1, <1>2 DEF Rows
  <1>4. new \in Rows \cup {None, Gone}
    BY <1>1, <1>3
  <1>5. Applied(k, d) = [stored EXCEPT ![k] = new]
    BY DEF Applied, TypeOK, Tables
  <1> HIDE DEF new
  <1> QED BY <1>4, <1>5 DEF TypeOK, Tables

\* The database executes the call, or refuses it.
LEMMA ServerStep ==
    ASSUME IInv, ServerRefuses \/ \E k \in Keys : ServerApplies(k) PROVE IInv'
  <1>1. call # None /\ call \in Call /\ call.state = "sent"
    BY DEF ServerRefuses, ServerApplies, IInv, TypeOK
  <1>2. CASE ServerRefuses
    <2> DEFINE m == [call EXCEPT !.state = "refused"]
    <2>1. m \in Call /\ m.id = call.id /\ m.draft = call.draft /\ m.state = "refused"
      BY <1>1 DEF Call
    <2>2. /\ call' = m /\ asked' = FALSE
          /\ UNCHANGED <<stored, rows, drafts, batch, reading, refreshing, modal, inserts, unseen, held>>
      BY <1>2 DEF ServerRefuses
    <2> HIDE DEF m
    <2>3. TypeOK'
      BY <2>1, <2>2 DEF IInv, TypeOK
    <2>4. DraftsFit' /\ HeldFits' /\ CallOfBatch' /\ RowsFollow'
      BY <1>1, <2>1, <2>2 DEF IInv, DraftsFit, Fits, HeldFits, CallOfBatch, RowsFollow, Untold
    <2> QED BY <2>3, <2>4 DEF IInv
  <1>3. ASSUME NEW k \in Keys, ServerApplies(k) PROVE IInv'
    <2> DEFINE m == [call EXCEPT !.state = "done", !.key = k]
    <2>1. m \in Call /\ m.id = call.id /\ m.draft = call.draft /\ m.state = "done" /\ m.key = k
      BY <1>1 DEF Call
    <2>2. /\ call' = m /\ stored' = Applied(k, call.draft) /\ asked' = FALSE
          /\ UNCHANGED <<rows, drafts, batch, reading, refreshing, modal, inserts, unseen, held>>
      BY <1>3 DEF ServerApplies
    <2> HIDE DEF m
    <2>3. stored' \in Tables /\ \A j \in Keys : j # k => stored'[j] = stored[j]
      <3>1. call.draft \in Draft
        BY <1>1 DEF Call
      <3> QED BY <2>2, <3>1, AppliedIsATable DEF IInv
    <2>4. TypeOK'
      BY <2>1, <2>2, <2>3 DEF IInv, TypeOK
    <2>5. DraftsFit' /\ HeldFits' /\ CallOfBatch'
      BY <1>1, <2>1, <2>2 DEF IInv, DraftsFit, Fits, HeldFits, CallOfBatch
    <2>6. call' # None
      BY <2>1, <2>2, NoneIsNothing
    <2>7. RowsFollow'
      BY <1>1, <2>1, <2>2, <2>3, <2>6 DEF IInv, RowsFollow, Untold
    <2> QED BY <2>4, <2>5, <2>7 DEF IInv
  <1> QED BY <1>2, <1>3

\* The answer to a write takes its draft away and reads the rows again.
LEMMA CommittedStep == ASSUME IInv, Committed PROVE IInv'
  <1>1. call # None /\ call \in Call /\ call.state = "done" /\ call.id \in Ids
    BY DEF Committed, IInv, TypeOK, Call
  <1>2. /\ drafts' = [drafts EXCEPT ![call.id] = None] /\ batch' = [batch EXCEPT ![call.id] = None]
        /\ call' = None /\ asked' = FALSE /\ invalidateTableRows
        /\ UNCHANGED <<stored, rows, refreshing, modal, unseen, held>>
    BY DEF Committed, Unstaged, Staged
  <1>3. inserts' = [id \in News |->
                      IF id = call.id /\ IsInsert(call.draft) THEN "saved" ELSE inserts[id]]
    BY DEF Committed
  <1>4. inserts' \in [News -> {"unused", "staged", "saved", "reopened"}]
        /\ \A id \in News : id # call.id => inserts'[id] = inserts[id]
    BY <1>3 DEF IInv, TypeOK
  <1>5. TypeOK'
    BY <1>1, <1>2, <1>4, InvalidatedFollow DEF IInv, TypeOK, Drafts
  <1>6. DraftsFit'
    BY <1>1, <1>2, <1>4 DEF IInv, TypeOK, Drafts, DraftsFit, Fits
  <1>7. HeldFits' /\ CallOfBatch'
    BY <1>2 DEF IInv, HeldFits, CallOfBatch
  <1> QED BY <1>2, <1>5, <1>6, <1>7, InvalidatedFollow DEF IInv

\* A call that failed keeps its draft; if the database executed it, the client
\* does not know of the row.
LEMMA CommitFailsStep == ASSUME IInv, CommitFails PROVE IInv'
  <1>1. call # None /\ call \in Call /\ call.id \in Ids
    BY DEF CommitFails, IInv, TypeOK, Call
  <1>2. /\ batch' = [batch EXCEPT ![call.id] = None] /\ call' = None /\ asked' = FALSE
        /\ UNCHANGED <<stored, rows, drafts, reading, refreshing, modal, inserts, held>>
    BY DEF CommitFails
  <1>3. unseen' = IF call.state = "done" THEN unseen \cup {call.key} ELSE unseen
    BY DEF CommitFails
  <1>4. unseen' \subseteq Keys /\ unseen \subseteq unseen'
    BY <1>1, <1>3 DEF IInv, TypeOK, HeldFits, CallOfBatch
  <1>5. TypeOK'
    BY <1>1, <1>2, <1>4 DEF IInv, TypeOK, Drafts
  <1>6. DraftsFit' /\ HeldFits' /\ CallOfBatch'
    BY <1>1, <1>2 DEF IInv, TypeOK, Drafts, DraftsFit, Fits, HeldFits, CallOfBatch
  <1>7. \A k \in Keys \ unseen' : k \notin unseen /\ ~Untold(k)
    BY <1>3, <1>4 DEF Untold
  <1>8. RowsFollow'
    BY <1>2, <1>7 DEF IInv, RowsFollow, Untold
  <1> QED BY <1>5, <1>6, <1>8 DEF IInv

-----------------------------------------------------------------------------
(* The rows.                                                               *)

\* A read is answered with what the database holds by then.
LEMMA ServerReadsStep == ASSUME IInv, ServerReads PROVE IInv'
  <1>1. reading' = [answer |-> stored] /\ asked' = FALSE
        /\ UNCHANGED <<stored, rows, drafts, batch, call, refreshing, modal, inserts, unseen, held>>
    BY DEF ServerReads
  <1>2. reading' \in Reading /\ reading'.answer = stored /\ reading' # None
    <2>1. [answer |-> stored] \in Reading
      BY DEF IInv, TypeOK, Reading
    <2> QED BY <1>1, <2>1, NoneIsNothing
  <1>3. TypeOK'
    BY <1>1, <1>2 DEF IInv, TypeOK
  <1>4. DraftsFit' /\ HeldFits' /\ CallOfBatch' /\ RowsFollow'
    BY <1>1, <1>2 DEF IInv, DraftsFit, Fits, HeldFits, CallOfBatch, RowsFollow
  <1> QED BY <1>3, <1>4 DEF IInv

\* The rows arrive: what others wrote before they were read is known now.
LEMMA RowsArriveStep == ASSUME IInv, RowsArrive PROVE IInv'
  <1>1. /\ rows' = reading.answer /\ unseen' = {k \in unseen : reading.answer[k] # stored[k]}
        /\ reading # None /\ reading.answer # None /\ reading' = None /\ asked' = FALSE
        /\ UNCHANGED <<stored, drafts, batch, call, refreshing, modal, inserts, held>>
    BY DEF RowsArrive
  <1>2. reading.answer \in Tables
    BY <1>1 DEF IInv, TypeOK, Reading
  <1>3. TypeOK'
    BY <1>1, <1>2 DEF IInv, TypeOK
  <1>4. DraftsFit' /\ HeldFits' /\ CallOfBatch' /\ RowsFollow'
    BY <1>1 DEF IInv, DraftsFit, Fits, HeldFits, CallOfBatch, RowsFollow, Untold
  <1> QED BY <1>3, <1>4 DEF IInv

\* A read fails: no row shown is known to be the database's.
LEMMA ReadFailsStep == ASSUME IInv, ReadFails PROVE IInv'
  <1>1. /\ reading' = None /\ unseen' = Keys /\ asked' = FALSE
        /\ UNCHANGED <<stored, rows, drafts, batch, call, refreshing, modal, inserts, held>>
    BY DEF ReadFails
  <1>2. TypeOK' /\ DraftsFit' /\ HeldFits' /\ CallOfBatch' /\ RowsFollow'
    BY <1>1 DEF IInv, TypeOK, DraftsFit, Fits, HeldFits, CallOfBatch, RowsFollow
  <1> QED BY <1>2 DEF IInv

\* The refresh indicator goes out.
LEMMA RefreshEndsStep == ASSUME IInv, RefreshEnds PROVE IInv'
  <1>1. /\ refreshing' = FALSE /\ asked' = FALSE
        /\ UNCHANGED <<stored, rows, drafts, batch, call, reading, modal, inserts, unseen, held>>
    BY DEF RefreshEnds
  <1>2. TypeOK' /\ DraftsFit' /\ HeldFits' /\ CallOfBatch' /\ RowsFollow'
    BY <1>1 DEF IInv, TypeOK, DraftsFit, Fits, HeldFits, CallOfBatch, RowsFollow, Untold
  <1> QED BY <1>2 DEF IInv

\* An import wrote a row: the rows are read again.
LEMMA ImportStepKeeps == ASSUME IInv, ImportStep PROVE IInv'
  <1>1. PICK k \in Keys, cells \in Rows : ImportSucceeds(k, cells)
    BY DEF ImportStep
  <1>2. /\ stored' = [stored EXCEPT ![k] = cells] /\ invalidateTableRows /\ asked' = FALSE
        /\ UNCHANGED <<rows, drafts, batch, call, refreshing, modal, inserts, unseen, held>>
    BY <1>1 DEF ImportSucceeds
  <1>3. TypeOK'
    BY <1>2, InvalidatedFollow DEF IInv, TypeOK, Tables
  <1>4. DraftsFit' /\ HeldFits' /\ CallOfBatch'
    BY <1>2 DEF IInv, DraftsFit, Fits, HeldFits, CallOfBatch
  <1> QED BY <1>2, <1>3, <1>4, InvalidatedFollow DEF IInv

\* Another client wrote a row.
LEMMA ForeignStepKeeps == ASSUME IInv, ForeignStep PROVE IInv'
  <1>1. PICK k \in Keys, cells \in Rows \cup {Gone} : ForeignWrite(k, cells)
    BY DEF ForeignStep
  <1>2. /\ stored' = [stored EXCEPT ![k] = cells] /\ unseen' = unseen \cup {k} /\ asked' = FALSE
        /\ UNCHANGED <<rows, drafts, batch, call, reading, refreshing, modal, inserts, held>>
    BY <1>1 DEF ForeignWrite
  <1>3. TypeOK'
    BY <1>2 DEF IInv, TypeOK, Tables
  <1>4. DraftsFit' /\ HeldFits' /\ CallOfBatch'
    BY <1>2 DEF IInv, DraftsFit, Fits, HeldFits, CallOfBatch
  <1>5. \A j \in Keys \ unseen' : j \notin unseen /\ stored'[j] = stored[j]
    BY <1>2 DEF IInv, TypeOK, Tables
  <1>6. RowsFollow'
    BY <1>2, <1>5 DEF IInv, RowsFollow, Untold
  <1> QED BY <1>3, <1>4, <1>6 DEF IInv
-----------------------------------------------------------------------------
(* The theorems.                                                           *)

\* The inductive invariant holds when the grid has been loaded.
THEOREM InitInvariant == Init => IInv
  <1> SUFFICES ASSUME Init PROVE IInv
    OBVIOUS
  <1>1. TypeOK
    BY DEF Init, TypeOK, NoDrafts, Drafts
  <1>2. DraftsFit /\ HeldFits /\ CallOfBatch /\ RowsFollow
    BY DEF Init, NoDrafts, DraftsFit, Fits, HeldFits, CallOfBatch, RowsFollow
  <1> QED BY <1>1, <1>2 DEF IInv

\* Every step of the grid, the submission, the reads, and of others keeps it.
THEOREM NextInvariant == IInv /\ [Next]_vars => IInv'
  <1> SUFFICES ASSUME IInv, [Next]_vars PROVE IInv'
    OBVIOUS
  <1>1. CASE StageStep
    BY <1>1, CellStep, DeleteShownStep, DeleteHeldStep, DeleteInModalStep, SaveModalStep, ModalStep,
       HoldStep, AddRowStep, DiscardStep DEF StageStep
  <1>2. CASE submitDrafts
    BY <1>2, SubmitStep
  <1>3. CASE CommitStep
    BY <1>3, CommitRowStep, ServerStep, CommittedStep, CommitFailsStep DEF CommitStep
  <1>4. CASE ReadStep
    BY <1>4, ServerReadsStep, RowsArriveStep, ReadFailsStep, RefreshEndsStep DEF ReadStep
  <1>5. CASE ImportStep \/ ForeignStep
    BY <1>5, ImportStepKeeps, ForeignStepKeeps
  <1>6. CASE UNCHANGED vars
    BY <1>6 DEF vars, IInv, TypeOK, DraftsFit, Fits, HeldFits, CallOfBatch, RowsFollow, Untold
  <1> QED BY <1>1, <1>2, <1>3, <1>4, <1>5, <1>6 DEF Next

\* In every reachable state the drafts, the submission, its call and the rows
\* read agree as IInv says.
THEOREM Invariant == Spec => []IInv
  BY InitInvariant, NextInvariant, PTL DEF Spec

\* Every variable keeps its type.
THEOREM TypesHold == Spec => []TypeOK
  <1>1. IInv => TypeOK
    BY DEF IInv
  <1> QED BY <1>1, Invariant, PTL

\* A new row whose insertion was acknowledged is not submitted as new again, unless
\* a cell of it was staged through a menu or panel that had captured it before.
THEOREM NewRowsSavedOnce == Spec => []SavedOnce
  <1>1. IInv => SavedOnce
    BY DEF IInv, DraftsFit, Fits, SavedOnce, IsInsert, Ids
  <1> QED BY <1>1, Invariant, PTL

\* The rows shown are those of the last own write that was answered.
THEOREM OwnWritesAreRead == Spec => []ReadsOwnWrites
  <1>1. IInv => ReadsOwnWrites
    BY DEF IInv, RowsFollow, Untold, ReadsOwnWrites
  <1> QED BY <1>1, Invariant, PTL

-----------------------------------------------------------------------------
(* What a step may never do.                                               *)

\* The step that drops a draft was asked for, or follows its own write.
Dropped(id) ==
    drafts[id] # None /\ drafts'[id] = None =>
        \/ asked'
        \/ /\ batch[id] # None
           /\ HasCall(batch[id]) => call.id = id /\ call.state = "done"

\* A cell takes the draft of its row away only when it puts the old values back.
LEMMA CellDrops ==
    ASSUME IInv, NEW row \in Row, NEW col \in Cols, NEW val \in Vals,
           stageCellValue(row, col, val), NEW i \in Ids
    PROVE  Dropped(i)
  <1> DEFINE id == row.id
             draft == drafts[id]
             isNew == IF draft # None THEN draft.inserted ELSE row.isNew
             original == IF isNew THEN None ELSE OriginalOf(id, row.cells)
             current == [IF draft # None THEN draft.current ELSE row.cells EXCEPT ![col] = val]
             d == [original |-> original, current |-> current, deleted |-> FALSE, inserted |-> isNew]
  <1>1. TypeOK /\ id \in Ids /\ row.cells \in Rows /\ row.isNew \in BOOLEAN
    BY DEF IInv, Row
  <1>2. draft # None => draft \in Draft
    BY <1>1 DEF TypeOK, Drafts
  <1>3. OriginalOf(id, row.cells) \in Rows
    BY <1>1, OriginalIsARow
  <1>4. isNew \in BOOLEAN /\ original \in Rows \cup {None}
    BY <1>1, <1>2, <1>3 DEF Draft
  <1>5. current \in Rows
    <2>1. (IF draft # None THEN draft.current ELSE row.cells) \in Rows
      BY <1>1, <1>2 DEF Draft
    <2> QED BY <2>1 DEF Rows
  <1>6. d \in Draft
    BY <1>4, <1>5 DEF Draft
  <1>7. d # None
    BY <1>6, NoneIsNothing
  <1>8. asked' = (current = original) /\ (~asked' => Staged(id, d)) /\ (asked' => Staged(id, None))
    BY DEF stageCellValue, Unstaged
  <1> HIDE DEF d
  <1> QED BY <1>1, <1>7, <1>8 DEF Staged, Dropped, TypeOK, Drafts

\* Staging takes a draft away only when the user puts the old values back,
\* deletes a new row, or gives all of them up.
LEMMA StagingDrops == ASSUME IInv, StageStep, NEW i \in Ids PROVE Dropped(i)
  <1>1. ASSUME NEW col \in Cols, NEW val \in Vals,
               EditHeld(col, val) \/ \E id \in Ids : EditCell(id, col, val)
        PROVE  Dropped(i)
    <2>1. ASSUME NEW id \in Ids, EditCell(id, col, val) PROVE Dropped(i)
      BY <2>1, DisplayedIsARow, CellDrops DEF EditCell
    <2>2. CASE EditHeld(col, val)
      <3>1. held \in Row
        BY <2>2 DEF EditHeld, IInv, TypeOK
      <3> QED BY <2>2, <3>1, CellDrops DEF EditHeld
    <2> QED BY <1>1, <2>1, <2>2
  <1>2. ASSUME NEW id \in Ids, NEW cells \in Rows, stageDeleteRow(id, cells)
        PROVE  Dropped(i)
    <2> DEFINE d == [original |-> OriginalOf(id, cells),
                     current |-> IF drafts[id] = None THEN cells ELSE drafts[id].current,
                     deleted |-> TRUE, inserted |-> FALSE]
    <2>1. OriginalOf(id, cells) \in Rows
      BY OriginalIsARow DEF IInv
    <2>2. d \in Draft
      BY <2>1 DEF IInv, TypeOK, Drafts, Draft
    <2>3. d # None
      BY <2>2, NoneIsNothing
    <2>4. asked' = IsNew(id) /\ (~IsNew(id) => Staged(id, d)) /\ (IsNew(id) => Staged(id, None))
      BY <1>2 DEF stageDeleteRow, Unstaged
    <2> HIDE DEF d
    <2> QED BY <2>3, <2>4 DEF Staged, Dropped, IInv, TypeOK, Drafts
  <1>3. ASSUME NEW id \in Ids, DeleteShown(id) PROVE Dropped(i)
    <2>1. Cells(id) \in Rows /\ stageDeleteRow(id, Cells(id))
      BY <1>3, CellsAreARow DEF IInv, DeleteShown
    <2> QED BY <1>2, <2>1
  <1>4. CASE DeleteInModal
    <2>1. modal.id \in Ids /\ modal.cells \in Rows /\ stageDeleteRow(modal.id, modal.cells)
      BY <1>4 DEF DeleteInModal, IInv, TypeOK, Modal
    <2> QED BY <1>2, <2>1
  <1>10. CASE DeleteHeld
    <2>1. held.id \in Ids /\ held.cells \in Rows /\ stageDeleteRow(held.id, held.cells)
      BY <1>10 DEF DeleteHeld, IInv, TypeOK, Row
    <2> QED BY <1>2, <2>1
  <1>5. ASSUME NEW id \in Ids, NEW d \in Draft, Staged(id, d) PROVE Dropped(i)
    BY <1>5, NoneIsNothing DEF Staged, Dropped, IInv, TypeOK, Drafts
  <1>6. ASSUME NEW id \in News, NEW values \in Rows, AddRow(id, values) PROVE Dropped(i)
    <2> DEFINE d == [original |-> None, current |-> values, deleted |-> FALSE, inserted |-> TRUE]
    <2>1. id \in Ids /\ d \in Draft
      BY DEF Ids, Draft
    <2>2. Staged(id, d)
      BY <1>6 DEF AddRow
    <2> HIDE DEF d
    <2> QED BY <1>5, <2>1, <2>2
  <1>7. ASSUME NEW values \in Rows, SaveModal(values) PROVE Dropped(i)
    <2> DEFINE id == modal.id
               d == [original |-> OriginalOf(id, modal.cells), current |-> values,
                     deleted |-> FALSE, inserted |-> IsNew(id)]
    <2>1. id \in Ids /\ modal.cells \in Rows
      BY <1>7 DEF SaveModal, IInv, TypeOK, Modal
    <2>2. OriginalOf(id, modal.cells) \in Rows /\ d.inserted \in BOOLEAN
      BY <2>1, OriginalIsARow DEF IsNew, IInv, TypeOK, Drafts, Draft
    <2>3. d \in Draft
      BY <2>2 DEF Draft
    <2>4. Staged(id, d)
      BY <1>7 DEF SaveModal, stageWholeRow
    <2> HIDE DEF d
    <2> QED BY <1>5, <2>1, <2>3, <2>4
  <1>8. CASE revertDrafts \/ handleRefresh \/ OpenImport
    <2>1. asked' = (drafts # NoDrafts)
      BY <1>8 DEF revertDrafts, handleRefresh, OpenImport, Discard
    <2> QED BY <2>1 DEF Dropped, NoDrafts
  <1>9. CASE CloseModal \/ OpenHeld \/ ReleaseRow \/ \E id \in Ids : handleOpenRowModal(id) \/ HoldRow(id)
    BY <1>9 DEF CloseModal, OpenHeld, ReleaseRow, handleOpenRowModal, HoldRow, Dropped
  <1> QED BY <1>1, <1>3, <1>4, <1>10, <1>6, <1>7, <1>8, <1>9 DEF StageStep

\* A submission drops the draft it has just written, or that had nothing to write.
LEMMA CommitDrops == ASSUME IInv, CommitStep, NEW i \in Ids PROVE Dropped(i)
  <1>1. ASSUME NEW id \in Ids, CommitRow(id) PROVE Dropped(i)
    <2>1. CASE HasCall(batch[id])
      BY <1>1, <2>1 DEF CommitRow, Dropped
    <2>2. CASE ~HasCall(batch[id])
      <3>1. drafts' = [drafts EXCEPT ![id] = None] /\ batch[id] # None
        BY <1>1, <2>2 DEF CommitRow, Unstaged, Staged
      <3> QED BY <2>2, <3>1 DEF Dropped, IInv, TypeOK, Drafts
    <2> QED BY <2>1, <2>2
  <1>2. CASE Committed
    <2>1. /\ call # None /\ call.state = "done" /\ batch[call.id] # None
          /\ drafts' = [drafts EXCEPT ![call.id] = None]
      BY <1>2 DEF Committed, Unstaged, Staged, IInv, HeldFits, CallOfBatch
    <2> QED BY <2>1 DEF Dropped, IInv, TypeOK, Drafts
  <1>3. CASE ServerRefuses \/ CommitFails \/ \E k \in Keys : ServerApplies(k)
    BY <1>3 DEF ServerRefuses, CommitFails, ServerApplies, Dropped
  <1> QED BY <1>1, <1>2, <1>3 DEF CommitStep

\* A staged change leaves the grid only when it was written or given up.
THEOREM DraftsLeaveOnlyCommitted == Spec => LeavesOnlyCommitted
  <1>1. ASSUME IInv, Next, NEW i \in Ids PROVE Dropped(i)
    <2>1. CASE submitDrafts \/ ReadStep \/ ImportStep \/ ForeignStep
      BY <2>1 DEF submitDrafts, ReadStep, ServerReads, RowsArrive, ReadFails, RefreshEnds,
         ImportStep, ImportSucceeds, ForeignStep, ForeignWrite, Dropped
    <2> QED BY <1>1, <2>1, StagingDrops, CommitDrops DEF Next
  <1>2. IInv /\ [Next]_vars =>
          [\A id \in Ids : drafts[id] # None /\ drafts'[id] = None =>
             \/ asked'
             \/ /\ batch[id] # None
                /\ HasCall(batch[id]) => call.id = id /\ call.state = "done"]_vars
    BY <1>1 DEF Dropped
  <1> QED BY <1>2, Invariant, PTL DEF Spec, LeavesOnlyCommitted

\* An update that the database executes writes changed cells only.
LEMMA AppliedKeepsOthers ==
    ASSUME IInv, NEW k \in Keys, ServerApplies(k), ~IsInsert(call.draft),
           NEW j \in Keys, Exists(stored', j), NEW c \in Cols, stored'[j][c] # stored[j][c]
    PROVE  call.draft.original[c] # stored'[j][c]
  <1> DEFINE d == call.draft
             old == stored[k]
  <1>1. /\ call # None /\ call \in Call /\ call.state = "sent" /\ k = call.id /\ d \in Draft
        /\ stored' = Applied(k, d)
    BY DEF ServerApplies, IInv, TypeOK, Call
  <1>2. Fits(k, d) /\ d # None
    BY <1>1 DEF IInv, HeldFits, CallOfBatch, DraftsFit, Ids
  <1>3. ~d.inserted
    BY <1>1, <1>2, StagedRowsAssumption DEF Fits
  <1>4. d.deleted \/ d.original # None
    BY DEF IsInsert
  <1>5. Applied(k, d) =
          [stored EXCEPT ![k] =
             IF ~Exists(stored, k) THEN old
             ELSE IF d.deleted THEN Gone
             ELSE [x \in Cols |-> IF x \in CommitValues(d) THEN d.current[x] ELSE old[x]]]
    BY DEF Applied, IInv, TypeOK, Tables
  <1>6. stored \in [Keys -> Rows \cup {None, Gone}]
    BY DEF IInv, TypeOK, Tables
  <1>7. j = k
    BY <1>1, <1>5, <1>6
  <1>8. Exists(stored, k) /\ ~d.deleted
    BY <1>1, <1>5, <1>6, <1>7 DEF Exists
  <1>9. stored'[k] = [x \in Cols |-> IF x \in CommitValues(d) THEN d.current[x] ELSE old[x]]
    BY <1>1, <1>5, <1>6, <1>8
  <1>10. c \in CommitValues(d) /\ stored'[k][c] = d.current[c]
    BY <1>7, <1>9
  <1>11. d.current[c] # d.original[c]
    BY <1>3, <1>4, <1>8, <1>10 DEF CommitValues, Changed
  <1> QED BY <1>7, <1>10, <1>11

\* A commit never puts back a cell's old value.
THEOREM CellsOfOthersKept == Spec => OthersCellsKept
  <1> DEFINE Kept ==
        call # None /\ call.state = "sent" /\ stored' # stored /\ call' # call
          /\ ~IsInsert(call.draft) =>
             \A k \in Keys : Exists(stored', k) =>
                \A c \in Cols : stored'[k][c] # stored[k][c] =>
                   call.draft.original[c] # stored'[k][c]
  <1>1. ASSUME IInv, Next PROVE Kept
    <2>1. CASE \E k \in Keys : ServerApplies(k)
      BY <1>1, <2>1, AppliedKeepsOthers
    <2>2. CASE UNCHANGED stored \/ UNCHANGED call
      BY <2>2
    <2>3. CASE StageStep
      <3>1. UNCHANGED stored
        BY <2>3 DEF StageStep, EditCell, DeleteShown, handleOpenRowModal, AddRow, SaveModal,
           DeleteInModal, CloseModal, HoldRow, ReleaseRow, EditHeld, DeleteHeld, OpenHeld,
           revertDrafts, handleRefresh, OpenImport
      <3> QED BY <2>2, <3>1
    <2>4. CASE submitDrafts \/ ReadStep \/ ImportStep \/ ForeignStep
      <3>1. UNCHANGED call
        BY <2>4 DEF submitDrafts, ReadStep, ServerReads, RowsArrive, ReadFails, RefreshEnds,
           ImportStep, ImportSucceeds, ForeignStep, ForeignWrite
      <3> QED BY <2>2, <3>1
    <2>5. CASE ServerRefuses \/ Committed \/ CommitFails \/ \E id \in Ids : CommitRow(id)
      <3>1. UNCHANGED stored
        BY <2>5 DEF ServerRefuses, Committed, CommitFails, CommitRow
      <3> QED BY <2>2, <3>1
    <2> QED BY <1>1, <2>1, <2>3, <2>4, <2>5 DEF Next, CommitStep
  <1>2. IInv /\ [Next]_vars => [Kept]_vars
    BY <1>1
  <1> QED BY <1>2, Invariant, PTL DEF Spec, OthersCellsKept

=============================================================================
