------------------------------ MODULE AdminMatrix ------------------------------
(***************************************************************************)
(* The two administration views built on the checkbox table: the visibility *)
(* of the columns of a card, of one dataset at a time, and the permissions  *)
(* of a group on the datasets that are checked in the tree.  A table keeps  *)
(* base rows and draft rows; leaving a changed table asks whether to save,  *)
(* and the answer, the loads and the saves come back in any order.  The     *)
(* content of a table is one value 0 or 1 and whose rows they are.          *)
(***************************************************************************)
EXTENDS Naturals, FiniteSets

CONSTANTS MxMaxRequests,  \* bound: loads and saves sent
          MxMaxEdits      \* bound: cells, selects and filters the user changes

VARIABLES
    mxView,     \* which of the two views is open, and its variables
    mxServer,   \* what the server stores, per dataset
    mxLoads,    \* loads under way
    mxSaves,    \* saves under way
    mxDrafts,   \* localStorage: the drafts of the tables, 2 for none
    mxCounts    \* requests and edits so far, and whether an edit or a change of dataset overtook a save
mxVars == <<mxView, mxServer, mxLoads, mxSaves, mxDrafts, mxCounts>>

MxDatasets == 1..2
MxNone     == 0                       \* no dataset
MxKeys     == (SUBSET MxDatasets) \ {{}} \* a draft is kept for each set of datasets
Rows(d, v) == [of |-> d, val |-> v]   \* the rows of dataset d
NoRows     == Rows(MxNone, 0)
NoTable    == [of |-> {}, base |-> NoRows, draft |-> NoRows,
             edit |-> FALSE, saving |-> FALSE, shown |-> FALSE]
NoConfirm  == [asked |-> FALSE, target |-> {}, filter |-> FALSE]

\* A new checkbox table: rows of the datasets `of`, the draft kept for them restored.
createVanillaCheckboxTable(of, rows, kept) ==
    [of |-> of, base |-> rows,
     draft |-> IF kept = 2 THEN rows ELSE [rows EXCEPT !.val = kept],
     edit |-> kept # 2, saving |-> FALSE, shown |-> TRUE]

isDirty(t) == t.base # t.draft

\* persistDraftIfNeeded: kept while the table is edited or changed, 2 for no draft.
persistDraftIfNeeded(t) == IF isDirty(t) \/ t.edit THEN t.draft.val ELSE 2

cancelChanges(t) == [t EXCEPT !.draft = t.base, !.edit = FALSE]

\* The rest of saveChanges after onSave: what is in the table now becomes the base.
MxTableSaved(t)  == [t EXCEPT !.base = t.draft, !.edit = FALSE, !.saving = FALSE]
MxTableFailed(t) == [t EXCEPT !.saving = FALSE]

MxView(kind) ==
    [kind |-> kind, current |-> {}, rows |-> NoRows, layout |-> 0, oldLayout |-> 0,
     table |-> NoTable, confirm |-> NoConfirm,
     perms |-> [d \in MxDatasets |-> 0]]

MxInit ==
    /\ \E kind \in {"cards", "permissions"} : mxView = MxView(kind)
    /\ mxServer = [d \in MxDatasets |-> [rows |-> Rows(d, 0), layout |-> 0]]
    /\ mxLoads = {} /\ mxSaves = {}
    /\ mxDrafts = [k \in MxKeys |-> 2]
    /\ mxCounts = [requests |-> 0, edits |-> 0, overtook |-> FALSE]

MxCards == mxView.kind = "cards"
MxPermissions == mxView.kind = "permissions"

MxEdited == mxCounts.edits < MxMaxEdits /\ mxCounts' = [mxCounts EXCEPT !.edits = @ + 1,
                                                         !.overtook = @ \/ mxSaves # {}]
MxSent   == mxCounts.requests < MxMaxRequests
               /\ mxCounts' = [mxCounts EXCEPT !.requests = @ + 1]

\* A dataset is left while these saves are under way.
MxLeave(requests, saves) ==
    /\ mxCounts.requests + requests <= MxMaxRequests
    /\ mxCounts' = [mxCounts EXCEPT !.requests = @ + requests, !.overtook = @ \/ saves # {}]

\* The drafts after table t changed, and those after clearPersistedDraft.
MxKeep(t) == [k \in MxKeys |-> IF k = t.of THEN persistDraftIfNeeded(t) ELSE mxDrafts[k]]
MxForget(of) == [k \in MxKeys |-> IF k = of THEN 2 ELSE mxDrafts[k]]
-----------------------------------------------------------------------------
(* The table *)

\* handleCellInputChange and setColumnValues: also while a save is on its way.
handleCellInputChange ==
    /\ mxView.table.edit /\ mxView.table.shown /\ ~mxView.confirm.asked
    /\ MxEdited
    /\ \E v \in 0..1 :
          LET t == [mxView.table EXCEPT !.draft.val = v]
          IN  mxView' = [mxView EXCEPT !.table = t] /\ mxDrafts' = MxKeep(t)
    /\ UNCHANGED <<mxServer, mxLoads, mxSaves>>

setEditMode ==
    /\ mxView.table.shown /\ ~mxView.table.edit /\ ~mxView.confirm.asked
    /\ LET t == [mxView.table EXCEPT !.edit = TRUE]
       IN  mxView' = [mxView EXCEPT !.table = t] /\ mxDrafts' = MxKeep(t)
    /\ UNCHANGED <<mxServer, mxLoads, mxSaves, mxCounts>>

MxCancel ==
    /\ mxView.table.edit /\ mxView.table.shown /\ ~mxView.table.saving /\ ~mxView.confirm.asked
    /\ LET t == cancelChanges(mxView.table)
       IN  mxView' = [mxView EXCEPT !.table = t] /\ mxDrafts' = MxKeep(t)
    /\ UNCHANGED <<mxServer, mxLoads, mxSaves, mxCounts>>

\* A save: to the datasets that are current now, with the rows of then.  By the save button of the
\* table, or by the view, of the table or of the layout alone; then: what the view does after it;
\* mine: the table it left is still the one shown.
MxSave(v, rows, by, then) ==
    [to |-> v.current, rows |-> rows, layout |-> v.layout, by |-> by, then |-> then,
     mine |-> TRUE, pc |-> "sent"]

\* saveChanges of a table that is changed and not being saved.
saveChanges(v, by, then) ==
    /\ MxSent
    /\ mxView' = [v EXCEPT !.table.saving = TRUE]
    /\ mxSaves' = mxSaves \cup {MxSave(v, v.table.draft, by, then)}

MxSaveButton ==
    /\ isDirty(mxView.table) /\ ~mxView.table.saving /\ ~mxView.confirm.asked
    /\ mxView.table.shown
    /\ saveChanges(mxView, "button", {})
    /\ UNCHANGED <<mxServer, mxLoads, mxDrafts>>

\* The request reaches the server; without the right to save permissions nothing is sent,
\* and the view goes on as after a save.
MxStored(s) ==
    /\ s.pc = "sent"
    /\ \E allowed \in {TRUE} \cup {~MxPermissions} :
          mxServer' = IF ~allowed THEN mxServer
                      ELSE [d \in MxDatasets |->
                              IF d \notin s.to THEN mxServer[d]
                              ELSE IF MxCards THEN [rows |-> s.rows, layout |-> s.layout]
                              ELSE [mxServer[d] EXCEPT !.rows.val = s.rows.val]]
    /\ mxSaves' = (mxSaves \ {s}) \cup {[s EXCEPT !.pc = "stored"]}
    /\ UNCHANGED <<mxView, mxLoads, mxDrafts, mxCounts>>
-----------------------------------------------------------------------------
(* Loading and leaving a dataset, in the view of the cards *)

isLayoutDirty(v) == v.layout # v.oldLayout
hasPendingChanges(v) == isDirty(v.table) \/ isLayoutDirty(v)

\* discardDraftChanges, the answer to the question
discardDraftChanges(v) == [v EXCEPT !.confirm = NoConfirm, !.table = cancelChanges(@), !.layout = v.oldLayout]

\* The tables of the saves under way are no longer the one shown.
MxLeft(saves) == {[s EXCEPT !.mine = FALSE] : s \in saves}

\* loadRequestSequence goes up: no load under way is the last one any more.
MxNextSequence(loads) == {[l EXCEPT !.wanted = FALSE] : l \in loads}

\* loadColumnsForTable: the old table is no longer shown, but referenced until the new one
\* is mounted.
loadColumnsForTable(v, d, saves) ==
    /\ MxLeave(1, saves)
    /\ mxView' = [v EXCEPT !.current = {d}, !.rows = NoRows, !.layout = 0, !.oldLayout = 0,
                           !.table.shown = FALSE]
    /\ mxLoads' = MxNextSequence(mxLoads) \cup {[of |-> d, wanted |-> TRUE]}
    /\ mxSaves' = saves

\* The tree is cleared: any load under way is forgotten, the table is unmounted.
MxClearSelection(v, saves) ==
    /\ MxLeave(0, saves)
    /\ mxView' = [v EXCEPT !.current = {}, !.rows = NoRows, !.layout = 0, !.oldLayout = 0,
                           !.table = NoTable]
    /\ mxLoads' = MxNextSequence(mxLoads)
    /\ mxSaves' = MxLeft(saves)

MxGoTo(v, target, saves) ==
    IF target = {} THEN MxClearSelection(v, saves) ELSE \E d \in target : loadColumnsForTable(v, d, saves)

\* checkboxSelectionChanged: pending changes are asked about before anything else.
MxSelect ==
    /\ MxCards /\ ~mxView.confirm.asked
    /\ \E target \in {{}} \cup {{d} : d \in MxDatasets} :
          /\ target # mxView.current \/ target = {}
          /\ IF hasPendingChanges(mxView)
             THEN /\ mxView' = [mxView EXCEPT !.confirm = [NoConfirm EXCEPT !.asked = TRUE, !.target = target]]
                  /\ UNCHANGED <<mxLoads, mxCounts, mxSaves>>
             ELSE MxGoTo(mxView, target, mxSaves)
    /\ UNCHANGED <<mxServer, mxDrafts>>

\* The dialog is cancelled, by its button or by closing it: the changes are discarded.
MxDiscard ==
    /\ MxCards /\ mxView.confirm.asked
    /\ LET v == discardDraftChanges(mxView)
       IN  /\ MxGoTo(v, mxView.confirm.target, mxSaves)
           /\ mxDrafts' = MxKeep(v.table)
    /\ UNCHANGED mxServer

\* doSave: the table when it is changed, else the layout when it is, with the rows kept beside the
\* table.  A table that is already being saved refuses, and the view stays where it is; with nothing
\* to save, because a save was answered meanwhile, it goes on at once.
doSave(v, then) ==
    LET kept == IF v.table.of = {} THEN v ELSE [v EXCEPT !.rows = v.table.base]
    IN  IF isDirty(v.table)
        THEN IF v.table.saving
             THEN mxView' = kept /\ UNCHANGED <<mxLoads, mxSaves, mxCounts>>
             ELSE saveChanges(v, "view", then) /\ UNCHANGED mxLoads
        ELSE IF isLayoutDirty(v)
        THEN /\ MxSent
             /\ mxView' = v
             /\ mxSaves' = mxSaves \cup {MxSave(v, v.rows, "layout", then)}
             /\ UNCHANGED mxLoads
        ELSE \E t \in then : MxGoTo(kept, t.target, mxSaves)

MxLayoutSave ==
    /\ MxCards /\ isLayoutDirty(mxView) /\ ~mxView.confirm.asked
    /\ doSave(mxView, {})
    /\ UNCHANGED <<mxServer, mxDrafts>>

\* The question is answered; what it was asked for is done after the save.
MxAnswered == [mxView EXCEPT !.confirm = NoConfirm]
MxThen == {[target |-> mxView.confirm.target, filter |-> mxView.confirm.filter]}

MxConfirm ==
    /\ MxCards /\ mxView.confirm.asked
    /\ doSave(MxAnswered, MxThen)
    /\ UNCHANGED <<mxServer, mxDrafts>>

MxLayoutChange ==
    /\ MxCards /\ mxView.table.shown
    /\ ~mxView.confirm.asked /\ MxEdited
    /\ mxView' = [mxView EXCEPT !.layout = 1 - @]
    /\ UNCHANGED <<mxServer, mxLoads, mxSaves, mxDrafts>>

\* Mutant: the answer of any load is taken.
TakeAnyLoad(l) == TRUE

\* A load answers for the last selection only.
MxLoadIsWanted(l) == l.wanted

\* The answer of a load: the columns are kept and the table is mounted.  A failure, and a
\* dataset without columns, leave a message where the table was; the old one stays referenced.
MxLoadAnswer ==
    \E l \in mxLoads, ok \in BOOLEAN :
       /\ mxLoads' = mxLoads \ {l}
       /\ IF ~MxLoadIsWanted(l)
          THEN UNCHANGED <<mxView, mxSaves>>
          ELSE IF ~ok
          THEN mxView' = [mxView EXCEPT !.rows = NoRows, !.layout = 0, !.oldLayout = 0] /\ UNCHANGED mxSaves
          ELSE LET stored == mxServer[l.of]
                   kept   == IF mxView.current = {} THEN 2 ELSE mxDrafts[mxView.current]
               IN  /\ mxView' = [mxView EXCEPT
                         !.rows = stored.rows, !.layout = stored.layout,
                         !.oldLayout = stored.layout,
                         !.table = createVanillaCheckboxTable(mxView.current, stored.rows, kept)]
                   /\ mxSaves' = MxLeft(mxSaves)
       /\ UNCHANGED <<mxServer, mxDrafts, mxCounts>>

\* The rest of persistCardVisibility: what was sent is what the view now holds, whichever
\* dataset is current.
persistCardVisibility(v, s) ==
    [v EXCEPT !.rows = s.rows, !.layout = s.layout, !.oldLayout = s.layout]

\* The view once a save is answered: the table it was of settles, and the rows beside it follow.
MxTaken(s, ok) ==
    LET v0 == IF ok THEN persistCardVisibility(mxView, s) ELSE mxView
        v1 == IF s.by = "layout" \/ ~s.mine THEN v0
              ELSE [v0 EXCEPT !.table = IF ok THEN MxTableSaved(@) ELSE MxTableFailed(@)]
    IN  IF ok /\ s.by # "button" /\ v1.table.of # {} THEN [v1 EXCEPT !.rows = v1.table.base] ELSE v1

MxSaveAnswer ==
    /\ MxCards
    /\ \E s \in mxSaves, ok \in BOOLEAN :
          /\ ok => s.pc = "stored"
          /\ mxDrafts' = IF ok /\ s.by # "layout" THEN MxForget(s.to) ELSE mxDrafts
          /\ IF ok /\ s.then # {} /\ MxTaken(s, ok).table.of # {}
             THEN \E t \in s.then : MxGoTo(MxTaken(s, ok), t.target, mxSaves \ {s})
             ELSE /\ mxView' = MxTaken(s, ok) /\ mxSaves' = mxSaves \ {s}
                  /\ UNCHANGED <<mxLoads, mxCounts>>
    /\ UNCHANGED mxServer
-----------------------------------------------------------------------------
(* The view of the permissions *)

\* computeMultipleTableState: 2 when the selected datasets differ.
computeMultipleTableState(v, of) ==
    IF \A d \in of : v.perms[d] = 1 THEN 1 ELSE IF \A d \in of : v.perms[d] = 0 THEN 0 ELSE 2

\* syncTables with a new selection: the table of before is destroyed, its draft with it, and
\* what is granted comes from the permissions read last.
syncTables(v, sel) ==
    LET drafts == MxForget(v.table.of)
    IN  /\ mxView' = [v EXCEPT !.current = sel,
              !.table = IF sel = {} THEN NoTable
                        ELSE createVanillaCheckboxTable(
                               sel, [of |-> 0, val |-> computeMultipleTableState(v, sel)],
                               drafts[sel])]
        /\ mxDrafts' = drafts

\* Mutant: the selection is taken over before the changes are asked about.
SelectFirst(v, sel, filter) ==
    [v EXCEPT !.current = sel, !.confirm = [asked |-> TRUE, target |-> sel, filter |-> filter]]

\* handleUnsavedChanges: the selection, or the filter, waits for the answer.
handleUnsavedChanges(v, sel, filter) ==
    [v EXCEPT !.confirm = [asked |-> TRUE, target |-> sel, filter |-> filter]]

\* syncTables without a new selection: the rows are set again in the same table.
MxSetRows(v) ==
    LET rows == [of |-> 0, val |-> computeMultipleTableState(v, v.current)]
    IN  /\ mxView' = [v EXCEPT !.table.base = rows, !.table.draft = rows]
        /\ mxDrafts' = MxForget(v.table.of)

\* What waited goes on: the new filter, or the new selection, which replaces the table.
MxGoOn(v, t, saves) ==
    IF t.filter THEN MxSetRows(v) /\ mxSaves' = saves
    ELSE syncTables(v, t.target) /\ mxSaves' = MxLeft(saves)

MxCheckDatasets ==
    /\ MxPermissions /\ ~mxView.confirm.asked
    /\ \E sel \in (SUBSET MxDatasets) \ {mxView.current} :
          /\ MxEdited
          /\ IF isDirty(mxView.table)
             THEN mxView' = handleUnsavedChanges(mxView, sel, FALSE) /\ UNCHANGED <<mxSaves, mxDrafts>>
             ELSE syncTables(mxView, sel) /\ mxSaves' = MxLeft(mxSaves)
    /\ UNCHANGED <<mxServer, mxLoads>>

\* A search term or the endpoint filter changed.
applySearchAndFilterChanges ==
    /\ MxPermissions /\ ~mxView.confirm.asked /\ mxView.current # {} /\ MxEdited
    /\ IF isDirty(mxView.table)
       THEN mxView' = handleUnsavedChanges(mxView, mxView.current, TRUE) /\ UNCHANGED mxDrafts
       ELSE MxSetRows(mxView)
    /\ UNCHANGED <<mxServer, mxLoads, mxSaves>>

MxPermissionsDiscard ==
    /\ MxPermissions /\ mxView.confirm.asked
    /\ MxGoOn([MxAnswered EXCEPT !.table = cancelChanges(@)], mxView.confirm, mxSaves)
    /\ UNCHANGED <<mxServer, mxLoads, mxCounts>>

\* The changes are saved first, unless a save is under way or was answered meanwhile: then it goes on at once.
MxPermissionsConfirm ==
    /\ MxPermissions /\ mxView.confirm.asked
    /\ IF mxView.table.saving \/ ~isDirty(mxView.table)
       THEN MxGoOn(MxAnswered, mxView.confirm, mxSaves) /\ UNCHANGED mxCounts
       ELSE /\ saveChanges(MxAnswered, "view", MxThen)
            /\ UNCHANGED mxDrafts
    /\ UNCHANGED <<mxServer, mxLoads>>

\* The rest of onSave: the permissions are read again, the table that was saved is not built again.
MxRead(s, ok) ==
    LET v0 == IF ok THEN [mxView EXCEPT !.perms = [d \in MxDatasets |-> mxServer[d].rows.val]] ELSE mxView
    IN  IF ~s.mine THEN v0
        ELSE [v0 EXCEPT !.table = IF ok THEN MxTableSaved(@) ELSE MxTableFailed(@)]

\* A save is answered; what waited for it goes on, but not after a save that failed.
MxPermissionsSaved ==
    /\ MxPermissions
    /\ \E s \in mxSaves, ok \in BOOLEAN :
          /\ ok => s.pc = "stored"
          /\ IF ok /\ s.then # {}
             THEN \E t \in s.then : MxGoOn(MxRead(s, ok), t, mxSaves \ {s})
             ELSE /\ mxView' = MxRead(s, ok) /\ mxSaves' = mxSaves \ {s}
                  /\ mxDrafts' = IF ok THEN MxForget(s.to) ELSE mxDrafts
    /\ UNCHANGED <<mxServer, mxLoads, mxCounts>>

\* The page is loaded again, once its requests are answered: only the drafts are left.
MxReopen ==
    /\ mxView.current # {} /\ mxLoads = {} /\ mxSaves = {} /\ ~mxView.confirm.asked
    /\ mxView' = [MxView(mxView.kind) EXCEPT !.perms = [d \in MxDatasets |-> mxServer[d].rows.val]]
    /\ UNCHANGED <<mxServer, mxLoads, mxSaves, mxDrafts, mxCounts>>

MxNext ==
    \/ handleCellInputChange \/ setEditMode \/ MxCancel \/ MxSaveButton
    \/ \E s \in mxSaves : MxStored(s)
    \/ MxSelect \/ MxDiscard \/ MxConfirm \/ MxLayoutSave \/ MxLayoutChange
    \/ MxLoadAnswer \/ MxSaveAnswer
    \/ MxCheckDatasets \/ applySearchAndFilterChanges \/ MxPermissionsDiscard
    \/ MxPermissionsConfirm \/ MxPermissionsSaved \/ MxReopen
-----------------------------------------------------------------------------
(* Properties *)

MxTypeOK ==
    /\ mxView.current \subseteq MxDatasets /\ mxView.table.of \subseteq MxDatasets
    /\ mxView.layout \in 0..1 /\ mxView.perms \in [MxDatasets -> 0..2]
    /\ mxServer \in [MxDatasets -> [rows : [of : 0..2, val : 0..2], layout : 0..1]]
    /\ mxDrafts \in [MxKeys -> 0..2]
    /\ \A s \in mxSaves : s.to \subseteq MxDatasets /\ s.pc \in {"sent", "stored"}

\* A table only saves the rows it shows, to the datasets it was built for: never the rows or the ticks
\* of one dataset to another, whatever the user selects while loads, saves and the question about
\* unsaved changes are under way.  For the cards not so once a cell was changed or the dataset was left
\* while a save was on its way, which the view allows: the table may then be left changed when the
\* next one is selected, and be saved to that one.
MxSavedWhereShown ==
    /\ MxPermissions => \A s \in mxSaves : s.mine => s.to = mxView.table.of
    /\ MxCards => \/ mxCounts.overtook
                  \/ \A s \in mxSaves : s.to = {s.rows.of} /\ (s.mine => s.to = mxView.table.of)
=============================================================================
