--------------------------------- MODULE Grid ---------------------------------
(***************************************************************************)
(* The rows of a dataset as a table (batches appended while scrolling) or   *)
(* as a list (one array, sorted and rendered again in the browser): cells   *)
(* are edited in place, shown as typed at once and saved by a request whose *)
(* failure puts the old text back; ranges of cells are marked and copied.   *)
(* One column is modelled; a cell has a text, its row object has a value.   *)
(***************************************************************************)
EXTENDS Integers, Sequences, FiniteSets

CONSTANTS GrMaxEdits,    \* bound: edits that are sent
          GrMaxRenders   \* bound: rows loaded again, batches appended, sorts

VARIABLES
    grView,     \* what is rendered, the row objects and the marked cells
    grEdit,     \* the open editor
    grSent,     \* updates under way
    grServer,   \* the stored values
    grCounts    \* edits and renders so far, and the rows whose edits overlapped
grVars == <<grView, grEdit, grSent, grServer, grCounts>>

GrRows == 1..3
GrValues == 0..1
NoEditor == [open |-> FALSE, pos |-> 0, array |-> <<>>, index |-> 0, old |-> 0, text |-> 0]

\* The rendered rows, top to bottom: the batch of each and its index in it.
GrDom(v) ==
    LET n == Len(v.batches[1])
    IN  [p \in 1..(n + IF Len(v.batches) = 2 THEN Len(v.batches[2]) ELSE 0) |->
           IF p <= n THEN [batch |-> 1, index |-> p] ELSE [batch |-> 2, index |-> p - n]]

\* Mutant: every cell listens with the rows the table was built from.
FirstBatch(v, p) == v.batches[1]

\* The array a cell hands to editCell: the batch its row came in, or the rows shown in the list.
GrArray(v, p) == v.batches[GrDom(v)[p].batch]

\* createDataCell: the row index of a cell counts within its batch.
GrIndex(v, p) == GrDom(v)[p].index
GrShownRow(v, p) == v.batches[GrDom(v)[p].batch][GrIndex(v, p)]
GrPositions(v) == DOMAIN GrDom(v)

\* getTableCellByCoordinate: the first rendered row with that index.
GrFirstAt(v, i) == CHOOSE p \in GrPositions(v) :
                      /\ GrIndex(v, p) = i
                      /\ \A q \in GrPositions(v) : GrIndex(v, q) = i => p <= q

\* The rows of the first page; the others come later.
GrRendered(kind, rows, stored) ==
    [kind |-> kind, batches |-> <<rows>>, text |-> stored, obj |-> stored,
     marked |-> {}, from |-> 0, menu |-> FALSE]

GrInit ==
    /\ \E kind \in {"table", "list"} : grView = GrRendered(kind, <<1, 2>>, [r \in GrRows |-> 0])
    /\ grEdit = NoEditor /\ grSent = {}
    /\ grServer = [r \in GrRows |-> 0]
    /\ grCounts = [edits |-> 0, renders |-> 0, overlapped |-> {}]

GrRender == grCounts.renders < GrMaxRenders
              /\ grCounts' = [grCounts EXCEPT !.renders = @ + 1]
-----------------------------------------------------------------------------
(* Editing a cell *)

\* editCell: a row that the array does not have is not edited.
editCell(p) ==
    /\ ~grEdit.open
    /\ GrIndex(grView, p) \in DOMAIN GrArray(grView, p)
    /\ LET a == GrArray(grView, p)
           i == GrIndex(grView, p)
       IN /\ grEdit' = [open |-> TRUE, pos |-> p, array |-> a, index |-> i,
                      old |-> grView.obj[a[i]], text |-> grView.text[GrShownRow(grView, p)]]
          /\ grCounts' = IF \E s \in grSent : s.row = a[i]
                          THEN [grCounts EXCEPT !.overlapped = @ \cup {a[i]}] ELSE grCounts
    /\ grView' = [grView EXCEPT !.marked = {}, !.menu = FALSE]
    /\ UNCHANGED <<grSent, grServer>>

GrEditedRow == grEdit.array[grEdit.index]

\* The editor closes with a value: shown at once, sent when it differs from the object's.
GrCommit(value, shown, live) ==
    IF value = grEdit.old
    THEN /\ grView' = [shown EXCEPT !.marked = IF live THEN {grEdit.pos} ELSE @]
         /\ UNCHANGED <<grSent, grCounts>>
    ELSE /\ grCounts.edits < GrMaxEdits
         /\ grCounts' = [grCounts EXCEPT !.edits = @ + 1]
         /\ grSent' = grSent \cup {[row |-> GrEditedRow, value |-> value, text |-> grEdit.text,
                                    shown |-> GrShownRow(grView, grEdit.pos), live |-> live,
                                    pc |-> "sent"]}
         /\ grView' = shown

\* blur of the input, a chosen option: handleRegularEditing, handleOptionEditing, selectOption.
GrBlur ==
    /\ grEdit.open
    /\ \E value \in GrValues :
          GrCommit(value, [grView EXCEPT !.text[GrShownRow(grView, grEdit.pos)] = value], TRUE)
    /\ grEdit' = NoEditor
    /\ UNCHANGED grServer

\* Escape, a click outside the dropdown, a value that cannot be serialised: the old text.
restoreOriginalSelection ==
    /\ grEdit.open
    /\ grView' = [grView EXCEPT !.text[GrShownRow(grView, grEdit.pos)] = grEdit.text,
                                !.marked = {grEdit.pos}]
    /\ grEdit' = NoEditor
    /\ UNCHANGED <<grSent, grServer, grCounts>>

\* sendUpdateRequest: the server stores the value, or the request fails before or after that.
GrStored(s) ==
    /\ s.pc = "sent"
    /\ grServer' = [grServer EXCEPT ![s.row] = s.value]
    /\ grSent' = (grSent \ {s}) \cup {[s EXCEPT !.pc = "stored"]}
    /\ UNCHANGED <<grView, grEdit, grCounts>>

\* The update answered: the row object of then takes the value.
GrSaved(s) ==
    /\ s.pc = "stored"
    /\ grView' = IF s.live THEN [grView EXCEPT !.obj[s.row] = s.value] ELSE grView
    /\ grSent' = grSent \ {s}
    /\ UNCHANGED <<grEdit, grServer, grCounts>>

\* The update failed: the text of before the edit is put back, which also removes an editor
\* opened on that cell since then.
GrFailed(s) ==
    LET hit == s.live /\ grEdit.open /\ GrShownRow(grView, grEdit.pos) = s.shown
    IN  /\ grView' = IF s.live THEN [grView EXCEPT !.text[s.shown] = s.text] ELSE grView
        /\ grSent' = grSent \ {s}
        /\ grEdit' = IF hit THEN NoEditor ELSE grEdit
        /\ grCounts' = IF hit THEN [grCounts EXCEPT !.overlapped = @ \cup {s.row}] ELSE grCounts
        /\ UNCHANGED grServer
-----------------------------------------------------------------------------
(* Rendering again *)

\* What a render leaves of the updates under way and of the editor: their cells are gone; a
\* browser may still commit the editor that is removed.
GrDetach(v) ==
    /\ \/ /\ grEdit' = NoEditor
          /\ grView' = v
          /\ grSent' = {[s EXCEPT !.live = FALSE] : s \in grSent}
       \/ /\ grEdit.open
          /\ \E value \in GrValues \ {grEdit.old} :
                grSent' = {[s EXCEPT !.live = FALSE] : s \in grSent}
                            \cup {[row |-> GrEditedRow, value |-> value, text |-> grEdit.text,
                                   shown |-> GrShownRow(grView, grEdit.pos), live |-> FALSE,
                                   pc |-> "sent"]}
          /\ grEdit' = NoEditor
          /\ grView' = v

\* setData, a new table: the rows of the server.
GrReload ==
    /\ GrRender
    /\ GrDetach(GrRendered(grView.kind, <<1, 2>>, grServer))
    /\ UNCHANGED grServer

\* sortData: the data of the list is sorted in place and rendered from the row objects; the
\* editor was left by the click.  An edit keeps the array and the objects it was given.
sortData ==
    /\ grView.kind = "list" /\ ~grEdit.open /\ grCounts.renders < GrMaxRenders
    /\ LET a == grView.batches[1]
       IN  grView' = [grView EXCEPT !.batches = <<[i \in DOMAIN a |-> a[Len(a) + 1 - i]]>>,
                                    !.text = grView.obj, !.marked = {}, !.menu = FALSE]
    /\ grCounts' = [grCounts EXCEPT !.renders = @ + 1,
                                    !.overlapped = @ \cup {s.row : s \in grSent}]
    /\ UNCHANGED <<grEdit, grSent, grServer>>

\* appendDataToTable: the next batch, with listeners and indexes of its own.
appendDataToTable ==
    /\ grView.kind = "table" /\ Len(grView.batches) = 1 /\ GrRender
    /\ grView' = [grView EXCEPT !.batches = <<@[1], <<3>>>>,
                                !.text[3] = grServer[3], !.obj[3] = grServer[3]]
    /\ UNCHANGED <<grEdit, grSent, grServer>>
-----------------------------------------------------------------------------
(* Marking and copying *)

\* highlightTableRange and highlightRange: the rows between two indexes, the first of each.
highlightRange(v, i, j) ==
    {GrFirstAt(v, k) : k \in {k \in 1..Len(v.batches[1]) : (i <= k /\ k <= j) \/ (j <= k /\ k <= i)}}

onMouseDown(p) ==
    /\ ~grEdit.open
    /\ grView' = [grView EXCEPT !.from = GrIndex(grView, p), !.menu = FALSE,
                     !.marked = highlightRange(grView, GrIndex(grView, p), GrIndex(grView, p))]
    /\ UNCHANGED <<grEdit, grSent, grServer, grCounts>>

onMouseMove(p) ==
    /\ grView.from # 0
    /\ grView' = [grView EXCEPT !.marked = highlightRange(grView, grView.from, GrIndex(grView, p))]
    /\ UNCHANGED <<grEdit, grSent, grServer, grCounts>>

onMouseUp ==
    /\ grView.from # 0
    /\ grView' = [grView EXCEPT !.from = 0]
    /\ UNCHANGED <<grEdit, grSent, grServer, grCounts>>

\* handleKeyDown: the row index goes by one within the rows rendered; the first row with it.
handleKeyDown ==
    /\ Cardinality(grView.marked) = 1 /\ ~grEdit.open
    /\ \E p \in grView.marked, d \in {-1, 1} :
          LET i == GrIndex(grView, p) + d
          IN  /\ \E q \in GrPositions(grView) : GrIndex(grView, q) = i
              /\ grView' = [grView EXCEPT !.marked = {GrFirstAt(grView, i)}]
    /\ UNCHANGED <<grEdit, grSent, grServer, grCounts>>

\* onContextMenu over marked cells; copying closes the menu and changes no row.
onContextMenu ==
    /\ grView.marked # {} /\ ~grView.menu
    /\ grView' = [grView EXCEPT !.menu = TRUE]
    /\ UNCHANGED <<grEdit, grSent, grServer, grCounts>>

copySelected ==
    /\ grView.menu
    /\ grView' = [grView EXCEPT !.menu = FALSE]
    /\ UNCHANGED <<grEdit, grSent, grServer, grCounts>>

GrNext ==
    \/ \E p \in GrPositions(grView) : editCell(p) \/ onMouseDown(p) \/ onMouseMove(p)
    \/ GrBlur \/ restoreOriginalSelection
    \/ \E s \in grSent : GrStored(s) \/ GrSaved(s) \/ GrFailed(s)
    \/ GrReload \/ sortData \/ appendDataToTable
    \/ onMouseUp \/ handleKeyDown \/ onContextMenu \/ copySelected
-----------------------------------------------------------------------------
(* Properties *)

GrTypeOK ==
    /\ grView.text \in [GrRows -> GrValues] /\ grView.obj \in [GrRows -> GrValues]
    /\ grView.marked \subseteq GrPositions(grView)
    /\ grServer \in [GrRows -> GrValues] /\ grCounts.overlapped \subseteq GrRows
    /\ \A s \in grSent : s.row \in GrRows /\ s.value \in GrValues /\ s.pc \in {"sent", "stored"}

\* Through batches that count their rows anew, sorts and reloads: the row an edit is saved to
\* is the row whose cell was edited; and once its updates have been answered a cell shows
\* the value of its row object, unless two edits of it, or an edit and a sort, overlapped.
GrEditsHitTheirRow ==
    /\ \A s \in grSent : s.row = s.shown
    /\ \A r \in GrRows \ grCounts.overlapped :
          \/ grView.text[r] = grView.obj[r]
          \/ \E s \in grSent : s.row = r /\ s.live
=============================================================================
