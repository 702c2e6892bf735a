---------------------------- MODULE ColumnManager ----------------------------
(***************************************************************************)
(* The dialog that renames, removes and adds the columns of a table.  What   *)
(* the user has chosen of the table (its order, its filters, the columns     *)
(* hidden and the filters opened) is kept in the browser by column name, and *)
(* is rewritten when the server has answered.                                *)
(***************************************************************************)
EXTENDS Naturals, Sequences
LOCAL INSTANCE SequencesExt

CONSTANTS CgMaxSaves,   \* bound: saves sent
          CgMaxEdits,   \* bound: rows edited
          CgMaxChoices  \* bound: choices made in the table

VARIABLES
    cgServer,  \* the name of each column at the server
    cgLocal,   \* the order and filters, the hidden columns and the opened filters, by name
    cgWanted,  \* the column ordered by, and the columns chosen, as the user meant them
    cgScreen,  \* the names in the table on the page, and whether its refresh is under way
    cgForm,    \* the dialog: the columns it was opened with, its rows, and the name of a new column
    cgCalls,   \* saves under way
    cgCounts   \* saves, edits and choices so far, and whether something came between them
cgVars == <<cgServer, cgLocal, cgWanted, cgScreen, cgForm, cgCalls, cgCounts>>

Columns == 1..3               \* the third is one that may be added
Names == {"a", "b", "c"}
NoColumn == 0
NoName == ""                  \* no order, no column of that id, a row removed from the form, no new column
NameOf(id) == IF id = NoColumn THEN NoName ELSE cgServer[id]
Named(ids) == {cgServer[id] : id \in ids} \ {NoName}

Chosen(sort, names) == [sort |-> sort, filters |-> names, hidden |-> names, opened |-> names]
CgInit ==
    /\ cgServer = <<"a", "b", NoName>>
    /\ cgWanted \in [sort : {NoColumn, 1, 2}, chosen : SUBSET {1, 2}]
    /\ cgLocal = Chosen(NameOf(cgWanted.sort), Named(cgWanted.chosen))
    /\ cgScreen = [names |-> cgServer, stale |-> FALSE]
    /\ cgForm = [pc |-> "closed", initial |-> cgServer, rows |-> cgServer, added |-> NoName]
    /\ cgCalls = {}
    /\ cgCounts = [saves |-> 0, edits |-> 0, choices |-> 0, between |-> FALSE]
-----------------------------------------------------------------------------
(* The dialog *)

\* Its columns are those of the server when they were fetched: with a save under way, perhaps no more.
fetch_columns_for_table ==
    /\ cgForm.pc = "closed"
    /\ cgForm' = [pc |-> "fetched", initial |-> cgServer, rows |-> cgServer, added |-> NoName]
    /\ cgCounts' = [cgCounts EXCEPT !.between = @ \/ cgCalls # {}]
    /\ UNCHANGED <<cgServer, cgLocal, cgWanted, cgScreen, cgCalls>>
open_column_management_modal ==
    /\ cgForm.pc = "fetched"
    /\ cgForm' = [cgForm EXCEPT !.pc = "open"]
    /\ UNCHANGED <<cgServer, cgLocal, cgWanted, cgScreen, cgCalls, cgCounts>>

Edit ==
    /\ cgForm.pc = "open" /\ cgCounts.edits < CgMaxEdits
    /\ cgCounts' = [cgCounts EXCEPT !.edits = @ + 1]
    /\ UNCHANGED <<cgServer, cgLocal, cgWanted, cgScreen, cgCalls>>
editRow(id, name) ==
    /\ Edit /\ cgForm.rows[id] # NoName
    /\ cgForm' = [cgForm EXCEPT !.rows[id] = name]
removeRow(id) == editRow(id, NoName)
nameNewColumn(name) ==
    /\ Edit
    /\ cgForm' = [cgForm EXCEPT !.added = name]
cancelColumns ==
    /\ cgForm.pc = "open"
    /\ cgForm' = [cgForm EXCEPT !.pc = "closed"]
    /\ UNCHANGED <<cgServer, cgLocal, cgWanted, cgScreen, cgCalls, cgCounts>>

\* What is sent: names removed, renames in the order of the columns, the name added.  (A name typed
\* for a column whose type the form cannot show is left out, as if it had not been typed.)
removed_columns == {cgForm.initial[id] : id \in {c \in Columns : cgForm.rows[c] = NoName}} \ {NoName}
Rename(id) == [old |-> cgForm.initial[id], new |-> cgForm.rows[id]]
modified_columns ==
    LET Changed(id) == cgForm.rows[id] \notin {NoName, cgForm.initial[id]}
    IN [i \in 1..Len(SelectSeq(<<1, 2, 3>>, Changed)) |-> Rename(SelectSeq(<<1, 2, 3>>, Changed)[i])]

\* The button stays enabled while a save is under way.
submitColumns ==
    /\ cgForm.pc = "open" /\ cgCounts.saves < CgMaxSaves
    /\ cgCounts' = [cgCounts EXCEPT !.saves = @ + 1, !.between = @ \/ cgCalls # {}]
    /\ cgCalls' = cgCalls \cup {[id |-> cgCounts.saves, pc |-> "sent", removed |-> removed_columns,
                                 renamed |-> modified_columns, added |-> cgForm.added]}
    /\ UNCHANGED <<cgServer, cgLocal, cgWanted, cgScreen, cgForm>>
-----------------------------------------------------------------------------
(* The server *)

\* Each statement fails on a name that is not there, or is there already; the first error rolls back them all.
Refused == <<>>
Has(t, name) == name \in {t[id] : id \in DOMAIN t}
RemoveColumns(t, names) ==
    IF \E n \in names : ~Has(t, n) THEN Refused ELSE [id \in Columns |-> IF t[id] \in names THEN NoName ELSE t[id]]
UpdateColumn(t, r) ==
    IF t = Refused \/ ~Has(t, r.old) \/ Has(t, r.new) THEN Refused
    ELSE [id \in Columns |-> IF t[id] = r.old THEN r.new ELSE t[id]]
AddNewColumns(t, name) ==
    IF t = Refused \/ name = NoName THEN t
    ELSE IF Has(t, name) \/ t[3] # NoName THEN Refused ELSE [t EXCEPT ![3] = name]
Modified(c) == AddNewColumns(FoldLeft(UpdateColumn, RemoveColumns(cgServer, c.removed), c.renamed), c.added)

\* A type or a primary key may be another reason to refuse; and the COMMIT that follows an answer of success may fail.
ModifyColumnsHandler(c, how) ==
    /\ c.pc = "sent" /\ (Modified(c) = Refused => how = "failed")
    /\ cgCalls' = (cgCalls \ {c}) \cup {[c EXCEPT !.pc = IF how = "failed" THEN "failed" ELSE "done"]}
    /\ cgServer' = IF how = "done" THEN Modified(c) ELSE cgServer
    /\ cgCounts' = [cgCounts EXCEPT !.between = @ \/ how = "undone"]
    /\ UNCHANGED <<cgLocal, cgWanted, cgScreen, cgForm>>
-----------------------------------------------------------------------------
(* The answer *)

\* renameIndex: every name is looked up once.
RenamedIn(c, n) ==
    IF \E i \in DOMAIN c.renamed : c.renamed[i].old = n
    THEN (CHOOSE r \in {c.renamed[i] : i \in DOMAIN c.renamed} : r.old = n).new
    ELSE n
rewriteStored(c, names) == {RenamedIn(c, n) : n \in names \ c.removed}

\* The hidden columns are rewritten in place, first the removals and then one rename after another.
RenameHidden(names, r) == IF r.old \in names THEN (names \cup {r.new}) \ {r.old} ELSE names
HiddenRenamedFirst(c) == FoldLeft(RenameHidden, cgLocal.hidden, c.renamed) \ c.removed
HiddenAfter(c) == FoldLeft(RenameHidden, cgLocal.hidden \ c.removed, c.renamed)

purgeStaleColumnState(c) ==
    cgLocal' = [sort    |-> IF cgLocal.sort \in c.removed THEN NoName ELSE RenamedIn(c, cgLocal.sort),
                filters |-> rewriteStored(c, cgLocal.filters),
                hidden  |-> HiddenAfter(c),
                opened  |-> rewriteStored(c, cgLocal.opened)]

\* The dialog is hidden, and the table asked for again.
columnsSaved(c) ==
    /\ c.pc = "done"
    /\ purgeStaleColumnState(c)
    /\ cgForm' = [cgForm EXCEPT !.pc = IF @ = "open" THEN "closed" ELSE @]
    /\ cgScreen' = [cgScreen EXCEPT !.stale = TRUE]
    /\ cgCalls' = cgCalls \ {c}
    /\ UNCHANGED <<cgServer, cgWanted, cgCounts>>

\* Refused, or the answer was lost.
columnsNotSaved(c) ==
    /\ cgCalls' = cgCalls \ {c}
    /\ cgCounts' = [cgCounts EXCEPT !.between = @ \/ c.pc # "failed"]
    /\ UNCHANGED <<cgServer, cgLocal, cgWanted, cgScreen, cgForm>>

refreshed ==
    /\ cgScreen.stale
    /\ cgScreen' = [names |-> cgServer, stale |-> FALSE]
    /\ UNCHANGED <<cgServer, cgLocal, cgWanted, cgForm, cgCalls, cgCounts>>
-----------------------------------------------------------------------------
(* Choices made in the table, by the names it shows *)

Toggled(s, x) == (s \ {x}) \cup ({x} \ s)
NamesMayBeOld == cgScreen.stale \/ cgScreen.names # cgServer \/ \E c \in cgCalls : c.pc = "done"
Choice ==
    /\ cgCounts.choices < CgMaxChoices
    /\ cgCounts' = [cgCounts EXCEPT !.choices = @ + 1, !.between = @ \/ NamesMayBeOld]
    /\ UNCHANGED <<cgServer, cgScreen, cgForm, cgCalls>>
orderBy(id) ==
    /\ Choice /\ cgScreen.names[id] # NoName
    /\ cgWanted' = [cgWanted EXCEPT !.sort = id]
    /\ cgLocal' = [cgLocal EXCEPT !.sort = cgScreen.names[id]]
chooseColumns(id) ==
    /\ Choice /\ cgScreen.names[id] # NoName
    /\ cgWanted' = [cgWanted EXCEPT !.chosen = Toggled(@, id)]
    /\ LET n == cgScreen.names[id]
       IN cgLocal' = [sort |-> cgLocal.sort, filters |-> Toggled(cgLocal.filters, n),
                      hidden |-> Toggled(cgLocal.hidden, n), opened |-> Toggled(cgLocal.opened, n)]

CgNext ==
    \/ fetch_columns_for_table \/ open_column_management_modal \/ cancelColumns \/ submitColumns \/ refreshed
    \/ \E id \in Columns : removeRow(id) \/ orderBy(id) \/ chooseColumns(id) \/ \E n \in Names : editRow(id, n)
    \/ \E n \in Names : nameNewColumn(n)
    \/ \E c \in cgCalls : columnsSaved(c) \/ columnsNotSaved(c) \/ \E how \in {"done", "undone", "failed"} : ModifyColumnsHandler(c, how)
-----------------------------------------------------------------------------
CgTypeOK ==
    /\ cgServer \in [Columns -> Names \cup {NoName}]
    /\ cgLocal \in [sort : Names \cup {NoName}, filters : SUBSET Names, hidden : SUBSET Names, opened : SUBSET Names]
    /\ cgWanted \in [sort : {NoColumn} \cup Columns, chosen : SUBSET Columns]
    /\ cgScreen \in [names : [Columns -> Names \cup {NoName}], stale : BOOLEAN]
    /\ cgForm \in [pc : {"closed", "fetched", "open"}, initial : [Columns -> Names \cup {NoName}], rows : [Columns -> Names \cup {NoName}],
                   added : Names \cup {NoName}]
    /\ \A c \in cgCalls : c.pc \in {"sent", "done", "failed"} /\ c.removed \subseteq Names /\ c.added \in Names \cup {NoName}
    /\ cgCounts \in [saves : 0..CgMaxSaves, edits : 0..CgMaxEdits, choices : 0..CgMaxChoices, between : BOOLEAN]

\* When no save is under way, what is kept by name is of the columns the user chose and that still
\* exist: unless saves overlapped, a dialog was opened or an answer lost during a save, a COMMIT failed, or
\* a choice was made by a name of before the last save.
CgChoicesFollow ==
    cgCalls = {} /\ ~cgCounts.between => cgLocal = Chosen(NameOf(cgWanted.sort), Named(cgWanted.chosen))
=============================================================================
