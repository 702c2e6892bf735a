------------------------------ MODULE TabConfig ------------------------------
(***************************************************************************)
(* The admin view that orders and hides the tabs of a table's article: one   *)
(* for the table that refers to it, and the comments.  A table is chosen in  *)
(* the tree; the tabs are changed in edit mode and saved as one list, whose  *)
(* rows the server adds or updates.  A save that fails has stored nothing.   *)
(***************************************************************************)
EXTENDS Integers, FiniteSets

CONSTANTS TbMaxChoices,  \* bound: tables chosen
          TbMaxInputs,   \* bound: tabs moved or hidden
          TbMaxCalls     \* bound: loads and saves under way once the save button is pressed

VARIABLES
    tbServer,  \* the rows stored for each table
    tbUi,      \* the table chosen, its tabs as shown and as last stored, the mode, the question asked
    tbCalls,   \* loads and saves under way
    tbCounts   \* choices and inputs so far
tbVars == <<tbServer, tbUi, tbCalls, tbCounts>>

TbTables == {"p", "q"}
NoneChosen == "none"
Referring == [p |-> "p1", q |-> "q1"]
Comments == "comments"
TabKeys == {"p1", "q1", Comments}
TbOwnKeys(t) == {Referring[t], Comments}
NoTabs == <<>>
TbTab == [key : TabKeys, hidden : BOOLEAN]
TabsOf(t) == {tabs \in [1..2 -> TbTab] : {tabs[1].key, tabs[2].key} = TbOwnKeys(t)}

\* The rows of a table, by tab; a tab without a row has place 0.
TbRows == [TabKeys -> [place : 0..2, hidden : BOOLEAN]]
TbNoRows == [k \in TabKeys |-> [place |-> 0, hidden |-> FALSE]]

\* SaveChildTabConfigHandler: each tab's row is added or updated, the others stay.
TbStored(rows, tabs) == [rows EXCEPT ![tabs[1].key] = [place |-> 1, hidden |-> tabs[1].hidden],
                                     ![tabs[2].key] = [place |-> 2, hidden |-> tabs[2].hidden]]

\* loadConfigForTable: the table's own tabs, each as stored, or else shown, the comments last.
TbPlace(rows, k) == IF rows[k].place # 0 THEN rows[k].place ELSE IF k = Comments THEN 2 ELSE 1
TbMerged(t, rows) ==
    [i \in 1..2 |-> LET swapped == TbPlace(rows, Comments) < TbPlace(rows, Referring[t])
                        key == IF (i = 1) = swapped THEN Comments ELSE Referring[t]
                    IN  [key |-> key, hidden |-> rows[key].hidden]]

TbInit ==
    /\ tbServer = [t \in TbTables |-> TbNoRows]
    /\ tbUi = [table |-> NoneChosen, tabs |-> NoTabs, original |-> NoTabs, edit |-> FALSE, dirty |-> FALSE,
               question |-> "none", next |-> NoneChosen, overlap |-> FALSE]
    /\ tbCalls = {}
    /\ tbCounts = [choices |-> 0, inputs |-> 0]

TbInput == tbCounts.inputs < TbMaxInputs /\ tbCounts' = [tbCounts EXCEPT !.inputs = @ + 1]
TbCall(kind, t, tabs, next) ==
    [kind |-> kind, table |-> t, tabs |-> tabs, next |-> next, served |-> FALSE, ok |-> TRUE]
TbIdle == tbUi.question = "none"  \* no modal covers the page
SomethingToSave == tbUi.table # NoneChosen /\ tbUi.tabs # NoTabs  \* else doSave returns at once
-----------------------------------------------------------------------------
(* A table is chosen *)

\* The tabs of the table before are gone at once, those of the new one arrive.
loadConfigForTable(u, t, pending) == [u EXCEPT !.table = t, !.tabs = NoTabs, !.original = NoTabs, !.dirty = FALSE,
                                      !.overlap = @ \/ pending # {}]
TbLoad(t) == IF t = NoneChosen THEN {} ELSE {TbCall("load", t, NoTabs, NoneChosen)}

\* The answer to a question: the modal closes.
TbAnswered == [tbUi EXCEPT !.question = "none", !.next = NoneChosen]

chooseTable(t) ==
    /\ TbIdle /\ (t # tbUi.table \/ t = NoneChosen) /\ tbCounts.choices < TbMaxChoices
    /\ tbCounts' = [tbCounts EXCEPT !.choices = @ + 1]
    /\ IF tbUi.dirty
       THEN tbUi' = [tbUi EXCEPT !.question = "leave", !.next = t] /\ UNCHANGED tbCalls
       ELSE tbUi' = loadConfigForTable(tbUi, t, tbCalls) /\ tbCalls' = tbCalls \cup TbLoad(t)
    /\ UNCHANGED tbServer

\* Unsaved changes: they are saved first, or dropped; with nothing to save, saving leaves like dropping.
DropAndLeave ==
    /\ tbUi.question = "leave"
    /\ tbUi' = loadConfigForTable(TbAnswered, tbUi.next, tbCalls)
    /\ tbCalls' = tbCalls \cup TbLoad(tbUi.next)
    /\ UNCHANGED <<tbServer, tbCounts>>
SaveAndLeave ==
    /\ tbUi.question = "leave" /\ SomethingToSave
    /\ tbUi' = TbAnswered
    /\ tbCalls' = tbCalls \cup {TbCall("leave", tbUi.table, tbUi.tabs, tbUi.next)}
    /\ UNCHANGED <<tbServer, tbCounts>>

TbArrives(c) ==
    /\ c.kind = "load" /\ c.served
    /\ tbUi' = [tbUi EXCEPT !.tabs = IF c.ok THEN c.tabs ELSE NoTabs, !.original = IF c.ok THEN c.tabs ELSE NoTabs]
    /\ tbCalls' = tbCalls \ {c}
    /\ UNCHANGED <<tbServer, tbCounts>>
-----------------------------------------------------------------------------
(* Edit mode *)

startEditing ==
    /\ TbIdle /\ ~tbUi.edit
    /\ tbUi' = [tbUi EXCEPT !.edit = TRUE]
    /\ UNCHANGED <<tbServer, tbCalls, tbCounts>>
leaveEditMode ==
    /\ TbIdle /\ tbUi.edit
    /\ tbUi' = IF tbUi.dirty THEN [tbUi EXCEPT !.question = "edit"] ELSE [tbUi EXCEPT !.edit = FALSE]
    /\ UNCHANGED <<tbServer, tbCalls, tbCounts>>

\* Dropped: the tabs are those last stored.
KeepEdits == [TbAnswered EXCEPT !.dirty = FALSE, !.edit = FALSE]
DropEdits == [TbAnswered EXCEPT !.tabs = tbUi.original, !.dirty = FALSE, !.edit = FALSE,
                                !.overlap = @ \/ tbCalls # {}]
dropChanges ==
    /\ tbUi.question = "edit"
    /\ tbUi' = DropEdits
    /\ UNCHANGED <<tbServer, tbCalls, tbCounts>>
saveAndStop ==
    /\ tbUi.question = "edit"
    /\ tbUi' = [TbAnswered EXCEPT !.edit = SomethingToSave]
    /\ tbCalls' = IF SomethingToSave THEN tbCalls \cup {TbCall("stop", tbUi.table, tbUi.tabs, NoneChosen)} ELSE tbCalls
    /\ UNCHANGED <<tbServer, tbCounts>>

\* A tab is hidden or shown, or dragged to the place of the other.
TbChanged(tabs) == [tbUi EXCEPT !.tabs = tabs, !.dirty = TRUE, !.overlap = @ \/ tbCalls # {}]
hideTab(i) ==
    /\ TbIdle /\ tbUi.edit /\ tbUi.tabs # NoTabs /\ TbInput
    /\ tbUi' = TbChanged([tbUi.tabs EXCEPT ![i].hidden = ~@])
    /\ UNCHANGED <<tbServer, tbCalls>>
moveTab ==
    /\ TbIdle /\ tbUi.edit /\ tbUi.tabs # NoTabs /\ TbInput
    /\ tbUi' = TbChanged([i \in 1..2 |-> tbUi.tabs[3 - i]])
    /\ UNCHANGED <<tbServer, tbCalls>>

\* doSave, with the table and the tabs of the moment.
doSaveTabs ==
    /\ TbIdle /\ tbUi.edit /\ SomethingToSave /\ Cardinality(tbCalls) < TbMaxCalls
    /\ tbCalls' = tbCalls \cup {TbCall("save", tbUi.table, tbUi.tabs, NoneChosen)}
    /\ UNCHANGED <<tbServer, tbUi, tbCounts>>

TbServed(c, ok) ==
    /\ ~c.served
    /\ tbServer' = IF c.kind # "load" /\ ok THEN [tbServer EXCEPT ![c.table] = TbStored(@, c.tabs)] ELSE tbServer
    /\ tbCalls' = (tbCalls \ {c}) \cup
                    {[c EXCEPT !.served = TRUE, !.ok = ok,
                               !.tabs = IF c.kind = "load" THEN TbMerged(c.table, tbServer[c.table]) ELSE @]}
    /\ UNCHANGED <<tbUi, tbCounts>>

\* A save that succeeded makes the tabs shown by then the stored ones and ends the edit mode; one
\* asked for on leaving the edit mode or a table does so also when it failed.
TbSaved(c) ==
    /\ c.kind # "load" /\ c.served
    /\ LET saved == IF c.ok THEN [tbUi EXCEPT !.original = tbUi.tabs, !.dirty = FALSE, !.edit = FALSE] ELSE tbUi
       IN  tbUi' = CASE c.kind = "save" -> saved
                     [] c.kind = "stop" -> [saved EXCEPT !.edit = FALSE]
                     [] c.kind = "leave" -> loadConfigForTable(saved, c.next, tbCalls \ {c})
    /\ tbCalls' = (tbCalls \ {c}) \cup (IF c.kind = "leave" THEN TbLoad(c.next) ELSE {})
    /\ UNCHANGED <<tbServer, tbCounts>>

TbNext ==
    \/ \E t \in TbTables \cup {NoneChosen} : chooseTable(t)
    \/ DropAndLeave \/ SaveAndLeave
    \/ startEditing \/ leaveEditMode \/ dropChanges \/ saveAndStop \/ moveTab \/ doSaveTabs
    \/ \E i \in 1..2 : hideTab(i)
    \/ \E c \in tbCalls : (\E ok \in BOOLEAN : TbServed(c, ok)) \/ TbArrives(c) \/ TbSaved(c)
-----------------------------------------------------------------------------
TabLists == {NoTabs} \cup [1..2 -> TbTab]
TbChoices == TbTables \cup {NoneChosen}
TbUiSet == [table : TbChoices, tabs : TabLists, original : TabLists, edit : BOOLEAN, dirty : BOOLEAN,
            question : {"none", "leave", "edit"}, next : TbChoices, overlap : BOOLEAN]
TbCallSet == [kind : {"load", "save", "stop", "leave"}, table : TbTables, tabs : TabLists, next : TbChoices,
              served : BOOLEAN, ok : BOOLEAN]
TbTypeOK ==
    /\ tbServer \in [TbTables -> TbRows]
    /\ tbUi \in TbUiSet
    /\ tbCalls \subseteq TbCallSet
    /\ tbCounts \in [choices : 0..TbMaxChoices, inputs : 0..TbMaxInputs]

\* Unless a table is chosen, or a tab is changed or changed back, while a load or a save is under way, what is
\* stored for a table are that table's own tabs; and with nothing under way the tabs shown are
\* those stored for the table, or the defaults, unless there are changes still marked as unsaved.
TbStoredForItsTable ==
    ~tbUi.overlap =>
       /\ \A t \in TbTables : \A k \in TabKeys : tbServer[t][k].place # 0 => k \in TbOwnKeys(t)
       /\ tbCalls = {} /\ tbUi.tabs # NoTabs =>
             /\ tbUi.tabs \in TabsOf(tbUi.table)
             /\ tbUi.dirty \/ tbUi.tabs = TbMerged(tbUi.table, tbServer[tbUi.table])
=============================================================================
