----------------------------- MODULE TriggerForm -----------------------------
(***************************************************************************)
(* The admin form of a trigger: when a row with a certain column value       *)
(* appears in the source table, a row is made in the target table.  The      *)
(* columns offered in the condition and in each action row are fetched when  *)
(* their table is chosen, those of the action rows one row after another.    *)
(***************************************************************************)
EXTENDS Integers, FiniteSets

CONSTANTS TgMaxRows,   \* bound: action rows added
          TgMaxInputs  \* bound: tables chosen, triggers sent

VARIABLES
    tgForm,   \* the tables, the condition, the action rows, and whether inputs overlapped a fetch
    tgCalls,  \* column fetches under way
    tgSent,   \* the trigger sent last
    tgCounts  \* inputs so far
tgVars == <<tgForm, tgCalls, tgSent, tgCounts>>

Sources == {"p", "q"}
NoSource == "none"
NoColumns == "none"
ColumnOf(t) == t              \* a column, named for the table it is of
TextOperators == {"=", "ILIKE"}
NoRowYet == [columns |-> NoColumns, column |-> NoColumns]
NoTrigger == [source |-> NoSource, condition |-> NoColumns, target |-> NoSource, actions |-> {}]

\* setOptions of a dropdown: the columns of one table, and none chosen.
setColumns(t) == [columns |-> t, column |-> NoColumns]

\* One fetch; the rows of "walk" are updated with the answer one after another, each by its own fetch.
ColumnFetch(kind, t, rows) == [kind |-> kind, table |-> t, rows |-> rows]

TgInit ==
    /\ tgForm = [source |-> NoSource, condition |-> NoRowYet, operators |-> {}, operator |-> FALSE, target |-> NoSource,
                 rows |-> [i \in 1..TgMaxRows |-> NoRowYet], shown |-> {1}, overlap |-> FALSE]
    /\ tgCalls = {}
    /\ tgSent = NoTrigger
    /\ tgCounts = [rows |-> 1, inputs |-> 0]

TgInput == tgCounts.inputs < TgMaxInputs /\ tgCounts' = [tgCounts EXCEPT !.inputs = @ + 1]
SourceCalls == {c \in tgCalls : c.kind = "source"}
TargetCalls == {c \in tgCalls : c.kind = "rows"}
-----------------------------------------------------------------------------
(* The condition *)

\* The source is chosen or cleared: its columns are fetched, or none are offered.
chooseSource(t) ==
    /\ TgInput
    /\ IF t = NoSource
       THEN tgForm' = [tgForm EXCEPT !.source = t, !.condition = setColumns(NoColumns), !.overlap = @ \/ SourceCalls # {}]
            /\ UNCHANGED tgCalls
       ELSE tgForm' = [tgForm EXCEPT !.source = t, !.overlap = @ \/ SourceCalls # {}]
            /\ tgCalls' = tgCalls \cup {ColumnFetch("source", t, {})}
    /\ UNCHANGED tgSent

updateColumnsAndOperators(c) ==
    /\ c.kind = "source"
    /\ tgForm' = [tgForm EXCEPT !.condition = setColumns(c.table)]
    /\ tgCalls' = tgCalls \ {c}
    /\ UNCHANGED <<tgSent, tgCounts>>

\* updateOperators: the options of the dropdown are not to be had, so every column is one of text.
chooseColumn ==
    /\ tgForm.condition.columns # NoColumns
    /\ tgForm' = [tgForm EXCEPT !.condition.column = ColumnOf(tgForm.condition.columns), !.operators = TextOperators, !.operator = FALSE]
    /\ UNCHANGED <<tgCalls, tgSent, tgCounts>>
chooseOperator ==
    /\ tgForm.operators # {}
    /\ tgForm' = [tgForm EXCEPT !.operator = TRUE]
    /\ UNCHANGED <<tgCalls, tgSent, tgCounts>>
-----------------------------------------------------------------------------
(* The actions *)

\* Each row on the page gets the columns of the table of the moment; clearing the table leaves the
\* rows as they are.
FirstRowOnly(t) == IF t = NoSource \/ 1 \notin tgForm.shown THEN {} ELSE {ColumnFetch("rows", t, {1})}
updateAllActionColumns(t) == IF t = NoSource \/ tgForm.shown = {} THEN {} ELSE {ColumnFetch("rows", t, tgForm.shown)}

chooseTarget(t) ==
    /\ TgInput
    /\ tgForm' = [tgForm EXCEPT !.target = t, !.overlap = @ \/ TargetCalls # {}]
    /\ tgCalls' = tgCalls \cup updateAllActionColumns(t)
    /\ UNCHANGED tgSent

addActionValueRow ==
    /\ tgCounts.rows < TgMaxRows
    /\ tgCounts' = [tgCounts EXCEPT !.rows = @ + 1]
    /\ tgForm' = [tgForm EXCEPT !.shown = @ \cup {tgCounts.rows + 1}]
    /\ tgCalls' = tgCalls \cup (IF tgForm.target = NoSource THEN {} ELSE {ColumnFetch("rows", tgForm.target, {tgCounts.rows + 1})})
    /\ UNCHANGED tgSent
removeActionRow(i) ==
    /\ i \in tgForm.shown
    /\ tgForm' = [tgForm EXCEPT !.shown = @ \ {i}]
    /\ UNCHANGED <<tgCalls, tgSent, tgCounts>>

\* The answer for the next row of a walk: the first in the order of the page.
updateActionColumns(c) ==
    /\ c.kind = "rows"
    /\ LET i == CHOOSE i \in c.rows : \A j \in c.rows : i <= j IN
       /\ tgForm' = [tgForm EXCEPT !.rows[i] = setColumns(c.table)]
       /\ tgCalls' = (tgCalls \ {c}) \cup {w \in {[c EXCEPT !.rows = @ \ {i}]} : w.rows # {}}
    /\ UNCHANGED <<tgSent, tgCounts>>
chooseActionColumn(i) ==
    /\ i \in tgForm.shown /\ tgForm.rows[i].columns # NoColumns
    /\ tgForm' = [tgForm EXCEPT !.rows[i].column = ColumnOf(tgForm.rows[i].columns)]
    /\ UNCHANGED <<tgCalls, tgSent, tgCounts>>

\* A failed fetch leaves the columns offered before, and ends the walk it belongs to.
TgFetchFails(c) ==
    /\ tgForm' = [tgForm EXCEPT !.overlap = TRUE]
    /\ tgCalls' = tgCalls \ {c}
    /\ UNCHANGED <<tgSent, tgCounts>>

\* A table without a choice is sent as null, a condition without a column or an operator as "".
create_trigger ==
    /\ TgInput
    /\ tgSent' = [source |-> tgForm.source,
                  condition |-> IF tgForm.operator THEN tgForm.condition.column ELSE NoColumns,
                  target |-> tgForm.target,
                  actions |-> {tgForm.rows[i].column : i \in tgForm.shown} \ {NoColumns}]
    /\ tgForm' = [tgForm EXCEPT !.overlap = @ \/ tgCalls # {}]
    /\ UNCHANGED tgCalls

TgNext ==
    \/ \E t \in Sources \cup {NoSource} : chooseSource(t) \/ chooseTarget(t)
    \/ chooseColumn \/ chooseOperator \/ addActionValueRow \/ create_trigger
    \/ \E i \in 1..TgMaxRows : removeActionRow(i) \/ chooseActionColumn(i)
    \/ \E c \in tgCalls : updateColumnsAndOperators(c) \/ updateActionColumns(c) \/ TgFetchFails(c)
-----------------------------------------------------------------------------
ColumnSets == Sources \cup {NoColumns}
TgTypeOK ==
    /\ tgForm \in [source : Sources \cup {NoSource}, condition : [columns : ColumnSets, column : ColumnSets],
                   operators : {{}, TextOperators}, operator : BOOLEAN, target : Sources \cup {NoSource},
                   rows : [1..TgMaxRows -> [columns : ColumnSets, column : ColumnSets]],
                   shown : SUBSET (1..TgMaxRows), overlap : BOOLEAN]
    /\ tgCalls \subseteq [kind : {"source", "rows"}, table : Sources, rows : SUBSET (1..TgMaxRows)]
    /\ tgSent \in [source : Sources \cup {NoSource}, condition : ColumnSets, target : Sources \cup {NoSource}, actions : SUBSET Sources]
    /\ tgCounts \in [rows : 1..TgMaxRows, inputs : 0..TgMaxInputs]

\* Unless a fetch fails, or a table is chosen or the trigger sent while columns are on their way,
\* a trigger that names its tables names only columns of them.
TgColumnsOfTheirTables ==
    tgForm.overlap \/ /\ tgSent.condition \in {NoColumns, ColumnOf(tgSent.source)}
                      /\ tgSent.target # NoSource => tgSent.actions \subseteq {ColumnOf(tgSent.target)}
=============================================================================
