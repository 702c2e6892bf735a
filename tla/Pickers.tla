------------------------------- MODULE Pickers -------------------------------
(***************************************************************************)
(* The two drop-down lists the forms and the filters are built of: one that  *)
(* picks several values, to include or to exclude, and one that picks one.   *)
(* Each draws its list again when the search, the options or the values      *)
(* change, and follows its field on the screen while it is open.             *)
(***************************************************************************)
EXTENDS Integers, FiniteSets

CONSTANTS PkMaxInputs  \* bound: clicks, searches, scrolls, values and options set by the owner

VARIABLES
    pkMany,    \* the list of several values
    pkOne,     \* the list of one value
    pkCounts   \* inputs so far
pkVars == <<pkMany, pkOne, pkCounts>>

Values == {1, 2}
States == {"neutral", "include", "exclude"}
Searches == {"", "1"}  \* no text, or the label of value 1
NoValue == 0
NoState == "absent"
Choice(include, exclude) == [v \in Values |-> IF v \in exclude THEN "exclude" ELSE IF v \in include THEN "include" ELSE "neutral"]
Neutral == Choice({}, {})

\* renderList: a row for each option whose label holds the text.
Matching(options, text) == IF text = "" THEN options ELSE options \cap {1}
ManyRows(d, text) == [d EXCEPT !.rows = [v \in Values |-> IF v \in Matching(d.options, text) THEN d.states[v] ELSE NoState]]
OneRows(d, text) == [d EXCEPT !.rows = Matching(d.options, text), !.marked = {d.value} \cap Matching(d.options, text)]

PkInit ==
    /\ \E options \in SUBSET Values, include \in SUBSET Values, exclude \in SUBSET Values, allow \in BOOLEAN :
          LET states == Choice(include, exclude) IN
          pkMany = ManyRows([options |-> options, states |-> states, told |-> states, search |-> "", rows |-> Neutral,
                             allow |-> allow, text |-> states, open |-> FALSE, tracking |-> FALSE, frame |-> FALSE,
                             alive |-> TRUE, unfiltered |-> FALSE], "")
    /\ \E options \in SUBSET Values :
          pkOne = [options |-> options, value |-> NoValue, told |-> NoValue, search |-> "", rows |-> options,
                   marked |-> {}, text |-> NoValue, open |-> FALSE, tracking |-> FALSE, frame |-> FALSE,
                   alive |-> TRUE, closing |-> FALSE, unfiltered |-> FALSE, unmarked |-> FALSE]
    /\ pkCounts = 0

PkInput == pkCounts < PkMaxInputs /\ pkCounts' = pkCounts + 1
-----------------------------------------------------------------------------
(* Open and close, the same for both *)

startPositionTracking(d) == [d EXCEPT !.open = TRUE, !.tracking = TRUE]
stopPositionTracking(d) == [d EXCEPT !.tracking = FALSE, !.frame = FALSE]
JustHide(d) == [d EXCEPT !.open = FALSE]
close(d) == stopPositionTracking([d EXCEPT !.open = FALSE])
openMany(d) == ManyRows([startPositionTracking(d) EXCEPT !.search = "", !.unfiltered = FALSE], "")
openOne(d) == OneRows([startPositionTracking(d) EXCEPT !.search = "", !.unfiltered = FALSE, !.unmarked = FALSE], "")
destroyed(d) == [close(d) EXCEPT !.alive = FALSE]

\* A click on the field of one list stops there: the other list stays as it is.
toggleMany ==
    /\ pkMany.alive /\ PkInput
    /\ pkMany' = IF pkMany.open THEN close(pkMany) ELSE openMany(pkMany)
    /\ UNCHANGED pkOne
toggleOne ==
    /\ pkOne.alive /\ PkInput
    /\ pkOne' = IF pkOne.open THEN close(pkOne) ELSE openOne(pkOne)
    /\ UNCHANGED pkMany

handleOutsideClick ==
    /\ PkInput
    /\ pkMany' = IF pkMany.alive THEN close(pkMany) ELSE pkMany
    /\ pkOne' = IF pkOne.alive THEN close(pkOne) ELSE pkOne

destroyMany == pkMany.alive /\ PkInput /\ pkMany' = destroyed(pkMany) /\ UNCHANGED pkOne
destroyOne == pkOne.alive /\ PkInput /\ pkOne' = destroyed(pkOne) /\ UNCHANGED pkMany

\* A scroll or a resize asks for one frame, in which the list is put in its place.
schedulePositionUpdate ==
    /\ (pkMany.tracking \/ pkOne.tracking) /\ PkInput
    /\ pkMany' = [pkMany EXCEPT !.frame = @ \/ (pkMany.tracking /\ pkMany.open)]
    /\ pkOne' = [pkOne EXCEPT !.frame = @ \/ (pkOne.tracking /\ pkOne.open)]
positionMany == pkMany.frame /\ pkMany' = [pkMany EXCEPT !.frame = FALSE] /\ UNCHANGED <<pkOne, pkCounts>>
positionOne == pkOne.frame /\ pkOne' = [pkOne EXCEPT !.frame = FALSE] /\ UNCHANGED <<pkMany, pkCounts>>
-----------------------------------------------------------------------------
(* Several values *)

searchMany(text) ==
    /\ pkMany.open /\ pkMany.search # text /\ PkInput
    /\ pkMany' = ManyRows([pkMany EXCEPT !.search = text, !.unfiltered = FALSE], text)
    /\ UNCHANGED pkOne

\* setOptionStateAndSync and setValue: the text, the rows and, unless the owner set them, onChange.
ManySet(d, states) == ManyRows([d EXCEPT !.states = states, !.text = states, !.told = states, !.unfiltered = FALSE], d.search)

\* A click on a row includes a neutral value and makes any other neutral.
toggleCheckboxState(v) ==
    /\ pkMany.open /\ pkMany.rows[v] # NoState /\ PkInput
    /\ pkMany' = ManySet(pkMany, [pkMany.states EXCEPT ![v] = IF @ = "neutral" THEN "include" ELSE "neutral"])
    /\ UNCHANGED pkOne
activateExcludeState(v) ==
    /\ pkMany.open /\ pkMany.allow /\ pkMany.rows[v] # NoState /\ PkInput
    /\ pkMany' = ManySet(pkMany, [pkMany.states EXCEPT ![v] = IF pkMany.rows[v] = "exclude" THEN "neutral" ELSE "exclude"])
    /\ UNCHANGED pkOne
clearMany == /\ pkMany.alive /\ pkMany.states # Neutral /\ PkInput
             /\ pkMany' = close(ManySet(pkMany, Neutral)) /\ UNCHANGED pkOne

ownerSetsMany(include, exclude) ==
    /\ pkMany.alive /\ PkInput /\ pkMany' = ManySet(pkMany, Choice(include, exclude)) /\ UNCHANGED pkOne
\* New options: the values stay as they are, and every option is drawn.
setOptionsMany(options) ==
    /\ pkMany.alive /\ options # pkMany.options /\ PkInput
    /\ pkMany' = ManyRows([pkMany EXCEPT !.options = options, !.unfiltered = TRUE], "")
    /\ UNCHANGED pkOne
-----------------------------------------------------------------------------
(* One value *)

searchOne(text) ==
    /\ pkOne.open /\ pkOne.search # text /\ PkInput
    /\ pkOne' = OneRows([pkOne EXCEPT !.search = text, !.unfiltered = FALSE, !.unmarked = FALSE], text)
    /\ UNCHANGED pkMany

\* setValue: the field shows the label of a value there is an option for; the rows stay.
OneSet(d, v) == [d EXCEPT !.value = v, !.told = v, !.text = IF v \in d.options THEN v ELSE NoValue, !.unmarked = TRUE]

\* A click on a row marks it, tells the owner and closes the list a moment later.
chooseOne(v) ==
    /\ pkOne.open /\ v \in pkOne.rows /\ PkInput
    /\ pkOne' = [OneSet(pkOne, v) EXCEPT !.marked = {v}, !.unmarked = FALSE, !.closing = TRUE]
    /\ UNCHANGED pkMany
closeChosen == pkOne.closing /\ pkOne' = [close(pkOne) EXCEPT !.closing = FALSE] /\ UNCHANGED <<pkMany, pkCounts>>
clearOne == pkOne.alive /\ pkOne.text # NoValue /\ PkInput /\ pkOne' = close(OneSet(pkOne, NoValue)) /\ UNCHANGED pkMany

ownerSetsOne(v) == pkOne.alive /\ PkInput /\ pkOne' = OneSet(pkOne, v) /\ UNCHANGED pkMany
\* New options: no value is chosen any more.
setOptionsOne(options) ==
    /\ pkOne.alive /\ options # pkOne.options /\ PkInput
    /\ pkOne' = OneRows([OneSet([pkOne EXCEPT !.options = options], NoValue) EXCEPT !.unfiltered = TRUE, !.unmarked = FALSE], "")
    /\ UNCHANGED pkMany

PkNext ==
    \/ toggleMany \/ toggleOne \/ handleOutsideClick \/ destroyMany \/ destroyOne
    \/ schedulePositionUpdate \/ positionMany \/ positionOne
    \/ \E text \in Searches : searchMany(text) \/ searchOne(text)
    \/ \E v \in Values : toggleCheckboxState(v) \/ activateExcludeState(v) \/ chooseOne(v) \/ ownerSetsOne(v)
    \/ clearMany \/ clearOne \/ closeChosen
    \/ \E include, exclude \in SUBSET Values : ownerSetsMany(include, exclude)
    \/ \E options \in SUBSET Values : setOptionsMany(options) \/ setOptionsOne(options)
-----------------------------------------------------------------------------
ManyLists == [options : SUBSET Values, states : [Values -> States], told : [Values -> States], search : Searches,
              rows : [Values -> States \cup {NoState}], allow : BOOLEAN, text : [Values -> States], open : BOOLEAN,
              tracking : BOOLEAN, frame : BOOLEAN, alive : BOOLEAN, unfiltered : BOOLEAN]
OneLists == [options : SUBSET Values, value : Values \cup {NoValue}, told : Values \cup {NoValue}, search : Searches,
             rows : SUBSET Values, marked : SUBSET Values, text : Values \cup {NoValue}, open : BOOLEAN,
             tracking : BOOLEAN, frame : BOOLEAN, alive : BOOLEAN, closing : BOOLEAN, unfiltered : BOOLEAN,
             unmarked : BOOLEAN]
PkTypeOK == pkMany \in ManyLists /\ pkOne \in OneLists /\ pkCounts \in 0..PkMaxInputs

\* An open list shows the options that match the search, as they are chosen now (save that new
\* options are all shown, and that a value set by the owner is not marked, till the list is drawn
\* again); the field and the owner know the same choice; and a list follows its field on the
\* screen if and only if it is open, so that nothing is left behind when it is destroyed.
PkListsAsChosen ==
    /\ pkMany.text = pkMany.states /\ pkMany.told = pkMany.states
    /\ pkMany.open => \A v \in Values :
          pkMany.rows[v] = IF v \in Matching(pkMany.options, IF pkMany.unfiltered THEN "" ELSE pkMany.search)
                           THEN pkMany.states[v] ELSE NoState
    /\ pkOne.told = pkOne.value
    /\ pkOne.open => /\ pkOne.rows = Matching(pkOne.options, IF pkOne.unfiltered THEN "" ELSE pkOne.search)
                     /\ pkOne.unmarked \/ pkOne.marked = {pkOne.value} \cap pkOne.rows
    /\ (pkMany.open <=> pkMany.tracking) /\ (pkOne.open <=> pkOne.tracking)
    /\ (pkMany.frame => pkMany.open) /\ (pkOne.frame => pkOne.open)
    /\ (pkMany.open => pkMany.alive) /\ (pkOne.open => pkOne.alive)
=============================================================================
