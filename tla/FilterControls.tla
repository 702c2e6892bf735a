---------------------------- MODULE FilterControls ----------------------------
(***************************************************************************)
(* The filter controls of one dataset: a column with a value, a range and a *)
(* query field, a foreign key with a dropdown whose options load late, the  *)
(* tags of the active filters, and the search boxes, of which several show  *)
(* the same text.  What is filtered is kept twice, in the unified table     *)
(* state and in the parameters of the URL.  A filter is set (1) or not (0). *)
(***************************************************************************)
EXTENDS Naturals, FiniteSets

CONSTANTS FcMaxCommits,   \* bound: searches committed by the user
          FcMaxInputs     \* bound: what the user types, clicks or goes back to

VARIABLES
    fcUi,       \* the table state, the URL parameters and the controls
    fcSearch,   \* datasetSearchState, the search boxes and the location checkbox
    fcCommit,   \* the calls of commitSearch
    fcInputs    \* the inputs of the user so far
fcVars == <<fcUi, fcSearch, fcCommit, fcInputs>>

FcKeys    == {"value", "from", "in", "ex"}   \* "in" and "ex": the foreign key, and its _exclude
FcDrops   == {"none", "in", "ex"}            \* the state of the one option of the dropdown
FcModes   == {"value", "range", "query"}     \* the stored display mode of a filter
FcTerms   == 0..1                            \* a search text; 0 is the empty one
FcBoxes   == 1..2                            \* box 1 has the location checkbox
FcCommits == 1..FcMaxCommits

FcNothing == [k \in FcKeys |-> 0]
FcDropFilters(d) == [in |-> IF d = "in" THEN 1 ELSE 0, ex |-> IF d = "ex" THEN 1 ELSE 0]

\* The page is built from the stored filters: the dropdown with a saved value loads its
\* options at once, the other one when it is first touched.
FcInit ==
    \E saved \in FcDrops, value \in 0..1, mode \in FcModes :
       LET f == [k \in FcKeys |-> CASE k = "value" -> value
                                    [] k = "from" -> 0
                                    [] OTHER -> FcDropFilters(saved)[k]]
       IN  /\ fcUi = [filters |-> f, params |-> f, term |-> 0,
                      value |-> value, from |-> 0, query |-> value, last |-> value,
                      timers |-> {}, mode |-> mode, drop |-> saved, saved |-> saved,
                      options |-> IF saved = "none" THEN "lazy" ELSE "loading",
                      cached |-> FALSE, tags |-> {k \in FcKeys : f[k] = 1}, refresh |-> "none"]
           /\ fcSearch = [text |-> 0, box |-> [b \in FcBoxes |-> 0], located |-> FALSE,
                          check |-> FALSE, gps |-> FALSE, asking |-> FALSE]
           /\ fcCommit = [c \in FcCommits |-> [pc |-> "idle", query |-> 0]]
           /\ fcInputs = 0
-----------------------------------------------------------------------------
(* The two stores and the tags *)

\* renderActiveFilters: one tag for the search, one for each filter of the table state.
FcTags(u) == {k \in FcKeys : u.filters[k] = 1} \cup (IF u.term # 0 THEN {"search"} ELSE {})
renderActiveFilters(u) == [u EXCEPT !.tags = FcTags(u)]

\* The filters changed: the rows of a search are filtered again, or the table is refreshed.
FcRefresh(u) ==
    IF u.term # 0 /\ u.cached THEN renderActiveFilters(u) ELSE [u EXCEPT !.refresh = "pending"]

\* updateFilterAndRefresh, for a plain value: the opposite key goes.
updateFilterAndRefresh(u, k, v) ==
    FcRefresh([u EXCEPT !.filters[k] = v, !.params[k] = v])

\* updateFilterAndRefresh, for the state of a dropdown.
FcUpdateDropdown(u, d) ==
    LET f == FcDropFilters(d)
    IN  FcRefresh([u EXCEPT !.filters.in = f.in, !.filters.ex = f.ex,
                            !.params.in = f.in, !.params.ex = f.ex])

clearFilterKeysAndRefresh(u, keys) ==
    LET kept(m) == [k \in FcKeys |-> IF k \in keys THEN 0 ELSE m[k]]
    IN  IF \E k \in keys : u.filters[k] # 0 \/ u.params[k] # 0
        THEN FcRefresh([u EXCEPT !.filters = kept(@), !.params = kept(@)])
        ELSE u

FcUi(u) == fcUi' = u /\ UNCHANGED <<fcSearch, fcCommit>>
-----------------------------------------------------------------------------
(* The column with three fields *)

FcType(field) ==
    \E v \in 0..1 :
       CASE field = "query" -> FcUi([fcUi EXCEPT !.query = v])
         [] field = "value" -> FcUi([fcUi EXCEPT !.value = v, !.timers = @ \cup {"value"}])
         [] field = "from"  -> FcUi([fcUi EXCEPT !.from = v, !.timers = @ \cup {"from"}])

\* A field is only reached in its own pane.
FcTypeInPane ==
    FcType(IF fcUi.mode = "range" THEN "from" ELSE fcUi.mode)

\* A debounce timer: the field is read when it fires.
FcTimer ==
    \E k \in fcUi.timers :
       FcUi(updateFilterAndRefresh([fcUi EXCEPT !.timers = @ \ {k}], k,
                                   IF k = "value" THEN fcUi.value ELSE fcUi.from))

\* commitQueryFilter: the query field shares its key with the value field.
commitQueryFilter ==
    /\ fcUi.mode = "query"
    /\ fcUi.query # fcUi.last
    /\ FcUi(updateFilterAndRefresh([fcUi EXCEPT !.last = fcUi.query], "value", fcUi.query))

\* activateMode: the filters of the panes that are left go; the fields keep their text.
activateMode ==
    \E mode \in FcModes :
       FcUi(clearFilterKeysAndRefresh([fcUi EXCEPT !.mode = mode],
                                      IF mode = "range" THEN {"value"} ELSE {"from"}))
-----------------------------------------------------------------------------
(* The dropdown of the foreign key *)

FcTouchDropdown ==
    /\ fcUi.options = "lazy"
    /\ FcUi([fcUi EXCEPT !.options = "loading"])

\* ensureForeignFilterOptions: the saved state, of when the page was built, is set again,
\* without telling of a change.
ensureForeignFilterOptions ==
    /\ fcUi.options = "loading"
    /\ FcUi([fcUi EXCEPT !.options = "loaded", !.drop = fcUi.saved])

\* A failed load may be tried again.
FcOptionsFail ==
    /\ fcUi.options = "loading"
    /\ FcUi([fcUi EXCEPT !.options = "failed"])

\* toggleFilterCheckbox and activateExcludeState, for the option, or the clear button.
toggleFilterCheckbox ==
    \E d \in FcDrops \ {fcUi.drop} :
       /\ fcUi.options = "loaded" \/ d = "none"
       /\ FcUi(FcUpdateDropdown([fcUi EXCEPT !.drop = d], d))
-----------------------------------------------------------------------------
(* Tags *)

\* Mutant: the filter stays in the URL.
RemoveFromStateOnly ==
    \E k \in fcUi.tags \ {"search"} :
       FcUi(FcRefresh(renderActiveFilters(
              [fcUi EXCEPT !.filters[k] = 0, !.drop = IF k \in {"in", "ex"} THEN "none" ELSE @])))

\* removeFilter: a dropdown is emptied; the text of a field stays in the field.
removeFilter ==
    \E k \in fcUi.tags \ {"search"} :
       LET u == [fcUi EXCEPT !.filters[k] = 0, !.params[k] = 0,
                             !.drop = IF k \in {"in", "ex"} THEN "none" ELSE @]
       IN  FcUi(IF u.term # 0 /\ u.cached THEN renderActiveFilters(u)
                ELSE [renderActiveFilters(u) EXCEPT !.refresh = "pending"])

\* removeSearch: every search box is emptied, and so is the text they share.
removeSearch ==
    /\ "search" \in fcUi.tags
    /\ fcUi' = [renderActiveFilters([fcUi EXCEPT !.term = 0, !.cached = FALSE])
                  EXCEPT !.refresh = "pending"]
    /\ fcSearch' = [fcSearch EXCEPT !.text = 0, !.box = [b \in FcBoxes |-> 0]]
    /\ UNCHANGED fcCommit

\* An article opens or closes: the tags move between the two places they may stand in.
FcArticle == FcUi(renderActiveFilters(fcUi))

\* generate_table of a refresh; an earlier one may end while a later one is on its way.
FcRefreshEnds ==
    /\ fcUi.refresh = "pending"
    /\ \E last \in BOOLEAN :
          FcUi([renderActiveFilters(fcUi) EXCEPT !.refresh = IF last THEN "none" ELSE @])

FcRefreshFails ==
    /\ fcUi.refresh = "pending"
    /\ FcUi([fcUi EXCEPT !.refresh = "failed"])
-----------------------------------------------------------------------------
(* Search boxes *)

\* DatasetSearchStateManager.set: the other boxes are told; the source shows the text.
FcSetText(s, t) == [s EXCEPT !.text = t, !.box = [b \in FcBoxes |-> t]]

\* handleInput, the arrow keys through the history included.
handleInput ==
    \E t \in FcTerms : fcSearch' = FcSetText(fcSearch, t) /\ UNCHANGED <<fcUi, fcCommit>>

\* The location checkbox: the position is asked for while the box is checked.
FcLocation ==
    /\ fcSearch' = [fcSearch EXCEPT !.located = ~fcSearch.check, !.check = ~fcSearch.check,
                                    !.asking = @ \/ (~fcSearch.check /\ ~fcSearch.gps)]
    /\ UNCHANGED <<fcUi, fcCommit>>

\* The rest of commitSearch, once it has its coordinates: the search of then starts, and
\* enters the parameters of now.
FcRunSearch(q) ==
    fcUi' = renderActiveFilters([fcUi EXCEPT !.term = q, !.cached = TRUE])

\* commitSearch: the text is read before the position is awaited.
commitSearch(c) ==
    /\ fcCommit[c].pc = "idle" /\ fcSearch.text # 0
    /\ IF fcSearch.located /\ ~fcSearch.gps
       THEN /\ fcCommit' = [fcCommit EXCEPT ![c] = [pc |-> "gps", query |-> fcSearch.text]]
            /\ UNCHANGED fcUi
       ELSE /\ fcCommit' = [fcCommit EXCEPT ![c].pc = "done"]
            /\ FcRunSearch(fcSearch.text)
    /\ UNCHANGED fcSearch

\* ensureGpsIfNeeded: the coordinates are kept; a refusal unchecks the box, here and in
\* what the boxes share.
ensureGpsIfNeeded(s, ok) ==
    IF ok THEN [s EXCEPT !.gps = TRUE] ELSE [s EXCEPT !.check = FALSE, !.located = FALSE]

FcLocationAnswer ==
    /\ fcSearch.asking
    /\ \E ok \in BOOLEAN : fcSearch' = [ensureGpsIfNeeded(fcSearch, ok) EXCEPT !.asking = FALSE]
    /\ UNCHANGED <<fcUi, fcCommit>>

FcCommitAnswer(c) ==
    /\ fcCommit[c].pc = "gps"
    /\ \E ok \in BOOLEAN : fcSearch' = ensureGpsIfNeeded(fcSearch, ok)
    /\ fcCommit' = [fcCommit EXCEPT ![c] = [pc |-> "done", query |-> 0]]
    /\ FcRunSearch(fcCommit[c].query)
-----------------------------------------------------------------------------
(* The URL *)

\* The user goes back or forward: the parameters are those of the entry, and every
\* listener of dataset-query-params-changed follows.
FcPopstate ==
    \E term \in FcTerms, set \in {{}} \cup {{k} : k \in FcKeys} :
       LET p == [k \in FcKeys |-> IF k \in set THEN 1 ELSE 0]
           d == IF "in" \in set THEN "in" ELSE IF "ex" \in set THEN "ex" ELSE "none"
       IN  /\ fcUi' = [fcUi EXCEPT !.params = p, !.filters = p, !.term = term,
                                   !.value = p.value, !.from = p.from, !.query = p.value,
                                   !.drop = d, !.refresh = "pending"]
           /\ fcSearch' = FcSetText(fcSearch, term)
           /\ UNCHANGED fcCommit

\* clearAllFilters: the stores, the fields and the shared text; running timers go on.
clearAllFilters ==
    /\ fcUi' = [fcUi EXCEPT !.filters = FcNothing, !.params = FcNothing, !.term = 0,
                            !.value = 0, !.from = 0, !.query = 0, !.refresh = "pending"]
    /\ fcSearch' = [FcSetText(fcSearch, 0) EXCEPT !.located = FALSE, !.check = FALSE]
    /\ UNCHANGED fcCommit

\* What the user does.
FcInput == \/ FcTypeInPane \/ commitQueryFilter \/ activateMode
           \/ FcTouchDropdown \/ toggleFilterCheckbox \/ removeFilter \/ removeSearch
           \/ handleInput \/ FcLocation \/ FcPopstate \/ clearAllFilters
           \/ \E c \in FcCommits : commitSearch(c)

\* Timers, answers and events that come by themselves.
FcLater == \/ FcTimer \/ ensureForeignFilterOptions \/ FcOptionsFail \/ FcArticle
           \/ FcRefreshEnds \/ FcRefreshFails \/ FcLocationAnswer
           \/ \E c \in FcCommits : FcCommitAnswer(c)

FcNext == \/ fcInputs < FcMaxInputs /\ fcInputs' = fcInputs + 1 /\ FcInput
          \/ UNCHANGED fcInputs /\ FcLater
-----------------------------------------------------------------------------
(* Properties *)

FcTypeOK ==
    /\ fcUi.filters \in [FcKeys -> 0..1] /\ fcUi.params \in [FcKeys -> 0..1]
    /\ fcUi.term \in FcTerms /\ fcUi.timers \subseteq {"value", "from"}
    /\ fcUi.tags \subseteq FcKeys \cup {"search"} /\ fcUi.drop \in FcDrops
    /\ fcSearch.text \in FcTerms /\ fcSearch.box \in [FcBoxes -> FcTerms]
    /\ fcCommit \in [FcCommits -> [pc : {"idle", "gps", "done"}, query : FcTerms]]

\* However timers, late answers, tags and the history of the browser interleave, the
\* filters of the table state are those of the URL, so that a reload shows the same rows;
\* an option is not wanted and excluded at once; the tags say what is filtered unless a
\* refresh failed or is still under way; and the search boxes agree with each other.
FcStoresAgree ==
    /\ fcUi.filters = fcUi.params
    /\ fcUi.filters.in = 0 \/ fcUi.filters.ex = 0
    /\ fcUi.refresh = "none" => fcUi.tags = FcTags(fcUi)
    /\ \A b \in FcBoxes : fcSearch.box[b] = fcSearch.text
    /\ fcSearch.check = fcSearch.located
=============================================================================
