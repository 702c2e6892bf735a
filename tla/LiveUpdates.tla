----------------------------- MODULE LiveUpdates -----------------------------
(***************************************************************************)
(* The page's subscription to the changes of the dataset it shows: one       *)
(* stream at a time, opened anew after an error with growing delays, closed  *)
(* when the page is left or hidden.  A change told by the stream refreshes   *)
(* the dataset a moment later, once for all changes of that moment: searched *)
(* or read again at the server, or only drawn again from cached results.     *)
(***************************************************************************)
EXTENDS Naturals, FiniteSets

CONSTANT LuMaxEvents   \* bound: loads, searches and changes of rows, of the dataset shown and of the page

VARIABLES
    luPage,    \* the active dataset, whether the page is being left, whether a session is known
    luStream,  \* the stream: the dataset it is for, whether it is open; the reconnect timer and delay
    luTimers,  \* datasets whose refresh is scheduled
    luRows,    \* per dataset: its version, the one last told, the told one attended to, the one shown
    luViews,   \* per dataset: the text search, the version of its cached results, how it got what it shows
    luReads,   \* refreshes under way, and what was told when they began
    luCounts   \* events so far; whether the page was hidden or logged in since it last connected
luVars == <<luPage, luStream, luTimers, luRows, luViews, luReads, luCounts>>

LuDatasets == {"a", "b"}
NoDataset == ""
NoRows == 0           \* versions count from one: no rows shown, cached or read yet
BaseDelay == 1
MaxDelay == 4
LuClosed == [of |-> NoDataset, open |-> FALSE]
LuStream(source, timer) == [source |-> source, timer |-> timer, delay |-> luStream.delay]

LuInit ==
    /\ \E known \in BOOLEAN : luPage = [active |-> NoDataset, unloading |-> FALSE, session |-> known]
    /\ luStream = [source |-> LuClosed, timer |-> FALSE, delay |-> BaseDelay]
    /\ luTimers = {} /\ luReads = {}
    /\ luRows = [d \in LuDatasets |-> [version |-> 1, told |-> 0, done |-> 0, shown |-> NoRows]]
    /\ luViews = [d \in LuDatasets |-> [search |-> "none", cached |-> NoRows, how |-> "new"]]
    /\ luCounts = [events |-> 0, spoiled |-> FALSE]

LuEvent(spoiled) ==
    /\ luCounts.events < LuMaxEvents
    /\ luCounts' = [events |-> luCounts.events + 1, spoiled |-> spoiled]
-----------------------------------------------------------------------------
(* The stream *)

\* connectIfNeeded, for the dataset that is active by then; without a session or a dataset
\* nothing is subscribed and no refresh stays scheduled.
connectIfNeeded(active, timers) ==
    IF luPage.unloading
    THEN /\ luStream' = LuStream(LuClosed, FALSE)
         /\ luTimers' = timers
    ELSE IF ~luPage.session \/ active = NoDataset
    THEN /\ luStream' = [source |-> LuClosed, timer |-> FALSE, delay |-> BaseDelay]
         /\ luTimers' = {}
    ELSE /\ luStream' = LuStream([of |-> active, open |-> FALSE], FALSE)
         /\ luTimers' = timers

\* clearRefreshTimer: what was told of these datasets will not be read.
LuCancels(datasets) ==
    /\ luRows' = [d \in LuDatasets |-> IF d \in datasets THEN [luRows[d] EXCEPT !.done = luRows[d].told] ELSE luRows[d]]
    /\ luViews' = [d \in LuDatasets |-> IF d \in datasets THEN [luViews[d] EXCEPT !.how = "cancelled"] ELSE luViews[d]]

\* setSSEActiveDataset, and clearSSEActiveDataset with no name.
setSSEActiveDataset(name) ==
    /\ luPage' = [luPage EXCEPT !.active = name]
    /\ connectIfNeeded(name, luTimers \ {luPage.active})
    /\ LuCancels(luTimers \ luTimers')

\* The navigation shows a dataset whose container was loaded, at once or before, or a view of its own.
LuNavigate(name) ==
    /\ IF name = NoDataset THEN TRUE ELSE name # luPage.active /\ luViews[name].how # "new"
    /\ setSSEActiveDataset(name)
    /\ LuEvent(luPage.unloading)
    /\ UNCHANGED luReads

LuOpened ==
    /\ luStream.source.of # NoDataset /\ ~luStream.source.open
    /\ luStream' = [source |-> [of |-> luStream.source.of, open |-> TRUE], timer |-> luStream.timer, delay |-> BaseDelay]
    /\ UNCHANGED <<luPage, luTimers, luRows, luViews, luReads, luCounts>>

\* onerror: closed, and opened again after the delay, which doubles.
LuStreamFails ==
    /\ luStream.source.of # NoDataset
    /\ luStream' = IF luPage.unloading THEN LuStream(LuClosed, luStream.timer)
                   ELSE [source |-> LuClosed, timer |-> TRUE,
                         delay |-> IF luStream.delay * 2 > MaxDelay THEN MaxDelay ELSE luStream.delay * 2]
    /\ LuEvent(luCounts.spoiled)
    /\ UNCHANGED <<luPage, luTimers, luRows, luViews, luReads>>

LuReconnect ==
    /\ luStream.timer
    /\ connectIfNeeded(luPage.active, luTimers)
    /\ LuCancels(luTimers \ luTimers')
    /\ luCounts' = [luCounts EXCEPT !.spoiled = luPage.unloading]
    /\ UNCHANGED <<luPage, luReads>>
-----------------------------------------------------------------------------
(* Reads *)

\* Two reads begun after the same change, neither answered, count as one.
LuRead(kind, d, rows) == [kind |-> kind, of |-> d, since |-> luRows[d].told, rows |-> rows]

\* A search takes the rows away, forgets the cached results and asks the server.
do_intelligent_search(d) ==
    /\ luReads' = luReads \cup {LuRead("search", d, NoRows)}
    /\ luRows' = [luRows EXCEPT ![d].shown = NoRows]
    /\ luViews' = [luViews EXCEPT ![d] = [search |-> "committed", cached |-> NoRows, how |-> "emptied"]]

\* During a search the table is read too, but the results cached when it began are drawn.
refreshTableUnified(d) ==
    luReads' = luReads \cup {IF luViews[d].search = "committed" THEN LuRead("redraw", d, luViews[d].cached)
                             ELSE LuRead("table", d, NoRows)}

\* Drawn again from the cached results, at once and without the server.
rerenderCachedSearchResults(d) ==
    /\ luRows' = [luRows EXCEPT ![d] = [version |-> luRows[d].version, told |-> luRows[d].told, done |-> luRows[d].told,
                                         shown |-> luViews[d].cached]]
    /\ luViews' = [luViews EXCEPT ![d].how = "cached"]
    /\ UNCHANGED luReads

LuServed(r) ==
    /\ r \in luReads /\ r.kind # "redraw" /\ r.rows = NoRows
    /\ luReads' = (luReads \ {r}) \cup {[r EXCEPT !.rows = luRows[r.of].version]}
    /\ UNCHANGED <<luPage, luStream, luTimers, luRows, luViews, luCounts>>

Later(m, n) == IF m > n THEN m ELSE n
LuEnds(r, shown) ==
    /\ luReads' = luReads \ {r}
    /\ luRows' = [luRows EXCEPT ![r.of] = [version |-> luRows[r.of].version, told |-> luRows[r.of].told,
                                           done |-> Later(luRows[r.of].done, r.since), shown |-> shown]]
    /\ UNCHANGED <<luPage, luStream, luTimers, luCounts>>
\* An answer may come after that of a refresh that began after a later change.
LuHow(r) == IF r.kind = "redraw" THEN "cached" ELSE IF r.since < luRows[r.of].done THEN "overtaken" ELSE "read"

LuTableAnswered(r) ==
    /\ r \in luReads /\ r.kind # "search" /\ (r.kind = "redraw" \/ r.rows # NoRows)
    /\ LuEnds(r, r.rows)
    /\ luViews' = [luViews EXCEPT ![r.of].how = LuHow(r)]

\* update_table_ui: rows are added to those another search has found meanwhile, which stay as they are.
LuSearchAnswered(r) ==
    /\ r \in luReads /\ r.kind = "search" /\ r.rows # NoRows
    /\ LET cached == luViews[r.of].cached
           merged == cached # NoRows
           shown == IF merged /\ cached < r.rows THEN cached ELSE r.rows
       IN /\ LuEnds(r, shown)
          /\ \E found \in BOOLEAN :
                luViews' = [luViews EXCEPT ![r.of] = [search |-> luViews[r.of].search, cached |-> IF found THEN shown ELSE cached,
                                                      how |-> IF merged THEN "merged" ELSE LuHow(r)]]

\* The error is caught and only logged; a search has taken the rows away by then.
LuReadFails(r) ==
    /\ r \in luReads
    /\ LuEnds(r, luRows[r.of].shown)
    /\ luViews' = [luViews EXCEPT ![r.of].how = "failed"]
-----------------------------------------------------------------------------
(* Changes *)

\* Mutant: a refresh under way is taken for enough.
NotWhileReading(d) == IF \E r \in luReads : r.of = d THEN luTimers ELSE luTimers \cup {d}

scheduleDebouncedRefresh(d) == luTimers \cup {d}

\* A row changes; an open stream of the dataset tells it, unless it is lost, and
\* handleRowChangeEvent schedules a refresh, in the place of the one scheduled before.
LuRowChanges(d) ==
    /\ \E told \in BOOLEAN :
          /\ told => luStream.source = [of |-> d, open |-> TRUE]
          /\ LET now == luRows[d].version + 1
             IN luRows' = [luRows EXCEPT ![d] = [version |-> now, told |-> IF told THEN now ELSE luRows[d].told,
                                                 done |-> luRows[d].done, shown |-> luRows[d].shown]]
          /\ luTimers' = IF told /\ d = luPage.active THEN scheduleDebouncedRefresh(d) ELSE luTimers
    /\ LuEvent(luCounts.spoiled)
    /\ UNCHANGED <<luPage, luStream, luViews, luReads>>

\* With a committed search term it is searched again; with one that is only typed, the cached
\* results of the last search, whichever it was, are drawn again; otherwise the table is read.
refreshActiveDatasetSurface(d) ==
    /\ d \in luTimers
    /\ luTimers' = luTimers \ {d}
    /\ \/ /\ luViews[d].search = "committed"
          /\ do_intelligent_search(d)
       \/ /\ luViews[d].search = "typed" /\ luViews[d].cached # NoRows
          /\ rerenderCachedSearchResults(d)
       \/ /\ luViews[d].search # "committed" /\ (luViews[d].search = "none" \/ luViews[d].cached = NoRows)
          /\ refreshTableUnified(d)
          /\ UNCHANGED <<luRows, luViews>>
    /\ UNCHANGED <<luPage, luStream, luCounts>>
-----------------------------------------------------------------------------
(* The user *)

\* A dataset is loaded, reloaded, filtered or sorted.
LuLoads(d) ==
    /\ refreshTableUnified(d)
    /\ LuEvent(luCounts.spoiled)
    /\ UNCHANGED <<luPage, luStream, luTimers, luRows, luViews>>

\* handleInput: the search box has a text, or none any more.
LuTypesTerm(d) ==
    /\ d = luPage.active /\ luViews[d].search # "committed"
    /\ luViews' = [luViews EXCEPT ![d].search = IF luViews[d].search = "none" THEN "typed" ELSE "none"]
    /\ UNCHANGED <<luPage, luStream, luTimers, luRows, luReads, luCounts>>

commitSearch(d) ==
    /\ d = luPage.active /\ luViews[d].search # "none"
    /\ do_intelligent_search(d)
    /\ LuEvent(luCounts.spoiled)
    /\ UNCHANGED <<luPage, luStream, luTimers>>

\* The search is removed and the table read; the cached results stay.
clearAllFilters(d) ==
    /\ d = luPage.active /\ luViews[d].search # "none"
    /\ luViews' = [luViews EXCEPT ![d].search = "none"]
    /\ luReads' = luReads \cup {LuRead("table", d, NoRows)}
    /\ LuEvent(luCounts.spoiled)
    /\ UNCHANGED <<luPage, luStream, luTimers, luRows>>

\* The page is left or hidden.
beginPageUnload ==
    /\ luPage' = [luPage EXCEPT !.unloading = TRUE]
    /\ luStream' = LuStream(LuClosed, FALSE)
    /\ LuEvent(TRUE)
    /\ UNCHANGED <<luTimers, luRows, luViews, luReads>>

\* Shown again from the browser's cache; becoming visible again does nothing.
LuPageShow ==
    /\ luPage' = [luPage EXCEPT !.unloading = FALSE]
    /\ luPage' # luPage
    /\ LuEvent(TRUE)
    /\ UNCHANGED <<luStream, luTimers, luRows, luViews, luReads>>

\* A login or a logout, here or in another tab: the stored state of the button.
LuSession ==
    /\ luPage' = [luPage EXCEPT !.session = ~@]
    /\ LuEvent(TRUE)
    /\ UNCHANGED <<luStream, luTimers, luRows, luViews, luReads>>

LuNext ==
    \/ \E name \in LuDatasets \cup {NoDataset} : LuNavigate(name)
    \/ LuOpened \/ LuStreamFails \/ LuReconnect
    \/ \E d \in LuDatasets : \/ LuRowChanges(d) \/ refreshActiveDatasetSurface(d)
                             \/ LuLoads(d) \/ LuTypesTerm(d) \/ commitSearch(d) \/ clearAllFilters(d)
    \/ \E r \in luReads : LuServed(r) \/ LuTableAnswered(r) \/ LuSearchAnswered(r) \/ LuReadFails(r)
    \/ beginPageUnload \/ LuPageShow \/ LuSession
-----------------------------------------------------------------------------
(* Properties *)

LuTypeOK ==
    /\ luPage.active \in LuDatasets \cup {NoDataset} /\ luTimers \subseteq LuDatasets
    /\ luStream.delay \in BaseDelay..MaxDelay /\ luStream.source.of \in LuDatasets \cup {NoDataset}

LuAtRest(d) == d \notin luTimers /\ \A r \in luReads : r.of # d

\* A stream is of the dataset shown, and there is one or the attempt to open one, unless the
\* page was hidden or the session changed since it connected.  Once nothing is scheduled or under
\* way, every change told was attended to by a refresh that began after it, and is shown if what
\* is shown was read at the server: rather than drawn from cached results, kept when a read
\* failed or was cancelled, put there by an answer that was overtaken, or merged of two searches.
LuToldIsShown ==
    /\ luStream.source.of \in {NoDataset, luPage.active}
    /\ luTimers \subseteq {luPage.active}
    /\ \A d \in LuDatasets : LuAtRest(d) =>
         /\ luRows[d].done = luRows[d].told
         /\ luViews[d].how = "read" => luRows[d].shown >= luRows[d].told
    /\ luPage.active # NoDataset /\ ~luCounts.spoiled /\ luPage.session => luStream.timer \/ luStream.source.of # NoDataset
=============================================================================
