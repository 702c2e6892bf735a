------------------------------ MODULE TableView ------------------------------
(***************************************************************************)
(* One dataset on the screen of the single page application, and the       *)
(* asynchronous activities that write into its view containers: unified    *)
(* refreshes, infinite-scroll fetches, streamed searches, and the card     *)
(* batches that are appended only after a second request.  JavaScript runs *)
(* each piece of code up to its next await without interruption, so an     *)
(* action is the code between two awaits.  No request carries a            *)
(* generation number and none is ever aborted: every answer is applied     *)
(* when it arrives.                                                        *)
(*                                                                         *)
(* The rows of the dataset are 1..NumRows, and one query (a sort order and *)
(* filters) is a number; the answer to query k at an offset is the page of *)
(* rows that follows the offset.  The dataset has no coordinates, so the   *)
(* map view is the one that cannot be shown.                               *)
(***************************************************************************)
EXTENDS Integers, Sequences, FiniteSetTheorems, TLAPS

CONSTANTS NumRows,     \* rows of the dataset on the server
          PageSize,    \* rows in one answer (resultsPerLoad of the server)
          MaxQuery,    \* bound: sort and filter combinations
          MaxRefresh,  \* bound: unified refreshes started
          MaxFetch,    \* bound: infinite-scroll fetches started
          MaxSearch,   \* bound: searches started
          MaxLines,    \* bound: lines of one search stream
          Views        \* the views the user may choose

ASSUME SizesAssumption ==
    /\ NumRows \in Nat /\ PageSize \in Nat \ {0}
    /\ MaxQuery \in Nat \ {0} /\ MaxRefresh \in Nat /\ MaxFetch \in Nat
    /\ MaxSearch \in Nat /\ MaxLines \in Nat

ASSUME ViewsAssumption == Views \subseteq {"table", "card", "map"} /\ Views # {}

VARIABLES
    view,       \* localStorage <dataset>_view
    query,      \* sort and filters of the unified table state
    offset,     \* offset of the unified table state
    els,        \* the view elements in each container, each with the rows it shows
    host,       \* the host of the AI results in each container
    notice,     \* the notice "text search returned no results" in each container
    observer,   \* scrollState.observer and its sentinel
    isLoading,  \* scrollState.isLoading
    article,    \* cardView.collapsed of the unified table state: a row article is open
    refresh,    \* the calls of refreshTableUnified
    fetch,      \* the calls of fetchMoreData
    late,       \* card batches waiting for permissions and comment counts
    bar,        \* the filter bar: "none", "pending" (it will commit the search of the URL), "ready"
    term,       \* the search parameter of the URL is set
    cache,      \* _ongoingSearchResults[dataset]
    stream,     \* the calls of do_intelligent_search
    calm        \* history: the last refresh met no other activity

scrollVars == <<observer, isLoading>>
domVars    == <<els, host, notice>>
searchVars == <<bar, term, cache, stream>>
vars == <<view, query, offset, domVars, scrollVars, article, refresh, fetch, late,
          searchVars, calm>>

Refreshes  == 1..MaxRefresh
Fetches    == 1..MaxFetch
Searches   == 1..MaxSearch
Containers == {"table", "card"}
-----------------------------------------------------------------------------
(* Rows, pages and answers *)

\* A row on the screen remembers which request brought it.
PageRow(k, i)   == [from |-> "page", key |-> k, id |-> i]
SearchRow(s, i) == [from |-> "search", key |-> s, id |-> i]

\* Mutant: the server's offset is read as the number of the first row.
PageFromNext(k, off) ==
    LET size == IF off >= NumRows THEN 0
                ELSE IF NumRows - off < PageSize THEN NumRows - off ELSE PageSize
    IN  [i \in 1..size |-> PageRow(k, off + i + 1)]

\* The answer to getResults for query k at an offset.
Page(k, off) ==
    LET size == IF off >= NumRows THEN 0
                ELSE IF NumRows - off < PageSize THEN NumRows - off ELSE PageSize
    IN  [i \in 1..size |-> PageRow(k, off + i)]

\* initSearchCache
EmptyCache == [live |-> TRUE, text |-> <<>>, ai |-> <<>>, rendered |-> FALSE]
NoCache    == [EmptyCache EXCEPT !.live = FALSE]
NoHost     == [on |-> FALSE, rows |-> <<>>]

Present(v) == v \in Containers /\ els[v] # <<>>

\* The wrapper of the card view has the class big-card-open.
isRowArticleOpen == article /\ Present("card")

InSeq(i, s) == \E n \in DOMAIN s : s[n].id = i

\* deduplicateRows: a row of a line is new when neither pool of the cache has it.
deduplicateRows(c, s, i) ==
    IF InSeq(i, c.text) \/ InSeq(i, c.ai) THEN <<>> ELSE <<SearchRow(s, i)>>

getCachedSearchResultForRender(c) == c.text \o c.ai

\* generate_table: a dataset without coordinates cannot show the map.
resolveRenderableView(v) == IF v = "map" THEN "card" ELSE v

RefreshOpen == \E r \in Refreshes : refresh[r].pc \in {"asked", "building"}
FetchOpen   == \E f \in Fetches : fetch[f].pc = "asked"
StreamOpen  == \E s \in Searches : stream[s].pc = "open"

\* The element in front of a container takes the rows.
AppendFirst(v, rows) == [els EXCEPT ![v][1].rows = @ \o rows]
EmptyFirst(v)        == [els EXCEPT ![v][1].rows = <<>>]

\* A stream whose AI host leaves container v keeps a detached element.
Detach(v) == [s \in Searches |-> IF stream[s].host = v THEN [stream[s] EXCEPT !.host = "gone"]
                                 ELSE stream[s]]
-----------------------------------------------------------------------------
IdleRefresh == [pc |-> "idle", again |-> 0, query |-> 1, view |-> "table",
                built |-> "table", cached |-> FALSE, rows |-> <<>>]
IdleFetch   == [pc |-> "idle", query |-> 1, offset |-> 0]
IdleStream  == [pc |-> "idle", lines |-> 0, host |-> "none", noText |-> FALSE,
                seeAlso |-> FALSE]
DoneRefresh == [IdleRefresh EXCEPT !.pc = "done"]
FailedRefresh == [IdleRefresh EXCEPT !.pc = "failed"]
DoneFetch   == [IdleFetch EXCEPT !.pc = "done"]

\* The page is loaded, with or without a search in its URL.
Init ==
    /\ view \in Views
    /\ query = 1 /\ offset = 0
    /\ els = [v \in Containers |-> <<>>]
    /\ host = [v \in Containers |-> NoHost]
    /\ notice = [v \in Containers |-> FALSE]
    /\ observer = FALSE /\ isLoading = FALSE
    /\ article = FALSE
    /\ refresh = [r \in Refreshes |-> IdleRefresh]
    /\ fetch = [f \in Fetches |-> IdleFetch]
    /\ late = {}
    /\ bar = "none" /\ term \in BOOLEAN /\ cache = NoCache
    /\ stream = [s \in Searches |-> IdleStream]
    /\ calm = TRUE

\* Mutant: only the timers and the flag go.
disconnectTimersOnly == observer' = observer /\ isLoading' = FALSE

\* disconnectInfiniteScroll: the observer, the sentinel and the timers go, and the
\* loading flag is cleared although a fetch may still be on its way.
disconnectInfiniteScroll ==
    observer' = FALSE /\ isLoading' = FALSE

\* Mutant: nothing is observed while an article is open.
initializeUnlessArticle == observer' = ~isRowArticleOpen

\* initializeInfiniteScroll: a new sentinel and observer, and the fill-screen interval,
\* which calls fetchMoreData as long as the observer is there and the list is short.
initializeInfiniteScroll == observer' = TRUE

\* appendDataToView: table rows are appended at once; cards are appended by
\* AppendCards, once the permissions and the comment counts are known.  Without an
\* element of the current view the rows are dropped with a warning.
appendDataToView(rows, append) ==
    \/ /\ ~Present(view)
       /\ UNCHANGED <<els, late>>
    \/ /\ Present(view) /\ view = "table"
       /\ els' = IF append THEN AppendFirst(view, rows)
                 ELSE [els EXCEPT ![view][1].rows = rows]
       /\ UNCHANGED late
    \/ /\ Present(view) /\ view = "card"
       /\ els' = IF append THEN els ELSE EmptyFirst(view)
       /\ late' = IF rows = <<>> THEN late
                  ELSE late \cup {[el |-> els[view][1].id, rows |-> rows]}
-----------------------------------------------------------------------------
(* refreshTableUnified *)

\* Up to the request: the caller's view, sort and filters are stored, infinite scroll
\* is disconnected, the offset is reset, and the rows of a committed search are taken
\* from the cache.
StartRefresh(r, k, v, again, t, c) ==
    LET cached == t /\ c.live
    IN  /\ query' = k /\ view' = v /\ offset' = 0
        /\ disconnectInfiniteScroll
        /\ refresh' = [refresh EXCEPT ![r] =
              [@ EXCEPT !.pc = "asked", !.again = again, !.query = k, !.view = v,
                        !.cached = cached,
                        !.rows = IF cached THEN getCachedSearchResultForRender(c) ELSE <<>>]]

\* The calls are numbered in the order in which they start.
NextRefresh(r) == refresh[r].pc = "idle" /\ \A q \in 1..(r - 1) : refresh[q].pc # "idle"

Quiet == ~RefreshOpen /\ ~FetchOpen /\ ~StreamOpen /\ late = {} /\ bar # "pending"

\* A sort, a filter, a view button, a live update or a navigation.
refreshTableUnified(r) ==
    /\ NextRefresh(r)
    /\ \E k \in 1..MaxQuery, v \in Views : StartRefresh(r, k, v, 0, term, cache)
    /\ calm' = (Quiet /\ ~term)
    /\ UNCHANGED <<domVars, article, fetch, late, searchVars>>

\* The answer: the offset is advanced before the view is built, the containers are
\* emptied, the first time the filter bar is made, and the view element is begun.
RefreshAnswered(r) ==
    /\ refresh[r].pc = "asked"
    /\ LET data == Page(refresh[r].query, 0)
           v    == resolveRenderableView(view)
       IN  /\ offset' = IF refresh[r].cached THEN offset ELSE offset + Len(data)
           /\ refresh' = [refresh EXCEPT
                 ![r].pc = "building", ![r].built = v,
                 ![r].rows = IF refresh[r].cached THEN @ ELSE data]
           /\ view' = v
    /\ els' = [v \in Containers |-> <<>>]
    /\ host' = [v \in Containers |-> NoHost]
    /\ notice' = [v \in Containers |-> FALSE]
    /\ stream' = [s \in Searches |-> IF stream[s].host \in Containers
                                     THEN [stream[s] EXCEPT !.host = "gone"] ELSE stream[s]]
    /\ bar' = IF bar # "none" THEN bar ELSE IF term THEN "pending" ELSE "ready"
    /\ UNCHANGED <<query, scrollVars, article, fetch, late, term, cache, calm>>

\* The element is ready and joins its container: infinite scroll starts, except over
\* the rows of a search.  When the view is no longer the one the refresh asked for,
\* the refresh starts over.
generate_table(r) ==
    /\ refresh[r].pc = "building"
    /\ els' = [els EXCEPT ![refresh[r].built] =
          Append(@, [id |-> <<r, refresh[r].again>>, rows |-> refresh[r].rows])]
    /\ IF view # refresh[r].view
         THEN /\ StartRefresh(r, query, view, refresh[r].again + 1, term, cache)
              /\ calm' = (calm /\ ~\E q \in Refreshes \ {r} : refresh[q].pc \in {"asked", "building"})
         ELSE /\ IF refresh[r].cached THEN disconnectInfiniteScroll
                 ELSE initializeInfiniteScroll /\ UNCHANGED isLoading
              /\ refresh' = [refresh EXCEPT ![r] = DoneRefresh]
              /\ UNCHANGED <<view, query, offset, calm>>
    /\ UNCHANGED <<host, notice, article, fetch, late, searchVars>>

\* The request fails: the old rows stay, without infinite scroll, at offset 0.
RefreshFailed(r) ==
    /\ refresh[r].pc = "asked"
    /\ refresh' = [refresh EXCEPT ![r] = FailedRefresh]
    /\ calm' = FALSE
    /\ UNCHANGED <<view, query, offset, domVars, scrollVars, article, fetch, late, searchVars>>
-----------------------------------------------------------------------------
(* Infinite scroll *)

\* The sentinel is visible, or the fill-screen interval ticks over a short list.
fetchMoreData(f) ==
    /\ observer /\ ~isLoading
    /\ ~(view = "card" /\ isRowArticleOpen)
    /\ fetch[f].pc = "idle" /\ \A g \in 1..(f - 1) : fetch[g].pc # "idle"
    /\ fetch' = [fetch EXCEPT ![f] = [pc |-> "asked", query |-> query, offset |-> offset]]
    /\ isLoading' = TRUE
    /\ UNCHANGED <<view, query, offset, domVars, observer, article, refresh, late,
                   searchVars, calm>>

\* Under an open article the call only takes the observer away.
FetchUnderArticle ==
    /\ observer /\ ~isLoading
    /\ view = "card" /\ isRowArticleOpen
    /\ observer' = FALSE
    /\ UNCHANGED <<view, query, offset, domVars, isLoading, article, refresh, fetch,
                   late, searchVars, calm>>

\* The answer is appended to whatever is shown now and advances the offset as it is now;
\* an empty one ends infinite scroll.
FetchAnswered(f) ==
    LET data == Page(fetch[f].query, fetch[f].offset)
    IN  /\ fetch[f].pc = "asked"
        /\ fetch' = [fetch EXCEPT ![f] = DoneFetch]
        /\ isLoading' = FALSE
        /\ IF data = <<>>
             THEN observer' = FALSE /\ UNCHANGED <<offset, els, late>>
             ELSE /\ offset' = offset + Len(data)
                  /\ appendDataToView(data, TRUE)
                  /\ UNCHANGED observer
        /\ UNCHANGED <<view, query, host, notice, article, refresh, searchVars, calm>>

\* Mutant: the flag is cleared on success only.
FetchFailedLoading(f) ==
    /\ fetch[f].pc = "asked"
    /\ fetch' = [fetch EXCEPT ![f] = DoneFetch]
    /\ UNCHANGED <<view, query, offset, domVars, scrollVars, article, refresh, late,
                   searchVars, calm>>

\* The request fails: a warning, and the next tick tries again.
FetchFailed(f) ==
    /\ fetch[f].pc = "asked"
    /\ fetch' = [fetch EXCEPT ![f] = DoneFetch]
    /\ isLoading' = FALSE
    /\ UNCHANGED <<view, query, offset, domVars, observer, article, refresh, late,
                   searchVars, calm>>

\* appendDataToCardView: a batch of cards is ready.  Its container may have been
\* replaced in the meantime, then nothing of it is seen.
AppendCards(b) ==
    /\ b \in late
    /\ late' = late \ {b}
    /\ els' = [els EXCEPT !["card"] = [n \in DOMAIN els["card"] |->
                  IF els["card"][n].id # b.el THEN els["card"][n]
                  ELSE [els["card"][n] EXCEPT !.rows = @ \o b.rows]]]
    /\ UNCHANGED <<view, query, offset, host, notice, scrollVars, article, refresh, fetch,
                   searchVars, calm>>

\* The big-card-toggle listener: an opened article stops infinite scroll, a closed one
\* starts it again when the stored view is the card view.
OpenArticle ==
    /\ Present("card") /\ els["card"][1].rows # <<>>
    /\ article' = TRUE
    /\ disconnectInfiniteScroll
    /\ calm' = (calm /\ ~FetchOpen)
    /\ UNCHANGED <<view, query, offset, domVars, refresh, fetch, late, searchVars>>

CloseArticle ==
    /\ isRowArticleOpen
    /\ article' = FALSE
    /\ IF view = "card" THEN initializeInfiniteScroll ELSE UNCHANGED observer
    /\ calm' = (calm /\ ~RefreshOpen)
    /\ UNCHANGED <<view, query, offset, domVars, isLoading, refresh, fetch, late, searchVars>>
-----------------------------------------------------------------------------
(* Streamed search *)

\* cleanupSearchArtifacts: the AI host, the notices and the rows of the current view go.
cleanupSearchArtifacts ==
    IF Present(view)
    THEN /\ els' = EmptyFirst(view)
         /\ host' = [host EXCEPT ![view] = NoHost]
         /\ notice' = [notice EXCEPT ![view] = FALSE]
    ELSE UNCHANGED domVars

\* do_intelligent_search up to its request, and the rest of commitSearch, which runs
\* before any answer: infinite scroll is disconnected, the container is emptied, the
\* cache starts anew and the URL carries the search.  The filter bar starts the search
\* of the URL itself.
do_intelligent_search(s) ==
    /\ stream[s].pc = "idle" /\ \A t \in 1..(s - 1) : stream[t].pc # "idle"
    /\ bar # "none"
    /\ disconnectInfiniteScroll
    /\ cleanupSearchArtifacts
    /\ cache' = EmptyCache
    /\ stream' = [(IF Present(view) THEN Detach(view) ELSE stream) EXCEPT ![s].pc = "open"]
    /\ term' = TRUE /\ bar' = "ready"
    /\ calm' = FALSE
    /\ UNCHANGED <<view, query, offset, article, refresh, fetch, late>>

\* A cache that removeSearch dropped is made again by the next line.
LiveCache == IF cache.live THEN cache ELSE EmptyCache

\* Mutant: the notice is inserted whatever was found.
NoticeInserted(was, insert, text) == was \/ insert

\* syncTextNoResultsNotice and insertNotice: the notice in a container goes when there is
\* a text row, and comes when a caller inserts it without one.
Notice(was, insert, text) == (was \/ insert) /\ text = <<>>

\* A line of text results: whatever stream it comes from, its new row joins the pool of
\* the cache of now, and the primary container; the first render replaces its rows.
TextLine(s, i) ==
    LET rows == deduplicateRows(LiveCache, s, i)
    IN  /\ stream[s].pc = "open" /\ stream[s].lines < MaxLines
        /\ cache' = [LiveCache EXCEPT !.text = @ \o rows, !.rendered = TRUE]
        /\ appendDataToView(rows, LiveCache.rendered)
        /\ notice' = IF Present(view) THEN [notice EXCEPT ![view] = Notice(@, FALSE, cache'.text)]
                     ELSE notice
        /\ stream' = [stream EXCEPT ![s].lines = @ + 1, ![s].noText = @ /\ cache'.text = <<>>]
        /\ UNCHANGED <<view, query, offset, host, scrollVars, article, refresh, fetch, bar,
                       term, calm>>

\* A line of AI results whose stream has no host and can make none: its row joins the
\* pool, and is printed by a later refresh or rerender.
AiLineWithoutHost(s, i) ==
    LET rows == deduplicateRows(LiveCache, s, i)
    IN  /\ stream[s].pc = "open" /\ stream[s].lines < MaxLines
        /\ stream[s].host = "none" /\ ~Present(view)
        /\ cache' = [LiveCache EXCEPT !.ai = @ \o rows, !.rendered = TRUE]
        /\ stream' = [stream EXCEPT ![s].lines = @ + 1]
        /\ UNCHANGED <<view, query, offset, domVars, late, scrollVars, article, refresh, fetch,
                       bar, term, calm>>

\* createSecondSearchResultsHost: the table view replaces the host of an earlier stream,
\* the card view shares it.
HostOf(s) == IF stream[s].host # "none" THEN stream[s].host ELSE view

HostRows(s) ==
    CASE stream[s].host \in Containers -> host[stream[s].host].rows
      [] stream[s].host = "none" /\ view = "card" -> host["card"].rows
      [] OTHER -> <<>>

\* A line of AI results with a host: a stream keeps the host it made even when a
\* cleanup has taken it out of the page, and then its rows are seen nowhere.  The first
\* new row brings the notices; a host that got no row is removed again.
AiLineInHost(s, i) ==
    LET rows  == deduplicateRows(LiveCache, s, i)
        h     == HostOf(s)
        keep  == rows # <<>> \/ stream[s].seeAlso
        others == IF (stream[s].host = "none" /\ view = "table") \/ (~keep /\ h \in Containers)
                  THEN Detach(h) ELSE stream
        noText == rows # <<>> /\ LiveCache.text = <<>> /\ ~stream[s].noText
    IN  /\ stream[s].pc = "open" /\ stream[s].lines < MaxLines
        /\ stream[s].host # "none" \/ Present(view)
        /\ cache' = [LiveCache EXCEPT !.ai = @ \o rows]
        /\ host' = IF h \notin Containers THEN host
                   ELSE [host EXCEPT ![h] = IF keep THEN [on |-> TRUE, rows |-> HostRows(s) \o rows]
                                            ELSE NoHost]
        /\ notice' = IF ~Present(view) THEN notice
                     ELSE [notice EXCEPT ![view] = Notice(@, noText, LiveCache.text)]
        /\ stream' = [others EXCEPT
              ![s].lines = @ + 1,
              ![s].host = IF keep THEN h ELSE "none",
              ![s].seeAlso = keep,
              ![s].noText = (@ \/ noText) /\ LiveCache.text = <<>>]
        /\ UNCHANGED <<view, query, offset, els, late, scrollVars, article, refresh, fetch,
                       bar, term, calm>>

\* The stream ends: without a text row the notice is inserted, unless this stream did so.
StreamEnds(s) ==
    /\ stream[s].pc = "open"
    /\ stream' = [stream EXCEPT ![s] = [IdleStream EXCEPT !.pc = "done"]]
    /\ notice' = IF ~Present(view) THEN notice
                 ELSE [notice EXCEPT ![view] = Notice(@, ~stream[s].noText, cache.text)]
    /\ UNCHANGED <<view, query, offset, els, host, scrollVars, article, refresh, fetch, late,
                   bar, term, cache, calm>>

\* The request or a read fails: the stream is left where it is, with a warning.
StreamFails(s) ==
    /\ stream[s].pc = "open"
    /\ stream' = [stream EXCEPT ![s] = [IdleStream EXCEPT !.pc = "done"]]
    /\ UNCHANGED <<view, query, offset, domVars, scrollVars, article, refresh, fetch, late,
                   bar, term, cache, calm>>

\* The texts go to the primary container, the AI results to a new host, and the notice
\* says that the text search found nothing.
PrintCache ==
    /\ els' = [els EXCEPT ![view][1].rows = IF view = "table" THEN cache.text ELSE <<>>]
    /\ late' = IF view = "card" /\ cache.text # <<>>
               THEN late \cup {[el |-> els[view][1].id, rows |-> cache.text]} ELSE late
    /\ host' = [host EXCEPT ![view] = [on |-> TRUE, rows |-> cache.ai]]
    /\ notice' = [notice EXCEPT ![view] = cache.text = <<>>]
    /\ stream' = Detach(view)

\* rerenderCachedSearchResults: a filter or a sort of the results empties the page and
\* prints the cache again.
rerenderCachedSearchResults ==
    /\ cache.live /\ term
    /\ cache' = [cache EXCEPT !.rendered = TRUE]
    /\ \/ ~Present(view) /\ UNCHANGED <<domVars, late, stream>>
       \/ Present(view) /\ PrintCache
    /\ UNCHANGED <<view, query, offset, scrollVars, article, refresh, fetch, bar, term, calm>>

\* removeSearch: the search leaves the URL, the cache and the page, and a refresh starts
\* in the same step; a stream that is still open is not stopped.
removeSearch(r) ==
    /\ term /\ bar # "none" /\ NextRefresh(r)
    /\ term' = FALSE /\ cache' = NoCache
    /\ host' = [v \in Containers |-> NoHost]
    /\ notice' = [v \in Containers |-> FALSE]
    /\ stream' = [s \in Searches |-> IF stream[s].host \in Containers
                                     THEN [stream[s] EXCEPT !.host = "gone"] ELSE stream[s]]
    /\ StartRefresh(r, query, view, 0, FALSE, NoCache)
    /\ calm' = Quiet
    /\ UNCHANGED <<els, article, fetch, late, bar>>
-----------------------------------------------------------------------------
Next ==
    \/ \E r \in Refreshes : \/ refreshTableUnified(r) \/ RefreshAnswered(r)
                            \/ generate_table(r) \/ RefreshFailed(r) \/ removeSearch(r)
    \/ \E f \in Fetches : fetchMoreData(f) \/ FetchAnswered(f) \/ FetchFailed(f)
    \/ FetchUnderArticle
    \/ \E b \in late : AppendCards(b)
    \/ OpenArticle \/ CloseArticle
    \/ \E s \in Searches : \/ do_intelligent_search(s) \/ StreamEnds(s) \/ StreamFails(s)
    \/ \E s \in Searches, i \in 1..NumRows :
          TextLine(s, i) \/ AiLineWithoutHost(s, i) \/ AiLineInHost(s, i)
    \/ rerenderCachedSearchResults

\* Nothing makes a request be answered or a user act, so no step is forced.
Spec == Init /\ [][Next]_vars
-----------------------------------------------------------------------------
RowSet == [from : {"page", "search"}, key : Nat, id : 1..NumRows]
RowSeq == Seq(RowSet)
ElementId == Refreshes \X Nat

\* Every variable has its type.
TypeOK ==
    /\ view \in Views \cup {"card"} /\ query \in 1..MaxQuery /\ offset \in Nat
    /\ els \in [Containers -> Seq([id : ElementId, rows : RowSeq])]
    /\ host \in [Containers -> [on : BOOLEAN, rows : RowSeq]]
    /\ notice \in [Containers -> BOOLEAN]
    /\ observer \in BOOLEAN /\ isLoading \in BOOLEAN
    /\ article \in BOOLEAN
    /\ refresh \in [Refreshes -> [pc : {"idle", "asked", "building", "done", "failed"}, again : Nat,
                                  query : 1..MaxQuery, view : {"table", "card", "map"},
                                  built : Containers, cached : BOOLEAN, rows : RowSeq]]
    /\ fetch \in [Fetches -> [pc : {"idle", "asked", "done"}, query : 1..MaxQuery, offset : Nat]]
    /\ late \subseteq [el : ElementId, rows : RowSeq]
    /\ bar \in {"none", "pending", "ready"} /\ term \in BOOLEAN
    /\ cache \in [live : BOOLEAN, text : RowSeq, ai : RowSeq, rendered : BOOLEAN]
    /\ stream \in [Searches -> [pc : {"idle", "open", "done"}, lines : 0..MaxLines,
                                host : Containers \cup {"none", "gone"},
                                noText : BOOLEAN, seeAlso : BOOLEAN]]
    /\ calm \in BOOLEAN

\* What the user sees in view v once its batches have been appended.
LateRows(v) == {b \in late : v = "card" /\ b.el = els[v][1].id}

\* A refresh that starts while nothing else is on its way, and the scrolling after it,
\* show the rows of the query one page after another, none twice and none left out: in
\* a table in the order of the query, in the card view up to the batches still on their
\* way.
PagesInOrder ==
    calm /\ ~RefreshOpen /\ Present(view) =>
        /\ Len(els[view]) = 1
        /\ LET rows == els[view][1].rows
               wait == LateRows(view)
           IN  /\ view = "table" => rows = [i \in 1..offset |-> PageRow(query, i)]
               /\ {rows[n] : n \in DOMAIN rows}
                     \cup UNION {{b.rows[n] : n \in DOMAIN b.rows} : b \in wait}
                   = {PageRow(query, i) : i \in 1..offset}
               /\ Cardinality({rows[n] : n \in DOMAIN rows}) = Len(rows)

\* Scrolling never stops before the last row by itself: in a calm view without an open
\* article, infinite scroll is off only when every row has been shown.
ScrollNotStuck ==
    calm /\ ~RefreshOpen /\ Present(view) /\ ~article /\ ~observer => offset >= NumRows

\* The loading flag of infinite scroll is never left behind: while it is set, a fetch
\* that will clear it is on its way.  (It would block every later fetch.)
LoadingMeansInFlight == isLoading => FetchOpen

\* The notice that the text search found nothing never stands in the current view over
\* found text rows, once the refreshes have been answered.  (A user who changes the view
\* and back within one refresh sees the old notice until the answer, and a failed refresh
\* leaves it.)
NoticeIsTrue ==
    /\ view \in Containers /\ notice[view]
    /\ \A r \in Refreshes : refresh[r].pc \notin {"asked", "failed"}
    => cache.text = <<>>

\* "Stop infinite scroll to prevent normal data fetches from racing with streamed search
\* results": while the results of a search are streamed, no infinite-scroll fetch starts.
NoFetchDuringSearch ==
    [][StreamOpen => \A f \in Fetches : fetch'[f].pc = "asked" => fetch[f].pc = "asked"]_vars
-----------------------------------------------------------------------------
(* Proofs: the type invariant, that the loading flag of infinite scroll is   *)
(* never left behind, that the notice of a search without results tells the  *)
(* truth, and that a view which met nothing but one refresh shows its rows   *)
(* in order and can always load the rest.                                    *)

USE SizesAssumption, ViewsAssumption

(* The types of TypeOK, by name. *)
Element   == [id : ElementId, rows : RowSeq]
Els       == [Containers -> Seq(Element)]
Host      == [on : BOOLEAN, rows : RowSeq]
Notices   == [Containers -> BOOLEAN]
Call      == [pc : {"idle", "asked", "building", "done", "failed"}, again : Nat,
              query : 1..MaxQuery, view : {"table", "card", "map"},
              built : Containers, cached : BOOLEAN, rows : RowSeq]
ScrollJob == [pc : {"idle", "asked", "done"}, query : 1..MaxQuery, offset : Nat]
Batch     == [el : ElementId, rows : RowSeq]
Cache     == [live : BOOLEAN, text : RowSeq, ai : RowSeq, rendered : BOOLEAN]
Stream    == [pc : {"idle", "open", "done"}, lines : 0..MaxLines,
              host : Containers \cup {"none", "gone"},
              noText : BOOLEAN, seeAlso : BOOLEAN]

Shown == Views \cup {"card"}

Typed ==
  /\ view \in {"table", "card", "map"} /\ view \in Shown
  /\ query \in 1..MaxQuery /\ offset \in Nat
  /\ els \in Els /\ host \in [Containers -> Host] /\ notice \in Notices
  /\ observer \in BOOLEAN /\ isLoading \in BOOLEAN /\ article \in BOOLEAN
  /\ refresh \in [Refreshes -> Call] /\ fetch \in [Fetches -> ScrollJob]
  /\ late \subseteq Batch
  /\ bar \in {"none", "pending", "ready"} /\ term \in BOOLEAN
  /\ cache \in Cache /\ stream \in [Searches -> Stream]
  /\ calm \in BOOLEAN

LEMMA TypedIsTypeOK == TypeOK <=> Typed
BY DEF TypeOK, Typed, Shown, Element, Els, Host, Notices, Call, ScrollJob, Batch, Cache, Stream

-----------------------------------------------------------------------------
(* What the helpers return *)

LEMMA EmptyRows == <<>> \in RowSeq BY DEF RowSeq

LEMMA ConcatRows ==
  ASSUME NEW a \in RowSeq, NEW b \in RowSeq
  PROVE  a \o b \in RowSeq BY DEF RowSeq

\* An answer is a sequence of rows of the dataset.
LEMMA PageType ==
  ASSUME NEW k \in Nat, NEW off \in Nat
  PROVE  Page(k, off) \in RowSeq
<1> DEFINE size == IF off >= NumRows THEN 0
                   ELSE IF NumRows - off < PageSize THEN NumRows - off ELSE PageSize
<1>1. size \in Nat /\ (size = 0 \/ off + size =< NumRows) OBVIOUS
<1>2. \A i \in 1..size : PageRow(k, off + i) \in RowSet BY <1>1 DEF PageRow, RowSet
<1> HIDE DEF size
<1>3. [i \in 1..size |-> PageRow(k, off + i)] \in Seq(RowSet) BY <1>1, <1>2
<1> QED BY <1>3 DEF Page, RowSeq, size

LEMMA DedupType ==
  ASSUME NEW c \in Cache, NEW s \in Searches, NEW i \in 1..NumRows
  PROVE  deduplicateRows(c, s, i) \in RowSeq
<1>1. SearchRow(s, i) \in RowSet BY DEF SearchRow, RowSet, Searches
<1> QED BY <1>1, EmptyRows DEF deduplicateRows, RowSeq

LEMMA CachedRowsType ==
  ASSUME NEW c \in Cache
  PROVE  getCachedSearchResultForRender(c) \in RowSeq BY ConcatRows DEF getCachedSearchResultForRender, Cache

LEMMA CacheConstants == EmptyCache \in Cache /\ NoCache \in Cache BY EmptyRows DEF EmptyCache, NoCache, Cache

LEMMA IdleTypes ==
  /\ IdleRefresh \in Call /\ DoneRefresh \in Call /\ FailedRefresh \in Call
  /\ IdleFetch \in ScrollJob /\ DoneFetch \in ScrollJob
  /\ IdleStream \in Stream /\ [IdleStream EXCEPT !.pc = "done"] \in Stream
  /\ NoHost \in Host
<1>1. IdleRefresh \in Call BY EmptyRows DEF IdleRefresh, Call, Containers
<1>2. DoneRefresh \in Call BY <1>1 DEF DoneRefresh, Call
<1>3. FailedRefresh \in Call BY <1>1 DEF FailedRefresh, Call
<1>4. IdleFetch \in ScrollJob BY DEF IdleFetch, ScrollJob
<1>5. DoneFetch \in ScrollJob BY <1>4 DEF DoneFetch, ScrollJob
<1>6. IdleStream \in Stream BY DEF IdleStream, Stream
<1>7. [IdleStream EXCEPT !.pc = "done"] \in Stream BY <1>6 DEF Stream
<1>8. NoHost \in Host BY EmptyRows DEF NoHost, Host
<1> QED BY <1>1, <1>2, <1>3, <1>4, <1>5, <1>6, <1>7, <1>8

\* Rows put into the element in front of a container.
LEMMA FirstElement ==
  ASSUME NEW s \in Seq(Element), s # <<>>, NEW rows \in RowSeq
  PROVE  /\ s[1] \in Element
         /\ [s EXCEPT ![1].rows = rows] \in Seq(Element)
         /\ [s EXCEPT ![1].rows = rows] # <<>>
<1>1. s[1] \in Element /\ Len(s) \in Nat /\ Len(s) >= 1 OBVIOUS
<1>2. [s[1] EXCEPT !.rows = rows] \in Element BY <1>1 DEF Element
<1> DEFINE t == [s EXCEPT ![1] = [s[1] EXCEPT !.rows = rows]]
<1>3. t \in Seq(Element) /\ Len(t) = Len(s) BY <1>1, <1>2
<1>4. t # <<>> BY <1>1, <1>3
<1> QED BY <1>1, <1>3, <1>4

\* A container that has an element keeps one when rows are put into it.
Kept(e) == \A v \in Containers : els[v] # <<>> => e[v] # <<>>

LEMMA FirstTypes ==
  ASSUME els \in Els, NEW v \in Containers, els[v] # <<>>, NEW rows \in RowSeq
  PROVE  /\ [els EXCEPT ![v][1].rows = rows] \in Els
         /\ Kept([els EXCEPT ![v][1].rows = rows])
<1> DEFINE t == [els[v] EXCEPT ![1].rows = rows]
<1>1. els[v] \in Seq(Element) BY DEF Els
<1>2. t \in Seq(Element) /\ t # <<>> BY <1>1, FirstElement
<1> HIDE DEF t
<1>3. [els EXCEPT ![v] = t] \in Els BY <1>2 DEF Els
<1>4. Kept([els EXCEPT ![v] = t]) BY <1>2 DEF Els, Kept
<1> QED BY <1>3, <1>4 DEF t

LEMMA AppendFirstType ==
  ASSUME els \in Els, NEW v \in Containers, els[v] # <<>>, NEW rows \in RowSeq
  PROVE  /\ AppendFirst(v, rows) \in Els /\ Kept(AppendFirst(v, rows))
         /\ EmptyFirst(v) \in Els /\ Kept(EmptyFirst(v))
<1>1. els[v][1].rows \o rows \in RowSeq BY FirstElement, ConcatRows DEF Element, Els
<1>2. AppendFirst(v, rows) = [els EXCEPT ![v][1].rows = els[v][1].rows \o rows] BY DEF AppendFirst
<1>3. AppendFirst(v, rows) \in Els /\ Kept(AppendFirst(v, rows)) BY <1>1, <1>2, FirstTypes
<1>4. EmptyFirst(v) \in Els /\ Kept(EmptyFirst(v)) BY EmptyRows, FirstTypes DEF EmptyFirst
<1> QED BY <1>3, <1>4

LEMMA AppendOne ==
  ASSUME NEW s \in Seq(Element), NEW e \in Element
  PROVE  Append(s, e) \in Seq(Element) /\ Append(s, e) # <<>> OBVIOUS

LEMMA PresentFacts ==
  ASSUME Typed, NEW v, Present(v)
  PROVE  v \in Containers /\ els[v] # <<>> /\ els[v] \in Seq(Element) /\ els[v][1] \in Element
<1>1. v \in Containers /\ els[v] # <<>> BY DEF Present
<1>2. els[v] \in Seq(Element) BY <1>1 DEF Typed, Els
<1> QED BY <1>1, <1>2, FirstElement, EmptyRows

\* A batch for an element.
LEMMA BatchType ==
  ASSUME NEW e \in Element, NEW rows \in RowSeq
  PROVE  [el |-> e.id, rows |-> rows] \in Batch BY DEF Element, Batch

LEMMA AppendType ==
  ASSUME Typed, NEW rows \in RowSeq, NEW append \in BOOLEAN, appendDataToView(rows, append)
  PROVE  els' \in Els /\ late' \subseteq Batch /\ Kept(els')
<1>1. CASE ~Present(view) /\ UNCHANGED <<els, late>> BY <1>1 DEF Typed, Kept
<1>2. CASE /\ Present(view) /\ view = "table"
           /\ els' = IF append THEN AppendFirst(view, rows)
                     ELSE [els EXCEPT ![view][1].rows = rows]
           /\ UNCHANGED late
 <2>1. view \in Containers /\ els[view] # <<>> /\ els \in Els /\ late' \subseteq Batch
   BY <1>2, PresentFacts DEF Typed
 <2>2. CASE append BY <1>2, <2>1, <2>2, AppendFirstType
 <2>3. CASE ~append BY <1>2, <2>1, <2>3, FirstTypes
 <2> QED BY <2>2, <2>3
<1>3. CASE /\ Present(view) /\ view = "card"
           /\ els' = IF append THEN els ELSE EmptyFirst(view)
           /\ late' = IF rows = <<>> THEN late
                      ELSE late \cup {[el |-> els[view][1].id, rows |-> rows]}
 <2>1. view \in Containers /\ els[view] # <<>> /\ els \in Els /\ els[view][1] \in Element
   BY <1>3, PresentFacts DEF Typed
 <2>2. els' \in Els /\ Kept(els')
  <3>1. CASE append BY <1>3, <2>1, <3>1 DEF Kept
  <3>2. CASE ~append BY <1>3, <2>1, <3>2, AppendFirstType
  <3> QED BY <3>1, <3>2
 <2>3. late' \subseteq Batch BY <1>3, <2>1, BatchType DEF Typed
 <2> QED BY <2>2, <2>3
<1> QED BY <1>1, <1>2, <1>3 DEF appendDataToView

\* A refresh starts with well-formed values.
LEMMA StartType ==
  ASSUME Typed, NEW r \in Refreshes, NEW k \in 1..MaxQuery, NEW v \in Shown,
         NEW again \in Nat, NEW t \in BOOLEAN, NEW c \in Cache, StartRefresh(r, k, v, again, t, c)
  PROVE  /\ query' \in 1..MaxQuery /\ offset' \in Nat
         /\ view' \in {"table", "card", "map"} /\ view' \in Shown
         /\ observer' \in BOOLEAN /\ isLoading' = FALSE
         /\ refresh' \in [Refreshes -> Call] /\ refresh'[r].pc = "asked"
<1> DEFINE cached == t /\ c.live
           rows == IF cached THEN getCachedSearchResultForRender(c) ELSE <<>>
           call == [refresh[r] EXCEPT !.pc = "asked", !.again = again, !.query = k, !.view = v,
                                      !.cached = cached, !.rows = rows]
<1>1. rows \in RowSeq /\ cached \in BOOLEAN BY CachedRowsType, EmptyRows DEF Cache
<1>2. v \in {"table", "card", "map"} BY ViewsAssumption DEF Shown
<1>3. call \in Call /\ call.pc = "asked"
 <2>1. refresh[r] \in Call BY DEF Typed
 <2> HIDE DEF cached, rows
 <2> QED BY <1>1, <1>2, <2>1 DEF Call
<1>4. refresh' = [refresh EXCEPT ![r] = call] BY DEF StartRefresh
<1> HIDE DEF call
<1>5. refresh' \in [Refreshes -> Call] /\ refresh'[r].pc = "asked" BY <1>3, <1>4 DEF Typed
<1> QED BY <1>2, <1>5 DEF StartRefresh, disconnectInfiniteScroll

LEMMA StartAsks ==
  ASSUME Typed, NEW r \in Refreshes, NEW k, NEW v, NEW again, NEW t, NEW c,
         StartRefresh(r, k, v, again, t, c)
  PROVE  refresh'[r].pc = "asked" BY DEF StartRefresh, Typed

LEMMA DetachType ==
  ASSUME Typed, NEW v
  PROVE  Detach(v) \in [Searches -> Stream] BY DEF Typed, Detach, Stream

-----------------------------------------------------------------------------
(* The type invariant *)

LEMMA TypeInit == Init => Typed
<1> SUFFICES ASSUME Init PROVE Typed OBVIOUS
<1>1. view \in {"table", "card", "map"} /\ view \in Shown BY ViewsAssumption DEF Init, Shown
<1>2. els \in Els /\ host \in [Containers -> Host] /\ notice \in Notices
 <2>1. <<>> \in Seq(Element) OBVIOUS
 <2> QED BY <2>1, IdleTypes DEF Init, Els, Notices
<1>3. refresh \in [Refreshes -> Call] /\ fetch \in [Fetches -> ScrollJob]
      /\ stream \in [Searches -> Stream] BY IdleTypes DEF Init
<1>4. query \in 1..MaxQuery /\ offset \in Nat BY DEF Init
<1> QED BY <1>1, <1>2, <1>3, <1>4, CacheConstants DEF Init, Typed

LEMMA ContainerTypes ==
  /\ [v \in Containers |-> <<>>] \in Els
  /\ [v \in Containers |-> NoHost] \in [Containers -> Host]
  /\ [v \in Containers |-> FALSE] \in Notices
<1>1. <<>> \in Seq(Element) OBVIOUS
<1> QED BY <1>1, IdleTypes DEF Els, Notices

\* Hosts that leave the page leave their streams well formed.
LEMMA GoneType ==
  ASSUME Typed
  PROVE  [s \in Searches |-> IF stream[s].host \in Containers
                             THEN [stream[s] EXCEPT !.host = "gone"] ELSE stream[s]]
         \in [Searches -> Stream] BY DEF Typed, Stream

LEMMA TypeRefresh ==
  ASSUME Typed, NEW r \in Refreshes, refreshTableUnified(r)
  PROVE  Typed'
<1>1. PICK k \in 1..MaxQuery, v \in Views : StartRefresh(r, k, v, 0, term, cache) BY DEF refreshTableUnified
<1>2. term \in BOOLEAN /\ cache \in Cache BY DEF Typed
<1>3. /\ query' \in 1..MaxQuery /\ offset' \in Nat
      /\ view' \in {"table", "card", "map"} /\ view' \in Shown
      /\ observer' \in BOOLEAN /\ isLoading' = FALSE /\ refresh' \in [Refreshes -> Call]
  BY <1>1, <1>2, StartType DEF Shown
<1>4. calm' \in BOOLEAN BY <1>2 DEF refreshTableUnified, Quiet
<1> QED BY <1>3, <1>4 DEF refreshTableUnified, Typed, domVars, searchVars

LEMMA RemoveType ==
  ASSUME Typed, NEW r \in Refreshes, removeSearch(r)
  PROVE  Typed'
<1>1. StartRefresh(r, query, view, 0, FALSE, NoCache) BY DEF removeSearch
<1>2. query \in 1..MaxQuery /\ view \in Shown BY DEF Typed
<1>3. /\ query' \in 1..MaxQuery /\ offset' \in Nat
      /\ view' \in {"table", "card", "map"} /\ view' \in Shown
      /\ observer' \in BOOLEAN /\ isLoading' = FALSE /\ refresh' \in [Refreshes -> Call]
  BY <1>1, <1>2, StartType, CacheConstants
<1>4. calm' \in BOOLEAN BY DEF removeSearch, Quiet
<1> QED BY <1>3, <1>4, GoneType, ContainerTypes, CacheConstants DEF removeSearch, Typed

LEMMA AnsweredType ==
  ASSUME Typed, NEW r \in Refreshes, RefreshAnswered(r)
  PROVE  Typed'
<1> DEFINE data == Page(refresh[r].query, 0)
           v == resolveRenderableView(view)
<1>1. refresh[r] \in Call /\ refresh[r].query \in Nat BY DEF Typed, Call
<1>2. data \in RowSeq BY <1>1, PageType
<1>3. v \in Containers /\ v \in {"table", "card", "map"} /\ v \in Shown
  BY DEF Typed, Shown, resolveRenderableView, Containers
<1> HIDE DEF data, v
<1>4. refresh' \in [Refreshes -> Call]
 <2> DEFINE rows == IF refresh[r].cached THEN refresh[r].rows ELSE data
            call == [refresh[r] EXCEPT !.pc = "building", !.built = v, !.rows = rows]
 <2>1. rows \in RowSeq BY <1>1, <1>2 DEF Call
 <2> HIDE DEF rows
 <2>2. call \in Call BY <1>1, <1>3, <2>1 DEF Call
 <2>3. refresh' = [refresh EXCEPT ![r] = call] BY DEF RefreshAnswered, rows, data, v, Typed
 <2> QED BY <2>2, <2>3 DEF Typed
<1>5. offset' \in Nat
 <2>1. Len(data) \in Nat BY <1>2 DEF RowSeq
 <2> QED BY <2>1 DEF RefreshAnswered, Typed, data
<1>6. view' = v BY DEF RefreshAnswered, v
<1>7. bar' \in {"none", "pending", "ready"} BY DEF RefreshAnswered, Typed
<1>8. els' \in Els /\ host' \in [Containers -> Host] /\ notice' \in Notices
      /\ stream' \in [Searches -> Stream] BY ContainerTypes, GoneType DEF RefreshAnswered
<1> QED BY <1>3, <1>4, <1>5, <1>6, <1>7, <1>8 DEF RefreshAnswered, Typed, scrollVars

LEMMA GenerateType ==
  ASSUME Typed, NEW r \in Refreshes, generate_table(r)
  PROVE  Typed' /\ Kept(els')
<1> DEFINE e == [id |-> <<r, refresh[r].again>>, rows |-> refresh[r].rows]
<1>1. refresh[r] \in Call /\ refresh[r].built \in Containers /\ refresh[r].again \in Nat BY DEF Typed, Call
<1>2. e \in Element BY <1>1 DEF Element, Call, ElementId
<1> HIDE DEF e
<1>3. els' = [els EXCEPT ![refresh[r].built] = Append(els[refresh[r].built], e)] BY DEF generate_table, e
<1>4. els' \in Els /\ Kept(els')
 <2> DEFINE b == refresh[r].built
            t == Append(els[b], e)
 <2>1. t \in Seq(Element) /\ t # <<>>
  <3>1. els[b] \in Seq(Element) BY <1>1 DEF Typed, Els
  <3> QED BY <1>2, <3>1, AppendOne
 <2> HIDE DEF t
 <2> QED BY <1>1, <1>3, <2>1 DEF Typed, Els, Kept, t
<1>5. /\ query' \in 1..MaxQuery /\ offset' \in Nat
      /\ view' \in {"table", "card", "map"} /\ view' \in Shown
      /\ observer' \in BOOLEAN /\ isLoading' \in BOOLEAN /\ refresh' \in [Refreshes -> Call]
      /\ calm' \in BOOLEAN
 <2>1. CASE view # refresh[r].view
  <3> DEFINE n == refresh[r].again + 1
  <3>1. StartRefresh(r, query, view, n, term, cache) BY <2>1 DEF generate_table
  <3>2. query \in 1..MaxQuery /\ view \in Shown /\ term \in BOOLEAN
        /\ cache \in Cache /\ n \in Nat BY <1>1 DEF Typed
  <3> HIDE DEF n
  <3>3. calm' \in BOOLEAN BY <2>1 DEF generate_table
  <3>4. /\ query' \in 1..MaxQuery /\ offset' \in Nat
        /\ view' \in {"table", "card", "map"} /\ view' \in Shown
        /\ observer' \in BOOLEAN /\ isLoading' = FALSE /\ refresh' \in [Refreshes -> Call]
    BY <3>1, <3>2, StartType
  <3> QED BY <3>3, <3>4
 <2>2. CASE view = refresh[r].view
  <3>1. refresh' = [refresh EXCEPT ![r] = DoneRefresh] /\ UNCHANGED <<view, query, offset, calm>>
    BY <2>2 DEF generate_table
  <3>2. observer' \in BOOLEAN /\ isLoading' \in BOOLEAN
    BY <2>2 DEF generate_table, disconnectInfiniteScroll, initializeInfiniteScroll, Typed
  <3> QED BY <3>1, <3>2, IdleTypes DEF Typed
 <2> QED BY <2>1, <2>2
<1>6. UNCHANGED <<host, notice, article, fetch, late, searchVars>> BY DEF generate_table
<1> QED BY <1>4, <1>5, <1>6 DEF Typed, searchVars

LEMMA ScrollType ==
  ASSUME Typed, NEW f \in Fetches, fetchMoreData(f) \/ FetchAnswered(f) \/ FetchFailed(f)
  PROVE  Typed' /\ Kept(els')
<1>1. CASE fetchMoreData(f)
 <2>1. [pc |-> "asked", query |-> query, offset |-> offset] \in ScrollJob BY DEF Typed, ScrollJob
 <2>2. fetch' \in [Fetches -> ScrollJob] BY <1>1, <2>1 DEF fetchMoreData, Typed
 <2> QED BY <1>1, <2>2 DEF fetchMoreData, Typed, Kept, domVars, searchVars
<1>2. CASE FetchAnswered(f)
 <2> DEFINE data == Page(fetch[f].query, fetch[f].offset)
 <2>1. fetch[f].query \in Nat /\ fetch[f].offset \in Nat BY DEF Typed, ScrollJob
 <2>2. data \in RowSeq BY <2>1, PageType
 <2> HIDE DEF data
 <2>3. els' \in Els /\ late' \subseteq Batch /\ Kept(els') /\ offset' \in Nat
       /\ observer' \in BOOLEAN
  <3>1. CASE data = <<>> BY <1>2, <3>1 DEF FetchAnswered, data, Typed, Kept
  <3>2. CASE data # <<>>
   <4>1. appendDataToView(data, TRUE) /\ offset' = offset + Len(data) /\ UNCHANGED observer
     BY <1>2, <3>2 DEF FetchAnswered, data
   <4>2. Len(data) \in Nat BY <2>2 DEF RowSeq
   <4>3. els' \in Els /\ late' \subseteq Batch /\ Kept(els') BY <2>2, <4>1, AppendType
   <4>4. offset' \in Nat /\ observer' \in BOOLEAN BY <4>1, <4>2 DEF Typed
   <4> QED BY <4>3, <4>4
  <3> QED BY <3>1, <3>2
 <2>4. fetch' \in [Fetches -> ScrollJob] BY <1>2, IdleTypes DEF FetchAnswered, Typed
 <2>5. isLoading' = FALSE /\ UNCHANGED <<view, query, host, notice, article, refresh, searchVars, calm>>
   BY <1>2 DEF FetchAnswered
 <2> QED BY <2>3, <2>4, <2>5 DEF Typed, searchVars
<1>3. CASE FetchFailed(f)
 <2>1. fetch' \in [Fetches -> ScrollJob] BY <1>3, IdleTypes DEF FetchFailed, Typed
 <2> QED BY <1>3, <2>1 DEF FetchFailed, Typed, Kept, domVars, searchVars
<1> QED BY <1>1, <1>2, <1>3

LEMMA CardsType ==
  ASSUME Typed, NEW b \in late, AppendCards(b)
  PROVE  Typed' /\ Kept(els')
<1> DEFINE s == els["card"]
           t == [n \in DOMAIN s |-> IF s[n].id # b.el THEN s[n]
                                    ELSE [s[n] EXCEPT !.rows = @ \o b.rows]]
<1>1. s \in Seq(Element) /\ b \in Batch BY DEF Typed, Els, Containers
<1>2. \A n \in DOMAIN s : t[n] \in Element
 <2> TAKE n \in DOMAIN s
 <2>1. s[n] \in Element BY <1>1
 <2>2. s[n].rows \o b.rows \in RowSeq BY <1>1, <2>1, ConcatRows DEF Element, Batch
 <2>3. [s[n] EXCEPT !.rows = s[n].rows \o b.rows] \in Element BY <2>1, <2>2 DEF Element
 <2> QED BY <2>1, <2>3
<1>3. t \in Seq(Element) /\ (s # <<>> => t # <<>>)
 <2> HIDE DEF s
 <2>1. Len(s) \in Nat /\ DOMAIN s = 1..Len(s) BY <1>1
 <2>2. DOMAIN t = 1..Len(s) BY <2>1
 <2>3. t \in [1..Len(s) -> Element] BY <1>2, <2>1
 <2> HIDE DEF t
 <2>4. t \in Seq(Element) /\ Len(t) = Len(s) BY <2>1, <2>2, <2>3
 <2> QED BY <1>1, <2>1, <2>4
<1>4. els' = [els EXCEPT !["card"] = t] BY DEF AppendCards
<1> HIDE DEF t
<1>5. els' \in Els /\ Kept(els') BY <1>3, <1>4 DEF Typed, Els, Kept, Containers
<1>6. late' \subseteq Batch BY DEF AppendCards, Typed
<1> QED BY <1>5, <1>6 DEF AppendCards, Typed, scrollVars, searchVars

LEMMA ArticleType ==
  ASSUME Typed, FetchUnderArticle \/ OpenArticle \/ CloseArticle
  PROVE  Typed' /\ Kept(els')
<1>1. CASE FetchUnderArticle BY <1>1 DEF FetchUnderArticle, Typed, Kept, domVars, searchVars
<1>2. CASE OpenArticle BY <1>2 DEF OpenArticle, disconnectInfiniteScroll, Typed, Kept, domVars, searchVars
<1>3. CASE CloseArticle
 <2>1. observer' \in BOOLEAN /\ calm' \in BOOLEAN BY <1>3 DEF CloseArticle, initializeInfiniteScroll, Typed
 <2> QED BY <1>3, <2>1 DEF CloseArticle, Typed, Kept, domVars, searchVars
<1> QED BY <1>1, <1>2, <1>3

LEMMA CleanupType ==
  ASSUME Typed, cleanupSearchArtifacts
  PROVE  /\ els' \in Els /\ host' \in [Containers -> Host] /\ notice' \in Notices
         /\ Kept(els')
<1>1. CASE Present(view)
 <2>1. view \in Containers /\ els[view] # <<>> /\ els \in Els BY <1>1, PresentFacts DEF Typed
 <2>2. els' = EmptyFirst(view) /\ host' = [host EXCEPT ![view] = NoHost]
       /\ notice' = [notice EXCEPT ![view] = FALSE] BY <1>1 DEF cleanupSearchArtifacts
 <2>3. els' \in Els /\ Kept(els') BY <2>1, <2>2, EmptyRows, AppendFirstType
 <2> QED BY <2>2, <2>3, IdleTypes DEF Typed, Notices
<1>2. CASE ~Present(view) BY <1>2 DEF cleanupSearchArtifacts, domVars, Typed, Kept
<1> QED BY <1>1, <1>2

LEMMA SearchStartType ==
  ASSUME Typed, NEW s \in Searches, do_intelligent_search(s)
  PROVE  Typed' /\ Kept(els')
<1> DEFINE all == IF Present(view) THEN Detach(view) ELSE stream
<1>1. all \in [Searches -> Stream] BY DetachType DEF Typed
<1>2. stream' = [all EXCEPT ![s].pc = "open"] BY DEF do_intelligent_search
<1> HIDE DEF all
<1>3. stream' \in [Searches -> Stream]
 <2>1. [all[s] EXCEPT !.pc = "open"] \in Stream BY <1>1 DEF Stream
 <2> QED BY <1>1, <1>2, <2>1
<1>4. cleanupSearchArtifacts BY DEF do_intelligent_search
<1>5. /\ els' \in Els /\ host' \in [Containers -> Host] /\ notice' \in Notices
      /\ Kept(els') BY <1>4, CleanupType
<1> QED BY <1>3, <1>5, CacheConstants DEF do_intelligent_search, disconnectInfiniteScroll, Typed

LEMMA LiveCacheType == Typed => LiveCache \in Cache BY CacheConstants DEF LiveCache, Typed

LEMMA NoticeType ==
  ASSUME Typed, NEW b \in BOOLEAN, NEW t,
         notice' = IF Present(view) THEN [notice EXCEPT ![view] = Notice(@, b, t)] ELSE notice
  PROVE  notice' \in Notices BY DEF Typed, Notice, Notices

LEMMA TextLineType ==
  ASSUME Typed, NEW s \in Searches, NEW i \in 1..NumRows, TextLine(s, i)
  PROVE  Typed' /\ Kept(els')
<1> DEFINE rows == deduplicateRows(LiveCache, s, i)
<1>1. LiveCache \in Cache BY LiveCacheType
<1>2. rows \in RowSeq BY <1>1, DedupType
<1> HIDE DEF rows
<1>3. cache' \in Cache
 <2>1. LiveCache.text \o rows \in RowSeq BY <1>1, <1>2, ConcatRows DEF Cache
 <2>2. cache' = [LiveCache EXCEPT !.text = LiveCache.text \o rows, !.rendered = TRUE] BY DEF TextLine, rows
 <2> QED BY <1>1, <2>1, <2>2 DEF Cache
<1>4. els' \in Els /\ late' \subseteq Batch /\ Kept(els')
 <2>1. appendDataToView(rows, LiveCache.rendered) /\ LiveCache.rendered \in BOOLEAN
   BY <1>1 DEF TextLine, rows, Cache
 <2> QED BY <1>2, <2>1, AppendType
<1>5. notice' \in Notices BY NoticeType, ZenonT(60) DEF TextLine
<1>6. stream' \in [Searches -> Stream]
 <2> DEFINE n == stream[s].noText /\ cache'.text = <<>>
            t == [stream[s] EXCEPT !.lines = stream[s].lines + 1, !.noText = n]
 <2>1. stream[s] \in Stream /\ stream[s].lines < MaxLines BY DEF Typed, TextLine
 <2>2. stream[s].lines + 1 \in 0..MaxLines BY <2>1 DEF Stream
 <2>3. n \in BOOLEAN OBVIOUS
 <2>4. stream' = [stream EXCEPT ![s] = t] BY DEF TextLine
 <2> HIDE DEF n
 <2>5. t \in Stream BY <2>1, <2>2, <2>3 DEF Stream
 <2> HIDE DEF t
 <2> QED BY <2>4, <2>5 DEF Typed
<1> QED BY <1>3, <1>4, <1>5, <1>6 DEF TextLine, Typed, scrollVars

LEMMA AiCacheType ==
  ASSUME Typed, NEW s \in Searches, NEW i \in 1..NumRows
  PROVE  /\ deduplicateRows(LiveCache, s, i) \in RowSeq
         /\ [LiveCache EXCEPT !.ai = @ \o deduplicateRows(LiveCache, s, i)] \in Cache
         /\ [LiveCache EXCEPT !.ai = @ \o deduplicateRows(LiveCache, s, i), !.rendered = TRUE] \in Cache
<1> DEFINE rows == deduplicateRows(LiveCache, s, i)
<1>1. LiveCache \in Cache BY LiveCacheType
<1>2. rows \in RowSeq BY <1>1, DedupType
<1> HIDE DEF rows
<1>3. LiveCache.ai \o rows \in RowSeq BY <1>1, <1>2, ConcatRows DEF Cache
<1>4. [LiveCache EXCEPT !.ai = @ \o rows] \in Cache BY <1>1, <1>3 DEF Cache
<1>5. [LiveCache EXCEPT !.ai = @ \o rows, !.rendered = TRUE] \in Cache BY <1>1, <1>3 DEF Cache
<1> QED BY <1>2, <1>4, <1>5 DEF rows

LEMMA WithoutHostType ==
  ASSUME Typed, NEW s \in Searches, NEW i \in 1..NumRows, AiLineWithoutHost(s, i)
  PROVE  Typed' /\ Kept(els')
<1>1. cache' \in Cache BY AiCacheType DEF AiLineWithoutHost
<1>2. stream' \in [Searches -> Stream]
 <2> DEFINE t == [stream[s] EXCEPT !.lines = stream[s].lines + 1]
 <2>1. stream[s] \in Stream /\ stream[s].lines < MaxLines BY DEF Typed, AiLineWithoutHost
 <2>2. stream[s].lines + 1 \in 0..MaxLines BY <2>1 DEF Stream
 <2>3. t \in Stream BY <2>1, <2>2 DEF Stream
 <2>4. stream' = [stream EXCEPT ![s] = t] BY DEF AiLineWithoutHost
 <2> HIDE DEF t
 <2> QED BY <2>3, <2>4 DEF Typed
<1> QED BY <1>1, <1>2 DEF AiLineWithoutHost, Typed, Kept, scrollVars, domVars

LEMMA HostRowsType ==
  ASSUME Typed, NEW s \in Searches
  PROVE  HostRows(s) \in RowSeq
<1>1. \A v \in Containers : host[v].rows \in RowSeq BY DEF Typed, Host
<1>2. "card" \in Containers BY DEF Containers
<1> QED BY <1>1, <1>2, EmptyRows DEF HostRows

LEMMA InHostType ==
  ASSUME Typed, NEW s \in Searches, NEW i \in 1..NumRows, AiLineInHost(s, i)
  PROVE  Typed' /\ Kept(els')
<1> DEFINE rows == deduplicateRows(LiveCache, s, i)
           h == HostOf(s)
           keep == rows # <<>> \/ stream[s].seeAlso
           others == IF (stream[s].host = "none" /\ view = "table") \/ (~keep /\ h \in Containers)
                     THEN Detach(h) ELSE stream
           noText == rows # <<>> /\ LiveCache.text = <<>> /\ ~stream[s].noText
<1>1. rows \in RowSeq /\ cache' \in Cache BY AiCacheType DEF AiLineInHost
<1>2. stream[s] \in Stream /\ stream[s].lines < MaxLines BY DEF Typed, AiLineInHost
<1>3. h \in Containers \cup {"gone"}
 <2>1. CASE stream[s].host # "none" BY <1>2, <2>1 DEF HostOf, Stream
 <2>2. CASE stream[s].host = "none" BY <2>2, PresentFacts DEF HostOf, AiLineInHost
 <2> QED BY <2>1, <2>2
<1>4. keep \in BOOLEAN /\ noText \in BOOLEAN OBVIOUS
<1>5. others \in [Searches -> Stream] BY DetachType DEF Typed
<1>6. host' \in [Containers -> Host]
 <2> DEFINE new == IF keep THEN [on |-> TRUE, rows |-> HostRows(s) \o rows] ELSE NoHost
 <2>1. HostRows(s) \o rows \in RowSeq BY <1>1, HostRowsType, ConcatRows
 <2>2. new \in Host BY <2>1, IdleTypes DEF Host
 <2>3. host' = IF h \notin Containers THEN host ELSE [host EXCEPT ![h] = new] BY DEF AiLineInHost
 <2> HIDE DEF new, h
 <2> QED BY <2>2, <2>3 DEF Typed
<1>7. notice' \in Notices
 <2>1. notice' = IF Present(view) THEN [notice EXCEPT ![view] = Notice(@, noText, LiveCache.text)]
                 ELSE notice BY DEF AiLineInHost
 <2> HIDE DEF noText
 <2> QED BY <1>4, <2>1, NoticeType
<1>8. stream' \in [Searches -> Stream]
 <2> DEFINE n == (others[s].noText \/ noText) /\ LiveCache.text = <<>>
            k == IF keep THEN h ELSE "none"
            t == [others[s] EXCEPT !.lines = others[s].lines + 1, !.host = k,
                                   !.seeAlso = keep, !.noText = n]
 <2>1. stream' = [others EXCEPT ![s] = t] BY DEF AiLineInHost
 <2>2. others[s] \in Stream /\ others[s].lines = stream[s].lines BY <1>2, <1>5 DEF Detach, Stream, Typed
 <2>3. others[s].lines + 1 \in 0..MaxLines BY <1>2, <2>2 DEF Stream
 <2>4. n \in BOOLEAN /\ k \in Containers \cup {"none", "gone"} BY <1>3
 <2> HIDE DEF others, n, k, keep
 <2>5. t \in Stream BY <1>4, <2>2, <2>3, <2>4 DEF Stream
 <2> HIDE DEF t
 <2> QED BY <1>5, <2>1, <2>5
<1>9. UNCHANGED <<view, query, offset, els, late, scrollVars, article, refresh, fetch,
                  bar, term, calm>> BY DEF AiLineInHost
<1> QED BY <1>1, <1>6, <1>7, <1>8, <1>9 DEF Typed, Kept, scrollVars

LEMMA EndType ==
  ASSUME Typed, NEW s \in Searches, StreamEnds(s) \/ StreamFails(s)
  PROVE  Typed' /\ Kept(els')
<1>1. stream' = [stream EXCEPT ![s] = [IdleStream EXCEPT !.pc = "done"]] BY DEF StreamEnds, StreamFails
<1>2. stream' \in [Searches -> Stream] BY <1>1, IdleTypes DEF Typed
<1>3. CASE StreamEnds(s)
 <2> DEFINE b == ~stream[s].noText
 <2>1. notice' = IF Present(view) THEN [notice EXCEPT ![view] = Notice(@, b, cache.text)]
                 ELSE notice BY <1>3 DEF StreamEnds
 <2>2. b \in BOOLEAN OBVIOUS
 <2> HIDE DEF b
 <2>3. notice' \in Notices BY <2>1, <2>2, NoticeType
 <2> QED BY <1>2, <1>3, <2>3 DEF StreamEnds, Typed, Kept, scrollVars
<1>4. CASE StreamFails(s) BY <1>2, <1>4 DEF StreamFails, Typed, Kept, scrollVars, domVars
<1> QED BY <1>3, <1>4

LEMMA PrintType ==
  ASSUME Typed, Present(view), PrintCache
  PROVE  /\ els' \in Els /\ host' \in [Containers -> Host] /\ notice' \in Notices
         /\ late' \subseteq Batch /\ stream' \in [Searches -> Stream] /\ Kept(els')
<1>1. view \in Containers /\ els[view] # <<>> /\ els[view][1] \in Element /\ els \in Els
  BY PresentFacts DEF Typed
<1>2. cache.text \in RowSeq /\ cache.ai \in RowSeq BY DEF Typed, Cache
<1>3. els' \in Els /\ Kept(els')
 <2> DEFINE rows == IF view = "table" THEN cache.text ELSE <<>>
 <2>1. rows \in RowSeq BY <1>2, EmptyRows
 <2>2. els' = [els EXCEPT ![view][1].rows = rows] BY DEF PrintCache
 <2> HIDE DEF rows
 <2> QED BY <1>1, <2>1, <2>2, FirstTypes
<1>4. late' \subseteq Batch BY <1>1, <1>2, BatchType DEF PrintCache, Typed
<1>5. host' \in [Containers -> Host]
 <2>1. [on |-> TRUE, rows |-> cache.ai] \in Host BY <1>2 DEF Host
 <2> QED BY <2>1 DEF PrintCache, Typed
<1>6. notice' \in Notices BY DEF PrintCache, Typed, Notices
<1> QED BY <1>3, <1>4, <1>5, <1>6, DetachType DEF PrintCache

LEMMA RerenderType ==
  ASSUME Typed, rerenderCachedSearchResults
  PROVE  Typed' /\ Kept(els')
<1>1. cache' \in Cache BY DEF rerenderCachedSearchResults, Typed, Cache
<1>2. CASE ~Present(view) /\ UNCHANGED <<domVars, late, stream>>
  BY <1>1, <1>2 DEF rerenderCachedSearchResults, Typed, Kept, domVars, scrollVars
<1>3. CASE Present(view) /\ PrintCache
 <2>1. /\ els' \in Els /\ host' \in [Containers -> Host] /\ notice' \in Notices
       /\ late' \subseteq Batch /\ stream' \in [Searches -> Stream] /\ Kept(els') BY <1>3, PrintType
 <2> QED BY <1>1, <2>1 DEF rerenderCachedSearchResults, Typed, scrollVars
<1> QED BY <1>2, <1>3 DEF rerenderCachedSearchResults

LEMMA TypeStep == Typed /\ [Next]_vars => Typed'
<1> SUFFICES ASSUME Typed, [Next]_vars PROVE Typed' OBVIOUS
<1>1. ASSUME NEW r \in Refreshes, refreshTableUnified(r) PROVE Typed' BY <1>1, TypeRefresh
<1>2. ASSUME NEW r \in Refreshes, RefreshAnswered(r) PROVE Typed' BY <1>2, AnsweredType
<1>3. ASSUME NEW r \in Refreshes, generate_table(r) PROVE Typed' BY <1>3, GenerateType
<1>4. ASSUME NEW r \in Refreshes, RefreshFailed(r) PROVE Typed'
 <2>1. refresh' \in [Refreshes -> Call] BY <1>4, IdleTypes DEF RefreshFailed, Typed
 <2> QED BY <1>4, <2>1 DEF RefreshFailed, Typed, domVars, scrollVars, searchVars
<1>5. ASSUME NEW r \in Refreshes, removeSearch(r) PROVE Typed' BY <1>5, RemoveType
<1>6. ASSUME NEW f \in Fetches, fetchMoreData(f) \/ FetchAnswered(f) \/ FetchFailed(f) PROVE Typed'
  BY <1>6, ScrollType
<1>7. ASSUME FetchUnderArticle \/ OpenArticle \/ CloseArticle PROVE Typed' BY <1>7, ArticleType
<1>8. ASSUME NEW b \in late, AppendCards(b) PROVE Typed' BY <1>8, CardsType
<1>9. ASSUME NEW s \in Searches, do_intelligent_search(s) PROVE Typed' BY <1>9, SearchStartType
<1>10. ASSUME NEW s \in Searches, StreamEnds(s) \/ StreamFails(s) PROVE Typed' BY <1>10, EndType
<1>11. ASSUME NEW s \in Searches, NEW i \in 1..NumRows, TextLine(s, i) PROVE Typed' BY <1>11, TextLineType
<1>12. ASSUME NEW s \in Searches, NEW i \in 1..NumRows, AiLineWithoutHost(s, i) PROVE Typed'
  BY <1>12, WithoutHostType
<1>13. ASSUME NEW s \in Searches, NEW i \in 1..NumRows, AiLineInHost(s, i) PROVE Typed' BY <1>13, InHostType
<1>14. ASSUME rerenderCachedSearchResults PROVE Typed' BY <1>14, RerenderType
<1>15. ASSUME UNCHANGED vars PROVE Typed' BY <1>15 DEF Typed, vars, domVars, scrollVars, searchVars
<1> QED
  BY <1>1, <1>2, <1>3, <1>4, <1>5, <1>6, <1>7, <1>8, <1>9, <1>10, <1>11, <1>12, <1>13, <1>14, <1>15
  DEF Next

LEMMA AlwaysTyped == Spec => []Typed
<1> QED BY TypeInit, TypeStep, PTL DEF Spec

\* Every variable of a view keeps its type, whatever the order in which the answers of
\* refreshes, fetches and searches arrive.
THEOREM TypeCorrect == Spec => []TypeOK
<1>1. Typed => TypeOK BY TypedIsTypeOK
<1> QED BY <1>1, AlwaysTyped, PTL

-----------------------------------------------------------------------------
(* The loading flag *)

LEMMA LoadingStep == Typed /\ LoadingMeansInFlight /\ [Next]_vars => LoadingMeansInFlight'
<1> SUFFICES ASSUME Typed, LoadingMeansInFlight, [Next]_vars, isLoading' PROVE FetchOpen'
  BY DEF LoadingMeansInFlight
<1>1. CASE UNCHANGED <<isLoading, fetch>> BY <1>1 DEF LoadingMeansInFlight, FetchOpen
<1>2. ASSUME NEW f \in Fetches, fetchMoreData(f) PROVE FetchOpen'
 <2>1. fetch'[f].pc = "asked" BY <1>2 DEF fetchMoreData, Typed
 <2> QED BY <2>1 DEF FetchOpen
<1>3. ASSUME NEW f \in Fetches, FetchAnswered(f) \/ FetchFailed(f) PROVE FALSE
  BY <1>3 DEF FetchAnswered, FetchFailed
<1>4. ASSUME NEW r \in Refreshes, refreshTableUnified(r) \/ removeSearch(r) PROVE FALSE
  BY <1>4 DEF refreshTableUnified, removeSearch, StartRefresh, disconnectInfiniteScroll
<1>5. ASSUME NEW r \in Refreshes, RefreshAnswered(r) \/ RefreshFailed(r)
      PROVE  UNCHANGED <<isLoading, fetch>> BY <1>5 DEF RefreshAnswered, RefreshFailed, scrollVars
<1>6. ASSUME NEW r \in Refreshes, generate_table(r) PROVE UNCHANGED <<isLoading, fetch>>
  BY <1>6 DEF generate_table, StartRefresh, disconnectInfiniteScroll
<1>7. ASSUME OpenArticle PROVE FALSE BY <1>7 DEF OpenArticle, disconnectInfiniteScroll
<1>8. ASSUME FetchUnderArticle \/ CloseArticle PROVE UNCHANGED <<isLoading, fetch>>
  BY <1>8 DEF FetchUnderArticle, CloseArticle
<1>9. ASSUME NEW b \in late, AppendCards(b) PROVE UNCHANGED <<isLoading, fetch>>
  BY <1>9 DEF AppendCards, scrollVars
<1>10. ASSUME NEW s \in Searches, do_intelligent_search(s) PROVE FALSE
  BY <1>10 DEF do_intelligent_search, disconnectInfiniteScroll
<1>11. ASSUME NEW s \in Searches, StreamEnds(s) \/ StreamFails(s)
       PROVE  UNCHANGED <<isLoading, fetch>> BY <1>11 DEF StreamEnds, StreamFails, scrollVars
<1>12. ASSUME NEW s \in Searches, NEW i \in 1..NumRows,
              TextLine(s, i) \/ AiLineWithoutHost(s, i) \/ AiLineInHost(s, i)
       PROVE  UNCHANGED <<isLoading, fetch>>
  BY <1>12 DEF TextLine, AiLineWithoutHost, AiLineInHost, scrollVars
<1>13. ASSUME rerenderCachedSearchResults PROVE UNCHANGED <<isLoading, fetch>>
  BY <1>13 DEF rerenderCachedSearchResults, scrollVars
<1>14. ASSUME UNCHANGED vars PROVE UNCHANGED <<isLoading, fetch>> BY <1>14 DEF vars, scrollVars
<1> QED
  BY <1>1, <1>2, <1>3, <1>4, <1>5, <1>6, <1>7, <1>8, <1>9, <1>10, <1>11, <1>12, <1>13, <1>14
  DEF Next

\* A refresh, a search or an article clears the loading flag under a fetch that is still
\* on its way, and that fetch clears it again later, perhaps under the next one: the flag
\* is never left set without a fetch that will clear it, which would end scrolling.
THEOREM LoadingCorrect == Spec => []LoadingMeansInFlight
<1>1. Init => LoadingMeansInFlight BY DEF Init, LoadingMeansInFlight
<1> QED BY <1>1, LoadingStep, AlwaysTyped, PTL DEF Spec

-----------------------------------------------------------------------------
(* The notice of a search without text results *)

Waiting == \E r \in Refreshes : refresh[r].pc \in {"asked", "failed"}

\* Between the refreshes a notice stands only in the current view, which has its
\* element, and nothing is found.  (A view without its element cannot take the notice
\* back, so the notice alone would not be inductive.)
NoticeInv ==
  ~Waiting => \A v \in Containers :
                 notice[v] => v = view /\ els[v] # <<>> /\ cache.text = <<>>

LEMMA NoticeImplies == NoticeInv => NoticeIsTrue BY DEF NoticeInv, NoticeIsTrue, Waiting

\* What a step that leaves the refreshes and the view alone does to the notices.
LEMMA NoticeKept ==
  ASSUME NoticeInv, Typed, UNCHANGED <<view, refresh>>, Kept(els'),
         \A v \in Containers : notice'[v] =>
            \/ /\ notice[v]
               /\ v # view \/ ~Present(view) \/ (cache.text = <<>> => cache'.text = <<>>)
            \/ v = view /\ Present(v) /\ cache'.text = <<>>
  PROVE  NoticeInv' BY DEF NoticeInv, Waiting, Kept, Present

LEMMA NoticeStep == Typed /\ NoticeInv /\ [Next]_vars => NoticeInv'
<1> SUFFICES ASSUME Typed, NoticeInv, [Next]_vars PROVE NoticeInv' OBVIOUS
<1>1. ASSUME NEW r \in Refreshes, refreshTableUnified(r) \/ removeSearch(r) PROVE NoticeInv'
 <2>1. refresh'[r].pc = "asked"
  <3>1. CASE refreshTableUnified(r)
   <4>1. PICK k \in 1..MaxQuery, v \in Views : StartRefresh(r, k, v, 0, term, cache)
     BY <3>1 DEF refreshTableUnified
   <4> QED BY <4>1, StartAsks
  <3>2. CASE removeSearch(r) BY <3>2, StartAsks DEF removeSearch
  <3> QED BY <1>1, <3>1, <3>2
 <2> QED BY <2>1 DEF NoticeInv, Waiting
<1>2. ASSUME NEW r \in Refreshes, RefreshAnswered(r) PROVE NoticeInv'
 <2>1. notice' = [v \in Containers |-> FALSE] BY <1>2 DEF RefreshAnswered
 <2> QED BY <2>1 DEF NoticeInv
<1>3. ASSUME NEW r \in Refreshes, generate_table(r) PROVE NoticeInv'
 <2>1. CASE view # refresh[r].view
  <3>1. StartRefresh(r, query, view, refresh[r].again + 1, term, cache) BY <1>3, <2>1 DEF generate_table
  <3>2. refresh'[r].pc = "asked" BY <3>1, StartAsks
  <3> QED BY <3>2 DEF NoticeInv, Waiting
 <2>2. CASE view = refresh[r].view
  <3>1. refresh' = [refresh EXCEPT ![r] = DoneRefresh] /\ UNCHANGED <<view, notice, cache>>
    BY <1>3, <2>2 DEF generate_table, searchVars
  <3>2. refresh[r].pc = "building" /\ Kept(els') BY <1>3, GenerateType DEF generate_table
  <3>3. Waiting => Waiting' BY <3>1, <3>2 DEF Waiting, Typed
  <3> QED BY <3>1, <3>2, <3>3 DEF NoticeInv, Kept
 <2> QED BY <2>1, <2>2
<1>4. ASSUME NEW r \in Refreshes, RefreshFailed(r) PROVE NoticeInv'
 <2>1. refresh'[r].pc = "failed" BY <1>4 DEF RefreshFailed, FailedRefresh, IdleRefresh, Typed
 <2> QED BY <2>1 DEF NoticeInv, Waiting
<1>5. ASSUME NEW f \in Fetches, fetchMoreData(f) \/ FetchAnswered(f) \/ FetchFailed(f)
      PROVE  NoticeInv'
 <2>1. UNCHANGED <<view, refresh, notice, cache>>
   BY <1>5 DEF fetchMoreData, FetchAnswered, FetchFailed, domVars, searchVars
 <2> QED BY <1>5, <2>1, ScrollType, NoticeKept
<1>6. ASSUME FetchUnderArticle \/ OpenArticle \/ CloseArticle PROVE NoticeInv'
 <2>1. UNCHANGED <<view, refresh, notice, cache>>
   BY <1>6 DEF FetchUnderArticle, OpenArticle, CloseArticle, domVars, searchVars
 <2> QED BY <1>6, <2>1, ArticleType, NoticeKept
<1>7. ASSUME NEW b \in late, AppendCards(b) PROVE NoticeInv'
 <2>1. UNCHANGED <<view, refresh, notice, cache>> BY <1>7 DEF AppendCards, searchVars
 <2> QED BY <1>7, <2>1, CardsType, NoticeKept
<1>8. ASSUME NEW s \in Searches, do_intelligent_search(s) PROVE NoticeInv'
 <2>1. UNCHANGED <<view, refresh>> /\ cache'.text = <<>> /\ cleanupSearchArtifacts
   BY <1>8 DEF do_intelligent_search, EmptyCache
 <2>2. \A v \in Containers : notice'[v] => notice[v]
   BY <2>1 DEF cleanupSearchArtifacts, domVars, Typed, Notices
 <2> QED BY <1>8, <2>1, <2>2, SearchStartType, NoticeKept
<1>9. ASSUME NEW s \in Searches, NEW i \in 1..NumRows, TextLine(s, i) PROVE NoticeInv'
 <2>1. /\ UNCHANGED <<view, refresh>>
       /\ notice' = IF Present(view) THEN [notice EXCEPT ![view] = Notice(@, FALSE, cache'.text)]
                    ELSE notice BY <1>9 DEF TextLine
 <2>2. ASSUME NEW v \in Containers, notice'[v]
       PROVE  \/ notice[v] /\ (v # view \/ ~Present(view))
              \/ v = view /\ Present(v) /\ cache'.text = <<>> BY <2>1, <2>2 DEF Notice, Typed, Notices
 <2> QED BY <1>9, <2>1, <2>2, TextLineType, NoticeKept
<1>10. ASSUME NEW s \in Searches, NEW i \in 1..NumRows, AiLineWithoutHost(s, i) PROVE NoticeInv'
 <2>1. UNCHANGED <<view, refresh, notice>> /\ ~Present(view) BY <1>10 DEF AiLineWithoutHost, domVars
 <2> QED BY <1>10, <2>1, WithoutHostType, NoticeKept
<1>11. ASSUME NEW s \in Searches, NEW i \in 1..NumRows, AiLineInHost(s, i) PROVE NoticeInv'
 <2> DEFINE noText == /\ deduplicateRows(LiveCache, s, i) # <<>>
                      /\ LiveCache.text = <<>> /\ ~stream[s].noText
 <2>1. /\ UNCHANGED <<view, refresh>>
       /\ notice' = IF Present(view) THEN [notice EXCEPT ![view] = Notice(@, noText, LiveCache.text)]
                    ELSE notice
       /\ cache'.text = LiveCache.text BY <1>11, LiveCacheType DEF AiLineInHost, Cache
 <2> HIDE DEF noText
 <2>2. ASSUME NEW v \in Containers, notice'[v]
       PROVE  \/ notice[v] /\ (v # view \/ ~Present(view))
              \/ v = view /\ Present(v) /\ cache'.text = <<>> BY <2>1, <2>2 DEF Notice, Typed, Notices
 <2> QED BY <1>11, <2>1, <2>2, InHostType, NoticeKept
<1>12. ASSUME NEW s \in Searches, StreamEnds(s) \/ StreamFails(s) PROVE NoticeInv'
 <2> DEFINE b == ~stream[s].noText
 <2>1. UNCHANGED <<view, refresh, cache>> BY <1>12 DEF StreamEnds, StreamFails, domVars
 <2>2. \/ notice' = notice
       \/ notice' = IF Present(view) THEN [notice EXCEPT ![view] = Notice(@, b, cache.text)]
                    ELSE notice BY <1>12 DEF StreamEnds, StreamFails, domVars
 <2> HIDE DEF b
 <2>3. ASSUME NEW v \in Containers, notice'[v]
       PROVE  \/ notice[v]
              \/ v = view /\ Present(v) /\ cache'.text = <<>> BY <2>1, <2>2, <2>3 DEF Notice, Typed, Notices
 <2> QED BY <1>12, <2>1, <2>3, EndType, NoticeKept
<1>13. ASSUME rerenderCachedSearchResults PROVE NoticeInv'
 <2>1. UNCHANGED <<view, refresh>> /\ cache'.text = cache.text
   BY <1>13 DEF rerenderCachedSearchResults, Typed, Cache
 <2>2. ASSUME NEW v \in Containers, notice'[v]
       PROVE  \/ notice[v]
              \/ v = view /\ Present(v) /\ cache'.text = <<>>
   BY <1>13, <2>1, <2>2 DEF rerenderCachedSearchResults, PrintCache, domVars, Typed, Notices
 <2> QED BY <1>13, <2>1, <2>2, RerenderType, NoticeKept
<1>14. ASSUME UNCHANGED vars PROVE NoticeInv' BY <1>14 DEF NoticeInv, Waiting, vars, domVars, searchVars
<1> QED
  BY <1>1, <1>2, <1>3, <1>4, <1>5, <1>6, <1>7, <1>8, <1>9, <1>10, <1>11, <1>12, <1>13, <1>14
  DEF Next

\* With streamed answers, AI hosts, reruns and rerenders in any order, the notice "text
\* search returned no results" never stands in the current view over found text rows,
\* once its refreshes have been answered.
THEOREM NoticeCorrect == Spec => []NoticeIsTrue
<1>1. Init => NoticeInv BY DEF Init, NoticeInv
<1>2. Spec => []NoticeInv BY <1>1, NoticeStep, AlwaysTyped, PTL DEF Spec
<1> QED BY <1>2, NoticeImplies, PTL

-----------------------------------------------------------------------------
(* Rows and batches in the order of the query *)

Rng(seq)       == {seq[i] : i \in DOMAIN seq}
Distinct(seq)  == \A m, n \in DOMAIN seq : seq[m] = seq[n] => m = n
RowsTo(k, n)   == {PageRow(k, i) : i \in 1..n}
FirstRows(k, n) == [i \in 1..n |-> PageRow(k, i)]

\* The rows in an element of view v and the batches on their way to it are the first n
\* rows of query k, each of them once; a table has them in their order.
Pages(v, k, n, rows, batches) ==
    /\ v = "table" => rows = FirstRows(k, n)
    /\ Rng(rows) \cup UNION {Rng(b.rows) : b \in batches} = RowsTo(k, n)
    /\ Distinct(rows)
    /\ \A b \in batches : Distinct(b.rows) /\ Rng(b.rows) \cap Rng(rows) = {}
    /\ \A b, d \in batches : b # d => Rng(b.rows) \cap Rng(d.rows) = {}

Open(r) == refresh[r].pc \in {"asked", "building"}

\* A refresh that is open in a calm view is alone: nothing else writes into the page.
RefreshAlone(r) ==
    /\ \A q \in Refreshes : Open(q) => q = r
    /\ refresh[r].query = query /\ ~refresh[r].cached
    /\ ~observer /\ ~FetchOpen /\ late = {}
    /\ refresh[r].pc = "asked" => offset = 0
    /\ refresh[r].pc = "building" => /\ \A v \in Containers : els[v] = <<>>
                                     /\ view = refresh[r].built
                                     /\ refresh[r].rows = FirstRows(query, offset)

\* A fetch that is open is alone as well, and asks for what follows the rows shown.
FetchAlone ==
    \A f \in Fetches : fetch[f].pc = "asked" =>
        /\ isLoading /\ Present(view)
        /\ fetch[f].query = query /\ fetch[f].offset = offset
        /\ \A g \in Fetches : fetch[g].pc = "asked" => g = f

OnePlace ==
    /\ \A v \in Containers : v # view => els[v] = <<>>
    /\ observer => Present(view)
    /\ Present(view) => /\ Len(els[view]) = 1
                        /\ Pages(view, query, offset, els[view][1].rows, LateRows(view))
                        /\ ~article /\ ~observer => offset >= NumRows

CalmInv ==
    calm => /\ ~StreamOpen
            /\ term => ~RefreshOpen /\ \A v \in Containers : els[v] = <<>>
            /\ \A r \in Refreshes : Open(r) => RefreshAlone(r)
            /\ ~RefreshOpen => FetchAlone /\ OnePlace

LEMMA PageRowsDiffer ==
  ASSUME NEW k, NEW i, NEW j, PageRow(k, i) = PageRow(k, j)
  PROVE  i = j
<1>1. PageRow(k, i).id = i /\ PageRow(k, j).id = j BY DEF PageRow
<1> QED BY <1>1

LEMMA FirstRowsFacts ==
  ASSUME NEW k \in Nat, NEW n \in Nat
  PROVE  /\ Len(FirstRows(k, n)) = n /\ DOMAIN FirstRows(k, n) = 1..n
         /\ \A i \in 1..n : FirstRows(k, n)[i] = PageRow(k, i)
         /\ Rng(FirstRows(k, n)) = RowsTo(k, n)
         /\ Distinct(FirstRows(k, n))
<1>1. /\ Len(FirstRows(k, n)) = n /\ DOMAIN FirstRows(k, n) = 1..n
      /\ \A i \in 1..n : FirstRows(k, n)[i] = PageRow(k, i) BY DEF FirstRows
<1> QED BY <1>1, PageRowsDiffer DEF Rng, RowsTo, Distinct

\* The first rows of a query alone are its pages.
LEMMA PagesBegin ==
  ASSUME NEW v, NEW k \in Nat, NEW n \in Nat
  PROVE  Pages(v, k, n, FirstRows(k, n), {}) BY FirstRowsFacts DEF Pages

\* The answer to a query: the rows that follow the offset, and none when there are none.
LEMMA PageFacts ==
  ASSUME NEW k \in Nat, NEW off \in Nat
  PROVE  LET p == Page(k, off)
         IN  /\ p \in Seq(RowSet) /\ Len(p) \in Nat /\ DOMAIN p = 1..Len(p)
             /\ \A i \in 1..Len(p) : p[i] = PageRow(k, off + i)
             /\ p = <<>> => off >= NumRows
<1> DEFINE p == Page(k, off)
           size == IF off >= NumRows THEN 0
                   ELSE IF NumRows - off < PageSize THEN NumRows - off ELSE PageSize
<1>1. size \in Nat /\ (size = 0 => off >= NumRows) OBVIOUS
<1>2. p = [i \in 1..size |-> PageRow(k, off + i)] BY DEF Page
<1>3. p \in Seq(RowSet) BY PageType DEF RowSeq
<1> HIDE DEF size, p
<1>4. DOMAIN p = 1..size /\ \A i \in 1..size : p[i] = PageRow(k, off + i) BY <1>2
<1>5. Len(p) = size BY <1>1, <1>3, <1>4
<1>6. p = <<>> => off >= NumRows BY <1>1, <1>5
<1> QED BY <1>1, <1>3, <1>4, <1>5, <1>6 DEF p

\* The first answer is the first rows.
LEMMA FirstPage ==
  ASSUME NEW k \in Nat
  PROVE  Page(k, 0) = FirstRows(k, Len(Page(k, 0)))
<1> DEFINE p == Page(k, 0)
<1>1. p \in Seq(RowSet) /\ Len(p) \in Nat /\ \A i \in 1..Len(p) : p[i] = PageRow(k, 0 + i) BY PageFacts
<1>2. p = [i \in 1..Len(p) |-> p[i]] BY <1>1
<1> HIDE DEF p
<1>3. \A i \in 1..Len(p) : p[i] = PageRow(k, i) BY <1>1
<1>4. p = [i \in 1..Len(p) |-> PageRow(k, i)] BY <1>2, <1>3
<1> QED BY <1>4 DEF p, FirstRows

\* What an answer adds to the first rows.
LEMMA NextRows ==
  ASSUME NEW k \in Nat, NEW n \in Nat
  PROVE  LET p == Page(k, n)
         IN  /\ Distinct(p)
             /\ Rng(p) \cap RowsTo(k, n) = {}
             /\ RowsTo(k, n + Len(p)) = RowsTo(k, n) \cup Rng(p)
<1> DEFINE p == Page(k, n)
<1>1. Len(p) \in Nat /\ DOMAIN p = 1..Len(p) /\ \A i \in 1..Len(p) : p[i] = PageRow(k, n + i) BY PageFacts
<1> HIDE DEF p
<1>2. Distinct(p) BY <1>1, PageRowsDiffer DEF Distinct
<1>3. Rng(p) = {PageRow(k, i) : i \in (n + 1)..(n + Len(p))}
 <2>1. ASSUME NEW x \in Rng(p) PROVE \E i \in (n + 1)..(n + Len(p)) : x = PageRow(k, i)
  <3>1. PICK j \in 1..Len(p) : x = p[j] BY <1>1 DEF Rng
  <3>2. n + j \in (n + 1)..(n + Len(p)) /\ x = PageRow(k, n + j) BY <1>1, <3>1
  <3> QED BY <3>2
 <2>2. ASSUME NEW i \in (n + 1)..(n + Len(p)) PROVE PageRow(k, i) \in Rng(p)
  <3>1. i - n \in 1..Len(p) /\ n + (i - n) = i BY <1>1
  <3>2. p[i - n] = PageRow(k, n + (i - n)) BY <1>1, <3>1
  <3>3. p[i - n] = PageRow(k, i) /\ i - n \in DOMAIN p BY <1>1, <3>1, <3>2
  <3> QED BY <3>3 DEF Rng
 <2> QED BY <2>1, <2>2
<1>4. Rng(p) \cap RowsTo(k, n) = {}
 <2>1. ASSUME NEW i \in (n + 1)..(n + Len(p)), NEW j \in 1..n PROVE PageRow(k, i) # PageRow(k, j)
  <3>1. i # j BY <1>1
  <3> QED BY <3>1, PageRowsDiffer
 <2> QED BY <1>3, <2>1 DEF RowsTo
<1>5. RowsTo(k, n + Len(p)) = RowsTo(k, n) \cup Rng(p)
 <2>1. 1..(n + Len(p)) = 1..n \cup (n + 1)..(n + Len(p)) BY <1>1
 <2> QED BY <1>3, <2>1 DEF RowsTo
<1> QED BY <1>2, <1>4, <1>5 DEF p

\* A table: the answer is appended to the rows.
LEMMA AppendPage ==
  ASSUME NEW k \in Nat, NEW n \in Nat
  PROVE  FirstRows(k, n) \o Page(k, n) = FirstRows(k, n + Len(Page(k, n)))
<1> DEFINE p == Page(k, n)  r == FirstRows(k, n)
<1>1. p \in Seq(RowSet) /\ Len(p) \in Nat /\ \A i \in 1..Len(p) : p[i] = PageRow(k, n + i) BY PageFacts
<1>2. Len(r) = n /\ \A i \in 1..n : r[i] = PageRow(k, i) BY FirstRowsFacts
<1>3. r \in Seq({PageRow(k, i) : i \in 1..n}) BY DEF FirstRows
<1> HIDE DEF p, r
<1> DEFINE c == r \o p  S == {PageRow(k, i) : i \in 1..n} \cup RowSet
<1>4. r \in Seq(S) /\ p \in Seq(S) BY <1>1, <1>3
<1> HIDE DEF S
<1>5. /\ c \in Seq(S) /\ Len(c) = Len(r) + Len(p)
      /\ \A i \in 1..(Len(r) + Len(p)) : c[i] = IF i <= Len(r) THEN r[i] ELSE p[i - Len(r)] BY <1>4
<1> HIDE DEF c
<1>6. /\ Len(c) = n + Len(p)
      /\ \A i \in 1..(n + Len(p)) : c[i] = IF i <= n THEN r[i] ELSE p[i - n] BY <1>2, <1>5
<1>7. \A i \in 1..(n + Len(p)) : c[i] = PageRow(k, i)
 <2>1. ASSUME NEW i \in 1..(n + Len(p)), ~(i <= n) PROVE p[i - n] = PageRow(k, i)
  <3>1. i - n \in 1..Len(p) /\ n + (i - n) = i BY <1>1, <2>1
  <3>2. p[i - n] = PageRow(k, n + (i - n)) BY <1>1, <3>1
  <3> QED BY <3>1, <3>2
 <2> QED BY <1>2, <1>6, <2>1
<1>8. c = [i \in 1..(n + Len(p)) |-> c[i]] BY <1>5, <1>6
<1>9. c = [i \in 1..(n + Len(p)) |-> PageRow(k, i)] BY <1>7, <1>8
<1> QED BY <1>9 DEF c, p, r, FirstRows

\* The card view: the answer becomes a batch.
LEMMA LatePage ==
  ASSUME NEW k \in Nat, NEW n \in Nat, NEW rows, NEW batches, NEW b,
         Pages("card", k, n, rows, batches), b.rows = Page(k, n)
  PROVE  Pages("card", k, n + Len(Page(k, n)), rows, batches \cup {b})
<1> DEFINE p == Page(k, n)
<1>1. Distinct(p) /\ Rng(p) \cap RowsTo(k, n) = {} /\ RowsTo(k, n + Len(p)) = RowsTo(k, n) \cup Rng(p)
  BY NextRows
<1>2. Rng(b.rows) = Rng(p) /\ Distinct(b.rows) BY <1>1
<1> HIDE DEF p
<1>3. /\ Rng(rows) \cup UNION {Rng(d.rows) : d \in batches} = RowsTo(k, n)
      /\ Distinct(rows)
      /\ \A d \in batches : Distinct(d.rows) /\ Rng(d.rows) \cap Rng(rows) = {}
      /\ \A d, e \in batches : d # e => Rng(d.rows) \cap Rng(e.rows) = {} BY DEF Pages
<1>4. Rng(rows) \cap Rng(p) = {} /\ \A d \in batches : Rng(d.rows) \cap Rng(p) = {} BY <1>1, <1>3
<1>5. Rng(rows) \cup UNION {Rng(d.rows) : d \in batches \cup {b}} = RowsTo(k, n + Len(p)) BY <1>1, <1>2, <1>3
<1>6. \A d \in batches \cup {b} : Distinct(d.rows) /\ Rng(d.rows) \cap Rng(rows) = {} BY <1>2, <1>3, <1>4
<1>7. \A d, e \in batches \cup {b} : d # e => Rng(d.rows) \cap Rng(e.rows) = {} BY <1>2, <1>3, <1>4
<1> QED BY <1>3, <1>5, <1>6, <1>7 DEF Pages, p

LEMMA ConcatRng ==
  ASSUME NEW a \in RowSeq, NEW b \in RowSeq
  PROVE  /\ Rng(a \o b) = Rng(a) \cup Rng(b)
         /\ Distinct(a) /\ Distinct(b) /\ Rng(a) \cap Rng(b) = {} => Distinct(a \o b)
<1> DEFINE c == a \o b
<1>1. /\ Len(a) \in Nat /\ Len(b) \in Nat /\ DOMAIN a = 1..Len(a) /\ DOMAIN b = 1..Len(b)
      /\ DOMAIN c = 1..(Len(a) + Len(b))
      /\ \A i \in 1..(Len(a) + Len(b)) : c[i] = IF i <= Len(a) THEN a[i] ELSE b[i - Len(a)] BY DEF RowSeq
<1> HIDE DEF c
<1>2. \A i \in DOMAIN a : i \in DOMAIN c /\ c[i] = a[i] BY <1>1
<1>3. \A i \in DOMAIN b : i + Len(a) \in DOMAIN c /\ c[i + Len(a)] = b[i]
 <2>1. ASSUME NEW i \in DOMAIN b PROVE i + Len(a) \in DOMAIN c /\ c[i + Len(a)] = b[i]
  <3>1. i + Len(a) \in 1..(Len(a) + Len(b)) /\ ~(i + Len(a) <= Len(a)) /\ (i + Len(a)) - Len(a) = i BY <1>1
  <3> QED BY <1>1, <3>1
 <2> QED BY <2>1
<1>4. \A i \in DOMAIN c : \/ i \in DOMAIN a /\ c[i] = a[i]
                          \/ i - Len(a) \in DOMAIN b /\ c[i] = b[i - Len(a)] BY <1>1
<1>5. Rng(c) = Rng(a) \cup Rng(b) BY <1>2, <1>3, <1>4 DEF Rng
<1>6. ASSUME Distinct(a), Distinct(b), Rng(a) \cap Rng(b) = {} PROVE Distinct(c)
 <2> SUFFICES ASSUME NEW m \in DOMAIN c, NEW n \in DOMAIN c, c[m] = c[n] PROVE m = n BY DEF Distinct
 <2>1. CASE m \in DOMAIN a /\ n \in DOMAIN a BY <1>2, <1>6, <2>1 DEF Distinct
 <2>2. CASE /\ m - Len(a) \in DOMAIN b /\ c[m] = b[m - Len(a)]
            /\ n - Len(a) \in DOMAIN b /\ c[n] = b[n - Len(a)]
  <3>1. m - Len(a) = n - Len(a) BY <1>6, <2>2 DEF Distinct
  <3> QED BY <1>1, <3>1
 <2>3. ASSUME NEW i \in DOMAIN c, NEW j \in DOMAIN c, c[i] = c[j],
              i \in DOMAIN a, j - Len(a) \in DOMAIN b, c[j] = b[j - Len(a)]
       PROVE  FALSE
  <3>1. c[i] \in Rng(a) /\ c[j] \in Rng(b) BY <1>2, <2>3 DEF Rng
  <3> QED BY <1>6, <2>3, <3>1
 <2> QED BY <1>4, <2>1, <2>2, <2>3
<1> QED BY <1>5, <1>6 DEF c

\* A batch is ready: its rows join those of the element.
LEMMA AppendBatch ==
  ASSUME NEW k, NEW n, NEW rows \in RowSeq, NEW batches, NEW b \in batches, b.rows \in RowSeq,
         Pages("card", k, n, rows, batches)
  PROVE  Pages("card", k, n, rows \o b.rows, batches \ {b})
<1>1. /\ Rng(rows) \cup UNION {Rng(d.rows) : d \in batches} = RowsTo(k, n)
      /\ Distinct(rows)
      /\ \A d \in batches : Distinct(d.rows) /\ Rng(d.rows) \cap Rng(rows) = {}
      /\ \A d, e \in batches : d # e => Rng(d.rows) \cap Rng(e.rows) = {} BY DEF Pages
<1>2. Rng(rows \o b.rows) = Rng(rows) \cup Rng(b.rows) /\ Distinct(rows \o b.rows) BY <1>1, ConcatRng
<1>3. Rng(rows \o b.rows) \cup UNION {Rng(d.rows) : d \in batches \ {b}} = RowsTo(k, n) BY <1>1, <1>2
<1>4. \A d \in batches \ {b} : Rng(d.rows) \cap Rng(rows \o b.rows) = {} BY <1>1, <1>2
<1> QED BY <1>1, <1>2, <1>3, <1>4 DEF Pages

-----------------------------------------------------------------------------
(* The steps of a calm view *)

\* What does not touch the page keeps it.
LEMMA CalmKept ==
  ASSUME CalmInv, StreamOpen' => StreamOpen,
         UNCHANGED <<calm, term, view, query, offset, els, observer, isLoading, article,
                     refresh, fetch, late>>
  PROVE  CalmInv'
<1>1. (RefreshOpen' <=> RefreshOpen) /\ (FetchOpen' <=> FetchOpen) /\ (FetchAlone' <=> FetchAlone)
  BY DEF RefreshOpen, FetchOpen, FetchAlone, Present
<1>2. \A r : (Open(r)' <=> Open(r)) /\ (RefreshAlone(r)' <=> RefreshAlone(r)) BY <1>1 DEF Open, RefreshAlone
<1>3. OnePlace' <=> OnePlace BY DEF OnePlace, Present, LateRows
<1> QED BY <1>1, <1>2, <1>3 DEF CalmInv

LEMMA StreamsStay ==
  ASSUME Typed,
         stream' = [s \in Searches |-> IF stream[s].host \in Containers
                                       THEN [stream[s] EXCEPT !.host = "gone"] ELSE stream[s]]
  PROVE  StreamOpen' => StreamOpen
<1>1. \A s \in Searches : stream'[s].pc = stream[s].pc BY DEF Typed, Stream
<1> QED BY <1>1 DEF StreamOpen

\* A refresh without a search starts, and nothing else is on its way.
LEMMA CalmStart ==
  ASSUME Typed, NEW r \in Refreshes, NEW k \in 1..MaxQuery, NEW v \in Shown,
         NEW again \in Nat, NEW t \in BOOLEAN, NEW c \in Cache, StartRefresh(r, k, v, again, t, c),
         ~t, ~term', \A q \in Refreshes : Open(q) => q = r,
         ~FetchOpen, late = {}, UNCHANGED <<fetch, late>>, ~StreamOpen'
  PROVE  CalmInv'
<1>1. /\ refresh'[r].pc = "asked" /\ refresh'[r].query = k /\ ~refresh'[r].cached
      /\ \A q \in Refreshes : q # r => refresh'[q] = refresh[q]
      /\ query' = k /\ offset' = 0 /\ ~observer'
 <2>1. refresh[r] \in Call BY DEF Typed
 <2>2. query' = k /\ offset' = 0 /\ ~observer' BY DEF StartRefresh, disconnectInfiniteScroll
 <2>3. \A q \in Refreshes : q # r => refresh'[q] = refresh[q] BY DEF StartRefresh, Typed
 <2>4. refresh'[r] = [refresh[r] EXCEPT !.pc = "asked", !.again = again, !.query = k, !.view = v,
                         !.cached = FALSE, !.rows = <<>>] BY DEF StartRefresh, Typed
 <2>5. refresh'[r].pc = "asked" /\ refresh'[r].query = k /\ refresh'[r].cached = FALSE BY <2>1, <2>4 DEF Call
 <2> QED BY <2>2, <2>3, <2>5
<1>2. \A q \in Refreshes : Open(q)' => q = r BY <1>1 DEF Open
<1>3. RefreshOpen' /\ ~FetchOpen' BY <1>1 DEF RefreshOpen, FetchOpen
<1>4. RefreshAlone(r)' BY <1>1, <1>2, <1>3 DEF RefreshAlone
<1> QED BY <1>2, <1>3, <1>4 DEF CalmInv

LEMMA CalmRefresh ==
  ASSUME Typed, CalmInv, calm', NEW r \in Refreshes, refreshTableUnified(r)
  PROVE  CalmInv'
<1>1. Quiet /\ ~term /\ UNCHANGED <<fetch, late, stream, term>> BY DEF refreshTableUnified, searchVars
<1>2. PICK k \in 1..MaxQuery, v \in Views : StartRefresh(r, k, v, 0, term, cache) BY DEF refreshTableUnified
<1>3. v \in Shown /\ term \in BOOLEAN /\ cache \in Cache BY DEF Typed, Shown
<1>4. ~FetchOpen /\ late = {} /\ ~StreamOpen' /\ \A q \in Refreshes : ~Open(q)
  BY <1>1 DEF Quiet, RefreshOpen, StreamOpen, Open
<1> QED BY <1>1, <1>2, <1>3, <1>4, CalmStart

LEMMA CalmRemove ==
  ASSUME Typed, CalmInv, calm', NEW r \in Refreshes, removeSearch(r)
  PROVE  CalmInv'
<1>1. Quiet /\ ~term' /\ UNCHANGED <<fetch, late>> BY DEF removeSearch
<1>2. StartRefresh(r, query, view, 0, FALSE, NoCache) /\ (StreamOpen' => StreamOpen)
  BY StreamsStay DEF removeSearch
<1>3. view \in Shown /\ query \in 1..MaxQuery /\ NoCache \in Cache BY CacheConstants DEF Typed
<1>4. ~FetchOpen /\ late = {} /\ ~StreamOpen' /\ \A q \in Refreshes : ~Open(q)
  BY <1>1, <1>2 DEF Quiet, RefreshOpen, Open
<1> QED BY <1>1, <1>2, <1>3, <1>4, CalmStart

LEMMA CalmAnswered ==
  ASSUME Typed, CalmInv, calm', NEW r \in Refreshes, RefreshAnswered(r)
  PROVE  CalmInv'
<1> DEFINE data == Page(refresh[r].query, 0)
           v == resolveRenderableView(view)
<1>1. /\ refresh[r].pc = "asked" /\ calm /\ UNCHANGED <<query, observer, fetch, late, term>>
      /\ view' = v /\ els' = [u \in Containers |-> <<>>]
      /\ offset' = IF refresh[r].cached THEN offset ELSE offset + Len(data)
      /\ refresh' = [refresh EXCEPT
                ![r].pc = "building", ![r].built = v,
                ![r].rows = IF refresh[r].cached THEN @ ELSE data] BY DEF RefreshAnswered, scrollVars
<1>2. StreamOpen' => StreamOpen BY StreamsStay DEF RefreshAnswered
<1>3. Open(r) /\ RefreshOpen /\ RefreshAlone(r) /\ ~StreamOpen /\ ~term BY <1>1 DEF CalmInv, Open, RefreshOpen
<1>4. refresh[r].query = query /\ ~refresh[r].cached /\ offset = 0 /\ query \in Nat
  BY <1>1, <1>3 DEF RefreshAlone, Typed
<1>5. data = FirstRows(query, Len(data)) /\ Len(data) \in Nat BY <1>4, FirstPage, PageFacts
<1> HIDE DEF data, v
<1>6. refresh[r] \in Call BY DEF Typed
<1>7. refresh'[r] = [refresh[r] EXCEPT !.pc = "building", !.built = v, !.rows = data] BY <1>1, <1>4 DEF Typed
<1>8. refresh'[r].pc = "building" /\ refresh'[r].built = v /\ refresh'[r].rows = data
      /\ refresh'[r].query = query /\ ~refresh'[r].cached BY <1>4, <1>6, <1>7 DEF Call
<1>9. \A q \in Refreshes : q # r => refresh'[q] = refresh[q] BY <1>1 DEF Typed
<1>10. \A q \in Refreshes : Open(q)' => q = r BY <1>3, <1>9 DEF Open, RefreshAlone
<1>11. offset' = Len(data) BY <1>1, <1>4, <1>5
<1>12. ~FetchOpen' BY <1>1, <1>3 DEF RefreshAlone, FetchOpen
<1>13. RefreshAlone(r)' BY <1>1, <1>3, <1>5, <1>8, <1>10, <1>11, <1>12 DEF RefreshAlone
<1>14. RefreshOpen' BY <1>8 DEF RefreshOpen
<1> QED BY <1>1, <1>2, <1>3, <1>10, <1>13, <1>14 DEF CalmInv

LEMMA CalmGenerate ==
  ASSUME Typed, CalmInv, calm', NEW r \in Refreshes, generate_table(r)
  PROVE  CalmInv'
<1>1. refresh[r].pc = "building" /\ calm /\ UNCHANGED <<article, fetch, late, term, stream>>
  BY DEF generate_table, searchVars
<1>2. Open(r) /\ RefreshOpen /\ RefreshAlone(r) /\ ~StreamOpen /\ ~term BY <1>1 DEF CalmInv, Open, RefreshOpen
<1>3. /\ \A q \in Refreshes : Open(q) => q = r
      /\ refresh[r].query = query /\ ~refresh[r].cached /\ ~FetchOpen /\ late = {}
      /\ \A v \in Containers : els[v] = <<>>
      /\ view = refresh[r].built /\ refresh[r].rows = FirstRows(query, offset) BY <1>1, <1>2 DEF RefreshAlone
<1>4. ~StreamOpen' /\ ~FetchOpen' BY <1>1, <1>2, <1>3 DEF StreamOpen, FetchOpen
<1>5. CASE view # refresh[r].view
 <2>1. StartRefresh(r, query, view, refresh[r].again + 1, term, cache) BY <1>5 DEF generate_table
 <2>2. view \in Shown /\ query \in 1..MaxQuery /\ cache \in Cache /\ term \in BOOLEAN
       /\ refresh[r].again + 1 \in Nat BY DEF Typed, Call
 <2> QED BY <1>1, <1>2, <1>3, <1>4, <2>1, <2>2, CalmStart
<1>6. CASE view = refresh[r].view
 <2> DEFINE e == [id |-> <<r, refresh[r].again>>, rows |-> refresh[r].rows]
 <2>1. /\ els' = [els EXCEPT ![refresh[r].built] = Append(@, e)]
       /\ observer' /\ refresh' = [refresh EXCEPT ![r] = DoneRefresh]
       /\ UNCHANGED <<view, query, offset>> BY <1>3, <1>6 DEF generate_table, initializeInfiniteScroll
 <2>2. view \in Containers /\ els \in Els BY <1>3 DEF Typed, Call
 <2>3. e.rows = FirstRows(query, offset) BY <1>3
 <2> HIDE DEF e
 <2>4. els'[view] = <<e>> /\ \A v \in Containers : v # view => els'[v] = <<>>
  <3>1. els' = [els EXCEPT ![view] = Append(els[view], e)] /\ els[view] = <<>> BY <1>3, <2>1, <2>2
  <3>2. Append(<<>>, e) = <<e>> OBVIOUS
  <3>3. els' = [els EXCEPT ![view] = <<e>>] BY <3>1, <3>2
  <3> QED BY <1>3, <2>2, <3>3 DEF Els
 <2>5. \A q \in Refreshes : ~Open(q)' BY <1>3, <2>1 DEF Open, DoneRefresh, IdleRefresh, Typed
 <2>6. ~RefreshOpen' BY <2>5 DEF RefreshOpen, Open
 <2>7. FetchAlone' BY <1>4 DEF FetchAlone, FetchOpen
 <2>8. els'[view][1] = e /\ Len(els'[view]) = 1 /\ els'[view] # <<>> BY <2>4
 <2>9. LateRows(view)' = {} BY <1>1, <1>3 DEF LateRows
 <2>10. Pages(view, query, offset, e.rows, {}) BY <2>3, PagesBegin DEF Typed
 <2>11. OnePlace' BY <2>1, <2>2, <2>4, <2>8, <2>9, <2>10 DEF OnePlace, Present
 <2> QED BY <1>1, <1>2, <1>4, <2>5, <2>6, <2>7, <2>11 DEF CalmInv
<1> QED BY <1>5, <1>6

\* In a calm view without a refresh, what is left of the invariant is about fetches and rows.
LEMMA CalmFetching ==
  ASSUME CalmInv, calm, ~RefreshOpen, UNCHANGED <<refresh, term>>, StreamOpen' => StreamOpen,
         term => \A v \in Containers : els'[v] = <<>>,
         FetchAlone', OnePlace'
  PROVE  CalmInv'
<1>1. ~RefreshOpen' /\ \A r \in Refreshes : ~Open(r)' BY DEF RefreshOpen, Open
<1> QED BY <1>1 DEF CalmInv

LEMMA CalmFetchStarts ==
  ASSUME Typed, CalmInv, calm', NEW f \in Fetches, fetchMoreData(f)
  PROVE  CalmInv'
<1>1. /\ observer /\ ~isLoading /\ calm
      /\ fetch' = [fetch EXCEPT ![f] = [pc |-> "asked", query |-> query, offset |-> offset]]
      /\ isLoading'
      /\ UNCHANGED <<view, query, offset, els, observer, article, refresh, late, term, stream>>
  BY DEF fetchMoreData, domVars, searchVars
<1>2. ~RefreshOpen BY <1>1 DEF CalmInv, RefreshOpen, Open, RefreshAlone
<1>3. FetchAlone /\ OnePlace BY <1>1, <1>2 DEF CalmInv
<1>4. \A g \in Fetches : fetch[g].pc # "asked" BY <1>1, <1>3 DEF FetchAlone
<1>5. /\ fetch'[f].query = query /\ fetch'[f].offset = offset
      /\ \A g \in Fetches : fetch'[g].pc = "asked" => g = f BY <1>1, <1>4 DEF Typed
<1>6. FetchAlone' BY <1>1, <1>3, <1>5 DEF FetchAlone, OnePlace, Present
<1>7. OnePlace' BY <1>1, <1>3 DEF OnePlace, Present, LateRows
<1>8. (StreamOpen' => StreamOpen) /\ (term => \A v \in Containers : els'[v] = <<>>)
  BY <1>1 DEF StreamOpen, CalmInv
<1> QED BY <1>1, <1>2, <1>6, <1>7, <1>8, CalmFetching

\* An open fetch of a calm view and what it knows.
LEMMA CalmFetchOpen ==
  ASSUME CalmInv, calm, NEW f \in Fetches, fetch[f].pc = "asked"
  PROVE  /\ ~RefreshOpen /\ FetchAlone /\ OnePlace /\ Present(view) /\ ~term
         /\ fetch[f].query = query /\ fetch[f].offset = offset
         /\ \A g \in Fetches : g # f => fetch[g].pc # "asked"
<1>1. FetchOpen BY DEF FetchOpen
<1>2. ~RefreshOpen BY <1>1 DEF CalmInv, RefreshOpen, Open, RefreshAlone
<1>3. FetchAlone /\ OnePlace BY <1>2 DEF CalmInv
<1>4. Present(view) BY <1>3 DEF FetchAlone
<1>5. ~term BY <1>4 DEF CalmInv, Present
<1> QED BY <1>2, <1>3, <1>4, <1>5 DEF FetchAlone

LEMMA CalmFetchFails ==
  ASSUME Typed, CalmInv, calm', NEW f \in Fetches, FetchFailed(f)
  PROVE  CalmInv'
<1>1. /\ fetch[f].pc = "asked" /\ calm /\ fetch' = [fetch EXCEPT ![f] = DoneFetch]
      /\ UNCHANGED <<view, query, offset, els, observer, article, refresh, late, term, stream>>
  BY DEF FetchFailed, domVars, searchVars
<1>2. /\ ~RefreshOpen /\ OnePlace /\ Present(view) /\ ~term
      /\ \A g \in Fetches : g # f => fetch[g].pc # "asked" BY <1>1, CalmFetchOpen
<1>3. \A g \in Fetches : fetch'[g].pc # "asked" BY <1>1, <1>2 DEF Typed, DoneFetch, IdleFetch
<1>4. FetchAlone' /\ OnePlace' /\ (StreamOpen' => StreamOpen)
  BY <1>1, <1>2, <1>3 DEF FetchAlone, OnePlace, Present, LateRows, StreamOpen
<1> QED BY <1>1, <1>2, <1>4, CalmFetching

LEMMA CalmFetchAnswered ==
  ASSUME Typed, CalmInv, calm', NEW f \in Fetches, FetchAnswered(f)
  PROVE  CalmInv'
<1> DEFINE data == Page(fetch[f].query, fetch[f].offset)
<1>1. /\ fetch[f].pc = "asked" /\ calm /\ fetch' = [fetch EXCEPT ![f] = DoneFetch]
      /\ UNCHANGED <<view, query, article, refresh, term, stream>>
      /\ IF data = <<>>
           THEN observer' = FALSE /\ UNCHANGED <<offset, els, late>>
           ELSE /\ offset' = offset + Len(data)
                /\ appendDataToView(data, TRUE)
                /\ UNCHANGED observer BY DEF FetchAnswered, searchVars
<1>2. /\ ~RefreshOpen /\ OnePlace /\ Present(view) /\ ~term
      /\ fetch[f].query = query /\ fetch[f].offset = offset
      /\ \A g \in Fetches : g # f => fetch[g].pc # "asked" BY <1>1, CalmFetchOpen
<1>3. FetchAlone' /\ (StreamOpen' => StreamOpen)
 <2>1. \A g \in Fetches : fetch'[g].pc # "asked" BY <1>1, <1>2 DEF Typed, DoneFetch, IdleFetch
 <2> QED BY <1>1, <2>1 DEF FetchAlone, StreamOpen
<1>4. query \in Nat /\ offset \in Nat /\ data = Page(query, offset) BY <1>2 DEF Typed
<1>5. data \in RowSeq /\ Len(data) \in Nat /\ (data = <<>> => offset >= NumRows) BY <1>4, PageFacts DEF RowSeq
<1> HIDE DEF data
<1>6. /\ view \in Containers /\ els[view] # <<>> /\ els[view] \in Seq(Element) /\ Len(els[view]) = 1
      /\ els[view][1] \in Element /\ els \in Els
      /\ Pages(view, query, offset, els[view][1].rows, LateRows(view))
      /\ \A v \in Containers : v # view => els[v] = <<>> BY <1>2, PresentFacts DEF OnePlace, Typed
<1>7. CASE data = <<>>
 <2>1. ~observer' /\ UNCHANGED <<offset, els, late>> BY <1>1, <1>7
 <2>2. OnePlace' BY <1>1, <1>2, <1>5, <1>7, <2>1 DEF OnePlace, Present, LateRows
 <2> QED BY <1>1, <1>2, <1>3, <2>2, CalmFetching
<1>8. CASE data # <<>>
 <2>1. /\ offset' = offset + Len(data) /\ UNCHANGED observer
       /\ appendDataToView(data, TRUE) BY <1>1, <1>8
 <2>2. CASE view = "table"
  <3>1. els' = AppendFirst(view, data) /\ late' = late BY <1>2, <2>1, <2>2 DEF appendDataToView
  <3> DEFINE e == [els[view][1] EXCEPT !.rows = @ \o data]
  <3>2. els' = [els EXCEPT ![view] = [els[view] EXCEPT ![1] = e]] BY <3>1 DEF AppendFirst
  <3>3. e.rows = els[view][1].rows \o data BY <1>6 DEF Element
  <3> HIDE DEF e
  <3>4. /\ els'[view] = [els[view] EXCEPT ![1] = e]
        /\ \A v \in Containers : v # view => els'[v] = <<>> BY <1>6, <3>2 DEF Els
  <3>5. els'[view][1] = e /\ Len(els'[view]) = 1 BY <1>6, <3>4
  <3>6. els[view][1].rows = FirstRows(query, offset) BY <1>6, <2>2 DEF Pages
  <3>7. e.rows = FirstRows(query, offset') BY <1>4, <2>1, <3>3, <3>6, AppendPage
  <3>8. offset' \in Nat BY <1>4, <1>5, <2>1
  <3>9. Pages(view, query, offset', e.rows, {}) BY <1>4, <3>7, <3>8, PagesBegin
  <3>10. LateRows(view)' = {} BY <1>1, <2>2 DEF LateRows
  <3>11. observer' => Present(view)' BY <1>1, <1>6, <3>5 DEF Present
  <3>12. ~article' /\ ~observer' => offset' >= NumRows BY <1>1, <1>2, <1>4, <1>5, <2>1 DEF OnePlace
  <3>13. OnePlace' BY <1>1, <3>4, <3>5, <3>9, <3>10, <3>11, <3>12 DEF OnePlace
  <3> QED BY <1>1, <1>2, <1>3, <3>13, CalmFetching
 <2>3. CASE view = "card"
  <3> DEFINE b == [el |-> els[view][1].id, rows |-> data]
  <3>1. els' = els /\ late' = late \cup {b} BY <1>2, <1>8, <2>1, <2>3 DEF appendDataToView
  <3>2. LateRows(view)' = LateRows(view) \cup {b} BY <1>1, <2>3, <3>1 DEF LateRows
  <3>3. b.rows = Page(query, offset) BY <1>4
  <3> HIDE DEF b
  <3>4. Pages("card", query, offset', els[view][1].rows, LateRows(view) \cup {b})
    BY <1>4, <1>6, <2>1, <2>3, <3>3, LatePage
  <3>5. ~article' /\ ~observer' => offset' >= NumRows BY <1>1, <1>2, <1>4, <1>5, <2>1 DEF OnePlace
  <3>6. OnePlace' BY <1>1, <1>2, <1>6, <2>1, <2>3, <3>1, <3>2, <3>4, <3>5 DEF OnePlace, Present
  <3> QED BY <1>1, <1>2, <1>3, <3>6, CalmFetching
 <2> QED BY <1>6, <2>2, <2>3 DEF Containers
<1> QED BY <1>7, <1>8

LEMMA CalmCards ==
  ASSUME Typed, CalmInv, calm', NEW b \in late, AppendCards(b)
  PROVE  CalmInv'
<1> DEFINE joined(e) == IF e.id # b.el THEN e ELSE [e EXCEPT !.rows = @ \o b.rows]
<1>1. /\ calm /\ late' = late \ {b}
      /\ els' = [els EXCEPT !["card"] = [n \in DOMAIN els["card"] |-> joined(els["card"][n])]]
      /\ UNCHANGED <<view, query, offset, observer, isLoading, article, refresh, fetch, term, stream>>
  BY DEF AppendCards, scrollVars, searchVars
<1>2. ~RefreshOpen BY <1>1 DEF CalmInv, RefreshOpen, Open, RefreshAlone
<1>3. FetchAlone /\ OnePlace BY <1>1, <1>2 DEF CalmInv
<1>4. els \in Els /\ els["card"] \in Seq(Element) /\ "card" \in Containers /\ b.rows \in RowSeq
  BY DEF Typed, Els, Containers, Batch
<1> DEFINE s == els["card"]
<1>5. DOMAIN s = 1..Len(s) /\ Len(s) \in Nat BY <1>4
<1> HIDE DEF joined
<1>6. /\ els'["card"] = [n \in 1..Len(s) |-> joined(s[n])]
      /\ \A v \in Containers : v # "card" => els'[v] = els[v] BY <1>1, <1>4, <1>5 DEF Els
<1>7. Len(els'["card"]) = Len(s) /\ \A n \in 1..Len(s) : els'["card"][n] = joined(s[n]) BY <1>5, <1>6
<1>8. els'["card"] = <<>> <=> s = <<>>
 <2>1. CASE s = <<>>
  <3>1. Len(s) = 0 /\ 1..0 = {} BY <2>1
  <3>2. els'["card"] = [n \in {} |-> joined(s[n])] BY <1>6, <3>1
  <3>3. [n \in {} |-> joined(s[n])] = <<>> OBVIOUS
  <3> QED BY <2>1, <3>2, <3>3
 <2>2. CASE s # <<>>
  <3>1. Len(s) # 0 BY <1>4, <2>2
  <3>2. Len(<<>>) = 0 OBVIOUS
  <3> QED BY <1>7, <2>2, <3>1, <3>2
 <2> QED BY <2>1, <2>2
<1>9. \A v \in Containers : els'[v] = <<>> <=> els[v] = <<>> BY <1>6, <1>8
<1>10. \A v : Present(v)' <=> Present(v) BY <1>9 DEF Present
<1>11. FetchAlone' BY <1>1, <1>3, <1>10 DEF FetchAlone
<1>12. OnePlace'
 <2>1. \A v \in Containers : v # view => els'[v] = <<>> BY <1>3, <1>9 DEF OnePlace
 <2>2. (observer => Present(view)') /\ (Present(view) /\ ~article /\ ~observer => offset >= NumRows)
   BY <1>1, <1>3, <1>10 DEF OnePlace
 <2>3. ASSUME Present(view)
       PROVE  Len(els'[view]) = 1 /\ Pages(view, query, offset, els'[view][1].rows, LateRows(view)')
  <3>1. /\ view \in Containers /\ Len(els[view]) = 1 /\ els[view][1] \in Element
        /\ Pages(view, query, offset, els[view][1].rows, LateRows(view))
    BY <1>3, <2>3, PresentFacts DEF OnePlace
  <3>2. CASE view # "card"
   <4>1. els'[view] = els[view] /\ LateRows(view) = {} /\ LateRows(view)' = {}
     BY <1>1, <1>6, <3>1, <3>2 DEF LateRows
   <4> QED BY <3>1, <4>1
  <3>3. CASE view = "card"
   <4>1. Len(els'[view]) = 1 /\ els'[view][1] = joined(els[view][1]) BY <1>7, <3>1, <3>3
   <4>2. CASE els[view][1].id # b.el
    <5>1. els'[view][1] = els[view][1] BY <4>1, <4>2 DEF joined
    <5>2. LateRows(view)' = LateRows(view) BY <1>1, <4>2, <5>1 DEF LateRows
    <5> QED BY <3>1, <4>1, <5>1, <5>2
   <4>3. CASE els[view][1].id = b.el
    <5>1. els'[view][1] = [els[view][1] EXCEPT !.rows = @ \o b.rows] BY <4>1, <4>3 DEF joined
    <5>2. /\ els'[view][1].id = els[view][1].id
          /\ els'[view][1].rows = els[view][1].rows \o b.rows BY <3>1, <5>1 DEF Element
    <5>3. b \in LateRows(view) /\ LateRows(view)' = LateRows(view) \ {b}
      BY <1>1, <3>3, <4>3, <5>2 DEF LateRows
    <5>4. els[view][1].rows \in RowSeq BY <3>1 DEF Element
    <5>5. Pages("card", query, offset, els[view][1].rows \o b.rows, LateRows(view) \ {b})
      BY <1>4, <3>1, <3>3, <5>3, <5>4, AppendBatch
    <5> QED BY <3>3, <4>1, <5>2, <5>3, <5>5
   <4> QED BY <4>2, <4>3
  <3> QED BY <3>2, <3>3
 <2> QED BY <1>1, <1>10, <2>1, <2>2, <2>3 DEF OnePlace
<1>13. (StreamOpen' => StreamOpen) /\ (term => \A v \in Containers : els'[v] = <<>>)
  BY <1>1, <1>9 DEF StreamOpen, CalmInv
<1> QED BY <1>1, <1>2, <1>11, <1>12, <1>13, CalmFetching

\* A row article is opened or closed, or the observer goes under it.
LEMMA CalmArticle ==
  ASSUME Typed, CalmInv, calm', OpenArticle \/ CloseArticle \/ FetchUnderArticle
  PROVE  CalmInv'
<1>1. /\ calm /\ UNCHANGED <<view, query, offset, els, refresh, fetch, late, term, stream>>
  BY DEF OpenArticle, CloseArticle, FetchUnderArticle, domVars, searchVars
<1>2. (StreamOpen' => StreamOpen) /\ (term => \A v \in Containers : els'[v] = <<>>)
  BY <1>1 DEF StreamOpen, CalmInv
<1>3. CASE RefreshOpen
 <2>1. \A r \in Refreshes : Open(r) => RefreshAlone(r) BY <1>1 DEF CalmInv
 <2>2. ~observer'
  <3>1. ~observer BY <1>3, <2>1 DEF RefreshOpen, Open, RefreshAlone
  <3> QED BY <1>3, <3>1 DEF OpenArticle, CloseArticle, FetchUnderArticle, disconnectInfiniteScroll
 <2>3. RefreshOpen' /\ \A r \in Refreshes : Open(r)' <=> Open(r) BY <1>1, <1>3 DEF RefreshOpen, Open
 <2>4. FetchOpen' <=> FetchOpen BY <1>1 DEF FetchOpen
 <2>5. \A r \in Refreshes : Open(r)' => RefreshAlone(r)' BY <1>1, <2>1, <2>2, <2>3, <2>4 DEF RefreshAlone
 <2> QED BY <1>1, <1>2, <1>3, <2>3, <2>5 DEF CalmInv
<1>4. CASE ~RefreshOpen
 <2>1. FetchAlone /\ OnePlace BY <1>1, <1>4 DEF CalmInv
 <2>2. CASE OpenArticle
  <3>1. article' /\ ~observer' /\ ~FetchOpen BY <2>2 DEF OpenArticle, disconnectInfiniteScroll
  <3> QED BY <1>1, <1>2, <1>4, <2>1, <3>1, CalmFetching
          DEF FetchAlone, FetchOpen, OnePlace, Present, LateRows
 <2>3. CASE CloseArticle
  <3>1. Present("card") /\ isLoading' = isLoading BY <2>3 DEF CloseArticle, isRowArticleOpen
  <3>2. view = "card" BY <2>1, <3>1 DEF OnePlace, Present
  <3>3. observer' BY <2>3, <3>2 DEF CloseArticle, initializeInfiniteScroll
  <3> QED BY <1>1, <1>2, <1>4, <2>1, <3>1, <3>2, <3>3, CalmFetching
          DEF FetchAlone, OnePlace, Present, LateRows
 <2>4. CASE FetchUnderArticle
  <3>1. article /\ article' = article /\ ~observer' /\ isLoading' = isLoading
    BY <2>4 DEF FetchUnderArticle, isRowArticleOpen
  <3> QED BY <1>1, <1>2, <1>4, <2>1, <3>1, CalmFetching
          DEF FetchAlone, OnePlace, Present, LateRows
 <2> QED BY <2>2, <2>3, <2>4
<1> QED BY <1>3, <1>4

LEMMA CalmStep == Typed /\ CalmInv /\ [Next]_vars => CalmInv'
<1> SUFFICES ASSUME Typed, CalmInv, [Next]_vars, calm' PROVE CalmInv' BY DEF CalmInv
<1>1. ASSUME NEW r \in Refreshes,
             \/ refreshTableUnified(r) \/ RefreshAnswered(r)
             \/ generate_table(r) \/ RefreshFailed(r) \/ removeSearch(r)
      PROVE  CalmInv' BY <1>1, CalmRefresh, CalmAnswered, CalmGenerate, CalmRemove DEF RefreshFailed
<1>2. ASSUME NEW f \in Fetches, fetchMoreData(f) \/ FetchAnswered(f) \/ FetchFailed(f)
      PROVE  CalmInv' BY <1>2, CalmFetchStarts, CalmFetchAnswered, CalmFetchFails
<1>3. CASE FetchUnderArticle \/ OpenArticle \/ CloseArticle BY <1>3, CalmArticle
<1>4. ASSUME NEW b \in late, AppendCards(b) PROVE CalmInv' BY <1>4, CalmCards
<1>5. ASSUME NEW s \in Searches, do_intelligent_search(s) PROVE FALSE BY <1>5 DEF do_intelligent_search
<1>6. ASSUME NEW s \in Searches, calm, stream[s].pc = "open" PROVE FALSE BY <1>6 DEF CalmInv, StreamOpen
<1>7. ASSUME NEW s \in Searches, StreamEnds(s) \/ StreamFails(s) PROVE FALSE
  BY <1>6, <1>7 DEF StreamEnds, StreamFails
<1>8. ASSUME NEW s \in Searches, NEW i \in 1..NumRows,
             TextLine(s, i) \/ AiLineWithoutHost(s, i) \/ AiLineInHost(s, i)
      PROVE  FALSE BY <1>6, <1>8 DEF TextLine, AiLineWithoutHost, AiLineInHost
<1>9. CASE rerenderCachedSearchResults
 <2>1. calm /\ term /\ UNCHANGED <<calm, term, view, query, offset, observer, isLoading, article, refresh, fetch>>
   BY <1>9 DEF rerenderCachedSearchResults, scrollVars
 <2>2. ~Present(view) BY <2>1 DEF CalmInv, Present
 <2>3. UNCHANGED <<els, late, stream>> BY <1>9, <2>2 DEF rerenderCachedSearchResults, domVars
 <2>4. StreamOpen' => StreamOpen BY <2>3 DEF StreamOpen
 <2> QED BY <2>1, <2>3, <2>4, CalmKept
<1>10. CASE UNCHANGED vars
 <2>1. StreamOpen' => StreamOpen BY <1>10 DEF vars, searchVars, StreamOpen
 <2> QED BY <1>10, <2>1, CalmKept DEF vars, domVars, scrollVars, searchVars
<1> QED BY <1>1, <1>2, <1>3, <1>4, <1>5, <1>7, <1>8, <1>9, <1>10 DEF Next

LEMMA AlwaysCalm == Spec => [](Typed /\ CalmInv)
<1>1. Init => CalmInv BY DEF Init, CalmInv, IdleStream, IdleRefresh, IdleFetch, StreamOpen, RefreshOpen, Open,
         FetchAlone, OnePlace, Present
<1> QED BY <1>1, CalmStep, AlwaysTyped, PTL DEF Spec

\* As many rows as places when no row is shown twice.
LEMMA DistinctRows ==
  ASSUME NEW S, NEW rows \in Seq(S), Distinct(rows)
  PROVE  Cardinality(Rng(rows)) = Len(rows)
<1>1. Len(rows) \in Nat /\ DOMAIN rows = 1..Len(rows) /\ rows \in [1..Len(rows) -> Rng(rows)] BY DEF Rng
<1>2. IsFiniteSet(1..Len(rows)) /\ Cardinality(1..Len(rows)) = Len(rows) BY <1>1, FS_Interval
<1>3. rows \in Injection(1..Len(rows), Rng(rows)) BY <1>1 DEF Injection, IsInjective, Distinct
<1>4. rows \in Surjection(1..Len(rows), Rng(rows)) BY <1>1 DEF Surjection, Rng
<1> QED BY <1>2, <1>3, <1>4, FS_Surjection

\* Whatever the pages, the batches of cards and the articles opened in between: a refresh
\* that met nothing else shows the first rows of its query, each once, page after page.
THEOREM PagesCorrect == Spec => []PagesInOrder
<1>1. Typed /\ CalmInv => PagesInOrder
 <2> SUFFICES ASSUME Typed, CalmInv, calm, ~RefreshOpen, Present(view)
              PROVE  /\ Len(els[view]) = 1
                     /\ LET rows == els[view][1].rows
                            wait == LateRows(view)
                        IN  /\ view = "table" => rows = [i \in 1..offset |-> PageRow(query, i)]
                            /\ {rows[n] : n \in DOMAIN rows}
                                  \cup UNION {{b.rows[n] : n \in DOMAIN b.rows} : b \in wait}
                                = {PageRow(query, i) : i \in 1..offset}
                            /\ Cardinality({rows[n] : n \in DOMAIN rows}) = Len(rows) BY DEF PagesInOrder
 <2>1. /\ Len(els[view]) = 1 /\ els[view][1] \in Element
       /\ Pages(view, query, offset, els[view][1].rows, LateRows(view)) BY PresentFacts DEF CalmInv, OnePlace
 <2> DEFINE rows == els[view][1].rows
 <2>2. rows \in Seq(RowSet) BY <2>1 DEF Element, RowSeq
 <2>3. /\ view = "table" => rows = FirstRows(query, offset)
       /\ Rng(rows) \cup UNION {Rng(b.rows) : b \in LateRows(view)} = RowsTo(query, offset)
       /\ Distinct(rows) BY <2>1 DEF Pages
 <2>4. Cardinality(Rng(rows)) = Len(rows) BY <2>2, <2>3, DistinctRows
 <2> QED BY <2>1, <2>3, <2>4 DEF Rng, RowsTo, FirstRows
<1> QED BY <1>1, AlwaysCalm, PTL

\* Infinite scroll never stops short of the last row in such a view.
THEOREM ScrollCorrect == Spec => []ScrollNotStuck
<1>1. Typed /\ CalmInv => ScrollNotStuck BY DEF CalmInv, OnePlace, ScrollNotStuck
<1> QED BY <1>1, AlwaysCalm, PTL
=============================================================================
