------------------------------- MODULE Navigation -------------------------------
(***************************************************************************)
(* Which view is shown.  Tabs, links and the browser's history all end in   *)
(* one pipeline: checks that may refuse, the URL, and the rendering, which  *)
(* hides every container at once and shows one when it has been loaded.     *)
(* Articles opened over a dataset have history entries of their own.        *)
(***************************************************************************)
EXTENDS Integers, Sequences, FiniteSets

CONSTANTS NvMaxMoves,     \* bound: tabs pressed, articles opened and closed, moves in the history
          NvMaxEntries    \* bound: length of the history

VARIABLES
    nvPage,      \* containers built and shown, the selected dataset and the active tab
    nvHistory,   \* the entries of the browser and the current one, traversals asked for
    nvArticles,  \* by dataset: the open article, the one the state asks for, the flag of closing
    nvParams,    \* dataset_query_params: the stored parameters of each dataset
    nvRuns,      \* navigations under way
    nvCounts     \* moves so far, and whether something was met that the promise leaves out
nvVars == <<nvPage, nvHistory, nvArticles, nvParams, nvRuns, nvCounts>>

NvDatasets == {"a", "b"}
CustomViews == {"tool"}
NvViews == NvDatasets \cup CustomViews
NoRow == 0
NoTab == "none"
\* applyMainTabActiveState: a view without a tab leaves no tab active.
NvTabOf(name) == IF name \in NvDatasets THEN name ELSE NoTab
NvEntry(name, row, big, query) == [name |-> name, row |-> row, big |-> big, query |-> query]
NvUrl(h) == h.entries[h.pos]

NvInit ==
    /\ nvPage = [built |-> {"a"}, shown |-> {"a"}, selected |-> "a", tab |-> "a"]
    /\ nvHistory = [entries |-> <<NvEntry("a", NoRow, FALSE, {})>>, pos |-> 1, backs |-> 0]
    /\ nvArticles = [open |-> [d \in NvDatasets |-> NoRow], wanted |-> [d \in NvDatasets |-> NoRow],
                     closing |-> FALSE]
    /\ nvParams = [d \in NvDatasets |-> {}]
    /\ nvRuns = {}
    /\ nvCounts = [moves |-> 0, spoiled |-> FALSE]

NvMove == nvCounts.moves < NvMaxMoves
NvCount(spoils) == nvCounts' = [moves |-> nvCounts.moves + 1, spoiled |-> nvCounts.spoiled \/ spoils]

\* history.pushState and replaceState.
pushState(h, e) ==
    [h EXCEPT !.entries = Append(SubSeq(@, 1, h.pos), e), !.pos = @ + 1]
replaceState(h, e) == [h EXCEPT !.entries[h.pos] = e]

\* updateURL: a new entry, unless the URL stays the same.
updateURL(h, name, query) ==
    LET u == NvUrl(h)
        e == NvEntry(name, NoRow, FALSE, query)
    IN  IF u.name = name /\ u.row = NoRow /\ u.query = query THEN replaceState(h, e) ELSE pushState(h, e)

\* buildRowArticleQueryString: the parameters say that an article is shown.
buildRowArticleQueryString(params, d) == [params EXCEPT ![d] = @ \cup {"article"}]

\* useUrlParams: the parameters of the URL's dataset are those of the URL.
useUrlParams(params, u) ==
    IF u.name \in NvDatasets THEN [params EXCEPT ![u.name] = u.query] ELSE params
-----------------------------------------------------------------------------
(* The pipeline *)

\* handle_all_navigation: navigations are not queued, they run side by side.
handle_all_navigation(name, skipUrlUpdate, forceReload) ==
    nvRuns \cup {[id |-> nvCounts.moves, name |-> name, skip |-> skipUrlUpdate,
                  force |-> forceReload, pc |-> "checks"]}
NvOverlaps == nvRuns # {}

\* openNavTab and links: the stored parameters go into the URL.
openNavTab(name) ==
    /\ NvMove
    /\ NvCount(NvOverlaps \/ nvHistory.backs > 0
                 \/ \E d \in NvDatasets \ {name} : nvArticles.open[d] # NoRow)
    /\ nvRuns' = handle_all_navigation(name, FALSE, FALSE)
    /\ UNCHANGED <<nvPage, nvHistory, nvArticles, nvParams>>

\* dirtyCheckStage, permissionCheckStage: refused, but openNavTab marks the tab all the same.
NvRefused(r) ==
    /\ r.pc = "checks"
    /\ nvRuns' = nvRuns \ {r}
    /\ nvParams' = useUrlParams(nvParams, NvUrl(nvHistory))
    /\ nvPage' = IF r.skip THEN nvPage ELSE [nvPage EXCEPT !.tab = NvTabOf(r.name)]
    /\ nvCounts' = [nvCounts EXCEPT !.spoiled = TRUE]
    /\ UNCHANGED <<nvHistory, nvArticles>>

\* The end of _performNavigationCore.
NvShow(p, name) ==
    [p EXCEPT !.shown = @ \cup {name}, !.built = @ \cup {name},
              !.selected = IF name \in NvDatasets THEN name ELSE @,
              !.tab = NvTabOf(name)]

\* Mutant: the containers shown before stay.
KeepShown(p) == p

\* _performNavigationCore, its beginning: all containers are hidden.
NvHideAll(p) == [p EXCEPT !.shown = {}]

\* urlUpdateStage and viewRenderStage: a container that is there is shown as it is.
viewRenderStage(r) ==
    /\ r.pc = "checks"
    /\ r.skip \/ Len(nvHistory.entries) < NvMaxEntries
    /\ LET h == IF r.skip THEN nvHistory
                ELSE updateURL(nvHistory, r.name, IF r.name \in NvDatasets THEN nvParams[r.name] ELSE {})
           ready == r.name \in nvPage.built /\ ~r.force
       IN  /\ nvHistory' = h
           /\ nvParams' = IF ready THEN useUrlParams(nvParams, NvUrl(h)) ELSE nvParams
           /\ nvPage' = IF ready THEN NvShow(NvHideAll(nvPage), r.name) ELSE NvHideAll(nvPage)
           /\ nvRuns' = (nvRuns \ {r}) \cup (IF ready THEN {} ELSE {[r EXCEPT !.pc = "loading"]})
    /\ UNCHANGED <<nvArticles, nvCounts>>

\* load_function ended; an article that the state asks for is opened with it, which pushes its
\* URL unless the URL is its own.
NvLoaded(r) ==
    /\ r.pc = "loading"
    /\ LET row == IF r.name \in NvDatasets THEN nvArticles.wanted[r.name] ELSE NoRow
           params == IF row = NoRow THEN nvParams ELSE buildRowArticleQueryString(nvParams, r.name)
           e == NvEntry(r.name, row, TRUE, IF row = NoRow THEN {} ELSE params[r.name])
           h == IF row = NoRow THEN nvHistory
                ELSE IF NvUrl(nvHistory).name = r.name /\ NvUrl(nvHistory).row = row
                     THEN replaceState(nvHistory, e) ELSE pushState(nvHistory, e)
       IN  /\ row = NoRow \/ Len(h.entries) <= NvMaxEntries
           /\ nvHistory' = h
           /\ nvArticles' = IF row = NoRow THEN nvArticles ELSE [nvArticles EXCEPT !.open[r.name] = row]
           /\ nvParams' = useUrlParams(nvParams, NvUrl(h))
    /\ nvPage' = NvShow(nvPage, r.name)
    /\ nvRuns' = nvRuns \ {r}
    /\ UNCHANGED nvCounts

NvLoadFails(r) ==
    /\ r.pc = "loading"
    /\ nvRuns' = nvRuns \ {r}
    /\ nvParams' = useUrlParams(nvParams, NvUrl(nvHistory))
    /\ nvCounts' = [nvCounts EXCEPT !.spoiled = TRUE]
    /\ UNCHANGED <<nvPage, nvHistory, nvArticles>>

\* A filter or a sort of the shown dataset: stored and put into its URL in place.
setParams ==
    /\ NvMove /\ nvRuns = {} /\ nvHistory.backs = 0
    /\ NvUrl(nvHistory).name = nvPage.selected /\ NvUrl(nvHistory).row = NoRow
    /\ nvPage.selected \in nvPage.shown
    /\ nvParams' = [nvParams EXCEPT ![nvPage.selected] = @ \cup {"filter"}]
    /\ nvHistory' = replaceState(nvHistory, NvEntry(nvPage.selected, NoRow, FALSE,
                                                   nvParams'[nvPage.selected]))
    /\ NvCount(FALSE)
    /\ UNCHANGED <<nvPage, nvArticles, nvRuns>>
-----------------------------------------------------------------------------
(* Articles *)

\* openRowArticleView: an entry of its own.
openRowArticleView(d) ==
    /\ NvMove /\ Len(nvHistory.entries) < NvMaxEntries
    /\ d \in nvPage.shown /\ nvArticles.open[d] = NoRow
    /\ nvArticles' = [nvArticles EXCEPT !.open[d] = 1, !.wanted[d] = 1]
    /\ nvParams' = buildRowArticleQueryString(nvParams, d)
    /\ LET e == NvEntry(d, 1, TRUE, nvParams'[d])
       IN  nvHistory' = IF NvUrl(nvHistory).name = d /\ NvUrl(nvHistory).row = 1
                        THEN replaceState(nvHistory, e) ELSE pushState(nvHistory, e)
    /\ NvCount(NvOverlaps \/ nvHistory.backs > 0)
    /\ UNCHANGED <<nvPage, nvRuns>>

\* closeBigCard: its own entry is left by history.back(), which happens later.
closeBigCard(d) ==
    /\ NvMove
    /\ d \in nvPage.shown /\ nvArticles.open[d] # NoRow
    /\ LET u == NvUrl(nvHistory)
           onRow == u.name = d /\ u.row # NoRow
       IN  /\ nvArticles' = [nvArticles EXCEPT !.open[d] = NoRow, !.wanted[d] = NoRow,
                                               !.closing = @ \/ (onRow /\ u.big)]
           /\ nvHistory' = IF ~onRow THEN nvHistory
                           ELSE IF u.big THEN [nvHistory EXCEPT !.backs = @ + 1]
                           ELSE replaceState(nvHistory, NvEntry(d, NoRow, FALSE, {}))
    /\ NvCount(NvOverlaps \/ nvHistory.backs > 0)
    /\ UNCHANGED <<nvPage, nvParams, nvRuns>>
-----------------------------------------------------------------------------
(* The browser's history *)

\* restoreDatasetBasePathState: the view of before the article, or the one in the URL, is
\* rendered again; nothing when there is none.
restoreDatasetBasePathState(d) ==
    \/ nvRuns' = handle_all_navigation(d, TRUE, TRUE)
    \/ UNCHANGED nvRuns

\* The popstate listener, over the URL that is current now.
NvPopstate(h) ==
    LET u == NvUrl(h)
        open == {d \in NvDatasets : nvArticles.open[d] # NoRow}
        closed == [d \in NvDatasets |-> NoRow]
        ends == [nvArticles EXCEPT !.open = closed,
                   !.wanted = [d \in NvDatasets |-> IF d \in open THEN NoRow ELSE @[d]]]
    IN  IF u.row = NoRow /\ u.name \in open
        THEN /\ nvArticles' = [ends EXCEPT !.closing = FALSE]
             /\ restoreDatasetBasePathState(u.name)
        ELSE IF nvArticles.closing
        THEN /\ nvArticles' = [ends EXCEPT !.closing = FALSE]
             /\ IF u.row = NoRow /\ u.name \in NvDatasets
                THEN restoreDatasetBasePathState(u.name) ELSE UNCHANGED nvRuns
        ELSE /\ nvArticles' = IF u.name \in NvDatasets THEN [ends EXCEPT !.wanted[u.name] = u.row] ELSE ends
             /\ nvRuns' = handle_all_navigation(u.name, TRUE, u.row # NoRow)

\* The traversal that closeBigCard asked for.
NvBack ==
    /\ nvHistory.backs > 0
    /\ LET h == [nvHistory EXCEPT !.pos = IF @ > 1 THEN @ - 1 ELSE @, !.backs = @ - 1]
       IN  /\ nvHistory' = h
           /\ NvPopstate(h)
           /\ nvParams' = useUrlParams(nvParams, NvUrl(h))
    /\ nvCounts' = [nvCounts EXCEPT !.spoiled = @ \/ NvOverlaps]
    /\ UNCHANGED nvPage

\* The user goes back or forward.
NvTraverse ==
    /\ NvMove
    /\ \E step \in {-2, -1, 1} :
          /\ nvHistory.pos + step \in DOMAIN nvHistory.entries
          /\ LET h == [nvHistory EXCEPT !.pos = @ + step]
             IN  /\ nvHistory' = h
                 /\ NvPopstate(h)
                 /\ nvParams' = useUrlParams(nvParams, NvUrl(h))
                 /\ NvCount(NvOverlaps \/ nvHistory.backs > 0
                              \/ \E d \in NvDatasets \ nvPage.shown : nvArticles.open[d] # NoRow)
    /\ UNCHANGED nvPage

NvNext ==
    \/ \E name \in NvViews : openNavTab(name)
    \/ \E r \in nvRuns : NvRefused(r) \/ viewRenderStage(r) \/ NvLoaded(r) \/ NvLoadFails(r)
    \/ setParams \/ NvBack \/ NvTraverse
    \/ \E d \in NvDatasets : openRowArticleView(d) \/ closeBigCard(d)

NvSpec == NvInit /\ [][NvNext]_nvVars
-----------------------------------------------------------------------------
(* Properties *)

NvTypeOK ==
    /\ nvPage.shown \subseteq NvViews /\ nvPage.built \subseteq NvViews /\ nvPage.selected \in NvDatasets
    /\ nvHistory.pos \in DOMAIN nvHistory.entries /\ Len(nvHistory.entries) <= NvMaxEntries
    /\ \A i \in DOMAIN nvHistory.entries : nvHistory.entries[i].name \in NvViews
    /\ nvParams \in [NvDatasets -> SUBSET {"filter", "article"}]
    /\ \A r \in nvRuns : r.name \in NvViews /\ r.pc \in {"checks", "loading"}

\* When nothing is under way the one view shown is the URL's, with its tab, and the stored
\* parameters of its dataset are the URL's; however tabs, articles and the history were used,
\* as long as no two of these overlapped, no view was refused or failed, and no dataset was
\* left with an article open.
NvAtRestUrlIsShown ==
    nvRuns = {} /\ nvHistory.backs = 0 /\ ~nvCounts.spoiled =>
      LET u == NvUrl(nvHistory)
      IN  /\ nvPage.shown = {u.name} /\ nvPage.tab = NvTabOf(u.name)
          /\ u.name \in NvDatasets => nvPage.selected = u.name /\ nvParams[u.name] = u.query
=============================================================================
