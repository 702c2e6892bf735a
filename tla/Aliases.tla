------------------------------- MODULE Aliases -------------------------------
(***************************************************************************)
(* The public names of the datasets: the server's registry of stored and      *)
(* implicit aliases and its checks, the registry a page translates routes     *)
(* with, read at most once a minute, and the admin view that stores an alias. *)
(* app_s is the dataset both sides name s in their code; app_t takes t unless *)
(* a dataset is called so.  Datasets are neither created nor renamed, and a    *)
(* save the page was left with before it was served is not served.            *)
(***************************************************************************)
EXTENDS Integers, FiniteSets

CONSTANTS AlMaxSaves,  \* bound: aliases saved or cleared
          AlMaxInputs  \* bound: names read, minutes gone, page reloads, what is typed

VARIABLES
    alServer,    \* the datasets and the aliases stored for them
    alRegistry,  \* the registry of the page and its refresh
    alView,      \* the admin view
    alCounts     \* inputs so far
alVars == <<alServer, alRegistry, alView, alCounts>>

RawNames == {"app_s", "app_t", "t"}
NoAlias == ""
Aliases == {NoAlias, "s", "t", "x"}
Names == RawNames \cup {"s", "x"}
Itself == [d \in RawNames |-> d]
Fallback == [Itself EXCEPT !["app_s"] = "s"]  \* FALLBACK_RAW_TO_ALIAS, fallbackRawToPublicDatasetAlias

\* DefaultPublicDatasetAliasCandidate, of the datasets that take it by themselves.
Candidate(d) == IF d = "app_s" THEN "s" ELSE IF d = "app_t" THEN "t" ELSE NoAlias

\* LoadAliasRegistry: the stored aliases over those in the code, whether the dataset exists or not.
Explicit(sets, stored) == [d \in RawNames |-> IF d \in sets /\ stored[d] # NoAlias THEN stored[d] ELSE Fallback[d]]
\* appendAutomaticAppAliases: a dataset without one takes its candidate, unless that is a dataset or taken.
Effective(sets, stored) ==
    LET mapped == Explicit(sets, stored)
        Free(alias) == alias \notin sets /\ \A e \in RawNames : mapped[e] # alias \/ mapped[e] = e
    IN  [d \in RawNames |-> IF d \in sets /\ mapped[d] = d /\ Candidate(d) # NoAlias /\ Free(Candidate(d))
                           THEN Candidate(d) ELSE mapped[d]]
Nothing == [d \in RawNames |-> NoAlias]
AlPublic == Effective(alServer.sets, alServer.stored)
\* What is served when the stored aliases, the datasets, or both cannot be read.
Degraded == {Effective(alServer.sets, Nothing), Explicit(alServer.sets, alServer.stored), Fallback}

\* Mutant: whatever no dataset is called is free, though another is reached so.
NotADataset(d, alias) == alias = NoAlias \/ (alias # d /\ alias \notin alServer.sets)

\* ValidateExplicitDatasetAliasAvailability: no dataset is called or reached so, or would be by itself.
Accepted(d, alias) ==
    \/ alias = NoAlias
    \/ /\ alias # d /\ alias \notin alServer.sets
       /\ \A e \in RawNames \ {d} : AlPublic[e] # alias \/ AlPublic[e] = e
       /\ \A e \in alServer.sets \ {d} : Candidate(e) # alias

\* deriveAliasRegistryFromDatasetNames, when only the names of the datasets can be read.
deriveAliasRegistryFromDatasetNames(sets) ==
    [d \in RawNames |-> IF d \in sets /\ Candidate(d) # NoAlias /\ Candidate(d) \notin sets THEN Candidate(d) ELSE d]

getPublicDatasetName(d) == alRegistry.public[d]
\* publicToRaw, the inverse, of the last dataset that claims the name; else the name itself.
getInternalDatasetName(n) ==
    LET claim == {d \in RawNames : alRegistry.public[d] = n /\ d # n}
    IN  IF claim = {} THEN n ELSE CHOOSE d \in claim : TRUE

\* LoadDatasetAliasManagementSnapshot: the stored alias of a dataset and the name it is reached by.
Entries(server) == [stored |-> server.stored, public |-> Effective(server.sets, server.stored)]
NoEntries == [stored |-> Nothing, public |-> Itself]

AlInit ==
    /\ \E sets \in (SUBSET RawNames) \ {{}}, stored \in {NoAlias, "x"} :
          alServer = [sets |-> sets, stored |-> [d \in RawNames |-> IF d = "t" /\ d \in sets THEN stored ELSE NoAlias]]
    /\ alRegistry = [public |-> Fallback, load |-> "none", started |-> FALSE, fresh |-> FALSE, loaded |-> FALSE, outdated |-> TRUE]
    /\ alView = [open |-> FALSE, entries |-> NoEntries, selected |-> "", input |-> NoAlias, stage |-> "none",
                 lost |-> FALSE]
    /\ alCounts = [saves |-> 0, inputs |-> 0]

AlInput == alCounts.inputs < AlMaxInputs /\ alCounts' = [alCounts EXCEPT !.inputs = @ + 1]
-----------------------------------------------------------------------------
(* The registry *)

StartLoad(r) == [r EXCEPT !.load = "dedicated", !.started = TRUE]

\* A name is read: the first read starts a refresh, and never another one starts this way.
queueDatasetAliasRegistryRefresh ==
    /\ alRegistry.load = "none" /\ ~alRegistry.fresh /\ ~alRegistry.started /\ AlInput
    /\ alRegistry' = StartLoad(alRegistry)
    /\ UNCHANGED <<alServer, alView>>

\* refreshDatasetAliasRegistry, after a login or a save: nothing within a minute of the last one;
\* a refresh under way is waited for.
Refreshed(r) == IF r.fresh \/ r.load # "none" THEN r ELSE StartLoad(r)
refreshDatasetAliasRegistry ==
    /\ AlInput
    /\ alRegistry' = Refreshed(alRegistry)
    /\ UNCHANGED <<alServer, alView>>

Taken(public, outdated) == [alRegistry EXCEPT !.public = public, !.load = "none", !.fresh = TRUE,
                                              !.loaded = TRUE, !.outdated = outdated]
\* The saves that waited for the refresh end with it.
AwaitedToo == alView' = IF alView.stage = "refreshing" THEN [alView EXCEPT !.stage = "none"] ELSE alView

\* A registry that is served is never empty: the alias in the code is always in it.
dedicatedArrives ==
    /\ alRegistry.load = "dedicated"
    /\ \/ alRegistry' = Taken(AlPublic, alView.stage = "saving")
       \/ \E public \in Degraded : alRegistry' = Taken(public, TRUE)
    /\ AwaitedToo /\ UNCHANGED <<alServer, alCounts>>
\* It cannot be read: the names of the datasets instead.
dedicatedFails ==
    /\ alRegistry.load = "dedicated"
    /\ alRegistry' = [alRegistry EXCEPT !.load = "names"]
    /\ UNCHANGED <<alServer, alView, alCounts>>
\* The names come with the aliases, or alone, which the page provides for.
namesArrive ==
    /\ alRegistry.load = "names"
    /\ \/ alRegistry' = Taken(AlPublic, alView.stage = "saving")
       \/ \E public \in Degraded \cup {deriveAliasRegistryFromDatasetNames(alServer.sets)} :
             alRegistry' = Taken(public, TRUE)
    /\ AwaitedToo /\ UNCHANGED <<alServer, alCounts>>
\* Neither: the registry stays, and counts as refreshed all the same.
bothFail ==
    /\ alRegistry.load = "names"
    /\ alRegistry' = [alRegistry EXCEPT !.load = "none", !.fresh = TRUE, !.outdated = TRUE]
    /\ AwaitedToo /\ UNCHANGED <<alServer, alCounts>>

\* A minute goes by.  The time of the last refresh outlives the page, the registry does not.
AlMinute ==
    /\ alRegistry.fresh /\ AlInput
    /\ alRegistry' = [alRegistry EXCEPT !.fresh = FALSE]
    /\ UNCHANGED <<alServer, alView>>
AlReload ==
    /\ AlInput
    /\ alRegistry' = [alRegistry EXCEPT !.public = Fallback, !.load = "none", !.started = FALSE, !.loaded = FALSE, !.outdated = TRUE]
    /\ alView' = [alView EXCEPT !.open = FALSE, !.selected = "", !.input = NoAlias, !.stage = "none", !.lost = FALSE]
    /\ UNCHANGED alServer
-----------------------------------------------------------------------------
(* The admin view *)

EntryShown(v, d) ==
    [v EXCEPT !.selected = d, !.input = IF v.entries.stored[d] # NoAlias THEN v.entries.stored[d]
                                        ELSE IF v.entries.public[d] # d THEN v.entries.public[d] ELSE NoAlias]
Editable == alView.open /\ alView.stage = "none"

\* generate_dataset_alias_management_view: the first dataset is selected.
openAliasView ==
    /\ ~alView.open /\ alView.stage = "none"
    /\ \E d \in alServer.sets : alView' = EntryShown([alView EXCEPT !.open = TRUE, !.entries = Entries(alServer)], d)
    /\ UNCHANGED <<alServer, alRegistry, alCounts>>
applySelectedDataset(d) ==
    /\ Editable /\ d \in alServer.sets /\ d # alView.selected
    /\ alView' = EntryShown(alView, d)
    /\ UNCHANGED <<alServer, alRegistry, alCounts>>
typeAlias(alias) ==
    /\ Editable /\ alias # alView.input /\ AlInput
    /\ alView' = [alView EXCEPT !.input = alias]
    /\ UNCHANGED <<alServer, alRegistry>>
useCandidate ==
    /\ Editable /\ Candidate(alView.selected) \notin {NoAlias, alView.input}
    /\ alView' = [alView EXCEPT !.input = Candidate(alView.selected)]
    /\ UNCHANGED <<alServer, alRegistry, alCounts>>

\* What is stored already is not sent again, and an automatic alias cannot be cleared.
isNoopAliasSubmission == alView.input = alView.entries.stored[alView.selected]
submitAliasChange ==
    /\ Editable /\ ~isNoopAliasSubmission /\ alCounts.saves < AlMaxSaves
    /\ alView' = [alView EXCEPT !.stage = "asked"]
    /\ alCounts' = [alCounts EXCEPT !.saves = @ + 1]
    /\ UNCHANGED <<alServer, alRegistry>>
clearAlias ==
    /\ Editable /\ alView.entries.stored[alView.selected] # NoAlias /\ alCounts.saves < AlMaxSaves
    /\ alView' = [alView EXCEPT !.input = NoAlias, !.stage = "asked"]
    /\ alCounts' = [alCounts EXCEPT !.saves = @ + 1]
    /\ UNCHANGED <<alServer, alRegistry>>

\* SavePrimaryAlias, in a transaction of its own: stored, or an error.
AlSaveServed ==
    /\ alView.stage = "asked"
    /\ Accepted(alView.selected, alView.input)
    /\ alServer' = [alServer EXCEPT !.stored[alView.selected] = alView.input]
    /\ alRegistry' = [alRegistry EXCEPT !.outdated = TRUE]
    /\ alView' = [alView EXCEPT !.stage = "saving"]
    /\ UNCHANGED alCounts
\* Refused, or failed on the way or on the way back: a message, and the entries stay.
AlSaveFails ==
    /\ alView.stage \in {"asked", "saving"}
    /\ alView' = [alView EXCEPT !.stage = "none", !.lost = @ \/ alView.stage = "saving"]
    /\ UNCHANGED <<alServer, alRegistry, alCounts>>

\* Saved: the entry of the answer replaces the old one, and the registry is asked to refresh.
OldEntry(v) == v.entries
NewEntry(v) == [stored |-> [v.entries.stored EXCEPT ![v.selected] = alServer.stored[v.selected]],
                public |-> [v.entries.public EXCEPT ![v.selected] = AlPublic[v.selected]]]
AlSaved ==
    /\ alView.stage = "saving"
    /\ LET v == [alView EXCEPT !.entries = NewEntry(alView)]
       IN  alView' = [EntryShown(v, v.selected) EXCEPT !.stage = IF alRegistry.fresh THEN "none" ELSE "refreshing"]
    /\ alRegistry' = Refreshed(alRegistry)
    /\ UNCHANGED <<alServer, alCounts>>

AlNext ==
    \/ queueDatasetAliasRegistryRefresh \/ refreshDatasetAliasRegistry \/ dedicatedArrives \/ dedicatedFails
    \/ namesArrive \/ bothFail \/ AlMinute \/ AlReload
    \/ openAliasView \/ useCandidate \/ submitAliasChange \/ clearAlias
    \/ AlSaveServed \/ AlSaveFails \/ AlSaved
    \/ (\E d \in RawNames : applySelectedDataset(d)) \/ (\E alias \in Aliases : typeAlias(alias))

AlSpec == AlInit /\ [][AlNext]_alVars
-----------------------------------------------------------------------------
AlViews == [open : BOOLEAN, entries : [stored : [RawNames -> Aliases], public : [RawNames -> Names]],
            selected : RawNames \cup {""}, input : Aliases,
            stage : {"none", "asked", "saving", "refreshing"}, lost : BOOLEAN]

AlTypeOK ==
    /\ alServer \in [sets : SUBSET RawNames, stored : [RawNames -> Aliases]]
    /\ alRegistry \in [public : [RawNames -> Names], load : {"none", "dedicated", "names"}, started : BOOLEAN,
                       fresh : BOOLEAN, loaded : BOOLEAN, outdated : BOOLEAN]
    /\ alView \in AlViews
    /\ alCounts \in [saves : 0..AlMaxSaves, inputs : 0..AlMaxInputs]

\* Once the registry is read, a route leads back to its dataset: the public name of a dataset is
\* translated to that dataset, and so is its own name; also when only a part of it could be read.
\* The registry is the server's unless an alias was stored since (within the minute nothing is
\* read again), or it could not be read.  The view's entries are what is stored and served, and the
\* dataset that is edited is one of them, unless the answer to a save was lost.
AlRoutesLeadBack ==
    /\ alRegistry.loaded => \A d \in alServer.sets : /\ getInternalDatasetName(getPublicDatasetName(d)) = d
                                                     /\ getInternalDatasetName(d) = d
    /\ ~alRegistry.outdated => \A d \in alServer.sets : alRegistry.public[d] = AlPublic[d]
    /\ (alView.open /\ alView.stage # "saving" /\ ~alView.lost) =>
          /\ alView.entries = Entries(alServer)
          /\ alView.selected \in alServer.sets
=============================================================================
