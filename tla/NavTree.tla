------------------------------- MODULE NavTree -------------------------------
(***************************************************************************)
(* The tree of folders and tables: read from the server or from a cache in   *)
(* the browser, drawn anew after every change made in it, with the folders   *)
(* that were open and the boxes that were ticked restored; searched, ticked, *)
(* and changed by dragging, renaming, creating and deleting.                 *)
(* The tree: folder p with table t1 and folder f; t2 in f; t3 is in f or,    *)
(* moved, in p.                                                              *)
(***************************************************************************)
EXTENDS Naturals, FiniteSets

CONSTANTS TrMaxInputs,    \* bound: inputs of the user
          TrMaxVersions   \* bound: changes of the tree

VARIABLES
    trServer,  \* the tree as the server holds it: its version, where t3 is
    trCache,   \* the tree kept in the browser, and whether it is fresh; the stored open folders and boxes
    trDom,     \* the tree drawn: open folders, boxes, fully selected folders, what a search hides
    trJobs,    \* changes and readings under way
    trDialog,  \* the rename dialog: whether it is open, typed in, prefilled
    trCounts   \* inputs so far; what the promises leave out
trVars == <<trServer, trCache, trDom, trJobs, trDialog, trCounts>>

Folders == {"p", "f"}
Leaves == {"t1", "t2", "t3"}
TrNodes == Folders \cup Leaves
NoSearch == "none"
NoOpen == {"not kept"}
Boxes == {"on", "part", "off"}

ParentOf(tree, n) == CASE n = "p" -> "root" [] n \in {"t1", "f"} -> "p" [] n = "t2" -> "f" [] n = "t3" -> tree.at
ChildrenOf(tree, n) == {c \in TrNodes : ParentOf(tree, c) = n}
Below(tree, n) == ChildrenOf(tree, n) \cup UNION {ChildrenOf(tree, c) : c \in ChildrenOf(tree, n)}
Above(tree, n) == {a \in Folders : n \in Below(tree, a)}

TrTree(version, at) == [version |-> version, at |-> at]
NoTree == TrTree(0, "f")
Stays == "stays"
Reading(id, back) == [id |-> id, pc |-> "folders", got |-> NoTree, back |-> back]
UnderWay(j) == j.pc \in {"folders", "tables", "read"}
AllOff == [n \in TrNodes |-> "off"]
TrInit ==
    /\ trServer = TrTree(1, "f")
    /\ \E fresh \in BOOLEAN, version \in {0, 1} :
          trCache = [tree |-> TrTree(version, "f"), fresh |-> fresh /\ version > 0, open |-> {}, boxes |-> AllOff]
    /\ trDom = [tree |-> NoTree, open |-> {}, boxes |-> AllOff, full |-> {}, hidden |-> {},
                search |-> NoSearch, before |-> NoOpen, restoring |-> FALSE]
    /\ trJobs = {}
    /\ trDialog = [open |-> FALSE, typed |-> FALSE, prefilled |-> FALSE, loading |-> FALSE, saving |-> FALSE]
    /\ trCounts = [inputs |-> 0, own |-> 0, stale |-> FALSE, blind |-> FALSE]

TrInput ==
    /\ trCounts.inputs < TrMaxInputs
    /\ trCounts' = [trCounts EXCEPT !.inputs = @ + 1]
Drawn == trDom.tree.version > 0
-----------------------------------------------------------------------------
(* Drawing *)

\* doRender: the boxes as stored, everything closed; what was open is opened a moment later.
doRender(tree) ==
    [tree |-> tree, open |-> {}, boxes |-> trCache.boxes, full |-> {}, hidden |-> {}, search |-> NoSearch,
     before |-> NoOpen, restoring |-> TRUE]

\* applyTreeData: the tree is kept in the browser as fresh, also one that came from there, and drawn.
applyTreeData(tree) ==
    /\ trCache' = [trCache EXCEPT !.tree = tree, !.fresh = TRUE]
    /\ trDom' = doRender(tree)

\* The root is opened, and each stored folder below open ones.
TrRestoreOpen ==
    /\ trDom.restoring
    /\ LET stored == trCache.open \cup {"p"}
       IN /\ trDom' = [trDom EXCEPT !.restoring = FALSE, !.open = stored]
          /\ trCache' = [trCache EXCEPT !.open = stored]
    /\ UNCHANGED <<trServer, trJobs, trDialog, trCounts>>

\* initializeTreeCallAdmin: a fresh tree of the browser is drawn and, unless asked otherwise,
\* is all; else it is read from the server, with the old one to fall back to.
initializeTreeCallAdmin(forced) ==
    /\ TrInput
    /\ IF trCache.fresh THEN applyTreeData(trCache.tree) ELSE UNCHANGED <<trCache, trDom>>
    /\ trJobs' = IF trCache.fresh /\ ~forced THEN trJobs
                 ELSE trJobs \cup {Reading(trCounts.inputs, IF trCache.fresh THEN NoTree ELSE trCache.tree)}
    /\ UNCHANGED <<trServer, trDialog>>

TrCacheAges ==
    /\ trCache.fresh /\ TrInput
    /\ trCache' = [trCache EXCEPT !.fresh = FALSE]
    /\ UNCHANGED <<trServer, trDom, trJobs, trDialog>>

\* The server reads the folders and then the tables, in two statements of their own.
GetTreeDataHandler(j) ==
    /\ \/ /\ j.pc = "folders"
          /\ trJobs' = (trJobs \ {j}) \cup {[j EXCEPT !.pc = "tables", !.got = TrTree(trServer.version, @.at)]}
       \/ /\ j.pc = "tables"
          /\ trJobs' = (trJobs \ {j}) \cup {[j EXCEPT !.pc = "read", !.got = TrTree(@.version, trServer.at)]}
    /\ UNCHANGED <<trServer, trCache, trDom, trDialog, trCounts>>

refreshNavTree(j) ==
    /\ j.pc = "read"
    /\ applyTreeData(j.got)
    /\ trJobs' = trJobs \ {j}
    /\ UNCHANGED <<trServer, trDialog, trCounts>>

\* The first reading falls back to the tree the browser had when it began, however old.
TrReadFails(j) ==
    /\ UnderWay(j)
    /\ IF j.back.version > 0 THEN applyTreeData(j.back) ELSE UNCHANGED <<trCache, trDom>>
    /\ trJobs' = trJobs \ {j}
    /\ trCounts' = [trCounts EXCEPT !.stale = TRUE]
    /\ UNCHANGED <<trServer, trDialog>>
-----------------------------------------------------------------------------
(* Changing *)

\* Dropping a table on the other folder, creating, deleting, or setting the current project:
\* confirmed or named first, then asked of the server.
TrChange(to) ==
    /\ Drawn /\ TrInput /\ trServer.version < TrMaxVersions
    /\ to # trDom.tree.at
    /\ trJobs' = trJobs \cup {[id |-> trCounts.inputs, pc |-> "confirm", to |-> to]}
    /\ UNCHANGED <<trServer, trCache, trDom, trDialog>>

TrConfirm(j, yes) ==
    /\ j.pc = "confirm"
    /\ trJobs' = (trJobs \ {j}) \cup IF yes THEN {[j EXCEPT !.pc = "asked"]} ELSE {}
    /\ UNCHANGED <<trServer, trCache, trDom, trDialog, trCounts>>

TrChanged == trServer.version < TrMaxVersions
TrNewTree(to) == TrTree(trServer.version + 1, IF to = Stays THEN trServer.at ELSE to)

TrCarriedOut(j, pc) ==
    /\ TrChanged
    /\ trServer' = TrNewTree(j.to)
    /\ trJobs' = (trJobs \ {j}) \cup {[j EXCEPT !.pc = pc]}
    /\ UNCHANGED <<trCache, trDom, trDialog, trCounts>>

\* The table is put into the folder it was dropped on, wherever it is by now.
HandleUpdateTableFolder(j) == j.pc = "asked" /\ j.to # Stays /\ TrCarriedOut(j, "done")
\* Creating and deleting a folder change the tree in the same way.
HandleSetCurrentProjectFolder(j) == j.pc = "asked" /\ j.to = Stays /\ TrCarriedOut(j, "done")
HandleRenameTreeNode(j) == j.pc = "rename" /\ TrCarriedOut(j, "renamed")

\* The answer is an error: before the change, or after it, when the database's own answer is lost.
TrRefused(j) ==
    /\ j.pc \in {"asked", "rename"}
    /\ trJobs' = trJobs \ {j}
    /\ trDialog' = IF j.pc = "rename" THEN [trDialog EXCEPT !.saving = FALSE] ELSE trDialog
    /\ trServer' \in {trServer} \cup (IF TrChanged THEN {TrNewTree(j.to)} ELSE {})
    /\ UNCHANGED <<trCache, trDom, trCounts>>

\* After the change the tree is read again; readings that overlap are drawn as they come.
ReadAgain(j) ==
    /\ trJobs' = (trJobs \ {j}) \cup {Reading(j.id, NoTree)}
    /\ trCounts' = [trCounts EXCEPT !.own = trServer.version,
                                    !.stale = @ \/ \E other \in trJobs : UnderWay(other)]

TrDone(j) ==
    /\ j.pc = "done"
    /\ ReadAgain(j)
    /\ UNCHANGED <<trServer, trCache, trDom, trDialog>>

\* Another user changes the tree.
TrOtherChanges(to) ==
    /\ TrChanged /\ TrInput
    /\ trServer' = TrNewTree(to)
    /\ UNCHANGED <<trCache, trDom, trJobs, trDialog>>
-----------------------------------------------------------------------------
(* Renaming *)

\* A second dialog takes the place of the first; the names in the languages are asked for.
openRenameDialog ==
    /\ Drawn /\ TrInput
    /\ trDialog' = [open |-> TRUE, typed |-> FALSE, prefilled |-> FALSE, loading |-> TRUE, saving |-> FALSE]
    /\ UNCHANGED <<trServer, trCache, trDom, trJobs>>

TrType ==
    /\ trDialog.open /\ ~trDialog.typed
    /\ trDialog' = [trDialog EXCEPT !.typed = TRUE]
    /\ UNCHANGED <<trServer, trCache, trDom, trJobs, trCounts>>

\* Names that come late do not replace what was typed.
hydratePrefill ==
    /\ trDialog.loading
    /\ trDialog' = [trDialog EXCEPT !.loading = FALSE, !.prefilled = trDialog.open /\ ~trDialog.typed]
    /\ UNCHANGED <<trServer, trCache, trDom, trJobs, trCounts>>

TrSaveName ==
    /\ trDialog.open /\ ~trDialog.saving
    /\ trDialog' = [trDialog EXCEPT !.saving = TRUE]
    /\ trJobs' = trJobs \cup {[id |-> trCounts.inputs, pc |-> "rename", to |-> Stays]}
    /\ TrInput
    /\ UNCHANGED <<trServer, trCache, trDom>>

\* Closed while it saves, the dialog does not have the tree read again.
TrCancelRename ==
    /\ trDialog.open
    /\ trDialog' = [trDialog EXCEPT !.open = FALSE, !.saving = FALSE]
    /\ trCounts' = [trCounts EXCEPT !.stale = @ \/ trDialog.saving]
    /\ UNCHANGED <<trServer, trCache, trDom, trJobs>>

TrRenamed(j) ==
    /\ j.pc = "renamed"
    /\ trDialog' = [trDialog EXCEPT !.open = @ /\ ~trDialog.saving, !.saving = FALSE]
    /\ IF trDialog.saving THEN ReadAgain(j)
       ELSE /\ trJobs' = trJobs \ {j}
            /\ trCounts' = [trCounts EXCEPT !.own = trServer.version, !.stale = TRUE]
    /\ UNCHANGED <<trServer, trCache, trDom>>
-----------------------------------------------------------------------------
(* Opening and searching *)

\* Mutant: a closed folder stays among the stored ones.
KeepOpen(folder) ==
    /\ trDom' = [trDom EXCEPT !.open = @ \ {folder}]
    /\ UNCHANGED trCache

closeChildren(folder) ==
    /\ trDom' = [trDom EXCEPT !.open = @ \ {folder}]
    /\ trCache' = [trCache EXCEPT !.open = @ \ {folder}]

toggleChildrenVisibility(folder) ==
    /\ Drawn /\ TrInput
    /\ IF folder \in trDom.open THEN closeChildren(folder)
       ELSE /\ trDom' = [trDom EXCEPT !.open = @ \cup {folder}]
            /\ trCache' = [trCache EXCEPT !.open = @ \cup {folder}]
    /\ UNCHANGED <<trServer, trJobs, trDialog>>

\* filterTreeNodes: the table and the folders above it stay, and are opened; what was open
\* before the first word is kept.
filterTreeNodes(leaf) ==
    LET above == Above(trDom.tree, leaf)
    IN /\ trDom' = [trDom EXCEPT !.search = leaf, !.hidden = TrNodes \ (above \cup {leaf}),
                                 !.open = @ \cup above,
                                 !.before = IF @ = NoOpen THEN trCache.open ELSE @]
       /\ trCache' = [trCache EXCEPT !.open = @ \cup above, !.boxes = trDom.boxes]

restoreTreeState ==
    /\ trDom' = [trDom EXCEPT !.search = NoSearch, !.hidden = {}, !.open = trDom.before, !.before = NoOpen]
    /\ trCache' = [trCache EXCEPT !.open = trDom.before, !.boxes = trDom.boxes]

TrSearch ==
    /\ Drawn /\ ~trDom.restoring /\ TrInput
    /\ \/ \E leaf \in {"t1", "t2"} : filterTreeNodes(leaf)
       \/ trDom.search # NoSearch /\ restoreTreeState
    /\ UNCHANGED <<trServer, trJobs, trDialog>>
-----------------------------------------------------------------------------
(* Ticking *)

\* update_parent_state: a folder's box from the boxes below its children that are not hidden.
FolderBox(boxes, folder) ==
    LET shown == ChildrenOf(trDom.tree, folder) \ trDom.hidden
        below == shown \cup UNION {Below(trDom.tree, c) : c \in shown}
    IN IF \A n \in below : boxes[n] = "on" THEN "on"
       ELSE IF \E n \in below : boxes[n] = "on" THEN "part" ELSE "off"

\* Mutant: only the folder of the box is updated, not the ones above.
OnlyParent(boxes, n) ==
    [m \in TrNodes |-> IF m = ParentOf(trDom.tree, n) THEN FolderBox(boxes, m) ELSE boxes[m]]

update_parent_state(boxes, n) ==
    LET folder == ParentOf(trDom.tree, n)
        once == [m \in TrNodes |-> IF m = folder THEN FolderBox(boxes, m) ELSE boxes[m]]
    IN [m \in TrNodes |-> IF m \in Above(trDom.tree, n) \ {folder} THEN FolderBox(once, m) ELSE once[m]]

\* handle_checkbox_change: everything below takes the box's state, hidden or not.
handle_checkbox_change(n, box) ==
    LET own == [m \in TrNodes |-> IF m = n \/ m \in Below(trDom.tree, n) THEN box ELSE trDom.boxes[m]]
    IN update_parent_state(own, n)

TrTick(n) ==
    /\ Drawn /\ n \notin trDom.hidden
    /\ trCounts.inputs < TrMaxInputs
    /\ trCounts' = [trCounts EXCEPT !.inputs = @ + 1, !.blind = @ \/ trDom.search # NoSearch]
    /\ LET boxes == handle_checkbox_change(n, IF trDom.boxes[n] = "on" THEN "off" ELSE "on")
           known == Above(trDom.tree, n) \cup {n}
       IN /\ trDom' = [trDom EXCEPT !.boxes = boxes,
                                    !.full = {f \in Folders : IF f \in known THEN boxes[f] = "on" ELSE f \in @}]
          /\ trCache' = [trCache EXCEPT !.boxes = boxes]
    /\ UNCHANGED <<trServer, trJobs, trDialog>>

\* collectSelectedLeafNodesWithFolders: the tables of fully selected folders, and the ticked ones.
TrReported ==
    {l \in Leaves : \/ trDom.boxes[l] = "on"
                    \/ \E f \in trDom.full : trDom.boxes[f] = "on" /\ l \in Below(trDom.tree, f)}

TrNext ==
    \/ \E b \in BOOLEAN : initializeTreeCallAdmin(b)
    \/ \E to \in Folders \cup {Stays} : TrChange(to) \/ TrOtherChanges(to)
    \/ TrCacheAges \/ TrRestoreOpen
    \/ \E j \in trJobs : \/ GetTreeDataHandler(j) \/ refreshNavTree(j) \/ TrReadFails(j)
                         \/ TrConfirm(j, TRUE) \/ TrConfirm(j, FALSE)
                         \/ HandleUpdateTableFolder(j) \/ HandleSetCurrentProjectFolder(j)
                         \/ HandleRenameTreeNode(j) \/ TrRefused(j) \/ TrDone(j) \/ TrRenamed(j)
    \/ openRenameDialog \/ TrType \/ hydratePrefill \/ TrSaveName \/ TrCancelRename
    \/ \E f \in Folders : toggleChildrenVisibility(f)
    \/ TrSearch
    \/ \E n \in TrNodes : TrTick(n)
-----------------------------------------------------------------------------
(* Properties *)

TrTypeOK ==
    /\ trDom.boxes \in [TrNodes -> Boxes] /\ trDom.open \subseteq Folders /\ trDom.hidden \subseteq TrNodes
    /\ trServer.version \in 1..TrMaxVersions

\* At rest the tree drawn has every change made in it, and is the one kept in the browser; with
\* the last folders it has every table where it is, although the two are read one after the other;
\* what is open is what is stored as open; the tables reported as selected are the ticked ones, and
\* the box of a folder tells whether all of its tables are.  Left out are a reading that failed
\* or overlapped another, a rename dialog closed while it saved, boxes ticked under a search,
\* and for the boxes of folders a table that was moved.
TrTreeAsStored ==
    /\ trJobs = {} /\ ~trCounts.stale /\ Drawn => trDom.tree.version >= trCounts.own /\ trCache.tree = trDom.tree
    /\ trDom.tree.version = trServer.version => trDom.tree = trServer
    /\ Drawn /\ ~trDom.restoring => trDom.open = trCache.open
    /\ Drawn /\ ~trCounts.blind =>
         /\ TrReported = {l \in Leaves : trDom.boxes[l] = "on"}
         /\ trServer.at = "f" /\ trServer.version = 1 =>
              \A f \in Folders : trDom.boxes[f] = "on" <=> \A l \in Leaves \cap Below(trDom.tree, f) : trDom.boxes[l] = "on"
=============================================================================
