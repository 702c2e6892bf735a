------------------------------ MODULE RowMedia ------------------------------
(***************************************************************************)
(* The row mutations of the dynamic tables that own media: adding an asset *)
(* row with its file, updating an asset row (its foreign key included),    *)
(* deleting an asset row, and deleting a parent row with its assets.       *)
(*                                                                         *)
(* Each is a handler that runs inside LazyTx.  Its statements run at READ  *)
(* COMMITTED: a statement sees what is committed when it runs and what its *)
(* own transaction wrote, and waits for a row another transaction wrote.   *)
(* The files are outside the transaction: an upload creates its file while *)
(* the transaction is open and a rollback hook removes it; a deletion      *)
(* registers a commit hook that moves the file, or the whole folder of a   *)
(* parent, from storage/ to storage_deleted/.                              *)
(*                                                                         *)
(* The asset tables refer to their parent with ON DELETE CASCADE, as the   *)
(* bootstrap schema declares them.  Asset ids come from a sequence: an id  *)
(* is never used twice, even when its insert is rolled back.               *)
(***************************************************************************)
EXTENDS LazyTx, FiniteSets, TLC

CONSTANTS
  Parents,     \* the ids of the parent rows there are at the start
  Assets,      \* the asset ids the sequence can hand out
  NoParent,    \* "there is no such asset row"
  NoAsset      \* an empty cached_image

ASSUME MediaAssumption ==
  /\ Assets \subseteq Nat
  /\ NoParent \notin Parents
  /\ NoAsset \notin Assets

VARIABLES
  \* the committed database
  row,         \* the parent of each asset row, NoParent when there is none
  parents,     \* the parent rows
  cached,      \* the cached_image of each parent row
  \* the file system
  home,        \* the parent in whose folder an asset's file was put
  live,        \* the assets whose file is under storage/
  archived,    \* the assets whose file is under storage_deleted/
  \* the handlers
  op,          \* the operation of each request, and what it has read
  step,        \* the last statement of the handler that was executed
  \* the event bus, and what an observer remembers
  published,   \* the event published last
  everCommitted, \* the assets whose row was committed at some time
  faulted      \* did the process die, or a file operation fail?

dbVars == <<row, parents, cached>>
fileVars == <<home, live, archived>>
opVars == <<op, step>>
historyVars == <<published, everCommitted, faulted>>
vars == <<lazyVars, dbVars, fileVars, opVars, historyVars>>

Kind == {"none", "upload", "update", "delete", "deleteParent"}
Step == {"start", "planned", "wrote", "saved", "fetched", "cached"}
Operation == [kind : Kind, asset : Assets \cup {NoAsset},
              parent : Parents \cup {NoParent},
              preferred : Assets \cup {NoAsset}]
NoOperation == [kind |-> "none", asset |-> NoAsset, parent |-> NoParent,
                preferred |-> NoAsset]

Event == ({"create", "update", "delete"} \X Assets) \cup ({"deleteParent"} \X Parents)
NoEvent == <<"none", NoAsset>>
Cleanup == {"cleanup"} \X Assets
Archive == ({"archiveFile"} \X Assets) \cup ({"archiveFolder"} \X Parents)
Publish == {"publish"} \X Event

TypeOK ==
  /\ phase \in [Requests -> Phase]
  /\ status \in [Requests -> Status]
  /\ tx \in [Requests -> TxState]
  /\ afterCommitHooks \in [Requests -> Seq(Archive \cup Publish)]
  /\ afterRollbackHooks \in [Requests -> Seq(Cleanup)]
  /\ hooks \in [Requests -> Seq(Archive \cup Publish \cup Cleanup)]
  /\ row \in [Assets -> Parents \cup {NoParent}]
  /\ parents \subseteq Parents
  /\ cached \in [Parents -> Assets \cup {NoAsset}]
  /\ home \in [Assets -> Parents \cup {NoParent}]
  /\ live \subseteq Assets
  /\ archived \subseteq Assets
  /\ op \in [Requests -> Operation]
  /\ step \in [Requests -> Step]
  /\ published \in Event \cup {NoEvent}
  /\ everCommitted \subseteq Assets
  /\ faulted \in BOOLEAN

Init ==
  /\ LazyInit
  /\ row = [a \in Assets |-> NoParent]
  /\ parents = Parents
  /\ cached = [p \in Parents |-> NoAsset]
  /\ home = [a \in Assets |-> NoParent]
  /\ live = {} /\ archived = {}
  /\ op = [r \in Requests |-> NoOperation]
  /\ step = [r \in Requests |-> "start"]
  /\ published = NoEvent /\ everCommitted = {} /\ faulted = FALSE

-----------------------------------------------------------------------------
(* What a transaction has written, and the row locks that follow from it.  *)

Wrote(r) == tx[r] = "open" /\ step[r] \in {"wrote", "saved", "fetched", "cached"}
WroteCache(r) == tx[r] = "open" /\ step[r] = "cached"

\* The asset rows as transaction r sees them.
RowView(r) ==
  [a \in Assets |->
    IF ~Wrote(r) THEN row[a]
    ELSE IF op[r].kind = "deleteParent"
      THEN IF row[a] = op[r].parent THEN NoParent ELSE row[a]
    ELSE IF a # op[r].asset THEN row[a]
    ELSE IF op[r].kind = "delete" THEN NoParent
    ELSE op[r].parent]

\* An asset row that another transaction has inserted, updated or deleted.
AssetLocked(r, a) ==
  \E x \in Requests \ {r} :
    /\ Wrote(x)
    /\ \/ op[x].kind # "deleteParent" /\ op[x].asset = a
       \/ op[x].kind = "deleteParent" /\ row[a] = op[x].parent

\* A parent row another transaction has deleted: a foreign key check waits.
ParentDeleted(r, p) ==
  \E x \in Requests \ {r} :
    Wrote(x) /\ op[x].kind = "deleteParent" /\ op[x].parent = p

\* A parent row another transaction has updated: its cached_image.
ParentUpdated(r, p) ==
  \E x \in Requests \ {r} : WroteCache(x) /\ op[x].parent = p

\* A parent row a foreign key check of another transaction holds.
ParentReferenced(r, p) ==
  \E x \in Requests \ {r} :
    Wrote(x) /\ op[x].kind \in {"upload", "update"} /\ op[x].parent = p

\* The image fetchPreferredSharedAssetImages puts first: the lowest id, when
\* is_primary and sort_order have their defaults.
Preferred(S) ==
  IF S = {} THEN NoAsset ELSE CHOOSE a \in S : \A b \in S : a <= b

Handling(r, kind, s) ==
  phase[r] = "handling" /\ op[r].kind = kind /\ step[r] = s

Goto(r, s) == step' = [step EXCEPT ![r] = s]

\* A request arrives for one operation on given rows.
Request(r, kind, a, p) ==
  /\ Arrive(r)
  /\ op' = [op EXCEPT ![r] = [kind |-> kind, asset |-> a, parent |-> p,
                              preferred |-> NoAsset]]
  /\ UNCHANGED <<step, dbVars, fileVars, historyVars>>

RequestArrives(r) ==
  \/ \E p \in Parents : Request(r, "upload", NoAsset, p)
  \/ \E a \in Assets, p \in Parents :
       home[a] # NoParent /\ Request(r, "update", a, p)
  \/ \E a \in Assets :
       home[a] # NoParent /\ Request(r, "delete", a, NoParent)
  \/ \E p \in Parents : Request(r, "deleteParent", NoAsset, p)

\* The handler gives up: a bad request, a refusal, a failed statement (the
\* victim of a deadlock included) or a failed file operation.
Fails(r) ==
  /\ phase[r] = "handling"
  /\ Respond(r, 500)
  /\ UNCHANGED <<tx, afterCommitHooks, afterRollbackHooks, hooks,
                 dbVars, fileVars, opVars, historyVars>>

-----------------------------------------------------------------------------
(* AddRowMultipartHandler.                                                 *)

\* The INSERT.  The id comes from the sequence; the foreign key is checked.
InsertAsset(r) ==
  /\ Handling(r, "upload", "start")
  /\ ~ParentDeleted(r, op[r].parent)
  /\ op[r].parent \in parents
  /\ \E a \in Assets :
       /\ home[a] = NoParent
       /\ home' = [home EXCEPT ![a] = op[r].parent]
       /\ op' = [op EXCEPT ![r].asset = a]
  /\ Begin(r)
  /\ Goto(r, "wrote")
  /\ UNCHANGED <<phase, status, afterCommitHooks, afterRollbackHooks, hooks,
                 dbVars, live, archived, historyVars>>

\* A bug: the file is created and no rollback hook is registered.
SaveFileWithoutHook(r) ==
  /\ Handling(r, "upload", "wrote")
  /\ live' = live \cup {op[r].asset}
  /\ Goto(r, "saved")
  /\ UNCHANGED <<lazyVars, dbVars, home, archived, op, historyVars>>

\* A bug: the hook that removes the file is put in the wrong list.
SaveFileCleaningAfterCommit(r) ==
  /\ Handling(r, "upload", "wrote")
  /\ live' = live \cup {op[r].asset}
  /\ AddAfterCommitHook(r, <<"cleanup", op[r].asset>>)
  /\ Goto(r, "saved")
  /\ UNCHANGED <<phase, status, tx, afterRollbackHooks, hooks,
                 dbVars, home, archived, op, historyVars>>

\* os.Create, and the rollback hook that removes the file and its variants.
SaveFile(r) ==
  /\ Handling(r, "upload", "wrote")
  /\ live' = live \cup {op[r].asset}
  /\ AddAfterRollbackHook(r, <<"cleanup", op[r].asset>>)
  /\ Goto(r, "saved")
  /\ UNCHANGED <<phase, status, tx, afterCommitHooks, hooks,
                 dbVars, home, archived, op, historyVars>>

\* A bug: the event is published before the transaction has ended.
FinishUploadPublishing(r) ==
  /\ Handling(r, "upload", "saved")
  /\ ~ParentUpdated(r, op[r].parent)
  /\ published' = <<"create", op[r].asset>>
  /\ op' = [op EXCEPT ![r].preferred = op[r].asset]
  /\ Respond(r, 201)
  /\ Goto(r, "cached")
  /\ UNCHANGED <<tx, afterCommitHooks, afterRollbackHooks, hooks, dbVars,
                 fileVars, everCommitted, faulted>>

\* A bug: the cache target is updated on the pool, outside the transaction.
FinishUploadOutsideTx(r) ==
  /\ Handling(r, "upload", "saved")
  /\ ~ParentUpdated(r, op[r].parent)
  /\ cached' = [cached EXCEPT ![op[r].parent] = op[r].asset]
  /\ op' = [op EXCEPT ![r].preferred = op[r].asset]
  /\ AddAfterCommitHook(r, <<"publish", <<"create", op[r].asset>> >>)
  /\ Respond(r, 201)
  /\ Goto(r, "cached")
  /\ UNCHANGED <<tx, afterRollbackHooks, hooks, row, parents, fileVars, historyVars>>

\* The filename and the cache targets: cached_image becomes the new file.
\* Then the event is registered and the response is 201.
FinishUpload(r) ==
  /\ Handling(r, "upload", "saved")
  /\ ~ParentUpdated(r, op[r].parent)
  /\ op' = [op EXCEPT ![r].preferred = op[r].asset]
  /\ AddAfterCommitHook(r, <<"publish", <<"create", op[r].asset>> >>)
  /\ Respond(r, 201)
  /\ Goto(r, "cached")
  /\ UNCHANGED <<tx, afterRollbackHooks, hooks, dbVars, fileVars, historyVars>>

-----------------------------------------------------------------------------
(* UpdateRowHandler on an asset row.                                       *)

\* FOR UPDATE on the row, then the UPDATE; a new parent is checked.  A row
\* that is not there is refused.
UpdateAsset(r) ==
  /\ Handling(r, "update", "start")
  /\ ~AssetLocked(r, op[r].asset)
  /\ IF row[op[r].asset] = NoParent
       THEN Respond(r, 403) /\ UNCHANGED step
       ELSE /\ ~ParentDeleted(r, op[r].parent)
            /\ op[r].parent \in parents
            /\ Goto(r, "wrote")
            /\ UNCHANGED <<phase, status>>
  /\ Begin(r)
  /\ UNCHANGED <<afterCommitHooks, afterRollbackHooks, hooks, dbVars, fileVars,
                 op, historyVars>>

-----------------------------------------------------------------------------
(* DeleteRowsHandler on an asset row.                                      *)

\* The visibility check and the two plans: the parent whose cached_image will
\* be recomputed, and the file to move.  Nothing is locked.
PlanDelete(r) ==
  /\ Handling(r, "delete", "start")
  /\ Begin(r)
  /\ IF row[op[r].asset] = NoParent
       THEN Respond(r, 403) /\ UNCHANGED opVars
       ELSE /\ op' = [op EXCEPT ![r].parent = row[op[r].asset]]
            /\ Goto(r, "planned")
            /\ UNCHANGED <<phase, status>>
  /\ UNCHANGED <<afterCommitHooks, afterRollbackHooks, hooks, dbVars, fileVars,
                 historyVars>>

\* A bug: the file is moved as soon as the row is deleted, not after commit.
DeleteAssetMovingFile(r) ==
  /\ Handling(r, "delete", "planned")
  /\ ~AssetLocked(r, op[r].asset)
  /\ row[op[r].asset] # NoParent
  /\ live' = live \ {op[r].asset}
  /\ archived' = archived \cup ({op[r].asset} \cap live)
  /\ Goto(r, "wrote")
  /\ UNCHANGED <<lazyVars, dbVars, home, op, historyVars>>

\* The DELETE.  When the row is gone the count is wrong: 403.
DeleteAsset(r) ==
  /\ Handling(r, "delete", "planned")
  /\ ~AssetLocked(r, op[r].asset)
  /\ IF row[op[r].asset] = NoParent
       THEN /\ Respond(r, 403)
            /\ UNCHANGED <<afterCommitHooks, step>>
       ELSE /\ AddAfterCommitHook(r, <<"archiveFile", op[r].asset>>)
            /\ Goto(r, "wrote")
            /\ UNCHANGED <<phase, status>>
  /\ UNCHANGED <<tx, afterRollbackHooks, hooks, dbVars, fileVars, op, historyVars>>

-----------------------------------------------------------------------------
(* ResyncSharedAssetParentCache, for an update and for a delete.           *)

FetchPreferred(r) ==
  /\ \E kind \in {"update", "delete"} : Handling(r, kind, "wrote")
  /\ op' = [op EXCEPT ![r].preferred =
              Preferred({a \in Assets : RowView(r)[a] = op[r].parent})]
  /\ Goto(r, "fetched")
  /\ UNCHANGED <<lazyVars, dbVars, fileVars, historyVars>>

\* UPDATE cached_image with what was fetched; then the event and 200.
UpdateCached(r) ==
  /\ \E kind \in {"update", "delete"} : Handling(r, kind, "fetched")
  /\ ~ParentUpdated(r, op[r].parent)
  /\ ~ParentDeleted(r, op[r].parent)
  /\ AddAfterCommitHook(r, <<"publish", <<op[r].kind, op[r].asset>> >>)
  /\ Respond(r, 200)
  /\ Goto(r, "cached")
  /\ UNCHANGED <<tx, afterRollbackHooks, hooks, dbVars, fileVars, op, historyVars>>

-----------------------------------------------------------------------------
(* DeleteRowsHandler on a parent row.                                      *)

\* The DELETE cascades to the asset rows.  It waits for every transaction that
\* has written one of them, refers to the parent or has updated it.
DeleteParent(r) ==
  LET p == op[r].parent IN
  /\ Handling(r, "deleteParent", "start")
  /\ ~ParentDeleted(r, p) /\ ~ParentUpdated(r, p) /\ ~ParentReferenced(r, p)
  /\ \A a \in Assets : row[a] = p => ~AssetLocked(r, a)
  /\ Begin(r)
  /\ IF p \notin parents
       THEN Respond(r, 403) /\ UNCHANGED <<afterCommitHooks, step>>
       ELSE /\ afterCommitHooks' = [afterCommitHooks EXCEPT ![r] =
                 Append(Append(@, <<"archiveFolder", p>>),
                        <<"publish", <<"deleteParent", p>> >>)]
            /\ Goto(r, "wrote")
            /\ Respond(r, 200)
  /\ UNCHANGED <<afterRollbackHooks, hooks, dbVars, fileVars, op, historyVars>>

-----------------------------------------------------------------------------
(* The end of the request.                                                 *)

\* What the database holds once transaction r has committed.
Install(r) ==
  /\ row' = RowView(r)
  /\ parents' = IF Wrote(r) /\ op[r].kind = "deleteParent"
                  THEN parents \ {op[r].parent} ELSE parents
  /\ cached' = [p \in Parents |->
                  IF p \notin parents' THEN NoAsset
                  ELSE IF WroteCache(r) /\ p = op[r].parent THEN op[r].preferred
                  ELSE cached[p]]
  /\ everCommitted' = everCommitted \cup {a \in Assets : RowView(r)[a] # NoParent}

\* The handler has returned: what it knew is gone.
HandlerGone(r) ==
  /\ op' = [op EXCEPT ![r] = NoOperation]
  /\ step' = [step EXCEPT ![r] = "start"]

TxCommits(r) ==
  /\ Commit(r) \/ CommitReplyLost(r)
  /\ Install(r)
  /\ HandlerGone(r)
  /\ UNCHANGED <<fileVars, published, faulted>>

TxRollsBack(r) ==
  /\ Rollback(r) \/ CommitFails(r)
  /\ HandlerGone(r)
  /\ UNCHANGED <<dbVars, fileVars, historyVars>>

\* removeUploadedFileVariants.
RunCleanup(r) ==
  /\ \E a \in Assets :
       Head(hooks[r]) = <<"cleanup", a>> /\ live' = live \ {a}
  /\ UNCHANGED <<dbVars, home, archived, opVars, historyVars>>

\* moveSharedAssetFilesToDeleted: an absent file is skipped; the folder of the
\* parent is made under storage_deleted/, and the file moved into it.
RunArchiveFile(r) ==
  /\ \E a \in Assets :
       /\ Head(hooks[r]) = <<"archiveFile", a>>
       /\ archived' = archived \cup ({a} \cap live)
       /\ live' = live \ {a}
  /\ UNCHANGED <<dbVars, home, opVars, historyVars>>

\* A parent has a folder under storage_deleted/ once a file was moved into it.
HasArchiveFolder(p) == \E a \in archived : home[a] = p

\* moveRowStoragePlansToDeleted: the whole folder is renamed, and the rename
\* refuses a destination that exists.
RunArchiveFolder(r) ==
  /\ \E p \in Parents :
       LET files == {a \in live : home[a] = p} IN
       /\ Head(hooks[r]) = <<"archiveFolder", p>>
       /\ IF HasArchiveFolder(p) THEN UNCHANGED <<live, archived>>
          ELSE live' = live \ files /\ archived' = archived \cup files
  /\ UNCHANGED <<dbVars, home, opVars, historyVars>>

\* EventBus.Publish.
RunPublish(r) ==
  /\ \E e \in Event :
       Head(hooks[r]) = <<"publish", e>> /\ published' = e
  /\ UNCHANGED <<dbVars, fileVars, opVars, everCommitted, faulted>>

\* A file operation fails; the error is logged and the next hook runs.
FileHookFails(r) ==
  /\ Head(hooks[r]) \in Cleanup \cup Archive
  /\ faulted' = TRUE
  /\ UNCHANGED <<dbVars, fileVars, opVars, published, everCommitted>>

RunHook(r) ==
  /\ HookReturns(r)
  /\ \/ RunCleanup(r) \/ RunArchiveFile(r) \/ RunArchiveFolder(r)
     \/ RunPublish(r) \/ FileHookFails(r)

Ends(r) ==
  /\ EndWithoutTx(r) \/ RequestEnds(r)
  /\ HandlerGone(r)
  /\ UNCHANGED <<dbVars, fileVars, historyVars>>

Crash ==
  /\ ProcessDies
  /\ op' = [r \in Requests |-> NoOperation]
  /\ step' = [r \in Requests |-> "start"]
  /\ faulted' = TRUE
  /\ UNCHANGED <<dbVars, fileVars, published, everCommitted>>

Next ==
  \/ \E r \in Requests :
       \/ RequestArrives(r) \/ Fails(r)
       \/ InsertAsset(r) \/ SaveFile(r) \/ FinishUpload(r)
       \/ UpdateAsset(r)
       \/ PlanDelete(r) \/ DeleteAsset(r)
       \/ FetchPreferred(r) \/ UpdateCached(r)
       \/ DeleteParent(r)
       \/ TxCommits(r) \/ TxRollsBack(r) \/ RunHook(r) \/ Ends(r)
  \/ Crash

Spec == Init /\ [][Next]_vars

-----------------------------------------------------------------------------
(* Properties.                                                             *)

\* An asset row has its file under storage/ as long as the parent in whose
\* folder it was put exists: no interleaving of uploads, deletions, rollbacks,
\* crashes and late hooks archives or removes the file of a committed row.
LiveRowHasFile ==
  \A a \in Assets : row[a] # NoParent /\ home[a] \in parents => a \in live

\* The file of an asset that was once committed is never destroyed: it is
\* under storage/ or under storage_deleted/, whatever happened to its row.
MediaNeverDestroyed == everCommitted \subseteq live \cup archived

\* When no request is in progress, nothing died and no file operation failed,
\* an upload that was rolled back has left no file under storage/.
RolledBackUploadLeavesNoFile ==
  (~faulted /\ \A r \in Requests : phase[r] = "idle") => live \subseteq everCommitted

\* A subscriber that is told of a mutation finds it in the database: a created
\* asset was committed, a deleted asset or parent is gone.
EventsTellTheTruth ==
  /\ \A a \in Assets : published = <<"create", a>> => a \in everCommitted
  /\ \A a \in Assets : published = <<"delete", a>> => row[a] = NoParent
  /\ \A p \in Parents : published = <<"deleteParent", p>> => p \notin parents

\* A preview shown on a parent row was uploaded by a request that committed.
PreviewWasCommitted ==
  \A p \in Parents : cached[p] # NoAsset => cached[p] \in everCommitted

\* asset_linking_cache_sync.go recomputes the cached_image of a parent after
\* its asset rows change.  So the preview of a parent is one of its asset rows.
PreviewIsOwnAsset ==
  \A p \in parents : cached[p] # NoAsset => row[cached[p]] = p

\* The files of a deleted parent's assets leave storage/ with it: when nothing
\* is in progress and nothing failed, each file there belongs to an asset row.
NoFileWithoutRow ==
  (~faulted /\ \A r \in Requests : phase[r] = "idle") =>
    \A a \in live : row[a] # NoParent

-----------------------------------------------------------------------------
\* For the runs: the requests are alike, and so are the parents.
RequestSymmetry == Permutations(Requests) \cup Permutations(Parents)
=============================================================================
