----------------------------- MODULE ArticleMedia -----------------------------
(***************************************************************************)
(* The media sections and the related tabs of one open row article: the    *)
(* hydration that follows its opening, the requests that the load session  *)
(* shares, and the uploads, deletions, edits and comments of the user,     *)
(* each of which ends with a forced refresh of what it changed.            *)
(*                                                                         *)
(* An operation is asynchronous, and any number of them may be under way.  *)
(* The rows of the server are small sets: two images (one of them          *)
(* primary), the attachments, the rows of one related table and the        *)
(* comments of the article.                                                *)
(***************************************************************************)
EXTENDS Integers, Sequences, FiniteSets

CONSTANTS AmMaxOps,       \* bound: operations of the user
          AmMaxRequests,  \* bound: requests of the load session
          AmMaxFiles      \* bound: files of one upload

VARIABLES
    amDb,        \* the rows of the server, by kind
    amOpen,      \* the article element is connected
    amReq,       \* the requests of the load session, in the order they were made
    amCache,     \* dynamicChildrenCache: the request of each key, 0 for none
    amHydrate,   \* the hydration of the related sections
    amOp,        \* the operations
    amSections,  \* the gallery and attachment sections in the article
    amTabs,      \* the related tabs element
    amSolo,      \* history: every activity started alone and met no failure
    amMixed      \* history: an image was deleted, or two operations overlapped
amVars == <<amDb, amOpen, amReq, amCache, amHydrate, amOp, amSections, amTabs, amSolo, amMixed>>

AmOps   == 1..AmMaxOps
AmMedia == {"gallery", "attachments"}
AmKeys  == {"all", "tab"}
AmIds   == 1..(2 + AmMaxOps * AmMaxFiles)

AmIdle == [pc |-> "idle", do |-> "none", row |-> 0, clear |-> {}, left |-> 0, req |-> 0,
           gen |-> 0, got |-> {}]
AmNoTabs == [on |-> FALSE, gen |-> 0, loaded |-> FALSE, load |-> 0, rows |-> {}, comments |-> {}]

AmInit ==
    /\ amDb = [gallery |-> {1, 2}, primary |-> {1}, attachments |-> {}, kids |-> {1},
               comments |-> {}]
    /\ amOpen = TRUE
    /\ amReq = <<>> /\ amCache = [k \in AmKeys |-> 0]
    /\ amHydrate = [pc |-> "frame", req |-> 0]
    /\ amOp = [o \in AmOps |-> AmIdle]
    /\ amSections = [m \in AmMedia |-> <<>>]
    /\ amTabs = AmNoTabs
    /\ amSolo = TRUE /\ amMixed = FALSE

AmBusy(o)   == amOp[o].pc \notin {"idle", "done"}
AmHydrating == amHydrate.pc # "done"
AmQuiet     == ~AmHydrating /\ amTabs.load = 0 /\ \A o \in AmOps : ~AmBusy(o)

AmServed(q) == q # 0 /\ amReq[q].pc = "served"
AmFailed(q) == q # 0 /\ amReq[q].pc = "failed"
-----------------------------------------------------------------------------
(* The load session: requests are shared by key until one is forced or fails *)

AmCanAsk == Len(amReq) < AmMaxRequests

\* Mutant: a forced refresh is answered from the cache.
fetchFromCache(key, forced) ==
    IF amCache[key] # 0
    THEN [req |-> amReq, cache |-> amCache, id |-> amCache[key]]
    ELSE [req |-> Append(amReq, [key |-> key, pc |-> "asked", snap |-> amDb]),
          cache |-> [amCache EXCEPT ![key] = Len(amReq) + 1],
          id |-> Len(amReq) + 1]

\* fetchDynamicChildren: a forced refresh of all children forgets every cached request;
\* a plain one is answered by the cached request, whether or not it has been served.
fetchDynamicChildren(key, forced) ==
    IF ~forced /\ amCache[key] # 0
    THEN [req |-> amReq, cache |-> amCache, id |-> amCache[key]]
    ELSE LET kept == IF forced THEN [k \in AmKeys |-> 0] ELSE amCache
         IN  [req |-> Append(amReq, [key |-> key, pc |-> "asked", snap |-> amDb]),
              cache |-> [kept EXCEPT ![key] = Len(amReq) + 1],
              id |-> Len(amReq) + 1]

\* The server reads the rows; the answer is used whenever its waiters run.
AmRequestServed(q) ==
    /\ amReq[q].pc = "asked"
    /\ amReq' = [amReq EXCEPT ![q].pc = "served", ![q].snap = amDb]
    /\ UNCHANGED <<amDb, amOpen, amCache, amHydrate, amOp, amSections, amTabs, amSolo, amMixed>>

\* A failed request leaves the cache, unless a newer one has taken its place.
evictFailed(q) ==
    IF amCache[amReq[q].key] = q THEN [amCache EXCEPT ![amReq[q].key] = 0] ELSE amCache

AmRequestFails(q) ==
    /\ amReq[q].pc = "asked"
    /\ amReq' = [amReq EXCEPT ![q].pc = "failed"]
    /\ amCache' = evictFailed(q)
    /\ amSolo' = FALSE
    /\ UNCHANGED <<amDb, amOpen, amHydrate, amOp, amSections, amTabs, amMixed>>
-----------------------------------------------------------------------------
(* Sections and tabs *)

\* buildImageGallery: the images of the answer, and which of them it marks as primary.
buildImageGallery(q) == [rows |-> amReq[q].snap.gallery, primary |-> amReq[q].snap.primary]

buildAttachmentList(q) == [rows |-> amReq[q].snap.attachments, primary |-> {}]

AmSection(m, q) == IF m = "gallery" THEN buildImageGallery(q) ELSE buildAttachmentList(q)

\* upsertMediaSection: the first section of the kind is replaced, or one is inserted.
upsertMediaSection(m, section) ==
    [amSections EXCEPT ![m] = IF @ = <<>> THEN <<section>> ELSE [@ EXCEPT ![1] = section]]

\* buildRelatedTabs: without a related row the comments are the only tab.  The first tab
\* loads its rows at once; the load session may have them.
buildRelatedTabs(kids, gen) ==
    LET ask == fetchDynamicChildren("tab", FALSE)
    IN  /\ kids # {} => AmCanAsk
        /\ amTabs' = [AmNoTabs EXCEPT !.on = TRUE, !.gen = gen,
                                      !.load = IF kids = {} THEN 0 ELSE ask.id]
        /\ IF kids = {} THEN UNCHANGED <<amReq, amCache>>
           ELSE amReq' = ask.req /\ amCache' = ask.cache

\* loadRelatedRows: a failed load leaves the tab unloaded, the next click tries again.
AmTabLoaded ==
    /\ AmServed(amTabs.load) \/ AmFailed(amTabs.load)
    /\ amTabs' = IF AmServed(amTabs.load)
                 THEN [amTabs EXCEPT !.load = 0, !.loaded = TRUE,
                                     !.rows = amReq[amTabs.load].snap.kids]
                 ELSE [amTabs EXCEPT !.load = 0, !.rows = {}]
    /\ UNCHANGED <<amDb, amOpen, amReq, amCache, amHydrate, amOp, amSections, amSolo, amMixed>>

\* A click on the tab of related rows.
AmClickTab ==
    /\ amOpen /\ amTabs.on /\ ~amTabs.loaded /\ amTabs.load = 0 /\ AmCanAsk
    /\ LET ask == fetchDynamicChildren("tab", FALSE)
       IN  amReq' = ask.req /\ amCache' = ask.cache /\ amTabs' = [amTabs EXCEPT !.load = ask.id]
    /\ amSolo' = (amSolo /\ AmQuiet)
    /\ UNCHANGED <<amDb, amOpen, amHydrate, amOp, amSections, amMixed>>
-----------------------------------------------------------------------------
(* Hydration, started by the frame after the opening *)

hydrateRelatedSections ==
    /\ amHydrate.pc = "frame" /\ AmCanAsk
    /\ LET ask == fetchDynamicChildren("all", FALSE)
       IN  /\ amReq' = ask.req /\ amCache' = ask.cache
           /\ amHydrate' = [pc |-> "asked", req |-> ask.id]
    /\ UNCHANGED <<amDb, amOpen, amOp, amSections, amTabs, amSolo, amMixed>>

\* An article closed in the meantime, a failed request or a failed linking status ends it.
AmHydrateEnds ==
    /\ \/ amHydrate.pc = "asked" /\ AmFailed(amHydrate.req)
       \/ amHydrate.pc = "asked" /\ AmServed(amHydrate.req)
    /\ amHydrate' = [pc |-> "done", req |-> 0]
    /\ amSolo' = FALSE
    /\ UNCHANGED <<amDb, amOpen, amReq, amCache, amOp, amSections, amTabs, amMixed>>

\* With the children, the linking status and the permissions known, the sections are
\* appended one after the other, whatever a refresh has put there in the meantime.
AmHydrateSection(m) ==
    /\ amHydrate.pc = IF m = "gallery" THEN "asked" ELSE "attachments"
    /\ AmServed(amHydrate.req)
    /\ amSections' = [amSections EXCEPT ![m] = Append(@, AmSection(m, amHydrate.req))]
    /\ amHydrate' = [amHydrate EXCEPT !.pc = IF m = "gallery" THEN "attachments" ELSE "tabs"]
    /\ UNCHANGED <<amDb, amOpen, amReq, amCache, amOp, amTabs, amSolo, amMixed>>

AmHydrateTabs ==
    /\ amHydrate.pc = "tabs"
    /\ amHydrate' = [pc |-> "done", req |-> 0]
    /\ IF amOpen THEN buildRelatedTabs(amReq[amHydrate.req].snap.kids, 1)
                 ELSE UNCHANGED <<amReq, amCache, amTabs>>
    /\ UNCHANGED <<amDb, amOpen, amOp, amSections, amSolo, amMixed>>
-----------------------------------------------------------------------------
(* Operations *)

\* The thumbnails (a page of five at a time) and the attachment rows carry the buttons.
AmThumbnails     == UNION {amSections["gallery"][n].rows : n \in DOMAIN amSections["gallery"]}
AmAttachmentRows ==
    UNION {amSections["attachments"][n].rows : n \in DOMAIN amSections["attachments"]}

\* A new operation takes the next free number.  A button is disabled while its own
\* operation runs; the context menu of an image, and every other button, start another.
AmStart(o, op) ==
    /\ amOpen
    /\ amOp[o].pc = "idle" /\ \A p \in 1..(o - 1) : amOp[p].pc # "idle"
    /\ amOp' = [amOp EXCEPT ![o] = [op EXCEPT !.pc = IF op.do = "read" THEN "comments"
                                                    ELSE "calling"]]
    /\ amSolo' = (amSolo /\ AmQuiet)
    /\ amMixed' = (amMixed \/ ~AmQuiet \/ op.do = "delete_gallery")
    /\ UNCHANGED <<amDb, amOpen, amReq, amCache, amHydrate, amSections, amTabs>>

\* One request for each file.
uploadImages(o) ==
    /\ amSections["gallery"] # <<>>
    /\ \E n \in 1..AmMaxFiles : AmStart(o, [AmIdle EXCEPT !.do = "upload_gallery", !.left = n])
uploadAttachments(o) ==
    /\ amSections["attachments"] # <<>>
    /\ \E n \in 1..AmMaxFiles :
          AmStart(o, [AmIdle EXCEPT !.do = "upload_attachments", !.left = n])

\* The deletion is confirmed first.
deleteImageRow(o) ==
    \E r \in AmThumbnails : AmStart(o, [AmIdle EXCEPT !.do = "delete_gallery", !.row = r])
deleteAttachment(o) ==
    \E r \in AmAttachmentRows : AmStart(o, [AmIdle EXCEPT !.do = "delete_attachments", !.row = r])

\* setImageAsPrimary: the primary images to clear are those of the gallery it is chosen in.
setImageAsPrimary(o) ==
    \E n \in DOMAIN amSections["gallery"] :
       LET section == amSections["gallery"][n]
       IN  \E r \in section.rows \ section.primary :
              AmStart(o, [AmIdle EXCEPT !.do = "primary", !.row = r,
                                        !.clear = section.primary])

\* The edit form of the row, and the metadata editors: no row comes or goes.
saveRow(o) == AmStart(o, [AmIdle EXCEPT !.do = "save"])
saveImageMetadata(o) ==
    \E r \in AmThumbnails : AmStart(o, [AmIdle EXCEPT !.do = "save", !.row = r])
saveAttachmentMetadata(o) ==
    \E r \in AmAttachmentRows : AmStart(o, [AmIdle EXCEPT !.do = "save", !.row = r])

\* What is done in the tabs is bound to the tabs element it is done in.
deleteRelatedRecord(o) ==
    \E r \in amTabs.rows :
       AmStart(o, [AmIdle EXCEPT !.do = "delete_kids", !.row = r, !.gen = amTabs.gen])
createComment(o) ==
    amTabs.on /\ AmStart(o, [AmIdle EXCEPT !.do = "comment", !.row = o, !.gen = amTabs.gen])
deleteComment(o) ==
    \E r \in amTabs.comments :
       AmStart(o, [AmIdle EXCEPT !.do = "uncomment", !.row = r, !.gen = amTabs.gen])
load_comments(o) ==
    amTabs.on /\ AmStart(o, [AmIdle EXCEPT !.do = "read", !.gen = amTabs.gen])

\* What one call of the operation does on the server.
AmEffect(o) ==
    LET op  == amOp[o]
        new == 2 + (o - 1) * AmMaxFiles + op.left
    IN  CASE op.do = "upload_gallery"     -> [amDb EXCEPT !.gallery = @ \cup {new}]
          [] op.do = "upload_attachments" -> [amDb EXCEPT !.attachments = @ \cup {new}]
          [] op.do = "delete_gallery"     -> [amDb EXCEPT !.gallery = @ \ {op.row},
                                                          !.primary = @ \ {op.row}]
          [] op.do = "delete_attachments" -> [amDb EXCEPT !.attachments = @ \ {op.row}]
          [] op.do = "delete_kids"        -> [amDb EXCEPT !.kids = @ \ {op.row}]
          [] op.do = "primary" /\ op.pc = "calling"  ->
                [amDb EXCEPT !.primary = @ \cup ({op.row} \cap amDb.gallery)]
          [] op.do = "primary" /\ op.pc = "clearing" ->
                [amDb EXCEPT !.primary = @ \ {CHOOSE r \in op.clear : TRUE}]
          [] op.do = "comment"            -> [amDb EXCEPT !.comments = @ \cup {op.row}]
          [] op.do = "uncomment"          -> [amDb EXCEPT !.comments = @ \ {op.row}]
          [] OTHER -> amDb

\* Mutant: the old primary images are cleared before the new one is set.
ClearFirst(o) ==
    LET op == amOp[o]
    IN  CASE op.do = "primary" /\ op.pc = "calling" -> [amDb EXCEPT !.primary = @ \ op.clear]
          [] op.do = "primary" /\ op.pc = "clearing" ->
                [amDb EXCEPT !.primary = @ \cup ({op.row} \cap amDb.gallery)]
          [] OTHER -> AmEffect(o)

AmPerform(o) == AmEffect(o)

\* A call succeeds: the next file, the next primary image to clear, or the refresh.
AmCallAnswered(o) ==
    LET op   == amOp[o]
        rest == IF op.pc = "clearing" THEN op.clear \ {CHOOSE r \in op.clear : TRUE} ELSE op.clear
    IN  /\ op.pc \in {"calling", "clearing"}
        /\ amDb' = AmPerform(o)
        /\ amOp' = [amOp EXCEPT ![o] =
              CASE op.left > 1   -> [op EXCEPT !.left = @ - 1]
                [] rest # {}     -> [op EXCEPT !.pc = "clearing", !.clear = rest]
                [] op.do \in {"comment", "uncomment"} -> [op EXCEPT !.pc = "comments"]
                [] OTHER         -> [op EXCEPT !.pc = "changed", !.clear = {}]]
        /\ UNCHANGED <<amOpen, amReq, amCache, amHydrate, amSections, amTabs, amSolo, amMixed>>

\* A call fails, on the server or on the way back: a message and no refresh, also when
\* earlier files of the upload are stored.
AmCallFails(o) ==
    /\ amOp[o].pc \in {"calling", "clearing"}
    /\ amDb' \in {amDb, AmPerform(o)}
    /\ amOp' = [amOp EXCEPT ![o] = [AmIdle EXCEPT !.pc = "done"]]
    /\ amSolo' = FALSE
    /\ UNCHANGED <<amOpen, amReq, amCache, amHydrate, amSections, amTabs, amMixed>>

\* refreshMediaSections and reloadRelatedTabs ask for the children again.  Before the
\* hydration has begun, a save finds nothing to refresh.
refreshMediaSections(o) ==
    /\ amOp[o].pc = "changed"
    /\ IF amHydrate.pc = "frame"
         THEN /\ amOp' = [amOp EXCEPT ![o] = [AmIdle EXCEPT !.pc = "done"]]
              /\ UNCHANGED <<amReq, amCache>>
         ELSE /\ AmCanAsk
              /\ LET ask == fetchDynamicChildren("all", TRUE)
                 IN  /\ amReq' = ask.req /\ amCache' = ask.cache
                     /\ amOp' = [amOp EXCEPT ![o].pc = "asked", ![o].req = ask.id]
    /\ UNCHANGED <<amDb, amOpen, amHydrate, amSections, amTabs, amSolo, amMixed>>

AmRefreshEnds(o) ==
    /\ amOp[o].pc = "asked"
    /\ AmFailed(amOp[o].req) \/ (AmServed(amOp[o].req) /\ ~amOpen)
    /\ amOp' = [amOp EXCEPT ![o] = [AmIdle EXCEPT !.pc = "done"]]
    /\ UNCHANGED <<amDb, amOpen, amReq, amCache, amHydrate, amSections, amTabs, amSolo, amMixed>>

\* The new sections replace the first ones of their kind, while the article is open.
AmRefreshSection(o, m) ==
    /\ amOp[o].pc = IF m = "gallery" THEN "asked" ELSE "attachments"
    /\ amOp[o].do # "delete_kids" /\ AmServed(amOp[o].req)
    /\ amSections' = IF amOpen THEN upsertMediaSection(m, AmSection(m, amOp[o].req))
                     ELSE amSections
    /\ amOp' = [amOp EXCEPT ![o] = IF m = "gallery" THEN [@ EXCEPT !.pc = "attachments"]
                                   ELSE [AmIdle EXCEPT !.pc = "done"]]
    /\ UNCHANGED <<amDb, amOpen, amReq, amCache, amHydrate, amTabs, amSolo, amMixed>>

\* The tabs are built anew and take the place of the element the record was deleted in.
reloadRelatedTabs(o) ==
    /\ amOp[o].pc = "asked" /\ amOp[o].do = "delete_kids" /\ AmServed(amOp[o].req)
    /\ IF amTabs.gen = amOp[o].gen
         THEN buildRelatedTabs(amReq[amOp[o].req].snap.kids, o + 1)
         ELSE UNCHANGED <<amReq, amCache, amTabs>>
    /\ amOp' = [amOp EXCEPT ![o] = [AmIdle EXCEPT !.pc = "done"]]
    /\ UNCHANGED <<amDb, amOpen, amHydrate, amSections, amSolo, amMixed>>

\* The comments are read, and shown when their answer arrives, in the element they were
\* asked for; a failed read changes nothing.
AmCommentsServed(o) ==
    /\ amOp[o].pc = "comments"
    /\ amOp' = [amOp EXCEPT ![o].pc = "comments_got", ![o].got = amDb.comments]
    /\ UNCHANGED <<amDb, amOpen, amReq, amCache, amHydrate, amSections, amTabs, amSolo, amMixed>>

AmCommentsShown(o) ==
    /\ amOp[o].pc = "comments_got"
    /\ amTabs' = IF amTabs.gen = amOp[o].gen THEN [amTabs EXCEPT !.comments = amOp[o].got]
                 ELSE amTabs
    /\ amOp' = [amOp EXCEPT ![o] = [AmIdle EXCEPT !.pc = "done"]]
    /\ UNCHANGED <<amDb, amOpen, amReq, amCache, amHydrate, amSections, amSolo, amMixed>>

\* closeBigCard takes the element away; nothing under way is stopped.
AmClose ==
    /\ amOpen
    /\ amOpen' = FALSE
    /\ UNCHANGED <<amDb, amReq, amCache, amHydrate, amOp, amSections, amTabs, amSolo, amMixed>>
-----------------------------------------------------------------------------
AmNext ==
    \/ \E q \in DOMAIN amReq : AmRequestServed(q) \/ AmRequestFails(q)
    \/ hydrateRelatedSections \/ AmHydrateEnds \/ AmHydrateTabs
    \/ \E m \in AmMedia : AmHydrateSection(m)
    \/ AmTabLoaded \/ AmClickTab \/ AmClose
    \/ \E o \in AmOps :
          \/ uploadImages(o) \/ uploadAttachments(o) \/ deleteImageRow(o)
          \/ deleteAttachment(o) \/ setImageAsPrimary(o)
          \/ saveRow(o) \/ saveImageMetadata(o) \/ saveAttachmentMetadata(o)
          \/ deleteRelatedRecord(o) \/ createComment(o) \/ deleteComment(o) \/ load_comments(o)
          \/ \E m \in AmMedia : AmRefreshSection(o, m)
          \/ AmCallAnswered(o) \/ AmCallFails(o) \/ refreshMediaSections(o)
          \/ AmRefreshEnds(o) \/ reloadRelatedTabs(o)
          \/ AmCommentsServed(o) \/ AmCommentsShown(o)

AmSpec == AmInit /\ [][AmNext]_amVars
-----------------------------------------------------------------------------
AmTypeOK ==
    /\ amDb \in [gallery : SUBSET AmIds, primary : SUBSET AmIds, attachments : SUBSET AmIds,
                 kids : SUBSET {1}, comments : SUBSET AmOps]
    /\ amCache \in [AmKeys -> 0..Len(amReq)]
    /\ amHydrate.req \in 0..Len(amReq) /\ amTabs.load \in 0..Len(amReq)
    /\ \A o \in AmOps : amOp[o].req \in 0..Len(amReq)

\* As long as operations start while nothing else is under way and no request fails, what
\* they changed is what the article shows when they are over: the first gallery, the first list of
\* attachments, the related rows that were loaded and the comments that were read are those of the server.
AmShownIsStored ==
    amSolo /\ AmQuiet /\ amOpen =>
        /\ \A m \in AmMedia : amSections[m] # <<>> => amSections[m][1].rows = amDb[m]
        /\ amSections["gallery"] # <<>> => amSections["gallery"][1].primary = amDb.primary
        /\ amTabs.loaded => amTabs.rows = amDb.kids
        /\ amTabs.comments \in {{}, amDb.comments}

\* One change of the default image at a time, wherever it fails, never leaves the row
\* without one: the new image becomes primary before the old one ceases to be.
AmPrimaryKept == amMixed \/ amDb.primary # {}
=============================================================================
