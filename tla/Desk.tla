-------------------------------- MODULE Desk --------------------------------
(***************************************************************************)
(* The parts of the front end, and those of the server that keep state       *)
(* between requests, in memory or in the session cookie.  They are modelled   *)
(* in a module each and share no variables, so a behaviour uses one of them,  *)
(* and one run checks them all.  The state of the part in use is kept in the  *)
(* slots below.  What is promised of the parts is said here by the subject.   *)
(***************************************************************************)
EXTENDS TLAPS

CONSTANTS AmMaxOps, AmMaxRequests, AmMaxFiles, QcMaxActivities, FcMaxCommits, FcMaxInputs, MxMaxRequests, MxMaxEdits,
          GrMaxEdits, GrMaxRenders, TcMaxSends, TcMaxStamps, TcMaxOpens, RcMaxForms, RcMaxPicks, RcMaxSubmits,
          NvMaxMoves, NvMaxEntries, NtMaxEvents, LfMaxInputs, PmMaxInputs, PmMaxSessions, ApMaxInputs, ApMaxSessions,
          LuMaxEvents, SeMaxSessions, TrMaxInputs, TrMaxVersions, ClMaxInputs, ClMaxSize, CaMaxMoves, CaDates, CaToday,
          CaMaxPreview, CaMaxRange, MvMaxInputs, CmMaxTokens, CmMaxInputs, LnMaxChoices, LnMaxInputs, FsMaxSaves,
          FsMaxInputs, SoMaxChanges, PkMaxInputs, AlMaxSaves, AlMaxInputs, TbMaxChoices, TbMaxInputs, TbMaxCalls,
          TgMaxRows, TgMaxInputs, DiMaxQuestions, CgMaxSaves, CgMaxEdits, CgMaxChoices, UpMaxInputs, AdThings,
          AdMaxInputs, AdMaxOnLinks, EbTables, EbChannelSize, EbStreamSize, EbMaxConnections, EbMaxEvents, MeProcesses,
          MeReaders, MeTTL, MeMaxDelay, MeMaxTime, MeMaxChanges, RlRequests, RlLimit, RlWindow, RlCleanAge, RlMaxDelay,
          RlMaxTime, RlMaxCounted, LgUsers, LgMailed, LgSlots, LgMaxTries, LgMaxInputs, LgMaxCodes, FlMaxDraws,
          FlMaxMoves, FlMaxChanges, PcMaxInputs

VARIABLES tool,  \* the part in use
          s1, s2, s3, s4, s5, s6, s7, s8, s9, s10  \* its variables

slots == <<s1, s2, s3, s4, s5, s6, s7, s8, s9, s10>>

Qc == INSTANCE QueenChat WITH qcServer <- s1, qcView <- s2, qcActivity <- s3, qcSolo <- s4
Fb == INSTANCE FilterBar WITH fbWindow <- s1, fbPanel <- s2
Tc == INSTANCE TableChat WITH tcChat <- s1, tcLoad <- s2, tcQueries <- s3, tcTable <- s4, tcLocal <- s5,
                              tcServer <- s6, tcPuts <- s7, tcKept <- s8
Rc == INSTANCE RowCreate WITH rcForm <- s1, rcStates <- s2, rcOpening <- s3, rcBuilds <- s4, rcSubmits <- s5,
                              rcServer <- s6, rcCounts <- s7
Nt == INSTANCE NavTabs WITH ntMenu <- s1, ntNav <- s2, ntBuilds <- s3, ntDrag <- s4, ntSaves <- s5, ntOrder <- s6,
                            ntCounts <- s7
Tr == INSTANCE NavTree WITH trServer <- s1, trCache <- s2, trDom <- s3, trJobs <- s4, trDialog <- s5, trCounts <- s6
Cl == INSTANCE Disclosure WITH clUi <- s1, clRuns <- s2, clLate <- s3, clCounts <- s4
Ca == INSTANCE Calendar WITH caRows <- s1, caClock <- s2, caView <- s3, caStore <- s4, caCounts <- s5
Mv == INSTANCE MapView WITH mvRows <- s1, mvUi <- s2, mvCounts <- s3
Cm == INSTANCE CloudManagement WITH cmServer <- s1, cmUi <- s2, cmCalls <- s3, cmCounts <- s4
Panel == INSTANCE FilterPanel WITH fsServer <- s1, fsUi <- s2, fsCalls <- s3, fsCounts <- s4, soServer <- s1,
                                   soPanel <- s2, soCalls <- s3, soCounts <- s4
Tg == INSTANCE TriggerForm WITH tgForm <- s1, tgCalls <- s2, tgSent <- s3, tgCounts <- s4
Di == INSTANCE Dialogs WITH diQuestion <- s1, diLost <- s2, diOverlay <- s3, diFocus <- s4
Cg == INSTANCE ColumnManager WITH cgServer <- s1, cgLocal <- s2, cgWanted <- s3, cgScreen <- s4, cgForm <- s5,
                                  cgCalls <- s6, cgCounts <- s7
Ad == INSTANCE AdminLists WITH adView <- s1, adStored <- s2, adBlocks <- s3, adLoads <- s4, adAsked <- s5,
                               adCalls <- s6, adForm <- s7, adRun <- s8, adBanner <- s9, adSaid <- s10
Fl == INSTANCE FreeLayout WITH flStatus <- s1, flStore <- s2, flWorking <- s3, flCards <- s4, flBars <- s5,
                               flDraws <- s6, flDrag <- s7, flHistory <- s8, flCounts <- s9
Pc == INSTANCE ProductCards WITH pcRow <- s1, pcPage <- s2, pcCard <- s3, pcInputs <- s4
\* The parts of the server, and those of the front end that keep the session with it or tell what it said, with
\* what is proved of them.
Server == INSTANCE ServerProofs WITH ebConn <- s1, ebSubs <- s2, ebChan <- s3, ebHand <- s4, ebStream <- s5,
                                     ebWritten <- s6, ebPub <- s7, ebCount <- s8, ebOwed <- s9, meInvalidated <- s1,
                                     meDb <- s2, meUntil <- s3, meChange <- s4, meCache <- s5, meLoad <- s6,
                                     meCaught <- s7, meNow <- s8, rlKind <- s1, rlTimes <- s2, rlJob <- s3,
                                     rlEntry <- s4, rlNow <- s5, rlLog <- s6, lgJar <- s1, lgUsers <- s2,
                                     lgCodes <- s3, lgReq <- s4, lgIssued <- s5, lgProved <- s6, lgTold <- s7,
                                     lgLine <- s8, lgInputs <- s9, apServer <- s1, apWrites <- s2, apTab <- s3,
                                     apSaid <- s4, apCounts <- s5, pmServer <- s1, pmRights <- s2, pmRequests <- s3,
                                     pmCalls <- s4, pmSaid <- s5, pmCounts <- s6, lfForm <- s1, lfModal <- s2,
                                     lfCalls <- s3, lfCounts <- s4, seServer <- s1, seStore <- s2, seTabs <- s3,
                                     seJobs <- s4, seMail <- s5, seSpoiled <- s6, seBack <- s7, upServer <- s1,
                                     upForm <- s2, upKnown <- s3, upDialog <- s4, upCalls <- s5, upCounts <- s6,
                                     luPage <- s1, luStream <- s2, luTimers <- s3, luRows <- s4, luViews <- s5,
                                     luReads <- s6, luCounts <- s7, lnServer <- s1, lnPage <- s2, lnJobs <- s3,
                                     lnCounts <- s4
\* Parts of the front end, with what is proved of them.
Front == INSTANCE FrontProofs WITH alServer <- s1, alRegistry <- s2, alView <- s3, alCounts <- s4, nvPage <- s1,
                                   nvHistory <- s2, nvArticles <- s3, nvParams <- s4, nvRuns <- s5, nvCounts <- s6,
                                   amDb <- s1, amOpen <- s2, amReq <- s3, amCache <- s4, amHydrate <- s5, amOp <- s6,
                                   amSections <- s7, amTabs <- s8, amSolo <- s9, amMixed <- s10, mxView <- s1,
                                   mxServer <- s2, mxLoads <- s3, mxSaves <- s4, mxDrafts <- s5, mxCounts <- s6,
                                   grView <- s1, grEdit <- s2, grSent <- s3, grServer <- s4, grCounts <- s5,
                                   tbServer <- s1, tbUi <- s2, tbCalls <- s3, tbCounts <- s4, fcUi <- s1,
                                   fcSearch <- s2, fcCommit <- s3, fcInputs <- s4, pkMany <- s1, pkOne <- s2,
                                   pkCounts <- s3

NoSlot == "unused"
Using(t) == tool = t

FreeFrom10 == s10 = NoSlot
FreeFrom9 == s9 = NoSlot /\ FreeFrom10
FreeFrom8 == s8 = NoSlot /\ FreeFrom9
FreeFrom7 == s7 = NoSlot /\ FreeFrom8
FreeFrom6 == s6 = NoSlot /\ FreeFrom7
FreeFrom5 == s5 = NoSlot /\ FreeFrom6
FreeFrom4 == s4 = NoSlot /\ FreeFrom5
FreeFrom3 == s3 = NoSlot /\ FreeFrom4

from10 == <<s10>>
from9 == <<s9, from10>>
from8 == <<s8, from9>>
from7 == <<s7, from8>>
from6 == <<s6, from7>>
from5 == <<s5, from6>>
from4 == <<s4, from5>>
from3 == <<s3, from4>>

DeskInit ==
    \/ tool = "ArticleMedia" /\ Front!AmInit
    \/ tool = "QueenChat" /\ Qc!QcInit /\ FreeFrom5
    \/ tool = "FilterBar" /\ Fb!FbInit /\ FreeFrom3
    \/ tool = "FilterControls" /\ Front!FcInit /\ FreeFrom5
    \/ tool = "AdminMatrix" /\ Front!MxInit /\ FreeFrom7
    \/ tool = "Grid" /\ Front!GrInit /\ FreeFrom6
    \/ tool = "TableChat" /\ Tc!TcInit /\ FreeFrom9
    \/ tool = "RowCreate" /\ Rc!RcInit /\ FreeFrom8
    \/ tool = "Navigation" /\ Front!NvInit /\ FreeFrom7
    \/ tool = "NavTabs" /\ Nt!NtInit /\ FreeFrom8
    \/ tool = "LoginForm" /\ Server!LfInit /\ FreeFrom5
    \/ tool = "Permissions" /\ Server!PmInit /\ FreeFrom7
    \/ tool = "ApiClient" /\ Server!ApInit /\ FreeFrom6
    \/ tool = "LiveUpdates" /\ Server!LuInit /\ FreeFrom8
    \/ tool = "Session" /\ Server!SeInit /\ FreeFrom8
    \/ tool = "NavTree" /\ Tr!TrInit /\ FreeFrom7
    \/ tool = "Disclosure" /\ Cl!ClInit /\ FreeFrom5
    \/ tool = "Calendar" /\ Ca!CaInit /\ FreeFrom6
    \/ tool = "MapView" /\ Mv!MvInit /\ FreeFrom4
    \/ tool = "CloudManagement" /\ Cm!CmInit /\ FreeFrom5
    \/ tool = "Languages" /\ Server!LnInit /\ FreeFrom5
    \/ tool = "FieldSets" /\ Panel!FsInit /\ FreeFrom5
    \/ tool = "SectionOrder" /\ Panel!SoInit /\ FreeFrom5
    \/ tool = "Pickers" /\ Front!PkInit /\ FreeFrom4
    \/ tool = "Aliases" /\ Front!AlInit /\ FreeFrom5
    \/ tool = "TabConfig" /\ Front!TbInit /\ FreeFrom5
    \/ tool = "TriggerForm" /\ Tg!TgInit /\ FreeFrom5
    \/ tool = "Dialogs" /\ Di!DiInit /\ FreeFrom5
    \/ tool = "ColumnManager" /\ Cg!CgInit /\ FreeFrom8
    \/ tool = "UserProfile" /\ Server!UpInit /\ FreeFrom7
    \/ tool = "AdminLists" /\ Ad!AdInit
    \/ tool = "EventBus" /\ Server!EbInit /\ FreeFrom10
    \/ tool = "MetadataCache" /\ Server!MeInit /\ FreeFrom9
    \/ tool = "RateLimiter" /\ Server!RlInit /\ FreeFrom7
    \/ tool = "LoginFlow" /\ Server!LgInit /\ FreeFrom10
    \/ tool = "FreeLayout" /\ Fl!FlInit /\ FreeFrom10
    \/ tool = "ProductCards" /\ Pc!PcInit /\ FreeFrom5

DeskNext ==
    \/ Using("ArticleMedia") /\ Front!AmNext /\ UNCHANGED tool
    \/ Using("QueenChat") /\ Qc!QcNext /\ UNCHANGED <<tool, from5>>
    \/ Using("FilterBar") /\ Fb!FbNext /\ UNCHANGED <<tool, from3>>
    \/ Using("FilterControls") /\ Front!FcNext /\ UNCHANGED <<tool, from5>>
    \/ Using("AdminMatrix") /\ Front!MxNext /\ UNCHANGED <<tool, from7>>
    \/ Using("Grid") /\ Front!GrNext /\ UNCHANGED <<tool, from6>>
    \/ Using("TableChat") /\ Tc!TcNext /\ UNCHANGED <<tool, from9>>
    \/ Using("RowCreate") /\ Rc!RcNext /\ UNCHANGED <<tool, from8>>
    \/ Using("Navigation") /\ Front!NvNext /\ UNCHANGED <<tool, from7>>
    \/ Using("NavTabs") /\ Nt!NtNext /\ UNCHANGED <<tool, from8>>
    \/ Using("LoginForm") /\ Server!LfNext /\ UNCHANGED <<tool, from5>>
    \/ Using("Permissions") /\ Server!PmNext /\ UNCHANGED <<tool, from7>>
    \/ Using("ApiClient") /\ Server!ApNext /\ UNCHANGED <<tool, from6>>
    \/ Using("LiveUpdates") /\ Server!LuNext /\ UNCHANGED <<tool, from8>>
    \/ Using("Session") /\ Server!SeNext /\ UNCHANGED <<tool, from8>>
    \/ Using("NavTree") /\ Tr!TrNext /\ UNCHANGED <<tool, from7>>
    \/ Using("Disclosure") /\ Cl!ClNext /\ UNCHANGED <<tool, from5>>
    \/ Using("Calendar") /\ Ca!CaNext /\ UNCHANGED <<tool, from6>>
    \/ Using("MapView") /\ Mv!MvNext /\ UNCHANGED <<tool, from4>>
    \/ Using("CloudManagement") /\ Cm!CmNext /\ UNCHANGED <<tool, from5>>
    \/ Using("Languages") /\ Server!LnNext /\ UNCHANGED <<tool, from5>>
    \/ Using("FieldSets") /\ Panel!FsNext /\ UNCHANGED <<tool, from5>>
    \/ Using("SectionOrder") /\ Panel!SoNext /\ UNCHANGED <<tool, from5>>
    \/ Using("Pickers") /\ Front!PkNext /\ UNCHANGED <<tool, from4>>
    \/ Using("Aliases") /\ Front!AlNext /\ UNCHANGED <<tool, from5>>
    \/ Using("TabConfig") /\ Front!TbNext /\ UNCHANGED <<tool, from5>>
    \/ Using("TriggerForm") /\ Tg!TgNext /\ UNCHANGED <<tool, from5>>
    \/ Using("Dialogs") /\ Di!DiNext /\ UNCHANGED <<tool, from5>>
    \/ Using("ColumnManager") /\ Cg!CgNext /\ UNCHANGED <<tool, from8>>
    \/ Using("UserProfile") /\ Server!UpNext /\ UNCHANGED <<tool, from7>>
    \/ Using("AdminLists") /\ Ad!AdNext /\ UNCHANGED tool
    \/ Using("EventBus") /\ Server!EbNext /\ UNCHANGED <<tool, from10>>
    \/ Using("MetadataCache") /\ Server!MeNext /\ UNCHANGED <<tool, from9>>
    \/ Using("RateLimiter") /\ Server!RlNext /\ UNCHANGED <<tool, from7>>
    \/ Using("LoginFlow") /\ Server!LgNext /\ UNCHANGED <<tool, from10>>
    \/ Using("FreeLayout") /\ Fl!FlNext /\ UNCHANGED <<tool, from10>>
    \/ Using("ProductCards") /\ Pc!PcNext /\ UNCHANGED <<tool, from5>>
DeskSpec == DeskInit /\ [][DeskNext]_<<tool, slots>>
-----------------------------------------------------------------------------
\* Every part keeps its variables within their types.
DeskTypeOK ==
    /\ Using("ArticleMedia") => Front!AmTypeOK
    /\ Using("QueenChat") => Qc!QcTypeOK
    /\ Using("FilterBar") => Fb!FbTypeOK
    /\ Using("FilterControls") => Front!FcTypeOK
    /\ Using("AdminMatrix") => Front!MxTypeOK
    /\ Using("Grid") => Front!GrTypeOK
    /\ Using("TableChat") => Tc!TcTypeOK
    /\ Using("RowCreate") => Rc!RcTypeOK
    /\ Using("Navigation") => Front!NvTypeOK
    /\ Using("NavTabs") => Nt!NtTypeOK
    /\ Using("LoginForm") => Server!LfTypeOK
    /\ Using("Permissions") => Server!PmTypeOK
    /\ Using("ApiClient") => Server!ApTypeOK
    /\ Using("LiveUpdates") => Server!LuTypeOK
    /\ Using("Session") => Server!SeTypeOK
    /\ Using("NavTree") => Tr!TrTypeOK
    /\ Using("Disclosure") => Cl!ClTypeOK
    /\ Using("Calendar") => Ca!CaTypeOK
    /\ Using("MapView") => Mv!MvTypeOK
    /\ Using("CloudManagement") => Cm!CmTypeOK
    /\ Using("Languages") => Server!LnTypeOK
    /\ Using("FieldSets") => Panel!FsTypeOK
    /\ Using("SectionOrder") => Panel!SoTypeOK
    /\ Using("Pickers") => Front!PkTypeOK
    /\ Using("Aliases") => Front!AlTypeOK
    /\ Using("TabConfig") => Front!TbTypeOK
    /\ Using("TriggerForm") => Tg!TgTypeOK
    /\ Using("Dialogs") => Di!DiTypeOK
    /\ Using("ColumnManager") => Cg!CgTypeOK
    /\ Using("UserProfile") => Server!UpTypeOK
    /\ Using("AdminLists") => Ad!AdTypeOK
    /\ Using("EventBus") => Server!EbTypeOK
    /\ Using("MetadataCache") => Server!MeTypeOK
    /\ Using("RateLimiter") => Server!RlTypeOK
    /\ Using("LoginFlow") => Server!LgTypeOK
    /\ Using("FreeLayout") => Fl!FlTypeOK
    /\ Using("ProductCards") => Pc!PcTypeOK

\* Once its operations are over, and if none overlapped another or failed, the open article shows the media, related rows and
\* comments that are stored; a change of the primary image, wherever it fails, leaves one (big_card_opener.js).
ArticleAsStored ==
    /\ Using("ArticleMedia") => Front!AmShownIsStored
    /\ Using("ArticleMedia") => Front!AmPrimaryKept

\* What is edited in place is stored for the row, the cell or the table it was edited on, however
\* sorting, loading and saving interleave with it (cell_editor.js, vanilla_checkbox_table.js, child_tab_config_view.js).
EditsHitTheirTarget ==
    /\ Using("Grid") => Front!GrEditsHitTheirRow
    /\ Using("AdminMatrix") => Front!MxSavedWhereShown
    /\ Using("TabConfig") => Front!TbStoredForItsTable

\* A chat follows one conversation at a time and loses nothing that was said in it
\* (queen_chat_view.js, table_chat_printer.js).
ChatsKeepTheirThread ==
    /\ Using("QueenChat") => Qc!QcOneConversation
    /\ Using("TableChat") => Tc!TcNothingSaidIsLost

\* The filter panel settles where it was asked to be, and its controls, the active tags and the lists
\* agree on what is filtered (filter_bar_builder.js, filter_column_builder.js, the drop-down lists).
FiltersAgree ==
    /\ Using("FilterBar") => Fb!FbSettledIsWanted
    /\ Using("FilterControls") => Front!FcStoresAgree
    /\ Using("Pickers") => Front!PkListsAsChosen

\* At rest the page shown is the one the address names, and an alias leads back to its dataset
\* (navigation_handler.js, dataset_aliases.js).
UrlsLeadBack ==
    /\ Using("Navigation") => Front!NvAtRestUrlIsShown
    /\ Using("Aliases") => Front!AlRoutesLeadBack

\* What a form, a list or the cloud view carries out is what was chosen on it: the child rows, the columns, the
\* rows to delete, the claimed action and the columns of a view under their new names; every question of a
\* dialog is answered once and waits where it can be answered (row_submission_handler.js, notification_triggers.js,
\* cloud_management_scheduler_printer.js, modal_builder.js, column_manager.js).
ChosenIsCarriedOut ==
    /\ Using("RowCreate") => Rc!RcChildrenAreOfTheForm
    /\ Using("TriggerForm") => Tg!TgColumnsOfTheirTables
    /\ Using("CloudManagement") => Cm!CmRunsWhatWasClaimed
    /\ Using("Dialogs") => Di!DiQuestionsAndFocusHold
    /\ Using("AdminLists") => Ad!AdDoneAsChosen
    /\ Using("ColumnManager") => Cg!CgChoicesFollow

\* At rest, the orders, sets, trees and free layouts a user arranges, and the lists of an administrator, are
\* drawn as they are stored, every row on its card, on its days and at its place, and a folded section as it was asked
\* (main_tab_printer.js, filterbar_section_order_handler.js, column_view_preset_builder.js, admin_tree_builder.js,
\* foreign_keys_view.js and its like, experimental_free_layout_card_view.js, calendar_view_helpers.js, the map and
\* product card views, collapsible_height_controller.js).
DrawnAsStored ==
    /\ Using("NavTabs") => Nt!NtMenuAsStored
    /\ Using("SectionOrder") => Panel!SoLayoutAsStored
    /\ Using("FieldSets") => Panel!FsSetsAsStored
    /\ Using("NavTree") => Tr!TrTreeAsStored
    /\ Using("AdminLists") => Ad!AdListsAsStored
    /\ Using("FreeLayout") => Fl!FlCardsAsStored
    /\ Using("ProductCards") => Pc!PcCardTellsTheRow
    /\ Using("Calendar") => Ca!CaEventsOnTheirDays
    /\ Using("MapView") => Mv!MvEveryRowPlaced
    /\ Using("Disclosure") => Cl!ClShownAsAsked

\* The sign-in form, the rights, the token, the page and the profile are those of one session and its
\* account (login_page_builder.js, route_permission_checker.js, endpoint_router.js, auth_broadcast.js,
\* user_profile_printer.js).
SessionIsOne ==
    /\ Using("LoginForm") => Server!LfFormShowsItsPhase
    /\ Using("Permissions") => Server!PmRightsAreOfTheSession
    /\ Using("ApiClient") => Server!ApTokenRecovered
    /\ Using("Session") => Server!SeShellIsOfTheSession
    /\ Using("UserProfile") => Server!UpPageIsOfTheAccount

\* What a page shows is what it was told or asked for: the rows that changed, wherever they were read again at the
\* server, and the language (sse_subscriber.js, dataset_search_executor.js, translation_handler.js).
ShownIsTrue ==
    /\ Using("LiveUpdates") => Server!LuToldIsShown
    /\ Using("Languages") => Server!LnShownAsChosen

\* What the server keeps between requests, in memory and in the session, holds: the last event of a table is lost on its
\* way to a stream only if that carries other tables too, cached metadata is not older than was promised,
\* no window admits more than its limit, and a session is of who proved it with a code that served once
\* (event_bus.go, sse_handler.go, get_results_cache.go, rate_limiting.go, login_credential_handler.go,
\* password_reset_handler.go).
ServerKeepsItsWord ==
    /\ Using("EventBus") => Server!EbTellsTheLast
    /\ Using("MetadataCache") => Server!MeServedIsRecent
    /\ Using("RateLimiter") => Server!RlLimitsHold
    /\ Using("LoginFlow") => Server!LgSignsInWhoProvedIt
-----------------------------------------------------------------------------
(* What is proved from the parts: a behaviour that uses a part is one of the part. *)

ServerSizes == Server!EbSizes /\ Server!MeSizes /\ Server!RlSizes /\ Server!LgSizes

\* A behaviour that uses EventBus is one of it.
LEMMA EbUsed == Using("EventBus") /\ DeskSpec => Server!EbSpec
<1>1. Using("EventBus") /\ DeskInit => Server!EbInit
  BY DEF Using, DeskInit
<1>2. Using("EventBus") /\ [DeskNext]_<<tool, slots>> => Using("EventBus")' /\ [Server!EbNext]_(Server!ebVars)
  <2>1. CASE UNCHANGED <<tool, slots>>
    BY <2>1 DEF slots, Server!ebVars, Using
  <2>2. CASE DeskNext
    BY <2>2 DEF DeskNext, Using
  <2> QED BY <2>1, <2>2
<1> QED BY <1>1, <1>2, PTL DEF DeskSpec, Server!EbSpec

\* A behaviour that uses MetadataCache is one of it.
LEMMA MeUsed == Using("MetadataCache") /\ DeskSpec => Server!MeSpec
<1>1. Using("MetadataCache") /\ DeskInit => Server!MeInit
  BY DEF Using, DeskInit
<1>2. Using("MetadataCache") /\ [DeskNext]_<<tool, slots>> => Using("MetadataCache")' /\ [Server!MeNext]_(Server!meVars)
  <2>1. CASE UNCHANGED <<tool, slots>>
    BY <2>1 DEF slots, Server!meVars, Using
  <2>2. CASE DeskNext
    BY <2>2 DEF DeskNext, Using
  <2> QED BY <2>1, <2>2
<1> QED BY <1>1, <1>2, PTL DEF DeskSpec, Server!MeSpec

\* A behaviour that uses RateLimiter is one of it.
LEMMA RlUsed == Using("RateLimiter") /\ DeskSpec => Server!RlSpec
<1>1. Using("RateLimiter") /\ DeskInit => Server!RlInit
  BY DEF Using, DeskInit
<1>2. Using("RateLimiter") /\ [DeskNext]_<<tool, slots>> => Using("RateLimiter")' /\ [Server!RlNext]_(Server!rlVars)
  <2>1. CASE UNCHANGED <<tool, slots>>
    BY <2>1 DEF slots, Server!rlVars, Using
  <2>2. CASE DeskNext
    BY <2>2 DEF DeskNext, Using
  <2> QED BY <2>1, <2>2
<1> QED BY <1>1, <1>2, PTL DEF DeskSpec, Server!RlSpec

\* A behaviour that uses LoginFlow is one of it.
LEMMA LgUsed == Using("LoginFlow") /\ DeskSpec => Server!LgSpec
<1>1. Using("LoginFlow") /\ DeskInit => Server!LgInit
  BY DEF Using, DeskInit
<1>2. Using("LoginFlow") /\ [DeskNext]_<<tool, slots>> => Using("LoginFlow")' /\ [Server!LgNext]_(Server!lgVars)
  <2>1. CASE UNCHANGED <<tool, slots>>
    BY <2>1 DEF slots, Server!lgVars, Using
  <2>2. CASE DeskNext
    BY <2>2 DEF DeskNext, Using
  <2> QED BY <2>1, <2>2
<1> QED BY <1>1, <1>2, PTL DEF DeskSpec, Server!LgSpec

\* For any sizes of the parts that leave room for an event, a request and a try: until one of its
\* events is written an event of each table is on its way to a stream, unless others share the stream and crowd it out,
\* cached metadata is recent, no window admits more than its limit, and who is signed in proved it (event_bus.go,
\* get_results_cache.go, rate_limiting.go, login_credential_handler.go).
THEOREM ServerKeptWord == ServerSizes => (DeskSpec => []ServerKeepsItsWord)
<1> SUFFICES ASSUME ServerSizes PROVE DeskSpec => []ServerKeepsItsWord
  OBVIOUS
<1>1. DeskSpec => [](Using("EventBus") => Server!EbTellsTheLast)
  <2>1. Server!EbSpec => []Server!EbTellsTheLast
    BY Server!EbTold, PTL DEF ServerSizes
  <2>2. ~Using("EventBus") /\ [DeskNext]_<<tool, slots>> => ~Using("EventBus")'
    BY DEF DeskNext, Using
  <2> QED BY <2>1, <2>2, EbUsed, PTL DEF DeskSpec
<1>2. DeskSpec => [](Using("MetadataCache") => Server!MeServedIsRecent)
  <2>1. Server!MeSpec => []Server!MeServedIsRecent
    BY Server!MeServed, PTL DEF ServerSizes
  <2>2. ~Using("MetadataCache") /\ [DeskNext]_<<tool, slots>> => ~Using("MetadataCache")'
    BY DEF DeskNext, Using
  <2> QED BY <2>1, <2>2, MeUsed, PTL DEF DeskSpec
<1>3. DeskSpec => [](Using("RateLimiter") => Server!RlLimitsHold)
  <2>1. Server!RlSpec => []Server!RlLimitsHold
    BY Server!RlLimits, PTL DEF ServerSizes
  <2>2. ~Using("RateLimiter") /\ [DeskNext]_<<tool, slots>> => ~Using("RateLimiter")'
    BY DEF DeskNext, Using
  <2> QED BY <2>1, <2>2, RlUsed, PTL DEF DeskSpec
<1>4. DeskSpec => [](Using("LoginFlow") => Server!LgSignsInWhoProvedIt)
  <2>1. Server!LgSpec => []Server!LgSignsInWhoProvedIt
    BY Server!LgProvenSignIn, PTL DEF ServerSizes
  <2>2. ~Using("LoginFlow") /\ [DeskNext]_<<tool, slots>> => ~Using("LoginFlow")'
    BY DEF DeskNext, Using
  <2> QED BY <2>1, <2>2, LgUsed, PTL DEF DeskSpec
<1> QED BY <1>1, <1>2, <1>3, <1>4, PTL DEF ServerKeepsItsWord

UrlSizes == Front!NvSizes /\ Front!AlSizes

\* A behaviour that uses Navigation is one of it.
LEMMA NvUsed == Using("Navigation") /\ DeskSpec => Front!NvSpec
<1>1. Using("Navigation") /\ DeskInit => Front!NvInit
  BY DEF Using, DeskInit
<1>2. Using("Navigation") /\ [DeskNext]_<<tool, slots>> => Using("Navigation")' /\ [Front!NvNext]_(Front!nvVars)
  <2>1. CASE UNCHANGED <<tool, slots>>
    BY <2>1 DEF slots, Front!nvVars, Using
  <2>2. CASE DeskNext
    BY <2>2 DEF DeskNext, Using
  <2> QED BY <2>1, <2>2
<1> QED BY <1>1, <1>2, PTL DEF DeskSpec, Front!NvSpec

\* A behaviour that uses Aliases is one of it.
LEMMA AlUsed == Using("Aliases") /\ DeskSpec => Front!AlSpec
<1>1. Using("Aliases") /\ DeskInit => Front!AlInit
  BY DEF Using, DeskInit
<1>2. Using("Aliases") /\ [DeskNext]_<<tool, slots>> => Using("Aliases")' /\ [Front!AlNext]_(Front!alVars)
  <2>1. CASE UNCHANGED <<tool, slots>>
    BY <2>1 DEF slots, Front!alVars, Using
  <2>2. CASE DeskNext
    BY <2>2 DEF DeskNext, Using
  <2> QED BY <2>1, <2>2
<1> QED BY <1>1, <1>2, PTL DEF DeskSpec, Front!AlSpec

\* For any number of moves, entries, saves and inputs: at rest the page shown is the one its address names, and a
\* route leads back to its dataset (navigation_handler.js, dataset_aliases.js, dataset_routes.go).
THEOREM UrlsLedBack == UrlSizes => (DeskSpec => []UrlsLeadBack)
<1> SUFFICES ASSUME UrlSizes PROVE DeskSpec => []UrlsLeadBack
  OBVIOUS
<1>1. DeskSpec => [](Using("Navigation") => Front!NvAtRestUrlIsShown)
  <2>1. Front!NvSpec => []Front!NvAtRestUrlIsShown
    BY Front!NvUrlIsShown, PTL DEF UrlSizes
  <2>2. ~Using("Navigation") /\ [DeskNext]_<<tool, slots>> => ~Using("Navigation")'
    BY DEF DeskNext, Using
  <2> QED BY <2>1, <2>2, NvUsed, PTL DEF DeskSpec
<1>2. DeskSpec => [](Using("Aliases") => Front!AlRoutesLeadBack)
  <2>1. Front!AlSpec => []Front!AlRoutesLeadBack
    BY Front!AlLeadsBack, PTL DEF UrlSizes
  <2>2. ~Using("Aliases") /\ [DeskNext]_<<tool, slots>> => ~Using("Aliases")'
    BY DEF DeskNext, Using
  <2> QED BY <2>1, <2>2, AlUsed, PTL DEF DeskSpec
<1> QED BY <1>1, <1>2, PTL DEF UrlsLeadBack

ArticleSizes == Front!AmSizes

\* A behaviour that uses ArticleMedia is one of it.
LEMMA AmUsed == Using("ArticleMedia") /\ DeskSpec => Front!AmSpec
<1>1. Using("ArticleMedia") /\ DeskInit => Front!AmInit
  BY DEF Using, DeskInit
<1>2. Using("ArticleMedia") /\ [DeskNext]_<<tool, slots>> => Using("ArticleMedia")' /\ [Front!AmNext]_(Front!amVars)
  <2>1. CASE UNCHANGED <<tool, slots>>
    BY <2>1 DEF slots, Front!amVars, Using
  <2>2. CASE DeskNext
    BY <2>2 DEF DeskNext, Using
  <2> QED BY <2>1, <2>2
<1> QED BY <1>1, <1>2, PTL DEF DeskSpec, Front!AmSpec

\* For any number of operations, requests and files of an upload: the open article shows what is stored once nothing is
\* under way, unless its operations overlapped, and keeps a primary image (big_card_opener.js, row_article_load_session.js).
THEOREM ArticleStaysAsStored == ArticleSizes => (DeskSpec => []ArticleAsStored)
<1> SUFFICES ASSUME ArticleSizes PROVE DeskSpec => []ArticleAsStored
  OBVIOUS
<1>1. DeskSpec => [](Using("ArticleMedia") => (Front!AmShownIsStored /\ Front!AmPrimaryKept))
  <2>1. Front!AmSpec => [](Front!AmShownIsStored /\ Front!AmPrimaryKept)
    BY Front!AmStoredIsShown, PTL DEF ArticleSizes
  <2>2. ~Using("ArticleMedia") /\ [DeskNext]_<<tool, slots>> => ~Using("ArticleMedia")'
    BY DEF DeskNext, Using
  <2> QED BY <2>1, <2>2, AmUsed, PTL DEF DeskSpec
<1> QED BY <1>1, PTL DEF ArticleAsStored

\* A behaviour that uses AdminMatrix is one of it.
LEMMA MxUsed == Using("AdminMatrix") /\ DeskSpec => Front!MxSpec
<1>1. Using("AdminMatrix") /\ DeskInit => Front!MxInit
  BY DEF Using, DeskInit
<1>2. Using("AdminMatrix") /\ [DeskNext]_<<tool, slots>> => Using("AdminMatrix")' /\ [Front!MxNext]_(Front!mxVars)
  <2>1. CASE UNCHANGED <<tool, slots>>
    BY <2>1 DEF slots, Front!mxVars, Using
  <2>2. CASE DeskNext
    BY <2>2 DEF DeskNext, Using
  <2> QED BY <2>1, <2>2
<1> QED BY <1>1, <1>2, PTL DEF DeskSpec, Front!MxSpec

\* A behaviour that uses Grid is one of it.
LEMMA GrUsed == Using("Grid") /\ DeskSpec => Front!GrSpec
<1>1. Using("Grid") /\ DeskInit => Front!GrInit
  BY DEF Using, DeskInit
<1>2. Using("Grid") /\ [DeskNext]_<<tool, slots>> => Using("Grid")' /\ [Front!GrNext]_(Front!grVars)
  <2>1. CASE UNCHANGED <<tool, slots>>
    BY <2>1 DEF slots, Front!grVars, Using
  <2>2. CASE DeskNext
    BY <2>2 DEF DeskNext, Using
  <2> QED BY <2>1, <2>2
<1> QED BY <1>1, <1>2, PTL DEF DeskSpec, Front!GrSpec

\* A behaviour that uses TabConfig is one of it.
LEMMA TbUsed == Using("TabConfig") /\ DeskSpec => Front!TbSpec
<1>1. Using("TabConfig") /\ DeskInit => Front!TbInit
  BY DEF Using, DeskInit
<1>2. Using("TabConfig") /\ [DeskNext]_<<tool, slots>> => Using("TabConfig")' /\ [Front!TbNext]_(Front!tbVars)
  <2>1. CASE UNCHANGED <<tool, slots>>
    BY <2>1 DEF slots, Front!tbVars, Using
  <2>2. CASE DeskNext
    BY <2>2 DEF DeskNext, Using
  <2> QED BY <2>1, <2>2
<1> QED BY <1>1, <1>2, PTL DEF DeskSpec, Front!TbSpec

\* For any number of edits, requests and renders: what is edited in place is stored for the row, the cell or the table it
\* was edited on (cell_editor.js, vanilla_checkbox_table.js, child_tab_config_view.js).
THEOREM EditsHit == DeskSpec => []EditsHitTheirTarget
<1>1. DeskSpec => [](Using("AdminMatrix") => Front!MxSavedWhereShown)
  <2>1. Front!MxSpec => []Front!MxSavedWhereShown
    BY Front!MxSavesWhereShown, PTL
  <2>2. ~Using("AdminMatrix") /\ [DeskNext]_<<tool, slots>> => ~Using("AdminMatrix")'
    BY DEF DeskNext, Using
  <2> QED BY <2>1, <2>2, MxUsed, PTL DEF DeskSpec
<1>2. DeskSpec => [](Using("Grid") => Front!GrEditsHitTheirRow)
  <2>1. Front!GrSpec => []Front!GrEditsHitTheirRow
    BY Front!GrEditsHit, PTL
  <2>2. ~Using("Grid") /\ [DeskNext]_<<tool, slots>> => ~Using("Grid")'
    BY DEF DeskNext, Using
  <2> QED BY <2>1, <2>2, GrUsed, PTL DEF DeskSpec
<1>3. DeskSpec => [](Using("TabConfig") => Front!TbStoredForItsTable)
  <2>1. Front!TbSpec => []Front!TbStoredForItsTable
    BY Front!TbOwnTabsStored, PTL
  <2>2. ~Using("TabConfig") /\ [DeskNext]_<<tool, slots>> => ~Using("TabConfig")'
    BY DEF DeskNext, Using
  <2> QED BY <2>1, <2>2, TbUsed, PTL DEF DeskSpec
<1> QED BY <1>1, <1>2, <1>3, PTL DEF EditsHitTheirTarget

\* A behaviour that uses FilterBar is one of it.
LEMMA FbUsed == Using("FilterBar") /\ DeskSpec => Fb!FbSpec
<1>1. Using("FilterBar") /\ DeskInit => Fb!FbInit
  BY DEF Using, DeskInit
<1>2. Using("FilterBar") /\ [DeskNext]_<<tool, slots>> => Using("FilterBar")' /\ [Fb!FbNext]_(Fb!fbVars)
  <2>1. CASE UNCHANGED <<tool, slots>>
    BY <2>1 DEF slots, Fb!fbVars, Using
  <2>2. CASE DeskNext
    BY <2>2 DEF DeskNext, Using
  <2> QED BY <2>1, <2>2
<1> QED BY <1>1, <1>2, PTL DEF DeskSpec, Fb!FbSpec

\* A behaviour that uses FilterControls is one of it.
LEMMA FcUsed == Using("FilterControls") /\ DeskSpec => Front!FcSpec
<1>1. Using("FilterControls") /\ DeskInit => Front!FcInit
  BY DEF Using, DeskInit
<1>2. Using("FilterControls") /\ [DeskNext]_<<tool, slots>> => Using("FilterControls")' /\ [Front!FcNext]_(Front!fcVars)
  <2>1. CASE UNCHANGED <<tool, slots>>
    BY <2>1 DEF slots, Front!fcVars, Using
  <2>2. CASE DeskNext
    BY <2>2 DEF DeskNext, Using
  <2> QED BY <2>1, <2>2
<1> QED BY <1>1, <1>2, PTL DEF DeskSpec, Front!FcSpec

\* A behaviour that uses Pickers is one of it.
LEMMA PkUsed == Using("Pickers") /\ DeskSpec => Front!PkSpec
<1>1. Using("Pickers") /\ DeskInit => Front!PkInit
  BY DEF Using, DeskInit
<1>2. Using("Pickers") /\ [DeskNext]_<<tool, slots>> => Using("Pickers")' /\ [Front!PkNext]_(Front!pkVars)
  <2>1. CASE UNCHANGED <<tool, slots>>
    BY <2>1 DEF slots, Front!pkVars, Using
  <2>2. CASE DeskNext
    BY <2>2 DEF DeskNext, Using
  <2> QED BY <2>1, <2>2
<1> QED BY <1>1, <1>2, PTL DEF DeskSpec, Front!PkSpec

\* For any number of inputs, commits and searches: the filter panel, its controls and their lists show what is filtered
\* once nothing is pending (filter_bar_builder.js, filter_column_builder.js, tri_state_multi_select_dropdown.js).
THEOREM FiltersAgreed == DeskSpec => []FiltersAgree
<1>1. DeskSpec => [](Using("FilterBar") => Fb!FbSettledIsWanted)
  <2>1. Fb!FbSpec => []Fb!FbSettledIsWanted
    BY Fb!FbShowsWhatIsWanted, PTL
  <2>2. ~Using("FilterBar") /\ [DeskNext]_<<tool, slots>> => ~Using("FilterBar")'
    BY DEF DeskNext, Using
  <2> QED BY <2>1, <2>2, FbUsed, PTL DEF DeskSpec
<1>2. DeskSpec => [](Using("FilterControls") => Front!FcStoresAgree)
  <2>1. Front!FcSpec => []Front!FcStoresAgree
    BY Front!FcFiltersAgree, PTL
  <2>2. ~Using("FilterControls") /\ [DeskNext]_<<tool, slots>> => ~Using("FilterControls")'
    BY DEF DeskNext, Using
  <2> QED BY <2>1, <2>2, FcUsed, PTL DEF DeskSpec
<1>3. DeskSpec => [](Using("Pickers") => Front!PkListsAsChosen)
  <2>1. Front!PkSpec => []Front!PkListsAsChosen
    BY Front!PkShowsTheChoice, PTL
  <2>2. ~Using("Pickers") /\ [DeskNext]_<<tool, slots>> => ~Using("Pickers")'
    BY DEF DeskNext, Using
  <2> QED BY <2>1, <2>2, PkUsed, PTL DEF DeskSpec
<1> QED BY <1>1, <1>2, <1>3, PTL DEF FiltersAgree

SessionSizes == Server!PmSizes /\ Server!SeSizes

\* A behaviour that uses LoginForm is one of it.
LEMMA LfUsed == Using("LoginForm") /\ DeskSpec => Server!LfSpec
<1>1. Using("LoginForm") /\ DeskInit => Server!LfInit
  BY DEF Using, DeskInit
<1>2. Using("LoginForm") /\ [DeskNext]_<<tool, slots>> => Using("LoginForm")' /\ [Server!LfNext]_(Server!lfVars)
  <2>1. CASE UNCHANGED <<tool, slots>>
    BY <2>1 DEF slots, Server!lfVars, Using
  <2>2. CASE DeskNext
    BY <2>2 DEF DeskNext, Using
  <2> QED BY <2>1, <2>2
<1> QED BY <1>1, <1>2, PTL DEF DeskSpec, Server!LfSpec

\* A behaviour that uses Permissions is one of it.
LEMMA PmUsed == Using("Permissions") /\ DeskSpec => Server!PmSpec
<1>1. Using("Permissions") /\ DeskInit => Server!PmInit
  BY DEF Using, DeskInit
<1>2. Using("Permissions") /\ [DeskNext]_<<tool, slots>> => Using("Permissions")' /\ [Server!PmNext]_(Server!pmVars)
  <2>1. CASE UNCHANGED <<tool, slots>>
    BY <2>1 DEF slots, Server!pmVars, Using
  <2>2. CASE DeskNext
    BY <2>2 DEF DeskNext, Using
  <2> QED BY <2>1, <2>2
<1> QED BY <1>1, <1>2, PTL DEF DeskSpec, Server!PmSpec

\* A behaviour that uses ApiClient is one of it.
LEMMA ApUsed == Using("ApiClient") /\ DeskSpec => Server!ApSpec
<1>1. Using("ApiClient") /\ DeskInit => Server!ApInit
  BY DEF Using, DeskInit
<1>2. Using("ApiClient") /\ [DeskNext]_<<tool, slots>> => Using("ApiClient")' /\ [Server!ApNext]_(Server!apVars)
  <2>1. CASE UNCHANGED <<tool, slots>>
    BY <2>1 DEF slots, Server!apVars, Using
  <2>2. CASE DeskNext
    BY <2>2 DEF DeskNext, Using
  <2> QED BY <2>1, <2>2
<1> QED BY <1>1, <1>2, PTL DEF DeskSpec, Server!ApSpec

\* A behaviour that uses Session is one of it.
LEMMA SeUsed == Using("Session") /\ DeskSpec => Server!SeSpec
<1>1. Using("Session") /\ DeskInit => Server!SeInit
  BY DEF Using, DeskInit
<1>2. Using("Session") /\ [DeskNext]_<<tool, slots>> => Using("Session")' /\ [Server!SeNext]_(Server!seVars)
  <2>1. CASE UNCHANGED <<tool, slots>>
    BY <2>1 DEF slots, Server!seVars, Using
  <2>2. CASE DeskNext
    BY <2>2 DEF DeskNext, Using
  <2> QED BY <2>1, <2>2
<1> QED BY <1>1, <1>2, PTL DEF DeskSpec, Server!SeSpec

\* A behaviour that uses UserProfile is one of it.
LEMMA UpUsed == Using("UserProfile") /\ DeskSpec => Server!UpSpec
<1>1. Using("UserProfile") /\ DeskInit => Server!UpInit
  BY DEF Using, DeskInit
<1>2. Using("UserProfile") /\ [DeskNext]_<<tool, slots>> => Using("UserProfile")' /\ [Server!UpNext]_(Server!upVars)
  <2>1. CASE UNCHANGED <<tool, slots>>
    BY <2>1 DEF slots, Server!upVars, Using
  <2>2. CASE DeskNext
    BY <2>2 DEF DeskNext, Using
  <2> QED BY <2>1, <2>2
<1> QED BY <1>1, <1>2, PTL DEF DeskSpec, Server!UpSpec

\* For any number of sessions, calls, inputs and openings: the sign-in form, the rights, the token, the tabs and the user's
\* page are of one session and its account (login_page_builder.js, route_permission_checker.js, endpoint_router.js,
\* auth_broadcast.js, user_profile_printer.js).
THEOREM SessionsAreOne == SessionSizes => (DeskSpec => []SessionIsOne)
<1> SUFFICES ASSUME SessionSizes PROVE DeskSpec => []SessionIsOne
  OBVIOUS
<1>1. DeskSpec => [](Using("LoginForm") => Server!LfFormShowsItsPhase)
  <2>1. Server!LfSpec => []Server!LfFormShowsItsPhase
    BY Server!LfShowsItsPhase, PTL DEF SessionSizes
  <2>2. ~Using("LoginForm") /\ [DeskNext]_<<tool, slots>> => ~Using("LoginForm")'
    BY DEF DeskNext, Using
  <2> QED BY <2>1, <2>2, LfUsed, PTL DEF DeskSpec
<1>2. DeskSpec => [](Using("Permissions") => Server!PmRightsAreOfTheSession)
  <2>1. Server!PmSpec => []Server!PmRightsAreOfTheSession
    BY Server!PmRightsAreTheSessions, PTL DEF SessionSizes
  <2>2. ~Using("Permissions") /\ [DeskNext]_<<tool, slots>> => ~Using("Permissions")'
    BY DEF DeskNext, Using
  <2> QED BY <2>1, <2>2, PmUsed, PTL DEF DeskSpec
<1>3. DeskSpec => [](Using("ApiClient") => Server!ApTokenRecovered)
  <2>1. Server!ApSpec => []Server!ApTokenRecovered
    BY Server!ApRecoversToken, PTL DEF SessionSizes
  <2>2. ~Using("ApiClient") /\ [DeskNext]_<<tool, slots>> => ~Using("ApiClient")'
    BY DEF DeskNext, Using
  <2> QED BY <2>1, <2>2, ApUsed, PTL DEF DeskSpec
<1>4. DeskSpec => [](Using("Session") => Server!SeShellIsOfTheSession)
  <2>1. Server!SeSpec => []Server!SeShellIsOfTheSession
    BY Server!SeTabsShowTheSession, PTL DEF SessionSizes
  <2>2. ~Using("Session") /\ [DeskNext]_<<tool, slots>> => ~Using("Session")'
    BY DEF DeskNext, Using
  <2> QED BY <2>1, <2>2, SeUsed, PTL DEF DeskSpec
<1>5. DeskSpec => [](Using("UserProfile") => Server!UpPageIsOfTheAccount)
  <2>1. Server!UpSpec => []Server!UpPageIsOfTheAccount
    BY Server!UpShowsTheAccount, PTL DEF SessionSizes
  <2>2. ~Using("UserProfile") /\ [DeskNext]_<<tool, slots>> => ~Using("UserProfile")'
    BY DEF DeskNext, Using
  <2> QED BY <2>1, <2>2, UpUsed, PTL DEF DeskSpec
<1> QED BY <1>1, <1>2, <1>3, <1>4, <1>5, PTL DEF SessionIsOne

\* A behaviour that uses LiveUpdates is one of it.
LEMMA LuUsed == Using("LiveUpdates") /\ DeskSpec => Server!LuSpec
<1>1. Using("LiveUpdates") /\ DeskInit => Server!LuInit
  BY DEF Using, DeskInit
<1>2. Using("LiveUpdates") /\ [DeskNext]_<<tool, slots>> => Using("LiveUpdates")' /\ [Server!LuNext]_(Server!luVars)
  <2>1. CASE UNCHANGED <<tool, slots>>
    BY <2>1 DEF slots, Server!luVars, Using
  <2>2. CASE DeskNext
    BY <2>2 DEF DeskNext, Using
  <2> QED BY <2>1, <2>2
<1> QED BY <1>1, <1>2, PTL DEF DeskSpec, Server!LuSpec

\* A behaviour that uses Languages is one of it.
LEMMA LnUsed == Using("Languages") /\ DeskSpec => Server!LnSpec
<1>1. Using("Languages") /\ DeskInit => Server!LnInit
  BY DEF Using, DeskInit
<1>2. Using("Languages") /\ [DeskNext]_<<tool, slots>> => Using("Languages")' /\ [Server!LnNext]_(Server!lnVars)
  <2>1. CASE UNCHANGED <<tool, slots>>
    BY <2>1 DEF slots, Server!lnVars, Using
  <2>2. CASE DeskNext
    BY <2>2 DEF DeskNext, Using
  <2> QED BY <2>1, <2>2
<1> QED BY <1>1, <1>2, PTL DEF DeskSpec, Server!LnSpec

\* For any number of events, reads and languages chosen: every change told is attended to, and shown where the rows were
\* read again at the server; the language is the one chosen (sse_subscriber.js, translation_handler.js).
THEOREM ShownAsTold == DeskSpec => []ShownIsTrue
<1>1. DeskSpec => [](Using("LiveUpdates") => Server!LuToldIsShown)
  <2>1. Server!LuSpec => []Server!LuToldIsShown
    BY Server!LuTellsWhatIsShown, PTL
  <2>2. ~Using("LiveUpdates") /\ [DeskNext]_<<tool, slots>> => ~Using("LiveUpdates")'
    BY DEF DeskNext, Using
  <2> QED BY <2>1, <2>2, LuUsed, PTL DEF DeskSpec
<1>2. DeskSpec => [](Using("Languages") => Server!LnShownAsChosen)
  <2>1. Server!LnSpec => []Server!LnShownAsChosen
    BY Server!LnShowsTheChosen, PTL
  <2>2. ~Using("Languages") /\ [DeskNext]_<<tool, slots>> => ~Using("Languages")'
    BY DEF DeskNext, Using
  <2> QED BY <2>1, <2>2, LnUsed, PTL DEF DeskSpec
<1> QED BY <1>1, <1>2, PTL DEF ShownIsTrue
=============================================================================
