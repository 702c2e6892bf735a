------------------------------- MODULE FilterBar -------------------------------
(***************************************************************************)
(* The filter panel of one dataset: the panel itself (shown or hidden, a    *)
(* compact column or a wide hero), its body, its chat dock, and the top bar *)
(* that stands in for it.  What they show follows from the window, the      *)
(* navigation bar, the open article and the user's clicks, by way of timers *)
(* and animation frames that may still be pending when the next event       *)
(* comes.                                                                  *)
(***************************************************************************)
EXTENDS Naturals, TLAPS

VARIABLES
    fbWindow,   \* width, navigation bar, container, scroll position
    fbPanel     \* the panel and everything create_filter_bar closes over
fbVars == <<fbWindow, fbPanel>>

FbWidths  == {"narrow", "wide"}                  \* below the breakpoint, or not
FbScrolls == {"top", "middle", "deep"}           \* within 8 px, between, beyond 48 px
FbStored  == {"none", "shown", "hidden"}         \* stored or configured visibility

isNarrowScreen(w) == w.width = "narrow"

resolveInitialVisibility(stored, default, wide) ==
    IF stored # "none" THEN stored = "shown"
    ELSE IF default # "none" THEN default = "shown" ELSE wide

buildInitialResponsivePanelState(stored, default, narrow) ==
    LET collapse == narrow /\ stored = "none" /\ default # "hidden"
    IN  [shown  |-> ~collapse /\ resolveInitialVisibility(stored, default, ~narrow),
         manual |-> stored = "hidden" \/ (stored = "none" /\ default = "hidden"),
         auto   |-> collapse]

resolveResponsivePanelVisibilityState(v, narrow) ==
    CASE ~narrow -> [shown |-> ~v.manual, auto |-> FALSE]
      [] narrow /\ v.manual -> [shown |-> FALSE, auto |-> FALSE]
      [] narrow /\ ~v.manual /\ ~v.wasNarrow /\ ~v.hidden -> [shown |-> FALSE, auto |-> TRUE]
      [] narrow /\ ~v.manual /\ (v.wasNarrow \/ v.hidden) -> [shown |-> ~v.auto, auto |-> v.auto]
-----------------------------------------------------------------------------
(* The top bar, the overlay and the chat dock *)

shouldShowSharedTopBar(v, w) == w.host /\ (~w.navbar \/ v.hidden \/ v.bigCard)

\* Showing waits for a frame, hiding for a timer; each cancels the other.
setSharedTopBarVisibility(v, show) ==
    IF show
    THEN [v EXCEPT !.bar.hidden = FALSE, !.bar.live = TRUE, !.barFrame = TRUE, !.barTimer = FALSE]
    ELSE IF v.bar.hidden
    THEN [v EXCEPT !.bar.live = FALSE, !.bar.shown = FALSE]
    ELSE [v EXCEPT !.bar.live = FALSE, !.bar.shown = FALSE, !.barFrame = FALSE, !.barTimer = TRUE]

\* syncSharedTopBar: the menu button is docked in the bar while the navigation bar is away.
syncSharedTopBar(v, w) ==
    LET show == shouldShowSharedTopBar(v, w)
    IN  [setSharedTopBarVisibility(v, show) EXCEPT !.docked = show /\ ~w.navbar]

updateOverlayState(v, w) == [v EXCEPT !.overlay = isNarrowScreen(w) /\ ~v.hidden]

\* What the end of an animation does; only closing leaves something to do.
FbChatClosed(v, dir) ==
    IF dir = "closing" THEN [v EXCEPT !.chat.flag = FALSE, !.chat.class = FALSE] ELSE v

\* animateChatLayout: a new token; the timers of the animation before stay pending.
animateChatLayout(v, maximized) ==
    [v EXCEPT !.chat.stale = IF v.chat.moving = "no" THEN @ ELSE @ \cup {v.chat.moving},
              !.chat.moving = IF maximized THEN "opening" ELSE "closing",
              !.chat.flag  = @ \/ maximized,
              !.chat.class = @ \/ maximized]

setChatMaximized(v, maximized) ==
    IF ~v.chat.dock THEN v
    ELSE [animateChatLayout(v, maximized) EXCEPT
            !.scrolled = @ /\ ~maximized, !.chat.asked = maximized]
-----------------------------------------------------------------------------
(* The modes of the panel *)

setWideMode(v) ==
    [setChatMaximized(v, FALSE) EXCEPT
       !.compact = FALSE, !.scrolled = FALSE, !.body = FALSE, !.reserved = FALSE]

\* syncCompactPanelGeometry: the content keeps a column free for a visible panel.
syncCompactPanelGeometry(v, w) == [v EXCEPT !.reserved = ~isNarrowScreen(w) /\ ~v.hidden]

\* The body stays visible while the panel slides out, until the timer hides it.
keepCompactBodyVisibleDuringPanelExit(v) == [v EXCEPT !.body = TRUE, !.bodyTimer = TRUE]

setCompactMode(v, w) ==
    LET c == syncCompactPanelGeometry([v EXCEPT !.compact = TRUE], w)
        b == IF ~c.hidden THEN [c EXCEPT !.body = TRUE, !.bodyTimer = FALSE]
             ELSE IF c.bodyTimer \/ c.body THEN keepCompactBodyVisibleDuringPanelExit(c)
             ELSE c
    IN  syncSharedTopBar(updateOverlayState(b, w), w)

showPanel(v, w) ==
    LET s == [v EXCEPT !.bodyTimer = FALSE, !.hidden = FALSE, !.toggle = FALSE]
        m == IF s.bigCard \/ s.inline \/ s.compact THEN setCompactMode(s, w) ELSE setWideMode(s)
    IN  syncSharedTopBar(updateOverlayState(m, w), w)

hidePanel(v, w) ==
    LET h == [setChatMaximized(v, FALSE) EXCEPT !.hidden = TRUE, !.scrolled = FALSE]
        k == IF h.compact THEN keepCompactBodyVisibleDuringPanelExit(h) ELSE h
    IN  syncSharedTopBar(updateOverlayState([k EXCEPT !.toggle = TRUE, !.reserved = FALSE], w), w)

FbShow(v, w, show) == IF show THEN showPanel(v, w) ELSE hidePanel(v, w)

applyResponsivePanelVisibility(v, w) ==
    LET r == resolveResponsivePanelVisibilityState(v, isNarrowScreen(w))
    IN  [FbShow([v EXCEPT !.auto = r.auto], w, r.shown) EXCEPT !.wasNarrow = isNarrowScreen(w)]

\* syncModeToScroll: wide near the top, compact further down, with hysteresis.
syncModeToScroll(v, w) ==
    IF v.hidden \/ ~v.attached THEN v
    ELSE IF v.inline THEN setCompactMode(v, w)
    ELSE IF v.compact THEN IF w.scroll = "top" THEN setWideMode(v) ELSE v
    ELSE IF w.scroll = "deep" THEN setCompactMode(v, w) ELSE setWideMode(v)

\* attachToActiveView: the scroll listener moves to the list that is displayed now.
attachToActiveView(v, w, changed) ==
    IF v.inline THEN syncSharedTopBar(setCompactMode([v EXCEPT !.attached = TRUE], w), w)
    ELSE IF changed \/ ~v.attached
         THEN syncSharedTopBar(syncModeToScroll([v EXCEPT !.attached = TRUE], w), w)
    ELSE v
-----------------------------------------------------------------------------
(* create_filter_bar: the panel as it is built, attached and shown *)

FbBuilt(stored, default, inline, dock, w) ==
    LET first == buildInitialResponsivePanelState(stored, default, isNarrowScreen(w))
        built == [alive |-> TRUE, hidden |-> ~first.shown, compact |-> inline, inline |-> inline,
                  body |-> FALSE, manual |-> first.manual, auto |-> first.auto,
                  bigCard |-> FALSE, wasNarrow |-> isNarrowScreen(w),
                  bar |-> [hidden |-> TRUE, shown |-> FALSE, live |-> FALSE],
                  barFrame |-> FALSE, barTimer |-> FALSE, bodyTimer |-> FALSE,
                  chat |-> [dock |-> dock, flag |-> FALSE, class |-> FALSE, moving |-> "no",
                            stale |-> {}, asked |-> FALSE],
                  scrolled |-> FALSE, reserved |-> FALSE, overlay |-> FALSE, docked |-> FALSE,
                  toggle |-> FALSE, attached |-> FALSE, resizeTimer |-> FALSE,
                  modeFrame |-> FALSE, viewFrame |-> FALSE]
    IN  syncSharedTopBar(FbShow(attachToActiveView(built, w, TRUE), w, first.shown), w)

FbInit ==
    \E stored, default \in FbStored, inline, dock, navbar \in BOOLEAN, width \in FbWidths :
       /\ fbWindow = [width |-> width, navbar |-> navbar, host |-> TRUE, scroll |-> "top"]
       /\ fbPanel = FbBuilt(stored, default, inline, dock, fbWindow)

FbHandle(v) == /\ fbPanel.alive
               /\ fbPanel' = v
               /\ UNCHANGED fbWindow

\* The panel is asked for again while it stands: only the top bar is brought up to date.
FbReuse == FbHandle(syncSharedTopBar(fbPanel, fbWindow))
-----------------------------------------------------------------------------
(* Clicks *)

\* A choice of the user.  It is also stored, for the panel of a later visit: FbInit takes
\* any stored value.
FbChoose(show) == FbShow([fbPanel EXCEPT !.manual = ~show, !.auto = FALSE], fbWindow, show)

FbToggleClick == FbHandle(FbChoose(fbPanel.hidden))

FbHideClick == /\ ~fbPanel.hidden
               /\ FbHandle(FbChoose(FALSE))

FbClickOutside == /\ isNarrowScreen(fbWindow)
                  /\ ~fbPanel.hidden
                  /\ FbHandle(FbChoose(FALSE))

FbChatToggle == /\ ~fbPanel.hidden
                /\ \E maximized \in BOOLEAN : FbHandle(setChatMaximized(fbPanel, maximized))

FbBigCardToggle ==
    \E open \in BOOLEAN :
       FbHandle(FbShow([fbPanel EXCEPT !.bigCard = open], fbWindow,
                       ~(fbPanel.manual \/ fbPanel.auto)))
-----------------------------------------------------------------------------
(* The window around the panel *)

\* The width changes; the handlers of the panel and of the overlay wait for a pause.
FbResize ==
    \E width \in FbWidths \ {fbWindow.width} :
       /\ fbPanel.alive
       /\ fbWindow' = [fbWindow EXCEPT !.width = width]
       /\ fbPanel' = [fbPanel EXCEPT !.resizeTimer = TRUE]

FbResizeTimer ==
    /\ fbPanel.resizeTimer
    /\ FbHandle([syncModeToScroll(applyResponsivePanelVisibility(fbPanel, fbWindow), fbWindow)
                   EXCEPT !.resizeTimer = FALSE])

\* The navigation bar shows or hides, or the container of the dataset does.
FbSurroundings ==
    \E navbar, host \in BOOLEAN :
       /\ fbPanel.alive
       /\ fbWindow' = [fbWindow EXCEPT !.navbar = navbar, !.host = host]
       /\ fbWindow' # fbWindow
       /\ fbPanel' = syncSharedTopBar(fbPanel, fbWindow')

\* Only the other mode listens: the inline hero scrolls with the rows.
FbScroll ==
    \E scroll \in FbScrolls \ {fbWindow.scroll} :
       /\ fbPanel.alive /\ fbPanel.attached /\ ~fbPanel.inline
       /\ fbWindow' = [fbWindow EXCEPT !.scroll = scroll]
       /\ fbPanel' = [fbPanel EXCEPT !.modeFrame = TRUE]

\* scheduleModeSync
FbModeFrame ==
    /\ fbPanel.modeFrame
    /\ FbHandle(syncModeToScroll([fbPanel EXCEPT !.modeFrame = FALSE], fbWindow))

\* Something in the tables container changed: the view is looked up in the next frame.
FbViewChanges == FbHandle([fbPanel EXCEPT !.viewFrame = TRUE])

FbViewFrame ==
    /\ fbPanel.viewFrame
    /\ \E changed \in BOOLEAN :
          FbHandle(attachToActiveView([fbPanel EXCEPT !.viewFrame = FALSE], fbWindow, changed))

\* syncPanelBodyScrolledState, with 24 px and room to enter, 6 px and less room to stay.
syncPanelBodyScrolledState(v, position, room) ==
    [v EXCEPT !.scrolled = /\ v.compact /\ ~v.hidden
                           /\ room >= (IF v.scrolled THEN 1 ELSE 2)
                           /\ position >= (IF v.scrolled THEN 1 ELSE 2)]

FbBodyScrolls ==
    \E room \in 0..2 : \E position \in 0..room : FbHandle(syncPanelBodyScrolledState(fbPanel, position, room))
-----------------------------------------------------------------------------
(* Frames and timers *)

FbBarFrame == /\ fbPanel.barFrame
              /\ FbHandle([fbPanel EXCEPT !.barFrame = FALSE, !.bar.shown = TRUE])

FbBarTimer == /\ fbPanel.barTimer
              /\ FbHandle([fbPanel EXCEPT !.barTimer = FALSE,
                                          !.bar.hidden = ~fbPanel.bar.shown])

\* scheduleCompactBodyHideAfterPanelExit
FbBodyTimer == /\ fbPanel.bodyTimer
               /\ FbHandle([fbPanel EXCEPT !.bodyTimer = FALSE,
                              !.body = @ /\ ~(fbPanel.hidden /\ fbPanel.compact)])

\* The animation that holds the token ends.
FbChatEnds ==
    /\ fbPanel.chat.moving # "no"
    /\ \E room \in 0..2 : \E position \in 0..room :
          LET done == [FbChatClosed(fbPanel, fbPanel.chat.moving) EXCEPT !.chat.moving = "no"]
          IN  FbHandle(IF fbPanel.chat.moving = "closing"
                       THEN syncPanelBodyScrolledState(done, position, room) ELSE done)

\* Mutant: the timer does not look at its token.
FbStaleChatFinishes ==
    \E dir \in fbPanel.chat.stale :
       FbHandle([FbChatClosed(fbPanel, dir) EXCEPT !.chat.stale = @ \ {dir}])

\* The timer of an animation that was replaced finds another token, or none.
FbStaleChatEnds ==
    \E dir \in fbPanel.chat.stale : FbHandle([fbPanel EXCEPT !.chat.stale = @ \ {dir}])

destroyFilterBar ==
    FbHandle([fbPanel EXCEPT !.alive = FALSE, !.barFrame = FALSE, !.barTimer = FALSE,
                !.bodyTimer = FALSE, !.modeFrame = FALSE, !.viewFrame = FALSE,
                !.resizeTimer = FALSE, !.docked = FALSE, !.reserved = FALSE])

FbNext == \/ FbReuse \/ FbToggleClick \/ FbHideClick \/ FbClickOutside \/ FbChatToggle
          \/ FbBigCardToggle \/ FbResize \/ FbResizeTimer \/ FbSurroundings \/ FbScroll
          \/ FbModeFrame \/ FbViewChanges \/ FbViewFrame \/ FbBodyScrolls \/ FbBarFrame
          \/ FbBarTimer \/ FbBodyTimer \/ FbChatEnds \/ FbStaleChatEnds \/ destroyFilterBar
-----------------------------------------------------------------------------
(* Properties *)

FbTypeOK ==
    /\ fbWindow \in [width : FbWidths, navbar : BOOLEAN, host : BOOLEAN, scroll : FbScrolls]
    /\ fbPanel.chat \in [dock : BOOLEAN, flag : BOOLEAN, class : BOOLEAN, asked : BOOLEAN,
                         moving : {"no", "opening", "closing"},
                         stale : SUBSET {"opening", "closing"}]
    /\ fbPanel.bar \in [hidden : BOOLEAN, shown : BOOLEAN, live : BOOLEAN]
    /\ \A f \in DOMAIN fbPanel \ {"chat", "bar"} : fbPanel[f] \in BOOLEAN

\* The top bar can be used exactly when it is wanted, and is displayed accordingly once
\* its frame or timer ran; the menu button is in it exactly while the bar replaces the
\* navigation bar.
FbBarSettles ==
    /\ fbPanel.bar.live = shouldShowSharedTopBar(fbPanel, fbWindow)
    /\ ~fbPanel.barFrame /\ ~fbPanel.barTimer =>
          fbPanel.bar.shown = fbPanel.bar.live /\ fbPanel.bar.hidden = ~fbPanel.bar.live
    /\ fbPanel.docked = (fbPanel.bar.live /\ ~fbWindow.navbar)

\* The panel is hidden exactly when the user hid it or a narrow screen collapsed it, its
\* body is displayed exactly in a visible compact panel once the exit timer ran, and room
\* is kept for it, or the overlay drawn under it, as the width asks.
FbPanelSettles ==
    /\ fbPanel.hidden = (fbPanel.manual \/ fbPanel.auto)
    /\ fbPanel.toggle = fbPanel.hidden
    /\ ~fbPanel.bodyTimer => fbPanel.body = (fbPanel.compact /\ ~fbPanel.hidden)
    /\ ~fbPanel.resizeTimer =>
          /\ fbPanel.overlay = (isNarrowScreen(fbWindow) /\ ~fbPanel.hidden)
          /\ fbPanel.reserved = (fbPanel.compact /\ ~fbPanel.hidden /\ ~isNarrowScreen(fbWindow))

\* The chat is maximized, for the dock and for the panel alike, exactly when that was asked
\* last, once its animation ended; and never in a hidden panel.
FbChatSettles ==
    fbPanel.chat.moving = "no" =>
       /\ fbPanel.chat.flag = fbPanel.chat.asked /\ fbPanel.chat.class = fbPanel.chat.asked
       /\ fbPanel.hidden => ~fbPanel.chat.flag

\* Whatever is still pending, the panel, its top bar and its chat come to show what the
\* window, the article and the last click ask for.
FbSettledIsWanted == fbPanel.alive => FbBarSettles /\ FbPanelSettles /\ FbChatSettles
-----------------------------------------------------------------------------
(* What is pending comes to show what was asked for, for any number of inputs. *)

FbWindows == [width : FbWidths, navbar : BOOLEAN, host : BOOLEAN, scroll : FbScrolls]
FbBars == [hidden : BOOLEAN, shown : BOOLEAN, live : BOOLEAN]
FbChats == [dock : BOOLEAN, flag : BOOLEAN, class : BOOLEAN, moving : {"no", "opening", "closing"},
            stale : SUBSET {"opening", "closing"}, asked : BOOLEAN]
FbPanels == [alive : BOOLEAN, hidden : BOOLEAN, compact : BOOLEAN, inline : BOOLEAN, body : BOOLEAN, manual : BOOLEAN,
             auto : BOOLEAN, bigCard : BOOLEAN, wasNarrow : BOOLEAN, bar : FbBars, barFrame : BOOLEAN, barTimer : BOOLEAN,
             bodyTimer : BOOLEAN, chat : FbChats, scrolled : BOOLEAN, reserved : BOOLEAN, overlay : BOOLEAN, docked : BOOLEAN,
             toggle : BOOLEAN, attached : BOOLEAN, resizeTimer : BOOLEAN, modeFrame : BOOLEAN, viewFrame : BOOLEAN]

\* The frame or the timer that is pending leads the top bar to where its last change wants it.
FbBarLeads(v) ==
  /\ v.barFrame => v.bar.live
  /\ v.barTimer => ~v.bar.live /\ ~v.bar.hidden
  /\ v.bar.live => ~v.bar.hidden /\ (v.barFrame \/ v.bar.shown)
  /\ ~v.bar.live => ~v.bar.shown /\ (v.barTimer \/ v.bar.hidden)
FbBarAsked(v, w) == v.bar.live = shouldShowSharedTopBar(v, w) /\ v.docked = (v.bar.live /\ ~w.navbar)

\* The animation that holds the token leads the chat to what was asked last.
FbChatLeads(c) ==
  /\ c.moving = "no" => c.flag = c.asked /\ c.class = c.asked
  /\ c.moving = "opening" => c.asked /\ c.flag /\ c.class
  /\ c.moving = "closing" => ~c.asked
  /\ ~c.dock => c.moving = "no" /\ ~c.asked

\* A body that slid out with its panel has its timer.
FbBodyLeads(v) ==
  /\ v.compact /\ ~v.hidden => v.body
  /\ ~v.compact => ~v.body
  /\ v.body /\ v.hidden => v.bodyTimer

FbPlaced(v, w) == /\ v.overlay = (isNarrowScreen(w) /\ ~v.hidden)
                  /\ v.reserved = (v.compact /\ ~v.hidden /\ ~isNarrowScreen(w))

\* What holds between the steps of a handler as well, and what holds between handlers.
FbLoose(v) == v \in FbPanels /\ FbBarLeads(v) /\ FbChatLeads(v.chat) /\ (~v.compact => ~v.body)
FbFits(v, w) ==
  /\ FbLoose(v) /\ FbBarAsked(v, w) /\ FbBodyLeads(v)
  /\ v.hidden = (v.manual \/ v.auto) /\ v.toggle = v.hidden
  /\ v.hidden => ~v.chat.asked

FbInv ==
  /\ fbWindow \in FbWindows
  /\ fbPanel.alive => FbFits(fbPanel, fbWindow) /\ (~fbPanel.resizeTimer => FbPlaced(fbPanel, fbWindow))

\* Showing waits for a frame and hiding for a timer; nothing but the bar changes.
LEMMA FbBarSet ==
  ASSUME NEW v \in FbPanels, FbBarLeads(v), NEW show \in BOOLEAN
  PROVE  LET r == setSharedTopBarVisibility(v, show)
         IN  /\ r \in FbPanels /\ FbBarLeads(r) /\ r.bar.live = show
             /\ r = [v EXCEPT !.bar = r.bar, !.barFrame = r.barFrame, !.barTimer = r.barTimer]
<1> DEFINE r == setSharedTopBarVisibility(v, show)
<1>1. v.bar \in FbBars /\ v.barFrame \in BOOLEAN /\ v.barTimer \in BOOLEAN BY DEF FbPanels
<1>2. ASSUME NEW b \in FbBars, NEW f \in BOOLEAN, NEW t \in BOOLEAN, r = [v EXCEPT !.bar = b, !.barFrame = f, !.barTimer = t]
      PROVE  /\ r \in FbPanels /\ r.bar = b /\ r.barFrame = f /\ r.barTimer = t
             /\ r = [v EXCEPT !.bar = r.bar, !.barFrame = r.barFrame, !.barTimer = r.barTimer]
 <2> HIDE DEF r
 <2>1. r \in FbPanels /\ r.bar = b /\ r.barFrame = f /\ r.barTimer = t BY <1>2 DEF FbPanels
 <2> QED BY <1>2, <2>1
<1>3. CASE show
 <2> DEFINE b == [v.bar EXCEPT !.hidden = FALSE, !.live = TRUE]
 <2>1. b \in FbBars /\ b.live /\ ~b.hidden BY <1>1 DEF FbBars
 <2>2. r = [v EXCEPT !.bar = b, !.barFrame = TRUE, !.barTimer = FALSE]
   BY <1>3 DEF setSharedTopBarVisibility, FbPanels
 <2> HIDE DEF b, r
 <2>3. /\ r \in FbPanels /\ r.bar = b /\ r.barFrame = TRUE /\ r.barTimer = FALSE
       /\ r = [v EXCEPT !.bar = r.bar, !.barFrame = r.barFrame, !.barTimer = r.barTimer] BY <1>2, <2>1, <2>2
 <2>4. FbBarLeads(r) /\ r.bar.live = show BY <1>3, <2>1, <2>3 DEF FbBarLeads
 <2> QED BY <2>3, <2>4 DEF r
<1>4. CASE ~show /\ v.bar.hidden
 <2> DEFINE b == [v.bar EXCEPT !.live = FALSE, !.shown = FALSE]
 <2>1. b \in FbBars /\ ~b.live /\ b.hidden /\ ~b.shown BY <1>1, <1>4 DEF FbBars
 <2>2. r = [v EXCEPT !.bar = b, !.barFrame = v.barFrame, !.barTimer = v.barTimer]
   BY <1>4 DEF setSharedTopBarVisibility, FbPanels
 <2> HIDE DEF b, r
 <2>3. /\ r \in FbPanels /\ r.bar = b /\ r.barFrame = v.barFrame /\ r.barTimer = v.barTimer
       /\ r = [v EXCEPT !.bar = r.bar, !.barFrame = r.barFrame, !.barTimer = r.barTimer]
   BY <1>1, <1>2, <2>1, <2>2
 <2>4. ~v.barFrame /\ ~v.barTimer BY <1>4 DEF FbBarLeads
 <2>5. FbBarLeads(r) /\ r.bar.live = show BY <1>4, <2>1, <2>3, <2>4 DEF FbBarLeads, FbBars
 <2> QED BY <2>3, <2>5 DEF r
<1>5. CASE ~show /\ ~v.bar.hidden
 <2> DEFINE b == [v.bar EXCEPT !.live = FALSE, !.shown = FALSE]
 <2>1. b \in FbBars /\ ~b.live /\ ~b.hidden /\ ~b.shown BY <1>1, <1>5 DEF FbBars
 <2>2. r = [v EXCEPT !.bar = b, !.barFrame = FALSE, !.barTimer = TRUE]
   BY <1>5 DEF setSharedTopBarVisibility, FbPanels
 <2> HIDE DEF b, r
 <2>3. /\ r \in FbPanels /\ r.bar = b /\ r.barFrame = FALSE /\ r.barTimer = TRUE
       /\ r = [v EXCEPT !.bar = r.bar, !.barFrame = r.barFrame, !.barTimer = r.barTimer] BY <1>2, <2>1, <2>2
 <2>4. FbBarLeads(r) /\ r.bar.live = show BY <1>5, <2>1, <2>3 DEF FbBarLeads, FbBars
 <2> QED BY <2>3, <2>4 DEF r
<1> QED BY <1>1, <1>3, <1>4, <1>5 DEF FbBars

\* Only what belongs to the top bar differs.
FbBarOnly(v, r) == /\ r \in FbPanels
                   /\ r = [v EXCEPT !.bar = r.bar, !.barFrame = r.barFrame, !.barTimer = r.barTimer, !.docked = r.docked]

LEMMA FbBarSynced ==
  ASSUME NEW v \in FbPanels, FbBarLeads(v), NEW w \in FbWindows
  PROVE  /\ FbBarOnly(v, syncSharedTopBar(v, w)) /\ FbBarLeads(syncSharedTopBar(v, w))
         /\ FbBarAsked(syncSharedTopBar(v, w), w)
<1> DEFINE show == shouldShowSharedTopBar(v, w)
           s == setSharedTopBarVisibility(v, show)
           docked == show /\ ~w.navbar
           r == syncSharedTopBar(v, w)
<1>1. show \in BOOLEAN /\ docked \in BOOLEAN BY DEF shouldShowSharedTopBar, FbPanels, FbWindows
<1>2. r = [s EXCEPT !.docked = docked] BY DEF syncSharedTopBar
<1>3. /\ s \in FbPanels /\ FbBarLeads(s) /\ s.bar.live = show
      /\ s = [v EXCEPT !.bar = s.bar, !.barFrame = s.barFrame, !.barTimer = s.barTimer] BY <1>1, FbBarSet
<1> HIDE DEF s, docked, r
<1>4. /\ r \in FbPanels /\ r.bar = s.bar /\ r.barFrame = s.barFrame /\ r.barTimer = s.barTimer /\ r.docked = docked
      /\ r.hidden = v.hidden /\ r.bigCard = v.bigCard BY <1>1, <1>2, <1>3 DEF FbPanels
<1>5. r = [v EXCEPT !.bar = r.bar, !.barFrame = r.barFrame, !.barTimer = r.barTimer, !.docked = r.docked]
  BY <1>2, <1>3, <1>4 DEF FbPanels
<1>6. FbBarLeads(r) BY <1>3, <1>4 DEF FbBarLeads
<1>7. FbBarAsked(r, w)
 <2>1. shouldShowSharedTopBar(r, w) = show BY <1>4 DEF shouldShowSharedTopBar
 <2> HIDE DEF show
 <2> QED BY <1>3, <1>4, <2>1 DEF FbBarAsked, docked
<1> QED BY <1>4, <1>5, <1>6, <1>7 DEF FbBarOnly, r

\* What an animation of the chat that starts leaves to the animation.
LEMMA FbChatSet ==
  ASSUME NEW v \in FbPanels, FbChatLeads(v.chat), NEW maximized \in BOOLEAN
  PROVE  LET r == setChatMaximized(v, maximized)
         IN  /\ r \in FbPanels /\ FbChatLeads(r.chat) /\ r.chat.asked = (maximized /\ v.chat.dock)
             /\ r = [v EXCEPT !.chat = r.chat, !.scrolled = r.scrolled]
<1> DEFINE r == setChatMaximized(v, maximized)
           c == v.chat
           stale == IF c.moving = "no" THEN c.stale ELSE c.stale \cup {c.moving}
           d == [c EXCEPT !.stale = stale, !.moving = IF maximized THEN "opening" ELSE "closing",
                          !.flag = c.flag \/ maximized, !.class = c.class \/ maximized, !.asked = maximized]
           scrolled == v.scrolled /\ ~maximized
<1>1. c \in FbChats /\ v.scrolled \in BOOLEAN BY DEF FbPanels
<1>2. CASE ~c.dock
 <2>1. r = v /\ ~c.asked /\ v = [v EXCEPT !.chat = v.chat, !.scrolled = v.scrolled]
   BY <1>2 DEF setChatMaximized, FbChatLeads, FbPanels
 <2> QED BY <1>1, <1>2, <2>1 DEF FbChats
<1>3. CASE c.dock
 <2>1. stale \in SUBSET {"opening", "closing"} BY <1>1 DEF FbChats
 <2>2. r = [v EXCEPT !.chat = d, !.scrolled = scrolled]
  <3> DEFINE moving == IF maximized THEN "opening" ELSE "closing"
             flag == c.flag \/ maximized
             class == c.class \/ maximized
             e == [c EXCEPT !.stale = stale, !.moving = moving, !.flag = flag, !.class = class]
             a == animateChatLayout(v, maximized)
  <3>1. a = [v EXCEPT !.chat.stale = stale, !.chat.moving = moving, !.chat.flag = flag, !.chat.class = class]
    BY DEF animateChatLayout
  <3>2. r = [a EXCEPT !.scrolled = a.scrolled /\ ~maximized, !.chat.asked = maximized]
    BY <1>3 DEF setChatMaximized
  <3>3. d = [c EXCEPT !.stale = stale, !.moving = moving, !.flag = flag, !.class = class, !.asked = maximized]
    OBVIOUS
  <3> HIDE DEF a, stale, moving, flag, class
  <3>4. a = [v EXCEPT !.chat = e] BY <1>1, <3>1 DEF FbPanels
  <3>5. d = [e EXCEPT !.asked = maximized] BY <1>1, <3>3 DEF FbChats
  <3> HIDE DEF e, d
  <3>6. a.scrolled = v.scrolled /\ a.chat = e BY <3>4 DEF FbPanels
  <3> QED BY <3>2, <3>4, <3>5, <3>6 DEF FbPanels
 <2> HIDE DEF stale
 <2>3. d \in FbChats /\ d.asked = maximized /\ d.moving = (IF maximized THEN "opening" ELSE "closing") /\ d.dock = c.dock
       /\ (maximized => d.flag /\ d.class) BY <1>1, <2>1 DEF FbChats
 <2> HIDE DEF d
 <2>4. scrolled \in BOOLEAN BY <1>1
 <2> HIDE DEF scrolled, r
 <2>5. r \in FbPanels /\ r.chat = d /\ r.scrolled = scrolled BY <2>2, <2>3, <2>4 DEF FbPanels
 <2>6. FbChatLeads(d) BY <1>3, <2>3 DEF FbChatLeads
 <2> QED BY <1>3, <2>2, <2>3, <2>5, <2>6 DEF r
<1> QED BY <1>1, <1>2, <1>3 DEF FbChats

\* What a mode, and what is pending, does not decide.
FbKeeps(v, r) ==
  /\ r.alive = v.alive /\ r.hidden = v.hidden /\ r.toggle = v.toggle /\ r.inline = v.inline /\ r.manual = v.manual
  /\ r.auto = v.auto /\ r.bigCard = v.bigCard /\ r.wasNarrow = v.wasNarrow /\ r.attached = v.attached
  /\ r.resizeTimer = v.resizeTimer /\ r.modeFrame = v.modeFrame /\ r.viewFrame = v.viewFrame

\* syncSharedTopBar, of a panel between two steps: all but the top bar stays.
LEMMA FbSynced ==
  ASSUME NEW v, FbLoose(v), NEW w \in FbWindows
  PROVE  LET r == syncSharedTopBar(v, w)
         IN  /\ FbLoose(r) /\ FbBarAsked(r, w) /\ FbKeeps(v, r) /\ r.chat = v.chat /\ r.compact = v.compact
             /\ r.body = v.body /\ r.bodyTimer = v.bodyTimer /\ r.overlay = v.overlay /\ r.reserved = v.reserved
<1> DEFINE r == syncSharedTopBar(v, w)
<1>1. v \in FbPanels /\ FbBarLeads(v) /\ FbChatLeads(v.chat) /\ (~v.compact => ~v.body) BY DEF FbLoose
<1>2. FbBarOnly(v, r) /\ FbBarLeads(r) /\ FbBarAsked(r, w) BY <1>1, FbBarSynced
<1> HIDE DEF r
<1>3. /\ r \in FbPanels /\ FbKeeps(v, r) /\ r.chat = v.chat /\ r.compact = v.compact
      /\ r.body = v.body /\ r.bodyTimer = v.bodyTimer /\ r.overlay = v.overlay /\ r.reserved = v.reserved
  BY <1>1, <1>2 DEF FbBarOnly, FbPanels, FbKeeps
<1>4. FbLoose(r) BY <1>1, <1>2, <1>3 DEF FbLoose
<1> QED BY <1>2, <1>3, <1>4 DEF r

LEMMA FbWide ==
  ASSUME NEW v, FbLoose(v)
  PROVE  LET r == setWideMode(v)
         IN  /\ FbLoose(r) /\ FbKeeps(v, r) /\ ~r.compact /\ ~r.body /\ ~r.reserved /\ ~r.chat.asked
             /\ r.overlay = v.overlay /\ r.bar = v.bar /\ r.docked = v.docked
<1> DEFINE s == setChatMaximized(v, FALSE)
           r == setWideMode(v)
<1>1. v \in FbPanels /\ FbBarLeads(v) /\ FbChatLeads(v.chat) BY DEF FbLoose
<1>2. s \in FbPanels /\ FbChatLeads(s.chat) /\ s.chat.asked = FALSE /\ s = [v EXCEPT !.chat = s.chat, !.scrolled = s.scrolled]
  BY <1>1, FbChatSet
<1>3. r = [s EXCEPT !.compact = FALSE, !.scrolled = FALSE, !.body = FALSE, !.reserved = FALSE]
  BY DEF setWideMode
<1> HIDE DEF r, s
<1>4. /\ s.bar = v.bar /\ s.barFrame = v.barFrame /\ s.barTimer = v.barTimer /\ s.overlay = v.overlay /\ s.docked = v.docked
      /\ FbKeeps(v, s) BY <1>1, <1>2 DEF FbPanels, FbKeeps
<1>5. /\ r \in FbPanels /\ ~r.compact /\ ~r.body /\ ~r.reserved /\ r.chat = s.chat /\ r.overlay = s.overlay /\ r.docked = s.docked
      /\ r.bar = s.bar /\ r.barFrame = s.barFrame /\ r.barTimer = s.barTimer /\ FbKeeps(s, r)
  BY <1>2, <1>3 DEF FbPanels, FbKeeps
<1>6. FbBarLeads(r) /\ FbKeeps(v, r) BY <1>1, <1>4, <1>5 DEF FbBarLeads, FbKeeps
<1>7. FbLoose(r) BY <1>2, <1>5, <1>6 DEF FbLoose
<1> QED BY <1>2, <1>4, <1>5, <1>6, <1>7 DEF r

\* A visible compact panel has its body and its place at once; the body of a hidden one goes when its timer fires.
LEMMA FbCompact ==
  ASSUME NEW v, FbLoose(v), NEW w \in FbWindows
  PROVE  LET r == setCompactMode(v, w)
         IN  /\ FbLoose(r) /\ FbKeeps(v, r) /\ r.compact /\ r.chat = v.chat
             /\ FbBodyLeads(r) /\ FbPlaced(r, w) /\ FbBarAsked(r, w)
<1> DEFINE narrow == isNarrowScreen(w)
           wide == ~narrow /\ ~v.hidden
           c == syncCompactPanelGeometry([v EXCEPT !.compact = TRUE], w)
           b == IF ~c.hidden THEN [c EXCEPT !.body = TRUE, !.bodyTimer = FALSE]
                ELSE IF c.bodyTimer \/ c.body THEN keepCompactBodyVisibleDuringPanelExit(c)
                ELSE c
           o == updateOverlayState(b, w)
           r == setCompactMode(v, w)
<1>1. v \in FbPanels /\ FbBarLeads(v) /\ FbChatLeads(v.chat) /\ narrow \in BOOLEAN /\ v.hidden \in BOOLEAN
  BY DEF FbLoose, FbPanels, isNarrowScreen
<1>2. c = [v EXCEPT !.compact = TRUE, !.reserved = wide] BY <1>1 DEF syncCompactPanelGeometry, FbPanels
<1>3. r = syncSharedTopBar(o, w) BY DEF setCompactMode
<1> HIDE DEF c, narrow
<1>4. /\ c \in FbPanels /\ c.compact /\ c.reserved = wide /\ c.chat = v.chat /\ FbKeeps(v, c)
      /\ c.bar = v.bar /\ c.barFrame = v.barFrame /\ c.barTimer = v.barTimer /\ c.hidden = v.hidden
  BY <1>1, <1>2 DEF FbPanels, FbKeeps
<1>5. /\ b \in FbPanels /\ b.compact /\ b.reserved = wide /\ b.chat = v.chat /\ FbKeeps(c, b)
      /\ b.bar = v.bar /\ b.barFrame = v.barFrame /\ b.barTimer = v.barTimer /\ b.hidden = v.hidden
      /\ ~b.hidden => b.body
      /\ b.body /\ b.hidden => b.bodyTimer
 <2>1. \/ b = c /\ c.hidden /\ ~c.body
       \/ b = [c EXCEPT !.body = TRUE, !.bodyTimer = FALSE] /\ ~c.hidden
       \/ b = [c EXCEPT !.body = TRUE, !.bodyTimer = TRUE] /\ c.hidden
   BY DEF keepCompactBodyVisibleDuringPanelExit
 <2> HIDE DEF b
 <2>2. CASE b = c /\ c.hidden /\ ~c.body BY <1>4, <2>2 DEF FbKeeps
 <2>3. CASE b = [c EXCEPT !.body = TRUE, !.bodyTimer = FALSE] /\ ~c.hidden
   BY <1>4, <2>3 DEF FbKeeps, FbPanels
 <2>4. CASE b = [c EXCEPT !.body = TRUE, !.bodyTimer = TRUE] /\ c.hidden BY <1>4, <2>4 DEF FbKeeps, FbPanels
 <2> QED BY <2>1, <2>2, <2>3, <2>4
<1>6. o = [b EXCEPT !.overlay = narrow /\ ~b.hidden] BY DEF updateOverlayState, narrow
<1> HIDE DEF b, o, r
<1>7. /\ o \in FbPanels /\ o.compact /\ o.reserved = wide /\ o.overlay = (narrow /\ ~v.hidden) /\ o.chat = v.chat /\ FbKeeps(b, o)
      /\ o.bar = v.bar /\ o.barFrame = v.barFrame /\ o.barTimer = v.barTimer /\ o.hidden = v.hidden
      /\ ~o.hidden => o.body
      /\ o.body /\ o.hidden => o.bodyTimer BY <1>1, <1>5, <1>6 DEF FbPanels, FbKeeps
<1>8. FbLoose(o) /\ FbKeeps(v, o) BY <1>1, <1>4, <1>5, <1>7 DEF FbLoose, FbBarLeads, FbKeeps
<1>9. /\ FbLoose(r) /\ FbBarAsked(r, w) /\ FbKeeps(o, r) /\ r.chat = o.chat /\ r.compact = o.compact
      /\ r.body = o.body /\ r.bodyTimer = o.bodyTimer /\ r.overlay = o.overlay /\ r.reserved = o.reserved
  BY <1>3, <1>8, FbSynced
<1>10. FbKeeps(v, r) /\ r.hidden = v.hidden BY <1>8, <1>9 DEF FbKeeps
<1>11. FbBodyLeads(r) /\ FbPlaced(r, w) BY <1>1, <1>7, <1>9, <1>10 DEF FbBodyLeads, FbPlaced, narrow
<1> QED BY <1>7, <1>9, <1>10, <1>11 DEF r

\* What showing, hiding and the place of the panel do not decide.
FbKeepsRest(v, r) ==
  /\ r.alive = v.alive /\ r.inline = v.inline /\ r.manual = v.manual /\ r.auto = v.auto /\ r.bigCard = v.bigCard
  /\ r.wasNarrow = v.wasNarrow /\ r.attached = v.attached /\ r.resizeTimer = v.resizeTimer
  /\ r.modeFrame = v.modeFrame /\ r.viewFrame = v.viewFrame

\* A panel that is shown or hidden as was decided stands in its place, with its bar, its body and its chat.
FbStands(r, w, show) ==
  /\ FbLoose(r) /\ FbBarAsked(r, w) /\ FbBodyLeads(r) /\ FbPlaced(r, w)
  /\ r.hidden = ~show /\ r.toggle = ~show /\ (r.hidden => ~r.chat.asked)

LEMMA FbShown ==
  ASSUME NEW v, FbLoose(v), NEW w \in FbWindows
  PROVE  FbStands(showPanel(v, w), w, TRUE) /\ FbKeepsRest(v, showPanel(v, w))
<1> DEFINE s == [v EXCEPT !.bodyTimer = FALSE, !.hidden = FALSE, !.toggle = FALSE]
           m == IF s.bigCard \/ s.inline \/ s.compact THEN setCompactMode(s, w) ELSE setWideMode(s)
           o == updateOverlayState(m, w)
           r == showPanel(v, w)
           narrow == isNarrowScreen(w)
<1>1. v \in FbPanels /\ FbBarLeads(v) /\ FbChatLeads(v.chat) /\ (~v.compact => ~v.body) /\ narrow \in BOOLEAN
  BY DEF FbLoose, isNarrowScreen
<1>2. /\ s \in FbPanels /\ ~s.hidden /\ ~s.toggle /\ s.chat = v.chat /\ s.compact = v.compact /\ s.body = v.body
      /\ s.bar = v.bar /\ s.barFrame = v.barFrame /\ s.barTimer = v.barTimer /\ FbKeepsRest(v, s)
  BY <1>1 DEF FbPanels, FbKeepsRest
<1>3. r = syncSharedTopBar(o, w) BY DEF showPanel
<1>4. o = [m EXCEPT !.overlay = narrow /\ ~m.hidden] BY DEF updateOverlayState
<1> HIDE DEF s, r, o, narrow
<1>5. FbLoose(s) BY <1>1, <1>2 DEF FbLoose, FbBarLeads
<1>6. /\ FbLoose(m) /\ FbKeeps(s, m) /\ FbBodyLeads(m) /\ ~m.hidden
      /\ m.reserved = (m.compact /\ ~narrow)
 <2>1. CASE m = setCompactMode(s, w)
  <3>1. FbLoose(m) /\ FbKeeps(s, m) /\ FbBodyLeads(m) /\ FbPlaced(m, w) BY <1>5, <2>1, FbCompact
  <3>2. ~m.hidden BY <1>2, <3>1 DEF FbKeeps
  <3> QED BY <1>2, <3>1, <3>2 DEF FbPlaced, narrow, FbLoose, FbPanels
 <2>2. CASE m = setWideMode(s)
  <3>1. FbLoose(m) /\ FbKeeps(s, m) /\ ~m.compact /\ ~m.body /\ ~m.reserved BY <1>5, <2>2, FbWide
  <3>2. ~m.hidden BY <1>2, <3>1 DEF FbKeeps
  <3> QED BY <3>1, <3>2 DEF FbBodyLeads, FbLoose, FbPanels
 <2> QED BY <2>1, <2>2
<1> HIDE DEF m
<1>7. /\ o \in FbPanels /\ FbKeeps(m, o) /\ o.overlay = narrow /\ o.reserved = m.reserved /\ o.compact = m.compact
      /\ o.body = m.body /\ o.bodyTimer = m.bodyTimer /\ o.chat = m.chat
      /\ o.bar = m.bar /\ o.barFrame = m.barFrame /\ o.barTimer = m.barTimer
  BY <1>1, <1>4, <1>6 DEF FbPanels, FbKeeps, FbLoose
<1>8. FbLoose(o) BY <1>6, <1>7 DEF FbLoose, FbBarLeads
<1>9. /\ FbLoose(r) /\ FbBarAsked(r, w) /\ FbKeeps(o, r) /\ r.chat = o.chat /\ r.compact = o.compact
      /\ r.body = o.body /\ r.bodyTimer = o.bodyTimer /\ r.overlay = o.overlay /\ r.reserved = o.reserved
  BY <1>3, <1>8, FbSynced
<1>10. ~r.hidden /\ ~r.toggle /\ FbKeepsRest(v, r) BY <1>2, <1>6, <1>7, <1>9 DEF FbKeeps, FbKeepsRest
<1>11. FbBodyLeads(r) /\ FbPlaced(r, w) /\ r.hidden \in BOOLEAN /\ r.toggle \in BOOLEAN
  BY <1>1, <1>6, <1>7, <1>9, <1>10 DEF FbBodyLeads, FbPlaced, narrow, FbLoose, FbPanels
<1> QED BY <1>9, <1>10, <1>11 DEF FbStands, r

LEMMA FbHidden ==
  ASSUME NEW v, FbLoose(v), NEW w \in FbWindows
  PROVE  FbStands(hidePanel(v, w), w, FALSE) /\ FbKeepsRest(v, hidePanel(v, w))
<1> DEFINE c == setChatMaximized(v, FALSE)
           h == [c EXCEPT !.hidden = TRUE, !.scrolled = FALSE]
           k == IF h.compact THEN keepCompactBodyVisibleDuringPanelExit(h) ELSE h
           t == [k EXCEPT !.toggle = TRUE, !.reserved = FALSE]
           o == updateOverlayState(t, w)
           r == hidePanel(v, w)
<1>1. v \in FbPanels /\ FbBarLeads(v) /\ FbChatLeads(v.chat) /\ (~v.compact => ~v.body) BY DEF FbLoose
<1>2. c \in FbPanels /\ FbChatLeads(c.chat) /\ c.chat.asked = FALSE /\ c = [v EXCEPT !.chat = c.chat, !.scrolled = c.scrolled]
  BY <1>1, FbChatSet
<1>3. r = syncSharedTopBar(o, w) BY DEF hidePanel
<1>4. o = [t EXCEPT !.overlay = isNarrowScreen(w) /\ ~t.hidden] BY DEF updateOverlayState
<1> HIDE DEF c, r, o
<1>5. /\ c.compact = v.compact /\ c.body = v.body /\ FbKeepsRest(v, c)
      /\ c.bar = v.bar /\ c.barFrame = v.barFrame /\ c.barTimer = v.barTimer
  BY <1>1, <1>2 DEF FbPanels, FbKeepsRest
<1>6. /\ h \in FbPanels /\ h.hidden /\ h.compact = v.compact /\ h.body = v.body /\ FbKeepsRest(c, h) /\ h.chat = c.chat
      /\ h.bar = v.bar /\ h.barFrame = v.barFrame /\ h.barTimer = v.barTimer
  BY <1>2, <1>5 DEF FbPanels, FbKeepsRest
<1> HIDE DEF h
<1>7. /\ k \in FbPanels /\ k.hidden /\ k.compact = v.compact /\ FbKeepsRest(h, k) /\ k.chat = c.chat
      /\ k.bar = v.bar /\ k.barFrame = v.barFrame /\ k.barTimer = v.barTimer
      /\ k.body = k.compact /\ (k.body => k.bodyTimer)
 <2>1. CASE h.compact
  <3>1. k = [h EXCEPT !.body = TRUE, !.bodyTimer = TRUE] BY <2>1 DEF keepCompactBodyVisibleDuringPanelExit
  <3> HIDE DEF k
  <3> QED BY <1>6, <2>1, <3>1 DEF FbPanels, FbKeepsRest
 <2>2. CASE ~h.compact BY <1>1, <1>6, <2>2 DEF FbPanels, FbKeepsRest
 <2> QED BY <2>1, <2>2
<1> HIDE DEF k
<1>8. /\ t \in FbPanels /\ t.hidden /\ t.toggle /\ ~t.reserved /\ t.compact = v.compact /\ FbKeepsRest(k, t) /\ t.chat = c.chat
      /\ t.bar = v.bar /\ t.barFrame = v.barFrame /\ t.barTimer = v.barTimer
      /\ t.body = t.compact /\ (t.body => t.bodyTimer) BY <1>7 DEF FbPanels, FbKeepsRest
<1> HIDE DEF t
<1>9. /\ o \in FbPanels /\ o.hidden /\ o.toggle /\ ~o.reserved /\ ~o.overlay /\ FbKeepsRest(t, o) /\ o.chat = c.chat
      /\ o.bar = v.bar /\ o.barFrame = v.barFrame /\ o.barTimer = v.barTimer
      /\ o.body = o.compact /\ (o.body => o.bodyTimer) BY <1>4, <1>8 DEF FbPanels, FbKeepsRest
<1>10. FbLoose(o) BY <1>1, <1>2, <1>9 DEF FbLoose, FbBarLeads
<1>11. /\ FbLoose(r) /\ FbBarAsked(r, w) /\ FbKeeps(o, r) /\ r.chat = o.chat /\ r.compact = o.compact
       /\ r.body = o.body /\ r.bodyTimer = o.bodyTimer /\ r.overlay = o.overlay /\ r.reserved = o.reserved
  BY <1>3, <1>10, FbSynced
<1>12. r.hidden /\ r.toggle /\ FbKeepsRest(v, r)
  BY <1>5, <1>6, <1>7, <1>8, <1>9, <1>11 DEF FbKeeps, FbKeepsRest
<1>13. FbBodyLeads(r) /\ FbPlaced(r, w) /\ ~r.chat.asked /\ r.hidden \in BOOLEAN /\ r.toggle \in BOOLEAN
  BY <1>2, <1>9, <1>11, <1>12 DEF FbBodyLeads, FbPlaced, FbLoose, FbPanels
<1> QED BY <1>11, <1>12, <1>13 DEF FbStands, r

LEMMA FbShownOrHidden ==
  ASSUME NEW v, FbLoose(v), NEW w \in FbWindows, NEW show \in BOOLEAN
  PROVE  FbStands(FbShow(v, w, show), w, show) /\ FbKeepsRest(v, FbShow(v, w, show))
BY FbShown, FbHidden DEF FbShow

\* What stands as its user and the width decided is as it is to be.
LEMMA FbStandsFits ==
  ASSUME NEW r, NEW w, NEW show \in BOOLEAN, FbStands(r, w, show), ~show = (r.manual \/ r.auto)
  PROVE  FbFits(r, w) /\ FbPlaced(r, w) BY DEF FbStands, FbFits

\* syncModeToScroll
LEMMA FbModeSynced ==
  ASSUME NEW v, NEW w \in FbWindows, FbFits(v, w)
  PROVE  LET r == syncModeToScroll(v, w)
         IN  FbFits(r, w) /\ (FbPlaced(v, w) => FbPlaced(r, w)) /\ FbKeeps(v, r)
<1> DEFINE r == syncModeToScroll(v, w)
<1>1. FbLoose(v) /\ v.toggle = v.hidden /\ v.hidden = (v.manual \/ v.auto) /\ FbBarAsked(v, w) /\ (v.hidden => ~v.chat.asked)
  BY DEF FbFits
<1>2. CASE r = v BY <1>2 DEF FbKeeps
<1>3. CASE r = setCompactMode(v, w)
 <2> HIDE DEF r
 <2>1. FbLoose(r) /\ FbKeeps(v, r) /\ r.chat = v.chat /\ FbBodyLeads(r) /\ FbPlaced(r, w) /\ FbBarAsked(r, w)
   BY <1>1, <1>3, FbCompact
 <2> QED BY <1>1, <2>1 DEF FbFits, FbKeeps, r
<1>4. CASE r = setWideMode(v)
 <2>1. CASE v.hidden BY <1>2, <2>1 DEF syncModeToScroll
 <2>2. CASE ~v.hidden
  <3> HIDE DEF r
  <3>1. /\ FbLoose(r) /\ FbKeeps(v, r) /\ ~r.compact /\ ~r.body /\ ~r.reserved /\ ~r.chat.asked
        /\ r.overlay = v.overlay /\ r.bar = v.bar /\ r.docked = v.docked BY <1>1, <1>4, FbWide
  <3>2. r.hidden = v.hidden /\ r.bigCard = v.bigCard /\ r.manual = v.manual /\ r.auto = v.auto /\ r.toggle = v.toggle
    BY <3>1 DEF FbKeeps
  <3>3. FbBarAsked(r, w) BY <1>1, <3>1, <3>2 DEF FbBarAsked, shouldShowSharedTopBar
  <3>4. FbBodyLeads(r) BY <2>2, <3>1, <3>2 DEF FbBodyLeads
  <3>5. FbPlaced(v, w) => FbPlaced(r, w) BY <3>1, <3>2 DEF FbPlaced, FbLoose, FbPanels
  <3>6. FbFits(r, w) BY <1>1, <3>1, <3>2, <3>3, <3>4 DEF FbFits
  <3> QED BY <3>1, <3>5, <3>6 DEF r
 <2> QED BY <2>1, <2>2
<1> QED BY <1>2, <1>3, <1>4 DEF syncModeToScroll

\* A top bar that is brought up to date, for a window that may differ in what only the bar looks at.
LEMMA FbFitsSynced ==
  ASSUME NEW v, NEW w \in FbWindows, FbLoose(v), FbBodyLeads(v), v.hidden = (v.manual \/ v.auto), v.toggle = v.hidden,
         v.hidden => ~v.chat.asked
  PROVE  LET r == syncSharedTopBar(v, w)
         IN  FbFits(r, w) /\ (FbPlaced(v, w) => FbPlaced(r, w)) /\ FbKeeps(v, r)
<1> DEFINE r == syncSharedTopBar(v, w)
<1>1. /\ FbLoose(r) /\ FbBarAsked(r, w) /\ FbKeeps(v, r) /\ r.chat = v.chat /\ r.compact = v.compact
      /\ r.body = v.body /\ r.bodyTimer = v.bodyTimer /\ r.overlay = v.overlay /\ r.reserved = v.reserved
  BY FbSynced
<1> HIDE DEF r
<1>2. r.hidden = v.hidden /\ r.manual = v.manual /\ r.auto = v.auto /\ r.toggle = v.toggle BY <1>1 DEF FbKeeps
<1>3. FbBodyLeads(r) /\ (FbPlaced(v, w) => FbPlaced(r, w)) BY <1>1, <1>2 DEF FbBodyLeads, FbPlaced
<1> QED BY <1>1, <1>2, <1>3 DEF FbFits, r

\* What only the chat, its scrolling, the timers of others and the mode differ in.
LEMMA FbFitsStill ==
  ASSUME NEW v, NEW w, NEW r \in FbPanels, FbFits(v, w),
         r.hidden = v.hidden, r.toggle = v.toggle, r.manual = v.manual, r.auto = v.auto, r.bigCard = v.bigCard,
         r.compact = v.compact, r.body = v.body, r.bodyTimer = v.bodyTimer, r.bar = v.bar, r.barFrame = v.barFrame,
         r.barTimer = v.barTimer, r.docked = v.docked, r.overlay = v.overlay, r.reserved = v.reserved,
         FbChatLeads(r.chat), r.hidden => ~r.chat.asked
  PROVE  FbFits(r, w) /\ (FbPlaced(v, w) => FbPlaced(r, w))
<1>1. FbLoose(v) /\ FbBarAsked(v, w) /\ FbBodyLeads(v) BY DEF FbFits
<1>2. FbLoose(r) BY <1>1 DEF FbLoose, FbBarLeads
<1>3. FbBarAsked(r, w) /\ FbBodyLeads(r) /\ (FbPlaced(v, w) => FbPlaced(r, w))
  BY <1>1 DEF FbBarAsked, FbBodyLeads, FbPlaced, shouldShowSharedTopBar
<1> QED BY <1>2, <1>3 DEF FbFits

\* attachToActiveView, of a panel that is being built and of one that stands.
LEMMA FbAttached ==
  ASSUME NEW v, NEW w \in FbWindows, NEW changed \in BOOLEAN
  PROVE  LET r == attachToActiveView(v, w, changed)
         IN  /\ FbLoose(v) => /\ FbLoose(r) /\ r.manual = v.manual /\ r.auto = v.auto
                              /\ r.alive = v.alive /\ r.resizeTimer = v.resizeTimer
             /\ FbFits(v, w) => FbFits(r, w) /\ (FbPlaced(v, w) => FbPlaced(r, w))
<1> DEFINE a == [v EXCEPT !.attached = TRUE]
           m == syncModeToScroll(a, w)
           c == setCompactMode(a, w)
           r == attachToActiveView(v, w, changed)
<1>1. r \in {v, syncSharedTopBar(m, w), syncSharedTopBar(c, w)} BY DEF attachToActiveView
<1>2. m \in {a, c, setWideMode(a)} BY DEF syncModeToScroll
<1> HIDE DEF m, c, r
<1>3. ASSUME FbLoose(v)
      PROVE  /\ FbLoose(r) /\ r.manual = v.manual /\ r.auto = v.auto /\ r.alive = v.alive /\ r.resizeTimer = v.resizeTimer
             /\ FbLoose(a) /\ FbLoose(c) /\ FbKeeps(a, c)
 <2>1. v \in FbPanels /\ FbBarLeads(v) /\ FbChatLeads(v.chat) /\ (~v.compact => ~v.body) BY <1>3 DEF FbLoose
 <2>2. /\ a \in FbPanels /\ a.chat = v.chat /\ a.compact = v.compact /\ a.body = v.body /\ a.bar = v.bar
       /\ a.barFrame = v.barFrame /\ a.barTimer = v.barTimer
       /\ a.manual = v.manual /\ a.auto = v.auto /\ a.alive = v.alive /\ a.resizeTimer = v.resizeTimer
   BY <2>1 DEF FbPanels
 <2> HIDE DEF a
 <2>3. FbLoose(a) BY <2>1, <2>2 DEF FbLoose, FbBarLeads
 <2>4. FbLoose(c) /\ FbKeeps(a, c) BY <2>3, FbCompact DEF c
 <2>5. FbLoose(setWideMode(a)) /\ FbKeeps(a, setWideMode(a)) BY <2>3, FbWide
 <2>6. FbLoose(m) /\ FbKeeps(a, m) BY <1>2, <2>3, <2>4, <2>5 DEF FbKeeps
 <2>7. ASSUME NEW d, FbLoose(d), FbKeeps(a, d) PROVE FbLoose(syncSharedTopBar(d, w)) /\ FbKeeps(d, syncSharedTopBar(d, w))
   BY <2>7, FbSynced
 <2>8. r = v \/ (FbLoose(r) /\ FbKeeps(m, r)) \/ (FbLoose(r) /\ FbKeeps(c, r)) BY <1>1, <2>4, <2>6, <2>7
 <2>9. FbLoose(r) /\ r.manual = v.manual /\ r.auto = v.auto /\ r.alive = v.alive /\ r.resizeTimer = v.resizeTimer
   BY <1>3, <2>2, <2>4, <2>6, <2>8 DEF FbKeeps
 <2> QED BY <2>3, <2>4, <2>9
<1>4. ASSUME FbFits(v, w) PROVE FbFits(r, w) /\ (FbPlaced(v, w) => FbPlaced(r, w))
 <2>1. FbLoose(v) /\ v \in FbPanels /\ FbChatLeads(v.chat) /\ (v.hidden => ~v.chat.asked)
   BY <1>4 DEF FbFits, FbLoose
 <2>2. FbLoose(a) /\ FbLoose(c) /\ FbKeeps(a, c) BY <1>3, <2>1
 <2>3. FbFits(a, w) /\ (FbPlaced(v, w) => FbPlaced(a, w))
  <3>1. /\ a \in FbPanels /\ a.hidden = v.hidden /\ a.toggle = v.toggle /\ a.manual = v.manual /\ a.auto = v.auto
        /\ a.bigCard = v.bigCard /\ a.compact = v.compact /\ a.body = v.body /\ a.bodyTimer = v.bodyTimer /\ a.bar = v.bar
        /\ a.barFrame = v.barFrame /\ a.barTimer = v.barTimer /\ a.docked = v.docked /\ a.overlay = v.overlay
        /\ a.reserved = v.reserved /\ a.chat = v.chat BY <2>1 DEF FbPanels
  <3> HIDE DEF a
  <3> QED BY <1>4, <2>1, <3>1, FbFitsStill
 <2> HIDE DEF a
 <2>4. FbFits(m, w) /\ (FbPlaced(a, w) => FbPlaced(m, w)) BY <2>3, FbModeSynced DEF m
 <2>5. FbFits(c, w) /\ FbPlaced(c, w)
  <3>1. FbLoose(c) /\ FbKeeps(a, c) /\ c.chat = a.chat /\ FbBodyLeads(c) /\ FbPlaced(c, w) /\ FbBarAsked(c, w)
    BY <2>2, FbCompact DEF c
  <3> QED BY <2>3, <3>1 DEF FbFits, FbKeeps
 <2>6. ASSUME NEW d, FbFits(d, w) PROVE FbFits(syncSharedTopBar(d, w), w) /\ (FbPlaced(d, w) => FbPlaced(syncSharedTopBar(d, w), w))
   BY <2>6, FbFitsSynced DEF FbFits
 <2> QED BY <1>1, <1>4, <2>3, <2>4, <2>5, <2>6
<1> QED BY <1>3, <1>4 DEF r

\* A panel that is built stands as what was stored, configured and measured decides.
LEMMA FbBuiltFits ==
  ASSUME NEW w \in FbWindows, NEW stored \in FbStored, NEW default \in FbStored, NEW inline \in BOOLEAN, NEW dock \in BOOLEAN
  PROVE  LET r == FbBuilt(stored, default, inline, dock, w) IN FbFits(r, w) /\ FbPlaced(r, w)
<1> DEFINE narrow == isNarrowScreen(w)
           first == buildInitialResponsivePanelState(stored, default, narrow)
           chat == [dock |-> dock, flag |-> FALSE, class |-> FALSE, moving |-> "no", stale |-> {}, asked |-> FALSE]
           bar == [hidden |-> TRUE, shown |-> FALSE, live |-> FALSE]
           shown == first.shown
           manual == first.manual
           auto == first.auto
           built == [alive |-> TRUE, hidden |-> ~shown, compact |-> inline, inline |-> inline,
                     body |-> FALSE, manual |-> manual, auto |-> auto, bigCard |-> FALSE, wasNarrow |-> narrow,
                     bar |-> bar, barFrame |-> FALSE, barTimer |-> FALSE, bodyTimer |-> FALSE, chat |-> chat,
                     scrolled |-> FALSE, reserved |-> FALSE, overlay |-> FALSE, docked |-> FALSE,
                     toggle |-> FALSE, attached |-> FALSE, resizeTimer |-> FALSE, modeFrame |-> FALSE, viewFrame |-> FALSE]
           a == attachToActiveView(built, w, TRUE)
           s == FbShow(a, w, shown)
           r == FbBuilt(stored, default, inline, dock, w)
<1>1. narrow \in BOOLEAN BY DEF isNarrowScreen
<1>2. r = syncSharedTopBar(s, w) BY DEF FbBuilt
<1> HIDE DEF narrow
<1>3. shown \in BOOLEAN /\ manual \in BOOLEAN /\ auto \in BOOLEAN /\ ~shown = (manual \/ auto)
  BY <1>1 DEF buildInitialResponsivePanelState, resolveInitialVisibility, FbStored
<1>4. bar \in FbBars /\ bar.hidden /\ ~bar.shown /\ ~bar.live BY DEF FbBars
<1>5. chat \in FbChats /\ FbChatLeads(chat) BY DEF FbChats, FbChatLeads
<1> HIDE DEF r, bar, chat, shown, manual, auto, first
<1>6. /\ built \in FbPanels /\ built.bar = bar /\ ~built.barFrame /\ ~built.barTimer /\ built.chat = chat /\ ~built.body
      /\ built.manual = manual /\ built.auto = auto BY <1>1, <1>3, <1>4, <1>5 DEF FbPanels
<1> HIDE DEF built
<1>7. FbLoose(built) BY <1>4, <1>5, <1>6 DEF FbLoose, FbBarLeads
<1>8. FbLoose(a) /\ a.manual = manual /\ a.auto = auto BY <1>6, <1>7, FbAttached
<1> HIDE DEF a
<1>9. FbStands(s, w, shown) /\ FbKeepsRest(a, s) BY <1>3, <1>8, FbShownOrHidden
<1> HIDE DEF s
<1>10. FbFits(s, w) /\ FbPlaced(s, w) BY <1>3, <1>8, <1>9, FbStandsFits DEF FbKeepsRest
<1>11. FbFits(r, w) /\ FbPlaced(r, w) BY <1>2, <1>10, FbFitsSynced DEF FbFits
<1> QED BY <1>11 DEF r

LEMMA FbStarts == FbInit => FbInv
<1> SUFFICES ASSUME FbInit PROVE FbInv OBVIOUS
<1>1. PICK stored \in FbStored, default \in FbStored, inline \in BOOLEAN, dock \in BOOLEAN, navbar \in BOOLEAN,
           width \in FbWidths :
         /\ fbWindow = [width |-> width, navbar |-> navbar, host |-> TRUE, scroll |-> "top"]
         /\ fbPanel = FbBuilt(stored, default, inline, dock, fbWindow) BY DEF FbInit
<1>2. fbWindow \in FbWindows BY <1>1 DEF FbWindows, FbScrolls
<1>3. FbFits(fbPanel, fbWindow) /\ FbPlaced(fbPanel, fbWindow) BY <1>1, <1>2, FbBuiltFits
<1> QED BY <1>2, <1>3 DEF FbInv

\* What is asked for by a click shows, hides or extends the panel.
LEMMA FbClicks ==
  ASSUME FbInv, FbReuse \/ FbToggleClick \/ FbHideClick \/ FbClickOutside \/ FbChatToggle \/ FbBigCardToggle
  PROVE  FbInv'
<1>1. fbWindow \in FbWindows /\ fbWindow' = fbWindow /\ fbPanel.alive
  BY DEF FbInv, FbReuse, FbToggleClick, FbHideClick, FbClickOutside, FbChatToggle, FbBigCardToggle, FbHandle
<1>2. /\ FbFits(fbPanel, fbWindow) /\ FbLoose(fbPanel) /\ fbPanel \in FbPanels /\ FbChatLeads(fbPanel.chat)
      /\ ~fbPanel.resizeTimer => FbPlaced(fbPanel, fbWindow) BY <1>1 DEF FbInv, FbFits, FbLoose
<1>3. ASSUME FbFits(fbPanel', fbWindow), ~fbPanel'.resizeTimer => FbPlaced(fbPanel', fbWindow) PROVE FbInv'
  BY <1>1, <1>3 DEF FbInv
<1>4. ASSUME NEW v, FbLoose(v), NEW show \in BOOLEAN, fbPanel' = FbShow(v, fbWindow, show), ~show = (v.manual \/ v.auto)
      PROVE  FbInv'
 <2>1. FbStands(fbPanel', fbWindow, show) /\ FbKeepsRest(v, fbPanel') BY <1>1, <1>4, FbShownOrHidden
 <2>2. FbFits(fbPanel', fbWindow) /\ FbPlaced(fbPanel', fbWindow) BY <1>4, <2>1, FbStandsFits DEF FbKeepsRest
 <2> QED BY <1>3, <2>2
<1>5. CASE FbReuse
 <2>1. fbPanel' = syncSharedTopBar(fbPanel, fbWindow) BY <1>5 DEF FbReuse, FbHandle
 <2>2. /\ FbFits(fbPanel', fbWindow) /\ (FbPlaced(fbPanel, fbWindow) => FbPlaced(fbPanel', fbWindow))
       /\ FbKeeps(fbPanel, fbPanel') BY <1>1, <1>2, <2>1, FbFitsSynced DEF FbFits
 <2> QED BY <1>2, <1>3, <2>2 DEF FbKeeps
<1>6. CASE FbToggleClick \/ FbHideClick \/ FbClickOutside
 <2>1. PICK show \in BOOLEAN : fbPanel' = FbShow([fbPanel EXCEPT !.manual = ~show, !.auto = FALSE], fbWindow, show)
   BY <1>2, <1>6 DEF FbToggleClick, FbHideClick, FbClickOutside, FbHandle, FbChoose, FbPanels
 <2> DEFINE v == [fbPanel EXCEPT !.manual = ~show, !.auto = FALSE]
 <2>2. /\ v \in FbPanels /\ v.manual = ~show /\ ~v.auto /\ v.bar = fbPanel.bar /\ v.barFrame = fbPanel.barFrame
       /\ v.barTimer = fbPanel.barTimer /\ v.chat = fbPanel.chat /\ v.compact = fbPanel.compact /\ v.body = fbPanel.body
   BY <1>2, <2>1 DEF FbPanels
 <2>3. fbPanel' = FbShow(v, fbWindow, show) BY <2>1
 <2> HIDE DEF v
 <2>4. FbLoose(v) BY <1>2, <2>2 DEF FbLoose, FbBarLeads
 <2> QED BY <1>4, <2>2, <2>3, <2>4
<1>7. CASE FbChatToggle
 <2>1. PICK maximized \in BOOLEAN : ~fbPanel.hidden /\ fbPanel' = setChatMaximized(fbPanel, maximized)
   BY <1>7 DEF FbChatToggle, FbHandle
 <2> DEFINE r == setChatMaximized(fbPanel, maximized)
 <2>2. r \in FbPanels /\ FbChatLeads(r.chat) /\ r = [fbPanel EXCEPT !.chat = r.chat, !.scrolled = r.scrolled]
   BY <1>2, FbChatSet
 <2>3. fbPanel' = r BY <2>1
 <2> HIDE DEF r
 <2>4. /\ r.hidden = fbPanel.hidden /\ r.toggle = fbPanel.toggle /\ r.manual = fbPanel.manual /\ r.auto = fbPanel.auto
       /\ r.bigCard = fbPanel.bigCard /\ r.compact = fbPanel.compact /\ r.body = fbPanel.body
       /\ r.bodyTimer = fbPanel.bodyTimer /\ r.bar = fbPanel.bar /\ r.barFrame = fbPanel.barFrame
       /\ r.barTimer = fbPanel.barTimer /\ r.docked = fbPanel.docked /\ r.overlay = fbPanel.overlay
       /\ r.reserved = fbPanel.reserved /\ r.resizeTimer = fbPanel.resizeTimer BY <1>2, <2>2 DEF FbPanels
 <2>5. FbFits(r, fbWindow) /\ (FbPlaced(fbPanel, fbWindow) => FbPlaced(r, fbWindow))
   BY <1>2, <2>1, <2>2, <2>4, FbFitsStill
 <2> QED BY <1>2, <1>3, <2>3, <2>4, <2>5
<1>8. CASE FbBigCardToggle
 <2>1. PICK open \in BOOLEAN : fbPanel' = FbShow([fbPanel EXCEPT !.bigCard = open], fbWindow, ~(fbPanel.manual \/ fbPanel.auto))
   BY <1>8 DEF FbBigCardToggle, FbHandle
 <2> DEFINE v == [fbPanel EXCEPT !.bigCard = open]
            show == ~(fbPanel.manual \/ fbPanel.auto)
 <2>2. /\ v \in FbPanels /\ v.manual = fbPanel.manual /\ v.auto = fbPanel.auto /\ v.bar = fbPanel.bar
       /\ v.barFrame = fbPanel.barFrame /\ v.barTimer = fbPanel.barTimer /\ v.chat = fbPanel.chat
       /\ v.compact = fbPanel.compact /\ v.body = fbPanel.body BY <1>2, <2>1 DEF FbPanels
 <2>3. fbPanel' = FbShow(v, fbWindow, show) /\ show \in BOOLEAN BY <2>1
 <2>4. ~show = (v.manual \/ v.auto) BY <1>2, <2>2 DEF FbPanels
 <2> HIDE DEF v, show
 <2>5. FbLoose(v) BY <1>2, <2>2 DEF FbLoose, FbBarLeads
 <2> QED BY <1>4, <2>3, <2>4, <2>5
<1> QED BY <1>5, <1>6, <1>7, <1>8

\* The window changes; what follows its width waits for the timer of the resize.
LEMMA FbWindowChanges ==
  ASSUME FbInv, FbResize \/ FbSurroundings \/ FbScroll
  PROVE  FbInv'
<1>1. fbWindow \in FbWindows /\ fbPanel.alive BY DEF FbInv, FbResize, FbSurroundings, FbScroll
<1>2. /\ FbFits(fbPanel, fbWindow) /\ FbLoose(fbPanel) /\ fbPanel \in FbPanels /\ FbChatLeads(fbPanel.chat)
      /\ fbPanel.hidden => ~fbPanel.chat.asked
      /\ ~fbPanel.resizeTimer => FbPlaced(fbPanel, fbWindow) BY <1>1 DEF FbInv, FbFits, FbLoose
<1>3. CASE FbResize
 <2>1. PICK width \in FbWidths : fbWindow' = [fbWindow EXCEPT !.width = width] BY <1>3 DEF FbResize
 <2>2. fbWindow' \in FbWindows /\ fbWindow'.navbar = fbWindow.navbar /\ fbWindow'.host = fbWindow.host
   BY <1>1, <2>1 DEF FbWindows
 <2> DEFINE r == [fbPanel EXCEPT !.resizeTimer = TRUE]
 <2>3. fbPanel' = r BY <1>3 DEF FbResize
 <2>4. /\ r \in FbPanels /\ r.hidden = fbPanel.hidden /\ r.toggle = fbPanel.toggle /\ r.manual = fbPanel.manual
       /\ r.auto = fbPanel.auto /\ r.bigCard = fbPanel.bigCard /\ r.compact = fbPanel.compact /\ r.body = fbPanel.body
       /\ r.bodyTimer = fbPanel.bodyTimer /\ r.bar = fbPanel.bar /\ r.barFrame = fbPanel.barFrame
       /\ r.barTimer = fbPanel.barTimer /\ r.docked = fbPanel.docked /\ r.overlay = fbPanel.overlay
       /\ r.reserved = fbPanel.reserved /\ r.resizeTimer /\ r.chat = fbPanel.chat BY <1>2 DEF FbPanels
 <2> HIDE DEF r
 <2>5. FbFits(r, fbWindow) BY <1>2, <2>4, FbFitsStill
 <2>6. FbFits(r, fbWindow') BY <2>2, <2>5 DEF FbFits, FbBarAsked, shouldShowSharedTopBar
 <2> QED BY <2>2, <2>3, <2>4, <2>6 DEF FbInv
<1>4. CASE FbSurroundings
 <2>1. PICK navbar \in BOOLEAN, host \in BOOLEAN : fbWindow' = [fbWindow EXCEPT !.navbar = navbar, !.host = host]
   BY <1>4 DEF FbSurroundings
 <2> DEFINE w == [fbWindow EXCEPT !.navbar = navbar, !.host = host]
 <2>2. w \in FbWindows /\ w.width = fbWindow.width /\ fbWindow' = w BY <1>1, <2>1 DEF FbWindows
 <2> HIDE DEF w
 <2>3. fbPanel' = syncSharedTopBar(fbPanel, w) BY <1>4, <2>2 DEF FbSurroundings
 <2>4. FbPlaced(fbPanel, fbWindow) => FbPlaced(fbPanel, w) BY <2>2 DEF FbPlaced, isNarrowScreen
 <2>5. FbFits(fbPanel', w) /\ (FbPlaced(fbPanel, w) => FbPlaced(fbPanel', w)) /\ FbKeeps(fbPanel, fbPanel')
   BY <1>2, <2>2, <2>3, FbFitsSynced DEF FbFits
 <2> QED BY <1>2, <2>2, <2>4, <2>5 DEF FbInv, FbKeeps
<1>5. CASE FbScroll
 <2>1. PICK scroll \in FbScrolls : fbWindow' = [fbWindow EXCEPT !.scroll = scroll] BY <1>5 DEF FbScroll
 <2>2. /\ fbWindow' \in FbWindows /\ fbWindow'.navbar = fbWindow.navbar /\ fbWindow'.host = fbWindow.host
       /\ fbWindow'.width = fbWindow.width BY <1>1, <2>1 DEF FbWindows
 <2> DEFINE r == [fbPanel EXCEPT !.modeFrame = TRUE]
 <2>3. fbPanel' = r BY <1>5 DEF FbScroll
 <2>4. /\ r \in FbPanels /\ r.hidden = fbPanel.hidden /\ r.toggle = fbPanel.toggle /\ r.manual = fbPanel.manual
       /\ r.auto = fbPanel.auto /\ r.bigCard = fbPanel.bigCard /\ r.compact = fbPanel.compact /\ r.body = fbPanel.body
       /\ r.bodyTimer = fbPanel.bodyTimer /\ r.bar = fbPanel.bar /\ r.barFrame = fbPanel.barFrame
       /\ r.barTimer = fbPanel.barTimer /\ r.docked = fbPanel.docked /\ r.overlay = fbPanel.overlay
       /\ r.reserved = fbPanel.reserved /\ r.resizeTimer = fbPanel.resizeTimer /\ r.chat = fbPanel.chat
   BY <1>2 DEF FbPanels
 <2> HIDE DEF r
 <2>5. FbFits(r, fbWindow) /\ (FbPlaced(fbPanel, fbWindow) => FbPlaced(r, fbWindow))
   BY <1>2, <2>4, FbFitsStill
 <2>6. FbFits(r, fbWindow') /\ (FbPlaced(r, fbWindow) => FbPlaced(r, fbWindow'))
   BY <2>2, <2>5 DEF FbFits, FbBarAsked, shouldShowSharedTopBar, FbPlaced, isNarrowScreen
 <2> QED BY <1>2, <2>2, <2>3, <2>4, <2>5, <2>6 DEF FbInv
<1> QED BY <1>3, <1>4, <1>5

\* A resize, a scroll and a view that changed are followed.
LEMMA FbFollows ==
  ASSUME FbInv, FbResizeTimer \/ FbModeFrame \/ FbViewFrame
  PROVE  FbInv'
<1>1. fbWindow \in FbWindows /\ fbWindow' = fbWindow /\ fbPanel.alive
  BY DEF FbInv, FbResizeTimer, FbModeFrame, FbViewFrame, FbHandle
<1>2. /\ FbFits(fbPanel, fbWindow) /\ FbLoose(fbPanel) /\ fbPanel \in FbPanels /\ FbChatLeads(fbPanel.chat)
      /\ fbPanel.hidden => ~fbPanel.chat.asked
      /\ ~fbPanel.resizeTimer => FbPlaced(fbPanel, fbWindow) BY <1>1 DEF FbInv, FbFits, FbLoose
<1>3. CASE FbResizeTimer
 <2> DEFINE narrow == isNarrowScreen(fbWindow)
            d == resolveResponsivePanelVisibilityState(fbPanel, narrow)
            shown == d.shown
            auto == d.auto
            v == [fbPanel EXCEPT !.auto = auto]
            s == FbShow(v, fbWindow, shown)
            a == [s EXCEPT !.wasNarrow = narrow]
            m == syncModeToScroll(a, fbWindow)
            r == [m EXCEPT !.resizeTimer = FALSE]
 <2>1. narrow \in BOOLEAN /\ fbPanel' = r
   BY <1>3 DEF FbResizeTimer, FbHandle, applyResponsivePanelVisibility, isNarrowScreen
 <2> HIDE DEF narrow
 <2>2. shown \in BOOLEAN /\ auto \in BOOLEAN /\ ~shown = (fbPanel.manual \/ auto)
   BY <1>2, <2>1 DEF resolveResponsivePanelVisibilityState, FbPanels
 <2> HIDE DEF d, shown, auto
 <2>3. /\ v \in FbPanels /\ v.auto = auto /\ v.manual = fbPanel.manual /\ v.bar = fbPanel.bar
       /\ v.barFrame = fbPanel.barFrame /\ v.barTimer = fbPanel.barTimer /\ v.chat = fbPanel.chat
       /\ v.compact = fbPanel.compact /\ v.body = fbPanel.body BY <1>2, <2>2 DEF FbPanels
 <2> HIDE DEF v
 <2>4. FbLoose(v) BY <1>2, <2>3 DEF FbLoose, FbBarLeads
 <2>5. FbStands(s, fbWindow, shown) /\ FbKeepsRest(v, s) BY <1>1, <2>2, <2>4, FbShownOrHidden
 <2> HIDE DEF s
 <2>6. FbFits(s, fbWindow) /\ FbPlaced(s, fbWindow) /\ s \in FbPanels
   BY <2>2, <2>3, <2>5, FbStandsFits DEF FbKeepsRest, FbStands, FbLoose
 <2>7. /\ a \in FbPanels /\ a.hidden = s.hidden /\ a.toggle = s.toggle /\ a.manual = s.manual /\ a.auto = s.auto
       /\ a.bigCard = s.bigCard /\ a.compact = s.compact /\ a.body = s.body /\ a.bodyTimer = s.bodyTimer /\ a.bar = s.bar
       /\ a.barFrame = s.barFrame /\ a.barTimer = s.barTimer /\ a.docked = s.docked /\ a.overlay = s.overlay
       /\ a.reserved = s.reserved /\ a.chat = s.chat BY <2>1, <2>6 DEF FbPanels
 <2> HIDE DEF a
 <2>8. FbChatLeads(a.chat) /\ (a.hidden => ~a.chat.asked) BY <2>6, <2>7 DEF FbFits, FbLoose
 <2>9. FbFits(a, fbWindow) /\ FbPlaced(a, fbWindow) BY <2>6, <2>7, <2>8, FbFitsStill
 <2>10. FbFits(m, fbWindow) /\ FbPlaced(m, fbWindow) BY <1>1, <2>9, FbModeSynced
 <2> HIDE DEF m
 <2>11. m \in FbPanels /\ FbChatLeads(m.chat) /\ (m.hidden => ~m.chat.asked) BY <2>10 DEF FbFits, FbLoose
 <2>12. /\ r \in FbPanels /\ r.hidden = m.hidden /\ r.toggle = m.toggle /\ r.manual = m.manual /\ r.auto = m.auto
        /\ r.bigCard = m.bigCard /\ r.compact = m.compact /\ r.body = m.body /\ r.bodyTimer = m.bodyTimer /\ r.bar = m.bar
        /\ r.barFrame = m.barFrame /\ r.barTimer = m.barTimer /\ r.docked = m.docked /\ r.overlay = m.overlay
        /\ r.reserved = m.reserved /\ r.chat = m.chat BY <2>11 DEF FbPanels
 <2> HIDE DEF r
 <2>13. FbFits(r, fbWindow) /\ FbPlaced(r, fbWindow) BY <2>10, <2>11, <2>12, FbFitsStill
 <2> QED BY <1>1, <2>1, <2>13 DEF FbInv
<1>4. CASE FbModeFrame
 <2> DEFINE v == [fbPanel EXCEPT !.modeFrame = FALSE]
            r == syncModeToScroll(v, fbWindow)
 <2>1. fbPanel' = r BY <1>4 DEF FbModeFrame, FbHandle
 <2>2. /\ v \in FbPanels /\ v.resizeTimer = fbPanel.resizeTimer /\ v.manual = fbPanel.manual /\ v.auto = fbPanel.auto
       /\ v.bigCard = fbPanel.bigCard /\ v.hidden = fbPanel.hidden /\ v.toggle = fbPanel.toggle /\ v.compact = fbPanel.compact
       /\ v.body = fbPanel.body /\ v.bodyTimer = fbPanel.bodyTimer /\ v.bar = fbPanel.bar /\ v.barFrame = fbPanel.barFrame
       /\ v.barTimer = fbPanel.barTimer /\ v.docked = fbPanel.docked /\ v.overlay = fbPanel.overlay
       /\ v.reserved = fbPanel.reserved /\ v.chat = fbPanel.chat BY <1>2 DEF FbPanels
 <2> HIDE DEF v
 <2>3. FbFits(v, fbWindow) /\ (FbPlaced(fbPanel, fbWindow) => FbPlaced(v, fbWindow))
   BY <1>2, <2>2, FbFitsStill
 <2>4. FbFits(r, fbWindow) /\ (FbPlaced(v, fbWindow) => FbPlaced(r, fbWindow)) /\ FbKeeps(v, r)
   BY <1>1, <2>3, FbModeSynced
 <2> HIDE DEF r
 <2>5. r.resizeTimer = fbPanel.resizeTimer BY <2>2, <2>4 DEF FbKeeps
 <2> QED BY <1>1, <1>2, <2>1, <2>3, <2>4, <2>5 DEF FbInv
<1>5. CASE FbViewFrame
 <2>1. PICK changed \in BOOLEAN : fbPanel' = attachToActiveView([fbPanel EXCEPT !.viewFrame = FALSE], fbWindow, changed)
   BY <1>5 DEF FbViewFrame, FbHandle
 <2> DEFINE v == [fbPanel EXCEPT !.viewFrame = FALSE]
            r == attachToActiveView(v, fbWindow, changed)
 <2>2. /\ v \in FbPanels /\ v.resizeTimer = fbPanel.resizeTimer /\ v.manual = fbPanel.manual /\ v.auto = fbPanel.auto
       /\ v.bigCard = fbPanel.bigCard /\ v.hidden = fbPanel.hidden /\ v.toggle = fbPanel.toggle /\ v.compact = fbPanel.compact
       /\ v.body = fbPanel.body /\ v.bodyTimer = fbPanel.bodyTimer /\ v.bar = fbPanel.bar /\ v.barFrame = fbPanel.barFrame
       /\ v.barTimer = fbPanel.barTimer /\ v.docked = fbPanel.docked /\ v.overlay = fbPanel.overlay
       /\ v.reserved = fbPanel.reserved /\ v.chat = fbPanel.chat BY <1>2 DEF FbPanels
 <2>3. fbPanel' = r BY <2>1
 <2> HIDE DEF v
 <2>4. FbFits(v, fbWindow) /\ (FbPlaced(fbPanel, fbWindow) => FbPlaced(v, fbWindow))
   BY <1>2, <2>2, FbFitsStill
 <2>5. FbFits(r, fbWindow) /\ (FbPlaced(v, fbWindow) => FbPlaced(r, fbWindow)) /\ r.resizeTimer = v.resizeTimer
   BY <1>1, <2>4, FbAttached DEF FbFits
 <2> HIDE DEF r
 <2> QED BY <1>1, <1>2, <2>2, <2>3, <2>4, <2>5 DEF FbInv
<1> QED BY <1>3, <1>4, <1>5

\* Frames and timers that fire, animations that end, and the panel that goes.
LEMMA FbPendings ==
  ASSUME FbInv, \/ FbViewChanges \/ FbBodyScrolls \/ FbBarFrame \/ FbBarTimer \/ FbBodyTimer \/ FbChatEnds
                \/ FbStaleChatEnds \/ destroyFilterBar
  PROVE  FbInv'
<1>1. fbWindow \in FbWindows /\ fbWindow' = fbWindow /\ fbPanel.alive
  BY DEF FbInv, FbViewChanges, FbBodyScrolls, FbBarFrame, FbBarTimer, FbBodyTimer, FbChatEnds, FbStaleChatEnds,
         destroyFilterBar, FbHandle
<1>2. /\ FbFits(fbPanel, fbWindow) /\ FbLoose(fbPanel) /\ fbPanel \in FbPanels /\ FbChatLeads(fbPanel.chat)
      /\ FbBarLeads(fbPanel) /\ FbBarAsked(fbPanel, fbWindow) /\ FbBodyLeads(fbPanel)
      /\ fbPanel.hidden => ~fbPanel.chat.asked
      /\ ~fbPanel.resizeTimer => FbPlaced(fbPanel, fbWindow)
      /\ fbPanel.chat \in FbChats /\ fbPanel.bar \in FbBars /\ fbPanel.body \in BOOLEAN
  BY <1>1 DEF FbInv, FbFits, FbLoose, FbPanels
<1> DEFINE p == fbPanel
\* What differs is none of the bar, the body and the place.
<1>3. ASSUME NEW r, fbPanel' = r, NEW c \in FbChats, NEW scrolled \in BOOLEAN, NEW viewFrame \in BOOLEAN,
             r = [fbPanel EXCEPT !.chat = c, !.scrolled = scrolled, !.viewFrame = viewFrame],
             FbChatLeads(c), c.asked = fbPanel.chat.asked
      PROVE  FbInv'
 <2>1. /\ r \in FbPanels /\ r.hidden = p.hidden /\ r.toggle = p.toggle /\ r.manual = p.manual /\ r.auto = p.auto
       /\ r.bigCard = p.bigCard /\ r.compact = p.compact /\ r.body = p.body /\ r.bodyTimer = p.bodyTimer /\ r.bar = p.bar
       /\ r.barFrame = p.barFrame /\ r.barTimer = p.barTimer /\ r.docked = p.docked /\ r.overlay = p.overlay
       /\ r.reserved = p.reserved /\ r.resizeTimer = p.resizeTimer /\ r.chat = c
   BY <1>2, <1>3, ZenonT(60) DEF FbPanels
 <2>2. FbChatLeads(r.chat) /\ (r.hidden => ~r.chat.asked) BY <1>2, <1>3, <2>1
 <2>3. FbFits(r, fbWindow) /\ (FbPlaced(fbPanel, fbWindow) => FbPlaced(r, fbWindow))
   BY <1>2, <2>1, <2>2, FbFitsStill
 <2> QED BY <1>1, <1>2, <1>3, <2>1, <2>3 DEF FbInv
<1>4. CASE FbViewChanges
 <2>1. fbPanel' = [fbPanel EXCEPT !.chat = fbPanel.chat, !.scrolled = fbPanel.scrolled, !.viewFrame = TRUE]
       /\ fbPanel.scrolled \in BOOLEAN BY <1>2, <1>4 DEF FbViewChanges, FbHandle, FbPanels
 <2> QED BY <1>2, <1>3, <2>1
<1>5. ASSUME NEW v \in FbPanels, NEW position \in 0..2, NEW room \in 0..2
      PROVE  \E scrolled \in BOOLEAN : syncPanelBodyScrolledState(v, position, room) = [v EXCEPT !.scrolled = scrolled]
  BY <1>5 DEF syncPanelBodyScrolledState
<1>6. CASE FbBodyScrolls
 <2>1. PICK room \in 0..2, position \in 0..2 : fbPanel' = syncPanelBodyScrolledState(fbPanel, position, room)
   BY <1>6 DEF FbBodyScrolls, FbHandle
 <2>2. PICK scrolled \in BOOLEAN : fbPanel' = [fbPanel EXCEPT !.scrolled = scrolled] BY <1>2, <1>5, <2>1
 <2>3. fbPanel' = [fbPanel EXCEPT !.chat = fbPanel.chat, !.scrolled = scrolled, !.viewFrame = fbPanel.viewFrame]
       /\ fbPanel.viewFrame \in BOOLEAN BY <1>2, <2>2 DEF FbPanels
 <2> QED BY <1>2, <1>3, <2>3
<1>7. CASE FbStaleChatEnds
 <2>1. PICK dir \in fbPanel.chat.stale : fbPanel' = [fbPanel EXCEPT !.chat.stale = @ \ {dir}]
   BY <1>7 DEF FbStaleChatEnds, FbHandle
 <2> DEFINE stale == fbPanel.chat.stale \ {dir}
            c == [fbPanel.chat EXCEPT !.stale = stale]
 <2>2. stale \in SUBSET {"opening", "closing"} BY <1>2 DEF FbChats
 <2>3. fbPanel' = [fbPanel EXCEPT !.chat.stale = stale] BY <2>1
 <2> HIDE DEF stale
 <2>4. /\ c \in FbChats /\ c.asked = fbPanel.chat.asked /\ c.moving = fbPanel.chat.moving /\ c.flag = fbPanel.chat.flag
       /\ c.class = fbPanel.chat.class /\ c.dock = fbPanel.chat.dock BY <1>2, <2>2 DEF FbChats
 <2>5. fbPanel' = [fbPanel EXCEPT !.chat = c, !.scrolled = fbPanel.scrolled, !.viewFrame = fbPanel.viewFrame]
       /\ fbPanel.scrolled \in BOOLEAN /\ fbPanel.viewFrame \in BOOLEAN BY <1>2, <2>3 DEF FbPanels
 <2> HIDE DEF c
 <2>6. FbChatLeads(c) BY <1>2, <2>4 DEF FbChatLeads
 <2> QED BY <1>3, <2>4, <2>5, <2>6
<1>8. CASE FbChatEnds
 <2> DEFINE e == FbChatClosed(fbPanel, fbPanel.chat.moving)
            d == [e EXCEPT !.chat.moving = "no"]
            closing == fbPanel.chat.moving = "closing"
            flag == fbPanel.chat.flag /\ ~closing
            class == fbPanel.chat.class /\ ~closing
            c == [fbPanel.chat EXCEPT !.flag = flag, !.class = class, !.moving = "no"]
 <2>1. PICK room \in 0..2, position \in 0..2 :
          fbPanel' = IF closing THEN syncPanelBodyScrolledState(d, position, room) ELSE d
   BY <1>8 DEF FbChatEnds, FbHandle
 <2>2. closing \in BOOLEAN /\ flag \in BOOLEAN /\ class \in BOOLEAN /\ fbPanel.chat.moving # "no"
   BY <1>2, <1>8 DEF FbChats, FbChatEnds
 <2>3. d = [fbPanel EXCEPT !.chat = c]
  <3>1. CASE closing
   <4>1. e = [fbPanel EXCEPT !.chat.flag = FALSE, !.chat.class = FALSE] /\ flag = FALSE /\ class = FALSE
     BY <3>1 DEF FbChatClosed
   <4> HIDE DEF e, flag, class
   <4>2. e = [fbPanel EXCEPT !.chat = [fbPanel.chat EXCEPT !.flag = FALSE, !.class = FALSE]]
     BY <1>2, <4>1 DEF FbPanels, FbChats
   <4> QED BY <1>2, <4>1, <4>2 DEF FbPanels, FbChats
  <3>2. CASE ~closing
   <4>1. e = fbPanel /\ flag = fbPanel.chat.flag /\ class = fbPanel.chat.class
     BY <1>2, <3>2 DEF FbChatClosed, FbChats
   <4> HIDE DEF e, flag, class
   <4> QED BY <1>2, <4>1 DEF FbPanels, FbChats
  <3> QED BY <3>1, <3>2
 <2> HIDE DEF d, flag, class
 <2>4. /\ c \in FbChats /\ c.asked = fbPanel.chat.asked /\ c.moving = "no" /\ c.flag = flag /\ c.class = class
       /\ c.dock = fbPanel.chat.dock BY <1>2, <2>2 DEF FbChats
 <2>5. FbChatLeads(c) BY <1>2, <2>2, <2>4 DEF FbChatLeads, FbChats, flag, class
 <2> HIDE DEF c
 <2>6. d \in FbPanels /\ d.scrolled = fbPanel.scrolled BY <1>2, <2>3, <2>4 DEF FbPanels
 <2>7. \E scrolled \in BOOLEAN : fbPanel' = [d EXCEPT !.scrolled = scrolled]
  <3>1. CASE closing BY <1>5, <2>1, <2>6, <3>1
  <3>2. CASE ~closing BY <1>2, <2>1, <2>3, <2>6, <3>2 DEF FbPanels
  <3> QED BY <3>1, <3>2
 <2>8. PICK scrolled \in BOOLEAN : fbPanel' = [d EXCEPT !.scrolled = scrolled] BY <2>7
 <2>9. fbPanel' = [fbPanel EXCEPT !.chat = c, !.scrolled = scrolled, !.viewFrame = fbPanel.viewFrame]
       /\ fbPanel.viewFrame \in BOOLEAN BY <1>2, <2>3, <2>8 DEF FbPanels
 <2> QED BY <1>3, <2>4, <2>5, <2>9
\* The bar, as its frame or its timer leaves it.
<1>9. ASSUME NEW r, fbPanel' = r, NEW b \in FbBars, NEW f \in BOOLEAN, NEW t \in BOOLEAN,
             r = [fbPanel EXCEPT !.bar = b, !.barFrame = f, !.barTimer = t],
             f => b.live, t => ~b.live /\ ~b.hidden, b.live => ~b.hidden /\ (f \/ b.shown), ~b.live => ~b.shown /\ (t \/ b.hidden),
             b.live = fbPanel.bar.live
      PROVE  FbInv'
 <2>1. /\ r \in FbPanels /\ r.hidden = p.hidden /\ r.toggle = p.toggle /\ r.manual = p.manual /\ r.auto = p.auto
       /\ r.bigCard = p.bigCard /\ r.compact = p.compact /\ r.bar = b /\ r.docked = p.docked /\ r.overlay = p.overlay
       /\ r.reserved = p.reserved /\ r.resizeTimer = p.resizeTimer /\ r.chat = p.chat
       /\ r.barFrame = f /\ r.barTimer = t /\ r.body = p.body /\ r.bodyTimer = p.bodyTimer
   BY <1>2, <1>9 DEF FbPanels
 <2>2. FbBarLeads(r) BY <1>9, <2>1 DEF FbBarLeads
 <2>3. FbBodyLeads(r) /\ FbBarAsked(r, fbWindow) /\ (FbPlaced(fbPanel, fbWindow) => FbPlaced(r, fbWindow))
   BY <1>2, <1>9, <2>1 DEF FbBarAsked, FbPlaced, FbBodyLeads, shouldShowSharedTopBar
 <2>4. FbLoose(r) BY <1>2, <2>1, <2>2 DEF FbLoose, FbBodyLeads
 <2>5. FbFits(r, fbWindow) BY <1>2, <2>1, <2>3, <2>4 DEF FbFits
 <2> QED BY <1>1, <1>2, <1>9, <2>1, <2>3, <2>5 DEF FbInv
<1>10. CASE FbBarFrame
 <2> DEFINE b == [fbPanel.bar EXCEPT !.shown = TRUE]
            r == [fbPanel EXCEPT !.bar = b, !.barFrame = FALSE, !.barTimer = fbPanel.barTimer]
 <2>1. b \in FbBars /\ b.shown /\ b.hidden = fbPanel.bar.hidden /\ b.live = fbPanel.bar.live
   BY <1>2 DEF FbBars
 <2>2. fbPanel' = r /\ fbPanel.barFrame /\ fbPanel.barTimer \in BOOLEAN
   BY <1>2, <1>10 DEF FbBarFrame, FbHandle, FbPanels
 <2> HIDE DEF b
 <2>3. b.live /\ ~b.hidden /\ ~fbPanel.barTimer BY <1>2, <2>1, <2>2 DEF FbBarLeads
 <2> QED BY <1>9, <2>1, <2>2, <2>3
<1>11. CASE FbBarTimer
 <2> DEFINE b == [fbPanel.bar EXCEPT !.hidden = ~fbPanel.bar.shown]
            r == [fbPanel EXCEPT !.bar = b, !.barFrame = fbPanel.barFrame, !.barTimer = FALSE]
 <2>1. b \in FbBars /\ b.shown = fbPanel.bar.shown /\ b.hidden = ~fbPanel.bar.shown /\ b.live = fbPanel.bar.live
   BY <1>2 DEF FbBars
 <2>2. fbPanel' = r /\ fbPanel.barTimer /\ fbPanel.barFrame \in BOOLEAN
   BY <1>2, <1>11 DEF FbBarTimer, FbHandle, FbPanels
 <2> HIDE DEF b
 <2>3. ~b.live /\ ~b.shown /\ b.hidden /\ ~fbPanel.barFrame BY <1>2, <2>1, <2>2 DEF FbBarLeads
 <2> QED BY <1>9, <2>1, <2>2, <2>3
<1>12. CASE FbBodyTimer
 <2> DEFINE body == fbPanel.body /\ ~(fbPanel.hidden /\ fbPanel.compact)
            r == [fbPanel EXCEPT !.bodyTimer = FALSE, !.body = body]
 <2>1. body \in BOOLEAN BY <1>2
 <2>2. fbPanel' = r BY <1>12 DEF FbBodyTimer, FbHandle
 <2> HIDE DEF body
 <2>3. /\ r \in FbPanels /\ r.hidden = p.hidden /\ r.toggle = p.toggle /\ r.manual = p.manual /\ r.auto = p.auto
       /\ r.bigCard = p.bigCard /\ r.compact = p.compact /\ r.bar = p.bar /\ r.docked = p.docked /\ r.overlay = p.overlay
       /\ r.reserved = p.reserved /\ r.resizeTimer = p.resizeTimer /\ r.chat = p.chat
       /\ r.barFrame = p.barFrame /\ r.barTimer = p.barTimer /\ r.body = body BY <1>2, <2>1 DEF FbPanels
 <2> HIDE DEF r
 <2>4. FbBarLeads(r) /\ FbBarAsked(r, fbWindow) /\ (FbPlaced(fbPanel, fbWindow) => FbPlaced(r, fbWindow))
   BY <1>2, <2>3 DEF FbBarLeads, FbBarAsked, FbPlaced, shouldShowSharedTopBar
 <2>5. FbBodyLeads(r) BY <1>2, <2>3 DEF FbBodyLeads, body
 <2>6. FbFits(r, fbWindow) BY <1>2, <2>3, <2>4, <2>5 DEF FbFits, FbLoose, FbBodyLeads
 <2> QED BY <1>1, <1>2, <2>2, <2>3, <2>4, <2>6 DEF FbInv
<1>13. CASE destroyFilterBar
 <2>1. ~fbPanel'.alive BY <1>2, <1>13 DEF destroyFilterBar, FbHandle, FbPanels
 <2> QED BY <1>1, <2>1 DEF FbInv
<1> QED BY <1>4, <1>6, <1>7, <1>8, <1>10, <1>11, <1>12, <1>13

FbSpec == FbInit /\ [][FbNext]_fbVars

\* Whatever clicks, resizes, scrolls, frames and timers interleave: the panel, its body, its top bar, its place and its
\* chat come to show what the window, the article and the last click ask for, once what is pending for them has fired
\* (filter_bar_builder.js).
THEOREM FbShowsWhatIsWanted == FbSpec => []FbSettledIsWanted
<1>1. FbInv => FbSettledIsWanted
 <2> SUFFICES ASSUME FbInv, fbPanel.alive PROVE FbBarSettles /\ FbPanelSettles /\ FbChatSettles
   BY DEF FbSettledIsWanted
 <2>1. /\ FbFits(fbPanel, fbWindow) /\ fbPanel \in FbPanels /\ FbBarLeads(fbPanel) /\ FbBarAsked(fbPanel, fbWindow)
       /\ FbBodyLeads(fbPanel) /\ FbChatLeads(fbPanel.chat) /\ (fbPanel.hidden => ~fbPanel.chat.asked)
       /\ fbPanel.hidden = (fbPanel.manual \/ fbPanel.auto) /\ fbPanel.toggle = fbPanel.hidden
       /\ ~fbPanel.resizeTimer => FbPlaced(fbPanel, fbWindow) BY DEF FbInv, FbFits, FbLoose
 <2>2. fbPanel.bar \in FbBars /\ fbPanel.body \in BOOLEAN /\ fbPanel.compact \in BOOLEAN /\ fbPanel.hidden \in BOOLEAN
   BY <2>1 DEF FbPanels
 <2>3. FbBarSettles BY <2>1, <2>2 DEF FbBarSettles, FbBarLeads, FbBarAsked, FbBars
 <2>4. FbPanelSettles BY <2>1, <2>2 DEF FbPanelSettles, FbBodyLeads, FbPlaced
 <2>5. FbChatSettles BY <2>1 DEF FbChatSettles, FbChatLeads
 <2> QED BY <2>3, <2>4, <2>5
<1>2. FbInv /\ [FbNext]_fbVars => FbInv'
 <2>1. FbInv /\ UNCHANGED fbVars => FbInv' BY DEF fbVars, FbInv
 <2>2. FbInv /\ FbNext => FbInv' BY FbClicks, FbWindowChanges, FbFollows, FbPendings DEF FbNext
 <2> QED BY <2>1, <2>2
<1> QED BY <1>1, <1>2, FbStarts, PTL DEF FbSpec
=============================================================================
