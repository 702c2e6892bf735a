--------------------------------- MODULE NavTabs ---------------------------------
(***************************************************************************)
(* The main menu: its tabs, which are fetched and built again after a login *)
(* or a logout and can be dragged into another order, the outlines of the   *)
(* tabs, which follow the layout through animations, and the navigation bar *)
(* with one stored visibility for wide windows and one for narrow ones.     *)
(***************************************************************************)
EXTENDS Naturals, Sequences, SequencesExt

CONSTANT NtMaxEvents      \* bound: inputs of the user and rebuilds of the menu

VARIABLES
    ntMenu,    \* the tabs in the menu, the active one, the outlines; who is logged in
    ntNav,     \* the navigation bar, the window and the timers
    ntBuilds,  \* initTabs under way
    ntDrag,    \* the dragged tab and the order before
    ntSaves,   \* orders on their way to the server
    ntOrder,   \* the order the server has
    ntCounts   \* inputs so far, and whether something was met that the promise leaves out
ntVars == <<ntMenu, ntNav, ntBuilds, ntDrag, ntSaves, ntOrder, ntCounts>>

NtTabs == {"a", "users"}
NtDefaultOrder == <<"a", "users">>
NtLoggedOut == {"a"}
NtNone == "none"
Between == "between"
NoDrag == [tab |-> NtNone, before |-> <<>>]
NtShapes == {"tab-active", "tab-inactive", "button-active", "button-inactive"}

NtInit ==
    /\ \E login \in BOOLEAN :
          /\ ntMenu = [tabs |-> <<>>, active |-> NtNone, selected |-> "users", login |-> login, buttons |-> FALSE,
                       path |-> [t \in NtTabs |-> "button-inactive"], morph |-> [t \in NtTabs |-> NtNone]]
          /\ ntBuilds = {[id |-> NtMaxEvents, login |-> login, pc |-> "asked", order |-> <<>>]}
    /\ \E wide, entrance \in BOOLEAN :
          ntNav = [wide |-> wide, visible |-> wide, stored |-> [w \in BOOLEAN |-> {}],
                   collapsed |-> ~wide \/ entrance, complete |-> ~wide, finishing |-> FALSE,
                   entrance |-> wide /\ entrance, navTimer |-> FALSE, tabTimer |-> FALSE]
    /\ ntDrag = NoDrag /\ ntSaves = {}
    /\ ntOrder = NtDefaultOrder
    /\ ntCounts = [events |-> 0, spoiled |-> FALSE]

NtCount(spoils) ==
    /\ ntCounts.events < NtMaxEvents
    /\ ntCounts' = [events |-> ntCounts.events + 1, spoiled |-> ntCounts.spoiled \/ spoils]
-----------------------------------------------------------------------------
(* Outlines *)

\* buildTabPresentationState: tabs hang on the bar only when it is beside the content.
buildTabPresentationState(nav, buttons, isActive) ==
    IF nav.wide /\ ~nav.collapsed /\ ~buttons
    THEN IF isActive THEN "tab-active" ELSE "tab-inactive"
    ELSE IF isActive THEN "button-active" ELSE "button-inactive"

\* Mutant: a change back to the outline drawn last does not stop the animation.
KeepMorph(menu, t, next) ==
    IF menu.morph[t] # NtNone THEN menu
    ELSE IF menu.path[t] = next THEN menu
    ELSE [menu EXCEPT !.path[t] = Between, !.morph[t] = next]

\* applyOutlinePathWithMorph: the animation under way is cancelled, the next begins where it was.
applyOutlinePathWithMorph(menu, t, next) ==
    IF menu.path[t] = next THEN [menu EXCEPT !.morph[t] = NtNone]
    ELSE [menu EXCEPT !.path[t] = Between, !.morph[t] = next]

\* applyMainTabActiveState, for every tab in the menu.
applyMainTabActiveState(menu, nav, active) ==
    LET next(t) == applyOutlinePathWithMorph(menu, t,
                       buildTabPresentationState(nav, menu.buttons, t = active))
        drawn == {menu.tabs[i] : i \in DOMAIN menu.tabs}
    IN  [menu EXCEPT !.active = IF active \in drawn THEN active ELSE NtNone,
                     !.path = [t \in NtTabs |-> IF t \in drawn THEN next(t).path[t] ELSE @[t]],
                     !.morph = [t \in NtTabs |-> IF t \in drawn THEN next(t).morph[t] ELSE @[t]]]

\* updateTabPathsForView: the active tab is read from the menu.
updateTabPathsForView(menu, nav) ==
    IF menu.selected = NtNone THEN menu ELSE applyMainTabActiveState(menu, nav, menu.active)

NtAnimating == \E t \in NtTabs : ntMenu.morph[t] # NtNone

\* animateFrame, the last one: every drawing starts all animations again, so they end together.
animateFrame ==
    /\ NtAnimating
    /\ ntMenu' = [ntMenu EXCEPT !.path = [t \in NtTabs |-> IF ntMenu.morph[t] = NtNone THEN @[t] ELSE ntMenu.morph[t]],
                                !.morph = [t \in NtTabs |-> NtNone]]
    /\ UNCHANGED <<ntNav, ntBuilds, ntDrag, ntSaves, ntOrder, ntCounts>>

\* A tab is opened; the navigation it starts is not modelled here.
openTab(menu, nav, t, navigates) ==
    applyMainTabActiveState([menu EXCEPT !.selected = IF navigates THEN t ELSE @], nav, t)
NtOpen(t) ==
    /\ \E i \in DOMAIN ntMenu.tabs : ntMenu.tabs[i] = t
    /\ ntMenu' = openTab(ntMenu, ntNav, t, TRUE)
    /\ NtCount(FALSE)
    /\ UNCHANGED <<ntNav, ntBuilds, ntDrag, ntSaves, ntOrder>>

\* The view of the dataset is changed.
NtViewSelected ==
    /\ ntMenu.selected # NtNone
    /\ ntMenu' = updateTabPathsForView([ntMenu EXCEPT !.buttons = ~@], ntNav)
    /\ NtCount(FALSE)
    /\ UNCHANGED <<ntNav, ntBuilds, ntDrag, ntSaves, ntOrder>>
-----------------------------------------------------------------------------
(* Building the menu *)

\* initTabs: the menu is emptied; who is logged in is read now.
initTabs(login) ==
    /\ NtCount(ntBuilds # {} \/ ntSaves # {} \/ ntDrag # NoDrag)
    /\ ntMenu' = [ntMenu EXCEPT !.tabs = <<>>, !.active = NtNone, !.login = login,
                                !.morph = [t \in NtTabs |-> NtNone],
                                !.path = [t \in NtTabs |-> "button-inactive"]]
    /\ ntBuilds' = ntBuilds \cup {[id |-> ntCounts.events, login |-> login, pc |-> "asked", order |-> <<>>]}
    /\ UNCHANGED <<ntNav, ntDrag, ntSaves, ntOrder>>

\* fetchProjectTabs: tabs without a place in the stored order follow in the default order.
fetchProjectTabs(order, login) ==
    LET rest == SelectSeq(NtDefaultOrder, LAMBDA t : ~Contains(order, t))
    IN  SelectSeq(order \o rest, LAMBDA t : login \/ t \in NtLoggedOut)

NtServed(b) ==
    /\ b.pc = "asked"
    /\ ntBuilds' = (ntBuilds \ {b}) \cup
                     {[b EXCEPT !.pc = "served", !.order = fetchProjectTabs(ntOrder, b.login)]}
    /\ UNCHANGED <<ntMenu, ntNav, ntDrag, ntSaves, ntOrder, ntCounts>>

\* The list cannot be read: the static tabs are shown.
NtFetchFails(b) ==
    /\ b.pc = "asked"
    /\ ntBuilds' = (ntBuilds \ {b}) \cup {[b EXCEPT !.pc = "served", !.order =
                       SelectSeq(<<"users">>, LAMBDA t : b.login)]}
    /\ ntCounts' = [ntCounts EXCEPT !.spoiled = TRUE]
    /\ UNCHANGED <<ntMenu, ntNav, ntDrag, ntSaves, ntOrder>>

\* The tabs are appended, and one is opened unless the page shows something without a tab.
NtBuilt(b, dataAlreadyLoaded, authEntry) ==
    /\ b.pc = "served"
    /\ LET menu == [ntMenu EXCEPT !.tabs = @ \o b.order,
                      !.path = [t \in NtTabs |-> IF Contains(b.order, t) THEN "button-inactive" ELSE @[t]]]
           matching == Contains(menu.tabs, menu.selected)
           early == \/ authEntry /\ ~b.login
                    \/ ~matching /\ menu.selected # NtNone /\ dataAlreadyLoaded
       IN  /\ ntMenu' =
                IF early THEN menu
                ELSE IF matching THEN openTab(menu, ntNav, menu.selected, ~dataAlreadyLoaded)
                ELSE IF menu.tabs = <<>> THEN [menu EXCEPT !.selected = NtNone]
                ELSE openTab([menu EXCEPT !.selected = NtNone], ntNav, Head(menu.tabs),
                             ~b.login \/ ~dataAlreadyLoaded)
           /\ ntCounts' = [ntCounts EXCEPT !.spoiled = @ \/ early \/ ntNav.entrance]
    /\ ntBuilds' = ntBuilds \ {b}
    /\ UNCHANGED <<ntNav, ntDrag, ntSaves, ntOrder>>
-----------------------------------------------------------------------------
(* Dragging *)

dragstart(t) ==
    /\ ntMenu.login /\ ntDrag = NoDrag /\ Contains(ntMenu.tabs, t)
    /\ ntDrag' = [tab |-> t, before |-> ntMenu.tabs]
    /\ NtCount(ntSaves # {})
    /\ UNCHANGED <<ntMenu, ntNav, ntBuilds, ntSaves, ntOrder>>

\* The dragged tab is moved, also into a menu that was emptied meanwhile.
dragover(i) ==
    LET others == SelectSeq(ntMenu.tabs, LAMBDA t : t # ntDrag.tab)
    IN  /\ ntDrag # NoDrag /\ i \in 1..(Len(others) + 1)
        /\ InsertAt(others, i, ntDrag.tab) # ntMenu.tabs
        /\ ntMenu' = [ntMenu EXCEPT !.tabs = InsertAt(others, i, ntDrag.tab)]
        /\ NtCount(FALSE)
        /\ UNCHANGED <<ntNav, ntBuilds, ntDrag, ntSaves, ntOrder>>

\* saveTabOrder: the order shown is sent, when it changed.
dragend ==
    /\ ntDrag # NoDrag
    /\ ntDrag' = NoDrag
    /\ ntSaves' = IF ntDrag.before = ntMenu.tabs THEN ntSaves
                  ELSE ntSaves \cup {[id |-> ntCounts.events, order |-> ntMenu.tabs]}
    /\ UNCHANGED <<ntMenu, ntNav, ntBuilds, ntOrder, ntCounts>>

NtSaved(s) ==
    /\ ntOrder' = s.order
    /\ ntSaves' = ntSaves \ {s}
    /\ UNCHANGED <<ntMenu, ntNav, ntBuilds, ntDrag, ntCounts>>

NtSaveFails(s) ==
    /\ ntSaves' = ntSaves \ {s}
    /\ ntCounts' = [ntCounts EXCEPT !.spoiled = TRUE]
    /\ UNCHANGED <<ntMenu, ntNav, ntBuilds, ntDrag, ntOrder>>
-----------------------------------------------------------------------------
(* The navigation bar *)

\* The stored visibility of the width; nothing stored: only beside the content.
NtAsStored(n) == IF n.stored[n.wide] = {} THEN n.wide ELSE TRUE \in n.stored[n.wide]

\* applyNavbarVisibility: a collapse is complete when its transition has ended.
applyNavbarVisibility(n) ==
    [n EXCEPT !.collapsed = ~n.visible, !.complete = FALSE, !.finishing = ~n.visible]

\* The bar as the user wants it for this width, and the event that redraws the tabs.
NtSetBar(n) ==
    /\ ntNav' = applyNavbarVisibility(n)
    /\ ntMenu' = updateTabPathsForView(ntMenu, ntNav')
    /\ UNCHANGED <<ntBuilds, ntDrag, ntSaves, ntOrder>>

\* The menu button.
showMenuButton ==
    /\ NtCount(ntNav.entrance)
    /\ NtSetBar([ntNav EXCEPT !.visible = ~@, !.stored[ntNav.wide] = {~ntNav.visible}])

\* A click beside the bar of a narrow window.
NtClickOutside ==
    /\ ~ntNav.wide /\ ntNav.visible
    /\ NtCount(ntNav.entrance)
    /\ NtSetBar([ntNav EXCEPT !.visible = FALSE, !.stored[FALSE] = {FALSE}])

NtResize ==
    /\ ntNav' = [ntNav EXCEPT !.wide = ~@, !.navTimer = TRUE, !.tabTimer = TRUE]
    /\ NtCount(ntNav.entrance)
    /\ UNCHANGED <<ntMenu, ntBuilds, ntDrag, ntSaves, ntOrder>>

\* checkWindowWidth, after the timer.
checkWindowWidth ==
    /\ ntNav.navTimer
    /\ NtSetBar([ntNav EXCEPT !.navTimer = FALSE,
          !.visible = NtAsStored(ntNav)])
    /\ UNCHANGED ntCounts

NtTabTimer ==
    /\ ntNav.tabTimer
    /\ ntNav' = [ntNav EXCEPT !.tabTimer = FALSE]
    /\ ntMenu' = updateTabPathsForView(ntMenu, ntNav)
    /\ UNCHANGED <<ntBuilds, ntDrag, ntSaves, ntOrder, ntCounts>>

completeCollapse ==
    /\ ntNav.finishing
    /\ ntNav' = [ntNav EXCEPT !.finishing = FALSE, !.complete = ntNav.collapsed]
    /\ UNCHANGED <<ntMenu, ntBuilds, ntDrag, ntSaves, ntOrder, ntCounts>>

\* animateInitialNavbarEntrance, two frames later.
animateInitialNavbarEntrance ==
    /\ ntNav.entrance
    /\ ntNav' = [ntNav EXCEPT !.entrance = FALSE, !.collapsed = FALSE]
    /\ UNCHANGED <<ntMenu, ntBuilds, ntDrag, ntSaves, ntOrder, ntCounts>>

NtNext ==
    \/ \E t \in NtTabs : NtOpen(t) \/ dragstart(t)
    \/ NtViewSelected \/ animateFrame
    \/ \E login \in BOOLEAN : initTabs(login)
    \/ \E b \in ntBuilds : NtServed(b) \/ NtFetchFails(b)
    \/ \E b \in ntBuilds, loaded, entry \in BOOLEAN : NtBuilt(b, loaded, entry)
    \/ \E i \in 1..2 : dragover(i)
    \/ dragend
    \/ \E s \in ntSaves : NtSaved(s) \/ NtSaveFails(s)
    \/ showMenuButton \/ NtClickOutside \/ NtResize \/ checkWindowWidth \/ NtTabTimer
    \/ completeCollapse \/ animateInitialNavbarEntrance
-----------------------------------------------------------------------------
(* Properties *)

NtTypeOK ==
    /\ ntMenu.tabs \in Seq(NtTabs) /\ ntMenu.active \in NtTabs \cup {NtNone}
    /\ ntMenu.path \in [NtTabs -> NtShapes \cup {Between}]
    /\ ntMenu.morph \in [NtTabs -> NtShapes \cup {NtNone}]
    /\ ntNav.stored \in [BOOLEAN -> SUBSET BOOLEAN]
    /\ ntDrag.tab \in NtTabs \cup {NtNone}

NtQuiet == /\ ntBuilds = {} /\ ntSaves = {} /\ ntDrag = NoDrag /\ ~NtAnimating
           /\ ~ntNav.navTimer /\ ~ntNav.tabTimer /\ ~ntNav.entrance /\ ~ntNav.finishing

\* When nothing is under way, the bar is as the user left it at this width, every tab has the
\* outline of the present layout, and the tabs are those of the user in the stored order; as
\* long as menus, drags and saves did not overlap, none failed, and no menu was built for a
\* page without a tab or while the bar was entering.
NtMenuAsStored ==
    NtQuiet /\ ~ntCounts.spoiled =>
      /\ ntNav.visible = NtAsStored(ntNav)
      /\ ntNav.collapsed = ~ntNav.visible /\ ntNav.complete = ntNav.collapsed
      /\ \A i \in DOMAIN ntMenu.tabs :
            LET t == ntMenu.tabs[i]
            IN  ntMenu.path[t] = buildTabPresentationState(ntNav, ntMenu.buttons, t = ntMenu.active)
      /\ ntMenu.tabs # <<>> => ntMenu.tabs = fetchProjectTabs(ntOrder, ntMenu.login)
=============================================================================
