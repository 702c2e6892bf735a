------------------------------ MODULE Disclosure ------------------------------
(***************************************************************************)
(* An element that is opened and closed by an animated change of its height: *)
(* a disclosure section or filter section (clicked), or the bar around the   *)
(* sections (brought to the height of its content).  An animation waits for  *)
(* a frame, runs, and is ended by the browser's transitionend or by a timer, *)
(* whichever comes first; the next operation stops it.                       *)
(***************************************************************************)
EXTENDS Naturals

CONSTANTS ClMaxInputs,  \* bound: clicks, changes of the content and calls of sync
          ClMaxSize     \* bound: heights of the content

VARIABLES
    clUi,     \* the element: opened, hidden, its height; what was said last to those who listen;
              \* whether the filter is in the stored set of opened ones
    clRuns,    \* the animation under way: its phase, target, and what its end does
    clLate,   \* frames and listeners left over from animations that ended without them
    clCounts  \* inputs so far; whether a left-over frame came into being
clVars == <<clUi, clRuns, clLate, clCounts>>

Sizes == 0..ClMaxSize
AutoHeight == ClMaxSize + 1  \* the height of the content, whatever it is
ClKinds == {"section", "filter", "bar"}
ClSays == {"nothing", "opened", "closed"}

ClInit ==
    /\ \E open \in BOOLEAN, size \in Sizes, kind \in ClKinds, reduced \in BOOLEAN :
          /\ kind = "bar" => open
          /\ clUi = [kind |-> kind, stored |-> open, reduced |-> reduced, expanded |-> open, hidden |-> ~open, size |-> size,
                     height |-> IF open THEN AutoHeight ELSE 0, last |-> size, moving |-> FALSE,
                     told |-> IF open THEN "opened" ELSE "closed"]
    /\ clRuns = {}
    /\ clLate = [frames |-> {}, listeners |-> {}]
    /\ clCounts = [inputs |-> 0, late |-> FALSE]

ClInput ==
    /\ clCounts.inputs < ClMaxInputs
    /\ clCounts' = [clCounts EXCEPT !.inputs = @ + 1]
ClSaid(ui, says) == IF says = "nothing" THEN ui ELSE [ui EXCEPT !.told = says]
-----------------------------------------------------------------------------
(* The animation of the height *)

restoreExpandedStyles(ui) == [ui EXCEPT !.height = AutoHeight, !.last = ui.size, !.moving = FALSE]
restoreCollapsedStyles(ui, to) == [ui EXCEPT !.height = to, !.moving = FALSE]

\* What the end of an animation does; a closed element is hidden then.
ClFinished(ui, to, auto, says) ==
    LET shown == [IF auto THEN restoreExpandedStyles(ui) ELSE restoreCollapsedStyles(ui, to) EXCEPT !.last = to]
    IN  ClSaid(IF says = "closed" /\ to = 0 THEN [shown EXCEPT !.hidden = TRUE] ELSE shown, says)

\* stopActiveAnimation: its frame, timer and listener are dropped, and its promise says so.
LeaveRunning(runs) == runs
stopActiveAnimation(runs) == {}
StoppedSays(ui) == IF clRuns = {} THEN ui ELSE ClSaid(ui, (CHOOSE r \in clRuns : TRUE).says)

\* animateHeight: at once if there is nothing to animate, else from a fixed height.
animateHeight(ui, from, to, auto, says, animate) ==
    IF animate /\ ~ui.reduced /\ from # to
    THEN /\ clRuns' = stopActiveAnimation(clRuns) \cup {[phase |-> "asked", to |-> to, auto |-> auto, says |-> says]}
         /\ clUi' = StoppedSays([ui EXCEPT !.hidden = FALSE, !.height = from, !.moving = TRUE])
    ELSE /\ clRuns' = stopActiveAnimation(clRuns)
         /\ clUi' = ClFinished(StoppedSays([ui EXCEPT !.hidden = FALSE]), to, auto, says)

\* The rendered height: any while it moves.
Rendered(h) == IF clUi.moving THEN h \in Sizes
               ELSE h = IF clUi.height \in {0, AutoHeight} THEN clUi.size ELSE clUi.height
-----------------------------------------------------------------------------
(* Operations *)

expand(ui) == animateHeight([ui EXCEPT !.expanded = TRUE], 0, clUi.size, TRUE, "opened", TRUE)

collapse(ui) ==
    \E from \in Sizes :
       /\ Rendered(from)
       /\ animateHeight([ui EXCEPT !.expanded = FALSE], from, 0, FALSE, "closed", TRUE)

\* setExpanded of a section: what is said follows at the end.
setExpanded ==
    /\ clUi.kind = "section" /\ ClInput
    /\ IF clUi.expanded THEN collapse(clUi) ELSE expand(clUi)
    /\ UNCHANGED clLate

\* toggle of a filter section: stored at once.
toggle ==
    /\ clUi.kind = "filter" /\ ClInput
    /\ LET ui == [clUi EXCEPT !.stored = ~clUi.expanded]
       IN IF clUi.expanded THEN collapse(ui) ELSE expand(ui)
    /\ UNCHANGED clLate

\* The bar of filters is built anew: sections are open as stored.
create_favefox_style_filter_bar ==
    /\ clUi.kind = "filter" /\ ClInput
    /\ LET open == clUi.stored
       IN clUi' = [clUi EXCEPT !.expanded = open, !.hidden = ~open, !.height = IF open THEN AutoHeight ELSE 0,
                               !.last = clUi.size, !.moving = FALSE, !.told = IF open THEN "opened" ELSE "closed"]
    /\ clRuns' = {}
    /\ clLate' = [frames |-> {}, listeners |-> {}]

ClContent(size) ==
    /\ size # clUi.size /\ ClInput
    /\ clUi' = [clUi EXCEPT !.size = size]
    /\ UNCHANGED <<clRuns, clLate>>

\* The observer of an opened element at rest that has grown or shrunk.
maybeAttachResizeObserver ==
    /\ clUi.expanded /\ ~clUi.moving /\ clUi.height = AutoHeight /\ clUi.last # clUi.size
    /\ animateHeight(clUi, clUi.last, clUi.size, TRUE, "nothing", TRUE)
    /\ UNCHANGED <<clLate, clCounts>>

\* sync of the bar: without a difference the styles are restored though a frame may be asked.
sync ==
    /\ clUi.kind = "bar" /\ clCounts.inputs < ClMaxInputs
    /\ clCounts' = [clCounts EXCEPT !.inputs = @ + 1,
                                    !.late = @ \/ (clUi.size = clUi.last /\ \E r \in clRuns : r.phase = "asked")]
    /\ IF clUi.size = clUi.last THEN clUi' = restoreExpandedStyles(clUi) /\ UNCHANGED clRuns
       ELSE animateHeight(clUi, clUi.last, clUi.size, TRUE, "nothing", FALSE)
    /\ UNCHANGED clLate
-----------------------------------------------------------------------------
(* Frames, timers and events *)

ClFrame(r) ==
    /\ r.phase = "asked"
    /\ clUi' = [clUi EXCEPT !.height = r.to]
    /\ clRuns' = (clRuns \ {r}) \cup {[r EXCEPT !.phase = "runs"]}
    /\ UNCHANGED <<clLate, clCounts>>

\* finishTransition: without effect once the styles were restored; a frame not come yet is left over.
ClEnded(to, auto, says) == clUi' = IF clUi.moving THEN ClFinished(clUi, to, auto, says) ELSE ClSaid(clUi, says)

finishTransition(r) ==
    /\ ClEnded(r.to, r.auto, r.says)
    /\ clRuns' = clRuns \ {r}
    /\ clLate' = IF r.phase = "asked" THEN [clLate EXCEPT !.frames = @ \cup {r}] ELSE clLate
    /\ clCounts' = [clCounts EXCEPT !.late = @ \/ r.phase = "asked"]

ClLateFrame(r) ==
    /\ r \in clLate.frames
    /\ clUi' = [clUi EXCEPT !.height = r.to]
    /\ clLate' = [frames |-> clLate.frames \ {r}, listeners |-> clLate.listeners \cup {r}]
    /\ UNCHANGED <<clRuns, clCounts>>

\* A left-over listener ends the animation of another with its own target.
onTransitionEnd(late, r) ==
    /\ r.phase = "runs"
    /\ ClEnded(late.to, late.auto, r.says)
    /\ clRuns' = clRuns \ {r}
    /\ UNCHANGED <<clLate, clCounts>>

ClNext ==
    \/ setExpanded \/ toggle \/ create_favefox_style_filter_bar \/ (\E size \in Sizes : ClContent(size)) \/ maybeAttachResizeObserver \/ sync
    \/ \E r \in clRuns : ClFrame(r) \/ finishTransition(r)
    \/ \E r \in clLate.frames : ClLateFrame(r)
    \/ \E late \in clLate.listeners, r \in clRuns : onTransitionEnd(late, r)
-----------------------------------------------------------------------------
ClTypeOK ==
    /\ clUi \in [kind : ClKinds, stored : BOOLEAN, reduced : BOOLEAN, expanded : BOOLEAN, hidden : BOOLEAN, size : Sizes,
                 height : Sizes \cup {AutoHeight}, last : Sizes, moving : BOOLEAN, told : ClSays]
    /\ clRuns \subseteq [phase : {"asked", "runs"}, to : Sizes, auto : BOOLEAN, says : ClSays]
    /\ clLate.frames \cup clLate.listeners \subseteq [phase : {"asked"}, to : Sizes, auto : BOOLEAN, says : ClSays]
    /\ clCounts \in [inputs : 0..ClMaxInputs, late : BOOLEAN]

\* However often it was clicked while it moved: at rest an opened element is shown with the
\* height of its content, a closed one is hidden with none, and those who listen were told last
\* what it is (as long as the frame of an animation comes before its timer).
ClShownAsAsked ==
    clRuns = {} /\ ~clCounts.late =>
       /\ clUi.hidden = ~clUi.expanded
       /\ clUi.height = IF clUi.expanded THEN AutoHeight ELSE 0
       /\ clUi.told = IF clUi.expanded THEN "opened" ELSE "closed"
       /\ clUi.kind = "filter" => clUi.stored = clUi.expanded
=============================================================================
