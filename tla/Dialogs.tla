------------------------------- MODULE Dialogs -------------------------------
(***************************************************************************)
(* The one dialog of the application.  Every caller puts its content into    *)
(* the same overlay: a question is a promise that settles when the user      *)
(* answers or closes it, a plain dialog is a form or a notice of another     *)
(* part.  The overlay keeps the element that had the focus, and gives the    *)
(* focus back when it is hidden.  Focus is set by timers.                    *)
(***************************************************************************)
EXTENDS Naturals

CONSTANTS DiMaxQuestions  \* bound: questions asked

VARIABLES
    diQuestion,  \* how far each question is
    diLost,      \* questions whose dialog another caller replaced or hid
    diOverlay,   \* whether the overlay is shown, and whose content it has
    diFocus      \* where the focus is, what will get it back, the timers
             \* that move it into a dialog and back to the page, and whether it may go astray
diVars == <<diQuestion, diLost, diOverlay, diFocus>>

Questions == 1..DiMaxQuestions
Plain == 0
Open == {q \in Questions : diQuestion[q] = "open"}
InDialog == diOverlay.shown /\ diOverlay.content \in Open

DiInit ==
    /\ diQuestion = [q \in Questions |-> "none"]
    /\ diLost = {}
    /\ diOverlay = [shown |-> FALSE, content |-> Plain]
    /\ diFocus = [at |-> "page", remembered |-> "nothing", timers |-> {}, back |-> FALSE, astray |-> FALSE]
-----------------------------------------------------------------------------
(* Showing and hiding *)

\* createModal empties the overlay first: focus that was in it falls to the body, and that is what
\* showModal then remembers.
AtWhenShown == IF diFocus.at = "dialog" THEN "body" ELSE diFocus.at
showModal(c) ==
    /\ diOverlay' = [shown |-> TRUE, content |-> c]
    /\ diFocus' = [at |-> AtWhenShown, remembered |-> AtWhenShown, timers |-> diFocus.timers \cup {c},
                   back |-> diFocus.back, astray |-> diFocus.astray \/ AtWhenShown # "page"]

\* What is still open in the overlay loses its dialog, and nobody is told.
Replaced == IF InDialog THEN {diOverlay.content} ELSE {}

restoreFocusAfterModalClose(f) ==
    [f EXCEPT !.remembered = "nothing", !.back = @ \/ f.remembered = "page"]
hideModal ==
    /\ diOverlay' = [diOverlay EXCEPT !.shown = FALSE]
    /\ diFocus' = restoreFocusAfterModalClose(diFocus)
-----------------------------------------------------------------------------
(* Questions *)

ask(q) ==
    /\ diQuestion[q] = "none" /\ \A p \in Questions : p < q => diQuestion[p] # "none"
    /\ diQuestion' = [diQuestion EXCEPT ![q] = "open"]
    /\ diLost' = diLost \cup Replaced
    /\ showModal(q)
\* The two kinds of question differ in what they ask for.
showConfirmModal(q) == ask(q)
showInputModal(q) == ask(q)

\* finish: a question settles once; the listeners of the others stay.
finish(qs, answer) ==
    /\ diQuestion' = [q \in Questions |-> IF q \in qs \cap Open THEN answer ELSE diQuestion[q]]
    /\ UNCHANGED diLost

confirm == InDialog /\ finish({diOverlay.content}, "yes") /\ hideModal
\* The button to cancel, and the close button of a question.
cancel == InDialog /\ finish({diOverlay.content}, "no") /\ hideModal

\* Every open question listens to the Escape key and to the overlay, the lost ones too.
OverlayOnly == {}
Listening == Open
pressEscape ==
    /\ diOverlay.shown \/ Open # {}
    /\ finish(Listening, "no")
    /\ hideModal
clickOverlay ==
    /\ diOverlay.shown
    /\ finish(Listening, "no")
    /\ hideModal
-----------------------------------------------------------------------------
(* Plain dialogs of other parts *)

showPlain ==
    /\ diLost' = diLost \cup Replaced
    /\ showModal(Plain)
    /\ UNCHANGED diQuestion
closePlain ==
    /\ diOverlay.shown /\ diOverlay.content = Plain
    /\ hideModal
    /\ UNCHANGED <<diQuestion, diLost>>

\* A part whose work has ended hides the dialog, whosever it is.
hideElsewhere ==
    /\ diOverlay.shown
    /\ diLost' = diLost \cup Replaced
    /\ hideModal
    /\ UNCHANGED diQuestion
-----------------------------------------------------------------------------
(* Focus *)

\* focusModalSurface: the element is gone when another dialog was put in its place.
focusDialog(c) ==
    /\ c \in diFocus.timers
    /\ diFocus' = [diFocus EXCEPT !.timers = @ \ {c},
                   !.at = IF diOverlay.shown /\ diOverlay.content = c THEN "dialog" ELSE @]
    /\ UNCHANGED <<diQuestion, diLost, diOverlay>>
focusPage ==
    /\ diFocus.back
    /\ diFocus' = [diFocus EXCEPT !.back = FALSE, !.at = "page"]
    /\ UNCHANGED <<diQuestion, diLost, diOverlay>>

\* handleModalKeyboardEvent: the Tab key stays in the dialog, and comes back to it.
pressTab ==
    /\ diOverlay.shown /\ diFocus.at # "dialog"
    /\ diFocus' = [diFocus EXCEPT !.at = "dialog"]
    /\ UNCHANGED <<diQuestion, diLost, diOverlay>>

\* The browser takes the focus from an element that is no longer drawn.
dropHiddenFocus ==
    /\ ~diOverlay.shown /\ diFocus.at = "dialog"
    /\ diFocus' = [diFocus EXCEPT !.at = "body"]
    /\ UNCHANGED <<diQuestion, diLost, diOverlay>>

\* The element that had the focus is taken from the page, and cannot get it back.
removeFromPage ==
    /\ diFocus.at = "page" \/ diFocus.remembered = "page" \/ diFocus.back
    /\ diFocus' = [at |-> IF diFocus.at = "page" THEN "body" ELSE diFocus.at,
                   remembered |-> IF diFocus.remembered = "page" THEN "removed" ELSE diFocus.remembered,
                   timers |-> diFocus.timers, back |-> FALSE, astray |-> TRUE]
    /\ UNCHANGED <<diQuestion, diLost, diOverlay>>

useThePage ==
    /\ ~diOverlay.shown /\ diFocus.at # "page"
    /\ diFocus' = [diFocus EXCEPT !.at = "page", !.astray = FALSE]
    /\ UNCHANGED <<diQuestion, diLost, diOverlay>>

DiNext ==
    \/ \E q \in Questions : showConfirmModal(q) \/ showInputModal(q) \/ focusDialog(q)
    \/ confirm \/ cancel \/ pressEscape \/ clickOverlay
    \/ showPlain \/ closePlain \/ hideElsewhere \/ focusDialog(Plain)
    \/ focusPage \/ pressTab \/ dropHiddenFocus \/ removeFromPage \/ useThePage
-----------------------------------------------------------------------------
Places == {"page", "dialog", "body"}
DiTypeOK ==
    /\ diQuestion \in [Questions -> {"none", "open", "yes", "no"}]
    /\ diLost \subseteq Questions
    /\ diOverlay \in [shown : BOOLEAN, content : Questions \cup {Plain}]
    /\ diFocus.at \in Places /\ diFocus.remembered \in {"nothing", "page", "body", "removed"}
    /\ diFocus.timers \subseteq Questions \cup {Plain}
    /\ diFocus.back \in BOOLEAN /\ diFocus.astray \in BOOLEAN

\* A question that waits for its answer can be answered, unless another caller took its dialog away;
\* and at rest the focus is where it was before the dialogs, unless one was opened from the body or
\* from another, or the page lost the element.
DiQuestionsAndFocusHold ==
    /\ \A q \in Open \ diLost : diOverlay.shown /\ diOverlay.content = q
    /\ ~diOverlay.shown /\ diFocus.timers = {} /\ ~diFocus.back /\ ~diFocus.astray => diFocus.at = "page"
=============================================================================
