------------------------------ MODULE Languages ------------------------------
(***************************************************************************)
(* The language of the page.  Choosing a language fetches the English texts  *)
(* and the texts of the language, then translates what is on the page and    *)
(* draws the cards and the dataset's values again one after the other; the   *)
(* observer translates what is added meanwhile.  In development, a text that *)
(* is missing is asked of the AI, and a text may be edited in place.  One    *)
(* translation key stands for all.                                           *)
(***************************************************************************)
EXTENDS Integers, FiniteSets

CONSTANTS LnMaxChoices,  \* bound: languages chosen
          LnMaxInputs    \* bound: elements added, editors opened

VARIABLES
    lnServer,  \* the texts stored, and whether the language xx is unknown to the server
    lnPage,    \* the language, the texts in memory and what the page shows
    lnJobs,    \* requests and renders under way, the AI request, the editor
    lnCounts   \* inputs so far, the newest request
lnVars == <<lnServer, lnPage, lnJobs, lnCounts>>

Languages == {"en", "fi", "xx"}
Generated == {"en", "fi"}  \* the languages the AI answers with, whatever was asked
LnVersions == {"none", "old", "new"}
NoText == <<"key", "none">>  \* the key itself is shown
Text(l, version) == IF version = "none" THEN NoText ELSE <<l, version>>
LnTexts == {NoText} \cup Languages \X {"old", "new"}
Untranslated == <<"plain", "none">>
NotThere == <<"absent", "none">>

Rendering == {"cards", "values"}
Fetching == {"english", "texts"}
LnRequests == [n : 1..(2 * LnMaxChoices), lang : Languages, stage : Fetching \cup {"queued"} \cup Rendering,
             english : LnTexts, texts : LnTexts]
NoTextEditor == [open |-> FALSE, fields |-> [l \in Generated |-> "none"]]
-----------------------------------------------------------------------------
(* Texts *)

\* resolveTranslation: the text of the language, else the English one, else the key.
BestText(texts, english) == IF texts # NoText THEN texts ELSE english

\* translateElement, on the element of the page that carries the key.
Translated(p) ==
    IF p.shown = NotThere THEN p
    ELSE LET best == BestText(p.texts, p.english)
         IN  [p EXCEPT !.shown = best, !.missing = @ \/ best = NoText]

LnInit ==
    /\ \E text \in [Languages -> {"none", "old"}], gone \in BOOLEAN :
          (gone => text["xx"] = "none") /\ lnServer = [text |-> text, gone |-> gone]
    /\ \E dev \in BOOLEAN, suppressed \in SUBSET {"fi"}, shown \in {NotThere, Untranslated} :
          (suppressed # {} => dev) /\ lnPage = [dev |-> dev, current |-> "en", texts |-> NoText, english |-> NoText, shown |-> shown,
                    cards |-> "en", values |-> "en", observing |-> FALSE, missing |-> FALSE,
                    suppressed |-> suppressed, editable |-> FALSE, spoiled |-> FALSE]
    /\ lnJobs = [requests |-> {}, ai |-> "none", editor |-> NoTextEditor, opening |-> 0, saves |-> {}]
    /\ lnCounts = [choices |-> 0, inputs |-> 0, newest |-> 0, wanted |-> "en", failed |-> TRUE]

EveryRequest(r) == r.n > 0
requestIsCurrent(r) == r.n = lnCounts.newest

Rest == UNCHANGED lnServer
Step(r, stage) == (lnJobs.requests \ {r}) \cup {[r EXCEPT !.stage = stage]}
Dropped(r) == lnJobs' = [lnJobs EXCEPT !.requests = @ \ {r}]
Fetch(requests, l, n) ==
    requests \cup {[n |-> n, lang |-> l, stage |-> IF l = "en" THEN "texts" ELSE "english",
                    english |-> lnPage.english, texts |-> NoText]}
-----------------------------------------------------------------------------
(* A language is chosen *)

\* A radio of a language panel: the choice is stored and the page translated.
setLanguage(l) ==
    /\ lnCounts.choices < LnMaxChoices
    /\ lnCounts' = [lnCounts EXCEPT !.choices = @ + 1, !.newest = @ + 1, !.wanted = l, !.failed = FALSE]
    /\ lnJobs' = [lnJobs EXCEPT !.requests = Fetch(@, l, lnCounts.newest + 1)]
    /\ UNCHANGED lnPage /\ Rest

\* The English texts arrive, or do not; a request that is no longer the newest ends here.
englishArrives(r) ==
    /\ r.stage = "english"
    /\ \/ ~requestIsCurrent(r) /\ Dropped(r)
       \/ /\ requestIsCurrent(r)
          /\ \E english \in {NoText, Text("en", lnServer.text["en"])} :
                lnJobs' = [lnJobs EXCEPT !.requests = (@ \ {r}) \cup {[r EXCEPT !.stage = "texts", !.english = english]}]
    /\ UNCHANGED <<lnPage, lnCounts>> /\ Rest

textsArrive(r) ==
    /\ r.stage = "texts" /\ ~(r.lang = "xx" /\ lnServer.gone)
    /\ \/ ~requestIsCurrent(r) /\ Dropped(r)
       \/ /\ requestIsCurrent(r)
          /\ lnJobs' = [lnJobs EXCEPT !.requests = (@ \ {r}) \cup
                         {[r EXCEPT !.stage = "queued", !.texts = Text(r.lang, lnServer.text[r.lang])]}]
    /\ UNCHANGED <<lnPage, lnCounts>> /\ Rest

\* An unknown language falls back to English with a request of its own.
languageUnknown(r) ==
    /\ r.stage = "texts" /\ r.lang = "xx" /\ lnServer.gone
    /\ \/ ~requestIsCurrent(r) /\ Dropped(r) /\ UNCHANGED lnCounts
       \/ /\ requestIsCurrent(r)
          /\ lnCounts' = [lnCounts EXCEPT !.newest = @ + 1, !.wanted = "en"]
          /\ lnJobs' = [lnJobs EXCEPT !.requests = Fetch(@ \ {r}, "en", lnCounts.newest + 1)]
    /\ UNCHANGED lnPage /\ Rest

textsFail(r) ==
    /\ r.stage = "texts"
    /\ Dropped(r)
    /\ lnCounts' = [lnCounts EXCEPT !.failed = @ \/ requestIsCurrent(r)]
    /\ UNCHANGED lnPage /\ Rest
-----------------------------------------------------------------------------
(* The page is translated: one render at a time, and each to its end *)

translateElements(r) ==
    /\ r.stage = "queued" /\ \A q \in lnJobs.requests : q.stage \notin Rendering
    /\ \/ ~requestIsCurrent(r) /\ Dropped(r) /\ UNCHANGED lnPage
       \/ /\ requestIsCurrent(r)
          /\ lnPage' = Translated([lnPage EXCEPT !.english = r.english, !.texts = r.texts, !.current = r.lang,
                                                 !.missing = FALSE, !.observing = TRUE])
          /\ lnJobs' = [lnJobs EXCEPT !.requests = Step(r, "cards")]
    /\ UNCHANGED lnCounts /\ Rest

refreshCardLanguages(r) ==
    /\ r.stage = "cards"
    /\ lnPage' = [lnPage EXCEPT !.cards = r.lang]
    /\ lnJobs' = [lnJobs EXCEPT !.requests = Step(r, "values")]
    /\ UNCHANGED lnCounts /\ Rest

refreshLocalizedDatasetValues(r) ==
    /\ r.stage = "values"
    /\ lnPage' = [lnPage EXCEPT !.values = r.lang, !.editable = @ \/ (lnPage.dev /\ requestIsCurrent(r))]
    /\ Dropped(r)
    /\ UNCHANGED lnCounts /\ Rest

\* The observer: an element added is translated at once with the texts in memory; a text that
\* is missing is asked for in development 300 ms after the last change of the page.
observeDomChanges ==
    /\ lnCounts.inputs < LnMaxInputs /\ lnPage.shown = NotThere
    /\ lnCounts' = [lnCounts EXCEPT !.inputs = @ + 1]
    /\ IF lnPage.observing
       THEN LET p == Translated([lnPage EXCEPT !.shown = Untranslated]) IN
            /\ lnPage' = IF p.dev THEN p ELSE [p EXCEPT !.missing = FALSE]
            /\ lnJobs' = IF p.dev /\ p.missing /\ lnJobs.ai = "none" THEN [lnJobs EXCEPT !.ai = "timer"] ELSE lnJobs
       ELSE lnPage' = [lnPage EXCEPT !.shown = Untranslated] /\ UNCHANGED lnJobs
    /\ Rest
-----------------------------------------------------------------------------
(* The AI *)

\* A key is asked for once in the life of the page, and not for a language it failed for.
aiTimer ==
    /\ lnJobs.ai = "timer"
    /\ lnJobs' = [lnJobs EXCEPT !.ai = IF ~lnPage.missing \/ lnPage.current \in lnPage.suppressed THEN "none" ELSE "asked"]
    /\ lnPage' = [lnPage EXCEPT !.missing = FALSE]
    /\ UNCHANGED lnCounts /\ Rest

\* saveMultiLangTranslationToDatabase: a text that is there already is kept.
AiTextsStored == [lnServer EXCEPT !.text = [l \in Languages |-> IF l \in Generated /\ @[l] = "none" THEN "new" ELSE @[l]]]

\* The answer holds English and Finnish, which the server has stored: it goes into the texts of
\* whatever language is the current one by then, and all is translated again; spoiled where the
\* server has kept another text than the one answered.
aiAnswers ==
    /\ lnJobs.ai = "asked"
    /\ lnServer' = AiTextsStored
    /\ lnPage' = [Translated([lnPage EXCEPT !.texts = Text(IF lnPage.current \in Generated THEN lnPage.current ELSE "en", "new")])
                    EXCEPT !.missing = lnPage.missing, !.spoiled = @ \/ lnJobs.requests # {} \/ lnJobs.saves # {}
                                                                         \/ (lnPage.current \in Generated /\ lnServer.text[lnPage.current] # "none")]
    /\ lnJobs' = [lnJobs EXCEPT !.ai = "done"]
    /\ UNCHANGED lnCounts

\* No text, or an error: with no text the key is suppressed for the language of the moment.
aiFails ==
    /\ lnJobs.ai = "asked"
    /\ lnPage' \in {lnPage, [lnPage EXCEPT !.suppressed = @ \cup {lnPage.current}]}
    /\ lnJobs' = [lnJobs EXCEPT !.ai = "done"]
    /\ UNCHANGED lnCounts /\ Rest

\* An error, or no answer, with the texts stored all the same.
aiAnswerLost ==
    /\ lnJobs.ai = "asked"
    /\ lnServer' = AiTextsStored
    /\ lnPage' = [lnPage EXCEPT !.spoiled = TRUE]
    /\ lnJobs' = [lnJobs EXCEPT !.ai = "done"]
    /\ UNCHANGED lnCounts
-----------------------------------------------------------------------------
(* The editor of a text *)

openEditor ==
    /\ lnPage.editable /\ lnPage.shown # NotThere /\ lnCounts.inputs < LnMaxInputs
    /\ lnCounts' = [lnCounts EXCEPT !.inputs = @ + 1]
    /\ lnJobs' = [lnJobs EXCEPT !.editor = NoTextEditor, !.opening = @ + 1]  \* an open one is closed
    /\ UNCHANGED lnPage /\ Rest

editorOpens ==
    /\ lnJobs.opening > 0
    /\ lnJobs' = [lnJobs EXCEPT !.opening = @ - 1,
                    !.editor = [open |-> TRUE, fields |-> [l \in Generated |-> lnServer.text[l]]]]
    /\ UNCHANGED <<lnPage, lnCounts>> /\ Rest

\* The AI of the editor fills the fields that are empty; the user writes any.
fillEmptyFields ==
    /\ lnJobs.editor.open
    /\ \E l \in Generated : lnJobs.editor.fields[l] = "none"
    /\ lnJobs' = [lnJobs EXCEPT !.editor.fields = [l \in Generated |-> IF @[l] = "none" THEN "new" ELSE @[l]]]
    /\ UNCHANGED <<lnPage, lnCounts>> /\ Rest
writeField(l) ==
    /\ lnJobs.editor.open /\ lnJobs.editor.fields[l] # "new"
    /\ lnJobs' = [lnJobs EXCEPT !.editor.fields[l] = "new"]
    /\ UNCHANGED <<lnPage, lnCounts>> /\ Rest

saveEditor ==
    /\ lnJobs.editor.open /\ lnJobs.editor.fields \notin lnJobs.saves
    /\ lnServer' = [lnServer EXCEPT !.text = [l \in Languages |-> IF l \in Generated THEN lnJobs.editor.fields[l] ELSE @[l]]]
    /\ lnJobs' = [lnJobs EXCEPT !.saves = @ \cup {lnJobs.editor.fields}]
    /\ lnPage' = [lnPage EXCEPT !.spoiled = @ \/ lnJobs.saves # {} \/ lnJobs.ai = "asked"]
    /\ UNCHANGED lnCounts

\* Saved: the texts in memory follow and the elements of the key are translated again, and the
\* editor open by now is closed.  During a change of language they are the texts of before.
editorSaved(f) ==
    /\ LET p == [lnPage EXCEPT !.texts = IF lnPage.current \in Generated THEN Text(lnPage.current, f[lnPage.current]) ELSE @,
                               !.english = Text("en", f["en"])]
       IN  lnPage' = IF lnJobs.requests = {} THEN Translated(p) ELSE [lnPage EXCEPT !.spoiled = TRUE]
    /\ lnJobs' = [lnJobs EXCEPT !.editor = NoTextEditor, !.saves = @ \ {f}]
    /\ UNCHANGED lnCounts /\ Rest

LnNext ==
    \/ \E l \in Languages : setLanguage(l)
    \/ \E r \in lnJobs.requests :
          \/ englishArrives(r) \/ textsArrive(r) \/ languageUnknown(r) \/ textsFail(r)
          \/ translateElements(r) \/ refreshCardLanguages(r) \/ refreshLocalizedDatasetValues(r)
    \/ observeDomChanges \/ aiTimer \/ aiAnswers \/ aiFails \/ aiAnswerLost
    \/ openEditor \/ editorOpens \/ fillEmptyFields \/ (\E l \in Generated : writeField(l)) \/ saveEditor
    \/ \E f \in lnJobs.saves : editorSaved(f)
-----------------------------------------------------------------------------
LnTypeOK ==
    /\ lnServer \in [text : [Languages -> LnVersions], gone : BOOLEAN]
    /\ lnPage \in [dev : BOOLEAN, current : Languages, texts : LnTexts, english : LnTexts,
                   shown : LnTexts \cup {NotThere, Untranslated}, cards : Languages, values : Languages,
                   observing : BOOLEAN, missing : BOOLEAN, suppressed : SUBSET Languages, editable : BOOLEAN,
                   spoiled : BOOLEAN]
    /\ lnJobs.requests \subseteq LnRequests
    /\ lnJobs.ai \in {"none", "timer", "asked", "done"} /\ lnJobs.opening \in 0..LnMaxInputs
    /\ lnJobs.editor \in [open : BOOLEAN, fields : [Generated -> LnVersions]]
    /\ lnJobs.saves \subseteq [Generated -> LnVersions]
    /\ lnCounts \in [choices : 0..LnMaxChoices, inputs : 0..LnMaxInputs, newest : 0..(2 * LnMaxChoices),
                     wanted : Languages, failed : BOOLEAN]

\* With no request and no render under way, the page is in the language chosen last (in English
\* if the server knows it not), or, if its texts could not be fetched, all in one language still;
\* the elements show the best text in memory, in that language if it has one; whatever the order
\* in which the texts arrived and whatever was chosen during a render.
LnShownAsChosen ==
    lnJobs.requests = {} =>
        /\ lnCounts.failed \/ lnPage.current = lnCounts.wanted
        /\ lnPage.cards = lnPage.current /\ lnPage.values = lnPage.current
        /\ (lnPage.observing /\ lnPage.shown # NotThere) => lnPage.shown = BestText(lnPage.texts, lnPage.english)
        /\ (~lnPage.spoiled /\ lnPage.observing /\ lnPage.current \in Generated /\ lnJobs.saves = {})
              => lnPage.texts = Text(lnPage.current, lnServer.text[lnPage.current])
=============================================================================
