----------------------------- MODULE FilterPanel -----------------------------
(***************************************************************************)
(* What a user arranges in the filter panel of a table.  Two parts that      *)
(* share no variables:                                                       *)
(*                                                                           *)
(* The field sets: which fields are hidden, chosen field by field in the     *)
(* picker or by a stored set.  The list of the sets is read when it is first *)
(* needed and again after a set is saved; a set of the same name is replaced *)
(* only when the user says so.                                               *)
(*                                                                           *)
(* The sections: dragged into another order and collapsed, each change saved *)
(* 200 ms after the last one; the stored layout is read when the panel is    *)
(* built and applied when it arrives.                                        *)
(***************************************************************************)
EXTENDS Integers, SequencesExt

CONSTANTS FsMaxSaves,   \* bound: sets saved, updated or deleted
          FsMaxInputs,  \* bound: fields toggled, sets chosen
          SoMaxChanges  \* bound: sections dragged or toggled

VARIABLES
    fsServer,  \* the sets stored
    fsUi,      \* the fields hidden (stored, applied and in the picker), the list and the prompts
    fsCalls,   \* lists, saves and deletions under way
    fsCounts,  \* inputs so far
    soServer,  \* the layout stored
    soPanel,   \* the panel: order, collapsed sections, the section dragged, the save timer
    soCalls,   \* the load and the saves under way
    soCounts   \* changes so far
fsVars == <<fsServer, fsUi, fsCalls, fsCounts>>
soVars == <<soServer, soPanel, soCalls, soCounts>>

Fields == {1}
SetNames == {"a", "A", "b"}
SameName(n, m) == n = m \/ {n, m} = {"a", "A"}  \* names are compared in lower case, and stored as written
NoSet == {0}
Contents == SUBSET Fields
Stored == [SetNames -> Contents \cup {NoSet}]
NamesIn(sets) == {n \in SetNames : sets[n] # NoSet}
NoSelection == "none"
NoPrompt == [stage |-> "none", name |-> NoSelection]
FsCall(kind, name, content) == [kind |-> kind, name |-> name, content |-> content, served |-> FALSE,
                                ok |-> TRUE, answer |-> [n \in SetNames |-> NoSet], asked |-> TRUE]

FsInit ==
    /\ fsServer \in {s \in Stored : s["A"] = NoSet}
    /\ \E hidden \in Contents :
          fsUi = [hidden |-> hidden, style |-> hidden, picker |-> Fields \ hidden, selected |-> NoSelection,
                  presets |-> [n \in SetNames |-> NoSet], loaded |-> FALSE, waiting |-> FALSE, prompt |-> NoPrompt,
                  elsewhere |-> FALSE, late |-> FALSE, overwrote |-> FALSE]
    /\ fsCalls = {}
    /\ fsCounts = [saves |-> 0, inputs |-> 0]

FsSave == fsCounts.saves < FsMaxSaves /\ fsCounts' = [fsCounts EXCEPT !.saves = @ + 1]
FsInput == fsCounts.inputs < FsMaxInputs /\ fsCounts' = [fsCounts EXCEPT !.inputs = @ + 1]
FsSame == UNCHANGED <<fsServer, fsCounts>>
AtRest == fsUi.prompt.stage = "none"  \* no modal covers the page
findPresetByName(n) == {m \in NamesIn(fsUi.presets) : SameName(n, m)}

\* The fields of a set or of the picker become the fields hidden, and are applied at once.
Hidden(u, hidden) == [u EXCEPT !.hidden = hidden, !.style = hidden, !.picker = Fields \ hidden, !.elsewhere = FALSE]
renderSelect(u, keep) == [u EXCEPT !.selected = IF keep \in NamesIn(u.presets) THEN keep ELSE NoSelection]
-----------------------------------------------------------------------------
(* Fields *)

commitFieldSelection(f) ==
    /\ AtRest /\ FsInput
    /\ LET visible == IF f \in fsUi.picker THEN fsUi.picker \ {f} ELSE fsUi.picker \cup {f}
       IN  fsUi' = Hidden(fsUi, Fields \ visible)
    /\ UNCHANGED <<fsServer, fsCalls>>

\* A box of the filter list: the picker is not told.
setColumnVisibility(f, shouldShow) ==
    /\ AtRest /\ FsInput
    /\ LET hidden == IF shouldShow THEN fsUi.hidden \ {f} ELSE fsUi.hidden \cup {f}
       IN  fsUi' = [fsUi EXCEPT !.hidden = hidden, !.style = hidden, !.elsewhere = TRUE]
    /\ UNCHANGED <<fsServer, fsCalls>>

choosePreset(n) ==
    /\ AtRest /\ n \in NamesIn(fsUi.presets) /\ n # fsUi.selected /\ FsInput
    /\ fsUi' = [Hidden(fsUi, fsUi.presets[n]) EXCEPT !.selected = n]
    /\ UNCHANGED <<fsServer, fsCalls>>

clearFieldSet ==
    /\ AtRest /\ FsInput
    /\ fsUi' = [Hidden(fsUi, {}) EXCEPT !.selected = NoSelection]
    /\ UNCHANGED <<fsServer, fsCalls>>
-----------------------------------------------------------------------------
(* The list *)

FirstLoad == \E c \in fsCalls : c.kind = "first"
\* The list is read once, and whoever waits for it goes on when it is there.
ensurePresetsLoaded(calls) == IF fsUi.loaded \/ FirstLoad THEN calls ELSE calls \cup {FsCall("first", NoSelection, NoSet)}

lazyLoadPresets ==
    /\ AtRest /\ ~fsUi.loaded /\ ~FirstLoad
    /\ fsCalls' = ensurePresetsLoaded(fsCalls)
    /\ UNCHANGED fsUi /\ FsSame

Prompted(u) == [u EXCEPT !.prompt = [stage |-> "name", name |-> NoSelection]]

\* loadPresets: an answer, or no list at all; the set selected stays so while it is in the list,
\* and after a save the set of that name is selected.
loadPresets(c) ==
    /\ c.kind \in {"first", "list"} /\ c.served
    /\ LET u == [fsUi EXCEPT !.presets = c.answer, !.loaded = TRUE, !.waiting = @ /\ c.kind # "first",
                             !.late = @ \/ c.answer # fsServer]
           kept == renderSelect(u, u.selected)
           found == {m \in NamesIn(u.presets) : SameName(c.name, m)}
       IN  \E selected \in IF found = {} THEN {kept.selected} ELSE found :
              LET shown == [kept EXCEPT !.selected = selected]
              IN  fsUi' = IF c.kind = "first" /\ fsUi.waiting THEN Prompted(shown) ELSE shown
    /\ fsCalls' = fsCalls \ {c}
    /\ FsSame
-----------------------------------------------------------------------------
(* Saving *)

saveNew ==
    /\ AtRest /\ ~fsUi.waiting
    /\ fsCalls' = ensurePresetsLoaded(fsCalls)
    /\ fsUi' = IF fsUi.loaded THEN Prompted(fsUi) ELSE [fsUi EXCEPT !.waiting = TRUE]
    /\ FsSame

doSaveSet(n, u, asked) ==
    /\ FsSave
    /\ fsUi' = [u EXCEPT !.prompt = NoPrompt]
    /\ fsCalls' = {[c EXCEPT !.asked = TRUE] : c \in fsCalls} \cup {[FsCall("save", n, fsUi.hidden) EXCEPT !.asked = asked]}
    /\ UNCHANGED fsServer

promptName(n) ==
    /\ fsUi.prompt.stage = "name"
    /\ IF findPresetByName(n) # {}
       THEN fsUi' = [fsUi EXCEPT !.prompt = [stage |-> "replace", name |-> n]] /\ UNCHANGED <<fsServer, fsCalls, fsCounts>>
       ELSE doSaveSet(n, fsUi, fsUi.presets # fsServer \/ \E c \in fsCalls : c.kind = "save")
confirmReplace == fsUi.prompt.stage = "replace" /\ doSaveSet(fsUi.prompt.name, fsUi, TRUE)
confirmDelete ==
    /\ fsUi.prompt.stage = "delete" /\ FsSave
    /\ fsUi' = [fsUi EXCEPT !.prompt = NoPrompt]
    /\ fsCalls' = fsCalls \cup {FsCall("delete", fsUi.prompt.name, NoSet)}
    /\ UNCHANGED fsServer
cancelPrompt ==
    /\ ~AtRest
    /\ fsUi' = [fsUi EXCEPT !.prompt = NoPrompt]
    /\ UNCHANGED fsCalls /\ FsSame

updatePreset == AtRest /\ fsUi.selected # NoSelection /\ doSaveSet(fsUi.selected, fsUi, TRUE)
deletePreset ==
    /\ AtRest /\ fsUi.selected # NoSelection
    /\ fsUi' = [fsUi EXCEPT !.prompt = [stage |-> "delete", name |-> fsUi.selected]]
    /\ UNCHANGED fsCalls /\ FsSame

FsAnswered(c, ok, answer) ==
    fsCalls' = (fsCalls \ {c}) \cup {[c EXCEPT !.served = TRUE, !.ok = ok, !.answer = answer]}

ListColumnViewPresetsHandler(c, ok) ==
    /\ c.kind \in {"first", "list"} /\ ~c.served
    /\ FsAnswered(c, ok, IF ok THEN fsServer ELSE c.answer)
    /\ UNCHANGED fsUi /\ FsSame

\* A save replaces the set of exactly that name.  It is answered before it is committed, and the
\* answer may be lost.
SaveColumnViewPresetHandler(c, ok, stored) ==
    /\ c.kind = "save" /\ ~c.served
    /\ FsAnswered(c, ok, c.answer)
    /\ fsServer' = IF stored THEN [fsServer EXCEPT ![c.name] = c.content] ELSE fsServer
    /\ fsUi' = [fsUi EXCEPT !.overwrote = @ \/ (stored /\ ~c.asked /\ fsServer[c.name] # NoSet)]
    /\ UNCHANGED fsCounts

\* The set is known by its row: one that was saved anew under the name stays.
DeleteColumnViewPresetHandler(c, ok, stored) ==
    /\ c.kind = "delete" /\ ~c.served
    /\ FsAnswered(c, ok, c.answer)
    /\ fsServer' = IF stored THEN [fsServer EXCEPT ![c.name] = NoSet] ELSE fsServer
    /\ UNCHANGED <<fsUi, fsCounts>>

\* A set saved is listed by reading the list again; a set deleted is taken out of it.
FsSaved(c) ==
    /\ c.kind = "save" /\ c.served
    /\ fsCalls' = (fsCalls \ {c}) \cup (IF c.ok THEN {FsCall("list", c.name, NoSet)} ELSE {})
    /\ fsUi' = [fsUi EXCEPT !.late = @ \/ (~c.ok /\ fsUi.presets # fsServer)]
    /\ FsSame

KeepPresets(c) == fsUi.presets
WithoutDeleted(c) == [fsUi.presets EXCEPT ![c.name] = NoSet]
FsDeleted(c) ==
    /\ c.kind = "delete" /\ c.served
    /\ LET u == [fsUi EXCEPT !.presets = WithoutDeleted(c)]
       IN  fsUi' = IF c.ok THEN [renderSelect(u, u.selected) EXCEPT !.late = @ \/ fsServer[c.name] # NoSet]
                   ELSE [fsUi EXCEPT !.late = @ \/ fsUi.presets # fsServer]
    /\ fsCalls' = fsCalls \ {c}
    /\ FsSame

FsNext ==
    \/ \E f \in Fields : commitFieldSelection(f) \/ (\E show \in BOOLEAN : setColumnVisibility(f, show))
    \/ clearFieldSet \/ lazyLoadPresets \/ saveNew \/ updatePreset \/ deletePreset
    \/ confirmReplace \/ confirmDelete \/ cancelPrompt
    \/ \E n \in SetNames : choosePreset(n) \/ promptName(n)
    \/ \E c \in fsCalls :
          \/ \E ok \in BOOLEAN : \/ ListColumnViewPresetsHandler(c, ok)
                                \/ \E stored \in BOOLEAN : \/ SaveColumnViewPresetHandler(c, ok, stored)
                                                          \/ DeleteColumnViewPresetHandler(c, ok, stored)
          \/ loadPresets(c) \/ FsSaved(c) \/ FsDeleted(c)
-----------------------------------------------------------------------------
FsTypeOK ==
    /\ fsServer \in Stored
    /\ fsUi \in [hidden : Contents, style : Contents, picker : Contents, selected : SetNames \cup {NoSelection},
                 presets : Stored, loaded : BOOLEAN, waiting : BOOLEAN, late : BOOLEAN, elsewhere : BOOLEAN,
                 overwrote : BOOLEAN,
                 prompt : [stage : {"none", "name", "replace", "delete"}, name : SetNames \cup {NoSelection}]]
    /\ fsCalls \subseteq [kind : {"first", "list", "save", "delete"}, name : SetNames \cup {NoSelection},
                          content : Contents \cup {NoSet}, served : BOOLEAN, ok : BOOLEAN, answer : Stored, asked : BOOLEAN]
    /\ fsCounts \in [saves : 0..FsMaxSaves, inputs : 0..FsMaxInputs]

\* A stored set is replaced only if the user chose to update it or said so, or if the list did
\* not show it at the time, or two saves overlap.  With nothing under way the list once read is
\* what is stored, unless an answer was none, false or already out of date when it arrived; the
\* set selected is one of the list.  What is hidden is what is stored as hidden, and what the
\* picker shows unless a box of the filter list changed it.
FsSetsAsStored ==
    /\ ~fsUi.overwrote
    /\ fsUi.selected # NoSelection => fsUi.selected \in NamesIn(fsUi.presets)
    /\ (fsCalls = {} /\ fsUi.loaded /\ ~fsUi.late) => fsUi.presets = fsServer
    /\ fsUi.style = fsUi.hidden
    /\ ~fsUi.elsewhere => fsUi.picker = Fields \ fsUi.hidden
-----------------------------------------------------------------------------
(* The sections of the panel *)

DefaultOrder == <<"views", "tools", "chat">>  \* three of the sections, in their order
LegacyOrder == <<"tools", "views", "chat">>   \* what used to be the default: read as the default
Sections == {"views", "tools", "chat"}
UnknownSection == "removed"                          \* a section the program no longer has
Orders == {o \in [1..3 -> Sections] : \A i, j \in 1..3 : o[i] = o[j] => i = j}
StoredOrders == Orders \cup {<<>>, <<"chat", "chat", "tools">>, <<UnknownSection, "chat">>}
Layout(order, collapsed) == [order |-> order, collapsed |-> collapsed]
NoDragged == "none"

\* normalizeFilterbarSectionOrder: the sections that exist, once each, then those left out.
KnownOnce(order) == SelectSeq(order, LAMBDA k : k \in Sections)
FirstOfEach(order) ==
    LET keep == {i \in DOMAIN order : \A j \in 1..(i - 1) : order[j] # order[i]}
    IN  [n \in 1..Cardinality(keep) |-> order[CHOOSE i \in keep : Cardinality({j \in keep : j <= i}) = n]]
LeftOut(order) == SelectSeq(DefaultOrder, LAMBDA k : \A i \in DOMAIN order : order[i] # k)
AsStored(order) == order
normalizeFilterbarSectionOrder(order) ==
    IF order = LegacyOrder THEN DefaultOrder
    ELSE LET known == FirstOfEach(KnownOnce(order)) IN known \o LeftOut(known)

SoInit ==
    /\ \E order \in StoredOrders, collapsed \in SUBSET {"tools"} : soServer = Layout(order, collapsed)
    /\ \E permitted \in BOOLEAN :
          /\ soPanel = [order |-> DefaultOrder, collapsed |-> {}, dragged |-> NoDragged, timer |-> FALSE,
                        permitted |-> permitted, loaded |-> FALSE, changed |-> FALSE, lost |-> FALSE]
          /\ soCalls = [load |-> IF permitted THEN "asked" ELSE "done", answer |-> soServer, saves |-> {}]
    /\ soCounts = 0

SoChange == soCounts < SoMaxChanges /\ soCounts' = soCounts + 1
SoShown == Layout(soPanel.order, soPanel.collapsed)
-----------------------------------------------------------------------------
(* What the user changes *)

scheduleSave(p) == IF p.permitted THEN [p EXCEPT !.timer = TRUE] ELSE p

\* Without the right to the two routes sections cannot be dragged.
SoDragstart(k) ==
    /\ soPanel.permitted /\ soPanel.dragged = NoDragged /\ SoChange
    /\ soPanel' = [soPanel EXCEPT !.dragged = k]
    /\ UNCHANGED <<soServer, soCalls>>
\* The section dragged goes before the one under the pointer, or to the end.
SoDragover(i) ==
    /\ soPanel.dragged # NoDragged
    /\ LET others == SelectSeq(soPanel.order, LAMBDA k : k # soPanel.dragged)
       IN  soPanel' = [soPanel EXCEPT !.order = InsertAt(others, i, soPanel.dragged)]
    /\ soPanel'.order # soPanel.order
    /\ UNCHANGED <<soServer, soCalls, soCounts>>
SoDragend ==
    /\ soPanel.dragged # NoDragged
    /\ soPanel' = scheduleSave([soPanel EXCEPT !.dragged = NoDragged, !.changed = TRUE])
    /\ UNCHANGED <<soServer, soCalls, soCounts>>

SoToggle(k) ==
    /\ soPanel.dragged = NoDragged /\ SoChange
    /\ soPanel' = scheduleSave([soPanel EXCEPT !.collapsed = IF k \in @ THEN @ \ {k} ELSE @ \cup {k},
                                       !.changed = TRUE])
    /\ UNCHANGED <<soServer, soCalls>>

\* 200 ms after the last change the layout of that moment is sent.
SoTimer ==
    /\ soPanel.timer
    /\ soCalls' = [soCalls EXCEPT !.saves = @ \cup {SoShown}]
    /\ soPanel' = [soPanel EXCEPT !.timer = FALSE, !.lost = @ \/ soCalls.saves # {}]
    /\ UNCHANGED <<soServer, soCounts>>
SoSaved(layout, ok) ==
    /\ soServer' = IF ok THEN layout ELSE soServer
    /\ soPanel' = [soPanel EXCEPT !.lost = @ \/ ~ok \/ soCalls.load = "answered"]
    /\ soCalls' = [soCalls EXCEPT !.saves = @ \ {layout}]
    /\ UNCHANGED soCounts
-----------------------------------------------------------------------------
(* The stored layout *)

SoLoadServed ==
    /\ soCalls.load = "asked"
    /\ soCalls' = [soCalls EXCEPT !.load = "answered", !.answer = soServer]
    /\ UNCHANGED <<soServer, soPanel, soCounts>>

\* The stored order is applied, and the sections stored as collapsed are collapsed: none is
\* expanded, and nothing of this is saved again.
SavedAgain(p) == scheduleSave([p EXCEPT !.loaded = TRUE])
Applied(p) == [p EXCEPT !.loaded = TRUE]
applyRemoteLayout ==
    /\ soCalls.load = "answered"
    /\ soPanel' = Applied([soPanel EXCEPT !.order = normalizeFilterbarSectionOrder(soCalls.answer.order),
                             !.collapsed = @ \cup soCalls.answer.collapsed,
                             !.lost = @ \/ (soPanel.changed /\ ~soPanel.timer)])
    /\ soCalls' = [soCalls EXCEPT !.load = "done"]
    /\ UNCHANGED <<soServer, soCounts>>
SoLoadFails ==
    /\ soCalls.load = "asked"
    /\ soCalls' = [soCalls EXCEPT !.load = "done"]
    /\ UNCHANGED <<soServer, soPanel, soCounts>>

SoNext ==
    \/ \E k \in Sections : SoDragstart(k) \/ SoToggle(k)
    \/ (\E i \in 1..3 : SoDragover(i)) \/ SoDragend
    \/ SoTimer \/ (\E layout \in soCalls.saves, ok \in BOOLEAN : SoSaved(layout, ok))
    \/ SoLoadServed \/ applyRemoteLayout \/ SoLoadFails
-----------------------------------------------------------------------------
SoTypeOK ==
    /\ soServer.order \in StoredOrders /\ soServer.collapsed \subseteq Sections
    /\ soPanel \in [order : Orders, collapsed : SUBSET Sections, dragged : Sections \cup {NoDragged}, timer : BOOLEAN,
                    permitted : BOOLEAN, loaded : BOOLEAN, changed : BOOLEAN, lost : BOOLEAN]
    /\ soCalls.load \in {"asked", "answered", "done"} /\ soCalls.answer.order \in StoredOrders
    /\ \A layout \in soCalls.saves : layout.order \in Orders /\ layout.collapsed \subseteq Sections
    /\ soCounts \in 0..SoMaxChanges

\* Whatever order is stored, every section is in the panel once.  A panel that the user did not
\* change never stores anything; with nothing under way it shows the layout read, and one that
\* was changed shows what is stored: unless a save failed, two saves overlap, or the stored
\* layout arrives after a change of the user was sent.
SoLayoutAsStored ==
    /\ soPanel.order \in Orders
    /\ ~soPanel.changed => ~soPanel.timer /\ soCalls.saves = {}
    /\ (soPanel.permitted /\ ~soPanel.lost /\ ~soPanel.timer /\ soCalls.saves = {} /\ soCalls.load = "done"
        /\ soPanel.dragged = NoDragged) =>
          IF soPanel.changed THEN soServer = SoShown
          ELSE soPanel.loaded =>
                 /\ soPanel.order = normalizeFilterbarSectionOrder(soServer.order)
                 /\ soPanel.collapsed = soServer.collapsed
=============================================================================
