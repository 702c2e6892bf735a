------------------------------ MODULE AdminLists ------------------------------
(***************************************************************************)
(* The lists and small forms of an administrator: foreign keys, empty rows,   *)
(* the tables with linked assets, the issues of the consistency check, the    *)
(* media folders of the datasets, and the header of a dataset.  Each list is  *)
(* emptied, read from the server and appended to its container; a button acts *)
(* on what was drawn then, often after a question, and the answer draws the   *)
(* list anew, removes rows or marks them.  Names of tables are fetched before *)
(* a form or a run begins; a dialog covers the page.                          *)
(***************************************************************************)
EXTENDS Naturals, Sequences

CONSTANTS AdThings,      \* how many keys, rows, tables, issues or datasets there are
          AdMaxInputs,   \* bound: inputs of the administrator
          AdMaxOnLinks   \* bound: the same, where each list is read in two sections

VARIABLES
    adView,    \* the view in use
    adStored,  \* on the server: what has become of each thing
    adBlocks,  \* the tables drawn, one after another: their rows and buttons
    adLoads,   \* readings under way
    adAsked,   \* what is done when the question is answered with yes
    adCalls,   \* requests that change something, or check a folder, under way
    adForm,    \* the form; its "off" is the save button's, and that of Fix All
    adRun,     \* the run over all datasets
    adBanner,  \* the banner that is stored for the project
    adSaid     \* inputs, and history: whether readings overlapped or failed, and whether others than those meant were hit
adVars == <<adView, adStored, adBlocks, adLoads, adAsked, adCalls, adForm, adRun, adBanner, adSaid>>

Things == 1..AdThings
Slots == 1..2  \* bound: readings, and requests, under way at once
\* What a thing may be at first.  A row may have no id; a header's texts are its own or another's.
Starts == [keys |-> {"there", "gone"}, rows |-> {"there", "nameless"}, links |-> {"on", "off", "gone"},
           issues |-> {"open"}, folders |-> {"missing", "whole"}, header |-> {"own"}]
States == (UNION {Starts[v] : v \in DOMAIN Starts}) \cup {"fixed", "dropped", "registered", "other"}
Listed == {"there", "nameless", "on", "off", "open"}
Fixable(i) == i % 2 = 1  \* the other issues are tables to drop or to register; the other links are of attachments

Row(i, says) == [thing |-> i, says |-> says, marked |-> FALSE, off |-> FALSE]
\* The rows that a reading of s draws of these things.
Block(s, these) ==
    LET of == SelectSeq([i \in Things |-> i], LAMBDA i : i \in these /\ s[i] \in Listed)
    IN  [k \in DOMAIN of |-> Row(of[k], s[of[k]])]
\* Linked assets are drawn in two sections, each with a reading of its own, images first.
Sections == IF adView = "links" THEN <<{i \in Things : Fixable(i)}, {i \in Things : ~Fixable(i)}>> ELSE <<Things>>

NoLoad == [at |-> "none", what |-> "list", n |-> 1, was |-> [i \in Things |-> "gone"], path |-> "none"]
Asking(what, n) == [NoLoad EXCEPT !.at = "asked", !.what = what, !.n = n]
NoCall == [at |-> "none", act |-> "none", things |-> {}, meant |-> {}, block |-> 1, drawn |-> FALSE, path |-> "none"]
Order(act, things, meant, block) ==
    [NoCall EXCEPT !.at = "sent", !.act = act, !.things = things, !.meant = meant, !.block = block, !.drawn = TRUE]
NoForm == [open |-> FALSE, chosen |-> 0, of |-> 0, column |-> FALSE, file |-> FALSE, remove |-> FALSE,
           path |-> "none", preview |-> "none", off |-> FALSE]
NoRun == [act |-> "none", at |-> 0, found |-> 0, errors |-> 0, summary |-> "none"]

\* The header's view chooses the first dataset and reads its header.
AdInit ==
    /\ adView \in DOMAIN Starts
    /\ adStored \in [Things -> Starts[adView]]
    /\ adBlocks = <<>> /\ adAsked = NoCall /\ adRun = NoRun
    /\ adForm = IF adView = "header" THEN [NoForm EXCEPT !.chosen = 1] ELSE NoForm
    /\ adLoads = [l \in Slots |-> IF l = 1 /\ adView \notin {"issues", "folders"}
                                  THEN Asking(IF adView = "header" THEN "header" ELSE "list", 1) ELSE NoLoad]
    /\ adCalls = [c \in Slots |-> NoCall]
    /\ adSaid = [alone |-> TRUE, sure |-> TRUE, astray |-> FALSE, inputs |-> 0]
    /\ adBanner = "none"

FreeLoad(l) == adLoads[l].at = "none" /\ \A k \in 1..(l - 1) : adLoads[k].at # "none"
FreeCall(c) == adCalls[c].at = "none" /\ \A k \in 1..(c - 1) : adCalls[k].at # "none"
Loading == \E l \in Slots : adLoads[l].at # "none"
Calling == \E c \in Slots : adCalls[c].at # "none"
AdAsks == adAsked.at # "none"
\* An input on the page, which no dialog covers.
OnPage == ~AdAsks /\ ~adForm.open
Bound == IF adView = "links" THEN AdMaxOnLinks ELSE AdMaxInputs
Input(busy) == adSaid.inputs < Bound /\ adSaid' = [adSaid EXCEPT !.inputs = @ + 1, !.alone = @ /\ ~busy]
-----------------------------------------------------------------------------
(* Reading a list *)

\* A bug: the container is not emptied.
KeepsOldTables(l) ==
    /\ FreeLoad(l)
    /\ adLoads' = [adLoads EXCEPT ![l] = Asking("list", 1)]
    /\ UNCHANGED adBlocks

\* The container is emptied at once; the rows that a request began with are drawn no more.
generate_view(l) ==
    /\ FreeLoad(l)
    /\ adLoads' = [adLoads EXCEPT ![l] = Asking("list", 1)]
    /\ adBlocks' = <<>>
Undrawn(calls) == [c \in Slots |-> [calls[c] EXCEPT !.drawn = FALSE]]

\* The view is opened again, or a mode of the empty rows is chosen.
OpenView(l) ==
    /\ adView \in {"keys", "rows", "links"} /\ OnPage /\ Input(Loading \/ (adView = "rows" /\ Calling))
    /\ generate_view(l)
    /\ adCalls' = Undrawn(adCalls)
    /\ UNCHANGED <<adView, adStored, adAsked, adForm, adRun, adBanner>>

\* Run Check: its button is off until the answer is there.
RunCheck(l) ==
    /\ adView = "issues" /\ ~Loading /\ OnPage /\ Input(FALSE)
    /\ generate_view(l)
    /\ adCalls' = Undrawn(adCalls)
    /\ UNCHANGED <<adView, adStored, adAsked, adForm, adRun, adBanner>>

\* The server reads, or the request fails.
AnswerLoad(l, ok) ==
    /\ adLoads[l].at = "asked"
    /\ adLoads' = [adLoads EXCEPT ![l] = [@ EXCEPT !.at = IF ok THEN "answered" ELSE "failed",
                                                   !.was = IF ok THEN adStored ELSE @, !.path = IF ok THEN adBanner ELSE @]]
    /\ adSaid' = [adSaid EXCEPT !.sure = @ /\ ok]
    /\ UNCHANGED <<adView, adStored, adBlocks, adAsked, adCalls, adForm, adRun, adBanner>>

\* The answer is appended; a failure is a table without rows, which for empty rows replaces what is there.
\* Issues replace what is there, and Fix All begins anew.  The second section is read after the first.
ListArrives(l) ==
    LET q == adLoads[l]
        table == IF q.at = "failed" THEN <<>> ELSE Block(q.was, Sections[q.n])
    IN  /\ q.at \in {"answered", "failed"} /\ q.what = "list"
        /\ adBlocks' = IF adView = "issues" \/ (adView = "rows" /\ q.at = "failed") THEN <<table>> ELSE Append(adBlocks, table)
        /\ adLoads' = [adLoads EXCEPT ![l] = IF q.n < Len(Sections) THEN Asking("list", q.n + 1) ELSE NoLoad]
        /\ adForm' = IF adView = "issues" THEN NoForm ELSE adForm
        /\ IF adView = "rows" /\ q.at = "failed" THEN adCalls' = Undrawn(adCalls) /\ adAsked' = [adAsked EXCEPT !.drawn = FALSE]
           ELSE UNCHANGED <<adCalls, adAsked>>
        /\ UNCHANGED <<adView, adStored, adRun, adBanner, adSaid>>
-----------------------------------------------------------------------------
(* What is chosen and pressed in a list *)

\* Keys are chosen with radio buttons, of which one is on in the whole page; rows with check boxes.
Mark(b, k) ==
    /\ adView \in {"keys", "rows"} /\ OnPage
    /\ adBlocks' = IF adView = "rows" THEN [adBlocks EXCEPT ![b][k].marked = ~@]
                   ELSE [c \in DOMAIN adBlocks |-> [j \in DOMAIN adBlocks[c] |->
                            [adBlocks[c][j] EXCEPT !.marked = <<c, j>> = <<b, k>>]]]
    /\ UNCHANGED <<adView, adStored, adLoads, adAsked, adCalls, adForm, adRun, adBanner, adSaid>>
\* The box above the column of boxes.
MarkAll(b, on) ==
    /\ adView = "rows" /\ OnPage
    /\ adBlocks' = [adBlocks EXCEPT ![b] = [k \in DOMAIN @ |-> [@[k] EXCEPT !.marked = on]]]
    /\ UNCHANGED <<adView, adStored, adLoads, adAsked, adCalls, adForm, adRun, adBanner, adSaid>>

Ask(order) ==
    /\ adAsked' = order
    /\ UNCHANGED <<adView, adStored, adBlocks, adLoads, adCalls, adForm, adRun, adBanner>>
Send(c, order) == FreeCall(c) /\ adCalls' = [adCalls EXCEPT ![c] = order]

\* The number of the key that is chosen anywhere is looked up in the list of this button.
DeleteKey(b, c, j) ==
    /\ adView = "keys" /\ OnPage /\ Input(FALSE) /\ adBlocks[c][j].marked
    /\ Ask(Order("delete", {adBlocks[b][k].thing : k \in DOMAIN adBlocks[b] \cap {j}}, {adBlocks[c][j].thing}, b))
MarkedRows(b) == {adBlocks[b][k].thing : k \in {k \in DOMAIN adBlocks[b] : adBlocks[b][k].marked}}
\* Rows without an id cannot be deleted.
DeleteRows(b) ==
    LET ids == {i \in MarkedRows(b) : \E k \in DOMAIN adBlocks[b] : adBlocks[b][k].thing = i /\ adBlocks[b][k].says = "there"}
    IN  /\ adView = "rows" /\ OnPage /\ Input(FALSE) /\ ids # {}
        /\ Ask(Order("delete", ids, MarkedRows(b), b))
RemoveLink(b, k) ==
    /\ adView = "links" /\ OnPage /\ Input(FALSE)
    /\ Ask(Order("delete", {adBlocks[b][k].thing}, {adBlocks[b][k].thing}, b))
FixAll ==
    /\ adView = "issues" /\ adBlocks # <<>> /\ ~adForm.off /\ OnPage /\ Input(FALSE)
    /\ \E k \in DOMAIN adBlocks[1] : Fixable(adBlocks[1][k].thing)
    /\ Ask(Order("fix_all", {i \in Things : Fixable(i)}, {i \in Things : Fixable(i)}, 1))

\* Disable or Enable, as the button was drawn.
ToggleLink(c, b, k) ==
    LET row == adBlocks[b][k]
    IN  /\ adView = "links" /\ OnPage /\ Input(FALSE)
        /\ Send(c, Order(IF row.says = "on" THEN "disable" ELSE "enable", {row.thing}, {row.thing}, b))
        /\ UNCHANGED <<adView, adStored, adBlocks, adLoads, adAsked, adForm, adRun, adBanner>>
\* Fix, Drop or Register: the buttons of the row are off until the request has failed, that of Fix for good.
ActOnIssue(c, k, act) ==
    LET row == adBlocks[1][k]
    IN  /\ adView = "issues" /\ ~row.off /\ OnPage /\ Input(FALSE)
        /\ act \in (IF Fixable(row.thing) THEN {"fix"} ELSE {"drop", "register"})
        /\ Send(c, Order(act, {row.thing}, {row.thing}, 1))
        /\ adBlocks' = [adBlocks EXCEPT ![1][k].off = TRUE]
        /\ UNCHANGED <<adView, adStored, adLoads, adAsked, adForm, adRun, adBanner>>

\* What was chosen when the question was asked is sent; a number that this list does not have is nothing.
SendConfirmed(c) == IF adAsked.things = {} THEN UNCHANGED adCalls ELSE Send(c, adAsked)
Confirm(c) ==
    /\ AdAsks /\ SendConfirmed(c)
    /\ adAsked' = NoCall
    /\ adForm' = IF adView = "issues" THEN [adForm EXCEPT !.off = adAsked.drawn] ELSE adForm
    /\ UNCHANGED <<adView, adStored, adBlocks, adLoads, adRun, adBanner, adSaid>>
Refuse ==
    /\ AdAsks
    /\ adAsked' = NoCall
    /\ UNCHANGED <<adView, adStored, adBlocks, adLoads, adCalls, adForm, adRun, adBanner, adSaid>>
-----------------------------------------------------------------------------
(* What the handlers of the server do *)

Becomes == [delete |-> "gone", enable |-> "on", disable |-> "off", fix |-> "fixed", fix_all |-> "fixed", drop |-> "dropped",
            register |-> "registered", add |-> "there", mend |-> "whole"]
Sent(c, acts) == adCalls[c].at = "sent" /\ adCalls[c].act \in acts
HasBecome(things, state) == \E i \in things : adStored[i] = state

\* A handler came to its end.  Its answer arrives ("told") or is "lost"; or what it did is "undone" although it is
\* told of as done, since the transaction is committed after the answer is written, or an error was only logged.
Outcomes == {"told", "lost", "undone"}
Carry(c, things, how) ==
    LET q == adCalls[c]
        done == IF how = "undone" THEN {} ELSE things
    IN  /\ adStored' = [i \in Things |-> IF i \in done THEN Becomes[q.act] ELSE adStored[i]]
        /\ adCalls' = [adCalls EXCEPT ![c].at = IF how = "lost" THEN "failed" ELSE "done"]
        /\ adSaid' = [adSaid EXCEPT !.sure = @ /\ how = "told", !.astray = @ \/ ~(done \subseteq q.meant)]
        /\ UNCHANGED <<adView, adBlocks, adLoads, adAsked, adForm, adRun, adBanner>>

\* The column must be one of the table, and the database refuses a second key of the same name.
AddForeignKeyHandler(c, how) ==
    LET q == adCalls[c]
    IN  /\ Sent(c, {"add"}) /\ how # "undone" /\ q.meant # {} /\ ~HasBecome(q.things, "there")
        /\ Carry(c, q.things, how)
DeleteForeignKeyHandler(c, how) ==
    LET q == adCalls[c]
    IN  /\ adView = "keys" /\ Sent(c, {"delete"}) /\ how # "undone" /\ ~HasBecome(q.things, "gone")
        /\ Carry(c, q.things, how)
DeleteRowsHandler(c, how) == adView = "rows" /\ Sent(c, {"delete"}) /\ Carry(c, adCalls[c].things, how)
EnableAssetLinkingHandler(c, how) == Sent(c, {"enable"}) /\ Carry(c, adCalls[c].things, how)
\* No transaction is open here.
DisableAssetLinkingHandler(c, how) ==
    LET q == adCalls[c]
    IN  Sent(c, {"disable"}) /\ how # "undone" /\ ~HasBecome(q.things, "gone") /\ Carry(c, q.things, how)
RemoveAssetLinkingHandler(c, how) ==
    LET q == adCalls[c]
    IN  adView = "links" /\ Sent(c, {"delete"}) /\ ~HasBecome(q.things, "gone") /\ Carry(c, q.things, how)
\* Each issue is fixed or is an error of the answer, which is a success all the same: the first error aborts the
\* transaction of all.  A table that is registered can still be dropped, one that was dropped is not found.
FixDatabaseConsistencyHandler(c, how) ==
    LET q == adCalls[c]
    IN  /\ Sent(c, {"fix", "fix_all", "drop", "register"})
        /\ Carry(c, {i \in q.things : adStored[i] \in (IF q.act = "drop" THEN {"open", "registered"} ELSE {"open"})}, how)
\* A folder that cannot be made is logged and passed over.
FixMediaSubfoldersHandler(c, how) == Sent(c, {"mend"}) /\ Carry(c, adCalls[c].things, how)
Fail(c) ==
    /\ adCalls[c].at = "sent"
    /\ adCalls' = [adCalls EXCEPT ![c].at = "failed"]
    /\ UNCHANGED <<adView, adStored, adBlocks, adLoads, adAsked, adForm, adRun, adBanner, adSaid>>

Answered(c) == adCalls[c].at \in {"done", "failed"}
Told(c) == adCalls[c].at = "done"
Finished(c) == [adCalls EXCEPT ![c] = NoCall]

\* Keys and links: the list is read anew, and the form of a new one closes.
DrawAnew(c, l) ==
    /\ adView \in {"keys", "links"} /\ Told(c)
    /\ generate_view(l)
    /\ adCalls' = Undrawn(Finished(c))
    /\ adForm' = IF adCalls[c].act \in {"add", "enable"} THEN NoForm ELSE adForm
    /\ adSaid' = [adSaid EXCEPT !.alone = @ /\ ~Loading]
    /\ UNCHANGED <<adView, adStored, adAsked, adRun, adBanner>>
ChangeFailed(c) ==
    /\ adView \in {"keys", "rows", "links"} /\ adCalls[c].at = "failed"
    /\ adCalls' = Finished(c)
    /\ UNCHANGED <<adView, adStored, adBlocks, adLoads, adAsked, adForm, adRun, adBanner, adSaid>>
\* The rows that were chosen then leave their table.
RemoveDeletedRows(c) ==
    LET q == adCalls[c]
    IN  /\ adView = "rows" /\ Told(c)
        /\ adBlocks' = IF q.drawn THEN [adBlocks EXCEPT ![q.block] = SelectSeq(@, LAMBDA row : row.thing \notin q.meant)]
                       ELSE adBlocks
        /\ adCalls' = Finished(c)
        /\ UNCHANGED <<adView, adStored, adLoads, adAsked, adForm, adRun, adBanner, adSaid>>
\* A row says what became of it; one that could not be dropped or registered can be tried again.  Fix All says
\* so on its own button.
MarkIssue(c) ==
    LET q == adCalls[c]
        its(row) == row.thing \in q.things /\ row.off
    IN  /\ adView = "issues" /\ Answered(c)
        /\ adBlocks' = IF ~q.drawn \/ q.act = "fix_all" THEN adBlocks
                       ELSE [adBlocks EXCEPT ![1] = [k \in DOMAIN @ |-> IF its(@[k])
                                THEN [@[k] EXCEPT !.says = IF Told(c) THEN "done" ELSE "error",
                                                  !.off = Told(c) \/ q.act = "fix"]
                                ELSE @[k]]]
        /\ adCalls' = Finished(c)
        /\ UNCHANGED <<adView, adStored, adLoads, adAsked, adForm, adRun, adBanner, adSaid>>
-----------------------------------------------------------------------------
(* The form of a new key or link *)

OpenForm ==
    /\ adView \in {"keys", "links"} /\ OnPage /\ Input(FALSE)
    /\ adForm' = [NoForm EXCEPT !.open = TRUE]
    /\ UNCHANGED <<adView, adStored, adBlocks, adLoads, adAsked, adCalls, adRun, adBanner>>
CloseForm ==
    /\ adForm.open
    /\ adForm' = NoForm
    /\ UNCHANGED <<adView, adStored, adBlocks, adLoads, adAsked, adCalls, adRun, adBanner, adSaid>>
\* A table is chosen; for a key its columns are read.  Both sides of a key are chosen alike.
ChooseTable(l, i) ==
    /\ adForm.open /\ adForm.chosen # i /\ Input(FALSE)
    /\ adForm' = [adForm EXCEPT !.chosen = i]
    /\ IF adView = "keys" THEN FreeLoad(l) /\ adLoads' = [adLoads EXCEPT ![l] = Asking("columns", i)]
       ELSE l = 1 /\ UNCHANGED adLoads
    /\ UNCHANGED <<adView, adStored, adBlocks, adAsked, adCalls, adRun, adBanner>>
\* The last answer fills the list of columns and unsets the one chosen; those of a form that was closed go nowhere.
updateColumnsDropdown(l) ==
    LET q == adLoads[l]
    IN  /\ q.what = "columns" /\ q.at \in {"answered", "failed"}
        /\ adForm' = IF adForm.open THEN [adForm EXCEPT !.of = IF q.at = "answered" THEN q.n ELSE 0, !.column = FALSE] ELSE adForm
        /\ adLoads' = [adLoads EXCEPT ![l] = NoLoad]
        /\ UNCHANGED <<adView, adStored, adBlocks, adAsked, adCalls, adRun, adBanner, adSaid>>
PickColumn ==
    /\ adForm.open /\ adForm.of # 0 /\ ~adForm.column
    /\ adForm' = [adForm EXCEPT !.column = TRUE]
    /\ UNCHANGED <<adView, adStored, adBlocks, adLoads, adAsked, adCalls, adRun, adBanner, adSaid>>
\* Every field must be filled in; a column that is not of the table is refused by the database.
SubmitForm(c) ==
    /\ adForm.open /\ adForm.chosen # 0 /\ (adView = "keys" => adForm.column) /\ Input(FALSE)
    /\ Send(c, Order(IF adView = "keys" THEN "add" ELSE "enable", {adForm.chosen},
                      IF adView = "keys" /\ adForm.of # adForm.chosen THEN {} ELSE {adForm.chosen}, 1))
    /\ UNCHANGED <<adView, adStored, adBlocks, adLoads, adAsked, adForm, adRun, adBanner>>
-----------------------------------------------------------------------------
(* The header of a dataset, and the banner all datasets share *)

ChooseDataset(l, i) ==
    /\ adView = "header" /\ i # adForm.chosen /\ Input(Loading \/ Calling)
    /\ adForm' = IF i = 0 THEN [NoForm EXCEPT !.off = adForm.off]
                 ELSE [adForm EXCEPT !.chosen = i, !.file = FALSE, !.remove = FALSE]
    /\ IF i = 0 THEN l = 1 /\ UNCHANGED adLoads
       ELSE FreeLoad(l) /\ adLoads' = [adLoads EXCEPT ![l] = Asking("header", i)]
    /\ UNCHANGED <<adView, adStored, adBlocks, adAsked, adCalls, adRun, adBanner>>
\* A bug: the file that was chosen stays chosen when a header is read or saved.
KeepsTheFile(i, path) == [adForm EXCEPT !.of = i, !.path = path, !.remove = FALSE, !.preview = path]
applyConfigToForm(i, path) ==
    [adForm EXCEPT !.of = i, !.path = path, !.file = FALSE, !.remove = FALSE, !.preview = path]
HeaderArrives(l) ==
    LET q == adLoads[l]
    IN  /\ q.what = "header" /\ q.at \in {"answered", "failed"}
        /\ adForm' = IF q.at = "answered" THEN applyConfigToForm(q.n, q.path) ELSE adForm
        /\ adLoads' = [adLoads EXCEPT ![l] = NoLoad]
        /\ UNCHANGED <<adView, adStored, adBlocks, adAsked, adCalls, adRun, adBanner, adSaid>>
\* A file and the removal of the banner exclude one another.
ChooseFile(given) ==
    /\ adView = "header" /\ Input(FALSE)
    /\ adForm' = [adForm EXCEPT !.file = given, !.remove = FALSE, !.preview = IF given THEN "file" ELSE adForm.path]
    /\ UNCHANGED <<adView, adStored, adBlocks, adLoads, adAsked, adCalls, adRun, adBanner>>
TickRemove ==
    /\ adView = "header" /\ Input(FALSE)
    /\ adForm' = IF adForm.remove THEN [adForm EXCEPT !.remove = FALSE, !.preview = adForm.path]
                 ELSE [adForm EXCEPT !.remove = TRUE, !.file = FALSE, !.preview = "none"]
    /\ UNCHANGED <<adView, adStored, adBlocks, adLoads, adAsked, adCalls, adRun, adBanner>>
\* The texts in the form are sent for the dataset that is chosen.
SaveHeader(c) ==
    /\ adView = "header" /\ adForm.chosen # 0 /\ ~adForm.off /\ Input(Loading)
    /\ Send(c, [Order("save", {adForm.chosen}, {adForm.of}, 1) EXCEPT
                    !.path = IF adForm.remove THEN "none" ELSE IF adForm.file THEN "file" ELSE "kept"])
    /\ adForm' = [adForm EXCEPT !.off = TRUE]
    /\ UNCHANGED <<adView, adStored, adBlocks, adLoads, adAsked, adRun, adBanner>>
\* The texts are in the transaction, the banner is a file: the old one is gone before a new one is looked at, and
\* may be refused.  The answer is read outside the transaction: its banner is the new one, its texts may be the old.
SaveDatasetHeaderConfigHandler(c, how) ==
    LET q == adCalls[c]
        banner == IF q.path = "file" /\ how # "refused" THEN "new" ELSE IF q.path = "kept" THEN adBanner ELSE "none"
    IN  /\ Sent(c, {"save"}) /\ (how = "refused" => q.path = "file")
        /\ adStored' = [i \in Things |-> IF how \in {"told", "lost"} /\ i \in q.things /\ q.things # q.meant THEN "other" ELSE adStored[i]]
        /\ adBanner' = banner
        /\ adCalls' = [adCalls EXCEPT ![c] = [@ EXCEPT !.at = IF how \in {"told", "undone"} THEN "done" ELSE "failed", !.path = banner]]
        /\ adSaid' = [adSaid EXCEPT !.sure = @ /\ how = "told"]
        /\ UNCHANGED <<adView, adBlocks, adLoads, adAsked, adForm, adRun>>
\* The form shows what was answered, for whichever dataset it was.
HeaderSaved(c) ==
    /\ adView = "header" /\ Answered(c)
    /\ adForm' = [IF Told(c) THEN applyConfigToForm(CHOOSE i \in adCalls[c].things : TRUE, adCalls[c].path) ELSE adForm
                  EXCEPT !.off = FALSE]
    /\ adCalls' = Finished(c)
    /\ UNCHANGED <<adView, adStored, adBlocks, adLoads, adAsked, adRun, adBanner, adSaid>>
-----------------------------------------------------------------------------
(* The media folders *)

\* Check and Fix of one dataset have a button each, and one place for their results.
PressFolder(c, i, act) ==
    /\ adView = "folders" /\ (\A k \in Slots : adCalls[k].act # act) /\ Input(Calling)
    /\ Send(c, Order(act, {i}, {i}, 1))
    /\ adBlocks' = <<>>
    /\ UNCHANGED <<adView, adStored, adLoads, adAsked, adForm, adRun, adBanner>>
CheckMediaSubfoldersHandler(c) ==
    LET q == adCalls[c]
    IN  /\ q.at = "sent" /\ q.act = "check"
        /\ adCalls' = [adCalls EXCEPT ![c] = [@ EXCEPT !.at = "done", !.meant = {i \in q.things : adStored[i] = "whole"}]]
        /\ UNCHANGED <<adView, adStored, adBlocks, adLoads, adAsked, adForm, adRun, adBanner, adSaid>>
\* An error is appended to the results, an answer replaces them.
ShowFolder(c) ==
    LET q == adCalls[c]
        result == <<Row(CHOOSE i \in q.things : TRUE, IF q.at = "failed" THEN "error" ELSE IF q.meant = {} THEN "missing" ELSE "whole")>>
    IN  /\ adView = "folders" /\ Answered(c)
        /\ adBlocks' = IF Told(c) THEN <<result>> ELSE Append(adBlocks, result)
        /\ adCalls' = Finished(c)
        /\ UNCHANGED <<adView, adStored, adLoads, adAsked, adForm, adRun, adBanner, adSaid>>

\* A run over all datasets: the buttons of both runs are off until it is over.
StartRun(act) ==
    /\ adView = "folders" /\ adRun.at = 0 /\ Input(FALSE)
    /\ adRun' = [NoRun EXCEPT !.act = act, !.at = 1]
    /\ UNCHANGED <<adView, adStored, adBlocks, adLoads, adAsked, adCalls, adForm, adBanner>>
\* A bug: a dataset that could not be looked at is passed over.
ForgetsErrors(found, errors) == IF found > 0 THEN "found" ELSE "fine"
Summary(found, errors) == IF errors > 0 THEN "errors" ELSE IF found > 0 THEN "found" ELSE "fine"
\* One dataset after the other; an error is counted and the run goes on.  "logged": nothing could be mended, which
\* the server tells no one.
RunStep(outcome) ==
    LET i == adRun.at
        hit == outcome = "ok" /\ adStored[i] = "missing"
        mends == adRun.act = "mend" /\ outcome \in {"ok", "lost"}
        found == adRun.found + (IF hit THEN 1 ELSE 0)
        errors == adRun.errors + (IF outcome \in {"ok", "logged"} THEN 0 ELSE 1)
    IN  /\ i # 0 /\ (outcome = "logged" => adRun.act = "mend")
        /\ adRun' = [adRun EXCEPT !.found = found, !.errors = errors, !.at = IF i < AdThings THEN i + 1 ELSE 0,
                                  !.summary = IF i < AdThings THEN @ ELSE Summary(found, errors)]
        /\ adStored' = IF mends THEN [adStored EXCEPT ![i] = "whole"] ELSE adStored
        /\ adSaid' = [adSaid EXCEPT !.sure = @ /\ outcome # "logged"]
        /\ UNCHANGED <<adView, adBlocks, adLoads, adAsked, adCalls, adForm, adBanner>>
\* The names of the datasets do not come.
RunFails ==
    /\ adRun.at = 1 /\ adRun.found + adRun.errors = 0
    /\ adRun' = [adRun EXCEPT !.at = 0, !.summary = "failed"]
    /\ UNCHANGED <<adView, adStored, adBlocks, adLoads, adAsked, adCalls, adForm, adBanner, adSaid>>
-----------------------------------------------------------------------------
Drawn == {p \in (1..4) \X Things : p[1] \in DOMAIN adBlocks /\ p[2] \in DOMAIN adBlocks[p[1]]}
AdNext ==
    \/ \E l \in Slots : OpenView(l) \/ RunCheck(l) \/ ListArrives(l) \/ updateColumnsDropdown(l) \/ HeaderArrives(l)
    \/ \E l \in Slots, ok \in BOOLEAN : AnswerLoad(l, ok)
    \/ \E p \in Drawn : Mark(p[1], p[2]) \/ RemoveLink(p[1], p[2]) \/ \E b \in DOMAIN adBlocks : DeleteKey(b, p[1], p[2])
    \/ \E b \in DOMAIN adBlocks : DeleteRows(b) \/ \E on \in BOOLEAN : MarkAll(b, on)
    \/ \E c \in Slots, p \in Drawn : ToggleLink(c, p[1], p[2]) \/ \E act \in {"fix", "drop", "register"} : ActOnIssue(c, p[2], act)
    \/ \E c \in Slots : Confirm(c) \/ Fail(c) \/ ChangeFailed(c) \/ RemoveDeletedRows(c) \/ MarkIssue(c) \/ SubmitForm(c)
    \/ \E c \in Slots : SaveHeader(c) \/ HeaderSaved(c) \/ CheckMediaSubfoldersHandler(c) \/ ShowFolder(c)
    \/ \E c \in Slots, how \in Outcomes :
           \/ AddForeignKeyHandler(c, how) \/ DeleteForeignKeyHandler(c, how) \/ DeleteRowsHandler(c, how)
           \/ EnableAssetLinkingHandler(c, how) \/ DisableAssetLinkingHandler(c, how) \/ RemoveAssetLinkingHandler(c, how)
           \/ FixDatabaseConsistencyHandler(c, how) \/ FixMediaSubfoldersHandler(c, how)
    \/ \E c \in Slots, how \in Outcomes \cup {"refused"} : SaveDatasetHeaderConfigHandler(c, how)
    \/ \E c, l \in Slots : DrawAnew(c, l)
    \/ \E l \in Slots, i \in 0..AdThings : (i # 0 /\ ChooseTable(l, i)) \/ ChooseDataset(l, i)
    \/ \E c \in Slots, i \in Things, act \in {"check", "mend"} : PressFolder(c, i, act)
    \/ (\E given \in BOOLEAN : ChooseFile(given)) \/ TickRemove \/ (\E act \in {"check", "mend"} : StartRun(act))
    \/ (\E outcome \in {"ok", "refused", "lost", "logged"} : RunStep(outcome)) \/ RunFails
    \/ Refuse \/ FixAll \/ OpenForm \/ CloseForm \/ PickColumn
AdSpec == AdInit /\ [][AdNext]_adVars
-----------------------------------------------------------------------------
LoadsOf == [at : {"none", "asked", "answered", "failed"}, what : {"list", "columns", "header"}, n : Things, was : [Things -> States],
            path : {"none", "new"}]
CallsOf == [at : {"none", "sent", "done", "failed"}, act : {"none", "save", "check"} \cup DOMAIN Becomes, things : SUBSET Things,
            meant : SUBSET (0..AdThings), block : Nat, drawn : BOOLEAN, path : {"none", "new", "file", "kept"}]
AdTypeOK ==
    /\ adView \in DOMAIN Starts /\ adStored \in [Things -> States]
    /\ adBlocks \in Seq(Seq([thing : Things, says : States \cup {"done", "error"}, marked : BOOLEAN, off : BOOLEAN]))
    /\ adLoads \in [Slots -> LoadsOf]
    /\ adAsked \in CallsOf /\ adCalls \in [Slots -> CallsOf]
    /\ adForm \in [open : BOOLEAN, chosen : 0..AdThings, of : 0..AdThings, column : BOOLEAN, file : BOOLEAN, remove : BOOLEAN,
                   path : {"none", "new"}, preview : {"none", "new", "file"}, off : BOOLEAN]
    /\ adRun \in [act : {"none", "check", "mend"}, at : 0..AdThings, found : 0..AdThings, errors : 0..AdThings,
                  summary : {"none", "fine", "found", "errors", "failed"}]
    /\ adBanner \in {"none", "new"}
    /\ adSaid \in [alone : BOOLEAN, sure : BOOLEAN, astray : BOOLEAN, inputs : 0..AdMaxInputs]

\* "Alone": no two readings overlapped, empty rows were not read while some were deleted, and no dataset was
\* chosen or saved while another was read or saved.  "Sure": no reading failed, and what a request was told of
\* is what it did.
Settled == ~Loading /\ ~Calling /\ adSaid.alone /\ adSaid.sure
DrawnThings == {adBlocks[p[1]][p[2]].thing : p \in Drawn}
\* With nothing under way, what is drawn is what is stored: the keys and links after any additions, changes and
\* removals; the rows that are left, each in its table; the form of a header that of the dataset
\* chosen, with the banner as a save would leave it.  A run that found everything fine, or mended it
\* without errors, leaves nothing missing (a run that mends: if it was told the truth), and so with an issue marked as done.
AdListsAsStored ==
    /\ Settled /\ adView \in {"keys", "links"} =>
           [b \in DOMAIN adBlocks |-> [k \in DOMAIN adBlocks[b] |-> Row(adBlocks[b][k].thing, adBlocks[b][k].says)]]
               = [n \in DOMAIN Sections |-> Block(adStored, Sections[n])]
    /\ Settled /\ adView = "rows" =>
           {i \in DrawnThings : adStored[i] # "nameless"} = {i \in Things : adStored[i] = "there"}
    /\ Settled /\ adView = "header" /\ adForm.chosen # 0 =>
           /\ adForm.of = adForm.chosen
           /\ adForm.preview = IF adForm.remove THEN "none" ELSE IF adForm.file THEN "file" ELSE adBanner
    /\ adRun.act = "check" /\ adRun.summary = "fine" => \A i \in Things : adStored[i] = "whole"
    /\ adRun.act = "mend" /\ adRun.summary \in {"fine", "found"} /\ adSaid.sure => \A i \in Things : adStored[i] = "whole"
    /\ adSaid.sure => \A p \in Drawn : adBlocks[p[1]][p[2]].says = "done" => adStored[adBlocks[p[1]][p[2]].thing] # "open"

\* What is deleted was chosen, although it is found again by its number, and a header is stored for the dataset
\* it is of, unless readings overlapped or failed; and while a row is drawn, one action on its issue
\* is under way at a time.
AdDoneAsChosen ==
    /\ adSaid.alone => ~adSaid.astray
    /\ adSaid.alone /\ adSaid.sure => \A i \in Things : adStored[i] # "other"
    /\ \A c, d \in Slots : adView = "issues" /\ c # d /\ adCalls[c].drawn /\ adCalls[d].drawn
                             /\ "fix_all" \notin {adCalls[c].act, adCalls[d].act} =>
           adCalls[c].things # adCalls[d].things
=============================================================================
