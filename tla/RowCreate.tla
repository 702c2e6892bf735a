------------------------------- MODULE RowCreate -------------------------------
(***************************************************************************)
(* The form that adds a row.  The main fields are built at once; sections   *)
(* of child rows (files, plain rows, links) appear when their columns have  *)
(* been read, and put themselves into the state object that forms share     *)
(* until a row was added.  Submitting reads the form and that object.       *)
(***************************************************************************)
EXTENDS Naturals, Sequences, SequencesExt

CONSTANTS RcMaxForms,      \* bound: forms opened
          RcMaxPicks,      \* bound: files picked, fields typed and addresses chosen
          RcMaxSubmits     \* bound: submits

VARIABLES
    rcForm,      \* the form in the modal
    rcStates,    \* the state objects, the shared one last
    rcOpening,   \* forms whose columns and relations are being read
    rcBuilds,    \* sections whose columns are being read
    rcSubmits,   \* rows being added
    rcServer,    \* rows added
    rcCounts
rcVars == <<rcForm, rcStates, rcOpening, rcBuilds, rcSubmits, rcServer, rcCounts>>

\* What a dataset's form has besides its own columns.
RcSections == [a |-> {"files", "link"}, b |-> {"row"}]
RcDatasets == DOMAIN RcSections
RcFiles == 1..3
TooLarge == 3
NoForm == [id |-> 0, ds |-> "a", state |-> 1, text |-> 0, position |-> 0, address |-> 0]
NewState == [text |-> 0, position |-> 0, children |-> <<>>]

RcInit ==
    /\ rcForm = NoForm /\ rcStates = <<NewState>>
    /\ rcOpening = {} /\ rcBuilds = {} /\ rcSubmits = {} /\ rcServer = {}
    /\ rcCounts = [forms |-> 0, picks |-> 0, submits |-> 0]
-----------------------------------------------------------------------------
(* Opening *)

open_add_row_modal(ds) ==
    /\ rcCounts.forms < RcMaxForms
    /\ rcOpening' = rcOpening \cup {[ds |-> ds, id |-> rcCounts.forms + 1]}
    /\ rcCounts' = [rcCounts EXCEPT !.forms = @ + 1]
    /\ UNCHANGED <<rcForm, rcStates, rcBuilds, rcSubmits, rcServer>>

\* buildMainForm: fields take what the shared object has of their names; its children are
\* forgotten; the sections are not awaited.  The form replaces the one shown.
buildMainForm(o) ==
    /\ LET obj == Len(rcStates)
       IN  /\ rcForm' = [id |-> o.id, ds |-> o.ds, state |-> obj, text |-> rcStates[obj].text,
                         position |-> rcStates[obj].position, address |-> 0]
           /\ rcStates' = [rcStates EXCEPT ![obj].children = <<>>]
           /\ rcBuilds' = rcBuilds \cup {[form |-> o.id, state |-> obj, kind |-> k] : k \in RcSections[o.ds]}
    /\ rcOpening' = rcOpening \ {o}
    /\ UNCHANGED <<rcSubmits, rcServer, rcCounts>>

\* fetchColumnsInfo failed or the dataset has no columns.
RcOpenFails(o) ==
    /\ rcOpening' = rcOpening \ {o}
    /\ UNCHANGED <<rcForm, rcStates, rcBuilds, rcSubmits, rcServer, rcCounts>>

\* buildOneToManySection, buildManyToManySection: the section goes to the object's list of now.
buildOneToManySection(b) ==
    /\ b.kind # "link"
    /\ rcStates' = [rcStates EXCEPT ![b.state].children =
                       Append(@, [form |-> b.form, kind |-> b.kind, data |-> 0, files |-> <<>>])]
    /\ rcBuilds' = rcBuilds \ {b}
    /\ UNCHANGED <<rcForm, rcOpening, rcSubmits, rcServer, rcCounts>>

buildManyToManySection(b) ==
    /\ b.kind = "link"
    /\ rcStates' = [rcStates EXCEPT ![b.state].children =
                       Append(@, [form |-> b.form, kind |-> b.kind, data |-> 0, files |-> <<>>])]
    /\ rcBuilds' = rcBuilds \ {b}
    /\ UNCHANGED <<rcForm, rcOpening, rcSubmits, rcServer, rcCounts>>

RcBuildFails(b) ==
    /\ rcBuilds' = rcBuilds \ {b}
    /\ UNCHANGED <<rcForm, rcStates, rcOpening, rcSubmits, rcServer, rcCounts>>
-----------------------------------------------------------------------------
(* Filling in *)

RcPick == rcForm.id # 0 /\ rcCounts.picks < RcMaxPicks
            /\ rcCounts' = [rcCounts EXCEPT !.picks = @ + 1]
RcChildren == rcStates[rcForm.state].children

\* buildRegularField, buildForeignKeyField: typed into the form and the object.
buildRegularField ==
    /\ RcPick
    /\ rcForm' = [rcForm EXCEPT !.text = 1]
    /\ rcStates' = [rcStates EXCEPT ![rcForm.state].text = 1]
    /\ UNCHANGED <<rcOpening, rcBuilds, rcSubmits, rcServer>>

\* buildGeometryField: a suggestion fills the address, the hidden position and the fields
\* of the form that have its names.
buildGeometryField ==
    /\ RcPick
    /\ rcForm' = [rcForm EXCEPT !.position = 1, !.address = 1, !.text = 1]
    /\ rcStates' = [rcStates EXCEPT ![rcForm.state].position = 1, ![rcForm.state].text = 1]
    /\ UNCHANGED <<rcOpening, rcBuilds, rcSubmits, rcServer>>

\* Typing in a section of the form that is shown.
appendChildColumnInput ==
    /\ RcPick
    /\ \E i \in DOMAIN RcChildren :
          /\ RcChildren[i].form = rcForm.id /\ RcChildren[i].kind # "files"
          /\ rcStates' = [rcStates EXCEPT ![rcForm.state].children[i].data = 1]
    /\ UNCHANGED <<rcForm, rcOpening, rcBuilds, rcSubmits, rcServer>>

\* mergeSelectedFiles: a file is listed once, in the order of the picks.
mergeSelectedFiles(existing, incoming) == existing \o SelectSeq(incoming, LAMBDA f : f \notin Range(existing))

\* buildFileUploadField: files that are too large are left out; none left changes nothing.
buildFileUploadField ==
    /\ RcPick
    /\ \E i \in DOMAIN RcChildren, picked \in {<<1>>, <<2>>, <<1, 2>>, <<TooLarge>>, <<TooLarge, 2>>} :
          /\ RcChildren[i].form = rcForm.id /\ RcChildren[i].kind = "files"
          /\ rcStates' = [rcStates EXCEPT ![rcForm.state].children[i].files =
                             mergeSelectedFiles(@, SelectSeq(picked, LAMBDA f : f # TooLarge))]
    /\ UNCHANGED <<rcForm, rcOpening, rcBuilds, rcSubmits, rcServer>>

\* renderSelectedFileList: the remove button of a file.
renderSelectedFileList ==
    /\ RcPick
    /\ \E i \in DOMAIN RcChildren :
          /\ RcChildren[i].form = rcForm.id
          /\ \E n \in DOMAIN RcChildren[i].files :
                rcStates' = [rcStates EXCEPT ![rcForm.state].children[i].files = RemoveAt(@, n)]
    /\ UNCHANGED <<rcForm, rcOpening, rcBuilds, rcSubmits, rcServer>>

\* cancel_button, or the modal closed: the object stays.
RcCancel ==
    /\ rcForm.id # 0
    /\ rcForm' = NoForm
    /\ UNCHANGED <<rcStates, rcOpening, rcBuilds, rcSubmits, rcServer, rcCounts>>
-----------------------------------------------------------------------------
(* Submitting *)

\* Mutant: every section in the list is sent.
EveryChild(c) == TRUE

\* shouldSubmitChildRow: files for a section of files, some data for the others.
shouldSubmitChildRow(c) == IF c.kind = "files" THEN c.files # <<>> ELSE c.data # 0

\* expandChildRowsForSubmission: a row for each file, with that file's name.
expandChildRowsForSubmission(c) ==
    IF c.files = <<>> THEN <<[form |-> c.form, kind |-> c.kind, name |-> 0, file |-> 0]>>
    ELSE [n \in DOMAIN c.files |-> [form |-> c.form, kind |-> c.kind, name |-> c.files[n], file |-> c.files[n]]]

\* collectChildRowsForSubmission: rows and files in one order; the server joins them by index.
collectChildRowsForSubmission(children) ==
    FlattenSeq([i \in DOMAIN children |->
       IF shouldSubmitChildRow(children[i]) THEN expandChildRowsForSubmission(children[i]) ELSE <<>>])

\* submit_new_row: nothing keeps the button from being pressed again.
submit_new_row ==
    /\ rcForm.id # 0 /\ rcCounts.submits < RcMaxSubmits
    /\ rcSubmits' = rcSubmits \cup
          {[n |-> rcCounts.submits + 1, form |-> rcForm.id, pc |-> "sent",
            row |-> [form |-> rcForm.id, ds |-> rcForm.ds, text |-> rcForm.text,
                     position |-> rcForm.position,
                     children |-> collectChildRowsForSubmission(RcChildren)]]}
    /\ rcCounts' = [rcCounts EXCEPT !.submits = @ + 1]
    /\ UNCHANGED <<rcForm, rcStates, rcOpening, rcBuilds, rcServer>>

\* The server adds the row with its children, in a transaction.
RcAdded(s) ==
    /\ s.pc = "sent"
    /\ rcServer' = rcServer \cup {s.row}
    /\ rcSubmits' = (rcSubmits \ {s}) \cup {[s EXCEPT !.pc = "added"]}
    /\ UNCHANGED <<rcForm, rcStates, rcOpening, rcBuilds, rcCounts>>

\* The answer hides whatever modal is shown and starts a new object for the forms to come.
clearState(s) ==
    /\ s.pc = "added"
    /\ rcForm' = NoForm
    /\ rcStates' = Append(rcStates, NewState)
    /\ rcSubmits' = rcSubmits \ {s}
    /\ UNCHANGED <<rcOpening, rcBuilds, rcServer, rcCounts>>

\* The request failed, before or after the row was added: the form stays as it is.
RcSubmitFails(s) ==
    /\ rcSubmits' = rcSubmits \ {s}
    /\ UNCHANGED <<rcForm, rcStates, rcOpening, rcBuilds, rcServer, rcCounts>>

RcNext ==
    \/ \E ds \in RcDatasets : open_add_row_modal(ds)
    \/ \E o \in rcOpening : buildMainForm(o) \/ RcOpenFails(o)
    \/ \E b \in rcBuilds : buildOneToManySection(b) \/ buildManyToManySection(b) \/ RcBuildFails(b)
    \/ buildRegularField \/ buildGeometryField \/ appendChildColumnInput
    \/ buildFileUploadField \/ renderSelectedFileList \/ RcCancel \/ submit_new_row
    \/ \E s \in rcSubmits : RcAdded(s) \/ clearState(s) \/ RcSubmitFails(s)
-----------------------------------------------------------------------------
(* Properties *)

RcTypeOK ==
    /\ rcForm.ds \in RcDatasets /\ rcForm.state \in DOMAIN rcStates
    /\ \A o \in rcOpening : o.ds \in RcDatasets
    /\ \A b \in rcBuilds : b.state \in DOMAIN rcStates
    /\ \A s \in rcSubmits : s.pc \in {"sent", "added"}
    /\ \A i \in DOMAIN rcStates : \A j \in DOMAIN rcStates[i].children :
          Range(rcStates[i].children[j].files) \subseteq RcFiles \ {TooLarge}

\* Although sections of a form that was closed still put themselves into the list of the
\* form shown now, a row is only sent with child rows of its own form, each file with the
\* child row that names it, and no file twice.
RcChildrenAreOfTheForm ==
    \A row \in rcServer \cup {s.row : s \in rcSubmits} :
       \A i \in DOMAIN row.children :
          LET c == row.children[i]
          IN  /\ c.form = row.form /\ c.kind \in RcSections[row.ds]
              /\ c.file = c.name
              /\ \A j \in DOMAIN row.children : c.file # 0 /\ row.children[j].file = c.file => i = j
=============================================================================
