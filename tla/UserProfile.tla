----------------------------- MODULE UserProfile -----------------------------
(***************************************************************************)
(* The user's own page: the name, the e-mail address and the password of the *)
(* account.  A new address must be typed twice and proved by a code sent to  *)
(* it; a change asks for the password once, and keeps it until it is used.   *)
(* The server changes the name, the address and the password one after       *)
(* another, and a refusal leaves what came before it.                        *)
(***************************************************************************)
EXTENDS Naturals

CONSTANTS UpMaxInputs  \* bound: things typed and buttons pressed

VARIABLES
    upServer,  \* the account, and the codes that are valid
    upForm,    \* the fields
    upKnown,   \* the account as it was last loaded, and the password kept
    upDialog,  \* the password dialog: what waits for it, with the name and address read before it
    upCalls,   \* requests under way
    upCounts   \* inputs so far, whether the fields were typed in, whether upKnown may be old, addresses typed twice
upVars == <<upServer, upForm, upKnown, upDialog, upCalls, upCounts>>

Usernames == {"u", "v"}
Emails == {"m", "n"}
UpPasswords == {"p", "q"}
Nothing == ""
NoDialog == [for |-> Nothing, username |-> Nothing, email |-> Nothing]

Call(kind, u, e, otp, p) == [kind |-> kind, pc |-> "sent", username |-> u, email |-> e, otp |-> otp, password |-> p]
Load(kind) == Call(kind, Nothing, Nothing, Nothing, Nothing)
PageLoads == {c \in upCalls : c.kind \in {"load", "reload"}}
UpUnderWay(kind) == \E c \in upCalls : c.kind = kind

UpInit ==
    /\ upServer = [username |-> "u", email |-> "m", password |-> "p", code |-> Nothing, passwordCode |-> FALSE]
    /\ upForm = [username |-> Nothing, email |-> Nothing, confirm |-> Nothing, otp |-> Nothing,
                 old |-> Nothing, new |-> Nothing, passwordOtp |-> FALSE]
    /\ upKnown = [username |-> Nothing, email |-> Nothing, password |-> Nothing]
    /\ upDialog = NoDialog
    /\ upCalls = {Load("load")}
    /\ upCounts = [inputs |-> 0, typed |-> FALSE, astray |-> FALSE, twice |-> {"m"}]

Input == upDialog = NoDialog /\ upCounts.inputs < UpMaxInputs
OneMore == [upCounts EXCEPT !.inputs = @ + 1]
-----------------------------------------------------------------------------
(* Loading *)

UpLoadServed(c) ==
    /\ c \in PageLoads /\ c.pc = "sent"
    /\ upCalls' = (upCalls \ {c}) \cup {[c EXCEPT !.pc = "done", !.username = upServer.username, !.email = upServer.email]}
    /\ UNCHANGED <<upServer, upForm, upKnown, upDialog, upCounts>>

\* The answer goes into the fields, whatever was typed there meanwhile.
loadInitialData(c) ==
    /\ c \in PageLoads /\ c.pc = "done"
    /\ upKnown' = [upKnown EXCEPT !.username = c.username, !.email = c.email]
    /\ upForm' = [upForm EXCEPT !.username = c.username, !.email = c.email, !.confirm = Nothing]
    /\ upCalls' = upCalls \ {c}
    /\ upCounts' = [upCounts EXCEPT !.typed = FALSE]
    /\ UNCHANGED <<upServer, upDialog>>
\* The fields keep what they had, and count as changed from nothing.
UpLoadFails(c) ==
    /\ c \in PageLoads
    /\ upKnown' = [upKnown EXCEPT !.username = Nothing, !.email = Nothing]
    /\ upForm' = [upForm EXCEPT !.confirm = Nothing]
    /\ upCalls' = upCalls \ {c}
    /\ upCounts' = [upCounts EXCEPT !.astray = TRUE]
    /\ UNCHANGED <<upServer, upDialog>>
-----------------------------------------------------------------------------
(* Typing *)

Typing == Input /\ upCounts' = [OneMore EXCEPT !.typed = TRUE] /\ UNCHANGED <<upServer, upDialog, upCalls>>
typeUsername(u) == Typing /\ upForm' = [upForm EXCEPT !.username = u] /\ UNCHANGED upKnown
\* Back to the address known: the confirmation and the code are emptied, and the password forgotten.
typeEmail(e) ==
    /\ Typing
    /\ IF e # upKnown.email
       THEN upForm' = [upForm EXCEPT !.email = e] /\ UNCHANGED upKnown
       ELSE /\ upForm' = [upForm EXCEPT !.email = e, !.confirm = Nothing, !.otp = Nothing]
            /\ upKnown' = [upKnown EXCEPT !.password = IF upForm.username = upKnown.username THEN Nothing ELSE @]
typeConfirm(e) == Typing /\ upForm.email # upKnown.email /\ upForm' = [upForm EXCEPT !.confirm = e] /\ UNCHANGED upKnown
\* The code that was mailed.
typeCode == Typing /\ upServer.code # Nothing /\ upForm' = [upForm EXCEPT !.otp = upServer.code] /\ UNCHANGED upKnown
typePasswords(old, new) == Typing /\ upForm' = [upForm EXCEPT !.old = old, !.new = new] /\ UNCHANGED upKnown
typePasswordCode == Typing /\ upServer.passwordCode /\ upForm' = [upForm EXCEPT !.passwordOtp = TRUE] /\ UNCHANGED upKnown
-----------------------------------------------------------------------------
(* Codes *)

sendEmailCode ==
    /\ Input /\ upForm.email # Nothing /\ ~UpUnderWay("code")
    /\ upDialog' = [for |-> "code", username |-> Nothing, email |-> upForm.email]
    /\ upCounts' = OneMore
    /\ UNCHANGED <<upServer, upForm, upKnown, upCalls>>
sendPasswordCode ==
    /\ Input /\ upForm.old # Nothing /\ ~UpUnderWay("passwordCode")
    /\ upCalls' = upCalls \cup {Call("passwordCode", Nothing, Nothing, Nothing, upForm.old)}
    /\ upCounts' = OneMore
    /\ UNCHANGED <<upServer, upForm, upKnown, upDialog>>
-----------------------------------------------------------------------------
(* Saving *)

EmailTypedTwice == upForm.email = upKnown.email \/ upForm.email = upForm.confirm

\* The password comes from the dialog of before, from the password form, or from a dialog.
PasswordAtHand == IF upKnown.password # Nothing THEN upKnown.password ELSE upForm.old

\* buildProfileUpdateBody, with what is known when the password has been given.
Changed(new, old) == IF new = old THEN Nothing ELSE new
ProfileUpdate(u, e, p) ==
    LET email == Changed(e, upKnown.email)
    IN Call("save", Changed(u, upKnown.username), email, IF email = Nothing THEN Nothing ELSE upForm.otp, p)
Differs(u, e) == u # upKnown.username \/ e # upKnown.email

\* The button is disabled until the page was loaded again.
submitProfile ==
    /\ Input /\ ~UpUnderWay("save") /\ ~UpUnderWay("reload") /\ EmailTypedTwice
    /\ Differs(upForm.username, upForm.email)
    /\ upCounts' = [OneMore EXCEPT !.twice = @ \cup ({upForm.email} \ {Nothing})]
    /\ IF PasswordAtHand = Nothing
       THEN upDialog' = [for |-> "save", username |-> upForm.username, email |-> upForm.email] /\ UNCHANGED upCalls
       ELSE upCalls' = upCalls \cup {ProfileUpdate(upForm.username, upForm.email, PasswordAtHand)} /\ UNCHANGED upDialog
    /\ UNCHANGED <<upServer, upForm, upKnown>>

givePassword(p) ==
    /\ upDialog # NoDialog
    /\ upDialog' = NoDialog
    /\ IF upDialog.for = "code"
       THEN /\ upCalls' = upCalls \cup {Call("code", Nothing, upDialog.email, Nothing, p)}
            /\ UNCHANGED upKnown
       ELSE /\ upKnown' = [upKnown EXCEPT !.password = p]
            /\ upCalls' = IF Differs(upDialog.username, upDialog.email)
                          THEN upCalls \cup {ProfileUpdate(upDialog.username, upDialog.email, p)} ELSE upCalls
    /\ UNCHANGED <<upServer, upForm, upCounts>>
cancelPassword ==
    /\ upDialog # NoDialog
    /\ upDialog' = NoDialog
    /\ UNCHANGED <<upServer, upForm, upKnown, upCalls, upCounts>>

submitPassword ==
    /\ Input /\ ~UpUnderWay("password") /\ upForm.old # Nothing /\ upForm.new # Nothing
    /\ upCalls' = upCalls \cup {Call("password", upForm.new, Nothing, IF upForm.passwordOtp THEN "code" ELSE Nothing, upForm.old)}
    /\ upCounts' = OneMore
    /\ UNCHANGED <<upServer, upForm, upKnown, upDialog>>
-----------------------------------------------------------------------------
(* The server *)

Right(c) == c.password = upServer.password
SameAddress(c) == c.email \in {Nothing, upServer.email}
CodeFits(c) == c.otp = c.email /\ upServer.code = c.email
Renamed(c) == [upServer EXCEPT !.username = IF c.username = Nothing THEN @ ELSE c.username]
Codeless(server) == [server EXCEPT !.code = Nothing]
Moved(c) == [Renamed(c) EXCEPT !.email = c.email, !.code = Nothing]
NewPassword(c) == [upServer EXCEPT !.password = c.username, !.passwordCode = FALSE]

\* What the account may be after a request that is answered with an error, on its way through the
\* handler: a name that is taken, a code that is wrong or was tried too often, an address that is
\* taken when the code is already spent, a mail that is not sent, a database that fails at any
\* statement, before or after that was carried out.
AfterRefusal(c) ==
    CASE c.kind = "code" -> {upServer, Codeless(upServer), [upServer EXCEPT !.code = c.email]}
      [] c.kind = "passwordCode" -> {upServer} \cup {[upServer EXCEPT !.passwordCode = valid] : valid \in BOOLEAN}
      [] c.kind = "save" -> {upServer, Renamed(c)}
                               \cup (IF SameAddress(c) THEN {} ELSE {Codeless(Renamed(c))})
                               \cup (IF ~SameAddress(c) /\ CodeFits(c) THEN {Moved(c)} ELSE {})
      [] c.kind = "password" -> {upServer, [upServer EXCEPT !.passwordCode = FALSE]}
                                   \cup (IF c.otp # Nothing /\ upServer.passwordCode THEN {NewPassword(c)} ELSE {})

UpAnswer(c, pc, servers) ==
    /\ c.pc = "sent" /\ c \notin PageLoads
    /\ upCalls' = (upCalls \ {c}) \cup {[c EXCEPT !.pc = pc]}
    /\ upServer' \in servers
    /\ UNCHANGED <<upForm, upKnown, upDialog, upCounts>>

RequestEmailChangeOTPHandler(c) == c.kind = "code" /\ UpAnswer(c, "done", {[upServer EXCEPT !.code = c.email]})
RequestPasswordChangeOTPHandler(c) == c.kind = "passwordCode" /\ UpAnswer(c, "done", {[upServer EXCEPT !.passwordCode = TRUE]})
\* The name and the address, or the password.
UserProfileUpdateHandler(c) ==
    \/ c.kind = "save" /\ SameAddress(c) /\ UpAnswer(c, "done", {Renamed(c)})
    \/ c.kind = "save" /\ ~SameAddress(c) /\ CodeFits(c) /\ UpAnswer(c, "done", {Moved(c)})
    \/ c.kind = "password" /\ c.otp # Nothing /\ upServer.passwordCode /\ UpAnswer(c, "done", {NewPassword(c)})

UpServed(c) ==
    \/ ~Right(c) /\ UpAnswer(c, "password refused", {upServer})
    \/ Right(c) /\ (RequestEmailChangeOTPHandler(c) \/ RequestPasswordChangeOTPHandler(c) \/ UserProfileUpdateHandler(c))
    \/ UpAnswer(c, "refused", IF Right(c) THEN AfterRefusal(c) ELSE {upServer})
-----------------------------------------------------------------------------
(* The answers *)

Answered(c) == upCalls' = upCalls \ {c} /\ UNCHANGED <<upServer, upDialog>>
emailCodeSent(c) ==
    /\ c.kind = "code" /\ c.pc = "done"
    /\ upKnown' = [upKnown EXCEPT !.password = c.password]
    /\ Answered(c) /\ UNCHANGED <<upForm, upCounts>>
passwordCodeSent(c) ==
    /\ c.kind = "passwordCode" /\ c.pc = "done"
    /\ Answered(c) /\ UNCHANGED <<upForm, upKnown, upCounts>>

NotReloaded == {}
refreshProfileData == {Load("reload")}
profileSaved(c) ==
    /\ c.kind = "save" /\ c.pc = "done"
    /\ upForm' = [upForm EXCEPT !.otp = Nothing]
    /\ upKnown' = [upKnown EXCEPT !.password = Nothing]
    /\ upCalls' = (upCalls \ {c}) \cup refreshProfileData
    /\ upCounts' = [upCounts EXCEPT !.astray = UpUnderWay("load")]
    /\ UNCHANGED <<upServer, upDialog>>
passwordChanged(c) ==
    /\ c.kind = "password" /\ c.pc = "done"
    /\ upForm' = [upForm EXCEPT !.old = Nothing, !.new = Nothing, !.passwordOtp = FALSE]
    /\ Answered(c) /\ UNCHANGED <<upKnown, upCounts>>

\* Refused, or lost on the way: only a refused password is forgotten.
notSaved(c) ==
    /\ c \notin PageLoads
    /\ upKnown' = [upKnown EXCEPT !.password = IF c.kind = "save" /\ c.pc = "password refused" THEN Nothing ELSE @]
    /\ upCounts' = [upCounts EXCEPT !.astray = @ \/ (c.kind = "save" /\ c.pc # "password refused")]
    /\ Answered(c) /\ UNCHANGED upForm

UpNext ==
    \/ \E u \in Usernames : typeUsername(u)
    \/ \E e \in Emails : typeEmail(e) \/ typeConfirm(e)
    \/ \E p, q \in UpPasswords : typePasswords(p, q)
    \/ typeCode \/ typePasswordCode \/ sendEmailCode \/ sendPasswordCode
    \/ submitProfile \/ submitPassword \/ cancelPassword \/ \E p \in UpPasswords : givePassword(p)
    \/ \E c \in upCalls : \/ UpLoadServed(c) \/ loadInitialData(c) \/ UpLoadFails(c) \/ UpServed(c)
                          \/ emailCodeSent(c) \/ passwordCodeSent(c) \/ profileSaved(c) \/ passwordChanged(c) \/ notSaved(c)
-----------------------------------------------------------------------------
UpTypeOK ==
    /\ upServer \in [username : Usernames, email : Emails, password : UpPasswords, code : Emails \cup {Nothing}, passwordCode : BOOLEAN]
    /\ upForm \in [username : Usernames \cup {Nothing}, email : Emails \cup {Nothing}, confirm : Emails \cup {Nothing},
                   otp : Emails \cup {Nothing}, old : UpPasswords \cup {Nothing}, new : UpPasswords \cup {Nothing},
                   passwordOtp : BOOLEAN]
    /\ upKnown \in [username : Usernames \cup {Nothing}, email : Emails \cup {Nothing}, password : UpPasswords \cup {Nothing}]
    /\ upDialog \in [for : {Nothing, "code", "save"}, username : Usernames \cup {Nothing}, email : Emails \cup {Nothing}]
    /\ \A c \in upCalls : c.kind \in {"load", "reload", "save", "code", "password", "passwordCode"}
    /\ upCounts.inputs \in 0..UpMaxInputs /\ upCounts.twice \subseteq Emails

\* At rest the page knows the account as it is, and shows it where nothing was typed, unless a save was
\* refused or lost, a load failed, or a save was answered before the first load; and the account has no address that was not typed twice.
UpPageIsOfTheAccount ==
    /\ upCalls = {} /\ upDialog = NoDialog /\ ~upCounts.astray =>
           /\ upKnown.username = upServer.username /\ upKnown.email = upServer.email
           /\ upCounts.typed \/ (upForm.username = upServer.username /\ upForm.email = upServer.email)
    /\ upServer.email \in upCounts.twice
=============================================================================
