----------------------------- MODULE LoginFlow -----------------------------
(***************************************************************************)
(* Signing in, resetting a password and signing out.  The session is a        *)
(* cookie: a handler works on the copy its request brought, and what it saves *)
(* reaches the browser with the answer, so that answers of overlapping        *)
(* requests replace one another's sessions and a lost one leaves the old.     *)
(*                                                                         *)
(* The challenges of Otp are told here by what they promise: one code per     *)
(* user and purpose, compared with a few guesses and accepted once.  A code   *)
(* may reach its user although the mail server reported a failure, so any     *)
(* code issued may be typed.  Requests that are refused for their token, their*)
(* rate, a session that waits for no code, or a database that does not answer *)
(* change nothing and are left out.                                         *)
(***************************************************************************)
EXTENDS Naturals, Sequences

CONSTANTS LgUsers,
          LgMailed,     \* the users who sign in with a code by e-mail; the others choose any factor
          LgSlots,      \* requests of the browser under way at once
          LgMaxTries,   \* localLoginFactorMaxAttempts, and MaxVerifyAttempts of the profiles
          LgMaxInputs,  \* bound: requests made
          LgMaxCodes    \* bound: codes issued

VARIABLES
    lgJar,     \* the session cookie of the browser
    lgUsers,   \* per user: the factor of the sign-in, and the password
    lgCodes,   \* per purpose and user, the challenge: its code (0: none) and the wrong guesses at it
    lgReq,     \* the requests under way
    lgIssued,  \* history of each code: for whom and what it was issued, the guesses at it, what it did
    lgProved,  \* history: the steps each user has passed
    lgTold,    \* the last answer that arrived
    lgLine,    \* the sign-in as the answers told it: whose, wrong guesses, whether no requests overlapped since
    lgInputs
lgVars == <<lgJar, lgUsers, lgCodes, lgReq, lgIssued, lgProved, lgTold, lgLine, lgInputs>>

Nobody == "nobody"
LgRequests == 1..LgSlots
SomeUser == LgUsers \cup {Nobody}
Methods == {"none", "local", "email"}  \* "local": a fixed PIN or an authenticator
Passwords == {"old", "new"}
Purposes == {"login", "password_reset"}
NoChallenge == [code |-> 0, tries |-> 0]

Cookie == [user : SomeUser, pend : SomeUser, tries : 0..LgMaxTries, reset : SomeUser]
Empty == [user |-> Nobody, pend |-> Nobody, tries |-> 0, reset |-> Nobody]
\* What is typed as a code: the PIN of a user, a code, or anything else.
Wrong == [pin |-> Nobody, code |-> 0]
Guesses ==
    LET pins == {u \in LgUsers : lgUsers[u].method = "local"}
    IN  [pin : pins, code : {0}] \cup [pin : {Nobody}, code : 0..Len(lgIssued)]

Places == {"idle", "password", "factor", "create", "mail", "verify", "update", "answer"}
Idle == [kind |-> "none", at |-> "idle", cookie |-> Empty, user |-> Nobody, password |-> "old", guess |-> Wrong,
         reply |-> <<>>, says |-> ""]

\* The answers the properties look back at.
Told(q) == IF q.says \in {"authenticated", "db_error"}
           THEN [kind |-> q.kind, user |-> q.user, guess |-> q.guess, says |-> q.says]
           ELSE [kind |-> "none", user |-> Nobody, guess |-> Wrong, says |-> ""]

LgInit ==
    /\ lgJar = Empty
    /\ lgUsers \in [LgUsers -> [method : Methods, password : {"old"}]]
    /\ \A u \in LgMailed : lgUsers[u].method = "email"
    /\ lgCodes = [p \in Purposes |-> [u \in LgUsers |-> NoChallenge]]
    /\ lgReq = [r \in LgRequests |-> Idle]
    /\ lgIssued = <<>> /\ lgProved = {}
    /\ lgTold = Told(Idle)
    /\ lgLine = [user |-> Nobody, wrong |-> 0, alone |-> TRUE]
    /\ lgInputs = 0

At(r, place) == lgReq[r].at = place
Goto(r, place) == lgReq' = [lgReq EXCEPT ![r] = [@ EXCEPT !.at = place]]
\* The answer, and the session it saves (<<>> when the session is not saved).  Of the request it keeps what
\* the properties look back at.
Answer(q, says, saved) == [Idle EXCEPT !.kind = q.kind, !.at = "answer", !.user = q.user, !.reply = saved, !.says = says,
                                       !.guess = IF says \in {"authenticated", "db_error"} THEN q.guess ELSE Wrong]
Reply(r, says, saved) == lgReq' = [lgReq EXCEPT ![r] = Answer(@, says, saved)]
Purpose(r) == IF lgReq[r].kind = "reset" THEN "password_reset" ELSE "login"
Server == <<lgUsers, lgCodes, lgIssued, lgProved>>
Browser == <<lgJar, lgTold, lgLine, lgInputs>>
-----------------------------------------------------------------------------
(* The browser *)

\* Requests are alike: the first slot that is free is taken.
Free(r) == At(r, "idle") /\ (\A q \in 1..(r - 1) : ~At(q, "idle")) /\ lgInputs < LgMaxInputs
NotAlone == [lgLine EXCEPT !.alone = @ /\ \A q \in LgRequests : At(q, "idle")]

SendRequest(r, kind, place, user, password, guess) ==
    /\ Free(r)
    /\ lgReq' = [lgReq EXCEPT ![r] = [Idle EXCEPT !.kind = kind, !.at = place, !.cookie = lgJar, !.user = user,
                                                  !.password = password, !.guess = guess]]
    /\ lgInputs' = lgInputs + 1
    /\ lgLine' = NotAlone
    /\ UNCHANGED <<lgJar, lgTold, Server>>
SendCredentials(r, u, p) == SendRequest(r, "credentials", "password", u, p, Wrong)
SendCode(r, g) == lgJar.pend # Nobody /\ SendRequest(r, "code", "verify", lgJar.pend, "old", g)
AskForReset(r, u) == SendRequest(r, "reset", "create", u, "old", Wrong)
SendNewPassword(r, g, p) == lgJar.reset # Nobody /\ SendRequest(r, "confirm", "verify", lgJar.reset, p, g)

\* What the answers say of the sign-in that is under way.
Followed(r, q) ==
    CASE q.says = "otp_required" -> [lgLine EXCEPT !.user = q.user, !.wrong = 0,
                                                   !.alone = \A p \in LgRequests \ {r} : At(p, "idle")]
      [] q.says = "wrong_otp" /\ q.kind = "code" /\ lgUsers[q.user].method = "local" ->
            [lgLine EXCEPT !.user = IF lgLine.wrong + 1 >= LgMaxTries THEN Nobody ELSE @, !.wrong = @ + 1]
      [] q.says \in {"authenticated", "session_error", "logged_out"} -> [lgLine EXCEPT !.user = Nobody]
      [] OTHER -> lgLine

\* Answers arrive in any order; the last session to arrive is the one kept.
Arrive(r) ==
    LET q == lgReq[r]
    IN  /\ At(r, "answer")
        /\ lgJar' = IF q.reply = <<>> THEN lgJar ELSE q.reply[1]
        /\ lgTold' = Told(q)
        /\ lgLine' = Followed(r, q)
        /\ lgReq' = [lgReq EXCEPT ![r] = Idle]
        /\ UNCHANGED <<lgInputs, Server>>
Lose(r) ==
    /\ At(r, "answer")
    /\ lgReq' = [lgReq EXCEPT ![r] = Idle]
    /\ lgLine' = [lgLine EXCEPT !.alone = FALSE]
    /\ UNCHANGED <<lgJar, lgTold, lgInputs, Server>>
-----------------------------------------------------------------------------
(* Sessions *)

setPendingLoginState(session, u) == [session EXCEPT !.pend = u, !.tries = 0]
clearPendingLoginState(session) == [session EXCEPT !.pend = Nobody, !.tries = 0]

\* The old session is deleted first: without a fingerprint, or when the role cannot be read, that is all
\* that is saved.
completeLogin(r, session, u) ==
    \/ Reply(r, "authenticated", <<[session EXCEPT !.user = u]>>)
    \/ Reply(r, "session_error", <<Empty>>)
-----------------------------------------------------------------------------
(* Codes *)

CreateOTP(r) ==
    LET q == lgReq[r]
        n == Len(lgIssued) + 1
    IN  /\ At(r, "create") /\ n <= LgMaxCodes
        /\ lgCodes' = [lgCodes EXCEPT ![Purpose(r)][q.user] = [code |-> n, tries |-> 0]]
        /\ lgIssued' = Append(lgIssued, [user |-> q.user, purpose |-> Purpose(r), tries |-> 0, did |-> <<>>])
        /\ lgReq' = [lgReq EXCEPT ![r] = [@ EXCEPT !.at = "mail", !.guess = [Wrong EXCEPT !.code = n]]]
        /\ UNCHANGED <<lgUsers, lgProved, Browser>>

\* Without a code the sign-in fails; a reset is answered alike, and the session forgets the last one.
WithoutCode(r) ==
    LET session == lgReq[r].cookie
    IN  IF lgReq[r].kind = "reset" THEN Reply(r, "reset_requested", <<[session EXCEPT !.reset = Nobody]>>)
                                   ELSE Reply(r, "refused", <<>>)
\* No such user, too many codes, or the code could not be stored.
RefuseCode(r) == At(r, "create") /\ WithoutCode(r) /\ UNCHANGED <<Server, Browser>>

MailSent(r) ==
    LET q == lgReq[r]
    IN  /\ At(r, "mail")
        /\ IF q.kind = "reset" THEN Reply(r, "reset_requested", <<[q.cookie EXCEPT !.reset = q.user]>>)
                               ELSE Reply(r, "otp_required", <<setPendingLoginState(q.cookie, q.user)>>)
        /\ UNCHANGED <<Server, Browser>>
\* RevokeOTP takes back this code only, and may fail.
MailFails(r) ==
    LET q == lgReq[r]
        revoked == [lgCodes EXCEPT ![Purpose(r)][q.user] = IF @.code = q.guess.code THEN NoChallenge ELSE @]
    IN  /\ At(r, "mail")
        /\ lgCodes' \in {lgCodes, revoked}
        /\ WithoutCode(r)
        /\ UNCHANGED <<lgUsers, lgIssued, lgProved, Browser>>

\* A bug: the challenge is left in the table.
AcceptedAgain(purpose, u) == UNCHANGED lgCodes

\* verifyOTPWithTarget, for the answers it may give.
Accepts(purpose, u, guess) == guess.code # 0 /\ guess.code = lgCodes[purpose][u].code
Accepted(purpose, u) == lgCodes' = [lgCodes EXCEPT ![purpose][u] = NoChallenge]
\* A wrong guess, of which there may be a few, or a challenge that has expired or is not there.
Rejected(purpose, u) ==
    LET c == lgCodes[purpose][u]
        counted == [c EXCEPT !.tries = @ + 1]
    IN  \/ /\ c.code # 0
           /\ lgCodes' = [lgCodes EXCEPT ![purpose][u] = IF counted.tries < LgMaxTries THEN counted ELSE NoChallenge]
           /\ lgIssued' = [lgIssued EXCEPT ![c.code].tries = @ + 1]
        \/ Accepted(purpose, u) /\ UNCHANGED lgIssued
-----------------------------------------------------------------------------
(* Signing in *)

VerifyPassword(r) ==
    LET q == lgReq[r]
    IN  /\ At(r, "password")
        /\ IF q.password = lgUsers[q.user].password
           THEN Goto(r, "factor") /\ lgProved' = lgProved \cup {<<q.user, "password">>}
           ELSE Reply(r, "refused", <<>>) /\ UNCHANGED lgProved
        /\ UNCHANGED <<lgUsers, lgCodes, lgIssued, Browser>>

handleLoginCredentials(r) ==
    LET q == lgReq[r]
        method == lgUsers[q.user].method
    IN  /\ At(r, "factor")
        /\ \/ method = "none" /\ completeLogin(r, q.cookie, q.user)
           \/ method = "local" /\ Reply(r, "otp_required", <<setPendingLoginState(q.cookie, q.user)>>)
           \/ method = "email" /\ Goto(r, "create")
        /\ UNCHANGED <<Server, Browser>>

\* A bug: a wrong guess is not saved.
WrongLocalUnsaved(session) == <<>>

\* localLoginFactorAttemptsRemaining: the wrong guesses are counted in the session.
WrongLocal(session) ==
    LET counted == [session EXCEPT !.tries = @ + 1]
    IN  <<IF counted.tries >= LgMaxTries THEN clearPendingLoginState(session) ELSE counted>>

Proves(r) == lgProved' = lgProved \cup {<<lgReq[r].cookie.pend, "factor">>}
Submitted(r, kind) == At(r, "verify") /\ lgReq[r].kind = kind

VerifyLocal(r) ==
    LET session == lgReq[r].cookie
        u == session.pend
    IN  /\ Submitted(r, "code") /\ lgUsers[u].method = "local"
        /\ IF lgReq[r].guess.pin = u
           THEN completeLogin(r, clearPendingLoginState(session), u) /\ Proves(r)
           ELSE Reply(r, "wrong_otp", WrongLocal(session)) /\ UNCHANGED lgProved
        /\ UNCHANGED <<lgUsers, lgCodes, lgIssued, Browser>>

\* After the last wrong guess the pending sign-in goes from the copy only: the session is not saved.
VerifyEmail(r) ==
    LET session == lgReq[r].cookie
        u == session.pend
        code == lgReq[r].guess.code
    IN  /\ Submitted(r, "code") /\ lgUsers[u].method = "email"
        /\ IF Accepts("login", u, lgReq[r].guess)
           THEN /\ Accepted("login", u) /\ Proves(r)
                /\ completeLogin(r, clearPendingLoginState(session), u)
                /\ lgIssued' = [lgIssued EXCEPT ![code].did = Append(@, [what |-> "login", user |-> u])]
           ELSE /\ Rejected("login", u)
                /\ Reply(r, "wrong_otp", <<>>)
                /\ UNCHANGED lgProved
        /\ UNCHANGED <<lgUsers, Browser>>

\* The cookies of the session are deleted, whatever it holds.
Logout(r) ==
    /\ Free(r)
    /\ Reply(r, "logged_out", <<Empty>>)
    /\ lgInputs' = lgInputs + 1
    /\ lgLine' = NotAlone
    /\ UNCHANGED <<lgJar, lgTold, Server>>
-----------------------------------------------------------------------------
(* Resetting a password *)

VerifyReset(r) ==
    LET u == lgReq[r].cookie.reset
    IN  /\ Submitted(r, "confirm")
        /\ IF Accepts("password_reset", u, lgReq[r].guess)
           THEN Accepted("password_reset", u) /\ Goto(r, "update") /\ UNCHANGED lgIssued
           ELSE Rejected("password_reset", u) /\ Reply(r, "wrong_otp", <<>>)
        /\ UNCHANGED <<lgUsers, lgProved, Browser>>

\* After the update the database's answer may be lost, or the session not be saved: an error is told then.
UpdatePassword(r) ==
    LET q == lgReq[r]
        u == q.cookie.reset
    IN  /\ At(r, "update")
        /\ lgUsers' = [lgUsers EXCEPT ![u].password = q.password]
        /\ lgIssued' = [lgIssued EXCEPT ![q.guess.code].did = Append(@, [what |-> "password_reset", user |-> u])]
        /\ Reply(r, "password_reset", <<[q.cookie EXCEPT !.reset = Nobody]>>) \/ Reply(r, "unconfirmed", <<>>)
        /\ UNCHANGED <<lgCodes, lgProved, Browser>>
\* Nothing is updated: the code is spent, and the session still waits for one.
UpdateFails(r) ==
    /\ At(r, "update")
    /\ Reply(r, "db_error", <<>>)
    /\ UNCHANGED <<Server, Browser>>
-----------------------------------------------------------------------------
LgNext ==
    \E r \in LgRequests :
        \/ \E u \in LgUsers : AskForReset(r, u) \/ \E p \in Passwords : SendCredentials(r, u, p)
        \/ \E g \in Guesses : SendCode(r, g) \/ SendNewPassword(r, g, "new")
        \/ Logout(r) \/ Arrive(r) \/ Lose(r)
        \/ CreateOTP(r) \/ RefuseCode(r) \/ MailSent(r) \/ MailFails(r)
        \/ VerifyPassword(r) \/ handleLoginCredentials(r)
        \/ VerifyLocal(r) \/ VerifyEmail(r)
        \/ VerifyReset(r) \/ UpdatePassword(r) \/ UpdateFails(r)
LgSpec == LgInit /\ [][LgNext]_lgVars
-----------------------------------------------------------------------------
Kinds == {"none", "credentials", "code", "reset", "confirm"}
Says == {"", "refused", "otp_required", "wrong_otp", "authenticated", "session_error", "logged_out",
         "reset_requested", "password_reset", "unconfirmed", "db_error"}
Typed == [pin : SomeUser, code : 0..LgMaxCodes]
Requests == [kind : Kinds, at : Places, cookie : Cookie, user : SomeUser, password : Passwords, guess : Typed,
             reply : Seq(Cookie), says : Says]
Issued == [user : LgUsers, purpose : Purposes, tries : Nat, did : Seq([what : Purposes, user : LgUsers])]
LgTypeOK ==
    /\ lgJar \in Cookie
    /\ lgUsers \in [LgUsers -> [method : Methods, password : Passwords]]
    /\ lgCodes \in [Purposes -> [LgUsers -> [code : 0..LgMaxCodes, tries : 0..LgMaxTries]]]
    /\ lgReq \in [LgRequests -> Requests]
    /\ lgTold \in [kind : Kinds, user : SomeUser, guess : Typed, says : Says]
    /\ lgIssued \in Seq(Issued) /\ Len(lgIssued) <= LgMaxCodes
    /\ lgProved \subseteq LgUsers \X {"password", "factor"}
    /\ lgLine \in [user : SomeUser, wrong : Nat, alone : BOOLEAN]
    /\ lgInputs \in 0..LgMaxInputs

\* A code serves once, for the user and the purpose it was mailed for, and is not compared with more than
\* LgMaxTries guesses, however often it is sent and whichever session it comes with: also when the session
\* still waits for a code that is spent, and when the update a code was spent on has failed.
CodesServeOnce ==
    \A n \in DOMAIN lgIssued :
        LET code == lgIssued[n]
        IN  /\ code.tries <= LgMaxTries
            /\ code.did \in {<<>>, <<[what |-> code.purpose, user |-> code.user]>>}
            /\ lgTold.says = "db_error" /\ lgTold.guess.code = n =>
                   code.did = <<>> /\ \A p \in Purposes, u \in LgUsers : lgCodes[p][u].code # n

\* The sessions that are about: of the browser, and on their way to it or from it.
Saved(reply) == {reply[i] : i \in DOMAIN reply}
Sessions == {lgJar} \cup UNION {{lgReq[r].cookie} \cup Saved(lgReq[r].reply) : r \in LgRequests}
Earned(s) ==
    /\ \A u \in {s.user, s.pend} \ {Nobody} : <<u, "password">> \in lgProved
    /\ s.user # Nobody => lgUsers[s.user].method = "none" \/ <<s.user, "factor">> \in lgProved
    /\ s.reset # Nobody => \E n \in DOMAIN lgIssued : lgIssued[n].user = s.reset /\ lgIssued[n].purpose = "password_reset"
\* No session belongs to a user, or waits for one's code, who has not passed the steps before it, however the
\* requests of two people at one browser overlap.
SessionsAreEarned == \A s \in Sessions : Earned(s)

Names(t, s) ==
    /\ t.kind = "credentials" => s.user = t.user
    /\ t.guess.pin # Nobody => s.user = t.guess.pin
    /\ t.kind = "code" /\ t.guess.code # 0 =>
           t.guess.code \in DOMAIN lgIssued /\ s.user = lgIssued[t.guess.code].user
\* Who is told to be signed in is: the user that was named, or the one the typed code was mailed to.
SignedInAsTold == lgTold.says = "authenticated" => Names(lgTold, lgJar)

\* A browser whose requests do not overlap, and whose answers arrive, waits for the code it was told to wait
\* for, with as many wrong guesses as it was told of.
PendingAsTold ==
    lgLine.alone /\ lgLine.user # Nobody /\ (\A r \in LgRequests : At(r, "idle")) =>
        lgJar.pend = lgLine.user /\ lgJar.tries = (IF lgUsers[lgJar.pend].method = "local" THEN lgLine.wrong ELSE 0)

LgSignsInWhoProvedIt == CodesServeOnce /\ SessionsAreEarned /\ SignedInAsTold /\ PendingAsTold
=============================================================================
