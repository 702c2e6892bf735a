-------------------------------- MODULE LoginForm --------------------------------
(***************************************************************************)
(* The login form: the page of its own, and the same form fetched into a    *)
(* modal, where it is kept and shown again as it was left.  The form is in  *)
(* one of four phases; links change the phase at any time, also while the   *)
(* answer to what was submitted in the former phase is still awaited.       *)
(***************************************************************************)
EXTENDS Naturals, FiniteSets

CONSTANT LfMaxInputs      \* bound: inputs of the user

VARIABLES
    lfForm,    \* the form: its phase, what of it is displayed, and the submit button
    lfModal,   \* the modal: what it shows, whether the shell is kept; the openings under way
    lfCalls,   \* submitted to the server and not answered
    lfCounts   \* inputs so far, and whether something was met that the promise leaves out
lfVars == <<lfForm, lfModal, lfCalls, lfCounts>>

LfParts == {"username", "password", "otp", "reset", "forgot", "back", "resendOtp", "resendReset"}
LfPhases == {"credentials", "otp", "reset_request", "reset_verify"}

\* The form as the server renders it.
LfFresh(id) ==
    [id |-> id, phase |-> "credentials", parts |-> {"username", "password", "forgot"},
     identifier |-> FALSE, enabled |-> TRUE]

LfInit ==
    /\ lfForm = LfFresh(0)
    /\ \E kind \in {"page", "modal"} :
          lfModal = [kind |-> kind, shown |-> IF kind = "page" THEN "login" ELSE "none",
                     kept |-> FALSE, openings |-> 0, in |-> FALSE]
    /\ lfCalls = {}
    /\ lfCounts = [inputs |-> 0, spoiled |-> FALSE]

LfInput(spoils) ==
    /\ lfCounts.inputs < LfMaxInputs
    /\ lfCounts' = [inputs |-> lfCounts.inputs + 1, spoiled |-> lfCounts.spoiled \/ spoils]
LfUsable == lfModal.shown = "login" /\ ~lfModal.in
LfWaiting == \E c \in lfCalls : c.form = lfForm.id
-----------------------------------------------------------------------------
(* Phases *)

showOTPPhase(f, byMail) ==
    [f EXCEPT !.phase = "otp",
              !.parts = (@ \ {"username", "password", "resendOtp"}) \cup {"otp"}
                          \cup (IF byMail THEN {"resendOtp"} ELSE {})]

showPasswordResetRequestPhase(f) ==
    [f EXCEPT !.phase = "reset_request",
              !.parts = (@ \ {"password", "otp", "reset", "forgot"}) \cup {"back"}]

showPasswordResetVerifyPhase(f) ==
    [f EXCEPT !.phase = "reset_verify",
              !.parts = (@ \ {"username", "password", "otp", "forgot"})
                          \cup {"reset", "resendReset", "back"}]

\* Mutant: the section of the new password stays.
KeepReset(f) ==
    [f EXCEPT !.phase = "credentials", !.identifier = FALSE,
              !.parts = (@ \cap {"reset"}) \cup {"username", "password", "forgot"}]

restoreLoginCredentialsPhase(f) ==
    [f EXCEPT !.phase = "credentials", !.identifier = FALSE,
              !.parts = {"username", "password", "forgot"}]

\* The links; they do not wait for an answer that is awaited.
LfForgot ==
    /\ LfUsable /\ "forgot" \in lfForm.parts
    /\ lfForm' = showPasswordResetRequestPhase(lfForm)
    /\ LfInput(LfWaiting)
    /\ UNCHANGED <<lfModal, lfCalls>>

LfBack ==
    /\ LfUsable /\ "back" \in lfForm.parts
    /\ lfForm' = restoreLoginCredentialsPhase(lfForm)
    /\ LfInput(LfWaiting)
    /\ UNCHANGED <<lfModal, lfCalls>>
-----------------------------------------------------------------------------
(* Submitting *)

LfSend(phase) ==
    lfCalls' = lfCalls \cup {[id |-> lfCounts.inputs, form |-> lfForm.id, phase |-> phase, pc |-> "asked"]}

\* The submit handler: the button is disabled, the phase decides; a missing code or name is
\* told and the button enabled again.
LfSubmit(filled) ==
    /\ LfUsable /\ lfForm.enabled
    /\ IF filled \/ lfForm.phase = "credentials"
       THEN /\ LfSend(lfForm.phase)
            /\ lfForm' = [lfForm EXCEPT !.enabled = FALSE]
       ELSE UNCHANGED <<lfCalls, lfForm>>
    /\ LfInput(LfWaiting)
    /\ UNCHANGED lfModal

\* Sending the code again means sending the credentials again; only the page has this link.
LfResendOtp ==
    /\ LfUsable /\ lfModal.kind = "page" /\ {"otp", "resendOtp"} \subseteq lfForm.parts
    /\ LfSend("credentials")
    /\ lfForm' = [lfForm EXCEPT !.phase = "credentials", !.enabled = FALSE]
    /\ LfInput(LfWaiting)
    /\ UNCHANGED lfModal

\* The reset is asked for again with the name of before; only the modal disables the button.
LfResendReset ==
    /\ LfUsable /\ {"reset", "resendReset"} \subseteq lfForm.parts /\ lfForm.identifier
    /\ LfSend("reset_request")
    /\ lfForm' = [lfForm EXCEPT !.phase = "reset_request", !.enabled = @ /\ lfModal.kind = "page"]
    /\ LfInput(LfWaiting)
    /\ UNCHANGED lfModal
-----------------------------------------------------------------------------
(* Answers: they reach the form they were submitted with *)

LfAnswer(c, f) ==
    /\ lfCalls' = lfCalls \ {c}
    /\ lfForm' = IF c.form = lfForm.id THEN [f EXCEPT !.enabled = TRUE] ELSE lfForm
    /\ UNCHANGED lfModal
\* A phase that was set before the answer, as the links for sending again do, stays set.
LfResent(c) == lfCounts' = [lfCounts EXCEPT !.spoiled = @ \/ {"otp", "reset"} \cap lfForm.parts # {}]

\* Refused, or no answer: the button is enabled, except in the modal after a failed resending
\* of the reset, which nothing catches.
LfRefused(c) ==
    /\ c.pc = "asked"
    /\ LfAnswer(c, lfForm)
    /\ IF c.phase \in {"credentials", "reset_request"} THEN LfResent(c) ELSE UNCHANGED lfCounts

LfLost(c) ==
    /\ c.pc = "asked"
    /\ lfCalls' = lfCalls \ {c}
    /\ lfForm' = IF c.form # lfForm.id \/ (c.phase = "reset_request" /\ "reset" \in lfForm.parts)
                 THEN lfForm ELSE [lfForm EXCEPT !.enabled = TRUE]
    /\ IF c.phase \in {"credentials", "reset_request"} THEN LfResent(c) ELSE UNCHANGED lfCounts
    /\ UNCHANGED lfModal

\* handleCredentialsPhase: a code is wanted.
LfCodeWanted(c, byMail) ==
    /\ c.pc = "asked" /\ c.phase = "credentials"
    /\ LfAnswer(c, showOTPPhase(lfForm, byMail))
    /\ UNCHANGED lfCounts

\* handlePasswordResetRequestPhase: a code was sent, if there is such a user.
handlePasswordResetRequestPhase(c) ==
    /\ c.pc = "asked" /\ c.phase = "reset_request"
    /\ LfAnswer(c, [showPasswordResetVerifyPhase(lfForm) EXCEPT !.identifier = TRUE])
    /\ UNCHANGED lfCounts

handlePasswordResetVerifyPhase(c) ==
    /\ c.pc = "asked" /\ c.phase = "reset_verify"
    /\ LfAnswer(c, restoreLoginCredentialsPhase(lfForm))
    /\ UNCHANGED lfCounts

\* Authenticated: the page is left; the modal waits for the bootstrap of the user's shell.
LfAuthenticated(c) ==
    /\ c.pc = "asked" /\ c.phase \in {"credentials", "otp"}
    /\ IF lfModal.kind = "page"
       THEN lfModal' = [lfModal EXCEPT !.in = TRUE] /\ lfCalls' = lfCalls \ {c}
       ELSE lfCalls' = (lfCalls \ {c}) \cup {[c EXCEPT !.pc = "bootstrap"]} /\ UNCHANGED lfModal
    /\ UNCHANGED <<lfForm, lfCounts>>

\* completeSuccessfulModalLogin, its end: the shell is not kept.
completeSuccessfulModalLogin(c) ==
    /\ c.pc = "bootstrap"
    /\ lfCalls' = lfCalls \ {c}
    /\ lfModal' = [lfModal EXCEPT !.in = TRUE, !.kept = FALSE, !.shown = "none"]
    /\ UNCHANGED <<lfForm, lfCounts>>
-----------------------------------------------------------------------------
(* The modal *)

\* showLoginModal: the kept shell, or the page is fetched.
showLoginModal ==
    /\ lfModal.kind = "modal" /\ lfModal.shown # "login" /\ ~lfModal.in
    /\ lfModal' = IF lfModal.kept THEN [lfModal EXCEPT !.shown = "login"]
                  ELSE [lfModal EXCEPT !.openings = @ + 1]
    /\ LfInput(FALSE)
    /\ UNCHANGED <<lfForm, lfCalls>>

LfFetched ==
    /\ lfModal.openings > 0
    /\ lfForm' = LfFresh(lfForm.id + 1)
    /\ lfModal' = [lfModal EXCEPT !.openings = @ - 1, !.kept = TRUE, !.shown = "login"]
    /\ UNCHANGED <<lfCalls, lfCounts>>

LfFetchFails ==
    /\ lfModal.openings > 0
    /\ lfModal' = [lfModal EXCEPT !.openings = @ - 1]
    /\ UNCHANGED <<lfForm, lfCalls, lfCounts>>

LfClose ==
    /\ lfModal.kind = "modal" /\ lfModal.shown # "none"
    /\ lfModal' = [lfModal EXCEPT !.shown = "none"]
    /\ LfInput(FALSE)
    /\ UNCHANGED <<lfForm, lfCalls>>

\* showPrivacyContentInModal: in the place of the form; its button shows the form again.
showPrivacyContentInModal ==
    /\ lfModal.kind = "modal" /\ LfUsable
    /\ lfModal' = [lfModal EXCEPT !.shown = "privacy"]
    /\ LfInput(FALSE)
    /\ UNCHANGED <<lfForm, lfCalls>>

LfNext ==
    \/ LfForgot \/ LfBack \/ LfSubmit(TRUE) \/ LfSubmit(FALSE) \/ LfResendOtp \/ LfResendReset
    \/ \E c \in lfCalls :
          \/ LfRefused(c) \/ LfLost(c) \/ LfCodeWanted(c, TRUE) \/ LfCodeWanted(c, FALSE)
          \/ handlePasswordResetRequestPhase(c) \/ handlePasswordResetVerifyPhase(c)
          \/ LfAuthenticated(c) \/ completeSuccessfulModalLogin(c)
    \/ showLoginModal \/ LfFetched \/ LfFetchFails \/ LfClose \/ showPrivacyContentInModal
-----------------------------------------------------------------------------
(* Properties *)

LfTypeOK ==
    /\ lfForm.phase \in LfPhases /\ lfForm.parts \subseteq LfParts
    /\ lfModal.shown \in {"none", "login", "privacy"} /\ lfModal.openings \in 0..LfMaxInputs
    /\ \A c \in lfCalls : c.phase \in LfPhases /\ c.form \in 0..LfMaxInputs

\* A form that waits for nothing can be submitted, and what it displays is what its phase
\* submits, however it was left and shown again; as long as nothing else
\* was done while an answer was awaited and sending a code again did not fail.
LfFormShowsItsPhase ==
    ~LfWaiting /\ ~lfModal.in /\ ~lfCounts.spoiled =>
      /\ lfForm.enabled
      /\ "otp" \in lfForm.parts <=> lfForm.phase = "otp"
      /\ "reset" \in lfForm.parts <=> lfForm.phase = "reset_verify"
      /\ "password" \in lfForm.parts <=> lfForm.phase = "credentials"
      /\ lfForm.phase = "reset_verify" => lfForm.identifier
=============================================================================
