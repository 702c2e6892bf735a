------------------------------ MODULE ApiClient ------------------------------
(***************************************************************************)
(* The one way from the page to the server: the stages of a changing call,  *)
(* with the token against forged requests, which calls share, and its       *)
(* recovery.  The session is a cookie; the token in it changes under the    *)
(* page, by another session or by the answer to a fetch that was sent while *)
(* it held none.  Tokens are numbered; none is one that nobody was given.   *)
(***************************************************************************)
EXTENDS Naturals, FiniteSets

CONSTANTS ApMaxInputs,    \* bound: calls and changes of the session
          ApMaxSessions   \* bound: tokens

VARIABLES
    apServer,    \* the token in the session's cookie
    apWrites,    \* changing calls under way
    apTab,       \* the cached token, and whether the page was left for the login
    apSaid,      \* how the last changing call ended
    apCounts     \* inputs so far
apVars == <<apServer, apWrites, apTab, apSaid, apCounts>>

ApInit ==
    /\ apServer = 1
    /\ apWrites = {}
    /\ apTab = [token |-> 0, left |-> FALSE]
    /\ apSaid = [refused |-> FALSE]
    /\ apCounts = [inputs |-> 0]

ApInput ==
    /\ ~apTab.left /\ apCounts.inputs < ApMaxInputs
    /\ apCounts' = [apCounts EXCEPT !.inputs = @ + 1]

\* Another session's cookie is set, by an answer to this page or to another tab.
ApSessionChanges ==
    /\ apServer < ApMaxSessions /\ apServer' = apServer + 1
    /\ ApInput
    /\ UNCHANGED <<apWrites, apTab, apSaid>>
-----------------------------------------------------------------------------
(* Changing calls *)

ApWrite(w, next) == apWrites' = (apWrites \ {w}) \cup {next}

\* csrfStage: the cached token, or one is fetched.
csrfStage ==
    /\ ApInput
    /\ apWrites' = apWrites \cup
          {[id |-> apCounts.inputs, began |-> apServer, token |-> apTab.token, got |-> 0, lost |-> FALSE,
            retried |-> FALSE, pc |-> IF apTab.token # 0 THEN "execute" ELSE "token"]}
    /\ UNCHANGED <<apServer, apTab, apSaid>>

\* CSRFTokenHandler: the token of the session.
ApTokenServed(w) ==
    /\ w.pc \in {"token", "recover"} /\ w.got = 0
    /\ ApWrite(w, [w EXCEPT !.got = apServer])
    /\ UNCHANGED <<apServer, apTab, apSaid, apCounts>>

\* The session that was sent held none: one is made, and the cookie that comes with it replaces
\* what the answer to an overlapping fetch had set.
ApTokenMade(w) ==
    /\ w.pc \in {"token", "recover"} /\ w.got = 0 /\ apServer < ApMaxSessions
    /\ apServer' = apServer + 1
    /\ ApWrite(w, [w EXCEPT !.got = apServer + 1, !.began = apServer + 1])
    /\ UNCHANGED <<apTab, apSaid, apCounts>>

ApEnd(w, refused) ==
    /\ apWrites' = apWrites \ {w}
    /\ apSaid' = [apSaid EXCEPT !.refused = refused /\ ~w.lost /\ w.began = apServer]

\* Mutant: the token that is cached by now is taken for the new one.
KeepToken(w) ==
    LET token == IF apTab.token # 0 THEN apTab.token ELSE w.got
    IN /\ apTab' = [apTab EXCEPT !.token = token]
       /\ IF w.pc = "recover" /\ token = w.token THEN ApEnd(w, TRUE)
          ELSE /\ ApWrite(w, [w EXCEPT !.pc = "execute", !.token = token, !.got = 0, !.retried = w.pc = "recover"])
               /\ UNCHANGED apSaid

\* The token arrives and is cached; a recovery that got the same token leaves the refusal.
ensureCsrfToken(w) ==
    /\ apTab' = [apTab EXCEPT !.token = w.got]
    /\ IF w.pc = "recover" /\ w.got = w.token THEN ApEnd(w, TRUE)
       ELSE /\ ApWrite(w, [w EXCEPT !.pc = "execute", !.token = w.got, !.got = 0, !.retried = w.pc = "recover"])
            /\ UNCHANGED apSaid

ApTokenArrives(w) ==
    /\ w.pc \in {"token", "recover"} /\ w.got # 0
    /\ ensureCsrfToken(w)
    /\ UNCHANGED <<apServer, apCounts>>

\* The token cannot be fetched: what another call cached meanwhile is taken, if anything, or else
\* the refusal is left.
ApTokenFails(w) ==
    /\ w.pc \in {"token", "recover"}
    /\ IF w.pc = "recover" /\ apTab.token \in {0, w.token} THEN ApEnd(w, FALSE)
       ELSE /\ ApWrite(w, [w EXCEPT !.pc = "execute", !.token = apTab.token, !.got = 0, !.lost = TRUE,
                                   !.retried = w.pc = "recover"])
            /\ UNCHANGED apSaid
    /\ UNCHANGED <<apServer, apTab, apCounts>>

\* executeStage: WithCSRFCheck finds the token in the session; authRedirectStage, rateLimitHandlerStage and
\* errorHandlerStage end the call, the first of them perhaps by leaving the page.
executeStage(w) ==
    /\ w.pc = "execute" /\ w.token = apServer
    /\ ApEnd(w, FALSE)
    /\ \E left \in BOOLEAN : apTab' = [apTab EXCEPT !.left = left]
    /\ UNCHANGED <<apServer, apCounts>>

\* csrfRecoveryStage: the server did not take the token; the cached one is dropped and one
\* is fetched, once.
csrfRecoveryStage(w) ==
    /\ w.pc = "execute" /\ w.token # apServer
    /\ IF w.retried THEN ApEnd(w, TRUE) /\ UNCHANGED apTab
       ELSE /\ apTab' = [apTab EXCEPT !.token = 0]
            /\ ApWrite(w, [w EXCEPT !.pc = "recover"])
            /\ UNCHANGED apSaid
    /\ UNCHANGED <<apServer, apCounts>>

ApNext ==
    \/ ApSessionChanges \/ csrfStage
    \/ /\ ~apTab.left
       /\ \E w \in apWrites : \/ ApTokenServed(w) \/ ApTokenMade(w) \/ ApTokenArrives(w) \/ ApTokenFails(w)
                              \/ executeStage(w) \/ csrfRecoveryStage(w)
-----------------------------------------------------------------------------
(* Properties *)

ApTypeOK ==
    /\ apServer \in 1..ApMaxSessions /\ apTab.token \in 0..ApMaxSessions
    /\ \A w \in apWrites : w.token \in 0..ApMaxSessions

\* A changing call is refused for its token only if the session's token was replaced since the
\* call began or made one, or no token could be fetched.
ApTokenRecovered == ~apSaid.refused
=============================================================================
