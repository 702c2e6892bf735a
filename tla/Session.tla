------------------------------- MODULE Session -------------------------------
(***************************************************************************)
(* Two tabs of one browser and the session of the server.  A login or a      *)
(* logout in one tab is told to the other one over two transports at once;   *)
(* each tab reads the mode and the rights, checks the browser's              *)
(* fingerprint and builds its shell, step by step.  The local storage is     *)
(* shared by the tabs, the session storage with the rights is not.           *)
(***************************************************************************)
EXTENDS Naturals, Sequences, FiniteSets

CONSTANT SeMaxSessions   \* bound: sessions

VARIABLES
    seServer,   \* the session, which is the browser's cookie: odd ones are of a user, even of a guest
    seStore,    \* the shared storage: whether somebody is logged in; whether logins are told
    seTabs,     \* per tab: the session its shell was built in and as whose, the rights it holds
    seJobs,     \* what runs in the tabs
    seMail,     \* per tab and transport: the events under way to it; the ones a tab has seen
    seSpoiled,  \* whether a session began or ended that the promise leaves out
    seBack      \* whether a former session came back
seVars == <<seServer, seStore, seTabs, seJobs, seMail, seSpoiled, seBack>>

SeTabs == {1, 2}
Transports == {"channel", "storage"}
LoggedIn(session) == session % 2 = 1
NoRights == SeMaxSessions + 1
NewMail == [t \in Transports |-> <<>>]
SeJob(tab, kind, pc) == [tab |-> tab, kind |-> kind, pc |-> pc, got |-> NoRights, as |-> FALSE]

SeInit ==
    /\ seServer \in {0, 1}
    /\ \E told \in BOOLEAN : seStore = [user |-> LoggedIn(seServer), told |-> told]
    /\ seTabs = [t \in SeTabs |-> [shell |-> seServer, as |-> LoggedIn(seServer),
                                   rights |-> IF LoggedIn(seServer) THEN seServer ELSE NoRights]]
    /\ seJobs = {}
    /\ seMail = [t \in SeTabs |-> [box |-> NewMail, seen |-> {}]]
    /\ seSpoiled = FALSE /\ seBack = FALSE

\* Bound: no session begins after a former one came back.
SeMayBegin == seServer < SeMaxSessions /\ ~seBack

SeMove(j, next) == seJobs' = (seJobs \ {j}) \cup next
SeQuiet(others) == others = {} /\ \A t \in SeTabs : seMail[t].box = NewMail

\* emitAuthEvent: to the other tab, over both transports.
emitAuthEvent(tab, kind) ==
    seMail' = [t \in SeTabs |-> IF t = tab THEN seMail[t] ELSE
                 [seMail[t] EXCEPT !.box = [x \in Transports |->
                     Append(seMail[t].box[x], [kind |-> kind, id |-> seServer])]]]

\* The page is loaded: nothing of the former one goes on, what is told meanwhile is lost.
SePageLoads(tab) ==
    /\ seJobs' = {j \in seJobs : j.tab # tab} \cup {SeJob(tab, "load", "modes")}
    /\ seMail' = [seMail EXCEPT ![tab] = [box |-> NewMail, seen |-> {}]]
-----------------------------------------------------------------------------
(* Logging in and out *)

\* The form of a tab was accepted (the answer of the server has arrived).
SeLogin(tab) ==
    /\ ~LoggedIn(seServer) /\ SeMayBegin
    /\ seServer' = seServer + 1
    /\ seSpoiled' = (seSpoiled \/ ~seStore.told \/ ~SeQuiet(seJobs))
    /\ seJobs' = seJobs \cup {SeJob(tab, "login", "announce")}
    /\ UNCHANGED <<seStore, seTabs, seMail>>

\* completeSuccessfulModalLogin: told, if the configuration says so, before the own shell.
publishAuthLogin(j) ==
    /\ j.pc = "announce"
    /\ IF seStore.told THEN emitAuthEvent(j.tab, "login") ELSE UNCHANGED seMail
    /\ SeMove(j, {[j EXCEPT !.pc = "modes"]})
    /\ UNCHANGED <<seServer, seStore, seTabs, seSpoiled>>

\* Its failure: the page is loaded.
SeLoginFails(j) ==
    /\ j.kind = "login" /\ j.pc # "announce"
    /\ SePageLoads(j.tab)
    /\ UNCHANGED <<seServer, seStore, seTabs, seSpoiled>>

SeLogoutAsked(tab) ==
    /\ seTabs[tab].as
    /\ \A j \in seJobs : j.tab = tab => j.kind # "logout"
    /\ seJobs' = seJobs \cup {SeJob(tab, "logout", "asked")}
    /\ UNCHANGED <<seServer, seStore, seTabs, seMail, seSpoiled>>

SeLogoutServed(j) ==
    /\ j.pc = "asked" /\ SeMayBegin
    /\ seServer' = IF LoggedIn(seServer) THEN seServer + 1 ELSE seServer
    /\ seSpoiled' = (seSpoiled \/ ~SeQuiet(seJobs \ {j}))
    /\ SeMove(j, {[j EXCEPT !.pc = "answered"]})
    /\ UNCHANGED <<seStore, seTabs, seMail>>

\* applyLoggedOutShellReset: the shell is torn down and both storages are emptied.
applyLoggedOutShellReset(tab) ==
    /\ seStore' = [seStore EXCEPT !.user = FALSE]
    /\ seTabs' = [seTabs EXCEPT ![tab] = [@ EXCEPT !.rights = NoRights]]

\* performSpaLogoutReset, and the logout told by the other tab: afterwards "/" is loaded.
performSpaLogoutReset(j) ==
    /\ j.pc \in {"answered", "told"}
    /\ applyLoggedOutShellReset(j.tab)
    /\ SeMove(j, {[j EXCEPT !.pc = "emptied"]})
    /\ UNCHANGED <<seServer, seMail, seSpoiled>>

publishAuthLogout(j) ==
    /\ j.kind = "logout" /\ j.pc = "emptied"
    /\ emitAuthEvent(j.tab, "logout")
    /\ SeMove(j, {[j EXCEPT !.pc = "assign"]})
    /\ UNCHANGED <<seServer, seStore, seTabs, seSpoiled>>

navigateToPostLogoutPath(j) ==
    /\ j.pc = IF j.kind = "logout" THEN "assign" ELSE "emptied"
    /\ SePageLoads(j.tab)
    /\ UNCHANGED <<seServer, seStore, seTabs, seSpoiled>>

\* The logout got no answer: the server's own address of it is loaded, and nobody is told.
SeLogoutFails(j) ==
    /\ j.pc = "asked" /\ SeMayBegin
    /\ seServer' = IF LoggedIn(seServer) THEN seServer + 1 ELSE seServer
    /\ SePageLoads(j.tab)
    /\ seSpoiled' = TRUE
    /\ UNCHANGED <<seStore, seTabs>>
-----------------------------------------------------------------------------
(* What the other tab told *)

\* Mutant: the shell is built without reading the mode and the rights.
SyncWithoutModes(tab, event) ==
    LET kind == IF event.kind = "logout" THEN "logoutSync" ELSE "loginSync"
    IN IF \/ event.id \in seMail[tab].seen \/ (event.kind = "login" /\ ~seStore.told)
          \/ \E j \in seJobs : j.tab = tab /\ j.kind = kind
       THEN UNCHANGED seJobs
       ELSE seJobs' = seJobs \cup {SeJob(tab, kind, IF kind = "logoutSync" THEN "told" ELSE "boot")}

\* An event that was not seen begins one job of its kind.
handleAuthBroadcastEvent(tab, event) ==
    LET kind == IF event.kind = "logout" THEN "logoutSync" ELSE "loginSync"
    IN IF \/ event.id \in seMail[tab].seen \/ (event.kind = "login" /\ ~seStore.told)
          \/ \E j \in seJobs : j.tab = tab /\ j.kind = kind
       THEN UNCHANGED seJobs
       ELSE seJobs' = seJobs \cup {SeJob(tab, kind, IF kind = "logoutSync" THEN "told" ELSE "modes")}

notifySubscribers(tab, transport) ==
    /\ seMail[tab].box[transport] # <<>>
    /\ LET event == Head(seMail[tab].box[transport])
       IN /\ handleAuthBroadcastEvent(tab, event)
          /\ seMail' = [seMail EXCEPT ![tab].box[transport] = Tail(@), ![tab].seen = @ \cup {event.id}]
    /\ UNCHANGED <<seServer, seStore, seTabs, seSpoiled>>
-----------------------------------------------------------------------------
(* The steps of a shell *)

\* GetAuthModesHandler, UserPermissionsHandler and the datasets: each reads the cookie that was sent.
SeServed(j) ==
    /\ j.pc \in {"modes", "rights", "tables"} /\ j.got = NoRights
    /\ SeMove(j, {[j EXCEPT !.got = seServer]})
    /\ UNCHANGED <<seServer, seStore, seTabs, seMail, seSpoiled>>

\* After the mode: a page that loads checks the fingerprint first.
SeAfterModes(j) == [j EXCEPT !.got = NoRights, !.pc = IF j.kind = "load" THEN "fingerprint" ELSE "boot"]

\* setAuthModes: the answer sets the cookie it was given with once more (not always for a guest),
\* the mode is stored for all tabs, then a user's rights are asked for.
setAuthModes(j) ==
    /\ j.pc = "modes" /\ j.got # NoRights
    /\ seServer' \in {j.got} \cup (IF LoggedIn(j.got) THEN {} ELSE {seServer})
    /\ seStore' = [seStore EXCEPT !.user = LoggedIn(j.got)]
    /\ IF LoggedIn(j.got)
       THEN SeMove(j, {[j EXCEPT !.pc = "rights", !.got = NoRights]}) /\ UNCHANGED seTabs
       ELSE SeMove(j, {SeAfterModes(j)}) /\ seTabs' = [seTabs EXCEPT ![j.tab].rights = NoRights]
    /\ UNCHANGED <<seMail, seSpoiled>>

fetchUserPermissions(j) ==
    /\ j.pc = "rights" /\ j.got # NoRights
    /\ seTabs' = [seTabs EXCEPT ![j.tab].rights = IF LoggedIn(j.got) THEN j.got ELSE NoRights]
    /\ SeMove(j, {SeAfterModes(j)})
    /\ UNCHANGED <<seServer, seStore, seMail, seSpoiled>>

\* Without an answer the stored mode stays, or no rights are held.
SeModesFail(j) ==
    /\ j.pc \in {"modes", "rights"} /\ ~seSpoiled
    /\ seTabs' = IF j.pc = "modes" THEN seTabs ELSE [seTabs EXCEPT ![j.tab].rights = NoRights]
    /\ SeMove(j, {SeAfterModes(j)})
    /\ seSpoiled' = TRUE
    /\ UNCHANGED <<seServer, seStore, seMail>>

\* checkFingerprint: accepted, or too many requests, or no answer.
checkFingerprint(j) ==
    /\ j.pc = "fingerprint"
    /\ SeMove(j, {[j EXCEPT !.pc = "boot"]})
    /\ UNCHANGED <<seServer, seStore, seTabs, seMail, seSpoiled>>

\* Refused: the session is reset and told as a logout; a user's page keeps its mode and goes on.
resetSessionAndRedirect(j) ==
    /\ j.pc = "fingerprint" /\ SeMayBegin
    /\ LoggedIn(seServer)
    /\ seServer' = seServer + 1
    /\ seMail' = [t \in SeTabs |-> IF t = j.tab THEN seMail[t] ELSE
                    [seMail[t] EXCEPT !.box = [x \in Transports |->
                        Append(seMail[t].box[x], [kind |-> "logout", id |-> seServer + 1])]]]
    /\ SeMove(j, {[j EXCEPT !.pc = "boot"]})
    /\ seSpoiled' = TRUE
    /\ UNCHANGED <<seStore, seTabs>>

\* The reset fails: the storages are emptied.
clearClientAuthArtifacts(j) ==
    /\ j.pc = "fingerprint" /\ ~seSpoiled
    /\ applyLoggedOutShellReset(j.tab)
    /\ SeMove(j, {[j EXCEPT !.pc = "boot"]})
    /\ seSpoiled' = TRUE
    /\ UNCHANGED <<seServer, seMail>>

\* runPostAuthBootstrap: the mode is read from the storage, the datasets are asked for.
runPostAuthBootstrap(j) ==
    /\ j.pc = "boot"
    /\ SeMove(j, {[j EXCEPT !.pc = "tables", !.as = seStore.user]})
    /\ UNCHANGED <<seServer, seStore, seTabs, seMail, seSpoiled>>

load_tables(j) ==
    /\ j.pc = "tables" /\ j.got # NoRights
    /\ seTabs' = [seTabs EXCEPT ![j.tab] = [@ EXCEPT !.shell = j.got, !.as = j.as]]
    /\ SeMove(j, {})
    /\ UNCHANGED <<seServer, seStore, seMail, seSpoiled>>

SeNext ==
    /\ \/ \E t \in SeTabs : \/ SeLogin(t) \/ SeLogoutAsked(t)
                            \/ \E x \in Transports : notifySubscribers(t, x)
       \/ \E j \in seJobs :
             \/ publishAuthLogin(j) \/ SeLoginFails(j)
             \/ SeLogoutServed(j) \/ performSpaLogoutReset(j) \/ publishAuthLogout(j)
             \/ navigateToPostLogoutPath(j) \/ SeLogoutFails(j)
             \/ SeServed(j) \/ setAuthModes(j) \/ fetchUserPermissions(j) \/ SeModesFail(j)
             \/ checkFingerprint(j) \/ resetSessionAndRedirect(j) \/ clearClientAuthArtifacts(j)
             \/ runPostAuthBootstrap(j) \/ load_tables(j)
    /\ seBack' = (seBack \/ seServer' < seServer)
-----------------------------------------------------------------------------
(* Properties *)

SeTypeOK ==
    /\ seServer \in 0..SeMaxSessions
    /\ \A t \in SeTabs : seTabs[t].shell \in 0..SeMaxSessions /\ seTabs[t].rights \in 1..NoRights
    /\ \A j \in seJobs : j.tab \in SeTabs

\* When nothing runs and nothing is under way, both tabs show the session of the server, as
\* whose it is, with its rights; as long as no session began or ended while something else was
\* still carried out, logins are told, and every mode and fingerprint was answered for.
SeShellIsOfTheSession ==
    SeQuiet(seJobs) /\ ~seSpoiled =>
      \A t \in SeTabs :
         /\ seTabs[t].shell = seServer /\ seTabs[t].as = LoggedIn(seServer)
         /\ seTabs[t].rights = IF LoggedIn(seServer) THEN seServer ELSE NoRights
=============================================================================
