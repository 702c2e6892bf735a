------------------------------- MODULE QueenChat -------------------------------
(***************************************************************************)
(* The Queen chat view: the conversation that is selected, its transcript,  *)
(* the two event streams that keep it up to date, the sidebar lists, and    *)
(* the messages of the user.  The view is one record, and every function of *)
(* the code is an operator from the view to what it becomes; an             *)
(* asynchronous function is an activity with the requests it still awaits.  *)
(*                                                                         *)
(* Run 2 is a direct run; runs 1 and 3 are the transcripts of the managed   *)
(* sessions 1 and 3.  Session 3 is started by the user; it may continue the *)
(* thread of another run.                                                   *)
(***************************************************************************)
EXTENDS Integers, Sequences, FiniteSetsExt

CONSTANT QcMaxActivities   \* bound: activities, the start of the view included

VARIABLES
    qcServer,    \* the sessions, the thread of run 3, and whether access is granted
    qcView,      \* chatState with the module's streams and timer
    qcActivity,  \* the activities under way
    qcSolo       \* history: no switch of conversation began during another one
qcVars == <<qcServer, qcView, qcActivity, qcSolo>>

QcRuns       == 1..3
QcSessions   == {1, 3}
QcStatuses   == {"absent", "running", "awaiting", "ended"}
QcActivities == 1..QcMaxActivities
QcActive     == {"running", "awaiting"}      \* isManagedSessionActiveStatus

QcIdle == [kind |-> "idle", todo |-> <<>>, key |-> 0, session |-> 0]
QcDone == [QcIdle EXCEPT !.kind = "done"]

\* What an operator leaves: the view, and the requests the activity still awaits.
QcGo(v, todo, key, session) == [v |-> v, todo |-> todo, key |-> key, session |-> session]
QcStay(v) == QcGo(v, <<>>, 0, 0)

QcThreadOf(r) == IF r = 3 THEN qcServer.parent ELSE r

QcInit ==
    /\ \E direct \in {"running", "ended"} :
          qcServer = [status |-> <<"running", direct, "absent">>, parent |-> 3, access |-> TRUE]
    /\ \E stored \in {[thread |-> 0, session |-> 0, run |-> 0],
                      [thread |-> 1, session |-> 1, run |-> 1],
                      [thread |-> 0, session |-> 0, run |-> 2]} :
          qcView = [run |-> 0, session |-> 0, status |-> "absent", thread |-> 0,
                    mode |-> "idle", draft |-> FALSE, follow |-> 0, tracked |-> 0,
                    orphans |-> {}, entries |-> {}, timeline |-> {},
                    sessions |-> [r \in QcRuns |-> "absent"], runs |-> {},
                    lost |-> FALSE, timer |-> FALSE, pending |-> FALSE, stored |-> stored]
    /\ qcActivity = [a \in QcActivities |->
                       IF a = 1 THEN [QcIdle EXCEPT !.kind = "boot",
                                                    !.todo = <<"sessions", "runs", "restore">>]
                       ELSE QcIdle]
    /\ qcSolo = TRUE
-----------------------------------------------------------------------------
(* Streams and the loss of access *)

stopQueenTranscriptStream(v) == [v EXCEPT !.follow = 0]
stopQueenSessionStream(v)    == [v EXCEPT !.tracked = 0]

\* The stream is opened for the run that is selected now.
startQueenTranscriptFollow(v) ==
    IF v.run = 0 \/ v.lost THEN v ELSE [v EXCEPT !.follow = v.run]

\* Mutant: the stream is opened although access is lost.
StreamAfterLoss(v, s) == [v EXCEPT !.tracked = s]

\* The variable is overwritten: a stream that is still open stays open, out of reach.
startQueenSessionStream(v, s) ==
    IF v.lost THEN v
    ELSE [v EXCEPT !.tracked = s,
                   !.orphans = IF v.tracked = 0 THEN @ ELSE @ \cup {v.tracked}]

setQueenChatAuthLostState(v) ==
    stopQueenTranscriptStream(stopQueenSessionStream([v EXCEPT !.lost = TRUE, !.timer = FALSE]))

QcFail(v, got) == IF got = "auth" THEN setQueenChatAuthLostState(v) ELSE v
-----------------------------------------------------------------------------
(* Lists and threads *)

\* buildQueenThreadSummaries: the threads of the runs and sessions that are listed.
buildQueenThreadSummaries(v) ==
    {QcThreadOf(r) : r \in v.runs \cup {s \in QcSessions : v.sessions[s] # "absent"}}

QcSessionsOf(v, k) == {s \in QcSessions : v.sessions[s] # "absent" /\ QcThreadOf(s) = k}
QcRunsOf(v, k)     == {r \in v.runs : QcThreadOf(r) = k} \cup QcSessionsOf(v, k)

\* activeSession, or else latestSession, or none.
QcPreferred(v, k) ==
    LET active == {s \in QcSessionsOf(v, k) : v.sessions[s] \in QcActive}
    IN  IF active # {} THEN Max(active)
        ELSE IF QcSessionsOf(v, k) # {} THEN Max(QcSessionsOf(v, k)) ELSE 0

\* syncSelectedQueenThread: the thread of the session, or of the run, or the one before.
syncSelectedQueenThread(v) ==
    LET known == buildQueenThreadSummaries(v)
        of    == [r \in 0..3 |-> IF r # 0 /\ QcThreadOf(r) \in known THEN QcThreadOf(r) ELSE 0]
    IN  [v EXCEPT !.thread = IF of[v.session] # 0 THEN of[v.session]
                             ELSE IF of[v.run] # 0 THEN of[v.run]
                             ELSE IF @ \in known THEN @ ELSE 0]

\* loadManagedSessions: the selected session is looked up again, by its id.
loadManagedSessions(v, got) ==
    LET listed == qcServer.status
    IN  IF got # "ok" THEN QcFail(v, got)
        ELSE syncSelectedQueenThread(
               [v EXCEPT !.sessions = listed,
                         !.session  = IF @ # 0 /\ listed[@] = "absent" THEN 0 ELSE @,
                         !.status   = IF v.session = 0 THEN "absent" ELSE listed[v.session]])

loadQueenRuns(v, got) ==
    IF got # "ok" THEN QcFail(v, got)
    ELSE syncSelectedQueenThread(
           [v EXCEPT !.runs = {r \in QcRuns : qcServer.status[r] # "absent"}])

\* shouldAutoFollowSelectedDirectRun: a run that has not ended and is the latest one.
shouldAutoFollowSelectedDirectRun(v) ==
    /\ v.run # 0 /\ v.session = 0 /\ ~v.draft
    /\ qcServer.status[v.run] = "running"
    /\ \/ v.thread # 0 /\ v.run = Max(QcRunsOf(v, v.thread))
       \/ v.run \in v.runs /\ v.run = Max(v.runs)

shouldAutoFollowManagedSession(v, s) == v.sessions[s] \in QcActive
-----------------------------------------------------------------------------
(* Opening a conversation *)

\* Mutant: the stream of the session that was open before is left open.
OpenKeepsStream(v, r) ==
    IF v.lost THEN QcStay(v)
    ELSE QcGo([stopQueenTranscriptStream(v) EXCEPT
                 !.draft = FALSE, !.session = 0, !.status = "absent", !.entries = {},
                 !.timeline = {}, !.run = r, !.mode = "run"], <<"run">>, r, 0)

openQueenTranscript(v, r) ==
    IF v.lost THEN QcStay(v)
    ELSE QcGo(syncSelectedQueenThread(
                [stopQueenTranscriptStream(stopQueenSessionStream(v)) EXCEPT
                   !.draft = FALSE, !.session = 0, !.status = "absent", !.entries = {},
                   !.timeline = {}, !.run = r, !.mode = "run"]), <<"run">>, r, 0)

openQueenThread(v, k, s) ==
    IF v.lost THEN QcStay(v)
    ELSE QcGo([stopQueenTranscriptStream(stopQueenSessionStream(v)) EXCEPT
                 !.draft = FALSE, !.thread = k, !.session = s,
                 !.status = IF s = 0 THEN "absent" ELSE v.sessions[s],
                 !.run = IF s # 0 THEN s ELSE Max(QcRunsOf(v, k)),
                 !.entries = {}, !.timeline = {}, !.mode = "thread"], <<"thread">>, k, s)

\* A session that belongs to a listed thread opens that thread.
openManagedSession(v, s) ==
    IF ~v.lost /\ QcThreadOf(s) \in buildQueenThreadSummaries(v)
    THEN openQueenThread(v, QcThreadOf(s), s)
    ELSE [openQueenTranscript(v, s) EXCEPT !.session = s]

restorePersistedQueenView(w) ==
    LET stored == w.stored
        v      == [w EXCEPT !.stored = [thread |-> 0, session |-> 0, run |-> 0]]
    IN  IF v.lost THEN QcStay(v)
        ELSE IF stored.thread \in buildQueenThreadSummaries(v)
             THEN openQueenThread(v, stored.thread, QcPreferred(v, stored.thread))
        ELSE IF stored.session # 0 /\ v.sessions[stored.session] # "absent"
             THEN openManagedSession(v, stored.session)
        ELSE IF stored.run \in v.runs THEN openQueenTranscript(v, stored.run)
        ELSE QcStay(v)

\* The answer is rendered in the view as it is now, whatever is selected; what follows is
\* the run that is selected now.
renderQueenTranscript(v, r, got) ==
    IF got = "ok"
    THEN LET shown == [v EXCEPT !.entries = {r}, !.timeline = {}]
         IN  IF shouldAutoFollowSelectedDirectRun(shown)
             THEN startQueenTranscriptFollow(shown) ELSE shown
    ELSE IF got = "auth" THEN setQueenChatAuthLostState(v) ELSE [v EXCEPT !.entries = {}]

\* After its transcript, loaded or not, an opened session is selected and followed.
QcAfterTranscript(v, s) ==
    LET selected == startQueenSessionStream(
                      syncSelectedQueenThread([v EXCEPT !.session = s, !.status = v.sessions[s]]),
                      s)
    IN  IF s = 0 THEN v
        ELSE IF shouldAutoFollowManagedSession(v, s) THEN startQueenTranscriptFollow(selected)
        ELSE selected

\* renderQueenThreadTimeline and what openQueenThread does after it.
renderQueenThreadTimeline(v, k, s, got) ==
    LET shown == [v EXCEPT !.entries = {v.run} \cap QcRunsOf(v, k), !.timeline = QcRunsOf(v, k)]
        live  == IF s = 0 THEN shown ELSE startQueenSessionStream(shown, s)
    IN  IF got # "ok" THEN QcFail([v EXCEPT !.entries = {}, !.timeline = {}], got)
        ELSE IF IF s # 0 THEN shouldAutoFollowManagedSession(v, s)
                         ELSE shouldAutoFollowSelectedDirectRun(shown)
             THEN startQueenTranscriptFollow(live) ELSE live

\* The last transcript of a session that has ended, shown without another look at what
\* is selected by now.
refreshSelectedQueenTranscriptSnapshot(v, r) ==
    [v EXCEPT !.entries = {r}, !.timeline = IF v.mode = "thread" /\ v.thread # 0
                                            THEN @ \cup {r} ELSE {}]

beginNewConversation(v) ==
    IF v.lost THEN v
    ELSE [stopQueenTranscriptStream(stopQueenSessionStream(v)) EXCEPT
            !.draft = TRUE, !.session = 0, !.status = "absent", !.run = 0, !.thread = 0,
            !.entries = {}, !.timeline = {}, !.mode = "idle"]

cancelNewConversation(v) ==
    [v EXCEPT !.draft = FALSE, !.entries = {}, !.timeline = {}, !.thread = 0, !.mode = "idle"]

\* getQueenComposerMode
getQueenComposerMode(v) ==
    IF v.draft THEN "new_session"
    ELSE IF v.session # 0 /\ v.status = "awaiting" THEN "reply_ready"
    ELSE IF v.run # 0 /\ (v.session = 0 \/ v.status \notin QcActive) THEN "continue_ready"
    ELSE "locked"
-----------------------------------------------------------------------------
(* Activities *)

QcSwitches == {"restore", "run", "thread", "refresh", "start", "reply", "open"}
QcSwitching ==
    \E a \in QcActivities, n \in 1..3 :
       n \in DOMAIN qcActivity[a].todo /\ qcActivity[a].todo[n] \in QcSwitches

\* The steps without a request run on at once.
QcContinue(v, todo, s) ==
    IF todo = <<>> THEN QcStay(v)
    ELSE CASE Head(todo) = "restore" -> restorePersistedQueenView(v)
           [] Head(todo) = "open"    -> openManagedSession(v, s)
           [] Head(todo) = "follow"  ->
                 QcStay(IF v.follow = 0 THEN startQueenTranscriptFollow(v) ELSE v)
           [] OTHER -> QcGo(v, todo, 0, s)

\* The end of an activity: the view is up, or the composer is enabled again.
QcEnd(v, kind) ==
    CASE kind = "boot" -> [v EXCEPT !.timer = TRUE]
      [] kind \in {"start", "reply"} -> [v EXCEPT !.pending = FALSE]
      [] OTHER -> v

QcPut(a, kind, res) ==
    IF res.todo = <<>>
    THEN qcView' = QcEnd(res.v, kind) /\ qcActivity' = [qcActivity EXCEPT ![a] = QcDone]
    ELSE /\ qcView' = res.v
         /\ qcActivity' = [qcActivity EXCEPT
               ![a] = [QcIdle EXCEPT !.kind = kind, !.todo = res.todo, !.key = res.key,
                                     !.session = res.session]]

QcFree(a) == qcActivity[a].kind = "idle" /\ \A b \in 1..(a - 1) : qcActivity[b].kind # "idle"

\* An activity's request is answered, or fails; the answer carries the state of the server
\* as it is then.  A failed start may have been carried out.
QcAnswered(a, got) ==
    LET act  == qcActivity[a]
        step == Head(act.todo)
        rest == Tail(act.todo)
        v    == qcView
        list == IF step = "sessions" THEN loadManagedSessions(v, got) ELSE loadQueenRuns(v, got)
        fail == QcStay(QcFail(v, got))
    IN  /\ act.kind \notin {"idle", "done"} /\ (got = "auth") = ~qcServer.access
        /\ got = "conflict" => step = "reply" /\ qcServer.status[act.session] # "awaiting"
        /\ CASE step = "start" ->
                  qcServer' \in {[qcServer EXCEPT !.status[3] = "running", !.parent = act.key]}
                                \cup (IF got = "ok" THEN {} ELSE {qcServer})
             [] step = "reply" /\ got = "ok" ->
                  /\ qcServer.status[act.session] = "awaiting"
                  /\ qcServer' = [qcServer EXCEPT !.status[act.session] = "running"]
             [] step = "stop" /\ got = "ok" ->
                  \E status \in {"running", "ended"} :
                     /\ qcServer.status[act.session] = "ended" => status = "ended"
                     /\ qcServer' = [qcServer EXCEPT !.status[act.session] = status]
             [] OTHER -> UNCHANGED qcServer
        /\ QcPut(a, act.kind,
             CASE step \in {"sessions", "runs"} ->
                    IF act.kind \in {"boot", "sidebar"} /\ list.lost THEN QcStay(list)
                    ELSE QcContinue(list, rest, act.session)
               [] step = "run"     -> QcStay(QcAfterTranscript(
                                         renderQueenTranscript(v, act.key, got), act.session))
               [] step = "thread"  -> QcStay(renderQueenThreadTimeline(v, act.key, act.session, got))
               [] step = "probe"   -> fail
               [] got \in {"fail", "auth"} -> fail
               [] step = "refresh" ->
                    QcGo(refreshSelectedQueenTranscriptSnapshot(v, act.session), rest, 0, 0)
               [] step = "start"   -> QcGo([v EXCEPT !.draft = FALSE], rest, 0, 3)
               [] step = "reply" /\ got = "ok" ->
                    QcGo([v EXCEPT !.session = act.session, !.status = "running"],
                         <<"sessions", "follow">>, 0, 0)
               [] OTHER            -> QcGo(v, <<"sessions">>, 0, 0))
        /\ UNCHANGED qcSolo

\* The user begins something that may switch the conversation.
QcBegin(a, kind, res) ==
    /\ QcFree(a) /\ qcActivity[1].kind # "boot"
    /\ QcPut(a, kind, res)
    /\ qcSolo' = (qcSolo /\ ~QcSwitching)
    /\ UNCHANGED qcServer

QcClickRun(a)     == \E r \in qcView.runs : QcBegin(a, "open", openQueenTranscript(qcView, r))
QcClickThread(a)  ==
    \E k \in buildQueenThreadSummaries(qcView) :
       QcBegin(a, "open", openQueenThread(qcView, k, QcPreferred(qcView, k)))
QcClickSession(a) ==
    \E s \in QcSessions : /\ qcView.sessions[s] \in QcActive
                          /\ QcBegin(a, "open", openManagedSession(qcView, s))

\* The buttons of the draft are disabled while a start is pending.
QcNewConversation(a) ==
    ~qcView.pending /\ QcBegin(a, "open", QcStay(beginNewConversation(qcView)))
QcCancel(a) ==
    /\ ~qcView.lost /\ qcView.draft /\ ~qcView.pending
    /\ QcBegin(a, "open", QcStay(cancelNewConversation(qcView)))

\* startManagedSession: a new conversation, or the continuation of the selected one.
startManagedSession(a) ==
    /\ getQueenComposerMode(qcView) \in {"new_session", "continue_ready"}
    /\ ~qcView.lost /\ ~qcView.pending /\ qcServer.status[3] = "absent"
    /\ QcBegin(a, "start",
         QcGo([qcView EXCEPT !.pending = TRUE], <<"start", "sessions", "runs", "open">>,
              IF getQueenComposerMode(qcView) = "continue_ready" /\ qcView.thread # 0
              THEN qcView.thread ELSE 3, 0))

\* sendManagedSessionHumanMessage: the reply goes to the selected session.
sendManagedSessionHumanMessage(a) ==
    /\ getQueenComposerMode(qcView) = "reply_ready" /\ ~qcView.lost /\ ~qcView.pending
    /\ QcBegin(a, "reply", QcGo([qcView EXCEPT !.pending = TRUE], <<"reply">>, 0, qcView.session))

stopManagedSession(a) ==
    \E s \in QcSessions :
       /\ qcView.sessions[s] \in QcActive /\ QcFree(a)
          /\ QcPut(a, "stop", QcGo(qcView, <<"stop">>, 0, s))
       /\ UNCHANGED <<qcServer, qcSolo>>

\* refreshQueenSidebarData, for the refresh buttons and the interval: refreshes share the
\* one in flight.
refreshQueenSidebarData(a) ==
    /\ ~qcView.lost /\ QcFree(a)
    /\ \A b \in QcActivities :
          qcActivity[b].kind \in {"sidebar", "boot"} =>
             Head(qcActivity[b].todo) \notin {"sessions", "runs"}
    /\ QcPut(a, "sidebar", QcGo(qcView, <<"sessions", "runs">>, 0, 0))
    /\ UNCHANGED <<qcServer, qcSolo>>

\* The interval stops itself once access is lost.
QcTick ==
    /\ qcView.timer /\ qcView.lost
    /\ qcView' = [qcView EXCEPT !.timer = FALSE]
    /\ UNCHANGED <<qcServer, qcActivity, qcSolo>>
-----------------------------------------------------------------------------
(* Events of the streams *)

\* handleQueenSessionSnapshotEvent, from the tracked stream or from an orphan.
handleQueenSessionSnapshotEvent(a, s) ==
    LET status == qcServer.status[s]
        v      == syncSelectedQueenThread([qcView EXCEPT !.session = s, !.status = status])
        closed == stopQueenTranscriptStream(stopQueenSessionStream(v))
    IN  /\ s \in ({qcView.tracked} \cup qcView.orphans) \ {0}
        /\ qcServer.access /\ QcFree(a)
        /\ QcPut(a, "event",
             IF status = "ended"
             THEN QcGo(closed, (IF s = v.run THEN <<"refresh">> ELSE <<>>) \o <<"sessions", "runs">>,
                       0, s)
             ELSE QcGo(IF v.follow = 0 /\ v.run = s THEN startQueenTranscriptFollow(v) ELSE v,
                       <<"sessions">>, 0, 0))
        /\ qcSolo' = (qcSolo /\ ~(status = "ended" /\ QcSwitching))
        /\ UNCHANGED qcServer

\* A new line of the transcript that is followed; a direct run that has ended is let go.
QcEntry ==
    LET v == [qcView EXCEPT !.entries = @ \cup {qcView.follow},
                            !.timeline = IF qcView.mode = "thread" THEN @ \cup {qcView.follow}
                                         ELSE @]
    IN  /\ qcView.follow # 0 /\ qcServer.access
        /\ qcView' = IF v.session = 0 /\ qcServer.status[v.follow] = "ended"
                     THEN stopQueenTranscriptStream(v) ELSE v
        /\ UNCHANGED <<qcServer, qcActivity, qcSolo>>

\* A ready event or heartbeat that shows no activity for long detaches a direct run.
QcStaleFollow ==
    /\ qcView.follow # 0 /\ qcView.session = 0 /\ qcServer.access
    /\ qcView' = stopQueenTranscriptStream(qcView)
    /\ UNCHANGED <<qcServer, qcActivity, qcSolo>>

\* A stream fails: it is closed and access is probed; probes share the one in flight.
probeQueenChatAuthLoss(a, v) ==
    IF v.lost \/ \E b \in QcActivities : qcActivity[b].kind = "probe"
    THEN qcView' = v /\ UNCHANGED qcActivity
    ELSE QcFree(a) /\ QcPut(a, "probe", QcGo(v, <<"probe">>, 0, 0))

handleQueenTranscriptStreamError(a) ==
    /\ qcView.follow # 0
    /\ probeQueenChatAuthLoss(a, stopQueenTranscriptStream(qcView))
    /\ UNCHANGED <<qcServer, qcSolo>>
handleQueenSessionStreamError(a) ==
    /\ qcView.tracked # 0 \/ qcView.orphans # {}
    /\ probeQueenChatAuthLoss(a, stopQueenSessionStream(qcView))
    /\ UNCHANGED <<qcServer, qcSolo>>

\* The state read from the process: Queen works on, asks the human or has ended; a stop that was
\* asked for ends it some time after.  Access is revoked or expires.
QcServerStep ==
    /\ \/ \E r \in QcSessions, status \in {"running", "awaiting", "ended"} :
             /\ qcServer.status[r] \in QcActive
             /\ qcServer' = [qcServer EXCEPT !.status[r] = status]
       \/ qcServer.access /\ qcServer' = [qcServer EXCEPT !.access = FALSE]
    /\ UNCHANGED <<qcView, qcActivity, qcSolo>>
-----------------------------------------------------------------------------
QcNext ==
    \/ \E a \in QcActivities :
          \/ \E got \in {"ok", "fail", "auth", "conflict"} : QcAnswered(a, got)
          \/ QcClickRun(a) \/ QcClickThread(a) \/ QcClickSession(a)
          \/ QcNewConversation(a) \/ QcCancel(a)
          \/ startManagedSession(a) \/ sendManagedSessionHumanMessage(a) \/ stopManagedSession(a)
          \/ refreshQueenSidebarData(a)
          \/ \E s \in QcSessions : handleQueenSessionSnapshotEvent(a, s)
          \/ handleQueenTranscriptStreamError(a) \/ handleQueenSessionStreamError(a)
    \/ QcEntry \/ QcStaleFollow \/ QcTick \/ QcServerStep

QcTypeOK ==
    /\ qcServer.status \in [QcRuns -> QcStatuses] /\ qcServer.parent \in QcRuns
    /\ qcView.run \in 0..3 /\ qcView.session \in QcSessions \cup {0}
    /\ qcView.status \in QcStatuses /\ qcView.thread \in 0..3
    /\ qcView.entries \subseteq QcRuns /\ qcView.orphans \subseteq QcSessions
    /\ \A a \in QcActivities : Len(qcActivity[a].todo) <= 4

\* While one switch of conversation is over before the next begins, everything in the view
\* is of one conversation: the session a reply would go to, the transcript that is shown
\* and the streams.  And once access is lost no stream is open that the view knows of.
QcOneConversation ==
    /\ qcSolo => /\ qcView.orphans = {}
                 /\ qcView.session # 0 => qcView.session = qcView.run
                 /\ qcView.tracked # 0 => qcView.tracked = qcView.run
                 /\ qcView.entries \subseteq {qcView.run}
                 /\ qcView.mode = "thread" =>
                       \A r \in qcView.timeline : QcThreadOf(r) = QcThreadOf(qcView.run)
    /\ qcView.follow \in {0, qcView.run}
    /\ qcView.lost => qcView.follow = 0 /\ qcView.tracked = 0
=============================================================================
