------------------------------- MODULE TableChat -------------------------------
(***************************************************************************)
(* The AI chat of a dataset: questions and answers kept in memory, in       *)
(* localStorage and by the server.  Every change is sent at once and not    *)
(* awaited; the server keeps whatever arrives last.  A new chat shows the   *)
(* local copy, asks for the server's and takes it unless something has      *)
(* changed meanwhile or the local copy was never acknowledged.              *)
(***************************************************************************)
EXTENDS Naturals, Sequences, SequencesExt

CONSTANTS TcMaxSends,     \* bound: questions asked
          TcMaxStamps,    \* bound: changes of the conversation
          TcMaxOpens      \* bound: chats built again and pages loaded again

VARIABLES
    tcChat,     \* the conversation in memory, its stamp, and what the chat shows
    tcLoad,     \* the load of the server's conversation that may still be used
    tcQueries,  \* questions under way
    tcTable,    \* what the last plan left of the table
    tcLocal,    \* the conversation in localStorage
    tcServer,   \* the conversation the server has
    tcPuts,     \* saves under way
    tcKept      \* what was said since the last clear, and whether a save overtook another
tcVars == <<tcChat, tcLoad, tcQueries, tcTable, tcLocal, tcServer, tcPuts, tcKept>>

Memory == 0       \* the one system message, the result context
Foreign == 99     \* a message of another device; as a stamp, one the server gave
NoLoad == [on |-> FALSE, stamp |-> 0, local |-> 0]
NoSnapshot == [exists |-> FALSE, msgs |-> <<>>, stamp |-> 0, sync |-> FALSE]
TcVisible(conv) == SelectSeq(conv, LAMBDA m : m # Memory)

\* setConversationState and renderConversation over a chat.
setConversationState(c, msgs, stamp) ==
    [c EXCEPT !.conv = msgs, !.stamp = IF stamp = 0 THEN @ ELSE stamp, !.shown = Range(TcVisible(msgs))]

TcInit ==
    /\ tcServer \in {[row |-> FALSE, msgs |-> <<>>], [row |-> TRUE, msgs |-> <<Foreign>>]}
    /\ tcLocal = NoSnapshot
    /\ tcChat = [conv |-> <<>>, stamp |-> 0, shown |-> {}, ui |-> FALSE, busy |-> FALSE]
    /\ tcLoad = NoLoad /\ tcQueries = {} /\ tcPuts = {}
    /\ tcTable = [sorted |-> FALSE, filtered |-> FALSE, rows |-> "dataset"]
    /\ tcKept = [said |-> <<>>, sends |-> 0, opens |-> 0, stamps |-> 0, served |-> 0, overtook |-> FALSE]

\* persistConversationToBackend: the local copy at once, the save not awaited.
TcSave(msgs, stamp) ==
    [local |-> [exists |-> TRUE, msgs |-> msgs, stamp |-> stamp, sync |-> TRUE],
     put |-> [msgs |-> msgs, stamp |-> stamp, live |-> TRUE, pc |-> "sent"]]

\* nextConversationUpdatedAt: a stamp no earlier change had.
nextConversationUpdatedAt(n) == tcKept.stamps + n
-----------------------------------------------------------------------------
(* Opening the chat *)

\* load_conversation_from_local_storage: the local copy is shown, the server's asked for.
TcOpen(chat) ==
    /\ tcChat' = [setConversationState(chat, tcLocal.msgs, tcLocal.stamp) EXCEPT !.ui = TRUE, !.busy = FALSE]
    /\ tcLoad' = [on |-> TRUE, local |-> tcLocal,
                  stamp |-> IF tcLocal.stamp = 0 THEN chat.stamp ELSE tcLocal.stamp]

create_chat_ui ==
    /\ ~tcChat.ui
    /\ TcOpen(tcChat)
    /\ UNCHANGED <<tcQueries, tcTable, tcLocal, tcServer, tcPuts, tcKept>>

\* The view that held the chat is removed (destroy_chat keeps all state); its questions go on.
destroy_chat ==
    /\ tcChat.ui /\ tcKept.opens < TcMaxOpens
    /\ tcChat' = [tcChat EXCEPT !.ui = FALSE, !.shown = {}, !.busy = FALSE]
    /\ tcQueries' = {[q EXCEPT !.here = FALSE] : q \in {q \in tcQueries : q.pc # "setup"}}
    /\ tcKept' = [tcKept EXCEPT !.opens = @ + 1]
    /\ UNCHANGED <<tcLoad, tcTable, tcLocal, tcServer, tcPuts>>

\* The page is loaded again: memory is lost, saves may still arrive.
TcReload ==
    /\ tcKept.opens < TcMaxOpens
    /\ tcChat' = [conv |-> <<>>, stamp |-> 0, shown |-> {}, ui |-> FALSE, busy |-> FALSE]
    /\ tcLoad' = NoLoad /\ tcQueries' = {}
    /\ tcTable' = [tcTable EXCEPT !.rows = "dataset"]
    /\ tcPuts' = {[p EXCEPT !.live = FALSE] : p \in {p \in tcPuts : p.pc = "sent"}}
    /\ tcKept' = [tcKept EXCEPT !.opens = @ + 1]
    /\ UNCHANGED <<tcLocal, tcServer>>

\* Mutant: an answer is used whatever happened since the load began.
AnyAnswer(c, load) == load.on

TcLoadIsWanted(c, load) == load.on /\ c.stamp = load.stamp

\* hydrateConversationFromBackend: the local copy stays when it was never acknowledged, or by
\* its time (the clocks of browser and server differ either way).
hydrateConversationFromBackend ==
    /\ tcLoad.on
    /\ tcLoad' = NoLoad
    /\ LET local == tcLoad.local
       IN  IF ~TcLoadIsWanted(tcChat, tcLoad)
           THEN UNCHANGED <<tcChat, tcLocal, tcPuts>>
           ELSE \/ /\ local.exists /\ (local.sync \/ local.stamp # 0)
                   /\ IF local.sync /\ local.stamp # 0
                      THEN LET s == TcSave(tcChat.conv, local.stamp)
                           IN  tcLocal' = s.local /\ tcPuts' = tcPuts \cup {s.put}
                      ELSE UNCHANGED <<tcLocal, tcPuts>>
                   /\ UNCHANGED tcChat
                \/ /\ ~local.sync /\ (tcServer.row \/ local.stamp = 0)
                   /\ LET stamp == IF tcServer.row THEN Foreign ELSE 0
                      IN  /\ tcChat' = setConversationState(tcChat, tcServer.msgs, stamp)
                          /\ tcLocal' = [exists |-> TRUE, msgs |-> tcServer.msgs,
                                         stamp |-> stamp, sync |-> FALSE]
                   /\ UNCHANGED tcPuts
    /\ UNCHANGED <<tcQueries, tcTable, tcServer, tcKept>>

TcLoadFails ==
    /\ tcLoad.on
    /\ tcLoad' = NoLoad
    /\ UNCHANGED <<tcChat, tcQueries, tcTable, tcLocal, tcServer, tcPuts, tcKept>>
-----------------------------------------------------------------------------
(* Saving *)

\* The server keeps what arrives (updated_at = NOW()), also when a later one came before.
TcPutServed(p) ==
    /\ p.pc = "sent"
    /\ tcServer' = [row |-> TRUE, msgs |-> p.msgs]
    /\ tcKept' = [tcKept EXCEPT !.overtook = @ \/ p.stamp < tcKept.served,
                                !.served = IF p.stamp > @ THEN p.stamp ELSE @]
    /\ tcPuts' = (tcPuts \ {p}) \cup (IF p.live THEN {[p EXCEPT !.pc = "served"]} ELSE {})
    /\ UNCHANGED <<tcChat, tcLoad, tcQueries, tcTable, tcLocal>>

\* persistConversationToBackend, the answer: acknowledged only when nothing changed since.
persistConversationToBackend(p) ==
    /\ p.pc = "served"
    /\ tcPuts' = tcPuts \ {p}
    /\ tcLocal' = IF tcChat.stamp = p.stamp
                  THEN [exists |-> TRUE, msgs |-> p.msgs, stamp |-> p.stamp, sync |-> FALSE]
                  ELSE tcLocal
    /\ UNCHANGED <<tcChat, tcLoad, tcQueries, tcTable, tcServer, tcKept>>

\* The request fails, before or after it was served.
TcPutFails(p) ==
    /\ tcPuts' = tcPuts \ {p}
    /\ UNCHANGED <<tcChat, tcLoad, tcQueries, tcTable, tcLocal, tcServer, tcKept>>
-----------------------------------------------------------------------------
(* Questions and answers *)

\* The send button: shown, added and saved before it is asked.
TcSend ==
    /\ tcChat.ui /\ ~tcChat.busy
    /\ tcKept.sends < TcMaxSends /\ tcKept.stamps < TcMaxStamps
    /\ LET id == 2 * tcKept.sends + 1
           stamp == nextConversationUpdatedAt(1)
           s == TcSave(Append(tcChat.conv, id), stamp)
       IN  /\ tcChat' = [tcChat EXCEPT !.conv = Append(@, id), !.stamp = stamp,
                                       !.shown = @ \cup {id}, !.busy = TRUE]
           /\ tcQueries' = tcQueries \cup {[id |-> id, pc |-> "asked", here |-> TRUE]}
           /\ tcLocal' = s.local /\ tcPuts' = tcPuts \cup {s.put}
           /\ tcKept' = [tcKept EXCEPT !.said = Append(@, id), !.sends = @ + 1, !.stamps = stamp]
    /\ UNCHANGED <<tcLoad, tcTable, tcServer>>

\* runApiToolsChatQuery: the plan of the answer sorts or filters the table, or its rows are shown.
TcPlan(t) ==
    \/ tcTable' = [t EXCEPT !.sorted = TRUE]
    \/ \E rows \in {"dataset", "result"} : tcTable' = [sorted |-> FALSE, filtered |-> TRUE, rows |-> rows]
    \/ tcTable' = [t EXCEPT !.rows = "result"]

runApiToolsChatQuery(q) ==
    /\ q.pc = "asked"
    /\ TcPlan(tcTable)
    /\ tcQueries' = (tcQueries \ {q}) \cup {[q EXCEPT !.pc = "applied"]}
    /\ UNCHANGED <<tcChat, tcLoad, tcLocal, tcServer, tcPuts, tcKept>>

\* start_api_tools_query, start_codex_dev_query: the answer is added and saved, then the result
\* context, a save of its own.  An answer is shown wherever a chat is shown now.
start_api_tools_query(q) ==
    /\ q.pc \in {"asked", "applied"} /\ tcKept.stamps + 1 < TcMaxStamps
    /\ \E memory \in BOOLEAN :
          LET id == q.id + 1
              first == nextConversationUpdatedAt(1)
              last == IF memory THEN nextConversationUpdatedAt(2) ELSE first
              added == Append(tcChat.conv, id)
              conv == IF memory THEN Append(TcVisible(added), Memory) ELSE added
          IN  /\ tcChat' = [tcChat EXCEPT !.conv = conv, !.stamp = last,
                               !.shown = IF tcChat.ui THEN @ \cup {id} ELSE @,
                               !.busy = IF q.here THEN FALSE ELSE @]
              /\ tcPuts' = tcPuts \cup {TcSave(added, first).put, TcSave(conv, last).put}
              /\ tcLocal' = TcSave(conv, last).local
              /\ tcKept' = [tcKept EXCEPT !.said = Append(@, id), !.stamps = last]
    /\ tcQueries' = tcQueries \ {q}
    /\ UNCHANGED <<tcLoad, tcTable, tcServer>>

\* The question fails, or its plan could not be shown: an error bubble, nothing added.
TcQueryFails(q) ==
    /\ q.pc # "setup"
    /\ tcQueries' = tcQueries \ {q}
    /\ tcChat' = IF q.here THEN [tcChat EXCEPT !.busy = FALSE] ELSE tcChat
    /\ UNCHANGED <<tcLoad, tcTable, tcLocal, tcServer, tcPuts, tcKept>>

\* The service has no key: the bubble becomes a form, the composer is free again.
renderOpenAIKeySetupPrompt(q) ==
    /\ q.pc = "asked"
    /\ tcQueries' = (tcQueries \ {q}) \cup (IF q.here THEN {[q EXCEPT !.pc = "setup"]} ELSE {})
    /\ tcChat' = IF q.here THEN [tcChat EXCEPT !.busy = FALSE] ELSE tcChat
    /\ UNCHANGED <<tcLoad, tcTable, tcLocal, tcServer, tcPuts, tcKept>>

\* The key was saved: the same question again.
TcKeySaved(q) ==
    /\ q.pc = "setup"
    /\ tcQueries' = (tcQueries \ {q}) \cup {[q EXCEPT !.pc = "asked"]}
    /\ tcChat' = [tcChat EXCEPT !.busy = TRUE]
    /\ UNCHANGED <<tcLoad, tcTable, tcLocal, tcServer, tcPuts, tcKept>>

\* The delete history button; the forms in the bubbles go with them.
TcClear ==
    /\ tcChat.ui /\ ~tcChat.busy /\ tcKept.stamps < TcMaxStamps
    /\ LET stamp == nextConversationUpdatedAt(1)
       IN  /\ tcChat' = setConversationState(tcChat, <<>>, stamp)
           /\ tcLocal' = TcSave(<<>>, stamp).local
           /\ tcPuts' = tcPuts \cup {TcSave(<<>>, stamp).put}
           /\ tcKept' = [tcKept EXCEPT !.said = <<>>, !.stamps = stamp]
    /\ tcQueries' = {q \in tcQueries : q.pc # "setup"}
    /\ UNCHANGED <<tcLoad, tcTable, tcServer>>

TcNext ==
    \/ create_chat_ui \/ destroy_chat \/ TcReload \/ hydrateConversationFromBackend \/ TcLoadFails
    \/ \E p \in tcPuts : TcPutServed(p) \/ persistConversationToBackend(p) \/ TcPutFails(p)
    \/ TcSend \/ TcClear
    \/ \E q \in tcQueries : \/ runApiToolsChatQuery(q) \/ start_api_tools_query(q) \/ TcQueryFails(q)
                            \/ renderOpenAIKeySetupPrompt(q) \/ TcKeySaved(q)
-----------------------------------------------------------------------------
(* Properties *)

TcTypeOK ==
    /\ tcLocal.stamp \in 0..TcMaxStamps \cup {Foreign}
    /\ tcChat.stamp \in 0..TcMaxStamps \cup {Foreign}
    /\ tcChat.shown \subseteq 1..(2 * TcMaxSends) \cup {Foreign}
    /\ \A q \in tcQueries : q.pc \in {"asked", "applied", "setup"}
    /\ tcTable.rows \in {"dataset", "result"}

\* Through chats built again, pages loaded again and late answers: the chat holds, in order,
\* all that was said in this browser since the history was last deleted, and shows what it
\* holds, unless saves overtook each other.
TcNothingSaidIsLost ==
    tcChat.ui =>
      /\ tcChat.shown = Range(TcVisible(tcChat.conv))
      /\ tcKept.overtook \/ SelectSeq(TcVisible(tcChat.conv), LAMBDA m : m # Foreign) = tcKept.said
=============================================================================
