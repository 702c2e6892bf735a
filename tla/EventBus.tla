------------------------------ MODULE EventBus ------------------------------
(***************************************************************************)
(* The event bus of one process and the streams of server-sent events that  *)
(* subscribe to it.  A publisher copies the subscribers of a table and sends *)
(* to one channel after another without waiting: a full channel loses the   *)
(* event.  A stream has a channel and a goroutine for each of its tables, and *)
(* a channel of its own that these feed, again without waiting.             *)
(***************************************************************************)
EXTENDS Naturals, Sequences, FiniteSets

CONSTANTS EbTables,          \* the tables
          EbChannelSize,     \* capacity of a subscriber's channel (32)
          EbStreamSize,      \* capacity of a stream's channel (64)
          EbMaxConnections,  \* bound: streams that are opened
          EbMaxEvents        \* bound: events that are published

VARIABLES
    ebConn,     \* per connection: where SSESubscribeHandler is, its tables, those not yet (un)subscribed
    ebSubs,     \* the bus: who is subscribed to which table
    ebChan,     \* the channel of a subscription
    ebHand,     \* the event a forwarding goroutine has taken from it
    ebStream,   \* the channel of a stream
    ebWritten,  \* what was written to the client
    ebPub,      \* publishers under way: the event and the channels not yet sent to
    ebCount,    \* events published
    ebOwed      \* history: whether a subscription is owed an event of its table, see LossIsNotLast
ebVars == <<ebConn, ebSubs, ebChan, ebHand, ebStream, ebWritten, ebPub, ebCount, ebOwed>>

Connections == 1..EbMaxConnections
Subscriptions == Connections \X EbTables
\* An event is known by its number; after is history, the events that were published before it began.
Event == [id : 1..EbMaxEvents, table : EbTables, after : SUBSET (1..EbMaxEvents)]

EbInit ==
    /\ ebConn = [c \in Connections |-> [phase |-> "none", tables |-> {}, left |-> {}]]
    /\ ebSubs = {}
    /\ ebChan = [s \in Subscriptions |-> <<>>]
    /\ ebHand = [s \in Subscriptions |-> <<>>]
    /\ ebStream = [c \in Connections |-> <<>>]
    /\ ebWritten = [c \in Connections |-> <<>>]
    /\ ebPub = {} /\ ebCount = 0
    /\ ebOwed = [s \in Subscriptions |-> "no"]
-----------------------------------------------------------------------------
(* The handler of a stream *)

Connect(c) ==
    /\ ebConn[c].phase = "none"
    /\ \E tables \in (SUBSET EbTables) \ {{}} :
          ebConn' = [ebConn EXCEPT ![c] = [phase |-> "open", tables |-> tables, left |-> tables]]
    /\ UNCHANGED <<ebSubs, ebChan, ebHand, ebStream, ebWritten, ebPub, ebCount, ebOwed>>

\* It subscribes to one table after another, also when the client has left meanwhile.
Subscribe(c, t) ==
    /\ t \in ebConn[c].left
    /\ ebConn' = [ebConn EXCEPT ![c].left = @ \ {t}]
    /\ ebSubs' = ebSubs \cup {<<c, t>>}
    /\ UNCHANGED <<ebChan, ebHand, ebStream, ebWritten, ebPub, ebCount, ebOwed>>

\* The handler writes what it finds in its channel once it has subscribed to all its tables.
Write(c) ==
    /\ ebConn[c].phase = "open" /\ ebConn[c].left = {} /\ ebStream[c] # <<>>
    /\ ebWritten' = [ebWritten EXCEPT ![c] = Append(@, Head(ebStream[c]))]
    /\ ebStream' = [ebStream EXCEPT ![c] = Tail(@)]
    /\ ebOwed' = [ebOwed EXCEPT ![<<c, Head(ebStream[c]).table>>] = "no"]
    /\ UNCHANGED <<ebConn, ebSubs, ebChan, ebHand, ebPub, ebCount>>

\* The client has gone: the context of the request is done.
Leave(c) ==
    /\ ebConn[c].phase = "open"
    /\ ebConn' = [ebConn EXCEPT ![c].phase = "done"]
    /\ UNCHANGED <<ebSubs, ebChan, ebHand, ebStream, ebWritten, ebPub, ebCount, ebOwed>>

\* Only when it returns does the handler unsubscribe, from one table after another; the
\* channel stays, for publishers that copied it before.
Unsubscribe(c, t) ==
    /\ ebConn[c].phase = "done" /\ ebConn[c].left = {}
    /\ <<c, t>> \in ebSubs
    /\ ebSubs' = ebSubs \ {<<c, t>>}
    /\ UNCHANGED <<ebConn, ebChan, ebHand, ebStream, ebWritten, ebPub, ebCount, ebOwed>>
-----------------------------------------------------------------------------
(* The goroutine between a subscription and its stream.  While the client is there it goes on;
   when it has left, a select may still take an event before it sees that it is done. *)

Take(s) ==
    /\ ebHand[s] = <<>> /\ ebChan[s] # <<>>
    /\ ebHand' = [ebHand EXCEPT ![s] = <<Head(ebChan[s])>>]
    /\ ebChan' = [ebChan EXCEPT ![s] = Tail(@)]
    /\ UNCHANGED <<ebConn, ebSubs, ebStream, ebWritten, ebPub, ebCount, ebOwed>>

\* A bug: one place less, so that a channel of one place is unbuffered.
OfferToOneLess(channel, event, size) == IF Len(channel) + 1 < size THEN Append(channel, event) ELSE channel

\* A send that does not wait: it is lost when the channel is full.
Offer(channel, event, size) == IF Len(channel) < size THEN Append(channel, event) ELSE channel

TablesIn(channel) == {channel[i].table : i \in DOMAIN channel}

Forward(s) ==
    /\ ebHand[s] # <<>>
    /\ ebStream' = [ebStream EXCEPT ![s[1]] = Offer(@, ebHand[s][1], EbStreamSize)]
    /\ ebHand' = [ebHand EXCEPT ![s] = <<>>]
    /\ ebOwed' = IF ebOwed[s] = "no" THEN ebOwed
                 ELSE [ebOwed EXCEPT ![s] = IF s[2] \in TablesIn(ebStream'[s[1]]) THEN "yes" ELSE "crowded"]
    /\ UNCHANGED <<ebConn, ebSubs, ebChan, ebWritten, ebPub, ebCount>>
-----------------------------------------------------------------------------
(* Publishing *)

Published == 1..ebCount \ {p.event.id : p \in ebPub}
Subscribers(t) == {s \in ebSubs : s[2] = t}

Publish(t) ==
    /\ ebCount < EbMaxEvents
    /\ ebCount' = ebCount + 1
    /\ LET event == [id |-> ebCount + 1, table |-> t, after |-> Published]
           targets == Subscribers(t)
       IN  /\ ebPub' = IF targets = {} THEN ebPub ELSE ebPub \cup {[event |-> event, targets |-> targets]}
           /\ ebOwed' = [s \in Subscriptions |-> IF s \in targets THEN "yes" ELSE ebOwed[s]]
    /\ UNCHANGED <<ebConn, ebSubs, ebChan, ebHand, ebStream, ebWritten>>

Send(p, s) ==
    /\ p \in ebPub /\ s \in p.targets
    /\ ebChan' = [ebChan EXCEPT ![s] = Offer(@, p.event, EbChannelSize)]
    /\ ebPub' = (ebPub \ {p}) \cup
                (IF p.targets = {s} THEN {} ELSE {[p EXCEPT !.targets = @ \ {s}]})
    /\ UNCHANGED <<ebConn, ebSubs, ebHand, ebStream, ebWritten, ebCount, ebOwed>>

EbNext ==
    \/ \E c \in Connections : Connect(c) \/ Write(c) \/ Leave(c)
    \/ \E s \in Subscriptions : \/ Subscribe(s[1], s[2]) \/ Unsubscribe(s[1], s[2])
                                \/ Take(s) \/ Forward(s)
    \/ \E t \in EbTables : Publish(t)
    \/ \E p \in ebPub, s \in Subscriptions : Send(p, s)
EbSpec == EbInit /\ [][EbNext]_ebVars
-----------------------------------------------------------------------------
EbTypeOK ==
    /\ ebConn \in [Connections -> [phase : {"none", "open", "done"}, tables : SUBSET EbTables, left : SUBSET EbTables]]
    /\ ebSubs \subseteq Subscriptions
    /\ ebChan \in [Subscriptions -> Seq(Event)] /\ ebHand \in [Subscriptions -> Seq(Event)]
    /\ ebStream \in [Connections -> Seq(Event)] /\ ebWritten \in [Connections -> Seq(Event)]
    /\ ebPub \subseteq [event : Event, targets : SUBSET Subscriptions]
    /\ ebCount \in 0..EbMaxEvents /\ ebOwed \in [Subscriptions -> {"no", "yes", "crowded"}]

\* An event of its table is on its way to the client of a subscription.
OnItsWay(s) ==
    \/ s[2] \in TablesIn(ebStream[s[1]])
    \/ ebChan[s] # <<>> \/ ebHand[s] # <<>>
    \/ \E p \in ebPub : s \in p.targets

\* Channels lose events.  A subscription is owed one ("yes") from when an event of its table is
\* published until one of that table is written to the client; then one of that table is on its
\* way, so that a client that reads the table again at each event of it ends up with what is
\* stored.  The one exception ("crowded") is a stream that carries other tables too: a full channel
\* of the stream, with none but their events in it, may lose the last event of the table.  A
\* stream of one table, the kind sse_subscriber.js opens, never loses its last.
LossIsNotLast ==
    \A s \in Subscriptions :
        /\ ebOwed[s] = "yes" => OnItsWay(s)
        /\ ebOwed[s] = "crowded" => ebConn[s[1]].tables \ {s[2]} # {}

\* Of one table, what was published one after the other arrives in that order, and nothing
\* arrives twice or of a table that was not asked for.
ArrivesInOrder ==
    \A c \in Connections : \A i \in DOMAIN ebWritten[c] :
        /\ ebWritten[c][i].table \in ebConn[c].tables
        /\ \A j \in (i + 1)..Len(ebWritten[c]) :
              /\ ebWritten[c][j].id # ebWritten[c][i].id
              /\ ebWritten[c][j].table = ebWritten[c][i].table => ebWritten[c][j].id \notin ebWritten[c][i].after

EbTellsTheLast == LossIsNotLast /\ ArrivesInOrder
=============================================================================
