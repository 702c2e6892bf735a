---------------------------- MODULE ServerProofs ----------------------------
(***************************************************************************)
(* What is proved of the parts of the server that keep state between          *)
(* requests (the event bus with its streams, the metadata caches, the rate    *)
(* limits and the sign-in) and of the parts of the front end that hold the    *)
(* session with it (the way to the server, the rights, the login form, the    *)
(* tabs and the user's page) or tell what the server said (live updates, the  *)
(* language of the page and its folded sections), for channels, windows and   *)
(* delays of any size and any number of streams, readers, users, sessions,    *)
(* requests and inputs.                                                       *)
(* The parts share no variables; their theorems stand together to be used     *)
(* for the whole (see Desk).                                                 *)
(***************************************************************************)
EXTENDS EventBus, MetadataCache, RateLimiter, LoginFlow, ApiClient, Permissions, LoginForm, Session, UserProfile,
        LiveUpdates, Languages, FiniteSetTheorems, TLAPS
-----------------------------------------------------------------------------
(* The event bus: the types and EbTellsTheLast, for channels of any size and any number of connections. *)

\* What the theorems assume: every channel has room for an event.
EbSizes == /\ EbChannelSize \in Nat \ {0} /\ EbStreamSize \in Nat \ {0}
           /\ EbMaxConnections \in Nat /\ EbMaxEvents \in Nat

\* A send that does not wait keeps the channel a channel, and leaves something in it.
LEMMA OfferLeavesSomething ==
  ASSUME NEW channel \in Seq(Event), NEW event \in Event, NEW size \in Nat \ {0}
  PROVE  Offer(channel, event, size) \in Seq(Event) /\ Offer(channel, event, size) # <<>>
<1>1. CASE Len(channel) < size
 <2>1. Append(channel, event) \in Seq(Event) /\ Len(Append(channel, event)) = Len(channel) + 1 OBVIOUS
 <2>2. Len(Append(channel, event)) # 0 /\ Len(<<>>) = 0 BY <2>1
 <2>3. Append(channel, event) # <<>> BY <2>2
 <2> QED BY <1>1, <2>1, <2>3 DEF Offer
<1>2. CASE ~(Len(channel) < size)
 <2>1. channel # <<>> BY <1>2
 <2> QED BY <1>2, <2>1 DEF Offer
<1> QED BY <1>1, <1>2

\* The variables keep their types.
THEOREM EbTypes == EbSizes => (EbSpec => []EbTypeOK)
<1> SUFFICES ASSUME EbSizes PROVE EbSpec => []EbTypeOK OBVIOUS
<1>1. EbInit => EbTypeOK BY DEF EbSizes, EbInit, EbTypeOK, Subscriptions, Connections
<1>2. EbTypeOK /\ [EbNext]_ebVars => EbTypeOK'
 <2> SUFFICES ASSUME EbTypeOK, [EbNext]_ebVars PROVE EbTypeOK' OBVIOUS
 <2> USE EbSizes DEF EbSizes, EbTypeOK
 <2>1. ASSUME NEW c \in Connections, Connect(c) PROVE EbTypeOK' BY <2>1 DEF Connect
 <2>2. ASSUME NEW c \in Connections, Write(c) PROVE EbTypeOK'
  <3>1. Head(ebStream[c]) \in Event /\ Tail(ebStream[c]) \in Seq(Event) /\ ebWritten[c] \in Seq(Event)
    BY <2>2 DEF Write
  <3>2. ebOwed' \in [Subscriptions -> {"no", "yes", "crowded"}] BY <2>2 DEF Write
  <3> QED BY <2>2, <3>1, <3>2 DEF Write
 <2>3. ASSUME NEW c \in Connections, Leave(c) PROVE EbTypeOK' BY <2>3 DEF Leave
 <2>4. ASSUME NEW s \in Subscriptions, Subscribe(s[1], s[2]) PROVE EbTypeOK'
   BY <2>4 DEF Subscribe, Subscriptions
 <2>5. ASSUME NEW s \in Subscriptions, Unsubscribe(s[1], s[2]) PROVE EbTypeOK' BY <2>5 DEF Unsubscribe
 <2>6. ASSUME NEW s \in Subscriptions, Take(s) PROVE EbTypeOK'
  <3>1. <<Head(ebChan[s])>> \in Seq(Event) /\ Tail(ebChan[s]) \in Seq(Event) BY <2>6 DEF Take
  <3> QED BY <2>6, <3>1 DEF Take
 <2>7. ASSUME NEW s \in Subscriptions, Forward(s) PROVE EbTypeOK'
  <3>1. s[1] \in Connections /\ ebHand[s][1] \in Event BY <2>7 DEF Forward, Subscriptions
  <3>2. Offer(ebStream[s[1]], ebHand[s][1], EbStreamSize) \in Seq(Event) BY <3>1, OfferLeavesSomething
  <3>3. <<>> \in Seq(Event) OBVIOUS
  <3>4. ebOwed' \in [Subscriptions -> {"no", "yes", "crowded"}] BY <2>7 DEF Forward
  <3> QED BY <2>7, <3>1, <3>2, <3>3, <3>4 DEF Forward
 <2>8. ASSUME NEW t \in EbTables, Publish(t) PROVE EbTypeOK'
  <3> DEFINE event == [id |-> ebCount + 1, table |-> t, after |-> Published]
  <3>1. ebCount + 1 \in 1..EbMaxEvents /\ Published \in SUBSET (1..EbMaxEvents)
    BY <2>8 DEF Publish, Published
  <3>2. event \in Event /\ Subscribers(t) \in SUBSET Subscriptions BY <3>1 DEF Event, Subscribers
  <3> HIDE DEF event
  <3>3. ebPub' \subseteq [event : Event, targets : SUBSET Subscriptions] BY <2>8, <3>2 DEF Publish, event
  <3>4. ebCount' \in 0..EbMaxEvents /\ ebOwed' \in [Subscriptions -> {"no", "yes", "crowded"}]
   <4>1. ebCount' \in 0..EbMaxEvents BY <2>8, <3>1 DEF Publish
   <4>2. ebOwed' \in [Subscriptions -> {"no", "yes", "crowded"}] BY <2>8 DEF Publish
   <4> QED BY <4>1, <4>2
  <3> QED BY <2>8, <3>3, <3>4 DEF Publish
 <2>9. ASSUME NEW p \in ebPub, NEW s \in Subscriptions, Send(p, s) PROVE EbTypeOK'
  <3>1. Offer(ebChan[s], p.event, EbChannelSize) \in Seq(Event) BY <2>9, OfferLeavesSomething
  <3>2. [p EXCEPT !.targets = @ \ {s}] \in [event : Event, targets : SUBSET Subscriptions] OBVIOUS
  <3> QED BY <2>9, <3>1, <3>2 DEF Send
 <2>10. CASE UNCHANGED ebVars BY <2>10 DEF ebVars
 <2> QED BY <2>1, <2>2, <2>3, <2>4, <2>5, <2>6, <2>7, <2>8, <2>9, <2>10 DEF EbNext
<1> QED BY <1>1, <1>2, PTL DEF EbSpec
-----------------------------------------------------------------------------
(* ArrivesInOrder.  What was written to a client, what waits in its stream, what a goroutine
   holds, what waits in the channel and what is still to be sent to it stand in line: each event
   of the line may follow those before it. *)

Rng(seq) == {seq[i] : i \in DOMAIN seq}
Follows(e, f) == e.id # f.id /\ (e.table = f.table => f.id \notin e.after)
Before(es, fs) == \A e \in es, f \in fs : Follows(e, f)
InOrder(seq) == \A i \in DOMAIN seq : \A j \in (i + 1)..Len(seq) : Follows(seq[i], seq[j])

Reached(c) == Rng(ebWritten[c]) \cup Rng(ebStream[c])
Waiting(s) == Rng(ebHand[s]) \cup Rng(ebChan[s])
Coming(s) == {p.event : p \in {q \in ebPub : s \in q.targets}}

StreamsInLine ==
    \A c \in Connections :
        /\ InOrder(ebWritten[c]) /\ InOrder(ebStream[c])
        /\ Before(Rng(ebWritten[c]), Rng(ebStream[c]))
ChannelsInLine ==
    \A s \in Subscriptions :
        /\ InOrder(ebChan[s]) /\ Before(Rng(ebHand[s]), Rng(ebChan[s]))
        /\ Before(Reached(s[1]), Waiting(s))
        /\ Before(Reached(s[1]) \cup Waiting(s), Coming(s))

\* Publishers under way have an event of their own each, and none began after another had ended.
PublishersOverlap ==
    \A p, q \in ebPub : (p.event.id = q.event.id => p = q) /\ q.event.id \notin p.event.after

\* What is anywhere was published, and of one table.
Held == (UNION {Reached(c) : c \in Connections}) \cup (UNION {Waiting(s) : s \in Subscriptions})
           \cup {p.event : p \in ebPub}
HeldIsPublished ==
    /\ \A e \in Held : e.id <= ebCount /\ e.after \subseteq 1..ebCount
    /\ \A e, f \in Held : e.id = f.id => e.table = f.table

\* A connection meets events of its own tables only.
TablesAsked ==
    /\ \A c \in Connections : /\ ebConn[c].left \subseteq ebConn[c].tables
                              /\ ebConn[c].phase = "none" => ebConn[c].tables = {}
                              /\ \A e \in Reached(c) : e.table \in ebConn[c].tables
    /\ \A s \in ebSubs : s[2] \in ebConn[s[1]].tables
    /\ \A s \in Subscriptions : \A e \in Waiting(s) : e.table = s[2] /\ s[2] \in ebConn[s[1]].tables
    /\ \A p \in ebPub : \A s \in p.targets : s[2] = p.event.table /\ s[2] \in ebConn[s[1]].tables

LineInv == StreamsInLine /\ ChannelsInLine /\ PublishersOverlap /\ HeldIsPublished /\ TablesAsked

\* The last event of a longer sequence must follow all the others.
LEMMA AppendInOrder ==
  ASSUME NEW q \in Seq(Event), NEW e \in Event
  PROVE  /\ Rng(Append(q, e)) = Rng(q) \cup {e}
         /\ InOrder(q) /\ Before(Rng(q), {e}) => InOrder(Append(q, e))
<1> DEFINE r == Append(q, e)
<1>1. /\ Len(q) \in Nat /\ Len(r) = Len(q) + 1 /\ DOMAIN q = 1..Len(q) /\ DOMAIN r = 1..(Len(q) + 1)
      /\ \A i \in 1..Len(q) : r[i] = q[i]
      /\ r[Len(q) + 1] = e OBVIOUS
<1> HIDE DEF r
<1>2. Rng(r) = Rng(q) \cup {e} BY <1>1 DEF Rng
<1>3. ASSUME InOrder(q), Before(Rng(q), {e}) PROVE InOrder(r)
 <2> SUFFICES ASSUME NEW i \in DOMAIN r, NEW j \in (i + 1)..Len(r) PROVE Follows(r[i], r[j]) BY DEF InOrder
 <2>1. i \in 1..Len(q) /\ r[i] = q[i] BY <1>1
 <2>2. CASE j \in 1..Len(q) BY <1>1, <1>3, <2>1, <2>2 DEF InOrder
 <2>3. CASE j = Len(q) + 1
  <3>1. q[i] \in Rng(q) /\ r[j] = e BY <1>1, <2>1, <2>3 DEF Rng
  <3> QED BY <1>3, <2>1, <3>1 DEF Before
 <2> QED BY <1>1, <2>1, <2>2, <2>3
<1> QED BY <1>2, <1>3 DEF r

\* What follows the head of a sequence is in order too.
LEMMA TailInOrder ==
  ASSUME NEW q \in Seq(Event), q # <<>>
  PROVE  /\ Head(q) \in Event /\ Tail(q) \in Seq(Event)
         /\ Rng(q) = {Head(q)} \cup Rng(Tail(q))
         /\ InOrder(q) => InOrder(Tail(q)) /\ Before({Head(q)}, Rng(Tail(q)))
<1> DEFINE r == Tail(q)
<1>1. /\ Head(q) \in Event /\ r \in Seq(Event)
      /\ Len(q) \in Nat /\ Len(q) # 0 /\ Len(r) = Len(q) - 1
      /\ DOMAIN q = 1..Len(q) /\ DOMAIN r = 1..(Len(q) - 1)
      /\ \A i \in 1..(Len(q) - 1) : r[i] = q[i + 1]
      /\ Head(q) = q[1] OBVIOUS
<1> HIDE DEF r
<1>2. Rng(q) = {Head(q)} \cup Rng(r)
 <2>1. ASSUME NEW x \in Rng(q) PROVE x \in {Head(q)} \cup Rng(r)
  <3>1. PICK i \in 1..Len(q) : x = q[i] BY <1>1, <2>1 DEF Rng
  <3>2. CASE i # 1
   <4>1. i - 1 \in 1..(Len(q) - 1) /\ r[i - 1] = q[(i - 1) + 1] /\ (i - 1) + 1 = i BY <1>1, <3>2
   <4> QED BY <1>1, <3>1, <4>1 DEF Rng
  <3> QED BY <1>1, <3>1, <3>2
 <2>2. ASSUME NEW x \in {Head(q)} \cup Rng(r) PROVE x \in Rng(q)
  <3>1. CASE x = Head(q) BY <1>1, <3>1 DEF Rng
  <3>2. CASE x \in Rng(r)
   <4>1. PICK i \in 1..(Len(q) - 1) : x = r[i] BY <1>1, <3>2 DEF Rng
   <4>2. i + 1 \in 1..Len(q) /\ x = q[i + 1] BY <1>1, <4>1
   <4> QED BY <1>1, <4>2 DEF Rng
  <3> QED BY <2>2, <3>1, <3>2
 <2> QED BY <2>1, <2>2
<1>3. ASSUME InOrder(q) PROVE InOrder(r) /\ Before({Head(q)}, Rng(r))
 <2>1. ASSUME NEW i \in DOMAIN r, NEW j \in (i + 1)..Len(r) PROVE Follows(r[i], r[j])
  <3>1. i + 1 \in DOMAIN q /\ j + 1 \in ((i + 1) + 1)..Len(q) /\ r[i] = q[i + 1] /\ r[j] = q[j + 1] BY <1>1
  <3> QED BY <1>3, <3>1 DEF InOrder
 <2>2. ASSUME NEW x \in Rng(r) PROVE Follows(Head(q), x)
  <3>1. PICK i \in 1..(Len(q) - 1) : x = r[i] BY <1>1 DEF Rng
  <3>2. 1 \in DOMAIN q /\ i + 1 \in (1 + 1)..Len(q) /\ x = q[i + 1] BY <1>1, <3>1
  <3> QED BY <1>1, <1>3, <3>2 DEF InOrder
 <2> QED BY <2>1, <2>2 DEF InOrder, Before
<1> QED BY <1>1, <1>2, <1>3 DEF r

\* An event that may follow a channel can be offered to it.
LEMMA OfferInOrder ==
  ASSUME NEW q \in Seq(Event), NEW e \in Event, NEW size
  PROVE  /\ Rng(Offer(q, e, size)) \subseteq Rng(q) \cup {e}
         /\ InOrder(q) /\ Before(Rng(q), {e}) => InOrder(Offer(q, e, size)) BY AppendInOrder DEF Offer

\* Nothing is in a channel that is empty.
LEMMA NothingInEmpty == Rng(<<>>) = {} BY DEF Rng

\* Nothing stands in line before the first step.
LEMMA LineInit == EbInit => LineInv
<1> SUFFICES ASSUME EbInit PROVE LineInv OBVIOUS
<1>1. /\ \A c \in Connections : Reached(c) = {} /\ ebWritten[c] = <<>> /\ ebStream[c] = <<>>
      /\ \A s \in Subscriptions : Waiting(s) = {} /\ ebHand[s] = <<>> /\ ebChan[s] = <<>>
      /\ ebPub = {} /\ ebSubs = {} BY NothingInEmpty DEF EbInit, Reached, Waiting
<1>2. InOrder(<<>>) /\ Held = {} /\ \A s \in Subscriptions : Coming(s) = {} BY <1>1 DEF InOrder, Held, Coming
<1>3. StreamsInLine BY <1>1, <1>2, NothingInEmpty DEF StreamsInLine, Before
<1>4. ChannelsInLine BY <1>1, <1>2, NothingInEmpty DEF ChannelsInLine, Before, Subscriptions
<1>5. PublishersOverlap /\ HeldIsPublished BY <1>1, <1>2 DEF PublishersOverlap, HeldIsPublished
<1>6. TablesAsked BY <1>1 DEF TablesAsked, EbInit
<1> QED BY <1>3, <1>4, <1>5, <1>6 DEF LineInv

\* While nothing moves and connections only come to ask for more tables, the line stands.
LEMMA LineRests ==
  ASSUME EbTypeOK, LineInv,
         UNCHANGED <<ebChan, ebHand, ebStream, ebWritten, ebPub, ebCount>>,
         \A c \in Connections : ebConn[c].tables \subseteq ebConn'[c].tables,
         \A c \in Connections : /\ ebConn'[c].left \subseteq ebConn'[c].tables
                                /\ ebConn'[c].phase = "none" => ebConn'[c].tables = {},
         \A s \in ebSubs' : s \in Subscriptions /\ s[2] \in ebConn'[s[1]].tables
  PROVE  LineInv'
<1>1. /\ \A c : Reached(c)' = Reached(c)
      /\ \A s : Waiting(s)' = Waiting(s)
      /\ \A s : Coming(s)' = Coming(s) BY DEF Reached, Waiting, Coming
<1>2. Held' = Held BY <1>1 DEF Held
<1>3. StreamsInLine' BY DEF LineInv, StreamsInLine
<1>4. ChannelsInLine' BY <1>1 DEF LineInv, ChannelsInLine
<1>5. PublishersOverlap' /\ HeldIsPublished' BY <1>2 DEF LineInv, PublishersOverlap, HeldIsPublished
<1>6. TablesAsked'
 <2>1. TablesAsked BY DEF LineInv
 <2>2. \A c \in Connections : \A e \in Reached(c)' : e.table \in ebConn'[c].tables
   BY <1>1, <2>1 DEF TablesAsked
 <2>3. \A s \in Subscriptions : \A e \in Waiting(s)' : e.table = s[2] /\ s[2] \in ebConn'[s[1]].tables
   BY <1>1, <2>1 DEF TablesAsked, Subscriptions
 <2>4. \A p \in ebPub' : \A s \in p.targets : s[2] = p.event.table /\ s[2] \in ebConn'[s[1]].tables
   BY <2>1 DEF TablesAsked, Subscriptions, EbTypeOK
 <2> QED BY <2>2, <2>3, <2>4 DEF TablesAsked
<1> QED BY <1>3, <1>4, <1>5, <1>6 DEF LineInv

\* Written to the client: the head of the stream goes to the end of what was written.
LEMMA LineWrite ==
  ASSUME EbTypeOK, LineInv, NEW c \in Connections, Write(c)
  PROVE  LineInv'
<1> DEFINE w == ebWritten[c]  h == Head(ebStream[c])  rest == Tail(ebStream[c])
<1>1. /\ w \in Seq(Event) /\ ebStream[c] \in Seq(Event) /\ ebStream[c] # <<>>
      /\ ebWritten' = [ebWritten EXCEPT ![c] = Append(w, h)]
      /\ ebStream' = [ebStream EXCEPT ![c] = rest]
      /\ UNCHANGED <<ebConn, ebSubs, ebChan, ebHand, ebPub, ebCount>> BY DEF Write, EbTypeOK
<1>2. /\ ebWritten'[c] = Append(w, h) /\ ebStream'[c] = rest
      /\ \A d \in Connections : d # c => ebWritten'[d] = ebWritten[d] /\ ebStream'[d] = ebStream[d]
  BY <1>1 DEF EbTypeOK
<1>3. InOrder(w) /\ InOrder(ebStream[c]) /\ Before(Rng(w), Rng(ebStream[c])) BY DEF LineInv, StreamsInLine
<1>4. /\ h \in Event /\ rest \in Seq(Event) /\ Rng(ebStream[c]) = {h} \cup Rng(rest)
      /\ InOrder(rest) /\ Before({h}, Rng(rest)) BY <1>1, <1>3, TailInOrder
<1>5. Before(Rng(w), {h}) /\ Before(Rng(w) \cup {h}, Rng(rest)) BY <1>3, <1>4 DEF Before
<1>6. Rng(Append(w, h)) = Rng(w) \cup {h} /\ InOrder(Append(w, h)) BY <1>1, <1>3, <1>4, <1>5, AppendInOrder
<1> HIDE DEF w, h, rest
<1>7. \A d \in Connections : Reached(d)' = Reached(d) BY <1>2, <1>4, <1>6 DEF Reached, w
<1>8. (\A s : Waiting(s)' = Waiting(s)) /\ (\A s : Coming(s)' = Coming(s)) BY <1>1 DEF Waiting, Coming
<1>9. Held' = Held BY <1>1, <1>7, <1>8 DEF Held, Connections, Subscriptions
<1>10. StreamsInLine'
 <2>1. ASSUME NEW d \in Connections
       PROVE  InOrder(ebWritten'[d]) /\ InOrder(ebStream'[d]) /\ Before(Rng(ebWritten'[d]), Rng(ebStream'[d]))
  <3>1. CASE d = c BY <1>2, <1>4, <1>5, <1>6, <3>1
  <3>2. CASE d # c BY <1>2, <3>2 DEF LineInv, StreamsInLine
  <3> QED BY <3>1, <3>2
 <2> QED BY <2>1 DEF StreamsInLine
<1>11. ChannelsInLine' BY <1>1, <1>7, <1>8 DEF LineInv, ChannelsInLine, Subscriptions
<1>12. PublishersOverlap' /\ HeldIsPublished' BY <1>1, <1>9 DEF LineInv, PublishersOverlap, HeldIsPublished
<1>13. TablesAsked' BY <1>1, <1>7, <1>8 DEF LineInv, TablesAsked
<1> QED BY <1>10, <1>11, <1>12, <1>13 DEF LineInv

\* Taken by the goroutine: the head of a channel goes into its empty hand.
LEMMA LineTake ==
  ASSUME EbTypeOK, LineInv, NEW s \in Subscriptions, Take(s)
  PROVE  LineInv'
<1> DEFINE h == Head(ebChan[s])  rest == Tail(ebChan[s])
<1>1. /\ ebChan[s] \in Seq(Event) /\ ebChan[s] # <<>> /\ ebHand[s] = <<>>
      /\ UNCHANGED <<ebConn, ebSubs, ebStream, ebWritten, ebPub, ebCount>> BY DEF Take, EbTypeOK
<1>2. /\ ebHand'[s] = <<h>> /\ ebChan'[s] = rest
      /\ \A u \in Subscriptions : u # s => ebHand'[u] = ebHand[u] /\ ebChan'[u] = ebChan[u]
  BY DEF Take, EbTypeOK
<1>3. InOrder(ebChan[s]) BY DEF LineInv, ChannelsInLine
<1>4. Rng(ebChan[s]) = {h} \cup Rng(rest) /\ InOrder(rest) /\ Before({h}, Rng(rest))
  BY <1>1, <1>3, TailInOrder
<1>5. Rng(<<h>>) = {h} BY DEF Rng
<1> HIDE DEF h, rest
<1>6. \A u \in Subscriptions : Waiting(u)' = Waiting(u) BY <1>1, <1>2, <1>4, <1>5, NothingInEmpty DEF Waiting
<1>7. (\A d : Reached(d)' = Reached(d)) /\ (\A u : Coming(u)' = Coming(u)) BY <1>1 DEF Reached, Coming
<1>8. Held' = Held BY <1>1, <1>6, <1>7 DEF Held, Connections, Subscriptions
<1>9. StreamsInLine' BY <1>1 DEF LineInv, StreamsInLine
<1>10. ChannelsInLine'
 <2>1. ASSUME NEW u \in Subscriptions
       PROVE  InOrder(ebChan'[u]) /\ Before(Rng(ebHand'[u]), Rng(ebChan'[u]))
  <3>1. CASE u = s BY <1>2, <1>4, <1>5, <3>1
  <3>2. CASE u # s BY <1>2, <3>2 DEF LineInv, ChannelsInLine
  <3> QED BY <3>1, <3>2
 <2> QED BY <1>6, <1>7, <2>1 DEF LineInv, ChannelsInLine
<1>11. PublishersOverlap' /\ HeldIsPublished' BY <1>1, <1>8 DEF LineInv, PublishersOverlap, HeldIsPublished
<1>12. TablesAsked' BY <1>1, <1>6, <1>7 DEF LineInv, TablesAsked
<1> QED BY <1>9, <1>10, <1>11, <1>12 DEF LineInv

\* Events of two tables may follow one another in any order.
LEMMA OtherTable ==
  ASSUME HeldIsPublished, NEW e \in Held, NEW f \in Held, e.table # f.table
  PROVE  Follows(e, f) BY DEF HeldIsPublished, Follows

\* Forwarded: what the goroutine holds is offered to the stream, or lost.
LEMMA LineForward ==
  ASSUME EbTypeOK, LineInv, NEW s \in Subscriptions, Forward(s)
  PROVE  LineInv'
<1> DEFINE c == s[1]  h == ebHand[s][1]  offered == Offer(ebStream[c], h, EbStreamSize)
<1>1. /\ c \in Connections /\ ebHand[s] \in Seq(Event) /\ ebHand[s] # <<>> /\ ebStream[c] \in Seq(Event)
      /\ UNCHANGED <<ebConn, ebSubs, ebChan, ebWritten, ebPub, ebCount>>
  BY DEF Forward, EbTypeOK, Subscriptions
<1>2. /\ ebHand'[s] = <<>> /\ ebStream'[c] = offered
      /\ \A u \in Subscriptions : u # s => ebHand'[u] = ebHand[u]
      /\ \A d \in Connections : d # c => ebStream'[d] = ebStream[d] BY <1>1 DEF Forward, EbTypeOK
<1>3. h \in Event /\ h \in Rng(ebHand[s]) BY <1>1 DEF Rng
<1>4. h \in Waiting(s) /\ h \in Held BY <1>3 DEF Waiting, Held
<1>5. InOrder(ebStream[c]) /\ Before(Reached(c), {h})
 <2>1. Before(Reached(c), Waiting(s)) BY DEF LineInv, ChannelsInLine
 <2> QED BY <1>1, <1>4, <2>1 DEF LineInv, StreamsInLine, Before
<1>6. Rng(offered) \subseteq Rng(ebStream[c]) \cup {h} /\ InOrder(offered)
 <2>1. Before(Rng(ebStream[c]), {h}) BY <1>5 DEF Before, Reached
 <2> QED BY <1>1, <1>3, <1>5, <2>1, OfferInOrder
<1>7. h.table = s[2] /\ s[2] \in ebConn[c].tables BY <1>4 DEF LineInv, TablesAsked
<1>8. \A u \in Subscriptions : u # s /\ u[1] = c => u[2] # s[2] BY DEF Subscriptions
<1> HIDE DEF h, offered
<1>9. \A d \in Connections : Reached(d)' \subseteq Reached(d) \cup (IF d = c THEN {h} ELSE {})
  BY <1>1, <1>2, <1>6 DEF Reached
<1>10. \A u \in Subscriptions : Waiting(u)' = IF u = s THEN Rng(ebChan[s]) ELSE Waiting(u)
  BY <1>1, <1>2, NothingInEmpty DEF Waiting
<1>11. Rng(ebChan[s]) \subseteq Waiting(s) BY DEF Waiting
<1>12. \A u : Coming(u)' = Coming(u) BY <1>1 DEF Coming
<1>13. Held' \subseteq Held
 <2>1. \A d \in Connections : Reached(d)' \subseteq Held BY <1>4, <1>9 DEF Held
 <2>2. \A u \in Subscriptions : Waiting(u)' \subseteq Held BY <1>10, <1>11 DEF Held
 <2> QED BY <1>1, <2>1, <2>2 DEF Held, Connections, Subscriptions
<1>14. StreamsInLine'
 <2>1. ASSUME NEW d \in Connections
       PROVE  InOrder(ebWritten[d]) /\ InOrder(ebStream'[d]) /\ Before(Rng(ebWritten[d]), Rng(ebStream'[d]))
  <3>1. InOrder(ebWritten[d]) /\ InOrder(ebStream[d]) /\ Before(Rng(ebWritten[d]), Rng(ebStream[d]))
    BY DEF LineInv, StreamsInLine
  <3>2. CASE d = c
   <4>1. Before(Rng(ebWritten[d]), Rng(offered)) BY <1>5, <1>6, <3>1, <3>2 DEF Before, Reached
   <4> QED BY <1>2, <1>6, <3>1, <3>2, <4>1
  <3>3. CASE d # c BY <1>2, <3>1, <3>3
  <3> QED BY <3>2, <3>3
 <2> QED BY <1>1, <2>1 DEF StreamsInLine
<1>15. ChannelsInLine'
 <2>1. ASSUME NEW u \in Subscriptions
       PROVE  /\ InOrder(ebChan[u]) /\ Before(Rng(ebHand'[u]), Rng(ebChan[u]))
              /\ Before(Reached(u[1])', Waiting(u)')
              /\ Before(Reached(u[1])' \cup Waiting(u)', Coming(u))
  <3>1. /\ InOrder(ebChan[u]) /\ Before(Rng(ebHand[u]), Rng(ebChan[u]))
        /\ Before(Reached(u[1]), Waiting(u))
        /\ Before(Reached(u[1]) \cup Waiting(u), Coming(u)) BY DEF LineInv, ChannelsInLine
  <3>2. Before(Rng(ebHand'[u]), Rng(ebChan[u])) BY <1>2, <3>1, NothingInEmpty DEF Before
  <3>3. u[1] \in Connections /\ Waiting(u)' \subseteq Waiting(u) BY <1>10, <1>11 DEF Subscriptions
  <3>4. ASSUME u[1] = c, NEW f \in Waiting(u)' \cup Coming(u) PROVE Follows(h, f)
   <4>1. CASE u = s
    <5>1. Before({h}, Rng(ebChan[s])) /\ Before({h}, Coming(s)) BY <1>3, <1>4, <3>1, <4>1 DEF Before
    <5> QED BY <1>10, <3>4, <4>1, <5>1 DEF Before
   <4>2. CASE u # s
    <5>1. f \in Held BY <3>3, <3>4 DEF Held, Coming
    <5>2. f.table = u[2] BY <3>3, <3>4 DEF LineInv, TablesAsked, Coming
    <5> QED BY <1>4, <1>7, <1>8, <3>4, <4>2, <5>1, <5>2, OtherTable DEF LineInv
   <4> QED BY <4>1, <4>2
  <3>5. Before(Reached(u[1])', Waiting(u)') BY <1>9, <3>1, <3>3, <3>4 DEF Before
  <3>6. Before(Reached(u[1])' \cup Waiting(u)', Coming(u)) BY <1>9, <3>1, <3>3, <3>4 DEF Before
  <3> QED BY <3>1, <3>2, <3>5, <3>6
 <2> QED BY <1>1, <1>12, <2>1 DEF ChannelsInLine, Subscriptions, Connections
<1>16. PublishersOverlap' /\ HeldIsPublished' BY <1>1, <1>13 DEF LineInv, PublishersOverlap, HeldIsPublished
<1>17. TablesAsked'
 <2>1. \A d \in Connections : \A e \in Reached(d)' : e.table \in ebConn[d].tables
   BY <1>7, <1>9 DEF LineInv, TablesAsked
 <2>2. \A u \in Subscriptions : \A e \in Waiting(u)' : e.table = u[2] /\ u[2] \in ebConn[u[1]].tables
   BY <1>10, <1>11 DEF LineInv, TablesAsked
 <2> QED BY <1>1, <2>1, <2>2 DEF LineInv, TablesAsked, Subscriptions, Connections
<1> QED BY <1>14, <1>15, <1>16, <1>17 DEF LineInv

\* Published: the new event may follow whatever is held, and no publisher under way has ended.
LEMMA LinePublish ==
  ASSUME EbSizes, EbTypeOK, LineInv, NEW t \in EbTables, Publish(t)
  PROVE  LineInv'
<1> DEFINE n == [id |-> ebCount + 1, table |-> t, after |-> Published]
           new == [event |-> n, targets |-> Subscribers(t)]
<1>1. /\ ebCount \in Nat /\ ebCount' = ebCount + 1
      /\ ebPub' \subseteq ebPub \cup {new}
      /\ UNCHANGED <<ebConn, ebSubs, ebChan, ebHand, ebStream, ebWritten>> BY DEF Publish, EbTypeOK, EbSizes
<1>2. /\ n.id = ebCount + 1 /\ n.table = t /\ n.after = Published
      /\ new.event = n /\ new.targets = Subscribers(t) OBVIOUS
<1> HIDE DEF n, new
<1>3. /\ \A d : Reached(d)' = Reached(d)
      /\ \A s : Waiting(s)' = Waiting(s)
      /\ \A s : Coming(s)' \subseteq Coming(s) \cup {n} BY <1>1, <1>2 DEF Reached, Waiting, Coming
<1>4. \A e \in Held : Follows(e, n) /\ e.id # n.id
 <2>1. ASSUME NEW e \in Held PROVE Follows(e, n) /\ e.id # n.id
  <3>1. e.id <= ebCount /\ e.after \subseteq 1..ebCount BY DEF LineInv, HeldIsPublished
  <3>2. e.id \in Nat
   <4>1. \A seq \in Seq(Event) : Rng(seq) \subseteq Event BY DEF Rng
   <4>2. e \in Event BY <4>1 DEF Held, Reached, Waiting, EbTypeOK
   <4> QED BY <4>2 DEF Event, EbSizes
  <3>3. e.id # ebCount + 1 /\ ebCount + 1 \notin 1..ebCount BY <1>1, <3>1, <3>2
  <3> QED BY <1>2, <3>1, <3>3 DEF Follows
 <2> QED BY <2>1
<1>5. Held' \subseteq Held \cup {n} BY <1>1, <1>2, <1>3 DEF Held, Connections, Subscriptions
<1>6. StreamsInLine' BY <1>1 DEF LineInv, StreamsInLine
<1>7. ChannelsInLine'
 <2>1. ASSUME NEW s \in Subscriptions
       PROVE  /\ InOrder(ebChan[s]) /\ Before(Rng(ebHand[s]), Rng(ebChan[s]))
              /\ Before(Reached(s[1]), Waiting(s))
              /\ Before(Reached(s[1]) \cup Waiting(s), Coming(s)')
  <3>1. /\ InOrder(ebChan[s]) /\ Before(Rng(ebHand[s]), Rng(ebChan[s]))
        /\ Before(Reached(s[1]), Waiting(s))
        /\ Before(Reached(s[1]) \cup Waiting(s), Coming(s)) BY DEF LineInv, ChannelsInLine
  <3>2. Reached(s[1]) \cup Waiting(s) \subseteq Held BY DEF Held, Subscriptions
  <3>3. Before(Reached(s[1]) \cup Waiting(s), {n}) BY <1>4, <3>2 DEF Before
  <3> QED BY <1>3, <3>1, <3>3 DEF Before
 <2> QED BY <1>1, <1>3, <2>1 DEF ChannelsInLine, Subscriptions, Connections
<1>8. PublishersOverlap'
 <2>1. ASSUME NEW p \in ebPub', NEW q \in ebPub'
       PROVE  (p.event.id = q.event.id => p = q) /\ q.event.id \notin p.event.after
  <3>1. \A r \in ebPub : /\ r.event \in Held
                         /\ r.event.id # n.id
                         /\ n.id \notin r.event.after
                         /\ r.event.id \notin n.after
   <4>1. ASSUME NEW r \in ebPub
         PROVE r.event \in Held /\ r.event.id \notin Published /\ ebCount + 1 \notin r.event.after
    <5>1. r.event \in Held BY DEF Held
    <5>2. r.event.after \subseteq 1..ebCount BY <5>1 DEF LineInv, HeldIsPublished
    <5>3. ebCount + 1 \notin 1..ebCount BY <1>1
    <5> QED BY <5>1, <5>2, <5>3 DEF Published
   <4> QED BY <1>2, <1>4, <4>1
  <3>2. n.id \notin n.after BY <1>1, <1>2 DEF Published
  <3>3. CASE p \in ebPub /\ q \in ebPub BY <3>3 DEF LineInv, PublishersOverlap
  <3>4. CASE p = new \/ q = new BY <1>1, <1>2, <3>1, <3>2, <3>4
  <3> QED BY <1>1, <3>3, <3>4
 <2> QED BY <2>1 DEF PublishersOverlap
<1>9. HeldIsPublished'
 <2>1. \A e \in Held : e.id <= ebCount /\ e.after \subseteq 1..ebCount BY DEF LineInv, HeldIsPublished
 <2>2. \A e \in Held' : e.id <= ebCount'
  <3>1. \A e \in Held : e.id <= ebCount + 1
   <4>1. \A e \in Held : e.id \in Nat
    <5>1. \A seq \in Seq(Event) : Rng(seq) \subseteq Event BY DEF Rng
    <5>2. Held \subseteq Event BY <5>1 DEF Held, Reached, Waiting, EbTypeOK
    <5> QED BY <5>2 DEF Event, EbSizes
   <4> QED BY <1>1, <2>1, <4>1
  <3> QED BY <1>1, <1>2, <1>5, <3>1
 <2>3. \A e \in Held' : e.after \subseteq 1..ebCount'
  <3>1. 1..ebCount \subseteq 1..(ebCount + 1) /\ Published \subseteq 1..ebCount BY <1>1 DEF Published
  <3> QED BY <1>1, <1>2, <1>5, <2>1, <3>1
 <2>4. \A e, f \in Held' : e.id = f.id => e.table = f.table BY <1>4, <1>5 DEF LineInv, HeldIsPublished
 <2> QED BY <2>2, <2>3, <2>4 DEF HeldIsPublished
<1>10. TablesAsked'
 <2>1. TablesAsked BY DEF LineInv
 <2>2. \A p \in ebPub' : \A s \in p.targets : s[2] = p.event.table /\ s[2] \in ebConn[s[1]].tables
  <3>1. \A s \in Subscribers(t) : s[2] = t /\ s[2] \in ebConn[s[1]].tables
    BY <2>1 DEF Subscribers, TablesAsked
  <3> QED BY <1>1, <1>2, <2>1, <3>1 DEF TablesAsked
 <2> QED BY <1>1, <1>3, <2>1, <2>2 DEF TablesAsked, Subscriptions, Connections
<1> QED BY <1>6, <1>7, <1>8, <1>9, <1>10 DEF LineInv

\* Sent: the event of a publisher is offered to one of its channels, or lost.
LEMMA LineSend ==
  ASSUME EbTypeOK, LineInv, NEW p \in ebPub, NEW s \in Subscriptions, Send(p, s)
  PROVE  LineInv'
<1> DEFINE e == p.event  rest == [p EXCEPT !.targets = @ \ {s}]  offered == Offer(ebChan[s], e, EbChannelSize)
<1>1. /\ s \in p.targets /\ e \in Event /\ ebChan[s] \in Seq(Event)
      /\ rest.event = e /\ rest.targets = p.targets \ {s}
      /\ ebPub' \subseteq (ebPub \ {p}) \cup {rest}
      /\ UNCHANGED <<ebConn, ebSubs, ebHand, ebStream, ebWritten, ebCount>> BY DEF Send, EbTypeOK
<1>2. ebChan'[s] = offered /\ \A u \in Subscriptions : u # s => ebChan'[u] = ebChan[u] BY DEF Send, EbTypeOK
<1>3. e \in Coming(s) /\ e \in Held BY <1>1 DEF Coming, Held
<1> HIDE DEF e, rest, offered
<1>4. /\ InOrder(ebChan[s]) /\ Before(Rng(ebHand[s]), Rng(ebChan[s]))
      /\ Before(Reached(s[1]), Waiting(s))
      /\ Before(Reached(s[1]) \cup Waiting(s), {e})
 <2>1. /\ InOrder(ebChan[s]) /\ Before(Rng(ebHand[s]), Rng(ebChan[s]))
       /\ Before(Reached(s[1]), Waiting(s))
       /\ Before(Reached(s[1]) \cup Waiting(s), Coming(s)) BY DEF LineInv, ChannelsInLine
 <2> QED BY <1>3, <2>1 DEF Before
<1>5. Rng(offered) \subseteq Rng(ebChan[s]) \cup {e} /\ InOrder(offered)
 <2>1. Before(Rng(ebChan[s]), {e}) BY <1>4 DEF Before, Waiting
 <2> QED BY <1>1, <1>4, <2>1, OfferInOrder DEF offered
<1>6. \A d : Reached(d)' = Reached(d) BY <1>1 DEF Reached
<1>7. \A u \in Subscriptions : Waiting(u)' \subseteq Waiting(u) \cup (IF u = s THEN {e} ELSE {})
  BY <1>1, <1>2, <1>5 DEF Waiting
<1>8. \A u : Coming(u)' \subseteq Coming(u) BY <1>1 DEF Coming, e
<1>9. \A f \in Coming(s)' : Follows(e, f)
 <2>1. ASSUME NEW f \in Coming(s)' PROVE Follows(e, f)
  <3>1. PICK q \in ebPub' : s \in q.targets /\ f = q.event BY <2>1 DEF Coming
  <3>2. q \in ebPub /\ q # p BY <1>1, <3>1
  <3> QED BY <3>1, <3>2 DEF LineInv, PublishersOverlap, Follows, e
 <2> QED BY <2>1
<1>10. Held' \subseteq Held
 <2>1. \A u \in Subscriptions : Waiting(u)' \subseteq Held BY <1>3, <1>7 DEF Held
 <2>2. \A q \in ebPub' : q.event \in Held BY <1>1, <1>3 DEF Held
 <2> QED BY <1>6, <2>1, <2>2 DEF Held, Connections, Subscriptions
<1>11. StreamsInLine' BY <1>1 DEF LineInv, StreamsInLine
<1>12. ChannelsInLine'
 <2>1. ASSUME NEW u \in Subscriptions
       PROVE  /\ InOrder(ebChan'[u]) /\ Before(Rng(ebHand[u]), Rng(ebChan'[u]))
              /\ Before(Reached(u[1]), Waiting(u)')
              /\ Before(Reached(u[1]) \cup Waiting(u)', Coming(u)')
  <3>1. /\ InOrder(ebChan[u]) /\ Before(Rng(ebHand[u]), Rng(ebChan[u]))
        /\ Before(Reached(u[1]), Waiting(u))
        /\ Before(Reached(u[1]) \cup Waiting(u), Coming(u)) BY DEF LineInv, ChannelsInLine
  <3>2. CASE u = s
   <4>1. Before(Rng(ebHand[s]), {e}) BY <1>4 DEF Before, Waiting
   <4>2. Before(Rng(ebHand[s]), Rng(offered)) BY <1>4, <1>5, <4>1 DEF Before
   <4>3. Before(Reached(s[1]), Waiting(s)') BY <1>4, <1>7 DEF Before
   <4>4. Before(Reached(s[1]) \cup Waiting(s)', Coming(s)') BY <1>7, <1>8, <1>9, <3>1, <3>2 DEF Before
   <4> QED BY <1>2, <1>5, <3>2, <4>2, <4>3, <4>4
  <3>3. CASE u # s
   <4>1. ebChan'[u] = ebChan[u] /\ Waiting(u)' \subseteq Waiting(u) BY <1>2, <1>7, <3>3
   <4> QED BY <1>8, <3>1, <4>1 DEF Before
  <3> QED BY <3>2, <3>3
 <2> QED BY <1>1, <1>6, <2>1 DEF ChannelsInLine, Subscriptions, Connections
<1>13. PublishersOverlap' BY <1>1 DEF LineInv, PublishersOverlap, e
<1>14. HeldIsPublished' BY <1>1, <1>10 DEF LineInv, HeldIsPublished
<1>15. TablesAsked'
 <2>1. TablesAsked BY DEF LineInv
 <2>2. e.table = s[2] /\ s[2] \in ebConn[s[1]].tables BY <1>1, <2>1 DEF TablesAsked, e
 <2>3. \A u \in Subscriptions : \A f \in Waiting(u)' : f.table = u[2] /\ u[2] \in ebConn[u[1]].tables
   BY <1>7, <2>1, <2>2 DEF TablesAsked
 <2>4. \A q \in ebPub' : \A u \in q.targets : u[2] = q.event.table /\ u[2] \in ebConn[u[1]].tables
   BY <1>1, <2>1 DEF TablesAsked, e
 <2> QED BY <1>1, <1>6, <2>1, <2>3, <2>4 DEF TablesAsked, Subscriptions, Connections
<1> QED BY <1>11, <1>12, <1>13, <1>14, <1>15 DEF LineInv

\* The line stands.
THEOREM EbInLine == EbSizes => (EbSpec => []LineInv)
<1> SUFFICES ASSUME EbSizes PROVE EbSpec => []LineInv OBVIOUS
<1>1. EbTypeOK /\ LineInv /\ [EbNext]_ebVars => LineInv'
 <2> SUFFICES ASSUME EbTypeOK, LineInv, [EbNext]_ebVars PROVE LineInv' OBVIOUS
 <2>0. TablesAsked /\ ebSubs \subseteq Subscriptions BY DEF LineInv, EbTypeOK
 <2>1. ASSUME NEW c \in Connections, Connect(c) PROVE LineInv'
  <3>1. ebConn[c].tables = {} BY <2>0, <2>1 DEF Connect, TablesAsked
  <3>2. \A d \in Connections : /\ ebConn[d].tables \subseteq ebConn'[d].tables
                               /\ ebConn'[d].left \subseteq ebConn'[d].tables
                               /\ ebConn'[d].phase = "none" => ebConn'[d].tables = {}
    BY <2>0, <2>1, <3>1 DEF Connect, TablesAsked, EbTypeOK
  <3>3. \A s \in ebSubs' : s \in Subscriptions /\ s[2] \in ebConn'[s[1]].tables
    BY <2>0, <2>1, <3>2 DEF Connect, TablesAsked, Subscriptions
  <3> QED BY <2>1, <3>2, <3>3, LineRests DEF Connect
 <2>2. ASSUME NEW c \in Connections, Write(c) PROVE LineInv' BY <2>2, LineWrite
 <2>3. ASSUME NEW c \in Connections, Leave(c) PROVE LineInv'
  <3>1. \A d \in Connections : /\ ebConn'[d].tables = ebConn[d].tables /\ ebConn'[d].left = ebConn[d].left
                               /\ ebConn'[d].phase = "none" => ebConn[d].phase = "none"
    BY <2>3 DEF Leave, EbTypeOK
  <3> QED BY <2>0, <2>3, <3>1, LineRests DEF Leave, TablesAsked, Subscriptions
 <2>4. ASSUME NEW s \in Subscriptions, Subscribe(s[1], s[2]) PROVE LineInv'
  <3>1. s[1] \in Connections /\ s = <<s[1], s[2]>> BY DEF Subscriptions
  <3>2. \A d \in Connections : /\ ebConn'[d].tables = ebConn[d].tables /\ ebConn'[d].left \subseteq ebConn[d].left
                               /\ ebConn'[d].phase = ebConn[d].phase BY <2>4, <3>1 DEF Subscribe, EbTypeOK
  <3>3. ebSubs' = ebSubs \cup {s} /\ s[2] \in ebConn[s[1]].tables
    BY <2>0, <2>4, <3>1 DEF Subscribe, TablesAsked
  <3>4. \A u \in ebSubs' : u \in Subscriptions /\ u[2] \in ebConn'[u[1]].tables
    BY <2>0, <3>2, <3>3 DEF TablesAsked, Subscriptions
  <3>5. \A d \in Connections : /\ ebConn[d].tables \subseteq ebConn'[d].tables
                               /\ ebConn'[d].left \subseteq ebConn'[d].tables
                               /\ ebConn'[d].phase = "none" => ebConn'[d].tables = {}
    BY <2>0, <3>2 DEF TablesAsked
  <3> QED BY <2>4, <3>4, <3>5, LineRests DEF Subscribe
 <2>5. ASSUME NEW s \in Subscriptions, Unsubscribe(s[1], s[2]) PROVE LineInv'
   BY <2>0, <2>5, LineRests DEF Unsubscribe, TablesAsked
 <2>6. ASSUME NEW s \in Subscriptions, Take(s) PROVE LineInv' BY <2>6, LineTake
 <2>7. ASSUME NEW s \in Subscriptions, Forward(s) PROVE LineInv' BY <2>7, LineForward
 <2>8. ASSUME NEW t \in EbTables, Publish(t) PROVE LineInv' BY <2>8, LinePublish
 <2>9. ASSUME NEW p \in ebPub, NEW s \in Subscriptions, Send(p, s) PROVE LineInv' BY <2>9, LineSend
 <2>10. CASE UNCHANGED ebVars BY <2>0, <2>10, LineRests DEF ebVars, TablesAsked
 <2> QED BY <2>1, <2>2, <2>3, <2>4, <2>5, <2>6, <2>7, <2>8, <2>9, <2>10 DEF EbNext
<1> QED BY <1>1, LineInit, EbTypes, PTL DEF EbSpec

\* Whatever is lost, the events of a table arrive in the order of their publishers: see ArrivesInOrder.
THEOREM EbInOrder == EbSizes => (EbSpec => []ArrivesInOrder)
<1>1. EbTypeOK /\ LineInv => ArrivesInOrder
 <2> SUFFICES ASSUME EbTypeOK, LineInv, NEW c \in Connections, NEW i \in DOMAIN ebWritten[c]
              PROVE  /\ ebWritten[c][i].table \in ebConn[c].tables
                     /\ \A j \in (i + 1)..Len(ebWritten[c]) : Follows(ebWritten[c][i], ebWritten[c][j])
   BY DEF ArrivesInOrder, Follows
 <2>1. ebWritten[c][i] \in Reached(c) BY DEF Reached, Rng
 <2> QED BY <2>1 DEF LineInv, TablesAsked, StreamsInLine, InOrder
<1> QED BY <1>1, EbInLine, EbTypes, PTL

\* The tables of a channel are those of its events; an offer takes none of them away.
LEMMA TablesOfAChannel ==
  ASSUME NEW q \in Seq(Event)
  PROVE  /\ TablesIn(q) = {e.table : e \in Rng(q)}
         /\ \A e \in Event : \A size \in Nat : TablesIn(q) \subseteq TablesIn(Offer(q, e, size))
         /\ q # <<>> => TablesIn(q) = {Head(q).table} \cup TablesIn(Tail(q))
<1>1. \A r \in Seq(Event) : TablesIn(r) = {e.table : e \in Rng(r)} BY DEF TablesIn, Rng
<1>2. ASSUME NEW e \in Event, NEW size \in Nat PROVE TablesIn(q) \subseteq TablesIn(Offer(q, e, size))
 <2>1. CASE Len(q) < size
  <3>1. Append(q, e) \in Seq(Event) OBVIOUS
  <3>2. Rng(Append(q, e)) = Rng(q) \cup {e} BY AppendInOrder
  <3>3. TablesIn(Append(q, e)) = {f.table : f \in Rng(Append(q, e))} /\ TablesIn(q) = {f.table : f \in Rng(q)}
    BY <1>1, <3>1
  <3>4. TablesIn(q) \subseteq TablesIn(Append(q, e)) BY <3>2, <3>3
  <3> QED BY <2>1, <3>4 DEF Offer
 <2>2. CASE ~(Len(q) < size) BY <2>2 DEF Offer
 <2> QED BY <2>1, <2>2
<1>3. ASSUME q # <<>> PROVE TablesIn(q) = {Head(q).table} \cup TablesIn(Tail(q))
 <2>1. Tail(q) \in Seq(Event) /\ Rng(q) = {Head(q)} \cup Rng(Tail(q)) BY <1>3, TailInOrder
 <2> QED BY <1>1, <2>1
<1> QED BY <1>1, <1>2, <1>3

\* What is owed to one subscription.
OwedToOne(s) ==
    /\ ebOwed[s] = "yes" => OnItsWay(s)
    /\ ebOwed[s] = "crowded" => ebConn[s[1]].tables \ {s[2]} # {}

\* Whatever is lost, the last event of a table is not, unless other tables crowd its stream: see LossIsNotLast.
THEOREM EbLastIsTold == EbSizes => (EbSpec => []LossIsNotLast)
<1> SUFFICES ASSUME EbSizes PROVE EbSpec => []LossIsNotLast OBVIOUS
<1>1. EbInit => LossIsNotLast BY DEF EbInit, LossIsNotLast
<1>2. EbTypeOK /\ LineInv /\ LossIsNotLast /\ [EbNext]_ebVars => LossIsNotLast'
 <2> SUFFICES ASSUME EbTypeOK, LineInv, LossIsNotLast, [EbNext]_ebVars, NEW u \in Subscriptions
              PROVE  OwedToOne(u)' BY DEF LossIsNotLast, OwedToOne
 <2> USE EbSizes DEF EbSizes, EbTypeOK
 <2>a. OwedToOne(u) BY DEF LossIsNotLast, OwedToOne
 <2>b. TablesAsked BY DEF LineInv
 <2>c. PICK d \in Connections, k \in EbTables : u = <<d, k>> BY DEF Subscriptions
 <2>1. ASSUME NEW c \in Connections, Connect(c) PROVE OwedToOne(u)'
  <3>1. ebConn[c].tables = {} BY <2>1, <2>b DEF Connect, TablesAsked
  <3>2. ebConn[d].tables \subseteq ebConn'[d].tables BY <2>1, <3>1 DEF Connect
  <3> QED BY <2>a, <2>c, <2>1, <3>2 DEF Connect, OwedToOne, OnItsWay
 <2>2. ASSUME NEW c \in Connections, Write(c) PROVE OwedToOne(u)'
  <3>1. ebStream[c] \in Seq(Event) /\ ebStream[c] # <<>> /\ ebStream'[c] = Tail(ebStream[c])
    BY <2>2 DEF Write
  <3>2. TablesIn(ebStream[c]) = {Head(ebStream[c]).table} \cup TablesIn(ebStream'[c])
    BY <3>1, TablesOfAChannel
  <3>3. CASE u = <<c, Head(ebStream[c]).table>> BY <2>2, <3>3 DEF Write, OwedToOne
  <3>4. CASE u # <<c, Head(ebStream[c]).table>>
   <4>1. ebOwed'[u] = ebOwed[u] /\ UNCHANGED <<ebConn, ebChan, ebHand, ebPub>> BY <2>2, <3>4 DEF Write
   <4>2. k \in TablesIn(ebStream[d]) => k \in TablesIn(ebStream'[d]) BY <2>2, <2>c, <3>2, <3>4 DEF Write
   <4> QED BY <2>a, <2>c, <4>1, <4>2 DEF OwedToOne, OnItsWay
  <3> QED BY <3>3, <3>4
 <2>3. ASSUME NEW c \in Connections, Leave(c) PROVE OwedToOne(u)'
  <3>1. ebConn'[d].tables = ebConn[d].tables BY <2>3 DEF Leave
  <3> QED BY <2>a, <2>c, <2>3, <3>1 DEF Leave, OwedToOne, OnItsWay
 <2>4. ASSUME NEW s \in Subscriptions, Subscribe(s[1], s[2]) PROVE OwedToOne(u)'
  <3>1. ebConn'[d].tables = ebConn[d].tables BY <2>4 DEF Subscribe, Subscriptions
  <3> QED BY <2>a, <2>c, <2>4, <3>1 DEF Subscribe, OwedToOne, OnItsWay
 <2>5. ASSUME NEW s \in Subscriptions, Unsubscribe(s[1], s[2]) PROVE OwedToOne(u)'
   BY <2>a, <2>5 DEF Unsubscribe, OwedToOne, OnItsWay
 <2>6. ASSUME NEW s \in Subscriptions, Take(s) PROVE OwedToOne(u)'
  <3>1. ebHand'[s] # <<>> /\ UNCHANGED <<ebConn, ebStream, ebPub, ebOwed>> BY <2>6 DEF Take
  <3>2. u # s => ebChan'[u] = ebChan[u] /\ ebHand'[u] = ebHand[u] BY <2>6 DEF Take
  <3> QED BY <2>a, <3>1, <3>2 DEF OwedToOne, OnItsWay
 <2>7. ASSUME NEW s \in Subscriptions, Forward(s) PROVE OwedToOne(u)'
  <3>1. PICK c \in Connections, t \in EbTables : s = <<c, t>> BY DEF Subscriptions
  <3>2. ebHand[s][1] \in Event /\ ebStream[c] \in Seq(Event)
        /\ ebStream'[c] = Offer(ebStream[c], ebHand[s][1], EbStreamSize) BY <2>7, <3>1 DEF Forward
  <3>3. ebStream'[c] \in Seq(Event) /\ ebStream'[c] # <<>> /\ TablesIn(ebStream[c]) \subseteq TablesIn(ebStream'[c])
    BY <3>2, OfferLeavesSomething, TablesOfAChannel
  <3>4. CASE u = s
   <4>1. ebOwed'[s] = IF ebOwed[s] = "no" THEN "no" ELSE IF t \in TablesIn(ebStream'[c]) THEN "yes" ELSE "crowded"
     BY <2>7, <3>1 DEF Forward
   <4>2. ASSUME ebOwed'[s] = "crowded" PROVE ebConn'[c].tables \ {t} # {}
    <5>1. t \notin TablesIn(ebStream'[c]) /\ ebConn' = ebConn BY <2>7, <4>1, <4>2 DEF Forward
    <5>2. PICK e \in Rng(ebStream'[c]) : TRUE BY <3>3, TailInOrder
    <5>3. e.table # t BY <3>3, <5>1, <5>2, TablesOfAChannel
    <5>4. ebHand[s][1] \in Waiting(s) BY <2>7 DEF Forward, Waiting, Rng
    <5>5. e \in Reached(c) \cup {ebHand[s][1]}
     <6>1. Rng(Offer(ebStream[c], ebHand[s][1], EbStreamSize)) \subseteq Rng(ebStream[c]) \cup {ebHand[s][1]}
      <7>1. \A q \in Seq(Event), f \in Event : Rng(Offer(q, f, EbStreamSize)) \subseteq Rng(q) \cup {f}
        BY OfferInOrder
      <7> QED BY <3>2, <7>1
     <6> QED BY <3>2, <5>2, <6>1 DEF Reached
    <5>6. e.table \in ebConn[c].tables BY <2>b, <3>1, <5>3, <5>4, <5>5 DEF TablesAsked
    <5> QED BY <5>1, <5>3, <5>6
   <4> QED BY <3>1, <3>4, <4>1, <4>2 DEF OwedToOne, OnItsWay
  <3>5. CASE u # s
   <4>1. ebOwed'[u] = ebOwed[u] /\ ebHand'[u] = ebHand[u] /\ UNCHANGED <<ebConn, ebChan, ebPub>>
     BY <2>7, <3>5 DEF Forward
   <4>2. TablesIn(ebStream[d]) \subseteq TablesIn(ebStream'[d]) BY <2>7, <3>1, <3>3 DEF Forward
   <4> QED BY <2>a, <2>c, <4>1, <4>2 DEF OwedToOne, OnItsWay
  <3> QED BY <3>4, <3>5
 <2>8. ASSUME NEW t \in EbTables, Publish(t) PROVE OwedToOne(u)'
  <3>1. UNCHANGED <<ebConn, ebChan, ebHand, ebStream>> /\ ebPub \subseteq ebPub' BY <2>8 DEF Publish
  <3>2. CASE u \notin Subscribers(t)
   <4>1. ebOwed'[u] = ebOwed[u] BY <2>8, <3>2 DEF Publish
   <4> QED BY <2>a, <3>1, <4>1 DEF OwedToOne, OnItsWay
  <3>3. CASE u \in Subscribers(t)
   <4> DEFINE new == [event |-> [id |-> ebCount + 1, table |-> t, after |-> Published], targets |-> Subscribers(t)]
   <4>1. new \in ebPub' /\ new.targets = Subscribers(t) BY <2>8, <3>3 DEF Publish
   <4>2. ebOwed'[u] = "yes" BY <2>8, <3>3 DEF Publish
   <4> HIDE DEF new
   <4> QED BY <3>3, <4>1, <4>2 DEF OwedToOne, OnItsWay
  <3> QED BY <3>2, <3>3
 <2>9. ASSUME NEW p \in ebPub, NEW s \in Subscriptions, Send(p, s) PROVE OwedToOne(u)'
  <3>1. ebChan'[s] # <<>> /\ (u # s => ebChan'[u] = ebChan[u]) BY <2>9, OfferLeavesSomething DEF Send
  <3>2. UNCHANGED <<ebConn, ebHand, ebStream, ebOwed>> BY <2>9 DEF Send
  <3>3. ASSUME NEW q \in ebPub, u \in q.targets, u # s PROVE \E r \in ebPub' : u \in r.targets
   <4>1. CASE q # p BY <2>9, <3>3, <4>1 DEF Send
   <4>2. CASE q = p
    <5> DEFINE rest == [p EXCEPT !.targets = @ \ {s}]
    <5>1. p.targets # {s} /\ rest \in ebPub' BY <2>9, <3>3, <4>2 DEF Send
    <5>2. p \in [event : Event, targets : SUBSET Subscriptions] OBVIOUS
    <5>3. rest.targets = p.targets \ {s} BY <5>2
    <5>4. u \in rest.targets BY <3>3, <4>2, <5>3
    <5> HIDE DEF rest
    <5> QED BY <5>1, <5>4
   <4> QED BY <4>1, <4>2
  <3>4. OnItsWay(u) => OnItsWay(u)' BY <3>1, <3>2, <3>3 DEF OnItsWay
  <3> QED BY <2>a, <3>2, <3>4 DEF OwedToOne
 <2>10. CASE UNCHANGED ebVars BY <2>a, <2>10 DEF ebVars, OwedToOne, OnItsWay
 <2> QED BY <2>1, <2>2, <2>3, <2>4, <2>5, <2>6, <2>7, <2>8, <2>9, <2>10 DEF EbNext
<1> QED BY <1>1, <1>2, EbTypes, EbInLine, PTL DEF EbSpec

\* Both at once.
THEOREM EbTold == EbSizes => (EbSpec => []EbTellsTheLast)
<1>1. EbTellsTheLast <=> LossIsNotLast /\ ArrivesInOrder BY DEF EbTellsTheLast
<1> QED BY <1>1, EbLastIsTold, EbInOrder, PTL
-----------------------------------------------------------------------------
(* The metadata cache: the types and MeServedIsRecent, for any number of processes and readers and any times. *)

\* What the theorems assume: times and bounds are natural numbers.
MeSizes == MeTTL \in Nat /\ MeMaxDelay \in Nat /\ MeMaxTime \in Nat /\ MeMaxChanges \in Nat

\* A change can be committed.
ChangeCounted == meChange.pc # "none" => meDb < MeMaxChanges

\* What a reader has read was committed when it began or later.
LoadRecent(r) ==
    meLoad[r].pc # "idle" =>
        /\ meLoad[r].began <= meNow /\ meNow <= meLoad[r].began + MeMaxDelay
        /\ Recent(meLoad[r].first, meLoad[r].began)
        /\ meLoad[r].pc = "second" => Recent(meLoad[r].second, meLoad[r].began)

\* What is stored was committed at most one load before it was stored.
EntryRecent(p) ==
    meCache[p].has =>
        /\ meCache[p].at <= meNow
        /\ Recent(meCache[p].first, meCache[p].at - MeMaxDelay)
        /\ Recent(meCache[p].second, meCache[p].at - MeMaxDelay)

AllRecent == (\A r \in MeReaders : LoadRecent(r)) /\ (\A p \in MeProcesses : EntryRecent(p))

\* In a process that was not caught, what is read and what is stored are the committed version; and
\* between the invalidation and the commit its cache is empty unless a reader has stored.
LoadCurrent(r) ==
    meLoad[r].pc # "idle" /\ meLoad[r].by \notin meCaught =>
        meLoad[r].first = meDb /\ (meLoad[r].pc = "second" => meLoad[r].second = meDb)
EmptyTillStored == meChange.pc = "invalidated" /\ ~meChange.stored => ~meCache[meChange.by].has
NotCaughtCurrent == (\A r \in MeReaders : LoadCurrent(r)) /\ TakesEffect /\ EmptyTillStored

Entries == [has : BOOLEAN, first : Versions, second : Versions, at : 0..MeMaxTime]
Loads == [pc : {"idle", "first", "second"}, by : MeProcesses, first : Versions, second : Versions, began : 0..MeMaxTime]

\* The records the actions make have their types.
LEMMA NewRecords ==
  ASSUME MeSizes, MeTypeOK
  PROVE  /\ NoEntry \in Entries
         /\ \A load \in Loads : Stored(load) \in Entries
         /\ \A p \in MeProcesses : NoLoad(p) \in Loads
         /\ \A p \in MeProcesses : [pc |-> "first", by |-> p, first |-> meDb, second |-> 0, began |-> meNow] \in Loads
BY DEF MeSizes, MeTypeOK, Entries, Loads, NoEntry, Stored, NoLoad, Versions

\* The variables keep their types.
THEOREM MeTypes == MeSizes => (MeSpec => [](MeTypeOK /\ ChangeCounted))
<1> SUFFICES ASSUME MeSizes PROVE MeSpec => [](MeTypeOK /\ ChangeCounted) OBVIOUS
<1> USE DEF MeSizes, MeTypeOK, ChangeCounted, Versions, Never
<1>1. MeInit => MeTypeOK /\ ChangeCounted BY DEF MeInit, NoEntry, NoLoad
<1>2. MeTypeOK /\ ChangeCounted /\ [MeNext]_meVars => (MeTypeOK /\ ChangeCounted)'
 <2> SUFFICES ASSUME MeTypeOK, ChangeCounted, [MeNext]_meVars PROVE (MeTypeOK /\ ChangeCounted)' OBVIOUS
 <2>1. ASSUME NEW r \in MeReaders, NEW p \in MeProcesses, LoadFirst(r, p) PROVE (MeTypeOK /\ ChangeCounted)'
   BY <2>1, NewRecords DEF LoadFirst, Loads
 <2>2. ASSUME NEW r \in MeReaders, LoadSecond(r) PROVE (MeTypeOK /\ ChangeCounted)'
   BY <2>2, ZenonT(60) DEF LoadSecond
 <2>3. ASSUME NEW r \in MeReaders, Store(r) PROVE (MeTypeOK /\ ChangeCounted)'
  <3>1. Stored(meLoad[r]) \in Entries /\ meLoad[r].by \in MeProcesses /\ NoLoad(meLoad[r].by) \in Loads
    BY NewRecords DEF Loads
  <3> QED BY <2>3, <3>1 DEF Store, Entries, Loads
 <2>4. ASSUME NEW r \in MeReaders, LoadFails(r) PROVE (MeTypeOK /\ ChangeCounted)'
   BY <2>4, SMTT(60) DEF LoadFails, NoLoad
 <2>5. ASSUME NEW p \in MeProcesses, CleanUp(p) PROVE (MeTypeOK /\ ChangeCounted)'
   BY <2>5 DEF CleanUp, NoEntry
 <2>6. ASSUME NEW p \in MeProcesses, Change(p) PROVE (MeTypeOK /\ ChangeCounted)' BY <2>6 DEF Change
 <2>7. CASE Invalidate
  <3>1. NoEntry \in Entries BY NewRecords
  <3>2. meCache' \in [MeProcesses -> Entries] BY <2>7, <3>1 DEF Invalidate, Entries
  <3>3. meChange' \in [pc : {"none", "written", "invalidated"}, by : MeProcesses, stored : BOOLEAN] /\ meChange'.pc = "invalidated" /\ meChange.pc # "none"
    BY <2>7 DEF Invalidate
  <3> QED BY <2>7, <3>2, <3>3 DEF Invalidate, Entries
 <2>8. CASE Commit
  <3>1. meChange.pc # "none" /\ meDb + 1 \in Versions BY <2>8 DEF Commit
  <3>2. meChange' \in [pc : {"none", "written", "invalidated"}, by : MeProcesses, stored : BOOLEAN] /\ meChange'.pc = "none"
    BY <2>8 DEF Commit
  <3>3. meUntil' \in [Versions -> 0..Never] BY <2>8 DEF Commit
  <3>4. meCaught' \subseteq MeProcesses BY <2>8 DEF Commit
  <3> QED BY <2>8, <3>1, <3>2, <3>3, <3>4 DEF Commit
 <2>9. CASE Rollback BY <2>9 DEF Rollback
 <2>10. CASE Tick BY <2>10 DEF Tick
 <2>11. CASE UNCHANGED meVars BY <2>11 DEF meVars
 <2> QED BY <2>1, <2>2, <2>3, <2>4, <2>5, <2>6, <2>7, <2>8, <2>9, <2>10, <2>11 DEF MeNext
<1> QED BY <1>1, <1>2, PTL DEF MeSpec

\* Until when a version was the committed one.
LEMMA VersionTimes ==
  ASSUME MeSizes, MeTypeOK
  PROVE  \A v \in Versions : meUntil[v] \in Int BY DEF MeSizes, MeTypeOK, Never

\* What a process serves is no older than an entry and a load together: see ServedIsRecent.
THEOREM MeRecent == MeSizes => (MeSpec => []ServedIsRecent)
<1> SUFFICES ASSUME MeSizes PROVE MeSpec => []ServedIsRecent OBVIOUS
<1>1. MeInit => AllRecent BY DEF MeInit, AllRecent, LoadRecent, EntryRecent, NoEntry, NoLoad
<1>2. MeTypeOK /\ AllRecent => ServedIsRecent
 <2> SUFFICES ASSUME MeTypeOK, AllRecent, NEW p \in MeProcesses, Fresh(meCache[p])
              PROVE  LET since == meNow - MeTTL - MeMaxDelay + 1
                     IN  Recent(meCache[p].first, since) /\ Recent(meCache[p].second, since)
   BY DEF ServedIsRecent
 <2>1. meCache[p] \in Entries /\ EntryRecent(p) /\ meNow \in Int /\ \A v \in Versions : meUntil[v] \in Int
   BY VersionTimes DEF MeTypeOK, Entries, AllRecent
 <2>2. meCache[p].at - MeMaxDelay >= meNow - MeTTL - MeMaxDelay + 1 BY <2>1 DEF Fresh, Entries, MeSizes
 <2> QED BY <2>1, <2>2 DEF EntryRecent, Fresh, Recent, Entries, MeSizes
<1>3. MeTypeOK /\ AllRecent /\ MeTypeOK' /\ [MeNext]_meVars => AllRecent'
 <2> SUFFICES ASSUME MeTypeOK, AllRecent, MeTypeOK', [MeNext]_meVars PROVE AllRecent' OBVIOUS
 <2> USE DEF MeSizes
 <2>0. /\ meNow \in Int /\ meNow' \in Int /\ meDb \in Nat
       /\ \A v \in Versions : meUntil[v] \in Int
       /\ \A r \in MeReaders : meLoad[r] \in Loads /\ LoadRecent(r)
       /\ \A p \in MeProcesses : meCache[p] \in Entries /\ EntryRecent(p)
  <3>1. meNow \in Int /\ meNow' \in Int /\ meDb \in Nat BY DEF MeTypeOK, Versions
  <3> QED BY <3>1, VersionTimes DEF MeTypeOK, Loads, Entries, AllRecent
 <2>1. ASSUME UNCHANGED <<meDb, meUntil, meNow>>,
              \A r \in MeReaders : meLoad'[r] = meLoad[r] \/ LoadRecent(r)',
              \A p \in MeProcesses : meCache'[p] = meCache[p] \/ EntryRecent(p)'
       PROVE  AllRecent'
  <3>1. ASSUME NEW r \in MeReaders PROVE LoadRecent(r)' BY <2>0, <2>1 DEF LoadRecent, Recent
  <3>2. ASSUME NEW p \in MeProcesses PROVE EntryRecent(p)' BY <2>0, <2>1 DEF EntryRecent, Recent
  <3> QED BY <3>1, <3>2 DEF AllRecent
 <2>2. ASSUME NEW r \in MeReaders, NEW p \in MeProcesses, LoadFirst(r, p) PROVE AllRecent'
  <3>1. meLoad'[r] = [pc |-> "first", by |-> p, first |-> meDb, second |-> 0, began |-> meNow]
    BY <2>2 DEF LoadFirst, MeTypeOK
  <3>2. \A q \in MeReaders : meLoad'[q] = meLoad[q] \/ LoadRecent(q)'
    BY <2>0, <2>2, <3>1 DEF LoadFirst, LoadRecent, Recent, MeTypeOK
  <3> QED BY <2>1, <2>2, <3>2 DEF LoadFirst
 <2>3. ASSUME NEW r \in MeReaders, LoadSecond(r) PROVE AllRecent'
  <3>1. meLoad'[r] = [meLoad[r] EXCEPT !.pc = "second", !.second = meDb] BY <2>3 DEF LoadSecond, MeTypeOK
  <3>2. LoadRecent(r)'
   <4>1. /\ meLoad[r].pc = "first" /\ UNCHANGED <<meDb, meUntil, meNow>>
         /\ meLoad'[r].began = meLoad[r].began /\ meLoad'[r].first = meLoad[r].first
         /\ meLoad'[r].second = meDb BY <2>0, <2>3, <3>1, ZenonT(60) DEF LoadSecond, Loads
   <4> QED BY <2>0, <4>1 DEF LoadRecent, Recent
  <3>3. \A q \in MeReaders : meLoad'[q] = meLoad[q] \/ LoadRecent(q)' BY <2>3, <3>2 DEF LoadSecond, MeTypeOK
  <3> QED BY <2>1, <2>3, <3>3 DEF LoadSecond
 <2>4. ASSUME NEW r \in MeReaders, Store(r) PROVE AllRecent'
  <3>0. PICK p \in MeProcesses : p = meLoad[r].by BY <2>0 DEF Loads
  <3>1. p = meLoad[r].by /\ meLoad[r].pc = "second" BY <2>4, <3>0 DEF Store
  <3>2. meCache'[p] = Stored(meLoad[r]) /\ meLoad'[r] = NoLoad(p) BY <2>4, <3>0 DEF Store, MeTypeOK
  <3>3. Recent(meLoad[r].first, meNow - MeMaxDelay) /\ Recent(meLoad[r].second, meNow - MeMaxDelay)
    BY <2>0, <3>1 DEF LoadRecent, Recent, Loads
  <3>4. UNCHANGED <<meDb, meUntil, meNow>> BY <2>4 DEF Store
  <3>5. EntryRecent(p)'
   <4>1. /\ meCache'[p].at = meNow /\ meCache'[p].first = meLoad[r].first
         /\ meCache'[p].second = meLoad[r].second BY <3>2 DEF Stored
   <4> QED BY <2>0, <3>3, <3>4, <4>1 DEF EntryRecent, Recent
  <3>6. LoadRecent(r)' BY <3>2 DEF LoadRecent, NoLoad
  <3>7. /\ \A q \in MeReaders : meLoad'[q] = meLoad[q] \/ LoadRecent(q)'
        /\ \A q \in MeProcesses : meCache'[q] = meCache[q] \/ EntryRecent(q)'
   <4>1. \A q \in MeReaders : meLoad'[q] = meLoad[q] \/ LoadRecent(q)' BY <2>4, <3>6 DEF Store, MeTypeOK
   <4>2. \A q \in MeProcesses : q # p => meCache'[q] = meCache[q] BY <2>4, <3>0 DEF Store, MeTypeOK
   <4> QED BY <3>5, <4>1, <4>2
  <3> QED BY <2>1, <3>4, <3>7
 <2>5. ASSUME NEW r \in MeReaders, LoadFails(r) PROVE AllRecent'
  <3>1. LoadRecent(r)' BY <2>5 DEF LoadFails, LoadRecent, NoLoad, MeTypeOK
  <3>2. \A q \in MeReaders : meLoad'[q] = meLoad[q] \/ LoadRecent(q)' BY <2>5, <3>1 DEF LoadFails, MeTypeOK
  <3> QED BY <2>1, <2>5, <3>2 DEF LoadFails
 <2>6. ASSUME NEW p \in MeProcesses, CleanUp(p) PROVE AllRecent'
  <3>1. EntryRecent(p)' BY <2>6 DEF CleanUp, EntryRecent, NoEntry, MeTypeOK
  <3>2. \A q \in MeProcesses : meCache'[q] = meCache[q] \/ EntryRecent(q)'
    BY <2>6, <3>1 DEF CleanUp, MeTypeOK
  <3> QED BY <2>1, <2>6, <3>2 DEF CleanUp
 <2>7. ASSUME NEW p \in MeProcesses, Change(p) PROVE AllRecent' BY <2>1, <2>7 DEF Change
 <2>8. CASE Invalidate
  <3>1. EntryRecent(meChange.by)' BY <2>8 DEF Invalidate, EntryRecent, NoEntry, MeTypeOK
  <3>2. \A q \in MeProcesses : meCache'[q] = meCache[q] \/ EntryRecent(q)'
    BY <2>8, <3>1 DEF Invalidate, MeTypeOK
  <3> QED BY <2>1, <2>8, <3>2 DEF Invalidate
 <2>9. CASE Commit
  <3>1. ASSUME NEW v \in Versions, NEW since \in Int, since <= meNow, Recent(v, since)
        PROVE  Recent(v, since)' BY <2>0, <2>9, <3>1 DEF Commit, Recent, MeTypeOK
  <3>2. UNCHANGED <<meLoad, meCache, meNow>> BY <2>9 DEF Commit
  <3>3. ASSUME NEW r \in MeReaders PROVE LoadRecent(r)' BY <2>0, <3>1, <3>2 DEF LoadRecent, Loads
  <3>4. ASSUME NEW p \in MeProcesses PROVE EntryRecent(p)'
   <4>1. meCache[p].has => meCache[p].at - MeMaxDelay <= meNow /\ meCache[p].at - MeMaxDelay \in Int
     BY <2>0 DEF EntryRecent, Entries
   <4> QED BY <2>0, <3>1, <3>2, <4>1 DEF EntryRecent, Entries
  <3> QED BY <3>3, <3>4 DEF AllRecent
 <2>10. CASE Rollback BY <2>1, <2>10 DEF Rollback
 <2>11. CASE Tick
  <3>1. UNCHANGED <<meDb, meUntil, meLoad, meCache>> /\ meNow' = meNow + 1 BY <2>11 DEF Tick
  <3>2. ASSUME NEW r \in MeReaders PROVE LoadRecent(r)'
    BY <2>0, <2>11, <3>1 DEF Tick, LoadRecent, Recent, Loads
  <3>3. ASSUME NEW p \in MeProcesses PROVE EntryRecent(p)' BY <2>0, <3>1 DEF EntryRecent, Recent, Entries
  <3> QED BY <3>2, <3>3 DEF AllRecent
 <2>12. CASE UNCHANGED meVars BY <2>1, <2>12 DEF meVars
 <2> QED BY <2>2, <2>3, <2>4, <2>5, <2>6, <2>7, <2>8, <2>9, <2>10, <2>11, <2>12 DEF MeNext
<1> QED BY <1>1, <1>2, <1>3, MeTypes, PTL DEF MeSpec

\* A change takes effect at once where no reader overlapped it: see TakesEffect.
THEOREM MeTakesEffect == MeSizes => (MeSpec => []TakesEffect)
<1> SUFFICES ASSUME MeSizes PROVE MeSpec => []TakesEffect OBVIOUS
<1>1. MeInit => NotCaughtCurrent
  BY DEF MeInit, NotCaughtCurrent, LoadCurrent, TakesEffect, EmptyTillStored, NoEntry, NoLoad
<1>2. NotCaughtCurrent => TakesEffect BY DEF NotCaughtCurrent
<1>3. MeTypeOK /\ NotCaughtCurrent /\ [MeNext]_meVars => NotCaughtCurrent'
 <2> SUFFICES ASSUME MeTypeOK, NotCaughtCurrent, [MeNext]_meVars PROVE NotCaughtCurrent' OBVIOUS
 <2>0. /\ \A q \in MeReaders : meLoad[q] \in Loads /\ LoadCurrent(q)
       /\ \A p \in MeProcesses : meCache[p] \in Entries
       /\ meChange.by \in MeProcesses /\ TakesEffect /\ EmptyTillStored
   BY DEF MeTypeOK, NotCaughtCurrent, Loads, Entries
 <2>1. ASSUME UNCHANGED <<meDb, meCaught, meCache, meChange>>, \A q \in MeReaders : meLoad'[q] = meLoad[q] \/ LoadCurrent(q)'
       PROVE  NotCaughtCurrent' BY <2>0, <2>1 DEF NotCaughtCurrent, LoadCurrent, TakesEffect, EmptyTillStored
 <2>2. ASSUME NEW r \in MeReaders, NEW p \in MeProcesses, LoadFirst(r, p) PROVE NotCaughtCurrent'
  <3>1. meLoad'[r] = [pc |-> "first", by |-> p, first |-> meDb, second |-> 0, began |-> meNow]
    BY <2>2 DEF LoadFirst, MeTypeOK
  <3>2. \A q \in MeReaders : meLoad'[q] = meLoad[q] \/ LoadCurrent(q)'
    BY <2>2, <3>1 DEF LoadFirst, LoadCurrent, MeTypeOK
  <3> QED BY <2>1, <2>2, <3>2 DEF LoadFirst
 <2>3. ASSUME NEW r \in MeReaders, LoadSecond(r) PROVE NotCaughtCurrent'
  <3>1. /\ meLoad[r].pc = "first" /\ meLoad'[r].by = meLoad[r].by
        /\ meLoad'[r].first = meLoad[r].first /\ meLoad'[r].second = meDb
    BY <2>0, <2>3 DEF LoadSecond, MeTypeOK, Loads
  <3>2. UNCHANGED <<meDb, meCaught, meCache, meChange>> BY <2>3 DEF LoadSecond
  <3>3. LoadCurrent(r)' BY <2>0, <3>1, <3>2 DEF LoadCurrent
  <3>4. \A q \in MeReaders : meLoad'[q] = meLoad[q] \/ LoadCurrent(q)'
    BY <2>3, <3>3 DEF LoadSecond, MeTypeOK
  <3> QED BY <2>1, <3>2, <3>4
 <2>4. ASSUME NEW r \in MeReaders, Store(r) PROVE NotCaughtCurrent'
  <3>0. PICK p \in MeProcesses : p = meLoad[r].by BY <2>0 DEF Loads
  <3>1. /\ meLoad[r].pc = "second"
        /\ meCache'[p].first = meLoad[r].first /\ meCache'[p].second = meLoad[r].second
        /\ meLoad'[r].pc = "idle" BY <2>4, <3>0 DEF Store, Stored, NoLoad, MeTypeOK
  <3>2. /\ \A q \in MeProcesses : q # p => meCache'[q] = meCache[q]
        /\ \A q \in MeReaders : q # r => meLoad'[q] = meLoad[q] BY <2>4, <3>0 DEF Store, MeTypeOK
  <3>3. /\ UNCHANGED <<meDb, meCaught>> /\ meChange'.pc = meChange.pc /\ meChange'.by = meChange.by
        /\ meChange'.stored = (meChange.stored \/ p = meChange.by) BY <2>4, <3>0 DEF Store, MeTypeOK
  <3>4. \A q \in MeReaders : LoadCurrent(q)' BY <2>0, <3>1, <3>2, <3>3 DEF LoadCurrent
  <3>5. TakesEffect' BY <2>0, <3>0, <3>1, <3>2, <3>3 DEF TakesEffect, LoadCurrent
  <3>6. EmptyTillStored'
   <4> SUFFICES ASSUME meChange'.pc = "invalidated", ~meChange'.stored PROVE ~meCache'[meChange'.by].has
     BY DEF EmptyTillStored
   <4>1. meChange.pc = "invalidated" /\ ~meChange.stored /\ p # meChange.by BY <3>3, Zenon
   <4>2. ~meCache[meChange.by].has /\ meCache'[meChange.by] = meCache[meChange.by]
     BY <2>0, <3>2, <4>1 DEF EmptyTillStored
   <4> QED BY <3>3, <4>2
  <3> QED BY <3>4, <3>5, <3>6 DEF NotCaughtCurrent
 <2>5. ASSUME NEW r \in MeReaders, LoadFails(r) PROVE NotCaughtCurrent'
  <3>1. LoadCurrent(r)' BY <2>5 DEF LoadFails, LoadCurrent, NoLoad, MeTypeOK
  <3>2. \A q \in MeReaders : meLoad'[q] = meLoad[q] \/ LoadCurrent(q)' BY <2>5, <3>1 DEF LoadFails, MeTypeOK
  <3> QED BY <2>1, <2>5, <3>2 DEF LoadFails
 <2>6. ASSUME NEW p \in MeProcesses, CleanUp(p) PROVE NotCaughtCurrent'
  <3>1. \A q \in MeProcesses : meCache'[q] = meCache[q] \/ ~meCache'[q].has
    BY <2>6 DEF CleanUp, NoEntry, MeTypeOK
  <3>2. UNCHANGED <<meDb, meCaught, meLoad, meChange>> BY <2>6 DEF CleanUp
  <3> QED BY <2>0, <3>1, <3>2 DEF NotCaughtCurrent, LoadCurrent, TakesEffect, EmptyTillStored
 <2>7. ASSUME NEW p \in MeProcesses, Change(p) PROVE NotCaughtCurrent'
   BY <2>0, <2>7 DEF Change, NotCaughtCurrent, LoadCurrent, TakesEffect, EmptyTillStored
 <2>8. CASE Invalidate
  <3> DEFINE p == meChange.by
  <3>1. ~meCache'[p].has /\ meChange'.by = p /\ UNCHANGED <<meDb, meLoad>>
    BY <2>0, <2>8 DEF Invalidate, NoEntry, MeTypeOK
  <3>2. \A q \in MeProcesses : q # p => meCache'[q] = meCache[q] BY <2>8 DEF Invalidate, MeTypeOK
  <3>3. \A q \in MeReaders : LoadCurrent(q)' BY <2>0, <2>8, <3>1 DEF Invalidate, Busy, LoadCurrent, Loads
  <3>4. TakesEffect' BY <2>0, <2>8, <3>1, <3>2 DEF Invalidate, TakesEffect
  <3>5. EmptyTillStored' BY <3>1 DEF EmptyTillStored
  <3> QED BY <3>3, <3>4, <3>5 DEF NotCaughtCurrent
 <2>9. CASE Commit
  <3>1. meChange'.pc = "none" /\ UNCHANGED <<meLoad, meCache>> BY <2>9 DEF Commit, MeTypeOK
  <3>2. ASSUME NEW p \in MeProcesses, p \notin meCaught'
        PROVE  ~Busy(p) /\ ~meCache[p].has BY <2>0, <2>9, <3>2 DEF Commit, EmptyTillStored
  <3>3. \A q \in MeReaders : LoadCurrent(q)' BY <2>0, <3>1, <3>2 DEF LoadCurrent, Busy, Loads
  <3>4. TakesEffect' /\ EmptyTillStored' BY <3>1, <3>2 DEF TakesEffect, EmptyTillStored
  <3> QED BY <3>3, <3>4 DEF NotCaughtCurrent
 <2>10. CASE Rollback
   BY <2>0, <2>10 DEF Rollback, NotCaughtCurrent, LoadCurrent, TakesEffect, EmptyTillStored, MeTypeOK
 <2>11. CASE Tick BY <2>1, <2>11 DEF Tick
 <2>12. CASE UNCHANGED meVars BY <2>1, <2>12 DEF meVars
 <2> QED BY <2>2, <2>3, <2>4, <2>5, <2>6, <2>7, <2>8, <2>9, <2>10, <2>11, <2>12 DEF MeNext
<1> QED BY <1>1, <1>2, <1>3, MeTypes, PTL DEF MeSpec

\* Both: what is served is recent, and a change of metadata takes effect in its process.
THEOREM MeServed == MeSizes => (MeSpec => []MeServedIsRecent)
<1> SUFFICES ASSUME MeSizes PROVE MeSpec => []MeServedIsRecent OBVIOUS
<1>1. ServedIsRecent /\ TakesEffect => MeServedIsRecent BY DEF MeServedIsRecent
<1> QED BY <1>1, MeRecent, MeTakesEffect, PTL
-----------------------------------------------------------------------------
(* The rate limits, for any number of requests, any limit and window and any delay. *)

\* What the theorem assumes: a window fits in the times looked at, and lists are kept for two windows and a delay,
\* which 24 hours are for every window a table of routes would name (they are in minutes; 12 hours would be too long).
RlSizes ==
    /\ RlLimit \in Nat /\ RlWindow \in Nat \ {0} /\ RlMaxDelay \in Nat /\ RlMaxTime \in Nat /\ RlMaxCounted \in Nat
    /\ RlWindow <= RlMaxTime
    /\ RlCleanAge \in Nat /\ RlCleanAge >= 2 * RlWindow + RlMaxDelay

\* The stamps are taken before the clock shows now, and those of waiting requests not long before.
StampsAreRecent ==
    /\ \A i \in DOMAIN rlLog : rlLog[i].stamp <= rlNow
    /\ \A r \in RlRequests : rlJob[r] # <<>> => rlJob[r][1] <= rlNow /\ rlNow <= rlJob[r][1] + RlMaxDelay

\* Route: the list holds every request of the last window ...
ListIsComplete == \A i \in DOMAIN rlLog : rlLog[i].stamp + RlWindow > rlNow => i \in rlTimes
\* ... and is of one window before its last request, from which no request is far.
ListIsOfAWindow ==
    /\ rlTimes \subseteq DOMAIN rlLog
    /\ \A i \in rlTimes : rlLog[i].stamp + RlWindow > rlLog[Len(rlLog)].stamp
    /\ \A i \in DOMAIN rlLog : rlLog[i].stamp <= rlLog[Len(rlLog)].stamp + RlMaxDelay

\* The admitted and refused requests before the present window.
EarlierOnes == {i \in DOMAIN rlLog : i <= Len(rlLog) - rlEntry[1].count}
\* Sign-in and firewall: the requests of the present window are the last ones, and the first of them are admitted.
WindowIsTheEnd ==
    LET e == rlEntry[1]
    IN  /\ e.count <= Len(rlLog) /\ e.start <= rlNow
        /\ \A i \in DOMAIN rlLog :
              IF i \in EarlierOnes THEN rlLog[i].stamp <= e.start
              ELSE rlLog[i].stamp >= e.start /\ (rlLog[i].ok <=> i <= (Len(rlLog) - e.count) + RlLimit)
\* Those before it that are near are of one window.
WindowBefore == Cardinality({i \in EarlierOnes : rlLog[i].ok /\ rlLog[i].stamp + RlWindow > rlEntry[1].start}) <= RlLimit

RlInv ==
    /\ RlTypeOK /\ Len(rlLog) <= RlMaxCounted /\ StampsAreRecent
    /\ rlKind = "route" => rlEntry = <<>> /\ ListIsComplete /\ ListIsOfAWindow
    /\ rlKind # "route" =>
          /\ rlTimes = {} /\ rlJob = [r \in RlRequests |-> <<>>]
          /\ rlEntry = <<>> => rlLog = <<>>
          /\ rlEntry # <<>> => WindowIsTheEnd /\ WindowBefore
    /\ RlLimitsHold

\* An element of a sequence.
LEMMA OfASequence ==
    ASSUME NEW S, NEW s \in Seq(S), NEW i \in DOMAIN s
    PROVE  s[i] \in S /\ Len(s) \in Nat /\ DOMAIN s = 1..Len(s) OBVIOUS

\* The types, as numbers.
LEMMA RlTyped ==
    ASSUME RlSizes, RlTypeOK
    PROVE  /\ rlNow \in Nat /\ rlNow <= RlMaxTime
           /\ Len(rlLog) \in Nat /\ DOMAIN rlLog = 1..Len(rlLog)
           /\ \A i \in DOMAIN rlLog : rlLog[i].stamp \in Nat /\ rlLog[i].stamp <= RlMaxTime
           /\ rlEntry # <<>> => rlEntry[1].count \in Nat \ {0} /\ rlEntry[1].start \in Nat
 <1>1. \A i \in DOMAIN rlLog : rlLog[i] \in [stamp : 0..RlMaxTime, ok : BOOLEAN]
  <2>1. rlLog \in Seq([stamp : 0..RlMaxTime, ok : BOOLEAN]) BY DEF RlTypeOK
  <2> QED BY <2>1, OfASequence
 <1>2. rlEntry # <<>> => rlEntry[1] \in [count : 1..RlMaxCounted, start : 0..RlMaxTime]
  <2>1. rlEntry \in Seq([count : 1..RlMaxCounted, start : 0..RlMaxTime]) BY DEF RlTypeOK
  <2>2. rlEntry # <<>> => 1 \in DOMAIN rlEntry BY <2>1
  <2> QED BY <2>1, <2>2, OfASequence
 <1>3. 0..RlMaxTime \subseteq Nat /\ 1..RlMaxCounted \subseteq Nat \ {0} /\ \A t \in 0..RlMaxTime : t <= RlMaxTime
   BY DEF RlSizes
 <1>4. /\ \A i \in DOMAIN rlLog : rlLog[i].stamp \in 0..RlMaxTime
       /\ rlEntry # <<>> => rlEntry[1].count \in 1..RlMaxCounted /\ rlEntry[1].start \in 0..RlMaxTime
   BY <1>1, <1>2
 <1>5. Len(rlLog) \in Nat /\ DOMAIN rlLog = 1..Len(rlLog) /\ rlNow \in 0..RlMaxTime BY DEF RlTypeOK
 <1> QED BY <1>3, <1>4, <1>5

\* Taking a stamp and the clock change neither list nor window.
LEMMA StampAndTick ==
    ASSUME RlSizes, RlInv, (\E r \in RlRequests : Stamp(r)) \/ RlTick \/ UNCHANGED rlVars
    PROVE  RlInv'
 <1>1. rlTimes' = rlTimes /\ rlLog' = rlLog /\ rlEntry' = rlEntry /\ rlKind' = rlKind
   BY DEF Stamp, RlTick, rlVars
 <1>2. rlNow' >= rlNow /\ rlNow' \in 0..RlMaxTime /\ rlNow \in 0..RlMaxTime
   BY DEF Stamp, RlTick, rlVars, RlInv, RlTypeOK, RlSizes
 <1>0. /\ \A i \in DOMAIN rlLog : rlLog[i].stamp \in Nat
       /\ rlEntry # <<>> => rlEntry[1].start \in Nat BY RlTyped DEF RlInv
 <1>3. rlJob' \in [RlRequests -> Seq(0..RlMaxTime)]
       /\ \A r \in RlRequests : rlJob'[r] # <<>> => rlJob'[r][1] <= rlNow' /\ rlNow' <= rlJob'[r][1] + RlMaxDelay
  <2>1. CASE RlTick
   <3>1. rlJob' = rlJob /\ rlNow' = rlNow + 1 /\ \A r \in RlRequests : rlJob[r] # <<>> => rlNow - rlJob[r][1] < RlMaxDelay
     BY <2>1 DEF RlTick
   <3>2. rlJob \in [RlRequests -> Seq(0..RlMaxTime)] /\ RlMaxDelay \in Nat BY DEF RlInv, RlTypeOK, RlSizes
   <3>3. ASSUME NEW r \in RlRequests, rlJob[r] # <<>>
         PROVE  rlJob[r][1] <= rlNow' /\ rlNow' <= rlJob[r][1] + RlMaxDelay
    <4>1. 1 \in DOMAIN rlJob[r] /\ rlJob[r][1] \in 0..RlMaxTime
     <5>1. rlJob[r] \in Seq(0..RlMaxTime) BY <3>2
     <5>2. 1 \in DOMAIN rlJob[r] BY <3>3, <5>1
     <5> QED BY <5>1, <5>2, OfASequence
    <4>2. rlJob[r][1] <= rlNow BY <3>3 DEF RlInv, StampsAreRecent
    <4> QED BY <1>2, <3>1, <3>2, <3>3, <4>1, <4>2
   <3> QED BY <3>1, <3>2, <3>3
  <2>2. CASE UNCHANGED rlVars BY <2>2 DEF rlVars, RlInv, RlTypeOK, StampsAreRecent
  <2>3. CASE \E r \in RlRequests : Stamp(r)
   <3>1. PICK r \in RlRequests : Stamp(r) BY <2>3
   <3>2. <<rlNow>> \in Seq(0..RlMaxTime) /\ <<rlNow>>[1] = rlNow BY <1>2
   <3>3. rlNow' = rlNow /\ rlJob' = [rlJob EXCEPT ![r] = <<rlNow>>] BY <3>1 DEF Stamp
   <3> QED BY <3>2, <3>3, <1>2 DEF RlInv, RlTypeOK, StampsAreRecent, RlSizes
  <2> QED BY <2>1, <2>2, <2>3
 <1>4. rlKind # "route" => rlJob' = [r \in RlRequests |-> <<>>] BY DEF Stamp, RlTick, rlVars, RlInv
 <1>5. StampsAreRecent' /\ RlTypeOK'
  <2>1. StampsAreRecent /\ RlTypeOK BY DEF RlInv
  <2>2. StampsAreRecent' BY <1>0, <1>1, <1>2, <1>3, <2>1 DEF StampsAreRecent
  <2> QED BY <1>1, <1>2, <1>3, <2>1, <2>2 DEF RlTypeOK
 <1>6. ListIsComplete => ListIsComplete' BY <1>0, <1>1, <1>2 DEF ListIsComplete, RlSizes
 <1>7. /\ ListIsOfAWindow => ListIsOfAWindow'
       /\ WindowBefore => WindowBefore' BY <1>1 DEF ListIsOfAWindow, WindowBefore, EarlierOnes
 <1>8. rlKind # "route" /\ rlEntry # <<>> => (WindowIsTheEnd => WindowIsTheEnd')
   BY <1>0, <1>1, <1>2 DEF WindowIsTheEnd, EarlierOnes
 <1>9. RlLimitsHold'
  <2>1. RlLimitsHold BY DEF RlInv
  <2> QED BY <1>1, <2>1 DEF RlLimitsHold, NeverTooMany, RefusedForCause, AdmittedWithin, CountedWithin
 <1> QED BY <1>1, <1>4, <1>5, <1>6, <1>7, <1>8, <1>9 DEF RlInv

\* The clean-up drops only a list whose first stamp is so old that no window still counts it.
LEMMA CleanUpKeepsAll ==
    ASSUME RlSizes, RlInv, CleanUpRequests
    PROVE  RlInv'
 <1>1. rlTimes' = {} /\ UNCHANGED <<rlKind, rlJob, rlEntry, rlNow, rlLog>> BY DEF CleanUpRequests
 <1>2. PICK first \in rlTimes : rlNow - rlLog[first].stamp > RlCleanAge BY DEF CleanUpRequests
 <1>3. rlKind = "route" /\ ListIsOfAWindow BY <1>2 DEF RlInv
 <1>4. first \in DOMAIN rlLog /\ Len(rlLog) \in DOMAIN rlLog
   BY <1>2, <1>3 DEF ListIsOfAWindow, RlInv, RlTypeOK
 <1>5. \A i \in DOMAIN rlLog : rlLog[i].stamp \in Nat BY RlTyped DEF RlInv
 <1>6. rlLog[first].stamp + RlWindow > rlLog[Len(rlLog)].stamp BY <1>2, <1>3 DEF ListIsOfAWindow
 <1>7. ASSUME NEW i \in DOMAIN rlLog
       PROVE  ~(rlLog[i].stamp + RlWindow > rlNow)
  <2>1. rlLog[i].stamp <= rlLog[Len(rlLog)].stamp + RlMaxDelay BY <1>3 DEF ListIsOfAWindow
  <2>2. rlNow \in Nat BY DEF RlInv, RlTypeOK, RlSizes
  <2> QED BY <1>2, <1>4, <1>5, <1>6, <2>1, <2>2 DEF RlSizes
 <1>8. ListIsComplete' BY <1>1, <1>7 DEF ListIsComplete
 <1>9. ListIsOfAWindow' /\ StampsAreRecent' /\ RlTypeOK'
   BY <1>1, <1>3 DEF ListIsOfAWindow, StampsAreRecent, RlTypeOK, RlInv
 <1>10. RlLimitsHold'
   BY <1>1 DEF RlLimitsHold, NeverTooMany, RefusedForCause, AdmittedWithin, CountedWithin, RlInv
 <1> QED BY <1>1, <1>3, <1>8, <1>9, <1>10 DEF RlInv

\* A part of a set of places is finite and not larger.
LEMMA PartOfPlaces ==
    ASSUME NEW n \in Nat, NEW S \in SUBSET (1..n), NEW T \in SUBSET S
    PROVE  IsFiniteSet(T) /\ Cardinality(T) \in Nat /\ Cardinality(S) \in Nat /\ Cardinality(T) <= Cardinality(S)
 <1>1. IsFiniteSet(1..n) BY FS_Interval
 <1>2. IsFiniteSet(S) BY <1>1, FS_Subset
 <1> QED BY <1>2, FS_Subset, FS_CardinalityType

\* What a request adds to the log.
LEMMA LogGrows ==
    ASSUME RlSizes, RlTypeOK, NEW e \in [stamp : 0..RlMaxTime, ok : BOOLEAN], rlLog' = Append(rlLog, e), NEW n, n = Len(rlLog)
    PROVE  /\ n \in Nat /\ DOMAIN rlLog = 1..n /\ DOMAIN rlLog' = 1..(n + 1) /\ Len(rlLog') = n + 1
           /\ \A i \in 1..n : rlLog'[i] = rlLog[i] /\ rlLog'[i].stamp = rlLog[i].stamp /\ rlLog'[i].ok = rlLog[i].ok
           /\ rlLog'[n + 1] = e
           /\ rlLog' \in Seq([stamp : 0..RlMaxTime, ok : BOOLEAN])
 <1>1. rlLog \in Seq([stamp : 0..RlMaxTime, ok : BOOLEAN]) BY DEF RlTypeOK
 <1>2. \A i \in 1..n : rlLog'[i] = rlLog[i] BY <1>1
 <1> QED BY <1>1, <1>2

\* The limits hold after a request if they do in the spans it is in, and if it is refused for a cause.
LEMMA LimitsOfTheNew ==
    ASSUME RlSizes, RlInv, NEW e \in [stamp : 0..RlMaxTime, ok : BOOLEAN], rlLog' = Append(rlLog, e), NEW n, n = Len(rlLog),
           rlKind' = rlKind,
           \A x \in 0..RlMaxTime : x >= e.stamp /\ e.ok =>
               IF rlKind = "route" THEN Cardinality(AdmittedWithin(x - (RlWindow - RlMaxDelay), x)') <= RlLimit
                                   ELSE Cardinality(AdmittedWithin(x - RlWindow, x)') <= 2 * RlLimit,
           ~e.ok => IF rlKind = "route"
                    THEN Cardinality({j \in 1..n : rlLog[j].stamp > e.stamp - RlWindow}) >= RlLimit
                    ELSE Cardinality({j \in 1..n : rlLog[j].ok /\ rlLog[j].stamp >= e.stamp - RlWindow /\ rlLog[j].stamp <= e.stamp}) >= RlLimit
    PROVE  RlLimitsHold'
 <1>1. /\ n \in Nat /\ DOMAIN rlLog = 1..n /\ DOMAIN rlLog' = 1..(n + 1)
       /\ \A i \in 1..n : rlLog'[i] = rlLog[i] /\ rlLog'[i].stamp = rlLog[i].stamp /\ rlLog'[i].ok = rlLog[i].ok
       /\ rlLog'[n + 1] = e BY LogGrows DEF RlInv
 <1>2. /\ \A i \in DOMAIN rlLog : rlLog[i].stamp \in Nat
       /\ e.stamp \in Nat /\ RlWindow \in Nat /\ RlMaxDelay \in Nat BY RlTyped DEF RlInv, RlSizes
 <1>3. ASSUME NEW x \in 0..RlMaxTime, NEW y \in Int, ~(x >= e.stamp /\ e.ok)
       PROVE  AdmittedWithin(y, x)' = AdmittedWithin(y, x)
   BY <1>1, <1>2, <1>3 DEF AdmittedWithin, CountedWithin
 <1>4. NeverTooMany'
  <2> SUFFICES ASSUME NEW x \in 0..RlMaxTime
               PROVE  IF rlKind = "route" THEN Cardinality(AdmittedWithin(x - (RlWindow - RlMaxDelay), x)') <= RlLimit
                                          ELSE Cardinality(AdmittedWithin(x - RlWindow, x)') <= 2 * RlLimit
    BY DEF NeverTooMany
  <2>1. CASE x >= e.stamp /\ e.ok BY <2>1
  <2>2. CASE ~(x >= e.stamp /\ e.ok)
   <3>1. x - (RlWindow - RlMaxDelay) \in Int /\ x - RlWindow \in Int BY <1>2
   <3>2. AdmittedWithin(x - (RlWindow - RlMaxDelay), x)' = AdmittedWithin(x - (RlWindow - RlMaxDelay), x)
     BY <1>3, <2>2, <3>1
   <3>3. AdmittedWithin(x - RlWindow, x)' = AdmittedWithin(x - RlWindow, x) BY <1>3, <2>2, <3>1
   <3>4. NeverTooMany BY DEF RlInv, RlLimitsHold
   <3> QED BY <3>2, <3>3, <3>4 DEF NeverTooMany
  <2> QED BY <2>1, <2>2
 <1>5. RefusedForCause'
  <2> SUFFICES ASSUME NEW i \in 1..(n + 1), ~rlLog'[i].ok, NEW t, t = rlLog'[i].stamp
               PROVE  IF rlKind = "route"
                      THEN Cardinality({j \in 1..(i - 1) : rlLog'[j].stamp > (t - RlWindow - 1) + 1}) >= RlLimit
                      ELSE Cardinality({j \in AdmittedWithin(t - RlWindow - 1, t)' : j < i}) >= RlLimit
    BY <1>1, ZenonT(60) DEF RefusedForCause, AdmittedWithin, CountedWithin
  <2>1. CASE i = n + 1
   <3>1. {j \in 1..(i - 1) : rlLog'[j].stamp > (t - RlWindow - 1) + 1} = {j \in 1..n : rlLog[j].stamp > e.stamp - RlWindow}
     BY <1>1, <1>2, <2>1
   <3>2. {j \in AdmittedWithin(t - RlWindow - 1, t)' : j < i}
           = {j \in 1..n : rlLog[j].ok /\ rlLog[j].stamp >= e.stamp - RlWindow /\ rlLog[j].stamp <= e.stamp}
    <4>1. t = e.stamp BY <1>1, <2>1
    <4> QED BY <1>1, <1>2, <2>1, <4>1 DEF AdmittedWithin, CountedWithin
   <3>3. ~e.ok BY <1>1, <2>1
   <3> QED BY <3>1, <3>2, <3>3
  <2>2. CASE i # n + 1
   <3>1. i \in 1..n /\ ~rlLog[i].ok /\ t = rlLog[i].stamp BY <1>1, <2>2
   <3>2. {j \in 1..(i - 1) : rlLog'[j].stamp > (t - RlWindow - 1) + 1}
           = {j \in 1..(i - 1) : rlLog[j].stamp > (t - RlWindow - 1) + 1} BY <1>1, <3>1
   <3>3. {j \in AdmittedWithin(t - RlWindow - 1, t)' : j < i} = {j \in AdmittedWithin(t - RlWindow - 1, t) : j < i}
     BY <1>1, <3>1 DEF AdmittedWithin, CountedWithin
   <3>4. i \in DOMAIN rlLog /\ RefusedForCause BY <1>1, <3>1 DEF RlInv, RlLimitsHold
   <3>5. IF rlKind = "route" THEN Cardinality({j \in 1..(i - 1) : rlLog[j].stamp > (t - RlWindow - 1) + 1}) >= RlLimit
                             ELSE Cardinality({j \in AdmittedWithin(t - RlWindow - 1, t) : j < i}) >= RlLimit
     BY <3>1, <3>4 DEF RefusedForCause
   <3> QED BY <3>2, <3>3, <3>5
  <2> QED BY <2>1, <2>2
 <1> QED BY <1>4, <1>5 DEF RlLimitsHold

\* A request of a route: what is kept of its list and the request itself are of one window.
LEMMA CountKeepsAll ==
    ASSUME RlSizes, RlInv, NEW r \in RlRequests, Count(r)
    PROVE  RlInv'
 <1>1. PICK n : n = Len(rlLog) OBVIOUS
 <1>2. PICK t : t = rlJob[r][1] OBVIOUS
 <1>3. PICK times : times = Kept(t) \cup {n + 1} OBVIOUS
 <1>4. PICK e : e = [stamp |-> t, ok |-> WithinLimit(times)] OBVIOUS
 <1>5. /\ rlTimes' = times /\ rlLog' = Append(rlLog, e)
       /\ rlJob' = [rlJob EXCEPT ![r] = <<>>] /\ UNCHANGED <<rlKind, rlEntry, rlNow>>
       /\ rlJob[r] # <<>> /\ n < RlMaxCounted BY <1>1, <1>2, <1>3, <1>4 DEF Count
 <1>6. rlKind = "route" /\ rlEntry = <<>> /\ ListIsComplete /\ ListIsOfAWindow BY <1>5 DEF RlInv
 <1>7. t \in 0..RlMaxTime /\ t <= rlNow /\ rlNow <= t + RlMaxDelay
  <2>1. rlJob[r] \in Seq(0..RlMaxTime) /\ 1 \in DOMAIN rlJob[r] BY <1>5 DEF RlInv, RlTypeOK
  <2> QED BY <1>2, <1>5, <2>1, OfASequence DEF RlInv, StampsAreRecent
 <1>8. e \in [stamp : 0..RlMaxTime, ok : BOOLEAN] /\ e.stamp = t /\ e.ok = WithinLimit(times)
   BY <1>4, <1>7 DEF WithinLimit
 <1>9. /\ n \in Nat /\ DOMAIN rlLog = 1..n /\ DOMAIN rlLog' = 1..(n + 1) /\ Len(rlLog') = n + 1
       /\ \A i \in 1..n : rlLog'[i] = rlLog[i] /\ rlLog'[i].stamp = rlLog[i].stamp /\ rlLog'[i].ok = rlLog[i].ok
       /\ rlLog'[n + 1] = e /\ rlLog'[n + 1].stamp = t
       /\ rlLog' \in Seq([stamp : 0..RlMaxTime, ok : BOOLEAN]) BY <1>1, <1>5, <1>8, LogGrows DEF RlInv
 <1>10. /\ \A i \in 1..n : rlLog[i].stamp \in Nat /\ rlLog[i].stamp <= rlNow
        /\ rlNow \in Nat /\ t \in Nat /\ RlWindow \in Nat \ {0} /\ RlMaxDelay \in Nat /\ RlLimit \in Nat /\ RlMaxCounted \in Nat
   BY <1>7, <1>9, RlTyped DEF RlInv, RlSizes, StampsAreRecent
 <1>11. /\ rlTimes \subseteq 1..n
        /\ \A i \in 1..n : i \in times <=> i \in rlTimes /\ rlLog[i].stamp + RlWindow > t
        /\ n + 1 \in times /\ times \subseteq 1..(n + 1) BY <1>3, <1>6, <1>9 DEF ListIsOfAWindow, Kept
 <1>12. \A i \in 1..n : rlLog[i].stamp + RlWindow > rlNow => i \in times
  <2> SUFFICES ASSUME NEW i \in 1..n, rlLog[i].stamp + RlWindow > rlNow
               PROVE  i \in times OBVIOUS
  <2>1. i \in rlTimes BY <1>6, <1>9 DEF ListIsComplete
  <2>2. rlLog[i].stamp + RlWindow > t BY <1>7, <1>10
  <2> QED BY <1>11, <2>1, <2>2
 <1>13. RlTypeOK' /\ Len(rlLog') <= RlMaxCounted /\ StampsAreRecent'
  <2>1. rlJob' \in [RlRequests -> Seq(0..RlMaxTime)] BY <1>5 DEF RlInv, RlTypeOK
  <2>2. rlTimes' \subseteq 1..RlMaxCounted /\ n + 1 <= RlMaxCounted BY <1>5, <1>9, <1>10, <1>11
  <2>3. RlTypeOK' BY <1>5, <1>9, <2>1, <2>2 DEF RlInv, RlTypeOK
  <2>4. \A i \in DOMAIN rlLog' : rlLog'[i].stamp <= rlNow BY <1>7, <1>9, <1>10
  <2>5. \A q \in RlRequests : rlJob'[q] # <<>> => rlJob'[q] = rlJob[q] BY <1>5 DEF RlInv, RlTypeOK
  <2>6. StampsAreRecent' BY <1>5, <2>4, <2>5 DEF RlInv, StampsAreRecent
  <2> QED BY <1>9, <2>2, <2>3, <2>6
 <1>14. ListIsComplete' BY <1>5, <1>9, <1>11, <1>12 DEF ListIsComplete
 <1>15. ListIsOfAWindow' BY <1>5, <1>7, <1>9, <1>10, <1>11 DEF ListIsOfAWindow
 <1>16. RlLimitsHold'
  <2>1. ASSUME NEW x \in 0..RlMaxTime, x >= e.stamp, e.ok
        PROVE  Cardinality(AdmittedWithin(x - (RlWindow - RlMaxDelay), x)') <= RlLimit
   <3>1. \A i \in AdmittedWithin(x - (RlWindow - RlMaxDelay), x)' : i \in times
    <4> SUFFICES ASSUME NEW i \in AdmittedWithin(x - (RlWindow - RlMaxDelay), x)' PROVE i \in times
      OBVIOUS
    <4>1. i \in 1..(n + 1) /\ rlLog'[i].stamp > x - (RlWindow - RlMaxDelay)
      BY <1>9 DEF AdmittedWithin, CountedWithin
    <4>2. CASE i = n + 1 BY <1>11, <4>2
    <4>3. CASE i # n + 1
     <5>1. i \in 1..n /\ rlLog[i].stamp > x - (RlWindow - RlMaxDelay) BY <1>9, <4>1, <4>3
     <5>2. x \in Nat /\ x >= t BY <1>8, <1>10, <2>1
     <5>3. rlLog[i].stamp + RlWindow > rlNow BY <1>7, <1>10, <5>1, <5>2
     <5> QED BY <1>12, <5>1, <5>3
    <4> QED BY <4>1, <4>2, <4>3
   <3>2. Cardinality(times) <= RlLimit BY <1>8, <2>1 DEF WithinLimit
   <3>3. n + 1 \in Nat /\ AdmittedWithin(x - (RlWindow - RlMaxDelay), x)' \in SUBSET times /\ times \in SUBSET (1..(n + 1))
     BY <1>9, <1>11, <3>1
   <3>4. /\ Cardinality(AdmittedWithin(x - (RlWindow - RlMaxDelay), x)') <= Cardinality(times)
         /\ Cardinality(AdmittedWithin(x - (RlWindow - RlMaxDelay), x)') \in Nat /\ Cardinality(times) \in Nat
     BY <3>3, PartOfPlaces
   <3> QED BY <1>10, <3>2, <3>4
  <2>2. ASSUME ~e.ok
        PROVE  Cardinality({j \in 1..n : rlLog[j].stamp > e.stamp - RlWindow}) >= RlLimit
   <3>1. Cardinality(times) > RlLimit /\ Cardinality(times) \in Nat /\ IsFiniteSet(times)
    <4>1. n + 1 \in Nat /\ times \in SUBSET (1..(n + 1)) /\ times \in SUBSET times BY <1>9, <1>11
    <4>2. Cardinality(times) \in Nat /\ IsFiniteSet(times) BY <4>1, PartOfPlaces
    <4> QED BY <1>8, <1>10, <2>2, <4>2 DEF WithinLimit
   <3>2. Cardinality(times \ {n + 1}) = Cardinality(times) - 1 BY <1>11, <3>1, FS_RemoveElement
   <3>3. times \ {n + 1} \subseteq {j \in 1..n : rlLog[j].stamp > e.stamp - RlWindow}
     BY <1>8, <1>9, <1>10, <1>11
   <3>4. {j \in 1..n : rlLog[j].stamp > e.stamp - RlWindow} \in SUBSET (1..n) OBVIOUS
   <3>5. /\ Cardinality(times \ {n + 1}) <= Cardinality({j \in 1..n : rlLog[j].stamp > e.stamp - RlWindow})
         /\ Cardinality({j \in 1..n : rlLog[j].stamp > e.stamp - RlWindow}) \in Nat
     BY <1>9, <3>3, <3>4, PartOfPlaces
   <3> QED BY <1>10, <3>1, <3>2, <3>5
  <2> QED BY <1>1, <1>5, <1>6, <1>8, <2>1, <2>2, LimitsOfTheNew
 <1> QED BY <1>5, <1>6, <1>13, <1>14, <1>15, <1>16 DEF RlInv

\* As many places in a row as the limit.
LEMMA PlacesInARow ==
    ASSUME RlSizes, NEW m \in Nat
    PROVE  Cardinality((m + 1)..(m + RlLimit)) = RlLimit /\ IsFiniteSet((m + 1)..(m + RlLimit))
 <1>1. m + 1 \in Int /\ m + RlLimit \in Int /\ RlLimit \in Nat BY DEF RlSizes
 <1> QED BY <1>1, FS_Interval

\* An attempt to sign in or a special method: the window goes on, or a new one begins.
LEMMA AttemptKeepsAll ==
    ASSUME RlSizes, RlInv, Attempt
    PROVE  RlInv'
 <1>1. PICK n : n = Len(rlLog) OBVIOUS
 <1>2. PICK w : w = IF WindowOver THEN [count |-> 1, start |-> rlNow] ELSE [rlEntry[1] EXCEPT !.count = rlEntry[1].count + 1]
   OBVIOUS
 <1>3. PICK e : e = [stamp |-> rlNow, ok |-> w.count <= RlLimit] OBVIOUS
 <1>4. /\ rlEntry' = <<w>> /\ rlLog' = Append(rlLog, e) /\ UNCHANGED <<rlKind, rlTimes, rlJob, rlNow>>
       /\ rlKind # "route" /\ n < RlMaxCounted BY <1>1, <1>2, <1>3 DEF Attempt
 <1>5. /\ rlNow \in 0..RlMaxTime /\ RlWindow \in Nat \ {0} /\ RlLimit \in Nat /\ RlMaxCounted \in Nat /\ rlNow \in Nat
       /\ \A i \in DOMAIN rlLog : rlLog[i].stamp \in Nat /\ rlLog[i].stamp <= rlNow
       /\ n \in Nat BY <1>1, RlTyped DEF RlInv, RlSizes, RlTypeOK, StampsAreRecent
 <1>6. e \in [stamp : 0..RlMaxTime, ok : BOOLEAN] /\ e.stamp = rlNow /\ e.ok = (w.count <= RlLimit)
   BY <1>3, <1>5
 <1>7. /\ DOMAIN rlLog = 1..n /\ DOMAIN rlLog' = 1..(n + 1) /\ Len(rlLog') = n + 1
       /\ \A i \in 1..n : rlLog'[i] = rlLog[i] /\ rlLog'[i].stamp = rlLog[i].stamp /\ rlLog'[i].ok = rlLog[i].ok
       /\ rlLog'[n + 1] = e /\ rlLog'[n + 1].stamp = rlNow /\ rlLog'[n + 1].ok = (w.count <= RlLimit)
       /\ rlLog' \in Seq([stamp : 0..RlMaxTime, ok : BOOLEAN]) BY <1>1, <1>4, <1>6, LogGrows DEF RlInv
 \* The window that ends with this request, and what is before it.
 <1>8. /\ w \in [count : 1..RlMaxCounted, start : 0..RlMaxTime] /\ w.count <= n + 1
       /\ w.start <= rlNow /\ rlNow <= w.start + RlWindow
       /\ \A i \in 1..n : IF i <= (n + 1) - w.count THEN rlLog[i].stamp <= w.start
                          ELSE rlLog[i].stamp >= w.start /\ (rlLog[i].ok <=> i <= ((n + 1) - w.count) + RlLimit)
       /\ Cardinality({i \in 1..n : i <= (n + 1) - w.count /\ rlLog[i].ok /\ rlLog[i].stamp + RlWindow > w.start}) <= RlLimit
  <2>1. CASE ~WindowOver
   <3>1. PICK old : old = rlEntry[1] OBVIOUS
   <3>2. /\ rlEntry # <<>> /\ WindowIsTheEnd /\ WindowBefore
         /\ rlNow <= old.start + RlWindow
    <4>1. rlEntry # <<>> /\ ~(rlKind = "login" /\ rlNow - old.start > RlWindow) /\ ~(rlKind = "special" /\ rlNow - old.start >= RlWindow)
      BY <2>1, <3>1 DEF WindowOver
    <4>2. rlKind = "login" \/ rlKind = "special" BY <1>4 DEF RlInv, RlTypeOK
    <4>3. old.start \in Nat BY <3>1, <4>1, RlTyped DEF RlInv
    <4> QED BY <1>4, <1>5, <4>1, <4>2, <4>3 DEF RlInv
   <3>3. old \in [count : 1..RlMaxCounted, start : 0..RlMaxTime]
    <4>1. rlEntry \in Seq([count : 1..RlMaxCounted, start : 0..RlMaxTime]) /\ 1 \in DOMAIN rlEntry
      BY <3>2 DEF RlInv, RlTypeOK
    <4> QED BY <3>1, <4>1, OfASequence
   <3>4. /\ w = [old EXCEPT !.count = old.count + 1] /\ old.count \in 1..RlMaxCounted /\ old.start \in 0..RlMaxTime
         /\ old.count \in Nat /\ old.start \in Nat /\ old.count >= 1 BY <1>2, <1>5, <2>1, <3>1, <3>3
   <3>5. w.count = old.count + 1 /\ w.start = old.start BY <3>3, <3>4
   <3>6. /\ old.count <= n /\ old.start <= rlNow
         /\ \A i \in 1..n : IF i <= n - old.count THEN rlLog[i].stamp <= old.start
                            ELSE rlLog[i].stamp >= old.start /\ (rlLog[i].ok <=> i <= (n - old.count) + RlLimit)
     BY <1>1, <1>7, <3>1, <3>2 DEF WindowIsTheEnd, EarlierOnes
   <3>7. (n + 1) - w.count = n - old.count BY <1>5, <3>4, <3>5
   <3>8. {i \in 1..n : i <= (n + 1) - w.count /\ rlLog[i].ok /\ rlLog[i].stamp + RlWindow > w.start}
           = {i \in EarlierOnes : rlLog[i].ok /\ rlLog[i].stamp + RlWindow > rlEntry[1].start}
     BY <1>1, <1>7, <3>1, <3>5, <3>7 DEF EarlierOnes
   <3>9. w \in [count : 1..RlMaxCounted, start : 0..RlMaxTime] /\ w.count <= n + 1
     BY <1>4, <1>5, <3>3, <3>4, <3>5, <3>6, SMTT(60)
   <3> QED BY <3>2, <3>5, <3>6, <3>7, <3>8, <3>9 DEF WindowBefore
  <2>2. CASE WindowOver
   <3>1. w.count = 1 /\ w.start = rlNow /\ w \in [count : 1..RlMaxCounted, start : 0..RlMaxTime]
     BY <1>2, <1>4, <1>5, <2>2
   <3>2. (n + 1) - w.count = n BY <1>5, <3>1
   <3>3. {i \in 1..n : i <= (n + 1) - w.count /\ rlLog[i].ok /\ rlLog[i].stamp + RlWindow > w.start}
           = {i \in 1..n : rlLog[i].ok /\ rlLog[i].stamp + RlWindow > rlNow} BY <1>5, <3>1, <3>2
   <3>4. Cardinality({i \in 1..n : rlLog[i].ok /\ rlLog[i].stamp + RlWindow > rlNow}) <= RlLimit
    <4>1. CASE rlEntry = <<>>
     <5>1. rlLog = <<>> BY <1>4, <4>1 DEF RlInv
     <5>2. n = 0 BY <1>1, <5>1
     <5>3. {i \in 1..n : rlLog[i].ok /\ rlLog[i].stamp + RlWindow > rlNow} = {} BY <5>2
     <5> QED BY <1>5, <5>3, FS_EmptySet
    <4>2. CASE rlEntry # <<>>
     <5>1. PICK old : old = rlEntry[1] OBVIOUS
     <5>2. PICK m : m = n - old.count OBVIOUS
     <5>3. WindowIsTheEnd /\ old.start \in Nat /\ old.count \in Nat /\ rlNow >= old.start + RlWindow
      <6>1. old.start \in Nat /\ old.count \in Nat BY <4>2, <5>1, RlTyped DEF RlInv
      <6> QED BY <1>4, <1>5, <2>2, <4>2, <5>1, <6>1 DEF WindowOver, RlInv
     <5>4. /\ old.count <= n /\ m \in Nat
           /\ \A i \in 1..n : IF i <= m THEN rlLog[i].stamp <= old.start ELSE (rlLog[i].ok <=> i <= m + RlLimit)
       BY <1>1, <1>5, <1>7, <5>1, <5>2, <5>3 DEF WindowIsTheEnd, EarlierOnes
     <5>5. {i \in 1..n : rlLog[i].ok /\ rlLog[i].stamp + RlWindow > rlNow} \subseteq (m + 1)..(m + RlLimit)
      <6> SUFFICES ASSUME NEW i \in 1..n, rlLog[i].ok, rlLog[i].stamp + RlWindow > rlNow
                   PROVE  i \in (m + 1)..(m + RlLimit) OBVIOUS
      <6>1. rlLog[i].stamp \in Nat BY <1>5, <1>7
      <6>2. ~(i <= m) BY <1>5, <5>3, <5>4, <6>1
      <6> QED BY <1>5, <5>4, <6>2
     <5>6. Cardinality((m + 1)..(m + RlLimit)) = RlLimit /\ IsFiniteSet((m + 1)..(m + RlLimit))
       BY <5>4, PlacesInARow
     <5> QED BY <5>5, <5>6, FS_Subset
    <4> QED BY <4>1, <4>2
   <3>5. \A i \in 1..n : i <= n /\ rlLog[i].stamp <= rlNow BY <1>5, <1>7
   <3> QED BY <1>5, <3>1, <3>2, <3>3, <3>4, <3>5
  <2> QED BY <2>1, <2>2
 <1>9. PICK m : m = (n + 1) - w.count OBVIOUS
 <1>10. PICK near : near = {i \in 1..n : i <= m /\ rlLog[i].ok /\ rlLog[i].stamp + RlWindow > w.start}
   OBVIOUS
 <1>11. /\ w.count \in 1..RlMaxCounted /\ w.start \in 0..RlMaxTime /\ w.count \in Nat /\ w.count >= 1 /\ w.start \in Nat
        /\ m \in Nat /\ m <= n /\ w.count = (n + 1) - m BY <1>5, <1>8, <1>9
 <1>12. /\ IsFiniteSet(near) /\ Cardinality(near) \in Nat /\ Cardinality(near) <= RlLimit
        /\ IsFiniteSet((m + 1)..(m + RlLimit)) /\ Cardinality((m + 1)..(m + RlLimit)) = RlLimit
  <2>1. near \in SUBSET (1..n) /\ near \in SUBSET near BY <1>10
  <2>2. Cardinality(near) <= RlLimit BY <1>8, <1>9, <1>10
  <2> QED BY <1>5, <1>11, <2>1, <2>2, PartOfPlaces, PlacesInARow
 <1>13. EarlierOnes' = {i \in 1..(n + 1) : i <= m} /\ rlEntry'[1] = w /\ rlEntry' # <<>>
  <2>1. rlEntry'[1] = w /\ rlEntry' # <<>> BY <1>4
  <2> QED BY <1>7, <1>9, <2>1 DEF EarlierOnes
 <1>14. WindowIsTheEnd'
  <2>1. \A i \in 1..(n + 1) : IF i \in EarlierOnes' THEN rlLog'[i].stamp <= w.start
                              ELSE rlLog'[i].stamp >= w.start /\ (rlLog'[i].ok <=> i <= m + RlLimit)
   <3> SUFFICES ASSUME NEW i \in 1..(n + 1)
                PROVE  IF i <= m THEN rlLog'[i].stamp <= w.start
                       ELSE rlLog'[i].stamp >= w.start /\ (rlLog'[i].ok <=> i <= m + RlLimit) BY <1>13
   <3>1. CASE i \in 1..n BY <1>7, <1>8, <1>9, <3>1
   <3>2. CASE i = n + 1
    <4>1. ~(i <= m) /\ (w.count <= RlLimit <=> i <= m + RlLimit) BY <1>5, <1>11, <3>2
    <4> QED BY <1>7, <1>8, <3>2, <4>1
   <3> QED BY <1>5, <3>1, <3>2
  <2>2. w.count <= Len(rlLog') /\ w.start <= rlNow' /\ Len(rlLog') - w.count = m BY <1>4, <1>7, <1>8, <1>9
  <2> QED BY <1>7, <1>13, <2>1, <2>2 DEF WindowIsTheEnd
 <1>15. WindowBefore'
  <2>1. {i \in EarlierOnes' : rlLog'[i].ok /\ rlLog'[i].stamp + RlWindow > w.start} = near
    BY <1>5, <1>7, <1>10, <1>11, <1>13
  <2> QED BY <1>12, <1>13, <2>1 DEF WindowBefore
 <1>16. RlTypeOK' /\ Len(rlLog') <= RlMaxCounted /\ StampsAreRecent'
  <2>1. rlEntry' \in Seq([count : 1..RlMaxCounted, start : 0..RlMaxTime]) BY <1>4, <1>8
  <2>2. RlTypeOK' BY <1>4, <1>7, <2>1 DEF RlInv, RlTypeOK
  <2>3. \A i \in DOMAIN rlLog' : rlLog'[i].stamp <= rlNow BY <1>5, <1>7
  <2>4. StampsAreRecent' BY <1>4, <2>3 DEF RlInv, StampsAreRecent
  <2> QED BY <1>4, <1>5, <1>7, <2>2, <2>4
 <1>17. RlLimitsHold'
  <2>1. ASSUME NEW x \in 0..RlMaxTime, x >= e.stamp
        PROVE  Cardinality(AdmittedWithin(x - RlWindow, x)') <= 2 * RlLimit
   <3>1. AdmittedWithin(x - RlWindow, x)' \subseteq near \cup ((m + 1)..(m + RlLimit))
    <4> SUFFICES ASSUME NEW i \in 1..(n + 1), rlLog'[i].ok, rlLog'[i].stamp > x - RlWindow
                 PROVE  i \in near \cup ((m + 1)..(m + RlLimit)) BY <1>7 DEF AdmittedWithin, CountedWithin
    <4>1. CASE i <= m
     <5>1. i \in 1..n /\ rlLog[i].ok /\ rlLog[i].stamp > x - RlWindow /\ rlLog[i].stamp \in Nat
      <6>1. i \in 1..n BY <1>5, <1>11, <4>1
      <6> QED BY <1>5, <1>7, <6>1
     <5>2. rlLog[i].stamp + RlWindow > w.start BY <1>5, <1>6, <1>8, <1>11, <2>1, <5>1
     <5> QED BY <1>10, <4>1, <5>1, <5>2
    <4>2. CASE ~(i <= m)
     <5>1. i <= m + RlLimit BY <1>7, <1>9, <1>13, <1>14, <4>2 DEF WindowIsTheEnd
     <5> QED BY <1>5, <1>11, <4>2, <5>1
    <4> QED BY <4>1, <4>2
   <3>2. /\ IsFiniteSet(near \cup ((m + 1)..(m + RlLimit)))
         /\ Cardinality(near \cup ((m + 1)..(m + RlLimit))) <= Cardinality(near) + Cardinality((m + 1)..(m + RlLimit))
    <4>1. near \cap ((m + 1)..(m + RlLimit)) = {} BY <1>10, <1>11
    <4>2. Cardinality(near \cap ((m + 1)..(m + RlLimit))) = 0 BY <4>1, FS_EmptySet
    <4>3. /\ IsFiniteSet(near \cup ((m + 1)..(m + RlLimit)))
          /\ Cardinality(near \cup ((m + 1)..(m + RlLimit)))
               = Cardinality(near) + Cardinality((m + 1)..(m + RlLimit)) - Cardinality(near \cap ((m + 1)..(m + RlLimit)))
      BY <1>12, FS_Union
    <4> QED BY <1>5, <1>12, <4>2, <4>3
   <3>3. /\ IsFiniteSet(AdmittedWithin(x - RlWindow, x)')
         /\ Cardinality(AdmittedWithin(x - RlWindow, x)') <= Cardinality(near \cup ((m + 1)..(m + RlLimit)))
     BY <3>1, <3>2, FS_Subset
   <3>4. Cardinality(AdmittedWithin(x - RlWindow, x)') \in Nat /\ Cardinality(near \cup ((m + 1)..(m + RlLimit))) \in Nat
     BY <3>2, <3>3, FS_CardinalityType
   <3> QED BY <1>5, <1>12, <3>2, <3>3, <3>4
  <2>2. ASSUME ~e.ok
        PROVE  Cardinality({j \in 1..n : rlLog[j].ok /\ rlLog[j].stamp >= e.stamp - RlWindow /\ rlLog[j].stamp <= e.stamp}) >= RlLimit
   <3>1. (m + 1)..(m + RlLimit) \subseteq {j \in 1..n : rlLog[j].ok /\ rlLog[j].stamp >= e.stamp - RlWindow /\ rlLog[j].stamp <= e.stamp}
    <4> SUFFICES ASSUME NEW j \in (m + 1)..(m + RlLimit)
                 PROVE  j \in 1..n /\ rlLog[j].ok /\ rlLog[j].stamp >= e.stamp - RlWindow /\ rlLog[j].stamp <= e.stamp
      OBVIOUS
    <4>1. w.count > RlLimit BY <1>5, <1>6, <1>11, <2>2
    <4>2. j \in 1..n /\ ~(j <= m) /\ j <= m + RlLimit BY <1>5, <1>11, <4>1
    <4>3. rlLog[j].stamp >= w.start /\ rlLog[j].ok BY <1>8, <1>9, <4>2
    <4>4. rlLog[j].stamp \in Nat /\ rlLog[j].stamp <= rlNow BY <1>5, <1>7, <4>2
    <4> QED BY <1>5, <1>6, <1>8, <1>11, <4>2, <4>3, <4>4
   <3>2. {j \in 1..n : rlLog[j].ok /\ rlLog[j].stamp >= e.stamp - RlWindow /\ rlLog[j].stamp <= e.stamp} \in SUBSET (1..n)
     OBVIOUS
   <3> QED BY <1>5, <1>12, <3>1, <3>2, PartOfPlaces
  <2> QED BY <1>1, <1>4, <1>6, <2>1, <2>2, LimitsOfTheNew
 <1> QED BY <1>4, <1>13, <1>14, <1>15, <1>16, <1>17 DEF RlInv

\* Every step keeps the invariant.
LEMMA RlSteps == RlSizes /\ RlInv /\ [RlNext]_rlVars => RlInv'
 <1> SUFFICES ASSUME RlSizes, RlInv, [RlNext]_rlVars
              PROVE  RlInv' OBVIOUS
 <1>1. ASSUME NEW r \in RlRequests, Count(r)
       PROVE  RlInv' BY <1>1, CountKeepsAll
 <1>2. CASE (\E r \in RlRequests : Stamp(r)) \/ RlTick \/ UNCHANGED rlVars BY <1>2, StampAndTick
 <1> QED BY <1>1, <1>2, CleanUpKeepsAll, AttemptKeepsAll DEF RlNext

\* It holds at first.
LEMMA RlStarts == RlSizes /\ RlInit => RlInv
 <1> SUFFICES ASSUME RlSizes, RlInit
              PROVE  RlInv OBVIOUS
 <1>1. rlLog = <<>> /\ rlEntry = <<>> /\ rlTimes = {} /\ DOMAIN rlLog = {} /\ Len(rlLog) = 0 BY DEF RlInit
 <1>2. rlNow \in 0..RlMaxTime /\ rlJob \in [RlRequests -> Seq(0..RlMaxTime)] /\ \A r \in RlRequests : rlJob[r] = <<>>
   BY DEF RlInit, RlSizes
 <1>3. RlTypeOK BY <1>1, <1>2 DEF RlInit, RlTypeOK
 <1>4. \A a, b \in Int : AdmittedWithin(a, b) = {} BY <1>1 DEF AdmittedWithin, CountedWithin
 <1>5. NeverTooMany
  <2> SUFFICES ASSUME NEW x \in 0..RlMaxTime
               PROVE  AdmittedWithin(x - (RlWindow - RlMaxDelay), x) = {} /\ AdmittedWithin(x - RlWindow, x) = {}
    BY FS_EmptySet DEF NeverTooMany, RlSizes
  <2> QED BY <1>1 DEF AdmittedWithin, CountedWithin
 <1>6. RefusedForCause BY <1>1 DEF RefusedForCause
 <1> QED
   BY <1>1, <1>2, <1>3, <1>5, <1>6
      DEF RlInv, RlInit, RlLimitsHold, StampsAreRecent, ListIsComplete, ListIsOfAWindow, RlSizes

\* However stamps are taken and requests overtake one another, whatever the clean-up drops, no window of a route
\* admits more than its limit and none of sign-in or the firewall more than twice its limit, and who is refused
\* was preceded by as many requests.
THEOREM RlLimits == RlSizes => (RlSpec => []RlLimitsHold)
 <1> SUFFICES ASSUME RlSizes
              PROVE  RlSpec => []RlLimitsHold OBVIOUS
 <1>1. RlInit => RlInv BY RlStarts
 <1>2. RlInv /\ [RlNext]_rlVars => RlInv' BY RlSteps
 <1>3. RlInv => RlLimitsHold BY DEF RlInv
 <1> QED BY <1>1, <1>2, <1>3, PTL DEF RlSpec
-----------------------------------------------------------------------------
(* LoginFlow: who is signed in proved it, for any users, requests, bounds and factors. *)

LgSizes == Nobody \notin LgUsers /\ LgSlots \in Nat /\ LgMaxTries \in Nat \ {0} /\ LgMaxCodes \in Nat /\ LgMaxInputs \in Nat

\* A challenge is of a code issued for it, that has done nothing yet.
Live(p, u) ==
    LET c == lgCodes[p][u]
    IN  c.code # 0 => /\ c.code \in DOMAIN lgIssued
                      /\ lgIssued[c.code].user = u /\ lgIssued[c.code].purpose = p
                      /\ lgIssued[c.code].did = <<>>
                      /\ lgIssued[c.code].tries = c.tries /\ c.tries < LgMaxTries
\* A code that was accepted, and has done nothing yet.
Spent(n) ==
    /\ n \in DOMAIN lgIssued /\ lgIssued[n].did = <<>>
    /\ \A p \in Purposes, u \in LgUsers : lgCodes[p][u].code # n

\* What a request has shown when it is where it is.
Placed(q) ==
    /\ q.at \in {"password", "factor"} => q.kind = "credentials"
    /\ q.at \in {"password", "factor", "create", "mail"} => q.user \in LgUsers /\ q.kind \in {"credentials", "reset"}
    /\ q.at \in {"factor", "create", "mail"} /\ q.kind = "credentials" => <<q.user, "password">> \in lgProved
    /\ q.at \in {"password", "factor"} => q.guess = Wrong
    /\ q.at = "mail" => /\ q.guess.code \in DOMAIN lgIssued
                        /\ lgIssued[q.guess.code].user = q.user
                        /\ q.kind = "reset" => lgIssued[q.guess.code].purpose = "password_reset"
    /\ q.at = "verify" => /\ q.kind = "code" => q.cookie.pend \in LgUsers
                          /\ q.kind = "confirm" => q.cookie.reset \in LgUsers
                          /\ q.guess.pin = Nobody \/ q.guess.code = 0
    /\ q.at = "update" => /\ q.kind = "confirm" /\ q.cookie.reset \in LgUsers
                          /\ Spent(q.guess.code)
                          /\ lgIssued[q.guess.code].user = q.cookie.reset
                          /\ lgIssued[q.guess.code].purpose = "password_reset"
    /\ q.says # "" => q.at = "answer"
    /\ q.says = "db_error" => Spent(q.guess.code)
    /\ q.says = "authenticated" => q.reply # <<>> /\ Names(q, q.reply[1])
    /\ Earned(q.cookie) /\ \A s \in Saved(q.reply) : Earned(s)

Updating(r) == lgReq[r].at = "update"
\* A spent code has one request to serve.
Apart ==
    \A r \in LgRequests : Updating(r) =>
        /\ \A q \in LgRequests \ {r} : Updating(q) \/ lgReq[q].says = "db_error" => lgReq[q].guess.code # lgReq[r].guess.code
        /\ lgTold.says = "db_error" => lgTold.guess.code # lgReq[r].guess.code
CodesKept ==
    /\ \A p \in Purposes, u \in LgUsers : Live(p, u)
    /\ \A n \in DOMAIN lgIssued : /\ lgIssued[n].tries <= LgMaxTries
                                  /\ lgIssued[n].did \in {<<>>, <<[what |-> lgIssued[n].purpose, user |-> lgIssued[n].user]>>}
LgInv ==
    /\ LgTypeOK /\ CodesKept /\ Apart
    /\ \A r \in LgRequests : Placed(lgReq[r])
    /\ Earned(lgJar) /\ SignedInAsTold
    /\ lgTold.says = "db_error" => Spent(lgTold.guess.code)

\* A session that waits for the code it was told to wait for, with the guesses it was told of.
Line(s) == s.pend = lgLine.user /\ s.tries = (IF lgUsers[lgLine.user].method = "local" THEN lgLine.wrong ELSE 0)
Waits(q) == q.reply # <<>> /\ q.reply[1].pend = q.user /\ q.reply[1].tries = 0
WrongGuess(q) == q.says = "wrong_otp" /\ q.kind = "code" /\ lgUsers[q.user].method = "local"
\* What an answer saves is what the browser makes of the answer.
AnswerFollows(q) ==
    /\ WrongGuess(q) => /\ q.user = lgLine.user
                        /\ lgLine.wrong + 1 < LgMaxTries => /\ q.reply # <<>> /\ q.reply[1].pend = lgLine.user
                                                            /\ q.reply[1].tries = lgLine.wrong + 1
    /\ ~WrongGuess(q) /\ q.says \notin {"otp_required", "authenticated", "session_error", "logged_out"} =>
           q.reply = <<>> \/ Line(q.reply[1])
LineKept ==
    /\ \A r \in LgRequests : lgReq[r].says = "otp_required" => Waits(lgReq[r])
    /\ \A r \in LgRequests : At(r, "verify") /\ lgReq[r].kind = "code" => lgReq[r].user = lgReq[r].cookie.pend
    /\ lgLine.alone =>
           /\ \A r, q \in LgRequests : r # q => At(r, "idle") \/ At(q, "idle")
           /\ \A r \in LgRequests : At(r, "idle") \/ At(r, "answer") \/ lgReq[r].cookie = lgJar
           /\ lgLine.user # Nobody => Line(lgJar) /\ \A r \in LgRequests : At(r, "answer") => AnswerFollows(lgReq[r])

\* The sessions of an answer that saves none, or one.
LEMMA SavedReplies == Saved(<<>>) = {} /\ \A c : Saved(<<c>>) = {c} BY DEF Saved

\* What the handlers make of a session is a session.
LEMMA SessionTypes ==
  ASSUME LgSizes
  PROVE  /\ Empty \in Cookie /\ Wrong \in Typed /\ Idle \in Requests
         /\ \A s \in Cookie, u \in SomeUser : [s EXCEPT !.user = u] \in Cookie /\ [s EXCEPT !.reset = u] \in Cookie
         /\ \A s \in Cookie, u \in SomeUser : setPendingLoginState(s, u) \in Cookie
         /\ \A s \in Cookie : clearPendingLoginState(s) \in Cookie
         /\ \A s \in Cookie : \E c \in Cookie : WrongLocal(s) = <<c>>
<1> USE DEF LgSizes, Cookie, SomeUser
<1>1. Empty \in Cookie /\ Wrong \in Typed BY DEF Empty, Wrong, Typed
<1>2. Idle \in Requests BY <1>1 DEF Idle, Requests, Kinds, Places, Passwords, Says
<1>3. ASSUME NEW s \in Cookie, NEW u \in SomeUser
      PROVE  /\ [s EXCEPT !.user = u] \in Cookie /\ [s EXCEPT !.reset = u] \in Cookie
             /\ setPendingLoginState(s, u) \in Cookie /\ clearPendingLoginState(s) \in Cookie
 <2>1. [s EXCEPT !.user = u] \in Cookie OBVIOUS
 <2>2. [s EXCEPT !.reset = u] \in Cookie OBVIOUS
 <2>3. \A w \in SomeUser : [[s EXCEPT !.pend = w] EXCEPT !.tries = 0] \in Cookie
  <3> SUFFICES ASSUME NEW w \in SomeUser PROVE [[s EXCEPT !.pend = w] EXCEPT !.tries = 0] \in Cookie OBVIOUS
  <3>1. [s EXCEPT !.pend = w] \in Cookie OBVIOUS
  <3>2. \A c \in Cookie : [c EXCEPT !.tries = 0] \in Cookie OBVIOUS
  <3> HIDE DEF Cookie
  <3> QED BY <3>1, <3>2
 <2>4. setPendingLoginState(s, u) \in Cookie /\ clearPendingLoginState(s) \in Cookie
   BY <2>3 DEF setPendingLoginState, clearPendingLoginState
 <2> QED BY <2>1, <2>2, <2>4
<1>4. ASSUME NEW s \in Cookie PROVE \E c \in Cookie : WrongLocal(s) = <<c>>
 <2> DEFINE counted == [s EXCEPT !.tries = @ + 1]
            next == IF counted.tries >= LgMaxTries THEN clearPendingLoginState(s) ELSE counted
 <2>1. clearPendingLoginState(s) \in Cookie BY <1>3
 <2>2. CASE counted.tries >= LgMaxTries
  <3>1. WrongLocal(s) = <<clearPendingLoginState(s)>> BY <2>2 DEF WrongLocal
  <3> QED BY <2>1, <3>1
 <2>3. CASE ~(counted.tries >= LgMaxTries)
  <3>1. WrongLocal(s) = <<counted>> BY <2>3 DEF WrongLocal
  <3>2. counted \in Cookie BY <2>3
  <3> QED BY <3>1, <3>2
 <2> QED BY <2>2, <2>3
<1>5. \A s \in Cookie : clearPendingLoginState(s) \in Cookie BY <1>3
<1> HIDE DEF Cookie, SomeUser
<1> QED BY <1>1, <1>2, <1>3, <1>4, <1>5

\* The answer to a request, with a session or without one.
LEMMA AnswerTypes ==
  ASSUME LgSizes, NEW q \in Requests, NEW says \in Says
  PROVE  /\ \A saved \in Seq(Cookie) : Answer(q, says, saved) \in Requests
         /\ Answer(q, says, <<>>) \in Requests
         /\ \A c \in Cookie : Answer(q, says, <<c>>) \in Requests
<1>1. q.kind \in Kinds /\ q.user \in SomeUser /\ q.guess \in Typed BY DEF Requests
<1>2. ASSUME NEW saved \in Seq(Cookie) PROVE Answer(q, says, saved) \in Requests
  BY <1>1, SessionTypes DEF Answer, Idle, Requests, Kinds, Places, Says
<1>3. <<>> \in Seq(Cookie) /\ \A c \in Cookie : <<c>> \in Seq(Cookie) OBVIOUS
<1> QED BY <1>2, <1>3

\* What a step does to the request it is of.
LEMMA OneRequest ==
  ASSUME LgSizes, LgTypeOK, NEW r \in LgRequests, NEW q \in Requests, lgReq' = [lgReq EXCEPT ![r] = q]
  PROVE  lgReq' \in [LgRequests -> Requests] /\ lgReq'[r] = q /\ \A p \in LgRequests \ {r} : lgReq'[p] = lgReq[p]
BY DEF LgTypeOK

\* The answer a request may get when it completes a sign-in.
LEMMA Completed ==
  ASSUME LgSizes, LgTypeOK, NEW r \in LgRequests, NEW s \in Cookie, NEW u \in LgUsers, completeLogin(r, s, u)
  PROVE  \E q \in Requests : /\ lgReq' = [lgReq EXCEPT ![r] = q]
                             /\ \/ q = Answer(lgReq[r], "authenticated", <<[s EXCEPT !.user = u]>>)
                                \/ q = Answer(lgReq[r], "session_error", <<Empty>>)
<1>1. lgReq[r] \in Requests BY DEF LgTypeOK
<1>2. [s EXCEPT !.user = u] \in Cookie /\ Empty \in Cookie BY SessionTypes DEF SomeUser
<1>3. Answer(lgReq[r], "authenticated", <<[s EXCEPT !.user = u]>>) \in Requests
  BY <1>1, <1>2, AnswerTypes DEF Says
<1>4. Answer(lgReq[r], "session_error", <<Empty>>) \in Requests BY <1>1, <1>2, AnswerTypes DEF Says
<1> QED BY <1>3, <1>4 DEF completeLogin, Reply

-----------------------------------------------------------------------------
\* Users keep their factors and what they have passed, and codes what they were issued for.
Grows ==
    /\ \A u \in LgUsers : lgUsers'[u].method = lgUsers[u].method
    /\ lgProved \subseteq lgProved'
    /\ \A n \in DOMAIN lgIssued : /\ n \in DOMAIN lgIssued'
                                  /\ lgIssued'[n].user = lgIssued[n].user
                                  /\ lgIssued'[n].purpose = lgIssued[n].purpose

\* What a session has earned stays earned.
LEMMA EarnedStays ==
  ASSUME LgSizes, Grows, NEW s \in Cookie, Earned(s)
  PROVE  Earned(s)' BY DEF Grows, Earned, Cookie, SomeUser, LgSizes

\* What a request has shown it has shown, unless its code is spent on another.
LEMMA PlacedStays ==
  ASSUME LgSizes, Grows, NEW q \in Requests, Placed(q),
         q.at = "update" \/ q.says = "db_error" => Spent(q.guess.code)'
  PROVE  Placed(q)'
<1>1. q.cookie \in Cookie /\ \A s \in Saved(q.reply) : s \in Cookie BY DEF Requests, Saved
<1>2. Earned(q.cookie)' /\ \A s \in Saved(q.reply) : Earned(s)' BY <1>1, EarnedStays DEF Placed
<1>3. q.reply # <<>> /\ Names(q, q.reply[1]) => Names(q, q.reply[1])' BY DEF Names, Grows
<1>4. q.at \in {"factor", "create", "mail"} /\ q.kind = "credentials" => <<q.user, "password">> \in lgProved'
  BY DEF Placed, Grows
<1>5. q.at = "mail" => /\ q.guess.code \in DOMAIN lgIssued'
                       /\ lgIssued'[q.guess.code].user = q.user
                       /\ q.kind = "reset" => lgIssued'[q.guess.code].purpose = "password_reset"
  BY DEF Placed, Grows
<1>6. q.at = "update" => /\ lgIssued'[q.guess.code].user = q.cookie.reset
                         /\ lgIssued'[q.guess.code].purpose = "password_reset" BY DEF Placed, Grows, Spent
<1> QED BY <1>2, <1>3, <1>4, <1>5, <1>6 DEF Placed, Saved

\* Nothing else in progress was accepted with code n.
Alone(r, n) ==
    /\ \A p \in LgRequests \ {r} : Updating(p) \/ lgReq[p].says = "db_error" => lgReq[p].guess.code # n
    /\ lgTold.says = "db_error" => lgTold.guess.code # n
\* The codes that were accepted, by others than r, are still spent.
SpentStays(r) ==
    \A n : \/ \E p \in LgRequests \ {r} : (Updating(p) \/ lgReq[p].says = "db_error") /\ lgReq[p].guess.code = n
           \/ lgTold.says = "db_error" /\ lgTold.guess.code = n
           => Spent(n)'

\* A step of a request before its answer arrives.
LEMMA StepKeeps ==
  ASSUME LgSizes, LgInv, LgTypeOK', CodesKept', Grows, UNCHANGED <<lgJar, lgTold>>,
         NEW r \in LgRequests, NEW q \in Requests, lgReq' = [lgReq EXCEPT ![r] = q],
         Placed(q)', SpentStays(r), q.at = "update" \/ q.says = "db_error" => Alone(r, q.guess.code)
  PROVE  LgInv'
<1>0. LgTypeOK /\ \A p \in LgRequests : lgReq[p] \in Requests /\ Placed(lgReq[p]) BY DEF LgInv, LgTypeOK
<1>1. lgReq'[r] = q /\ \A p \in LgRequests \ {r} : lgReq'[p] = lgReq[p] BY <1>0, OneRequest
<1>2. ASSUME NEW p \in LgRequests PROVE Placed(lgReq[p])'
 <2>1. CASE p = r BY <2>1, <1>1
 <2>2. CASE p # r
  <3> PICK s \in Requests : s = lgReq[p] BY <1>0
  <3>1. Placed(s) /\ (s.at = "update" \/ s.says = "db_error" => Spent(s.guess.code)')
    BY <1>0, <2>2 DEF SpentStays, Updating
  <3>2. lgReq'[p] = s BY <1>1, <2>2
  <3> QED BY <3>1, <3>2, PlacedStays
 <2> QED BY <2>1, <2>2
<1>3. Apart' BY <1>0, <1>1 DEF LgInv, Apart, Alone, Updating
<1>4. Earned(lgJar)' BY <1>0, EarnedStays DEF LgInv, LgTypeOK
<1>5. SignedInAsTold' BY DEF LgInv, SignedInAsTold, Names, Grows
<1>6. lgTold'.says = "db_error" => Spent(lgTold.guess.code)'
 <2> PICK n : n = lgTold.guess.code OBVIOUS
 <2>1. lgTold.says = "db_error" => Spent(n)' BY DEF SpentStays
 <2> QED BY <2>1
<1> QED BY <1>2, <1>3, <1>4, <1>5, <1>6 DEF LgInv

\* A step that leaves the codes alone.
LEMMA QuietStep ==
  ASSUME LgSizes, LgInv, LgTypeOK', UNCHANGED <<lgJar, lgTold, lgUsers, lgCodes, lgIssued>>, lgProved \subseteq lgProved',
         NEW r \in LgRequests, NEW q \in Requests, lgReq' = [lgReq EXCEPT ![r] = q],
         Placed(q)', q.at = "update" \/ q.says = "db_error" => Alone(r, q.guess.code)
  PROVE  LgInv'
<1>1. Grows BY DEF Grows
<1>2. CodesKept' BY DEF LgInv, CodesKept, Live
<1>3. \A n : Spent(n) => Spent(n)' BY DEF Spent
<1>4. SpentStays(r)
 <2>1. \A p \in LgRequests : Updating(p) \/ lgReq[p].says = "db_error" => Spent(lgReq[p].guess.code)
   BY DEF LgInv, Placed, Updating
 <2>2. lgTold.says = "db_error" => Spent(lgTold.guess.code) BY DEF LgInv
 <2> QED BY <1>3, <2>1, <2>2 DEF SpentStays
<1> QED BY <1>1, <1>2, <1>4, StepKeeps

\* A request brings the session of the browser.
LEMMA SendKeeps ==
  ASSUME LgSizes, LgInv, NEW r \in LgRequests, NEW kind \in Kinds, NEW place \in {"password", "create", "verify"},
         NEW user \in SomeUser, NEW password \in Passwords, NEW guess \in Typed,
         SendRequest(r, kind, place, user, password, guess),
         place = "password" => kind = "credentials" /\ user \in LgUsers /\ guess = Wrong,
         place = "create" => kind = "reset" /\ user \in LgUsers,
         place = "verify" => /\ kind = "code" => lgJar.pend \in LgUsers
                             /\ kind = "confirm" => lgJar.reset \in LgUsers
                             /\ guess.pin = Nobody \/ guess.code = 0
  PROVE  LgInv'
<1> PICK q : q = [Idle EXCEPT !.kind = kind, !.at = place, !.cookie = lgJar, !.user = user,
                              !.password = password, !.guess = guess] OBVIOUS
<1>0. LgTypeOK /\ Earned(lgJar) /\ lgJar \in Cookie BY DEF LgInv, LgTypeOK
<1>1. /\ q.kind = kind /\ q.at = place /\ q.cookie = lgJar /\ q.user = user /\ q.password = password
      /\ q.guess = guess /\ q.reply = <<>> /\ q.says = "" BY DEF Idle
<1>2. q \in Requests BY <1>0, SessionTypes DEF Idle, Requests, Places
<1>3. /\ lgReq' = [lgReq EXCEPT ![r] = q]
      /\ UNCHANGED <<lgJar, lgTold, lgUsers, lgCodes, lgIssued, lgProved>>
      /\ lgInputs < LgMaxInputs /\ lgInputs' = lgInputs + 1 /\ lgLine' = NotAlone
  BY DEF SendRequest, Server, Free
<1>4. LgTypeOK'
 <2>1. lgReq' \in [LgRequests -> Requests] BY <1>0, <1>2, <1>3, OneRequest
 <2>2. lgLine' \in [user : SomeUser, wrong : Nat, alone : BOOLEAN] BY <1>0, <1>3 DEF NotAlone, LgTypeOK
 <2>3. lgInputs' \in 0..LgMaxInputs BY <1>0, <1>3 DEF LgTypeOK, LgSizes
 <2> QED BY <1>0, <1>3, <2>1, <2>2, <2>3 DEF LgTypeOK
<1>5. Placed(q)'
 <2>1. Earned(q.cookie)'
  <3>1. Earned(lgJar)' BY <1>0, <1>3 DEF Earned
  <3>2. q.cookie = lgJar' BY <1>1, <1>3
  <3> QED BY <3>1, <3>2
 <2>2. Saved(q.reply) = {} BY <1>1, SavedReplies
 <2> QED BY <1>1, <1>3, <2>1, <2>2 DEF Placed
<1>6. ~(q.at = "update" \/ q.says = "db_error") BY <1>1
<1> QED BY <1>2, <1>3, <1>4, <1>5, <1>6, QuietStep

\* The four requests a user may make.
LEMMA SendingKeeps ==
  ASSUME LgSizes, LgInv, NEW r \in LgRequests,
         \/ \E u \in LgUsers : AskForReset(r, u) \/ \E p \in Passwords : SendCredentials(r, u, p)
         \/ \E g \in Guesses : SendCode(r, g) \/ SendNewPassword(r, g, "new")
  PROVE  LgInv'
<1>0. LgTypeOK /\ lgJar \in Cookie BY DEF LgInv, LgTypeOK
<1>1. Wrong \in Typed /\ "old" \in Passwords /\ "new" \in Passwords /\ LgUsers \subseteq SomeUser
  BY SessionTypes DEF Passwords, SomeUser
<1>2. ASSUME NEW u \in LgUsers, AskForReset(r, u) PROVE LgInv' BY <1>1, <1>2, SendKeeps DEF AskForReset, Kinds
<1>3. ASSUME NEW u \in LgUsers, NEW p \in Passwords, SendCredentials(r, u, p) PROVE LgInv'
  BY <1>1, <1>3, SendKeeps DEF SendCredentials, Kinds
<1>4. \A g \in Guesses : g \in Typed /\ (g.pin = Nobody \/ g.code = 0)
 <2>1. Len(lgIssued) <= LgMaxCodes /\ Len(lgIssued) \in Nat BY <1>0 DEF LgTypeOK
 <2> QED BY <2>1 DEF Guesses, Typed, SomeUser, LgSizes
<1>5. lgJar.pend \in SomeUser /\ lgJar.reset \in SomeUser BY <1>0 DEF Cookie
<1>6. ASSUME NEW g \in Guesses, SendCode(r, g) PROVE LgInv'
 <2>1. lgJar.pend \in LgUsers BY <1>5, <1>6 DEF SendCode, SomeUser
 <2> QED BY <1>1, <1>4, <1>5, <1>6, <2>1, SendKeeps DEF SendCode, Kinds
<1>7. ASSUME NEW g \in Guesses, SendNewPassword(r, g, "new") PROVE LgInv'
 <2>1. lgJar.reset \in LgUsers BY <1>5, <1>7 DEF SendNewPassword, SomeUser
 <2> QED BY <1>1, <1>4, <1>5, <1>7, <2>1, SendKeeps DEF SendNewPassword, Kinds
<1> QED BY <1>2, <1>3, <1>6, <1>7

-----------------------------------------------------------------------------
\* The empty session needs nothing earned.
LEMMA NothingEarned ==
  ASSUME LgSizes
  PROVE  Earned(Empty) /\ Earned(Empty)' BY DEF Earned, Empty

\* A step that moves one request keeps the types.
LEMMA TypesKept ==
  ASSUME LgSizes, LgTypeOK, NEW r \in LgRequests, NEW q \in Requests, lgReq' = [lgReq EXCEPT ![r] = q],
         UNCHANGED <<lgJar, lgTold, lgUsers, lgCodes, lgIssued>>, lgProved' \subseteq LgUsers \X {"password", "factor"},
         lgLine' \in [user : SomeUser, wrong : Nat, alone : BOOLEAN], lgInputs' \in 0..LgMaxInputs
  PROVE  LgTypeOK'
<1>1. lgReq' \in [LgRequests -> Requests] BY OneRequest
<1> QED BY <1>1 DEF LgTypeOK

\* An answer that tells of nobody signed in, and of no update that failed.
LEMMA ReplyKeeps ==
  ASSUME LgSizes, LgInv, NEW r \in LgRequests, NEW says \in Says \ {"", "authenticated", "db_error"},
         NEW saved \in Seq(Cookie), \A s \in Saved(saved) : Earned(s)', Reply(r, says, saved),
         UNCHANGED <<lgJar, lgTold, lgUsers, lgCodes, lgIssued>>,
         lgProved \subseteq lgProved', lgProved' \subseteq LgUsers \X {"password", "factor"},
         lgLine' \in [user : SomeUser, wrong : Nat, alone : BOOLEAN], lgInputs' \in 0..LgMaxInputs
  PROVE  LgInv'
<1>0. LgTypeOK /\ lgReq[r] \in Requests BY DEF LgInv, LgTypeOK
<1> PICK p \in Requests : p = lgReq[r] BY <1>0
<1> PICK q : q = Answer(p, says, saved) OBVIOUS
<1>1. q \in Requests /\ Placed(q)' /\ q.at = "answer" /\ q.says = says
 <2>1. q.at = "answer" /\ q.says = says /\ q.reply = saved /\ q.cookie = Empty BY DEF Answer, Idle
 <2>2. q \in Requests BY AnswerTypes
 <2>3. Earned(q.cookie)' /\ \A s \in Saved(q.reply) : Earned(s)' BY <2>1, NothingEarned
 <2>4. Placed(q)' BY <2>1, <2>3 DEF Placed, Saved
 <2> QED BY <2>1, <2>2, <2>4
<1>2. lgReq' = [lgReq EXCEPT ![r] = q] BY DEF Reply
<1>3. LgTypeOK' BY <1>0, <1>1, <1>2, TypesKept
<1> QED BY <1>1, <1>2, <1>3, QuietStep

\* Signing out saves the empty session.
LEMMA LogoutKeeps ==
  ASSUME LgSizes, LgInv, NEW r \in LgRequests, Logout(r)
  PROVE  LgInv'
<1>0. LgTypeOK BY DEF LgInv
<1>1. lgLine' \in [user : SomeUser, wrong : Nat, alone : BOOLEAN] /\ lgInputs' \in 0..LgMaxInputs
 <2>1. lgInputs < LgMaxInputs /\ lgInputs' = lgInputs + 1 /\ lgLine' = NotAlone BY DEF Logout, Free
 <2>2. lgLine' \in [user : SomeUser, wrong : Nat, alone : BOOLEAN] BY <1>0, <2>1 DEF NotAlone, LgTypeOK
 <2>3. lgInputs' \in 0..LgMaxInputs BY <1>0, <2>1 DEF LgTypeOK, LgSizes
 <2> QED BY <2>2, <2>3
<1>2. <<Empty>> \in Seq(Cookie) /\ \A d \in Saved(<<Empty>>) : Earned(d)'
  BY SessionTypes, NothingEarned, SavedReplies
<1>3. /\ UNCHANGED <<lgJar, lgTold, lgUsers, lgCodes, lgIssued, lgProved>> /\ Reply(r, "logged_out", <<Empty>>)
  BY DEF Logout, Server
<1> QED BY <1>0, <1>1, <1>2, <1>3, ReplyKeeps DEF Says, LgTypeOK

\* A lost answer leaves everything but its request.
LEMMA LoseKeeps ==
  ASSUME LgSizes, LgInv, NEW r \in LgRequests, Lose(r)
  PROVE  LgInv'
<1>0. LgTypeOK BY DEF LgInv
<1>1. lgLine' \in [user : SomeUser, wrong : Nat, alone : BOOLEAN] BY <1>0 DEF Lose, LgTypeOK
<1>2. /\ UNCHANGED <<lgJar, lgTold, lgUsers, lgCodes, lgIssued, lgProved, lgInputs>>
      /\ lgReq' = [lgReq EXCEPT ![r] = Idle] BY DEF Lose, Server
<1>3. Idle \in Requests /\ Placed(Idle)'
 <2> PICK q : q = Idle OBVIOUS
 <2>1. q.at = "idle" /\ q.says = "" /\ q.reply = <<>> /\ q.cookie = Empty BY DEF Idle
 <2>2. Saved(q.reply) = {} BY <2>1, SavedReplies
 <2>3. Placed(q)' BY <2>1, <2>2, NothingEarned DEF Placed
 <2> QED BY <2>3, SessionTypes
<1>4. LgTypeOK' BY <1>0, <1>1, <1>2, <1>3, TypesKept DEF LgTypeOK
<1>5. Idle.at = "idle" /\ Idle.says = "" BY DEF Idle
<1> QED BY <1>2, <1>3, <1>4, <1>5, QuietStep

\* A code was sent: the session waits for it.
LEMMA MailSentKeeps ==
  ASSUME LgSizes, LgInv, NEW r \in LgRequests, MailSent(r)
  PROVE  LgInv'
<1>0. LgTypeOK /\ lgReq[r] \in Requests /\ Earned(lgReq[r].cookie) /\ Placed(lgReq[r])
  BY DEF LgInv, LgTypeOK, Placed
<1>1. UNCHANGED <<lgJar, lgTold, lgUsers, lgCodes, lgIssued, lgProved, lgLine, lgInputs>>
  BY DEF MailSent, Server, Browser
<1> PICK s \in Cookie : s = lgReq[r].cookie BY <1>0 DEF Requests
<1> PICK u : u = lgReq[r].user OBVIOUS
<1>2. u \in LgUsers /\ u \in SomeUser BY <1>0 DEF MailSent, At, Placed, SomeUser
<1>3. CASE lgReq[r].kind = "reset"
 <2> PICK c : c = [s EXCEPT !.reset = u] OBVIOUS
 <2>1. c \in Cookie BY <1>2, SessionTypes
 <2>2. c.user = s.user /\ c.pend = s.pend /\ c.reset = u BY DEF Cookie
 <2>3. \E n \in DOMAIN lgIssued : lgIssued[n].user = u /\ lgIssued[n].purpose = "password_reset"
   BY <1>0, <1>3 DEF MailSent, At, Placed
 <2>4. Earned(c)' BY <1>0, <1>1, <2>2, <2>3 DEF Earned
 <2>5. <<c>> \in Seq(Cookie) /\ \A d \in Saved(<<c>>) : Earned(d)' BY <2>1, <2>4, SavedReplies
 <2>6. Reply(r, "reset_requested", <<c>>) BY <1>3 DEF MailSent
 <2> QED BY <1>0, <1>1, <2>5, <2>6, ReplyKeeps DEF Says, LgTypeOK
<1>4. CASE lgReq[r].kind # "reset"
 <2> PICK c : c = setPendingLoginState(s, u) OBVIOUS
 <2>1. c \in Cookie BY <1>2, SessionTypes
 <2>2. c.user = s.user /\ c.pend = u /\ c.reset = s.reset BY DEF Cookie, setPendingLoginState
 <2>3. <<u, "password">> \in lgProved BY <1>0, <1>4 DEF MailSent, At, Placed
 <2>4. Earned(c)' BY <1>0, <1>1, <2>2, <2>3 DEF Earned
 <2>5. <<c>> \in Seq(Cookie) /\ \A d \in Saved(<<c>>) : Earned(d)' BY <2>1, <2>4, SavedReplies
 <2>6. Reply(r, "otp_required", <<c>>) BY <1>4 DEF MailSent
 <2> QED BY <1>0, <1>1, <2>5, <2>6, ReplyKeeps DEF Says, LgTypeOK
<1> QED BY <1>3, <1>4

\* The update failed: the code stays spent.
LEMMA UpdateFailsKeeps ==
  ASSUME LgSizes, LgInv, NEW r \in LgRequests, UpdateFails(r)
  PROVE  LgInv'
<1>0. LgTypeOK /\ lgReq[r] \in Requests /\ Placed(lgReq[r]) BY DEF LgInv, LgTypeOK
<1>1. UNCHANGED <<lgJar, lgTold, lgUsers, lgCodes, lgIssued, lgProved, lgLine, lgInputs>>
  BY DEF UpdateFails, Server, Browser
<1> PICK p \in Requests : p = lgReq[r] BY <1>0
<1> PICK q : q = Answer(p, "db_error", <<>>) OBVIOUS
<1>2. q.at = "answer" /\ q.says = "db_error" /\ q.reply = <<>> /\ q.cookie = Empty /\ q.guess = p.guess
  BY DEF Answer, Idle
<1>3. q \in Requests BY AnswerTypes DEF Says
<1>4. lgReq' = [lgReq EXCEPT ![r] = q] BY DEF UpdateFails, Reply
<1>5. LgTypeOK' BY <1>0, <1>1, <1>3, <1>4, TypesKept DEF LgTypeOK
<1>6. Spent(p.guess.code) BY <1>0 DEF UpdateFails, At, Placed
<1>7. Placed(q)'
 <2>1. Saved(q.reply) = {} BY <1>2, SavedReplies
 <2>2. \A n : Spent(n) => Spent(n)' BY <1>1 DEF Spent
 <2>3. Spent(q.guess.code)' BY <1>2, <1>6, <2>2
 <2> QED BY <1>2, <2>1, <2>3, NothingEarned DEF Placed
<1>8. Alone(r, q.guess.code) BY <1>2 DEF LgInv, Apart, Alone, UpdateFails, At, Updating
<1> QED BY <1>1, <1>3, <1>4, <1>5, <1>7, <1>8, QuietStep

\* The session that arrives has earned what the one it replaces may not have.
LEMMA ArriveKeeps ==
  ASSUME LgSizes, LgInv, NEW r \in LgRequests, Arrive(r)
  PROVE  LgInv'
<1>0. LgTypeOK /\ lgReq[r] \in Requests /\ Placed(lgReq[r]) /\ Earned(lgJar) BY DEF LgInv, LgTypeOK
<1>1. UNCHANGED <<lgUsers, lgCodes, lgIssued, lgProved, lgInputs>> BY DEF Arrive, Server
<1> PICK q \in Requests : q = lgReq[r] BY <1>0
<1>2. lgJar' \in Cookie /\ (lgJar' = lgJar \/ lgJar' \in Saved(q.reply)) /\ (q.reply # <<>> => lgJar' = q.reply[1])
 <2>1. CASE q.reply = <<>>
  <3>1. lgJar' = lgJar BY <2>1 DEF Arrive
  <3>2. lgJar \in Cookie BY <1>0 DEF LgTypeOK
  <3> QED BY <2>1, <3>1, <3>2
 <2>2. CASE q.reply # <<>>
  <3>1. q.reply \in Seq(Cookie) BY DEF Requests
  <3>2. 1 \in DOMAIN q.reply /\ q.reply[1] \in Cookie BY <2>2, <3>1
  <3> QED BY <2>2, <3>2 DEF Arrive, Saved
 <2> QED BY <2>1, <2>2
<1>3. lgTold' = Told(q) /\ lgReq' = [lgReq EXCEPT ![r] = Idle] BY DEF Arrive
<1>4. Told(q) \in [kind : Kinds, user : SomeUser, guess : Typed, says : Says]
 <2>1. q.kind \in Kinds /\ q.user \in SomeUser /\ q.guess \in Typed /\ q.says \in Says BY DEF Requests
 <2> QED BY <2>1, SessionTypes DEF Told, Kinds, Says, SomeUser
<1>5. /\ lgReq' \in [LgRequests -> Requests] /\ lgReq'[r] = Idle
      /\ \A p \in LgRequests \ {r} : lgReq'[p] = lgReq[p] BY <1>0, <1>3, OneRequest, SessionTypes
<1>6. lgLine' \in [user : SomeUser, wrong : Nat, alone : BOOLEAN]
 <2>1. lgLine' = Followed(r, q) /\ lgLine \in [user : SomeUser, wrong : Nat, alone : BOOLEAN] /\ q.user \in SomeUser
   BY <1>0 DEF Arrive, LgTypeOK, Requests
 <2> DEFINE L == [user : SomeUser, wrong : Nat, alone : BOOLEAN]
 <2>2. lgLine \in L /\ lgLine.wrong \in Nat /\ Nobody \in SomeUser /\ lgLine.user \in SomeUser
   BY <2>1 DEF SomeUser
 <2>3. \A u \in SomeUser : [lgLine EXCEPT !.user = u] \in L BY <2>2
 <2>4. [lgLine EXCEPT !.user = q.user, !.wrong = 0, !.alone = \A p \in LgRequests \ {r} : At(p, "idle")] \in L
   BY <2>1, <2>2
 <2>5. [lgLine EXCEPT !.user = IF lgLine.wrong + 1 >= LgMaxTries THEN Nobody ELSE @, !.wrong = @ + 1] \in L
  <3> PICK u : u = IF lgLine.wrong + 1 >= LgMaxTries THEN Nobody ELSE lgLine.user OBVIOUS
  <3>1. u \in SomeUser BY <2>2
  <3> PICK n \in Nat : n = lgLine.wrong + 1 BY <2>2
  <3>2. [lgLine EXCEPT !.user = u, !.wrong = n] \in L BY <2>2, <3>1
  <3> QED BY <3>2
 <2> HIDE DEF L
 <2>6. Followed(r, q) \in L BY <2>2, <2>3, <2>4, <2>5 DEF Followed
 <2> QED BY <2>1, <2>6 DEF L
<1>7. LgTypeOK' BY <1>0, <1>1, <1>2, <1>3, <1>4, <1>5, <1>6 DEF LgTypeOK
<1>8. \A n : Spent(n) => Spent(n)' BY <1>1 DEF Spent
<1>9. Told(q).says = "db_error" => q.says = "db_error" /\ Told(q).guess = q.guess BY DEF Told
<1>10. \A p \in LgRequests : Placed(lgReq[p])'
 <2>1. Grows BY <1>1 DEF Grows
 <2>2. Placed(Idle)'
  <3> PICK i : i = Idle OBVIOUS
  <3>1. i.at = "idle" /\ i.says = "" /\ i.reply = <<>> /\ i.cookie = Empty BY DEF Idle
  <3>2. Saved(i.reply) = {} BY <3>1, SavedReplies
  <3>3. Placed(i)' BY <3>1, <3>2, NothingEarned DEF Placed
  <3> QED BY <3>3
 <2>3. ASSUME NEW p \in LgRequests \ {r} PROVE Placed(lgReq[p])'
  <3> PICK s \in Requests : s = lgReq[p] BY <1>0 DEF LgTypeOK
  <3>1. Placed(s) BY DEF LgInv
  <3>2. s.at = "update" \/ s.says = "db_error" => Spent(s.guess.code)' BY <3>1, <1>8 DEF Placed
  <3>3. Placed(s)' /\ lgReq'[p] = s BY <1>5, <2>1, <3>1, <3>2, PlacedStays
  <3> QED BY <3>3
 <2> QED BY <1>5, <2>2, <2>3
<1>11. Idle.at = "idle" /\ Idle.says = "" BY DEF Idle
<1>12. Apart'
 <2>1. ASSUME NEW p \in LgRequests, Updating(p)' PROVE
         /\ p # r /\ Updating(p)
         /\ \A s \in LgRequests \ {p} : Updating(s)' \/ lgReq'[s].says = "db_error" => lgReq'[s].guess.code # lgReq'[p].guess.code
         /\ lgTold'.says = "db_error" => lgTold'.guess.code # lgReq'[p].guess.code
  <3>1. p # r /\ Updating(p) /\ lgReq'[p] = lgReq[p] BY <1>5, <1>11, <2>1 DEF Updating
  <3>2. \A s \in LgRequests \ {p} : Updating(s) \/ lgReq[s].says = "db_error" => lgReq[s].guess.code # lgReq[p].guess.code
    BY <3>1 DEF LgInv, Apart
  <3>3. \A s \in LgRequests \ {p} : Updating(s)' \/ lgReq'[s].says = "db_error" => lgReq'[s].guess.code # lgReq'[p].guess.code
    BY <1>5, <1>11, <3>1, <3>2 DEF Updating
  <3>4. lgTold'.says = "db_error" => lgTold'.guess.code # lgReq'[p].guess.code BY <1>3, <1>9, <3>1, <3>2
  <3> QED BY <3>1, <3>3, <3>4
 <2> QED BY <2>1 DEF Apart, Updating
<1>13. Earned(lgJar)'
 <2> PICK c \in Cookie : c = lgJar' BY <1>2
 <2>1. Earned(c) BY <1>0, <1>2 DEF Placed
 <2>2. Earned(c)' BY <1>1, <2>1 DEF Earned
 <2> QED BY <2>2
<1>14. SignedInAsTold'
 <2>1. ASSUME lgTold'.says = "authenticated" PROVE Names(lgTold, lgJar)'
  <3>1. q.says = "authenticated" /\ Told(q).kind = q.kind /\ Told(q).user = q.user /\ Told(q).guess = q.guess
    BY <1>3, <2>1 DEF Told
  <3>2. Names(q, lgJar') BY <1>0, <1>2, <3>1 DEF Placed
  <3> QED BY <1>1, <1>3, <3>1, <3>2 DEF Names
 <2> QED BY <2>1 DEF SignedInAsTold
<1>15. lgTold'.says = "db_error" => Spent(lgTold.guess.code)'
 <2> SUFFICES ASSUME lgTold'.says = "db_error" PROVE Spent(lgTold.guess.code)' OBVIOUS
 <2> PICK n : n = lgTold'.guess.code OBVIOUS
 <2>1. Spent(n) BY <1>0, <1>3, <1>9 DEF Placed
 <2>2. Spent(n)' BY <1>8, <2>1
 <2> QED BY <2>2
<1>16. CodesKept' BY <1>1 DEF LgInv, CodesKept, Live
<1> QED BY <1>7, <1>10, <1>12, <1>13, <1>14, <1>15, <1>16 DEF LgInv

-----------------------------------------------------------------------------
\* A request that goes on without an answer.
LEMMA VerifyPasswordKeeps ==
  ASSUME LgSizes, LgInv, NEW r \in LgRequests, VerifyPassword(r)
  PROVE  LgInv'
<1>0. LgTypeOK /\ lgReq[r] \in Requests /\ Placed(lgReq[r]) BY DEF LgInv, LgTypeOK
<1>1. UNCHANGED <<lgJar, lgTold, lgUsers, lgCodes, lgIssued, lgLine, lgInputs>> BY DEF VerifyPassword, Browser
<1> PICK p \in Requests : p = lgReq[r] BY <1>0
<1>2. p.user \in LgUsers /\ p.kind = "credentials" /\ p.guess = Wrong /\ p.at = "password"
  BY <1>0 DEF VerifyPassword, At, Placed
<1>3. CASE p.password = lgUsers[p.user].password
 <2>1. lgProved' = lgProved \cup {<<p.user, "password">>} /\ Goto(r, "factor") BY <1>3 DEF VerifyPassword
 <2> PICK q : q = [p EXCEPT !.at = "factor"] OBVIOUS
 <2>2. q \in Requests /\ lgReq' = [lgReq EXCEPT ![r] = q] BY <2>1 DEF Goto, Requests, Places
 <2>3. /\ q.at = "factor" /\ q.user = p.user /\ q.kind = p.kind /\ q.guess = p.guess /\ q.says = p.says
       /\ q.cookie = p.cookie /\ q.reply = p.reply BY DEF Requests
 <2>4. lgProved' \subseteq LgUsers \X {"password", "factor"} BY <1>0, <1>2, <2>1 DEF LgTypeOK
 <2>5. LgTypeOK' BY <1>0, <1>1, <2>2, <2>4, TypesKept DEF LgTypeOK
 <2>6. Earned(q.cookie)' /\ \A s \in Saved(q.reply) : Earned(s)'
  <3>1. Grows BY <1>1, <2>1 DEF Grows
  <3>2. q.cookie \in Cookie /\ \A s \in Saved(q.reply) : s \in Cookie BY <2>2 DEF Requests, Saved
  <3>3. Earned(q.cookie) /\ \A s \in Saved(q.reply) : Earned(s) BY <1>0, <2>3 DEF Placed
  <3> QED BY <3>1, <3>2, <3>3, EarnedStays
 <2>7. q.says = "" BY <1>0, <1>2, <2>3 DEF Placed
 <2>8. Placed(q)'
  <3>1. <<q.user, "password">> \in lgProved' BY <2>1, <2>3
  <3>2. q.at = "factor" /\ q.user \in LgUsers /\ q.kind = "credentials" /\ q.guess = Wrong BY <1>2, <2>3
  <3> QED BY <2>6, <2>7, <3>1, <3>2 DEF Placed
 <2> QED BY <1>1, <2>1, <2>2, <2>3, <2>5, <2>7, <2>8, QuietStep
<1>4. CASE p.password # lgUsers[p.user].password
 <2>1. <<>> \in Seq(Cookie) /\ \A d \in Saved(<<>>) : Earned(d)' BY SavedReplies
 <2>2. Reply(r, "refused", <<>>) /\ lgProved' = lgProved BY <1>4 DEF VerifyPassword
 <2> QED BY <1>0, <1>1, <2>1, <2>2, ReplyKeeps DEF Says, LgTypeOK
<1> QED BY <1>3, <1>4

\* A sign-in that is completed tells the user of the session it saves.
LEMMA CompletedPlaced ==
  ASSUME LgSizes, LgTypeOK, Grows, NEW r \in LgRequests, NEW p \in Requests, p = lgReq[r],
         NEW s \in Cookie, NEW u \in LgUsers, completeLogin(r, s, u), Earned(s), <<u, "password">> \in lgProved',
         lgUsers'[u].method = "none" \/ <<u, "factor">> \in lgProved', Names(p, [s EXCEPT !.user = u])
  PROVE  \E q \in Requests : /\ lgReq' = [lgReq EXCEPT ![r] = q] /\ Placed(q)'
                             /\ q.at = "answer" /\ q.says # "db_error"
<1> PICK q \in Requests : /\ lgReq' = [lgReq EXCEPT ![r] = q]
                          /\ \/ q = Answer(p, "authenticated", <<[s EXCEPT !.user = u]>>)
                             \/ q = Answer(p, "session_error", <<Empty>>) BY Completed
<1>1. q.at = "answer" /\ q.cookie = Empty BY DEF Answer, Idle
<1>2. CASE q = Answer(p, "session_error", <<Empty>>)
 <2>1. q.says = "session_error" /\ q.reply = <<Empty>> BY <1>2 DEF Answer, Idle
 <2>2. \A d \in Saved(q.reply) : Earned(d)' BY <2>1, SavedReplies, NothingEarned
 <2>3. Placed(q)' BY <1>1, <2>1, <2>2, NothingEarned DEF Placed
 <2> QED BY <1>1, <2>1, <2>3
<1>3. CASE q = Answer(p, "authenticated", <<[s EXCEPT !.user = u]>>)
 <2> PICK c : c = [s EXCEPT !.user = u] OBVIOUS
 <2>1. q.says = "authenticated" /\ q.reply = <<c>> /\ q.kind = p.kind /\ q.user = p.user /\ q.guess = p.guess
   BY <1>3 DEF Answer, Idle
 <2>2. c \in Cookie /\ c.user = u /\ c.pend = s.pend /\ c.reset = s.reset
   BY SessionTypes DEF Cookie, SomeUser
 <2>3. Earned(s)' BY EarnedStays
 <2>4. Earned(c)' BY <2>2, <2>3 DEF Earned
 <2>5. \A d \in Saved(q.reply) : Earned(d)' BY <2>1, <2>4, SavedReplies
 <2>6. Names(q, c)' BY <2>1 DEF Names, Grows
 <2>7. q.reply # <<>> /\ q.reply[1] = c BY <2>1
 <2>8. Placed(q)' BY <1>1, <2>1, <2>5, <2>6, <2>7, NothingEarned DEF Placed
 <2> QED BY <1>1, <2>1, <2>8
<1> QED BY <1>2, <1>3

\* The factor of the user decides how the sign-in goes on.
LEMMA CredentialsKeep ==
  ASSUME LgSizes, LgInv, NEW r \in LgRequests, handleLoginCredentials(r)
  PROVE  LgInv'
<1>0. LgTypeOK /\ lgReq[r] \in Requests /\ Placed(lgReq[r]) BY DEF LgInv, LgTypeOK
<1>1. UNCHANGED <<lgJar, lgTold, lgUsers, lgCodes, lgIssued, lgProved, lgLine, lgInputs>>
  BY DEF handleLoginCredentials, Server, Browser
<1>2. Grows BY <1>1 DEF Grows
<1> PICK p \in Requests : p = lgReq[r] BY <1>0
<1> PICK s \in Cookie, u \in LgUsers : s = p.cookie /\ u = p.user
  BY <1>0 DEF handleLoginCredentials, At, Placed, Requests
<1>3. p.kind = "credentials" /\ p.guess = Wrong /\ p.at = "factor" /\ p.says = "" /\ <<u, "password">> \in lgProved
      /\ Earned(s) BY <1>0 DEF handleLoginCredentials, At, Placed
<1>4. u \in SomeUser BY DEF SomeUser
<1>5. CASE lgUsers[u].method = "none" /\ completeLogin(r, s, u)
 <2>1. Names(p, [s EXCEPT !.user = u])
  <3> PICK c : c = [s EXCEPT !.user = u] OBVIOUS
  <3>1. c.user = u BY DEF Cookie
  <3>2. p.guess.pin = Nobody /\ p.kind # "code"
   <4>1. Wrong.pin = Nobody BY DEF Wrong
   <4> QED BY <1>3, <4>1
  <3>3. Names(p, c) BY <3>1, <3>2 DEF Names
  <3> QED BY <3>3
 <2>2. PICK q \in Requests : lgReq' = [lgReq EXCEPT ![r] = q] /\ Placed(q)' /\ q.at = "answer" /\ q.says # "db_error"
   BY <1>0, <1>1, <1>2, <1>3, <1>5, <2>1, CompletedPlaced
 <2>3. LgTypeOK' BY <1>0, <1>1, <2>2, TypesKept DEF LgTypeOK
 <2> QED BY <1>1, <2>2, <2>3, QuietStep
<1>6. CASE Reply(r, "otp_required", <<setPendingLoginState(s, u)>>)
 <2> PICK c : c = setPendingLoginState(s, u) OBVIOUS
 <2>1. c \in Cookie BY <1>4, SessionTypes
 <2>2. c.user = s.user /\ c.pend = u /\ c.reset = s.reset BY DEF Cookie, setPendingLoginState
 <2>3. Earned(c)' BY <1>1, <1>3, <2>2 DEF Earned
 <2>4. <<c>> \in Seq(Cookie) /\ \A d \in Saved(<<c>>) : Earned(d)' BY <2>1, <2>3, SavedReplies
 <2>5. Reply(r, "otp_required", <<c>>) BY <1>6
 <2> QED BY <1>0, <1>1, <2>4, <2>5, ReplyKeeps DEF Says, LgTypeOK
<1>7. CASE Goto(r, "create")
 <2> PICK q : q = [p EXCEPT !.at = "create"] OBVIOUS
 <2>1. q \in Requests /\ lgReq' = [lgReq EXCEPT ![r] = q] BY <1>7 DEF Goto, Requests, Places
 <2>2. /\ q.at = "create" /\ q.user = p.user /\ q.kind = p.kind /\ q.guess = p.guess /\ q.says = p.says
       /\ q.cookie = p.cookie /\ q.reply = p.reply BY DEF Requests
 <2>3. LgTypeOK' BY <1>0, <1>1, <2>1, TypesKept DEF LgTypeOK
 <2>4. Placed(p)' BY <1>0, <1>2, <1>3, PlacedStays
 <2>5. Placed(q)' BY <1>1, <1>3, <2>2, <2>4 DEF Placed
 <2> QED BY <1>1, <1>3, <2>1, <2>2, <2>3, <2>5, QuietStep
<1> QED BY <1>5, <1>6, <1>7 DEF handleLoginCredentials

-----------------------------------------------------------------------------
\* Steps with the codes.
ServerTypes ==
    /\ lgUsers \in [LgUsers -> [method : Methods, password : Passwords]]
    /\ lgCodes \in [Purposes -> [LgUsers -> [code : 0..LgMaxCodes, tries : 0..LgMaxTries]]]
    /\ lgIssued \in Seq(Issued) /\ Len(lgIssued) <= LgMaxCodes
    /\ lgProved \subseteq LgUsers \X {"password", "factor"}

\* Where every spent code stays spent, the ones in use do.
LEMMA AllSpentStay ==
  ASSUME LgInv, NEW r \in LgRequests, \A m : Spent(m) => Spent(m)', UNCHANGED lgTold
  PROVE  SpentStays(r)
<1>1. \A p \in LgRequests : Updating(p) \/ lgReq[p].says = "db_error" => Spent(lgReq[p].guess.code)
  BY DEF LgInv, Placed, Updating
<1>2. lgTold.says = "db_error" => Spent(lgTold.guess.code) BY DEF LgInv
<1> QED BY <1>1, <1>2 DEF SpentStays

\* A step of the server that may touch codes.
LEMMA ServerStep ==
  ASSUME LgSizes, LgInv, ServerTypes', CodesKept', Grows, UNCHANGED Browser,
         NEW r \in LgRequests, NEW q \in Requests, lgReq' = [lgReq EXCEPT ![r] = q],
         Placed(q)', SpentStays(r), q.at = "update" \/ q.says = "db_error" => Alone(r, q.guess.code)
  PROVE  LgInv'
<1>1. LgTypeOK /\ UNCHANGED <<lgJar, lgTold, lgLine, lgInputs>> BY DEF LgInv, Browser
<1>2. lgReq' \in [LgRequests -> Requests] BY <1>1, OneRequest
<1>3. LgTypeOK' BY <1>1, <1>2 DEF LgTypeOK, ServerTypes
<1> QED BY <1>1, <1>3, StepKeeps

\* A step of the server that answers.
LEMMA ReplyStep ==
  ASSUME LgSizes, LgInv, ServerTypes', CodesKept', Grows, UNCHANGED Browser,
         NEW r \in LgRequests, NEW says \in Says \ {"", "authenticated", "db_error"},
         NEW saved \in Seq(Cookie), \A s \in Saved(saved) : Earned(s)', Reply(r, says, saved), SpentStays(r)
  PROVE  LgInv'
<1>0. LgTypeOK /\ lgReq[r] \in Requests BY DEF LgInv, LgTypeOK
<1> PICK p \in Requests : p = lgReq[r] BY <1>0
<1> PICK q : q = Answer(p, says, saved) OBVIOUS
<1>1. q.at = "answer" /\ q.says = says /\ q.reply = saved /\ q.cookie = Empty BY DEF Answer, Idle
<1>2. q \in Requests BY AnswerTypes
<1>3. Earned(q.cookie)' /\ \A s \in Saved(q.reply) : Earned(s)' BY <1>1, NothingEarned
<1>4. Placed(q)' BY <1>1, <1>3 DEF Placed
<1>5. lgReq' = [lgReq EXCEPT ![r] = q] BY DEF Reply
<1> QED BY <1>1, <1>2, <1>4, <1>5, ServerStep

\* The answer when no code was issued.
LEMMA WithoutCodeKeeps ==
  ASSUME LgSizes, LgInv, ServerTypes', CodesKept', Grows, UNCHANGED Browser,
         NEW r \in LgRequests, WithoutCode(r), SpentStays(r)
  PROVE  LgInv'
<1>0. LgTypeOK /\ lgReq[r] \in Requests /\ Earned(lgReq[r].cookie) BY DEF LgInv, LgTypeOK, Placed
<1> PICK s \in Cookie : s = lgReq[r].cookie BY <1>0 DEF Requests
<1>1. CASE lgReq[r].kind = "reset"
 <2> PICK c : c = [s EXCEPT !.reset = Nobody] OBVIOUS
 <2>1. c \in Cookie /\ c.user = s.user /\ c.pend = s.pend /\ c.reset = Nobody
   BY SessionTypes DEF SomeUser, Cookie
 <2>2. Earned(s)' BY <1>0, EarnedStays
 <2>3. Earned(c)' BY <2>1, <2>2 DEF Earned
 <2>4. <<c>> \in Seq(Cookie) /\ \A d \in Saved(<<c>>) : Earned(d)' BY <2>1, <2>3, SavedReplies
 <2>5. Reply(r, "reset_requested", <<c>>) BY <1>1 DEF WithoutCode
 <2> QED BY <2>4, <2>5, ReplyStep DEF Says
<1>2. CASE lgReq[r].kind # "reset"
 <2>1. <<>> \in Seq(Cookie) /\ \A d \in Saved(<<>>) : Earned(d)' BY SavedReplies
 <2>2. Reply(r, "refused", <<>>) BY <1>2 DEF WithoutCode
 <2> QED BY <2>1, <2>2, ReplyStep DEF Says
<1> QED BY <1>1, <1>2

\* No code could be issued.
LEMMA RefuseKeeps ==
  ASSUME LgSizes, LgInv, NEW r \in LgRequests, RefuseCode(r)
  PROVE  LgInv'
<1>1. UNCHANGED <<lgUsers, lgCodes, lgIssued, lgProved, lgTold>> /\ UNCHANGED Browser /\ WithoutCode(r)
  BY DEF RefuseCode, Server, Browser
<1>2. ServerTypes' BY <1>1 DEF LgInv, LgTypeOK, ServerTypes
<1>3. CodesKept' BY <1>1 DEF LgInv, CodesKept, Live
<1>4. Grows BY <1>1 DEF Grows
<1>5. \A m : Spent(m) => Spent(m)' BY <1>1 DEF Spent
<1>6. SpentStays(r) BY <1>1, <1>5, AllSpentStay
<1> QED BY <1>1, <1>2, <1>3, <1>4, <1>6, WithoutCodeKeeps

\* A challenge that is taken back or used up.
LEMMA Cleared ==
  ASSUME LgSizes, LgInv, NEW purpose \in Purposes, NEW u \in LgUsers,
         lgCodes' = [lgCodes EXCEPT ![purpose][u] = NoChallenge], UNCHANGED <<lgUsers, lgIssued>>,
         lgProved \subseteq lgProved', lgProved' \subseteq LgUsers \X {"password", "factor"}
  PROVE  ServerTypes' /\ CodesKept' /\ Grows /\ \A m : Spent(m) => Spent(m)'
<1>0. LgTypeOK /\ CodesKept BY DEF LgInv
<1>1. lgCodes' \in [Purposes -> [LgUsers -> [code : 0..LgMaxCodes, tries : 0..LgMaxTries]]]
  BY <1>0 DEF LgTypeOK, NoChallenge, LgSizes
<1>2. \A p \in Purposes, w \in LgUsers : lgCodes'[p][w] = lgCodes[p][w] \/ lgCodes'[p][w] = NoChallenge
  BY <1>0 DEF LgTypeOK
<1>3. NoChallenge.code = 0 BY DEF NoChallenge
<1>4. ServerTypes' BY <1>0, <1>1 DEF LgTypeOK, ServerTypes
<1>5. ASSUME NEW p \in Purposes, NEW w \in LgUsers PROVE Live(p, w)'
 <2>1. Live(p, w) BY <1>0 DEF CodesKept
 <2> QED BY <1>2, <1>3, <2>1 DEF Live
<1>6. CodesKept' BY <1>0, <1>5 DEF CodesKept
<1>7. ASSUME NEW m, Spent(m) PROVE Spent(m)'
 <2>1. m # 0 BY <1>0, <1>7 DEF Spent, LgTypeOK
 <2> QED BY <1>2, <1>3, <1>7, <2>1 DEF Spent
<1>8. Grows BY DEF Grows
<1> QED BY <1>4, <1>6, <1>7, <1>8

\* The mail failed: the code may be taken back.
LEMMA MailFailsKeeps ==
  ASSUME LgSizes, LgInv, NEW r \in LgRequests, MailFails(r)
  PROVE  LgInv'
<1>0. LgTypeOK /\ lgReq[r] \in Requests /\ Placed(lgReq[r]) /\ CodesKept BY DEF LgInv, LgTypeOK
<1>1. UNCHANGED <<lgUsers, lgIssued, lgProved, lgTold>> /\ UNCHANGED Browser /\ WithoutCode(r)
  BY DEF MailFails, Browser
<1>2. lgReq[r].user \in LgUsers /\ Purpose(r) \in Purposes
  BY <1>0 DEF MailFails, At, Placed, Purpose, Purposes
<1> PICK u \in LgUsers, purpose \in Purposes : u = lgReq[r].user /\ purpose = Purpose(r) BY <1>2
<1>3. UNCHANGED lgCodes \/ lgCodes' = [lgCodes EXCEPT ![purpose][u] = NoChallenge]
 <2>1. lgCodes' = lgCodes \/ lgCodes' = [lgCodes EXCEPT ![purpose][u] = IF @.code = lgReq[r].guess.code THEN NoChallenge ELSE @]
   BY DEF MailFails
 <2>2. lgCodes = [lgCodes EXCEPT ![purpose][u] = lgCodes[purpose][u]] BY <1>0 DEF LgTypeOK
 <2> QED BY <2>1, <2>2
<1>4. CASE UNCHANGED lgCodes
 <2>1. ServerTypes' BY <1>1, <1>4 DEF LgInv, LgTypeOK, ServerTypes
 <2>2. CodesKept' BY <1>1, <1>4 DEF LgInv, CodesKept, Live
 <2>3. Grows BY <1>1 DEF Grows
 <2>4. \A m : Spent(m) => Spent(m)' BY <1>1, <1>4 DEF Spent
 <2>5. SpentStays(r) BY <1>1, <2>4, AllSpentStay
 <2> QED BY <1>1, <2>1, <2>2, <2>3, <2>5, WithoutCodeKeeps
<1>5. CASE lgCodes' = [lgCodes EXCEPT ![purpose][u] = NoChallenge]
 <2>1. lgProved \subseteq lgProved' /\ lgProved' \subseteq LgUsers \X {"password", "factor"}
   BY <1>0, <1>1 DEF LgTypeOK
 <2>2. ServerTypes' /\ CodesKept' /\ Grows /\ \A m : Spent(m) => Spent(m)' BY <1>1, <1>5, <2>1, Cleared
 <2>3. SpentStays(r) BY <1>1, <2>2, AllSpentStay
 <2> QED BY <1>1, <2>2, <2>3, WithoutCodeKeeps
<1> QED BY <1>3, <1>4, <1>5

\* A wrong guess is counted for the code it was compared with.
LEMMA RejectedKeeps ==
  ASSUME LgSizes, LgInv, NEW purpose \in Purposes, NEW u \in LgUsers, Rejected(purpose, u), UNCHANGED <<lgUsers, lgProved>>
  PROVE  ServerTypes' /\ CodesKept' /\ Grows /\ \A m : Spent(m) => Spent(m)'
<1>0. LgTypeOK /\ CodesKept /\ Live(purpose, u) BY DEF LgInv, CodesKept
<1> PICK c \in [code : 0..LgMaxCodes, tries : 0..LgMaxTries] : c = lgCodes[purpose][u] BY <1>0 DEF LgTypeOK
<1>1. CASE Accepted(purpose, u) /\ UNCHANGED lgIssued
 <2>1. lgProved \subseteq lgProved' /\ lgProved' \subseteq LgUsers \X {"password", "factor"}
   BY <1>0 DEF LgTypeOK
 <2> QED BY <1>1, <2>1, Cleared DEF Accepted
<1>2. ASSUME c.code # 0, lgIssued' = [lgIssued EXCEPT ![c.code].tries = @ + 1],
             lgCodes' = [lgCodes EXCEPT ![purpose][u] = IF [c EXCEPT !.tries = @ + 1].tries < LgMaxTries
                                                        THEN [c EXCEPT !.tries = @ + 1] ELSE NoChallenge]
      PROVE  ServerTypes' /\ CodesKept' /\ Grows /\ \A m : Spent(m) => Spent(m)'
 <2> PICK n : n = c.code OBVIOUS
 <2> PICK d : d = IF [c EXCEPT !.tries = @ + 1].tries < LgMaxTries THEN [c EXCEPT !.tries = @ + 1] ELSE NoChallenge
   OBVIOUS
 <2>1. /\ n \in DOMAIN lgIssued /\ lgIssued[n].user = u /\ lgIssued[n].purpose = purpose /\ lgIssued[n].did = <<>>
       /\ lgIssued[n].tries = c.tries /\ c.tries < LgMaxTries /\ n # 0 /\ c.tries \in Nat
   BY <1>0, <1>2 DEF Live
 <2>2. \/ d = NoChallenge
       \/ d.code = n /\ d.tries = c.tries + 1 /\ d.tries < LgMaxTries /\ d \in [code : 0..LgMaxCodes, tries : 0..LgMaxTries]
   BY <2>1 DEF LgSizes
 <2>3. d \in [code : 0..LgMaxCodes, tries : 0..LgMaxTries] /\ NoChallenge.code = 0
   BY <2>2 DEF NoChallenge, LgSizes
 <2>4. /\ lgCodes' \in [Purposes -> [LgUsers -> [code : 0..LgMaxCodes, tries : 0..LgMaxTries]]]
       /\ lgCodes'[purpose][u] = d
       /\ \A p \in Purposes, w \in LgUsers : p # purpose \/ w # u => lgCodes'[p][w] = lgCodes[p][w]
   BY <1>0, <1>2, <2>3 DEF LgTypeOK
 <2>5. lgIssued \in Seq(Issued) /\ Len(lgIssued) <= LgMaxCodes BY <1>0 DEF LgTypeOK
 <2> PICK i \in Issued : i = lgIssued[n] BY <2>1, <2>5
 <2> PICK j : j = [i EXCEPT !.tries = @ + 1] OBVIOUS
 <2>6. j \in Issued /\ j.user = u /\ j.purpose = purpose /\ j.did = <<>> /\ j.tries = c.tries + 1
   BY <2>1 DEF Issued
 <2>7. lgIssued' = [lgIssued EXCEPT ![n] = j] BY <1>2
 <2>8. /\ lgIssued' \in Seq(Issued) /\ Len(lgIssued') <= LgMaxCodes /\ DOMAIN lgIssued' = DOMAIN lgIssued
       /\ lgIssued'[n] = j /\ \A m \in DOMAIN lgIssued : m # n => lgIssued'[m] = lgIssued[m]
   BY <2>1, <2>5, <2>6, <2>7
 <2>9. ServerTypes' BY <1>0, <2>4, <2>8 DEF LgTypeOK, ServerTypes
 <2>10. ASSUME NEW p \in Purposes, NEW w \in LgUsers PROVE Live(p, w)'
  <3>1. CASE p = purpose /\ w = u BY <2>1, <2>2, <2>3, <2>4, <2>6, <2>8, <3>1, ZenonT(60) DEF Live
  <3>2. CASE p # purpose \/ w # u
   <4>1. Live(p, w) /\ lgCodes'[p][w] = lgCodes[p][w] BY <1>0, <2>4, <3>2 DEF CodesKept
   <4>2. lgCodes[p][w].code # 0 => lgCodes[p][w].code # n BY <2>1, <3>2, <4>1 DEF Live
   <4> QED BY <2>8, <4>1, <4>2 DEF Live
  <3> QED BY <3>1, <3>2
 <2>11. CodesKept'
  <3>1. ASSUME NEW m \in DOMAIN lgIssued'
        PROVE  /\ lgIssued'[m].tries <= LgMaxTries
               /\ lgIssued'[m].did \in {<<>>, <<[what |-> lgIssued'[m].purpose, user |-> lgIssued'[m].user]>>}
   <4>1. CASE m = n
    <5>1. lgIssued'[m] = j /\ c.tries + 1 <= LgMaxTries BY <2>1, <2>8, <4>1 DEF LgSizes
    <5>2. j.tries <= LgMaxTries /\ j.did = <<>> BY <2>6, <5>1
    <5> QED BY <5>1, <5>2
   <4>2. CASE m # n BY <1>0, <2>8, <4>2 DEF CodesKept
   <4> QED BY <4>1, <4>2
  <3> QED BY <2>10, <3>1 DEF CodesKept
 <2>12. Grows BY <2>1, <2>6, <2>8 DEF Grows
 <2>13. ASSUME NEW m, Spent(m) PROVE Spent(m)'
  <3>1. m \in DOMAIN lgIssued /\ m # n /\ m # 0 BY <1>0, <2>1, <2>5, <2>13 DEF Spent
  <3>2. \A p \in Purposes, w \in LgUsers : lgCodes'[p][w].code # m
   <4> SUFFICES ASSUME NEW p \in Purposes, NEW w \in LgUsers PROVE lgCodes'[p][w].code # m OBVIOUS
   <4>1. CASE p = purpose /\ w = u BY <2>2, <2>3, <2>4, <3>1, <4>1
   <4>2. CASE p # purpose \/ w # u BY <2>4, <2>13, <4>2 DEF Spent
   <4> QED BY <4>1, <4>2
  <3> QED BY <2>8, <2>13, <3>1, <3>2 DEF Spent
 <2> QED BY <2>9, <2>11, <2>12, <2>13
<1> QED BY <1>1, <1>2 DEF Rejected

\* A new code replaces the one before it.
LEMMA CreateKeeps ==
  ASSUME LgSizes, LgInv, NEW r \in LgRequests, CreateOTP(r)
  PROVE  LgInv'
<1>0. LgTypeOK /\ CodesKept /\ lgReq[r] \in Requests /\ Placed(lgReq[r]) /\ lgIssued \in Seq(Issued) /\ Len(lgIssued) \in Nat
  BY DEF LgInv, LgTypeOK
<1> PICK p \in Requests, n \in Nat : p = lgReq[r] /\ n = Len(lgIssued) + 1 BY <1>0
<1>1. UNCHANGED <<lgUsers, lgProved, lgTold>> /\ UNCHANGED Browser /\ n <= LgMaxCodes /\ p.at = "create"
  BY DEF CreateOTP, Browser, At
<1>2. p.user \in LgUsers /\ p.kind \in {"credentials", "reset"} /\ Purpose(r) \in Purposes
  BY <1>0, <1>1 DEF Placed, Purpose, Purposes
<1> PICK u \in LgUsers, purpose \in Purposes : u = p.user /\ purpose = Purpose(r) BY <1>2
<1> PICK c : c = [code |-> n, tries |-> 0] OBVIOUS
<1> PICK i : i = [user |-> u, purpose |-> purpose, tries |-> 0, did |-> <<>>] OBVIOUS
<1>3. lgCodes' = [lgCodes EXCEPT ![purpose][u] = c] /\ lgIssued' = Append(lgIssued, i) BY DEF CreateOTP
<1>4. c \in [code : 0..LgMaxCodes, tries : 0..LgMaxTries] /\ c.code = n /\ c.tries = 0 /\ i \in Issued
      /\ i.user = u /\ i.purpose = purpose /\ i.did = <<>> /\ i.tries = 0 BY <1>1 DEF Issued, LgSizes
<1>5. /\ lgCodes' \in [Purposes -> [LgUsers -> [code : 0..LgMaxCodes, tries : 0..LgMaxTries]]]
      /\ lgCodes'[purpose][u] = c
      /\ \A q \in Purposes, w \in LgUsers : q # purpose \/ w # u => lgCodes'[q][w] = lgCodes[q][w]
  BY <1>0, <1>3, <1>4 DEF LgTypeOK
<1>6. /\ lgIssued' \in Seq(Issued) /\ Len(lgIssued') = n /\ lgIssued'[n] = i
      /\ \A m \in DOMAIN lgIssued : m \in DOMAIN lgIssued' /\ lgIssued'[m] = lgIssued[m] /\ m # n
      /\ \A m \in DOMAIN lgIssued' : m = n \/ m \in DOMAIN lgIssued
      /\ n \in DOMAIN lgIssued' BY <1>0, <1>3, <1>4
<1>7. ServerTypes' BY <1>0, <1>1, <1>5, <1>6 DEF LgTypeOK, ServerTypes
<1>8. ASSUME NEW q \in Purposes, NEW w \in LgUsers PROVE Live(q, w)'
 <2>1. CASE q = purpose /\ w = u BY <1>4, <1>5, <1>6, <2>1 DEF Live, LgSizes
 <2>2. CASE q # purpose \/ w # u
  <3>1. Live(q, w) /\ lgCodes'[q][w] = lgCodes[q][w] BY <1>0, <1>5, <2>2 DEF CodesKept
  <3> QED BY <1>6, <3>1 DEF Live
 <2> QED BY <2>1, <2>2
<1>9. CodesKept'
 <2>1. ASSUME NEW m \in DOMAIN lgIssued'
       PROVE  /\ lgIssued'[m].tries <= LgMaxTries
              /\ lgIssued'[m].did \in {<<>>, <<[what |-> lgIssued'[m].purpose, user |-> lgIssued'[m].user]>>}
  <3>1. CASE m = n BY <1>4, <1>6, <3>1 DEF LgSizes
  <3>2. CASE m \in DOMAIN lgIssued BY <1>0, <1>6, <3>2 DEF CodesKept
  <3> QED BY <1>6, <3>1, <3>2
 <2> QED BY <1>8, <2>1 DEF CodesKept
<1>10. Grows BY <1>1, <1>6 DEF Grows
<1>11. ASSUME NEW m, Spent(m) PROVE Spent(m)'
 <2>1. m \in DOMAIN lgIssued /\ lgIssued[m].did = <<>> /\ \A q \in Purposes, w \in LgUsers : lgCodes[q][w].code # m
   BY <1>11 DEF Spent
 <2>2. m \in DOMAIN lgIssued' /\ lgIssued'[m].did = <<>> /\ m # n BY <1>6, <2>1
 <2>3. \A q \in Purposes, w \in LgUsers : lgCodes'[q][w].code # m
  <3> SUFFICES ASSUME NEW q \in Purposes, NEW w \in LgUsers PROVE lgCodes'[q][w].code # m OBVIOUS
  <3>1. CASE q = purpose /\ w = u BY <1>4, <1>5, <2>2, <3>1
  <3>2. CASE q # purpose \/ w # u
   <4>1. lgCodes'[q][w] = lgCodes[q][w] BY <1>5, <3>2
   <4> QED BY <2>1, <4>1
  <3> QED BY <3>1, <3>2
 <2> QED BY <2>2, <2>3 DEF Spent
<1>12. SpentStays(r) BY <1>1, <1>11, AllSpentStay
<1> PICK g : g = [Wrong EXCEPT !.code = n] OBVIOUS
<1>13. g \in Typed /\ g.code = n BY <1>1 DEF Wrong, Typed, SomeUser, LgSizes
<1> PICK q : q = [p EXCEPT !.at = "mail", !.guess = g] OBVIOUS
<1>14. q \in Requests /\ lgReq' = [lgReq EXCEPT ![r] = q]
 <2>1. lgReq' = [lgReq EXCEPT ![r] = q] BY DEF CreateOTP
 <2>2. [p EXCEPT !.at = "mail"] \in Requests BY DEF Requests, Places
 <2>3. \A t \in Requests : [t EXCEPT !.guess = g] \in Requests BY <1>13 DEF Requests
 <2>4. q \in Requests
  <3> PICK t \in Requests : t = [p EXCEPT !.at = "mail"] BY <2>2
  <3>1. q = [t EXCEPT !.guess = g] OBVIOUS
  <3> QED BY <2>3, <3>1
 <2> QED BY <2>1, <2>4
<1>15. /\ q.at = "mail" /\ q.user = p.user /\ q.kind = p.kind /\ q.guess = g /\ q.says = p.says
       /\ q.cookie = p.cookie /\ q.reply = p.reply BY DEF Requests
<1>16. p.says = "" /\ (p.kind = "credentials" => <<p.user, "password">> \in lgProved) BY <1>0, <1>1 DEF Placed
<1>17. Placed(q)'
 <2>1. Earned(q.cookie) /\ \A s \in Saved(q.reply) : Earned(s) BY <1>0, <1>15 DEF Placed
 <2>2. q.cookie \in Cookie /\ \A s \in Saved(q.reply) : s \in Cookie BY <1>14 DEF Requests, Saved
 <2>3. Earned(q.cookie)' /\ \A s \in Saved(q.reply) : Earned(s)' BY <1>10, <2>1, <2>2, EarnedStays
 <2>4. q.guess.code = n /\ lgIssued'[n].user = q.user /\ (q.kind = "reset" => lgIssued'[n].purpose = "password_reset")
   BY <1>4, <1>6, <1>13, <1>15 DEF Purpose
 <2>5. q.user \in LgUsers /\ q.kind \in {"credentials", "reset"} /\ q.says = ""
       /\ (q.kind = "credentials" => <<q.user, "password">> \in lgProved')
  <3>1. q.user \in LgUsers /\ q.kind \in {"credentials", "reset"} /\ q.says = "" BY <1>2, <1>15, <1>16
  <3>2. q.kind = "credentials" => <<q.user, "password">> \in lgProved'
   <4>1. lgProved' = lgProved BY <1>1
   <4>2. q.kind = p.kind /\ q.user = p.user BY <1>15
   <4>3. <<q.user, "password">> = <<p.user, "password">> BY <4>2
   <4>4. p.kind = "credentials" => <<p.user, "password">> \in lgProved BY <1>16
   <4> QED BY <4>1, <4>2, <4>3, <4>4
  <3> QED BY <3>1, <3>2
 <2> QED BY <1>6, <1>15, <2>3, <2>4, <2>5 DEF Placed
<1>18. ~(q.at = "update" \/ q.says = "db_error") BY <1>15, <1>16
<1> QED BY <1>1, <1>7, <1>9, <1>10, <1>12, <1>14, <1>17, <1>18, ServerStep

-----------------------------------------------------------------------------
\* A code that is sent in.
LEMMA LocalKeeps ==
  ASSUME LgSizes, LgInv, NEW r \in LgRequests, VerifyLocal(r)
  PROVE  LgInv'
<1>0. LgTypeOK /\ lgReq[r] \in Requests /\ Placed(lgReq[r]) BY DEF LgInv, LgTypeOK
<1>1. UNCHANGED <<lgJar, lgTold, lgUsers, lgCodes, lgIssued, lgLine, lgInputs>> BY DEF VerifyLocal, Browser
<1> PICK p \in Requests : p = lgReq[r] BY <1>0
<1>2. p.at = "verify" /\ p.kind = "code" BY DEF VerifyLocal, Submitted, At
<1>3. p.cookie \in Cookie /\ p.cookie.pend \in LgUsers /\ (p.guess.pin = Nobody \/ p.guess.code = 0) /\ Earned(p.cookie)
      /\ p.says = "" BY <1>0, <1>2 DEF Placed, Requests
<1> PICK s \in Cookie, u \in LgUsers : s = p.cookie /\ u = s.pend BY <1>3
<1> PICK z : z = clearPendingLoginState(s) OBVIOUS
<1>4. z \in Cookie /\ z.user = s.user /\ z.pend = Nobody /\ z.reset = s.reset
  BY SessionTypes DEF clearPendingLoginState, Cookie
<1>5. Earned(z) BY <1>3, <1>4 DEF Earned
<1>6. <<u, "password">> \in lgProved BY <1>3 DEF Earned, LgSizes
<1>7. CASE p.guess.pin = u
 <2>1. completeLogin(r, z, u) /\ lgProved' = lgProved \cup {<<u, "factor">>} BY <1>7 DEF VerifyLocal, Proves
 <2>2. Grows BY <1>1, <2>1 DEF Grows
 <2>3. Names(p, [z EXCEPT !.user = u])
  <3> PICK c : c = [z EXCEPT !.user = u] OBVIOUS
  <3>1. c.user = u BY <1>4 DEF Cookie
  <3>2. p.guess.code = 0 /\ p.kind # "credentials" BY <1>2, <1>3, <1>7 DEF LgSizes
  <3>3. Names(p, c) BY <1>7, <3>1, <3>2 DEF Names
  <3> QED BY <3>3
 <2>4. <<u, "password">> \in lgProved' /\ <<u, "factor">> \in lgProved' BY <1>6, <2>1
 <2>5. PICK q \in Requests : lgReq' = [lgReq EXCEPT ![r] = q] /\ Placed(q)' /\ q.at = "answer" /\ q.says # "db_error"
   BY <1>0, <1>4, <1>5, <2>1, <2>2, <2>3, <2>4, CompletedPlaced
 <2>6. lgProved' \subseteq LgUsers \X {"password", "factor"} BY <1>0, <2>1 DEF LgTypeOK
 <2>7. LgTypeOK' BY <1>0, <1>1, <2>5, <2>6, TypesKept DEF LgTypeOK
 <2> QED BY <1>1, <2>1, <2>5, <2>7, QuietStep
<1>8. CASE p.guess.pin # u
 <2>1. Reply(r, "wrong_otp", WrongLocal(s)) /\ lgProved' = lgProved BY <1>8 DEF VerifyLocal
 <2> PICK c \in Cookie : WrongLocal(s) = <<c>> BY SessionTypes
 <2> PICK d : d = [s EXCEPT !.tries = @ + 1] OBVIOUS
 <2>2. d.user = s.user /\ d.pend = s.pend /\ d.reset = s.reset BY DEF Cookie
 <2>3. c = z \/ c = d
  <3>1. WrongLocal(s) = <<IF d.tries >= LgMaxTries THEN z ELSE d>> BY DEF WrongLocal
  <3> QED BY <3>1
 <2>4. Earned(d) BY <1>3, <2>2 DEF Earned
 <2>5. Earned(c) BY <1>5, <2>3, <2>4
 <2>6. Earned(c)' BY <1>1, <2>1, <2>5 DEF Earned
 <2>7. <<c>> \in Seq(Cookie) /\ \A e \in Saved(<<c>>) : Earned(e)' BY <2>6, SavedReplies
 <2>8. Reply(r, "wrong_otp", <<c>>) BY <2>1
 <2> QED BY <1>0, <1>1, <2>1, <2>7, <2>8, ReplyKeeps DEF Says, LgTypeOK
<1> QED BY <1>7, <1>8

\* The challenge of a code that is accepted goes, and the code serves.
LEMMA Serves ==
  ASSUME LgSizes, LgInv, NEW purpose \in Purposes, NEW u \in LgUsers, NEW n \in DOMAIN lgIssued, lgIssued[n].purpose = purpose, lgIssued[n].user = u, lgIssued[n].did = <<>>,
         \A p \in Purposes, w \in LgUsers : lgCodes'[p][w] \in {lgCodes[p][w], NoChallenge} /\ lgCodes'[p][w].code # n,
         lgCodes' \in [Purposes -> [LgUsers -> [code : 0..LgMaxCodes, tries : 0..LgMaxTries]]],
         NEW j \in Issued, j.user = u, j.purpose = purpose, j.did = <<[what |-> purpose, user |-> u]>>,
         j.tries = lgIssued[n].tries, lgIssued' = [lgIssued EXCEPT ![n] = j],
         lgUsers' \in [LgUsers -> [method : Methods, password : Passwords]],
         \A w \in LgUsers : lgUsers'[w].method = lgUsers[w].method,
         lgProved \subseteq lgProved', lgProved' \subseteq LgUsers \X {"password", "factor"}
  PROVE  ServerTypes' /\ CodesKept' /\ Grows /\ \A m : Spent(m) /\ m # n => Spent(m)'
<1>0. LgTypeOK /\ CodesKept /\ lgIssued \in Seq(Issued) /\ Len(lgIssued) <= LgMaxCodes BY DEF LgInv, LgTypeOK
<1>4. /\ lgIssued' \in Seq(Issued) /\ Len(lgIssued') <= LgMaxCodes /\ DOMAIN lgIssued' = DOMAIN lgIssued
      /\ lgIssued'[n] = j /\ \A m \in DOMAIN lgIssued : m # n => lgIssued'[m] = lgIssued[m] BY <1>0
<1>5. ServerTypes' BY <1>4 DEF ServerTypes
<1>6. NoChallenge.code = 0 /\ \A m \in DOMAIN lgIssued : m # 0 BY <1>0 DEF NoChallenge
<1>7. ASSUME NEW p \in Purposes, NEW w \in LgUsers PROVE Live(p, w)'
 <2>1. Live(p, w) BY <1>0 DEF CodesKept
 <2>2. lgCodes'[p][w] \in {lgCodes[p][w], NoChallenge} /\ lgCodes'[p][w].code # n OBVIOUS
 <2> QED BY <1>4, <1>6, <2>1, <2>2 DEF Live
<1>8. CodesKept'
 <2>1. ASSUME NEW m \in DOMAIN lgIssued'
       PROVE  /\ lgIssued'[m].tries <= LgMaxTries
              /\ lgIssued'[m].did \in {<<>>, <<[what |-> lgIssued'[m].purpose, user |-> lgIssued'[m].user]>>}
  <3>1. CASE m = n
   <4>1. lgIssued'[m] = j /\ j.tries <= LgMaxTries BY <1>0, <1>4, <3>1 DEF CodesKept
   <4> QED BY <4>1
  <3>2. CASE m # n BY <1>0, <1>4, <3>2 DEF CodesKept
  <3> QED BY <3>1, <3>2
 <2> QED BY <1>7, <2>1 DEF CodesKept
<1>9. Grows BY <1>4 DEF Grows
<1>10. ASSUME NEW m, Spent(m), m # n PROVE Spent(m)'
 <2>1. m \in DOMAIN lgIssued /\ lgIssued[m].did = <<>> /\ \A p \in Purposes, w \in LgUsers : lgCodes[p][w].code # m
   BY <1>10 DEF Spent
 <2>2. \A p \in Purposes, w \in LgUsers : lgCodes'[p][w].code # m BY <1>6, <2>1
 <2> QED BY <1>4, <1>10, <2>1, <2>2 DEF Spent
<1> QED BY <1>5, <1>8, <1>9, <1>10

\* What a challenge says of its code, and that the code of one challenge is not that of another.
LEMMA OfItsOwn ==
  ASSUME LgSizes, LgInv, NEW purpose \in Purposes, NEW u \in LgUsers, NEW n, n # 0, lgCodes[purpose][u].code = n
  PROVE  /\ n \in DOMAIN lgIssued /\ lgIssued[n].purpose = purpose /\ lgIssued[n].user = u /\ lgIssued[n].did = <<>>
         /\ \A p \in Purposes, w \in LgUsers : p # purpose \/ w # u => lgCodes[p][w].code # n
         /\ ~Spent(n)
<1>1. \A p \in Purposes, w \in LgUsers : Live(p, w) BY DEF LgInv, CodesKept
<1>2. /\ n \in DOMAIN lgIssued /\ lgIssued[n].purpose = purpose /\ lgIssued[n].user = u /\ lgIssued[n].did = <<>>
  BY <1>1 DEF Live
<1>3. \A p \in Purposes, w \in LgUsers : p # purpose \/ w # u => lgCodes[p][w].code # n BY <1>1, <1>2 DEF Live
<1>4. ~Spent(n) BY DEF Spent
<1> QED BY <1>2, <1>3, <1>4

\* Taking a challenge away spends its code.
LEMMA ChallengeGone ==
  ASSUME LgSizes, LgTypeOK, NEW purpose \in Purposes, NEW u \in LgUsers, Accepted(purpose, u)
  PROVE  /\ lgCodes' \in [Purposes -> [LgUsers -> [code : 0..LgMaxCodes, tries : 0..LgMaxTries]]]
         /\ lgCodes' = [lgCodes EXCEPT ![purpose][u] = NoChallenge]
         /\ lgCodes'[purpose][u].code = 0
         /\ \A p \in Purposes, w \in LgUsers : lgCodes'[p][w] \in {lgCodes[p][w], NoChallenge}
         /\ \A p \in Purposes, w \in LgUsers : p # purpose \/ w # u => lgCodes'[p][w] = lgCodes[p][w]
<1>1. NoChallenge \in [code : 0..LgMaxCodes, tries : 0..LgMaxTries] /\ NoChallenge.code = 0
  BY DEF NoChallenge, LgSizes
<1>2. lgCodes' = [lgCodes EXCEPT ![purpose][u] = NoChallenge] BY DEF Accepted
<1>3. lgCodes \in [Purposes -> [LgUsers -> [code : 0..LgMaxCodes, tries : 0..LgMaxTries]]] BY DEF LgTypeOK
<1> QED BY <1>1, <1>2, <1>3

\* A wrong code is answered without a session.
LEMMA WrongCodeKeeps ==
  ASSUME LgSizes, LgInv, NEW r \in LgRequests, NEW purpose \in Purposes, NEW u \in LgUsers, Rejected(purpose, u),
         Reply(r, "wrong_otp", <<>>), UNCHANGED <<lgUsers, lgProved>>, UNCHANGED Browser
  PROVE  LgInv'
<1>1. ServerTypes' /\ CodesKept' /\ Grows /\ \A m : Spent(m) => Spent(m)' BY RejectedKeeps
<1>2. SpentStays(r) BY <1>1, AllSpentStay DEF Browser
<1>3. <<>> \in Seq(Cookie) /\ \A d \in Saved(<<>>) : Earned(d)' BY SavedReplies
<1> QED BY <1>1, <1>2, <1>3, ReplyStep DEF Says

\* The code of an e-mail signs in its user, and is spent.
LEMMA EmailKeeps ==
  ASSUME LgSizes, LgInv, NEW r \in LgRequests, VerifyEmail(r)
  PROVE  LgInv'
<1>0. LgTypeOK /\ lgReq[r] \in Requests /\ Placed(lgReq[r]) BY DEF LgInv, LgTypeOK
<1>1. UNCHANGED <<lgUsers, lgTold>> /\ UNCHANGED Browser BY DEF VerifyEmail, Browser
<1> PICK p \in Requests : p = lgReq[r] BY <1>0
<1>2. p.at = "verify" /\ p.kind = "code" BY DEF VerifyEmail, Submitted, At
<1>3. p.cookie \in Cookie /\ p.cookie.pend \in LgUsers /\ (p.guess.pin = Nobody \/ p.guess.code = 0) /\ Earned(p.cookie)
      /\ p.says = "" BY <1>0, <1>2 DEF Placed, Requests
<1> PICK s \in Cookie, u \in LgUsers : s = p.cookie /\ u = s.pend BY <1>3
<1> PICK n : n = p.guess.code OBVIOUS
<1>4. "login" \in Purposes BY DEF Purposes
<1>5. CASE ~Accepts("login", u, p.guess)
 <2>1. Rejected("login", u) /\ Reply(r, "wrong_otp", <<>>) /\ UNCHANGED lgProved BY <1>5 DEF VerifyEmail
 <2> QED BY <1>1, <1>4, <2>1, WrongCodeKeeps
<1>6. CASE Accepts("login", u, p.guess)
 <2> PICK z : z = clearPendingLoginState(s) OBVIOUS
 <2>1. z \in Cookie /\ z.user = s.user /\ z.pend = Nobody /\ z.reset = s.reset
   BY SessionTypes DEF clearPendingLoginState, Cookie
 <2>2. Earned(z) BY <1>3, <2>1 DEF Earned
 <2>3. <<u, "password">> \in lgProved BY <1>3 DEF Earned, LgSizes
 <2>4. /\ Accepted("login", u) /\ lgProved' = lgProved \cup {<<u, "factor">>} /\ completeLogin(r, z, u)
       /\ lgIssued' = [lgIssued EXCEPT ![n].did = Append(@, [what |-> "login", user |-> u])]
   BY <1>6 DEF VerifyEmail, Proves
 <2>5. n # 0 /\ lgCodes["login"][u].code = n BY <1>6 DEF Accepts
 <2>6. /\ n \in DOMAIN lgIssued /\ lgIssued[n].purpose = "login" /\ lgIssued[n].user = u /\ lgIssued[n].did = <<>>
       /\ \A q \in Purposes, w \in LgUsers : q # "login" \/ w # u => lgCodes[q][w].code # n
       /\ ~Spent(n) BY <1>4, <2>5, OfItsOwn
 <2>7. /\ lgCodes' \in [Purposes -> [LgUsers -> [code : 0..LgMaxCodes, tries : 0..LgMaxTries]]]
       /\ lgCodes'["login"][u].code = 0
       /\ \A q \in Purposes, w \in LgUsers : lgCodes'[q][w] \in {lgCodes[q][w], NoChallenge}
       /\ \A q \in Purposes, w \in LgUsers : q # "login" \/ w # u => lgCodes'[q][w] = lgCodes[q][w]
   BY <1>0, <1>4, <2>4, ChallengeGone
 <2>8. \A q \in Purposes, w \in LgUsers : lgCodes'[q][w] \in {lgCodes[q][w], NoChallenge} /\ lgCodes'[q][w].code # n
   BY <2>5, <2>6, <2>7
 <2>9. lgProved \subseteq lgProved' /\ lgProved' \subseteq LgUsers \X {"password", "factor"}
   BY <1>0, <2>4 DEF LgTypeOK
 <2>10. lgUsers' \in [LgUsers -> [method : Methods, password : Passwords]] /\ \A w \in LgUsers : lgUsers'[w].method = lgUsers[w].method
   BY <1>0, <1>1 DEF LgTypeOK
 <2>11. ServerTypes' /\ CodesKept' /\ Grows /\ \A m : Spent(m) /\ m # n => Spent(m)'
  <3> PICK purpose \in Purposes : purpose = "login" BY <1>4
  <3>1. n \in DOMAIN lgIssued /\ lgIssued[n].purpose = purpose /\ lgIssued[n].user = u /\ lgIssued[n].did = <<>>
    BY <2>6
  <3> PICK j : j = [lgIssued[n] EXCEPT !.did = <<[what |-> purpose, user |-> u]>>] OBVIOUS
  <3>2. /\ j \in Issued /\ j.user = u /\ j.purpose = purpose /\ j.did = <<[what |-> purpose, user |-> u]>>
       /\ j.tries = lgIssued[n].tries
   <4>1. lgIssued[n] \in Issued BY <1>0, <3>1 DEF LgTypeOK
   <4>2. <<[what |-> purpose, user |-> u]>> \in Seq([what : Purposes, user : LgUsers]) OBVIOUS
   <4> QED BY <3>1, <4>1, <4>2 DEF Issued
  <3>3. lgIssued' = [lgIssued EXCEPT ![n] = j]
   <4>1. Append(<<>>, [what |-> purpose, user |-> u]) = <<[what |-> purpose, user |-> u]>> OBVIOUS
   <4> QED BY <2>4, <3>1, <4>1
  <3>4. lgCodes' \in [Purposes -> [LgUsers -> [code : 0..LgMaxCodes, tries : 0..LgMaxTries]]] BY <2>7
  <3> QED BY <2>8, <2>9, <2>10, <3>1, <3>2, <3>3, <3>4, Serves
 <2>12. \A m : Spent(m) => Spent(m)' BY <2>6, <2>11
 <2>13. SpentStays(r) BY <1>1, <2>12, AllSpentStay
 <2>14. Names(p, [z EXCEPT !.user = u])
  <3> PICK c : c = [z EXCEPT !.user = u] OBVIOUS
  <3>1. c.user = u BY <2>1 DEF Cookie
  <3>2. p.guess.pin = Nobody BY <1>3, <2>5
  <3>3. Names(p, c) BY <1>2, <2>6, <3>1, <3>2 DEF Names
  <3> QED BY <3>3
 <2>15. <<u, "password">> \in lgProved' /\ <<u, "factor">> \in lgProved' BY <2>3, <2>4
 <2>16. PICK q \in Requests : lgReq' = [lgReq EXCEPT ![r] = q] /\ Placed(q)' /\ q.at = "answer" /\ q.says # "db_error"
   BY <1>0, <2>1, <2>2, <2>4, <2>11, <2>14, <2>15, CompletedPlaced
 <2> QED BY <1>1, <2>11, <2>13, <2>16, ServerStep
<1> QED BY <1>5, <1>6

\* The code of a reset lets one request go on, and is spent.
LEMMA ResetKeeps ==
  ASSUME LgSizes, LgInv, NEW r \in LgRequests, VerifyReset(r)
  PROVE  LgInv'
<1>0. LgTypeOK /\ lgReq[r] \in Requests /\ Placed(lgReq[r]) BY DEF LgInv, LgTypeOK
<1>1. UNCHANGED <<lgUsers, lgProved, lgTold>> /\ UNCHANGED Browser BY DEF VerifyReset, Browser
<1> PICK p \in Requests : p = lgReq[r] BY <1>0
<1>2. p.at = "verify" /\ p.kind = "confirm" BY DEF VerifyReset, Submitted, At
<1>3. p.cookie.reset \in LgUsers /\ p.says = "" BY <1>0, <1>2 DEF Placed
<1> PICK u \in LgUsers : u = p.cookie.reset BY <1>3
<1> PICK n : n = p.guess.code OBVIOUS
<1>4. "password_reset" \in Purposes BY DEF Purposes
<1>5. CASE ~Accepts("password_reset", u, p.guess)
 <2>1. Rejected("password_reset", u) /\ Reply(r, "wrong_otp", <<>>) BY <1>5 DEF VerifyReset
 <2> QED BY <1>1, <1>4, <2>1, WrongCodeKeeps
<1>6. CASE Accepts("password_reset", u, p.guess)
 <2>1. Accepted("password_reset", u) /\ Goto(r, "update") /\ UNCHANGED lgIssued BY <1>6 DEF VerifyReset
 <2>2. n # 0 /\ lgCodes["password_reset"][u].code = n BY <1>6 DEF Accepts
 <2>3. /\ n \in DOMAIN lgIssued /\ lgIssued[n].purpose = "password_reset" /\ lgIssued[n].user = u /\ lgIssued[n].did = <<>>
       /\ \A q \in Purposes, w \in LgUsers : q # "password_reset" \/ w # u => lgCodes[q][w].code # n
       /\ ~Spent(n) BY <1>4, <2>2, OfItsOwn
 <2>4. /\ lgCodes' = [lgCodes EXCEPT !["password_reset"][u] = NoChallenge]
       /\ lgCodes'["password_reset"][u].code = 0
       /\ \A q \in Purposes, w \in LgUsers : q # "password_reset" \/ w # u => lgCodes'[q][w] = lgCodes[q][w]
   BY <1>0, <1>4, <2>1, ChallengeGone
 <2>5. lgProved \subseteq lgProved' /\ lgProved' \subseteq LgUsers \X {"password", "factor"}
   BY <1>0, <1>1 DEF LgTypeOK
 <2>6. ServerTypes' /\ CodesKept' /\ Grows /\ \A m : Spent(m) => Spent(m)'
   BY <1>1, <1>4, <2>1, <2>4, <2>5, Cleared
 <2>7. SpentStays(r) BY <1>1, <2>6, AllSpentStay
 <2>8. Spent(n)'
  <3>1. \A q \in Purposes, w \in LgUsers : lgCodes'[q][w].code # n BY <2>2, <2>3, <2>4
  <3> QED BY <2>1, <2>3, <3>1 DEF Spent
 <2> PICK q : q = [p EXCEPT !.at = "update"] OBVIOUS
 <2>9. q \in Requests /\ lgReq' = [lgReq EXCEPT ![r] = q] BY <2>1 DEF Goto, Requests, Places
 <2>10. /\ q.at = "update" /\ q.user = p.user /\ q.kind = p.kind /\ q.guess = p.guess /\ q.says = p.says
        /\ q.cookie = p.cookie /\ q.reply = p.reply BY DEF Requests
 <2>11. Earned(q.cookie)' /\ \A d \in Saved(q.reply) : Earned(d)'
  <3>1. Earned(q.cookie) /\ \A d \in Saved(q.reply) : Earned(d) BY <1>0, <2>10 DEF Placed
  <3>2. q.cookie \in Cookie /\ \A d \in Saved(q.reply) : d \in Cookie BY <2>9 DEF Requests, Saved
  <3> QED BY <2>6, <3>1, <3>2, EarnedStays
 <2>12. Placed(q)'
  <3>1. q.at = "update" /\ q.says = "" /\ q.kind = "confirm" /\ q.cookie.reset = u /\ q.guess.code = n
    BY <1>2, <1>3, <2>10
  <3>2. lgIssued'[n].user = u /\ lgIssued'[n].purpose = "password_reset" BY <2>1, <2>3
  <3> QED BY <2>8, <2>11, <3>1, <3>2 DEF Placed
 <2>13. Alone(r, q.guess.code)
  <3>1. \A t \in LgRequests : Updating(t) \/ lgReq[t].says = "db_error" => Spent(lgReq[t].guess.code)
    BY DEF LgInv, Placed, Updating
  <3>2. lgTold.says = "db_error" => Spent(lgTold.guess.code) BY DEF LgInv
  <3>3. q.guess.code = n BY <2>10
  <3> QED BY <2>3, <3>1, <3>2, <3>3 DEF Alone
 <2> QED BY <1>1, <2>6, <2>7, <2>9, <2>12, <2>13, ServerStep
<1> QED BY <1>5, <1>6

\* The new password is what the code was spent on.
LEMMA UpdateKeeps ==
  ASSUME LgSizes, LgInv, NEW r \in LgRequests, UpdatePassword(r)
  PROVE  LgInv'
<1>0. LgTypeOK /\ lgReq[r] \in Requests /\ Placed(lgReq[r]) /\ Apart /\ CodesKept BY DEF LgInv, LgTypeOK
<1>1. UNCHANGED <<lgCodes, lgProved, lgTold>> /\ UNCHANGED Browser BY DEF UpdatePassword, Browser
<1> PICK p \in Requests : p = lgReq[r] BY <1>0
<1>2. p.at = "update" /\ Updating(r) BY DEF UpdatePassword, At, Updating
<1>3. /\ p.cookie \in Cookie /\ p.cookie.reset \in LgUsers /\ p.password \in Passwords
      /\ Spent(p.guess.code) /\ lgIssued[p.guess.code].user = p.cookie.reset
      /\ lgIssued[p.guess.code].purpose = "password_reset" /\ Earned(p.cookie)
  BY <1>0, <1>2 DEF Placed, Requests
<1> PICK s \in Cookie, u \in LgUsers : s = p.cookie /\ u = s.reset BY <1>3
<1> PICK n : n = p.guess.code OBVIOUS
<1>4. /\ lgUsers' = [lgUsers EXCEPT ![u].password = p.password]
      /\ lgIssued' = [lgIssued EXCEPT ![n].did = Append(@, [what |-> "password_reset", user |-> u])]
  BY DEF UpdatePassword
<1> PICK c : c = [s EXCEPT !.reset = Nobody] OBVIOUS
<1>5. Reply(r, "password_reset", <<c>>) \/ Reply(r, "unconfirmed", <<>>) BY DEF UpdatePassword
<1>6. c \in Cookie /\ c.user = s.user /\ c.pend = s.pend /\ c.reset = Nobody
  BY SessionTypes DEF SomeUser, Cookie
<1>7. /\ n \in DOMAIN lgIssued /\ lgIssued[n].purpose = "password_reset" /\ lgIssued[n].user = u /\ lgIssued[n].did = <<>>
      /\ \A q \in Purposes, w \in LgUsers : lgCodes[q][w].code # n BY <1>3 DEF Spent
<1>8. lgUsers' \in [LgUsers -> [method : Methods, password : Passwords]] /\ \A w \in LgUsers : lgUsers'[w].method = lgUsers[w].method
 <2>1. lgUsers \in [LgUsers -> [method : Methods, password : Passwords]] BY <1>0 DEF LgTypeOK
 <2> PICK a \in [method : Methods, password : Passwords] : a = lgUsers[u] BY <2>1
 <2> PICK b : b = [a EXCEPT !.password = p.password] OBVIOUS
 <2>2. b \in [method : Methods, password : Passwords] /\ b.method = a.method BY <1>3
 <2>3. lgUsers' = [lgUsers EXCEPT ![u] = b] BY <1>4
 <2> QED BY <2>1, <2>2, <2>3
<1>9. lgCodes' \in [Purposes -> [LgUsers -> [code : 0..LgMaxCodes, tries : 0..LgMaxTries]]]
      /\ \A q \in Purposes, w \in LgUsers : lgCodes'[q][w] \in {lgCodes[q][w], NoChallenge} /\ lgCodes'[q][w].code # n
  BY <1>0, <1>1, <1>7 DEF LgTypeOK
<1>10. lgProved \subseteq lgProved' /\ lgProved' \subseteq LgUsers \X {"password", "factor"} /\ "password_reset" \in Purposes
  BY <1>0, <1>1 DEF LgTypeOK, Purposes
<1>11. ServerTypes' /\ CodesKept' /\ Grows /\ \A m : Spent(m) /\ m # n => Spent(m)'
 <2> PICK purpose \in Purposes : purpose = "password_reset" BY <1>10
 <2>1. n \in DOMAIN lgIssued /\ lgIssued[n].purpose = purpose /\ lgIssued[n].user = u /\ lgIssued[n].did = <<>>
   BY <1>7
 <2> PICK j : j = [lgIssued[n] EXCEPT !.did = <<[what |-> purpose, user |-> u]>>] OBVIOUS
 <2>2. /\ j \in Issued /\ j.user = u /\ j.purpose = purpose /\ j.did = <<[what |-> purpose, user |-> u]>>
      /\ j.tries = lgIssued[n].tries
  <3>1. lgIssued[n] \in Issued BY <1>0, <2>1 DEF LgTypeOK
  <3>2. <<[what |-> purpose, user |-> u]>> \in Seq([what : Purposes, user : LgUsers]) OBVIOUS
  <3> QED BY <2>1, <3>1, <3>2 DEF Issued
 <2>3. lgIssued' = [lgIssued EXCEPT ![n] = j]
  <3>1. Append(<<>>, [what |-> purpose, user |-> u]) = <<[what |-> purpose, user |-> u]>> OBVIOUS
  <3> QED BY <1>4, <2>1, <3>1
 <2> QED BY <1>8, <1>9, <1>10, <2>1, <2>2, <2>3, Serves
<1>12. SpentStays(r)
 <2>1. \A t \in LgRequests : Updating(t) \/ lgReq[t].says = "db_error" => Spent(lgReq[t].guess.code)
   BY DEF LgInv, Placed, Updating
 <2>2. lgTold.says = "db_error" => Spent(lgTold.guess.code) /\ lgTold.guess.code # n
   BY <1>0, <1>2 DEF LgInv, Apart
 <2>3. \A t \in LgRequests \ {r} : Updating(t) \/ lgReq[t].says = "db_error" => lgReq[t].guess.code # n
   BY <1>0, <1>2 DEF Apart
 <2> QED BY <1>11, <2>1, <2>2, <2>3 DEF SpentStays
<1>13. Earned(s)' BY <1>3, <1>11, EarnedStays
<1>14. Earned(c)' BY <1>6, <1>13 DEF Earned
<1>15. <<c>> \in Seq(Cookie) /\ \A d \in Saved(<<c>>) : Earned(d)' BY <1>6, <1>14, SavedReplies
<1>16. CASE Reply(r, "password_reset", <<c>>) BY <1>1, <1>11, <1>12, <1>15, <1>16, ReplyStep DEF Says
<1>17. CASE Reply(r, "unconfirmed", <<>>)
 <2>1. <<>> \in Seq(Cookie) /\ \A d \in Saved(<<>>) : Earned(d)' BY SavedReplies
 <2> QED BY <1>1, <1>11, <1>12, <1>17, <2>1, ReplyStep DEF Says
<1> QED BY <1>5, <1>16, <1>17

-----------------------------------------------------------------------------
\* It holds at first.
LEMMA LgStarts ==
  ASSUME LgSizes, LgInit
  PROVE  LgInv
<1>1. LgTypeOK
 <2>1. lgReq \in [LgRequests -> Requests] /\ lgJar \in Cookie BY SessionTypes DEF LgInit
 <2>2. lgUsers \in [LgUsers -> [method : Methods, password : Passwords]] BY DEF LgInit, Passwords
 <2>3. lgCodes \in [Purposes -> [LgUsers -> [code : 0..LgMaxCodes, tries : 0..LgMaxTries]]]
   BY DEF LgInit, NoChallenge, LgSizes
 <2>4. lgTold \in [kind : Kinds, user : SomeUser, guess : Typed, says : Says]
   BY SessionTypes DEF LgInit, Told, Idle, Kinds, Says, SomeUser
 <2>5. lgIssued \in Seq(Issued) /\ Len(lgIssued) <= LgMaxCodes /\ lgProved \subseteq LgUsers \X {"password", "factor"}
   BY DEF LgInit, LgSizes
 <2>6. lgLine \in [user : SomeUser, wrong : Nat, alone : BOOLEAN] /\ lgInputs \in 0..LgMaxInputs
   BY DEF LgInit, SomeUser, LgSizes
 <2> QED BY <2>1, <2>2, <2>3, <2>4, <2>5, <2>6 DEF LgTypeOK
<1>2. lgIssued = <<>> /\ DOMAIN lgIssued = {} BY DEF LgInit
<1>3. CodesKept BY <1>2 DEF LgInit, CodesKept, Live, NoChallenge
<1>4. Idle.at = "idle" /\ Idle.says = "" /\ Idle.reply = <<>> /\ Idle.cookie = Empty /\ lgTold.says = ""
  BY DEF LgInit, Idle, Told
<1>5. Placed(Idle)
 <2>1. Saved(Idle.reply) = {} BY <1>4, SavedReplies
 <2> QED BY <1>4, <2>1, NothingEarned DEF Placed
<1>6. \A r \in LgRequests : lgReq[r] = Idle BY DEF LgInit
<1>7. Apart /\ SignedInAsTold BY <1>4, <1>6 DEF Apart, Updating, SignedInAsTold
<1>8. Earned(lgJar) BY NothingEarned DEF LgInit
<1> QED BY <1>1, <1>3, <1>4, <1>5, <1>6, <1>7, <1>8 DEF LgInv

\* It holds when nothing happens.
LEMMA LgStutters ==
  ASSUME LgInv, UNCHANGED lgVars
  PROVE  LgInv'
<1>1. UNCHANGED <<lgJar, lgUsers, lgCodes, lgReq, lgIssued, lgProved, lgTold, lgLine, lgInputs>> BY DEF lgVars
<1>2. LgTypeOK' BY <1>1 DEF LgInv, LgTypeOK
<1>3. CodesKept' /\ Apart' /\ SignedInAsTold' /\ Earned(lgJar)'
  BY <1>1 DEF LgInv, CodesKept, Live, Apart, Updating, SignedInAsTold, Names, Earned
<1>4. \A r \in LgRequests : Placed(lgReq[r])'
 <2>0. LgTypeOK BY DEF LgInv
 <2> SUFFICES ASSUME NEW r \in LgRequests PROVE Placed(lgReq[r])' OBVIOUS
 <2> PICK q : q = lgReq[r] OBVIOUS
 <2>1. Placed(q) BY DEF LgInv
 <2>2. \A s : Earned(s) => Earned(s)' BY <1>1 DEF Earned
 <2>3. \A n : Spent(n) => Spent(n)' BY <1>1 DEF Spent
 <2>4. \A s : Names(q, s) => Names(q, s)' BY <1>1 DEF Names
 <2>5. Placed(q)' BY <1>1, <2>1, <2>2, <2>3, <2>4 DEF Placed
 <2>6. lgReq'[r] = q BY <1>1
 <2> QED BY <2>5, <2>6
<1>5. lgTold'.says = "db_error" => Spent(lgTold.guess.code)' BY <1>1 DEF LgInv, Spent
<1> QED BY <1>2, <1>3, <1>4, <1>5 DEF LgInv

\* Every step keeps it.
LEMMA LgSteps ==
  ASSUME LgSizes, LgInv, LgNext
  PROVE  LgInv'
<1> PICK r \in LgRequests :
        \/ \E u \in LgUsers : AskForReset(r, u) \/ \E p \in Passwords : SendCredentials(r, u, p)
        \/ \E g \in Guesses : SendCode(r, g) \/ SendNewPassword(r, g, "new")
        \/ Logout(r) \/ Arrive(r) \/ Lose(r)
        \/ CreateOTP(r) \/ RefuseCode(r) \/ MailSent(r) \/ MailFails(r)
        \/ VerifyPassword(r) \/ handleLoginCredentials(r)
        \/ VerifyLocal(r) \/ VerifyEmail(r)
        \/ VerifyReset(r) \/ UpdatePassword(r) \/ UpdateFails(r) BY DEF LgNext
<1>1. CASE \/ \E u \in LgUsers : AskForReset(r, u) \/ \E p \in Passwords : SendCredentials(r, u, p)
           \/ \E g \in Guesses : SendCode(r, g) \/ SendNewPassword(r, g, "new") BY <1>1, SendingKeeps
<1>2. CASE Logout(r) \/ Arrive(r) \/ Lose(r) BY <1>2, LogoutKeeps, ArriveKeeps, LoseKeeps
<1>3. CASE CreateOTP(r) \/ RefuseCode(r) \/ MailSent(r) \/ MailFails(r)
  BY <1>3, CreateKeeps, RefuseKeeps, MailSentKeeps, MailFailsKeeps
<1>4. CASE VerifyPassword(r) \/ handleLoginCredentials(r) \/ VerifyLocal(r) \/ VerifyEmail(r)
  BY <1>4, VerifyPasswordKeeps, CredentialsKeep, LocalKeeps, EmailKeeps
<1>5. CASE VerifyReset(r) \/ UpdatePassword(r) \/ UpdateFails(r)
  BY <1>5, ResetKeeps, UpdateKeeps, UpdateFailsKeeps
<1> QED BY <1>1, <1>2, <1>3, <1>4, <1>5

-----------------------------------------------------------------------------
(* PendingAsTold, by LineKept *)

SameFactors == \A u \in LgUsers : lgUsers'[u].method = lgUsers[u].method
UnderWay(r) == ~At(r, "idle") /\ ~At(r, "answer")

\* A step of the server: the request goes on with its copy of the session, or is answered.
LEMMA ServerLine ==
  ASSUME LgSizes, LgInv, LineKept, SameFactors, UNCHANGED <<lgJar, lgLine>>,
         NEW r \in LgRequests, UnderWay(r), NEW q \in Requests, lgReq' = [lgReq EXCEPT ![r] = q],
         q.at # "answer" => q.cookie = lgReq[r].cookie /\ q.at # "verify",
         q.says = "otp_required" => Waits(q),
         lgLine.user # Nobody /\ Line(lgReq[r].cookie) /\ q.at = "answer" => AnswerFollows(q)'
  PROVE  LineKept'
<1>0. LgTypeOK BY DEF LgInv
<1>1. lgReq'[r] = q /\ \A p \in LgRequests \ {r} : lgReq'[p] = lgReq[p] BY <1>0, OneRequest
<1>2. \A p \in LgRequests : lgReq'[p].says = "otp_required" => Waits(lgReq'[p]) BY <1>1 DEF LineKept
<1>3. \A p \in LgRequests : lgReq'[p].at = "verify" /\ lgReq'[p].kind = "code" => lgReq'[p].user = lgReq'[p].cookie.pend
  BY <1>1 DEF LineKept, At
<1>4. ASSUME lgLine.alone
      PROVE  /\ \A p \in LgRequests \ {r} : lgReq'[p].at = "idle"
             /\ lgReq[r].cookie = lgJar /\ (q.at = "answer" \/ q.cookie = lgJar')
             /\ lgLine.user # Nobody => Line(lgJar)' /\ (q.at = "answer" => AnswerFollows(q)')
 <2>1. /\ \A p \in LgRequests \ {r} : lgReq'[p].at = "idle"
       /\ lgReq[r].cookie = lgJar /\ (q.at = "answer" \/ q.cookie = lgJar')
   BY <1>1, <1>4 DEF LineKept, At, UnderWay
 <2>2. ASSUME lgLine.user # Nobody PROVE Line(lgJar)' /\ (q.at = "answer" => AnswerFollows(q)')
  <3>1. lgLine.user \in LgUsers /\ Line(lgJar) BY <1>0, <1>4, <2>2 DEF LgTypeOK, SomeUser, LineKept
  <3>2. Line(lgJar)' BY <3>1 DEF Line, SameFactors
  <3> QED BY <2>1, <2>2, <3>1, <3>2
 <2> QED BY <2>1, <2>2
<1>5. ASSUME lgLine'.alone
      PROVE  /\ \A p, t \in LgRequests : p # t => At(p, "idle")' \/ At(t, "idle")'
             /\ \A p \in LgRequests : At(p, "idle")' \/ At(p, "answer")' \/ lgReq'[p].cookie = lgJar'
             /\ lgLine'.user # Nobody => Line(lgJar)' /\ \A p \in LgRequests : At(p, "answer")' => AnswerFollows(lgReq[p])'
 <2>1. /\ \A p \in LgRequests \ {r} : lgReq'[p].at = "idle"
       /\ lgReq[r].cookie = lgJar /\ (q.at = "answer" \/ q.cookie = lgJar')
       /\ lgLine.user # Nobody => Line(lgJar)' /\ (q.at = "answer" => AnswerFollows(q)') BY <1>4, <1>5
 <2>2. ASSUME NEW p \in LgRequests, lgReq'[p].at = "answer", lgLine.user # Nobody PROVE AnswerFollows(lgReq[p])'
  <3>1. p = r /\ lgReq'[p] = q BY <1>1, <2>1, <2>2
  <3> QED BY <2>1, <2>2, <3>1
 <2> QED BY <1>1, <2>1, <2>2 DEF At
<1> QED BY <1>2, <1>3, <1>5 DEF LineKept, At, Waits

LeavesLine(r, says, saved) ==
    /\ says \notin {"otp_required", "authenticated", "session_error"}
    /\ says = "wrong_otp" /\ lgReq[r].kind = "code" => lgUsers'[lgReq[r].user].method # "local"
    /\ saved # <<>> => saved[1].pend = lgReq[r].cookie.pend /\ saved[1].tries = lgReq[r].cookie.tries

\* An answer that leaves the pending sign-in of the session as it was, begins one or ends it.
LEMMA AnswerLine ==
  ASSUME LgSizes, LgInv, LineKept, SameFactors, UNCHANGED <<lgJar, lgLine>>,
         NEW r \in LgRequests, UnderWay(r), NEW says \in Says, NEW saved \in Seq(Cookie), Reply(r, says, saved),
         \/ says \in {"authenticated", "session_error"}
         \/ says = "otp_required" /\ saved # <<>> /\ saved[1].pend = lgReq[r].user /\ saved[1].tries = 0
         \/ LeavesLine(r, says, saved)
  PROVE  LineKept'
<1>0. LgTypeOK /\ lgReq[r] \in Requests BY DEF LgInv, LgTypeOK
<1> PICK p \in Requests : p = lgReq[r] BY <1>0
<1> PICK q : q = Answer(p, says, saved) OBVIOUS
<1>1. q.at = "answer" /\ q.says = says /\ q.reply = saved /\ q.kind = p.kind /\ q.user = p.user
  BY DEF Answer, Idle
<1>2. q \in Requests BY AnswerTypes
<1>3. lgReq' = [lgReq EXCEPT ![r] = q] BY DEF Reply
<1>4. q.says = "otp_required" => Waits(q) BY <1>1 DEF Waits, LeavesLine
<1>5. ASSUME lgLine.user # Nobody, Line(lgReq[r].cookie) PROVE AnswerFollows(q)'
 <2>1. CASE says \in {"authenticated", "session_error", "otp_required"}
   BY <1>1, <2>1 DEF AnswerFollows, WrongGuess
 <2>2. CASE says \notin {"authenticated", "session_error", "otp_required"}
  <3>0. LeavesLine(r, says, saved) BY <2>2
  <3>1. ~WrongGuess(q)' BY <1>1, <3>0 DEF WrongGuess, LeavesLine
  <3>2. saved = <<>> \/ Line(saved[1])'
   <4>1. lgLine.user \in LgUsers BY <1>0, <1>5 DEF LgTypeOK, SomeUser
   <4> QED BY <1>5, <3>0, <4>1 DEF Line, SameFactors, LeavesLine
  <3>3. AnswerFollows(q)' BY <1>1, <3>1, <3>2 DEF AnswerFollows
  <3> QED BY <3>3
 <2> QED BY <2>1, <2>2
<1> QED BY <1>1, <1>2, <1>3, <1>4, <1>5, ServerLine

\* A request is sent with the session of the browser.
LEMMA SendLine ==
  ASSUME LgSizes, LgInv, LineKept, NEW r \in LgRequests, NEW q \in Requests, Free(r), UNCHANGED <<lgJar, lgUsers>>,
         lgReq' = [lgReq EXCEPT ![r] = q], lgLine' = NotAlone, q.says # "otp_required",
         \/ q.at \notin {"idle", "answer"} /\ q.cookie = lgJar /\ (q.kind = "code" => q.user = lgJar.pend)
         \/ q.at = "answer" /\ q.says = "logged_out"
  PROVE  LineKept'
<1>0. LgTypeOK BY DEF LgInv
<1>1. lgReq'[r] = q /\ \A p \in LgRequests \ {r} : lgReq'[p] = lgReq[p] BY <1>0, OneRequest
<1>2. \A p \in LgRequests : lgReq'[p].says = "otp_required" => Waits(lgReq'[p]) BY <1>1 DEF LineKept
<1>3. \A p \in LgRequests : lgReq'[p].at = "verify" /\ lgReq'[p].kind = "code" => lgReq'[p].user = lgReq'[p].cookie.pend
  BY <1>1 DEF LineKept, At
<1>4. lgLine'.user = lgLine.user /\ lgLine'.wrong = lgLine.wrong
      /\ (lgLine'.alone => lgLine.alone /\ \A p \in LgRequests : lgReq[p].at = "idle")
  BY <1>0 DEF NotAlone, LgTypeOK, At
<1>5. ASSUME lgLine'.alone
      PROVE  /\ \A p, t \in LgRequests : p # t => At(p, "idle")' \/ At(t, "idle")'
             /\ \A p \in LgRequests : At(p, "idle")' \/ At(p, "answer")' \/ lgReq'[p].cookie = lgJar'
             /\ lgLine'.user # Nobody => Line(lgJar)' /\ \A p \in LgRequests : At(p, "answer")' => AnswerFollows(lgReq[p])'
 <2>1. \A p \in LgRequests \ {r} : lgReq'[p].at = "idle" BY <1>1, <1>4, <1>5
 <2>2. lgLine.user # Nobody => Line(lgJar)' BY <1>4, <1>5 DEF LineKept, Line
 <2>3. ASSUME NEW p \in LgRequests, lgReq'[p].at = "answer" PROVE AnswerFollows(lgReq[p])'
  <3>1. p = r /\ lgReq'[p] = q BY <1>1, <2>1, <2>3
  <3>2. q.says = "logged_out" BY <2>3, <3>1
  <3>3. AnswerFollows(q)' BY <3>2 DEF AnswerFollows, WrongGuess
  <3> QED BY <3>1, <3>3
 <2> QED BY <1>1, <1>4, <2>1, <2>2, <2>3 DEF At
<1> QED BY <1>2, <1>3, <1>5 DEF LineKept, At, Waits

\* A request is sent: its user is the one the session waits for.
LEMMA SendingLine ==
  ASSUME LgSizes, LgInv, LineKept, NEW r \in LgRequests, NEW kind \in Kinds, NEW place \in {"password", "create", "verify"},
         NEW user \in SomeUser, NEW password \in Passwords, NEW guess \in Typed,
         SendRequest(r, kind, place, user, password, guess), kind = "code" => user = lgJar.pend
  PROVE  LineKept'
<1> PICK q : q = [Idle EXCEPT !.kind = kind, !.at = place, !.cookie = lgJar, !.user = user,
                              !.password = password, !.guess = guess] OBVIOUS
<1>1. /\ q.kind = kind /\ q.at = place /\ q.cookie = lgJar /\ q.user = user /\ q.password = password
      /\ q.guess = guess /\ q.reply = <<>> /\ q.says = "" BY DEF Idle
<1>2. q \in Requests
 <2>1. lgJar \in Cookie BY DEF LgInv, LgTypeOK
 <2> QED BY <2>1, SessionTypes DEF Idle, Requests, Places
<1>3. lgReq' = [lgReq EXCEPT ![r] = q] /\ UNCHANGED <<lgJar, lgUsers>> /\ lgLine' = NotAlone /\ Free(r)
  BY DEF SendRequest, Server
<1> QED BY <1>1, <1>2, <1>3, SendLine

\* The requests a user may make, and signing out.
LEMMA BrowserLine ==
  ASSUME LgSizes, LgInv, LineKept, NEW r \in LgRequests,
         \/ \E u \in LgUsers : AskForReset(r, u) \/ \E p \in Passwords : SendCredentials(r, u, p)
         \/ \E g \in Guesses : SendCode(r, g) \/ SendNewPassword(r, g, "new")
         \/ Logout(r)
  PROVE  LineKept'
<1>0. LgTypeOK /\ lgJar \in Cookie /\ lgReq[r] \in Requests BY DEF LgInv, LgTypeOK
<1>1. Wrong \in Typed /\ "old" \in Passwords /\ "new" \in Passwords /\ LgUsers \subseteq SomeUser
  BY SessionTypes DEF Passwords, SomeUser
<1>2. ASSUME NEW u \in LgUsers, AskForReset(r, u) PROVE LineKept'
  BY <1>1, <1>2, SendingLine DEF AskForReset, Kinds
<1>3. ASSUME NEW u \in LgUsers, NEW p \in Passwords, SendCredentials(r, u, p) PROVE LineKept'
  BY <1>1, <1>3, SendingLine DEF SendCredentials, Kinds
<1>4. \A g \in Guesses : g \in Typed
 <2>1. Len(lgIssued) <= LgMaxCodes /\ Len(lgIssued) \in Nat BY <1>0 DEF LgTypeOK
 <2> QED BY <2>1 DEF Guesses, Typed, SomeUser, LgSizes
<1>5. lgJar.pend \in SomeUser /\ lgJar.reset \in SomeUser BY <1>0 DEF Cookie
<1>6. ASSUME NEW g \in Guesses, SendCode(r, g) PROVE LineKept'
  BY <1>1, <1>4, <1>5, <1>6, SendingLine DEF SendCode, Kinds
<1>7. ASSUME NEW g \in Guesses, SendNewPassword(r, g, "new") PROVE LineKept'
  BY <1>1, <1>4, <1>5, <1>7, SendingLine DEF SendNewPassword, Kinds
<1>8. ASSUME Logout(r) PROVE LineKept'
 <2> PICK p \in Requests : p = lgReq[r] BY <1>0
 <2> PICK q : q = Answer(p, "logged_out", <<Empty>>) OBVIOUS
 <2>1. q.at = "answer" /\ q.says = "logged_out" BY DEF Answer, Idle
 <2>2. q \in Requests BY SessionTypes, AnswerTypes DEF Says
 <2>3. lgReq' = [lgReq EXCEPT ![r] = q] /\ UNCHANGED <<lgJar, lgUsers>> /\ lgLine' = NotAlone /\ Free(r)
   BY <1>8 DEF Logout, Reply, Server
 <2> QED BY <2>1, <2>2, <2>3, SendLine
<1> QED BY <1>2, <1>3, <1>6, <1>7, <1>8

\* After a lost answer the browser is not told everything any more.
LEMMA LoseLine ==
  ASSUME LgSizes, LgInv, LineKept, NEW r \in LgRequests, Lose(r)
  PROVE  LineKept'
<1>0. LgTypeOK BY DEF LgInv
<1>1. lgReq' = [lgReq EXCEPT ![r] = Idle] /\ ~lgLine'.alone BY <1>0 DEF Lose, LgTypeOK
<1>2. lgReq'[r] = Idle /\ \A p \in LgRequests \ {r} : lgReq'[p] = lgReq[p]
  BY <1>0, <1>1, SessionTypes, OneRequest
<1>3. Idle.at = "idle" /\ Idle.says = "" BY DEF Idle
<1> QED BY <1>1, <1>2, <1>3, ZenonT(60) DEF LineKept, Waits, At

\* What the browser makes of an answer is what it saves.
LEMMA ArriveLine ==
  ASSUME LgSizes, LgInv, LineKept, NEW r \in LgRequests, Arrive(r)
  PROVE  LineKept'
<1>0. LgTypeOK /\ lgReq[r] \in Requests BY DEF LgInv, LgTypeOK
<1> PICK q \in Requests : q = lgReq[r] BY <1>0
<1>1. /\ q.at = "answer" /\ UNCHANGED lgUsers /\ lgReq' = [lgReq EXCEPT ![r] = Idle] /\ lgLine' = Followed(r, q)
      /\ lgJar' = IF q.reply = <<>> THEN lgJar ELSE q.reply[1] BY DEF Arrive, At, Server
<1>2. lgReq'[r] = Idle /\ \A p \in LgRequests \ {r} : lgReq'[p] = lgReq[p]
  BY <1>0, <1>1, SessionTypes, OneRequest
<1>3. Idle.at = "idle" /\ Idle.says = "" BY DEF Idle
<1>4. lgLine \in [user : SomeUser, wrong : Nat, alone : BOOLEAN] BY <1>0 DEF LgTypeOK
<1>5. CASE q.says = "otp_required"
 <2>1. /\ lgLine'.user = q.user /\ lgLine'.wrong = 0
       /\ lgLine'.alone => \A p \in LgRequests \ {r} : lgReq'[p].at = "idle"
   BY <1>1, <1>2, <1>4, <1>5 DEF Followed, At
 <2>2. lgJar'.pend = q.user /\ lgJar'.tries = 0 BY <1>1, <1>5 DEF LineKept, Waits
 <2>3. Line(lgJar)' BY <2>1, <2>2 DEF Line
 <2> QED BY <1>2, <1>3, <2>1, <2>3 DEF LineKept, Waits, At
<1>6. CASE WrongGuess(q)
 <2>1. lgLine' = [lgLine EXCEPT !.user = IF lgLine.wrong + 1 >= LgMaxTries THEN Nobody ELSE @, !.wrong = @ + 1]
   BY <1>1, <1>6 DEF Followed, WrongGuess
 <2>2. /\ lgLine'.alone = lgLine.alone /\ lgLine'.wrong = lgLine.wrong + 1
       /\ lgLine'.user # Nobody => lgLine'.user = lgLine.user /\ lgLine.wrong + 1 < LgMaxTries
   BY <1>4, <2>1 DEF LgSizes
 <2>3. lgLine.alone => \A p \in LgRequests \ {r} : lgReq'[p].at = "idle" BY <1>1, <1>2 DEF LineKept, At
 <2>4. ASSUME lgLine.alone, lgLine'.user # Nobody PROVE Line(lgJar)'
  <3>1. /\ q.user = lgLine.user /\ q.reply # <<>> /\ q.reply[1].pend = lgLine.user
        /\ q.reply[1].tries = lgLine.wrong + 1 /\ lgUsers[q.user].method = "local"
    BY <1>1, <1>6, <2>2, <2>4 DEF LineKept, AnswerFollows, At, WrongGuess
  <3>2. lgJar'.pend = lgLine'.user /\ lgJar'.tries = lgLine'.wrong /\ lgUsers'[lgLine'.user].method = "local"
    BY <1>1, <2>2, <2>4, <3>1
  <3> QED BY <3>2 DEF Line
 <2> QED BY <1>2, <1>3, <2>2, <2>3, <2>4 DEF LineKept, Waits, At
<1>7. CASE q.says \in {"authenticated", "session_error", "logged_out"}
 <2>1. lgLine' = [lgLine EXCEPT !.user = Nobody] BY <1>1, <1>7 DEF Followed
 <2>2. lgLine'.alone = lgLine.alone /\ lgLine'.user = Nobody BY <1>4, <2>1
 <2>3. lgLine.alone => \A p \in LgRequests \ {r} : lgReq'[p].at = "idle" BY <1>1, <1>2 DEF LineKept, At
 <2> QED BY <1>2, <1>3, <2>2, <2>3 DEF LineKept, Waits, At
<1>8. CASE q.says \notin {"otp_required", "authenticated", "session_error", "logged_out"} /\ ~WrongGuess(q)
 <2>1. lgLine' = lgLine BY <1>1, <1>8 DEF Followed, WrongGuess
 <2>3. lgLine.alone => \A p \in LgRequests \ {r} : lgReq'[p].at = "idle" BY <1>1, <1>2 DEF LineKept, At
 <2>4. ASSUME lgLine.alone, lgLine.user # Nobody PROVE Line(lgJar)'
  <3>1. Line(lgJar) /\ (q.reply = <<>> \/ Line(q.reply[1]))
    BY <1>1, <1>8, <2>4 DEF LineKept, AnswerFollows, At
  <3> QED BY <1>1, <2>1, <3>1 DEF Line
 <2> QED BY <1>2, <1>3, <2>1, <2>3, <2>4 DEF LineKept, Waits, At
<1> QED BY <1>5, <1>6, <1>7, <1>8

\* No session, and one, as what an answer saves.
LEMMA Unsaved == <<>> \in Seq(Cookie) /\ \A c \in Cookie : <<c>> \in Seq(Cookie) /\ <<c>>[1] = c /\ <<c>> # <<>>
OBVIOUS

\* An answer that saves no session.
LEMMA UnsavedLine ==
  ASSUME LgSizes, LgInv, LineKept, SameFactors, UNCHANGED <<lgJar, lgLine>>,
         NEW r \in LgRequests, UnderWay(r), NEW says \in Says \ {"otp_required"}, Reply(r, says, <<>>),
         says = "wrong_otp" /\ lgReq[r].kind = "code" => lgUsers'[lgReq[r].user].method # "local"
  PROVE  LineKept'
<1> PICK saved \in Seq(Cookie) : saved = <<>> BY Unsaved
<1>1. Reply(r, says, saved) OBVIOUS
<1>2. says \in Says /\ saved = <<>> OBVIOUS
<1>3. CASE says \in {"authenticated", "session_error"} BY <1>1, <1>2, <1>3, AnswerLine
<1>4. CASE says \notin {"authenticated", "session_error"}
 <2>2. says \notin {"otp_required", "authenticated", "session_error"} BY <1>4
 <2>3. says = "wrong_otp" /\ lgReq[r].kind = "code" => lgUsers'[lgReq[r].user].method # "local" OBVIOUS
 <2>1. LeavesLine(r, says, saved) BY <1>2, <2>2, <2>3 DEF LeavesLine
 <2> QED BY <1>1, <1>2, <2>1, AnswerLine
<1> QED BY <1>3, <1>4

\* An answer that signs in ends the pending sign-in.
LEMMA CompletedLine ==
  ASSUME LgSizes, LgInv, LineKept, SameFactors, UNCHANGED <<lgJar, lgLine>>,
         NEW r \in LgRequests, UnderWay(r), NEW s \in Cookie, NEW u \in LgUsers, completeLogin(r, s, u)
  PROVE  LineKept'
<1>1. \E c \in Cookie, says \in {"authenticated", "session_error"} : Reply(r, says, <<c>>)
 <2>1. [s EXCEPT !.user = u] \in Cookie /\ Empty \in Cookie BY SessionTypes DEF SomeUser
 <2> QED BY <2>1 DEF completeLogin
<1> PICK c \in Cookie, says \in {"authenticated", "session_error"} : Reply(r, says, <<c>>) BY <1>1
<1>2. <<c>> \in Seq(Cookie) BY Unsaved
<1>3. says \in Says BY DEF Says
<1> QED BY <1>2, <1>3, AnswerLine

\* A request goes on with its session.
LEMMA GoneOnLine ==
  ASSUME LgSizes, LgInv, LineKept, SameFactors, UNCHANGED <<lgJar, lgLine>>, NEW r \in LgRequests, UnderWay(r),
         NEW place \in {"factor", "create", "update"}, Goto(r, place)
  PROVE  LineKept'
<1> PICK p \in Requests : p = lgReq[r] BY DEF LgInv, LgTypeOK
<1> PICK q : q = [p EXCEPT !.at = place] OBVIOUS
<1>1. q \in Requests /\ q.at = place /\ q.cookie = p.cookie /\ q.says = p.says BY DEF Requests, Places
<1>2. lgReq' = [lgReq EXCEPT ![r] = q] BY DEF Goto
<1>3. p.says = "" BY DEF LgInv, Placed, UnderWay, At
<1> QED BY <1>1, <1>2, <1>3, ServerLine

\* Issuing and mailing a code: a session waits for one only when it was mailed.
LEMMA MailLine ==
  ASSUME LgSizes, LgInv, LineKept, NEW r \in LgRequests,
         CreateOTP(r) \/ RefuseCode(r) \/ MailSent(r) \/ MailFails(r)
  PROVE  LineKept'
<1>0. LgTypeOK /\ lgReq[r] \in Requests /\ Placed(lgReq[r]) BY DEF LgInv, LgTypeOK
<1>1. UNCHANGED <<lgJar, lgLine, lgUsers>> /\ UnderWay(r)
  BY DEF CreateOTP, RefuseCode, MailSent, MailFails, Server, Browser, UnderWay, At
<1>2. SameFactors BY <1>1 DEF SameFactors
<1> PICK p \in Requests : p = lgReq[r] BY <1>0
<1> PICK s \in Cookie : s = p.cookie BY DEF Requests
<1>3. p.user \in LgUsers /\ p.user \in SomeUser /\ p.says = "" /\ p.kind # "code"
  BY <1>0 DEF CreateOTP, RefuseCode, MailSent, MailFails, Placed, At, SomeUser
<1>4. CASE CreateOTP(r)
 <2> PICK n : n = Len(lgIssued) + 1 OBVIOUS
 <2> PICK q : q = [p EXCEPT !.at = "mail", !.guess = [Wrong EXCEPT !.code = n]] OBVIOUS
 <2>1. n \in 0..LgMaxCodes BY <1>0, <1>4 DEF CreateOTP, LgTypeOK, LgSizes
 <2>2. [Wrong EXCEPT !.code = n] \in Typed BY <2>1, SessionTypes DEF Wrong, Typed
 <2>3. q \in Requests /\ q.at = "mail" /\ q.cookie = p.cookie /\ q.says = ""
   BY <1>3, <2>2 DEF Requests, Places
 <2>4. lgReq' = [lgReq EXCEPT ![r] = q] BY <1>4 DEF CreateOTP
 <2> QED BY <1>1, <1>2, <2>3, <2>4, ServerLine
<1>5. CASE RefuseCode(r) \/ MailFails(r)
 <2>1. WithoutCode(r) BY <1>5 DEF RefuseCode, MailFails
 <2> PICK c : c = [s EXCEPT !.reset = Nobody] OBVIOUS
 <2>2. c \in Cookie /\ c.pend = s.pend /\ c.tries = s.tries BY SessionTypes DEF SomeUser, Cookie
 <2>3. <<c>> \in Seq(Cookie) /\ <<>> \in Seq(Cookie) /\ "reset_requested" \in Says /\ "refused" \in Says
   BY <2>2 DEF Says
 <2>4. Reply(r, "reset_requested", <<c>>) \/ Reply(r, "refused", <<>>) BY <2>1 DEF WithoutCode
 <2>5. CASE Reply(r, "reset_requested", <<c>>) BY <1>1, <1>2, <2>2, <2>3, <2>5, AnswerLine DEF LeavesLine
 <2>6. CASE Reply(r, "refused", <<>>) BY <1>1, <1>2, <2>3, <2>6, UnsavedLine DEF Says
 <2> QED BY <2>4, <2>5, <2>6
<1>6. CASE MailSent(r)
 <2> PICK c : c = [s EXCEPT !.reset = p.user] OBVIOUS
 <2>1. c \in Cookie /\ c.pend = s.pend /\ c.tries = s.tries BY <1>3, SessionTypes DEF Cookie
 <2> PICK d : d = setPendingLoginState(s, p.user) OBVIOUS
 <2>2. d \in Cookie /\ d.pend = p.user /\ d.tries = 0
  <3>1. d \in Cookie BY <1>3, SessionTypes
  <3> QED BY <3>1 DEF setPendingLoginState, Cookie
 <2>3. <<c>> \in Seq(Cookie) /\ <<d>> \in Seq(Cookie) /\ "reset_requested" \in Says /\ "otp_required" \in Says
   BY <2>1, <2>2 DEF Says
 <2>4. Reply(r, "reset_requested", <<c>>) \/ Reply(r, "otp_required", <<d>>) BY <1>6 DEF MailSent
 <2>5. CASE Reply(r, "reset_requested", <<c>>) BY <1>1, <1>2, <2>1, <2>3, <2>5, AnswerLine DEF LeavesLine
 <2>6. CASE Reply(r, "otp_required", <<d>>)
  <3>1. <<d>>[1] = d /\ <<d>> # <<>> OBVIOUS
  <3> QED BY <1>1, <1>2, <2>2, <2>3, <2>6, <3>1, AnswerLine
 <2> QED BY <2>4, <2>5, <2>6
<1> QED BY <1>4, <1>5, <1>6

\* The password, and the choice of the factor.
LEMMA SignInLine ==
  ASSUME LgSizes, LgInv, LineKept, NEW r \in LgRequests, VerifyPassword(r) \/ handleLoginCredentials(r)
  PROVE  LineKept'
<1>0. LgTypeOK /\ lgReq[r] \in Requests /\ Placed(lgReq[r]) BY DEF LgInv, LgTypeOK
<1>1. UNCHANGED <<lgJar, lgLine, lgUsers>> /\ UnderWay(r)
  BY DEF VerifyPassword, handleLoginCredentials, Server, Browser, UnderWay, At
<1>2. SameFactors BY <1>1 DEF SameFactors
<1> PICK p \in Requests : p = lgReq[r] BY <1>0
<1> PICK s \in Cookie : s = p.cookie BY DEF Requests
<1>3. p.user \in LgUsers /\ p.user \in SomeUser
  BY <1>0 DEF VerifyPassword, handleLoginCredentials, Placed, At, SomeUser
<1>4. ASSUME Reply(r, "refused", <<>>) PROVE LineKept' BY <1>1, <1>2, <1>4, UnsavedLine DEF Says
<1>5. ASSUME Goto(r, "factor") \/ Goto(r, "create") PROVE LineKept' BY <1>1, <1>2, <1>5, GoneOnLine
<1>6. ASSUME completeLogin(r, s, p.user) PROVE LineKept' BY <1>1, <1>2, <1>3, <1>6, CompletedLine
<1> PICK d : d = setPendingLoginState(s, p.user) OBVIOUS
<1>7. ASSUME Reply(r, "otp_required", <<d>>) PROVE LineKept'
 <2>1. d \in Cookie BY <1>3, SessionTypes
 <2>2. d.pend = p.user /\ d.tries = 0 BY DEF setPendingLoginState, Cookie
 <2>3. <<d>> \in Seq(Cookie) /\ <<d>>[1] = d /\ <<d>> # <<>> BY <2>1
 <2> QED BY <1>1, <1>2, <1>7, <2>2, <2>3, AnswerLine DEF Says
<1>8. CASE VerifyPassword(r)
 <2>1. Goto(r, "factor") \/ Reply(r, "refused", <<>>) BY <1>8 DEF VerifyPassword
 <2> QED BY <2>1, <1>4, <1>5
<1>9. CASE handleLoginCredentials(r)
 <2>1. completeLogin(r, s, p.user) \/ Reply(r, "otp_required", <<d>>) \/ Goto(r, "create")
   BY <1>9 DEF handleLoginCredentials
 <2> QED BY <2>1, <1>5, <1>6, <1>7
<1> QED BY <1>8, <1>9

\* A wrong guess at a factor of the user's own is counted in the copy of the session.
LEMMA LocalLine ==
  ASSUME LgSizes, LgInv, LineKept, NEW r \in LgRequests, VerifyLocal(r)
  PROVE  LineKept'
<1>0. LgTypeOK /\ lgReq[r] \in Requests /\ Placed(lgReq[r]) BY DEF LgInv, LgTypeOK
<1>1. UNCHANGED <<lgJar, lgLine, lgUsers>> /\ UnderWay(r) BY DEF VerifyLocal, Submitted, Browser, UnderWay, At
<1>2. SameFactors BY <1>1 DEF SameFactors
<1> PICK p \in Requests : p = lgReq[r] BY <1>0
<1> PICK s \in Cookie : s = p.cookie BY DEF Requests
<1> PICK u : u = s.pend OBVIOUS
<1>3. u \in LgUsers /\ p.user = u /\ p.kind = "code" /\ lgUsers[u].method = "local"
  BY <1>0 DEF VerifyLocal, Submitted, Placed, At, LineKept
<1> PICK d : d = clearPendingLoginState(s) OBVIOUS
<1>4. d \in Cookie BY SessionTypes
<1>5. CASE completeLogin(r, d, u) BY <1>1, <1>2, <1>3, <1>4, <1>5, CompletedLine
<1>6. CASE Reply(r, "wrong_otp", WrongLocal(s))
 <2> PICK c \in Cookie : WrongLocal(s) = <<c>> BY SessionTypes
 <2> PICK q : q = Answer(p, "wrong_otp", <<c>>) OBVIOUS
 <2>1. q \in Requests BY AnswerTypes DEF Says
 <2>2. q.at = "answer" /\ q.says = "wrong_otp" /\ q.reply = <<c>> /\ q.kind = "code" /\ q.user = u
   BY <1>3 DEF Answer, Idle
 <2>3. lgReq' = [lgReq EXCEPT ![r] = q] BY <1>6 DEF Reply
 <2>4. s.tries + 1 < LgMaxTries => c.pend = u /\ c.tries = s.tries + 1
  <3> SUFFICES ASSUME s.tries + 1 < LgMaxTries PROVE c.pend = u /\ c.tries = s.tries + 1 OBVIOUS
  <3> PICK t : t = [s EXCEPT !.tries = @ + 1] OBVIOUS
  <3>1. t.tries = s.tries + 1 /\ t.pend = s.pend /\ s.tries \in Nat BY DEF Cookie
  <3>2. ~(t.tries >= LgMaxTries) BY <3>1 DEF LgSizes
  <3>3. WrongLocal(s) = <<t>> BY <3>2 DEF WrongLocal
  <3>4. c = t BY <3>3
  <3> QED BY <3>1, <3>4
 <2>5. ASSUME lgLine.user # Nobody, Line(s) PROVE AnswerFollows(q)'
  <3>1. u = lgLine.user /\ s.tries = lgLine.wrong BY <1>3, <2>5 DEF Line
  <3>2. WrongGuess(q)' BY <1>1, <1>3, <2>2 DEF WrongGuess
  <3>3. q.reply # <<>> /\ q.reply[1] = c BY <2>2, Unsaved
  <3>4. q.user = lgLine'.user BY <1>1, <2>2, <3>1
  <3> QED BY <1>1, <2>4, <3>1, <3>2, <3>3, <3>4 DEF AnswerFollows
 <2> QED BY <1>1, <1>2, <2>1, <2>2, <2>3, <2>5, ServerLine
<1> QED BY <1>5, <1>6 DEF VerifyLocal

\* A wrong code of an e-mail is not counted in the session.
LEMMA CodeLine ==
  ASSUME LgSizes, LgInv, LineKept, NEW r \in LgRequests, VerifyEmail(r)
  PROVE  LineKept'
<1>0. LgTypeOK /\ lgReq[r] \in Requests /\ Placed(lgReq[r]) BY DEF LgInv, LgTypeOK
<1>1. UNCHANGED <<lgJar, lgLine, lgUsers>> /\ UnderWay(r) BY DEF VerifyEmail, Submitted, Browser, UnderWay, At
<1>2. SameFactors BY <1>1 DEF SameFactors
<1> PICK p \in Requests : p = lgReq[r] BY <1>0
<1> PICK s \in Cookie : s = p.cookie BY DEF Requests
<1>3. s.pend \in LgUsers /\ p.user = s.pend /\ lgUsers'[p.user].method # "local"
  BY <1>0, <1>1 DEF VerifyEmail, Submitted, Placed, At, LineKept
<1> PICK d : d = clearPendingLoginState(s) OBVIOUS
<1>4. d \in Cookie BY SessionTypes
<1>5. CASE completeLogin(r, d, s.pend) BY <1>1, <1>2, <1>3, <1>4, <1>5, CompletedLine
<1>6. CASE Reply(r, "wrong_otp", <<>>) BY <1>1, <1>2, <1>3, <1>6, UnsavedLine DEF Says
<1> QED BY <1>5, <1>6 DEF VerifyEmail

\* Resetting a password leaves the pending sign-in alone.
LEMMA ResetLine ==
  ASSUME LgSizes, LgInv, LineKept, NEW r \in LgRequests, VerifyReset(r) \/ UpdatePassword(r) \/ UpdateFails(r)
  PROVE  LineKept'
<1>0. LgTypeOK /\ lgReq[r] \in Requests /\ Placed(lgReq[r]) BY DEF LgInv, LgTypeOK
<1>1. UNCHANGED <<lgJar, lgLine>> /\ UnderWay(r)
  BY DEF VerifyReset, UpdatePassword, UpdateFails, Submitted, Browser, UnderWay, At
<1> PICK p \in Requests : p = lgReq[r] BY <1>0
<1> PICK s \in Cookie : s = p.cookie BY DEF Requests
<1>2. p.kind = "confirm" BY <1>0 DEF VerifyReset, UpdatePassword, UpdateFails, Submitted, At, Placed
<1>3. CASE VerifyReset(r)
 <2>1. SameFactors BY <1>3 DEF VerifyReset, SameFactors
 <2>2. Goto(r, "update") \/ Reply(r, "wrong_otp", <<>>) BY <1>3 DEF VerifyReset
 <2>3. CASE Goto(r, "update") BY <1>1, <2>1, <2>3, GoneOnLine
 <2>4. CASE Reply(r, "wrong_otp", <<>>) BY <1>1, <1>2, <2>1, <2>4, UnsavedLine DEF Says
 <2> QED BY <2>2, <2>3, <2>4
<1>4. CASE UpdatePassword(r)
 <2>1. SameFactors BY <1>0, <1>4 DEF UpdatePassword, SameFactors, LgTypeOK
 <2> PICK c : c = [s EXCEPT !.reset = Nobody] OBVIOUS
 <2>2. c \in Cookie /\ c.pend = s.pend /\ c.tries = s.tries BY SessionTypes DEF SomeUser, Cookie
 <2>3. <<c>> \in Seq(Cookie) /\ <<c>>[1] = c BY <2>2
 <2>4. Reply(r, "password_reset", <<c>>) \/ Reply(r, "unconfirmed", <<>>) BY <1>4 DEF UpdatePassword
 <2>5. CASE Reply(r, "password_reset", <<c>>)
   BY <1>1, <2>1, <2>2, <2>3, <2>5, AnswerLine DEF Says, LeavesLine
 <2>6. CASE Reply(r, "unconfirmed", <<>>) BY <1>1, <2>1, <2>6, UnsavedLine DEF Says
 <2> QED BY <2>4, <2>5, <2>6
<1>5. CASE UpdateFails(r)
 <2>1. SameFactors BY <1>5 DEF UpdateFails, SameFactors, Server
 <2>2. Reply(r, "db_error", <<>>) BY <1>5 DEF UpdateFails
 <2> QED BY <1>1, <2>1, <2>2, UnsavedLine DEF Says
<1> QED BY <1>3, <1>4, <1>5

\* It holds at first.
LEMMA LineStarts ==
  ASSUME LgSizes, LgInit
  PROVE  LineKept
<1>1. Idle.at = "idle" /\ Idle.says = "" /\ \A r \in LgRequests : lgReq[r] = Idle BY DEF LgInit, Idle
<1>2. lgLine.user = Nobody BY DEF LgInit
<1> QED BY <1>1, <1>2 DEF LineKept, At

\* It holds when nothing happens.
LEMMA LineStutters ==
  ASSUME LineKept, UNCHANGED lgVars
  PROVE  LineKept' BY DEF LineKept, lgVars, At, Waits, Line, AnswerFollows, WrongGuess

\* Every step keeps it.
LEMMA LineSteps ==
  ASSUME LgSizes, LgInv, LineKept, LgNext
  PROVE  LineKept'
<1> PICK r \in LgRequests :
        \/ \E u \in LgUsers : AskForReset(r, u) \/ \E p \in Passwords : SendCredentials(r, u, p)
        \/ \E g \in Guesses : SendCode(r, g) \/ SendNewPassword(r, g, "new")
        \/ Logout(r) \/ Arrive(r) \/ Lose(r)
        \/ CreateOTP(r) \/ RefuseCode(r) \/ MailSent(r) \/ MailFails(r)
        \/ VerifyPassword(r) \/ handleLoginCredentials(r)
        \/ VerifyLocal(r) \/ VerifyEmail(r)
        \/ VerifyReset(r) \/ UpdatePassword(r) \/ UpdateFails(r) BY DEF LgNext
<1>1. CASE \/ \E u \in LgUsers : AskForReset(r, u) \/ \E p \in Passwords : SendCredentials(r, u, p)
           \/ \E g \in Guesses : SendCode(r, g) \/ SendNewPassword(r, g, "new")
           \/ Logout(r) BY <1>1, BrowserLine
<1>2. CASE Arrive(r) \/ Lose(r) BY <1>2, ArriveLine, LoseLine
<1>3. CASE CreateOTP(r) \/ RefuseCode(r) \/ MailSent(r) \/ MailFails(r) BY <1>3, MailLine
<1>4. CASE VerifyPassword(r) \/ handleLoginCredentials(r) \/ VerifyLocal(r) \/ VerifyEmail(r)
  BY <1>4, SignInLine, LocalLine, CodeLine
<1>5. CASE VerifyReset(r) \/ UpdatePassword(r) \/ UpdateFails(r) BY <1>5, ResetLine
<1> QED BY <1>1, <1>2, <1>3, <1>4, <1>5

\* What is promised follows.
LEMMA LgKeepsItsWord ==
  ASSUME LgSizes, LgInv, LineKept
  PROVE  LgSignsInWhoProvedIt
<1>1. CodesServeOnce BY DEF LgInv, CodesKept, CodesServeOnce, Spent
<1>2. \A r \in LgRequests : Earned(lgReq[r].cookie) /\ \A s \in Saved(lgReq[r].reply) : Earned(s)
  BY DEF LgInv, Placed
<1>3. SessionsAreEarned BY <1>2 DEF LgInv, SessionsAreEarned, Sessions
<1>4. PendingAsTold BY DEF LineKept, PendingAsTold, Line
<1> QED BY <1>1, <1>3, <1>4 DEF LgInv, LgSignsInWhoProvedIt

\* However requests overlap and answers get lost, a code serves once, for whom and what it was mailed for, and
\* is compared with LgMaxTries guesses at most; no session belongs to a user, or waits for one's code, who has
\* not passed the steps before it; who is told to be signed in is; and a browser whose requests do not overlap
\* waits for the code it was told of, with the guesses it was told of.
THEOREM LgProvenSignIn == LgSizes => (LgSpec => []LgSignsInWhoProvedIt)
<1> SUFFICES ASSUME LgSizes PROVE LgSpec => []LgSignsInWhoProvedIt OBVIOUS
<1>1. LgInit => LgInv /\ LineKept BY LgStarts, LineStarts
<1>2. LgInv /\ LineKept /\ [LgNext]_lgVars => LgInv' /\ LineKept'
  BY LgSteps, LgStutters, LineSteps, LineStutters
<1>3. LgInv /\ LineKept => LgSignsInWhoProvedIt BY LgKeepsItsWord
<1> QED BY <1>1, <1>2, <1>3, PTL DEF LgSpec
-----------------------------------------------------------------------------
ApSpec == ApInit /\ [][ApNext]_apVars
-----------------------------------------------------------------------------
(* The way to the server: ApTokenRecovered, for any number of sessions and calls. *)

\* A changing call under way.  Tokens are numbered up to the present one; the token that was fetched is not
\* older than the call; one that is being recovered was refused, so it is of an earlier session; and one that
\* was recovered is not older than the call, unless none could be fetched.
ApWriteFits(w) ==
  /\ w \in [id : Nat, began : Nat, token : Nat, got : Nat, lost : BOOLEAN, retried : BOOLEAN,
            pc : {"token", "recover", "execute"}]
  /\ w.began <= apServer /\ w.token <= apServer /\ w.got <= apServer
  /\ w.got # 0 => w.got >= w.began
  /\ w.pc = "recover" => w.token < apServer
  /\ w.pc = "execute" /\ w.retried /\ ~w.lost => w.token >= w.began
ApSound ==
  /\ apServer \in Nat \ {0}
  /\ apTab \in [token : 0..apServer, left : BOOLEAN]
  /\ apSaid \in [refused : BOOLEAN] /\ apCounts \in [inputs : Nat]
  /\ \A w \in apWrites : ApWriteFits(w)
  /\ ApTokenRecovered

\* What fits goes on fitting when the session changes.
LEMMA ApFitsLater ==
  ASSUME NEW w, ApWriteFits(w), apServer \in Nat, apServer' \in Nat, apServer' >= apServer
  PROVE  ApWriteFits(w)' BY DEF ApWriteFits

LEMMA ApInitSound == ApInit => ApSound BY DEF ApInit, ApSound, ApTokenRecovered

\* A call that ends as it fits is not refused for its token.
LEMMA ApEndsWell ==
  ASSUME NEW w, NEW refused \in BOOLEAN, ApEnd(w, refused), ApSound, UNCHANGED apServer,
         refused /\ ~w.lost => w.began # apServer
  PROVE  apSaid' \in [refused : BOOLEAN] /\ ApTokenRecovered' /\ \A v \in apWrites' : ApWriteFits(v)'
<1>1. apSaid' = [refused |-> FALSE] BY DEF ApEnd, ApSound
<1>2. \A v \in apWrites' : ApWriteFits(v)' BY DEF ApEnd, ApSound, ApWriteFits
<1> QED BY <1>1, <1>2 DEF ApTokenRecovered

\* A call that goes on fits.
LEMMA ApGoesOn ==
  ASSUME NEW w, NEW next, ApWrite(w, next), ApSound, UNCHANGED apServer, ApWriteFits(next)
  PROVE  \A v \in apWrites' : ApWriteFits(v)' BY DEF ApWrite, ApSound, ApWriteFits

\* A call that got a token, or could not, fits when it is sent with it.
LEMMA ApSentFits ==
  ASSUME NEW w, ApWriteFits(w), apServer \in Nat, NEW token \in Nat, token <= apServer, NEW lost \in BOOLEAN,
         NEW retried \in BOOLEAN, retried /\ ~lost => token >= w.began
  PROVE  ApWriteFits([id |-> w.id, began |-> w.began, token |-> token, got |-> 0, lost |-> lost,
                      retried |-> retried, pc |-> "execute"]) BY DEF ApWriteFits

LEMMA ApStepSound == ApSound /\ [ApNext]_apVars => ApSound'
<1> SUFFICES ASSUME ApSound, [ApNext]_apVars PROVE ApSound' OBVIOUS
<1>1. CASE UNCHANGED apVars BY <1>1 DEF ApSound, apVars, ApTokenRecovered, ApWriteFits
<1>2. CASE ApSessionChanges
 <2>1. apServer' = apServer + 1 /\ apServer \in Nat \ {0} BY <1>2 DEF ApSessionChanges, ApSound
 <2>2. \A w \in apWrites' : ApWriteFits(w)' BY <1>2, <2>1, ApFitsLater DEF ApSessionChanges, ApSound
 <2> QED BY <1>2, <2>1, <2>2 DEF ApSessionChanges, ApSound, ApInput, ApTokenRecovered
<1>3. CASE csrfStage
 <2> DEFINE new == [id |-> apCounts.inputs, began |-> apServer, token |-> apTab.token, got |-> 0, lost |-> FALSE,
                    retried |-> FALSE, pc |-> IF apTab.token # 0 THEN "execute" ELSE "token"]
 <2>1. apWrites' = apWrites \cup {new} /\ UNCHANGED <<apServer, apTab, apSaid>> BY <1>3 DEF csrfStage
 <2>2. ApWriteFits(new) BY DEF ApSound, ApWriteFits
 <2>3. \A w \in apWrites' : ApWriteFits(w)' BY <2>1, <2>2 DEF ApSound, ApWriteFits
 <2> QED BY <1>3, <2>1, <2>3 DEF csrfStage, ApSound, ApInput, ApTokenRecovered
<1>4. ASSUME NEW w \in apWrites, ApTokenServed(w) PROVE ApSound'
 <2>1. ApWriteFits([w EXCEPT !.got = apServer]) BY <1>4 DEF ApTokenServed, ApSound, ApWriteFits
 <2>2. \A v \in apWrites' : ApWriteFits(v)' BY <1>4, <2>1, ApGoesOn DEF ApTokenServed
 <2> QED BY <1>4, <2>2 DEF ApTokenServed, ApSound, ApTokenRecovered
<1>9. ASSUME NEW w \in apWrites, ApTokenMade(w) PROVE ApSound'
 <2>1. /\ apServer' = apServer + 1 /\ apServer \in Nat \ {0} /\ ApWriteFits(w) /\ w.pc \in {"token", "recover"}
       /\ apWrites' = (apWrites \ {w}) \cup {[w EXCEPT !.got = apServer + 1, !.began = apServer + 1]}
       /\ UNCHANGED <<apTab, apSaid, apCounts>> BY <1>9 DEF ApTokenMade, ApWrite, ApSound
 <2>2. PICK made : made = [w EXCEPT !.got = apServer + 1, !.began = apServer + 1] OBVIOUS
 <2>3. made = [id |-> w.id, began |-> apServer + 1, token |-> w.token, got |-> apServer + 1, lost |-> w.lost,
               retried |-> w.retried, pc |-> w.pc]
  <3>1. w \in [id : Nat, began : Nat, token : Nat, got : Nat, lost : BOOLEAN, retried : BOOLEAN,
               pc : {"token", "recover", "execute"}] BY <2>1 DEF ApWriteFits
  <3> QED BY <2>2, <3>1
 <2>4. ApWriteFits(made)' BY <2>1, <2>3 DEF ApWriteFits
 <2>5. ASSUME NEW v \in apWrites' PROVE ApWriteFits(v)'
  <3>1. CASE v \in apWrites BY <2>1, <3>1, ApFitsLater DEF ApSound
  <3> QED BY <2>1, <2>2, <2>4, <3>1
 <2> QED BY <2>1, <2>5 DEF ApSound, ApTokenRecovered
<1>5. ASSUME NEW w \in apWrites, ApTokenArrives(w) PROVE ApSound'
 <2> DEFINE next == [w EXCEPT !.pc = "execute", !.token = w.got, !.got = 0, !.retried = w.pc = "recover"]
 <2>0. ApWriteFits(w) /\ w.pc \in {"token", "recover"} /\ w.got # 0 BY <1>5 DEF ApTokenArrives, ApSound
 <2>1. apTab' \in [token : 0..apServer', left : BOOLEAN] /\ UNCHANGED <<apServer, apCounts>>
   BY <1>5, <2>0 DEF ApTokenArrives, ensureCsrfToken, ApSound, ApWriteFits
 <2>2. CASE w.pc = "recover" /\ w.got = w.token
  <3>1. ApEnd(w, TRUE) BY <1>5, <2>2 DEF ApTokenArrives, ensureCsrfToken
  <3>2. w.began # apServer BY <2>0, <2>2 DEF ApWriteFits, ApSound
  <3> QED BY <2>1, <3>1, <3>2, ApEndsWell DEF ApSound
 <2>3. CASE ~(w.pc = "recover" /\ w.got = w.token)
  <3>1. ApWrite(w, next) /\ UNCHANGED apSaid BY <1>5, <2>3 DEF ApTokenArrives, ensureCsrfToken
  <3>2. ApWriteFits(next)
   <4>1. CASE w.pc = "recover"
    <5>1. next = [w EXCEPT !.pc = "execute", !.token = w.got, !.got = 0, !.retried = TRUE] BY <4>1
    <5> HIDE DEF next
    <5>2. next = [id |-> w.id, began |-> w.began, token |-> w.got, got |-> 0, lost |-> w.lost,
                  retried |-> TRUE, pc |-> "execute"] BY <2>0, <5>1 DEF ApWriteFits
    <5>3. w.got \in Nat /\ w.got <= apServer /\ apServer \in Nat /\ w.got >= w.began
      BY <2>0 DEF ApWriteFits, ApSound
    <5>4. w.lost \in BOOLEAN BY <2>0 DEF ApWriteFits
    <5> QED BY <2>0, <5>2, <5>3, <5>4, ApSentFits
   <4>2. CASE w.pc = "token"
    <5>1. next = [w EXCEPT !.pc = "execute", !.token = w.got, !.got = 0, !.retried = FALSE] BY <4>2
    <5> HIDE DEF next
    <5>2. next = [id |-> w.id, began |-> w.began, token |-> w.got, got |-> 0, lost |-> w.lost,
                  retried |-> FALSE, pc |-> "execute"] BY <2>0, <5>1 DEF ApWriteFits
    <5>3. w.got \in Nat /\ w.got <= apServer /\ apServer \in Nat BY <2>0 DEF ApWriteFits, ApSound
    <5>4. w.lost \in BOOLEAN BY <2>0 DEF ApWriteFits
    <5> QED BY <2>0, <5>2, <5>3, <5>4, ApSentFits
   <4> QED BY <2>0, <4>1, <4>2
  <3>3. \A v \in apWrites' : ApWriteFits(v)' BY <2>1, <3>1, <3>2, ApGoesOn
  <3> QED BY <2>1, <3>1, <3>3 DEF ApSound, ApTokenRecovered
 <2> QED BY <2>2, <2>3
<1>6. ASSUME NEW w \in apWrites, ApTokenFails(w) PROVE ApSound'
 <2> DEFINE next == [w EXCEPT !.pc = "execute", !.token = apTab.token, !.got = 0, !.lost = TRUE,
                              !.retried = w.pc = "recover"]
 <2>0. ApWriteFits(w) /\ w.pc \in {"token", "recover"} /\ UNCHANGED <<apServer, apTab, apCounts>>
   BY <1>6 DEF ApTokenFails, ApSound
 <2>1. apTab.token \in Nat /\ apTab.token <= apServer BY DEF ApSound
 <2>2. CASE w.pc = "recover" /\ apTab.token \in {0, w.token}
  <3>1. ApEnd(w, FALSE) BY <1>6, <2>2 DEF ApTokenFails
  <3> QED BY <2>0, <3>1, ApEndsWell DEF ApSound
 <2>3. CASE ~(w.pc = "recover" /\ apTab.token \in {0, w.token})
  <3>1. ApWrite(w, next) /\ UNCHANGED apSaid BY <1>6, <2>3 DEF ApTokenFails
  <3>2. ApWriteFits(next)
   <4>1. CASE w.pc = "recover"
    <5>1. next = [w EXCEPT !.pc = "execute", !.token = apTab.token, !.got = 0, !.lost = TRUE, !.retried = TRUE]
      BY <4>1
    <5> HIDE DEF next
    <5>2. next = [id |-> w.id, began |-> w.began, token |-> apTab.token, got |-> 0, lost |-> TRUE,
                  retried |-> TRUE, pc |-> "execute"] BY <2>0, <5>1 DEF ApWriteFits
    <5>3. apTab.token \in Nat /\ apTab.token <= apServer /\ apServer \in Nat
      BY <2>0, <2>1 DEF ApWriteFits, ApSound
    <5>4. w.lost \in BOOLEAN BY <2>0 DEF ApWriteFits
    <5> QED BY <2>0, <5>2, <5>3, <5>4, ApSentFits
   <4>2. CASE w.pc = "token"
    <5>1. next = [w EXCEPT !.pc = "execute", !.token = apTab.token, !.got = 0, !.lost = TRUE, !.retried = FALSE]
      BY <4>2
    <5> HIDE DEF next
    <5>2. next = [id |-> w.id, began |-> w.began, token |-> apTab.token, got |-> 0, lost |-> TRUE,
                  retried |-> FALSE, pc |-> "execute"] BY <2>0, <5>1 DEF ApWriteFits
    <5>3. apTab.token \in Nat /\ apTab.token <= apServer /\ apServer \in Nat
      BY <2>0, <2>1 DEF ApWriteFits, ApSound
    <5>4. w.lost \in BOOLEAN BY <2>0 DEF ApWriteFits
    <5> QED BY <2>0, <5>2, <5>3, <5>4, ApSentFits
   <4> QED BY <2>0, <4>1, <4>2
  <3>3. \A v \in apWrites' : ApWriteFits(v)' BY <2>0, <3>1, <3>2, ApGoesOn
  <3> QED BY <2>0, <3>1, <3>3 DEF ApSound, ApTokenRecovered
 <2> QED BY <2>2, <2>3
<1>7. ASSUME NEW w \in apWrites, executeStage(w) PROVE ApSound'
 <2>1. ApEnd(w, FALSE) /\ UNCHANGED <<apServer, apCounts>> /\ apTab' \in [token : 0..apServer, left : BOOLEAN]
   BY <1>7 DEF executeStage, ApSound
 <2> QED BY <2>1, ApEndsWell DEF ApSound
<1>8. ASSUME NEW w \in apWrites, csrfRecoveryStage(w) PROVE ApSound'
 <2>0. ApWriteFits(w) /\ w.pc = "execute" /\ w.token # apServer /\ UNCHANGED <<apServer, apCounts>>
   BY <1>8 DEF csrfRecoveryStage, ApSound
 <2>1. CASE w.retried
  <3>1. ApEnd(w, TRUE) /\ UNCHANGED apTab BY <1>8, <2>1 DEF csrfRecoveryStage
  <3>2. ~w.lost => w.began # apServer BY <2>0, <2>1 DEF ApWriteFits, ApSound
  <3> QED BY <2>0, <3>1, <3>2, ApEndsWell DEF ApSound
 <2>2. CASE ~w.retried
  <3>1. ApWrite(w, [w EXCEPT !.pc = "recover"]) /\ apTab' = [apTab EXCEPT !.token = 0] /\ UNCHANGED apSaid
    BY <1>8, <2>2 DEF csrfRecoveryStage
  <3>2. ApWriteFits([w EXCEPT !.pc = "recover"]) BY <2>0 DEF ApWriteFits, ApSound
  <3>3. \A v \in apWrites' : ApWriteFits(v)' BY <2>0, <3>1, <3>2, ApGoesOn
  <3> QED BY <2>0, <3>1, <3>3 DEF ApSound, ApTokenRecovered
 <2> QED BY <2>1, <2>2
<1> QED BY <1>1, <1>2, <1>3, <1>4, <1>5, <1>6, <1>7, <1>8, <1>9 DEF ApNext

\* ApTokenRecovered: whenever the session changes, and however calls share tokens and overlap, a changing call is
\* refused for its token only if the session changed during the call or no token could be fetched.
THEOREM ApRecoversToken == ApSpec => []ApTokenRecovered BY ApInitSound, ApStepSound, PTL DEF ApSpec, ApSound
-----------------------------------------------------------------------------
PmSpec == PmInit /\ [][PmNext]_pmVars
-----------------------------------------------------------------------------
(* The rights to datasets: PmRightsAreOfTheSession, for any number of sessions, calls and expiries. *)

PmSizes == PmMaxSessions \in Nat

PmRequest == [id : Nat, kind : {"one", "prime", "multi", "tables"}, keys : SUBSET PmKeys, shared : BOOLEAN,
              generation : Nat, decided : Nat]
PmCall == [kind : {"one", "prime", "multi"}, keys : SUBSET PmKeys, since : Nat, waits : Nat, own : BOOLEAN,
           batchTried : BOOLEAN, rest : SUBSET PmScopes]
PmTyped ==
  /\ PmMaxSessions \in Nat
  /\ pmServer \in Nat /\ pmServer <= Failed
  /\ pmRights \in [cache : [PmKeys -> Nat], generation : Nat, since : Nat, snapshot : Nat]
  /\ pmRights.since <= pmServer
  /\ pmRequests \subseteq PmRequest /\ IsFiniteSet(pmRequests)
  /\ pmCalls \subseteq PmCall
  /\ pmSaid \in BOOLEAN /\ pmCounts \in [inputs : Nat, spoiled : BOOLEAN]

\* A request of the present generation was decided in the present session or later, and only such a request is
\* shared; a list of datasets is of an earlier one only if it was awaited during a clear.
PmRequestFits(r) ==
  /\ r.generation <= pmRights.generation
  /\ r.generation = pmRights.generation /\ r.decided # Unknown => r.decided >= pmRights.since
  /\ r.shared => r.generation = pmRights.generation
  /\ r.kind = "tables" => ~r.shared
  /\ r.kind = "tables" /\ ~pmCounts.spoiled => r.generation = pmRights.generation
\* A caller asked in the present session or before, and what it waits for was not decided before it asked.
PmCallFits(c) ==
  /\ c.since <= pmRights.since
  /\ \A r \in pmRequests : c.waits = r.id /\ c.waits # 0 /\ r.decided # Unknown => r.decided >= c.since
PmSound ==
  /\ PmTyped
  /\ \A r \in pmRequests : r.id # 0 /\ PmRequestFits(r)
  /\ \A q, r \in pmRequests : q.id = r.id => q = r
  /\ \A c \in pmCalls : PmCallFits(c)
  /\ PmRightsAreOfTheSession

LEMMA PmInitSound == PmSizes => (PmInit => PmSound)
<1> SUFFICES ASSUME PmSizes, PmInit PROVE PmSound OBVIOUS
<1>1. PmTyped
 <2>1. IsFiniteSet(pmRequests) BY FS_EmptySet DEF PmInit
 <2>2. pmRights \in [cache : [PmKeys -> Nat], generation : Nat, since : Nat, snapshot : Nat]
   BY DEF PmInit, Unknown
 <2>3. pmServer = 1 /\ pmRights.since = 1 /\ PmMaxSessions \in Nat BY DEF PmSizes, PmInit
 <2>4. pmSaid \in BOOLEAN /\ pmCounts \in [inputs : Nat, spoiled : BOOLEAN] BY DEF PmInit
 <2>5. pmRequests = {} /\ pmCalls = {} BY DEF PmInit
 <2> QED BY <2>1, <2>2, <2>3, <2>4, <2>5 DEF PmTyped, Failed
<1>2. PmRightsAreOfTheSession BY DEF PmInit, PmRightsAreOfTheSession, Unknown
<1> QED BY <1>1, <1>2 DEF PmInit, PmSound

\* A request gets a number that no other one under way has.
LEMMA PmFreeIdIsFree ==
  ASSUME PmTyped
  PROVE  PmFreeId \in Nat \ {0} /\ \A r \in pmRequests : r.id # PmFreeId
<1> DEFINE n == Cardinality(pmRequests)
           ids == {r.id : r \in pmRequests}
           id == [r \in pmRequests |-> r.id]
<1>1. IsFiniteSet(pmRequests) /\ n \in Nat BY FS_CardinalityType DEF PmTyped
<1>2. IsFiniteSet(ids) /\ Cardinality(ids) <= n
 <2>1. id \in Surjection(pmRequests, ids) BY DEF Surjection
 <2> QED BY <1>1, <2>1, FS_Surjection
<1>3. Cardinality(1..(n + 1)) = n + 1 /\ IsFiniteSet(1..(n + 1)) BY <1>1, FS_Interval
<1>4. ~(1..(n + 1) \subseteq ids)
 <2>1. ASSUME 1..(n + 1) \subseteq ids PROVE FALSE
  <3>1. Cardinality(1..(n + 1)) <= Cardinality(ids) BY <1>2, <2>1, FS_Subset
  <3>2. Cardinality(ids) \in Nat BY <1>2, FS_CardinalityType
  <3> QED BY <1>1, <1>2, <1>3, <3>1, <3>2
 <2> QED BY <2>1
<1>5. \E i \in 1..(n + 1) : \A r \in pmRequests : r.id # i BY <1>4
<1> QED BY <1>1, <1>5 DEF PmFreeId

\* What is cached for a caller's keys is not older than the caller.
LEMMA PmCachedIsFresh ==
  ASSUME PmSound, NEW c \in PmCall, c.since <= pmRights.since
  PROVE  ~PmOld(c, {pmRights.cache[k] : k \in c.keys})
BY DEF PmSound, PmTyped, PmRightsAreOfTheSession, PmOld, PmCall

\* Only callers change, and are told nothing old.
LEMMA PmCallersOnly ==
  ASSUME PmSound, UNCHANGED <<pmServer, pmRights, pmRequests>>, pmCounts' \in [inputs : Nat, spoiled : BOOLEAN],
         pmCounts'.spoiled = pmCounts.spoiled, pmSaid' = FALSE, \A c \in pmCalls' : c \in PmCall /\ PmCallFits(c)
  PROVE  PmSound'
<1>1. PmTyped' /\ PmRightsAreOfTheSession' BY DEF PmSound, PmTyped, PmRightsAreOfTheSession, Failed
<1>2. \A c \in pmCalls' : PmCallFits(c)' BY DEF PmCallFits
<1>3. \A r \in pmRequests' : r.id # 0 /\ PmRequestFits(r)' BY DEF PmSound, PmRequestFits
<1> QED BY <1>1, <1>2, <1>3 DEF PmSound

\* A request is made for a caller of its own, which waits for it.
LEMMA PmNewRequest ==
  ASSUME PmSound, UNCHANGED <<pmServer, pmRights>>, pmCounts' \in [inputs : Nat, spoiled : BOOLEAN],
         pmCounts'.spoiled = pmCounts.spoiled, pmSaid' = pmSaid, NEW r \in PmRequest, r.id = PmFreeId,
         r.decided = Unknown, r.generation = pmRights.generation, r.kind = "tables" => ~r.shared,
         pmRequests' = pmRequests \cup {r},
         \A c \in pmCalls' : c \in PmCall /\ (c \in pmCalls \/ (c.waits = PmFreeId /\ c.since <= pmRights.since))
  PROVE  PmSound'
<1>1. PmFreeId \in Nat \ {0} /\ \A q \in pmRequests : q.id # PmFreeId BY PmFreeIdIsFree DEF PmSound
<1>2. PmTyped' /\ PmRightsAreOfTheSession'
 <2>1. IsFiniteSet(pmRequests') BY FS_AddElement DEF PmSound, PmTyped
 <2> QED BY <2>1 DEF PmSound, PmTyped, PmRightsAreOfTheSession, Failed
<1>3. \A q \in pmRequests' : q.id # 0 /\ PmRequestFits(q)'
 <2>1. pmRights.generation \in Nat BY DEF PmSound, PmTyped
 <2> QED BY <1>1, <2>1 DEF PmSound, PmRequestFits
<1>4. \A p, q \in pmRequests' : p.id = q.id => p = q BY <1>1 DEF PmSound
<1>5. ASSUME NEW c \in pmCalls' PROVE PmCallFits(c)'
 <2>1. CASE c \in pmCalls BY <1>1, <2>1 DEF PmSound, PmCallFits
 <2>2. CASE c \notin pmCalls BY <1>1, <1>5, <2>2 DEF PmCallFits
 <2> QED BY <2>1, <2>2
<1> QED BY <1>2, <1>3, <1>4, <1>5 DEF PmSound

LEMMA PmPrimeOfFits ==
  ASSUME PmSound, NEW c \in PmCall, c.since <= pmRights.since, NEW scope \in PmScopes
  PROVE  PrimeOf(c, scope) \in PmCall /\ PmCallFits(PrimeOf(c, scope)) /\ PrimeOf(c, scope).since = c.since
<1>1. {scope} \X PmRoutes \in SUBSET PmKeys /\ {s \in PmScopes : s > scope} \in SUBSET PmScopes BY DEF PmKeys
<1>2. PrimeOf(c, scope) \in PmCall /\ PrimeOf(c, scope).waits = 0 /\ PrimeOf(c, scope).since = c.since
  BY <1>1 DEF PrimeOf, PmCall
<1> QED BY <1>2 DEF PmCallFits

\* Looking up, for a new caller or one whose wait is over.
LEMMA PmLookupSound ==
  ASSUME PmSound, UNCHANGED pmServer, pmCounts' \in [inputs : Nat, spoiled : BOOLEAN],
         pmCounts'.spoiled = pmCounts.spoiled, NEW c \in PmCall, c.since <= pmRights.since, PmLookup(c)
  PROVE  PmSound'
<1>0. \A d \in pmCalls : d \in PmCall /\ PmCallFits(d) BY DEF PmSound, PmTyped
<1>1. CASE PmMissing(c) = {}
 <2>0. UNCHANGED <<pmServer, pmRights, pmRequests>> BY <1>1 DEF PmLookup
 <2>1. CASE c.kind = "multi"
  <3>1. pmCalls' = (pmCalls \ {c}) \cup {PrimeOf(c, 1)} /\ pmSaid' = pmSaid BY <1>1, <2>1 DEF PmLookup
  <3>2. pmSaid' = FALSE BY <3>1 DEF PmSound, PmRightsAreOfTheSession, PmTyped
  <3>3. \A d \in pmCalls' : d \in PmCall /\ PmCallFits(d) BY <1>0, <3>1, PmPrimeOfFits DEF PmScopes
  <3> QED BY <2>0, <3>2, <3>3, PmCallersOnly
 <2>2. CASE c.kind # "multi"
  <3>1. PmEnds(c, pmCalls \ {c}) /\ pmSaid' = PmOld(c, {pmRights.cache[k] : k \in c.keys})
    BY <1>1, <2>2 DEF PmLookup
  <3>2. pmSaid' = FALSE BY <3>1, PmCachedIsFresh DEF PmOld
  <3>3. \A d \in pmCalls' : d \in PmCall /\ PmCallFits(d) BY <1>0, <3>1, PmPrimeOfFits DEF PmEnds, PmScopes
  <3> QED BY <2>0, <3>2, <3>3, PmCallersOnly
 <2> QED BY <2>1, <2>2
<1>2. CASE PmMissing(c) # {} /\ \E r \in pmRequests : r.shared /\ PmJoin(c, r)
 <2>1. PICK r \in pmRequests : r.shared /\ PmJoin(c, r) BY <1>2
 <2> DEFINE d == [c EXCEPT !.waits = r.id, !.own = r.kind = "one", !.batchTried = TRUE]
 <2>2. pmCalls' = (pmCalls \ {c}) \cup {d} /\ UNCHANGED <<pmRights, pmRequests, pmSaid>> BY <2>1 DEF PmJoin
 <2>3. d \in PmCall /\ d.since = c.since /\ d.waits = r.id
  <3>1. r.id \in Nat /\ (r.kind = "one") \in BOOLEAN BY DEF PmSound, PmTyped, PmRequest
  <3>2. \A own \in BOOLEAN : [c EXCEPT !.waits = r.id, !.own = own, !.batchTried = TRUE] \in PmCall
    BY <3>1 DEF PmCall
  <3> QED BY <3>1, <3>2 DEF PmCall
 <2> HIDE DEF d
 <2>4. PmCallFits(d)
  <3>1. r.decided # Unknown => r.decided >= pmRights.since BY <2>1 DEF PmSound, PmRequestFits
  <3>2. r.decided \in Nat /\ c.since \in Nat /\ pmRights.since \in Nat
    BY DEF PmSound, PmTyped, PmRequest, PmCall
  <3>3. \A q \in pmRequests : q.id = r.id => q = r BY DEF PmSound
  <3> QED BY <2>3, <3>1, <3>2, <3>3 DEF PmCallFits
 <2>5. pmSaid' = FALSE BY <2>2 DEF PmSound, PmRightsAreOfTheSession, PmTyped
 <2> QED BY <1>0, <2>2, <2>3, <2>4, <2>5, PmCallersOnly
<1>3. CASE PmMissing(c) # {} /\ PmAsk(c)
 <2> DEFINE r == [id |-> PmFreeId, kind |-> c.kind, keys |-> PmMissing(c), shared |-> TRUE,
                  generation |-> pmRights.generation, decided |-> Unknown]
            d == [c EXCEPT !.waits = PmFreeId, !.own = TRUE]
 <2>1. pmRequests' = pmRequests \cup {r} /\ pmCalls' = (pmCalls \ {c}) \cup {d} /\ UNCHANGED <<pmRights, pmSaid>>
   BY <1>3 DEF PmAsk
 <2>2. PmFreeId \in Nat \ {0} BY PmFreeIdIsFree DEF PmSound
 <2>3. d \in PmCall /\ d.waits = PmFreeId /\ d.since = c.since BY <2>2 DEF PmCall
 <2>4. r \in PmRequest /\ r.id = PmFreeId /\ r.decided = Unknown /\ r.generation = pmRights.generation /\ r.kind # "tables"
  <3>1. PmMissing(c) \in SUBSET PmKeys BY DEF PmMissing, PmCall
  <3>2. pmRights.generation \in Nat BY DEF PmSound, PmTyped
  <3> QED BY <2>2, <3>1, <3>2 DEF PmRequest, PmCall, Unknown
 <2> HIDE DEF r, d
 <2> QED BY <1>0, <2>1, <2>3, <2>4, PmNewRequest
<1>4. PmMissing(c) # {} => PmAsk(c) \/ \E r \in pmRequests : r.shared /\ PmJoin(c, r)
  BY DEF PmLookup, PmShared
<1> QED BY <1>1, <1>2, <1>3, <1>4

\* A request that is decided, no longer shared or taken away leaves the others their numbers.
LEMMA PmRequestsOnly ==
  ASSUME PmSound, UNCHANGED <<pmServer, pmCalls, pmSaid>>, PmTyped', PmRightsAreOfTheSession',
         pmRights'.since >= pmRights.since,
         \A r \in pmRequests' : PmRequestFits(r)',
         \A r \in pmRequests' : \E q \in pmRequests :
            r.id = q.id /\ (r.decided = q.decided \/ (q.decided = Unknown /\ r.decided >= pmRights.since)),
         \A p, q \in pmRequests' : p.id = q.id => p = q
  PROVE  PmSound'
<1>1. ASSUME NEW c \in pmCalls' PROVE PmCallFits(c)'
 <2>0. c \in PmCall /\ PmCallFits(c) BY <1>1 DEF PmSound, PmTyped
 <2>1. c.since \in Nat /\ pmRights.since \in Nat /\ pmRights'.since \in Nat
   BY <2>0 DEF PmSound, PmTyped, PmCall
 <2>2. ASSUME NEW r \in pmRequests', c.waits = r.id, c.waits # 0, r.decided # Unknown PROVE r.decided >= c.since
  <3>1. PICK q \in pmRequests : r.id = q.id /\ (r.decided = q.decided \/ (q.decided = Unknown /\ r.decided >= pmRights.since))
    BY <2>2
  <3>2. r.decided \in Nat BY <2>2 DEF PmTyped, PmRequest
  <3> QED BY <2>0, <2>1, <2>2, <3>1, <3>2 DEF PmCallFits
 <2> QED BY <2>0, <2>1, <2>2 DEF PmCallFits
<1>2. \A r \in pmRequests' : r.id # 0 BY DEF PmSound
<1> QED BY <1>1, <1>2 DEF PmSound

\* The server's session is not older than the rights.
LEMMA PmSessionChangesSound == PmSound /\ PmSessionChanges => PmSound'
<1> SUFFICES ASSUME PmSound, PmSessionChanges PROVE PmSound' OBVIOUS
<1>1. PmTyped' /\ PmRightsAreOfTheSession'
  BY DEF PmSound, PmTyped, PmSessionChanges, PmRightsAreOfTheSession, Failed
<1>2. \A r \in pmRequests' : r.id # 0 /\ PmRequestFits(r)' BY DEF PmSound, PmSessionChanges, PmRequestFits
<1>3. \A c \in pmCalls' : PmCallFits(c)' BY DEF PmSound, PmSessionChanges, PmCallFits
<1> QED BY <1>1, <1>2, <1>3 DEF PmSound, PmSessionChanges

LEMMA PmDecideSound == PmSound /\ PmDecide => PmSound'
<1> SUFFICES ASSUME PmSound, PmDecide PROVE PmSound' OBVIOUS
<1>1. PICK r \in pmRequests, d \in {pmServer, Failed, Limited} :
         r.decided = Unknown /\ pmRequests' = (pmRequests \ {r}) \cup {[r EXCEPT !.decided = d]}
  BY DEF PmDecide
<1> DEFINE q == [r EXCEPT !.decided = d]
<1>2. d \in Nat /\ d >= pmRights.since BY DEF PmSound, PmTyped, Failed, Limited
<1>3. r \in PmRequest /\ q \in PmRequest /\ q.id = r.id /\ q.decided = d /\ q.generation = r.generation /\ q.kind = r.kind
      /\ q.shared = r.shared BY <1>2 DEF PmSound, PmTyped, PmRequest
<1>4. UNCHANGED <<pmServer, pmRights, pmCalls, pmSaid, pmCounts>> BY DEF PmDecide
<1> HIDE DEF q
<1>5. PmTyped' /\ PmRightsAreOfTheSession'
 <2>1. IsFiniteSet(pmRequests') BY <1>1, FS_AddElement, FS_RemoveElement DEF PmSound, PmTyped
 <2> QED BY <1>1, <1>3, <1>4, <2>1 DEF PmSound, PmTyped, PmRightsAreOfTheSession, Failed, q
<1>6. pmRequests' = (pmRequests \ {r}) \cup {q} BY <1>1 DEF q
<1>7. \A p \in pmRequests' : PmRequestFits(p)' BY <1>2, <1>3, <1>4, <1>6 DEF PmSound, PmRequestFits
<1>8. \A p \in pmRequests' : \E o \in pmRequests :
         p.id = o.id /\ (p.decided = o.decided \/ (o.decided = Unknown /\ p.decided >= pmRights.since))
  BY <1>1, <1>2, <1>3, <1>6
<1>9. \A o, p \in pmRequests' : o.id = p.id => o = p BY <1>3, <1>6 DEF PmSound
<1> QED BY <1>2, <1>4, <1>5, <1>7, <1>8, <1>9, PmRequestsOnly DEF PmSound, PmTyped

LEMMA PmExpiresSound == PmSound /\ PmExpires => PmSound'
<1> SUFFICES ASSUME PmSound, PmExpires PROVE PmSound' OBVIOUS
<1>1. PICK k \in PmKeys : pmRights' = [pmRights EXCEPT !.cache[k] = Unknown] BY DEF PmExpires
<1>2. UNCHANGED <<pmServer, pmRequests, pmCalls, pmSaid>> /\ pmCounts' \in [inputs : Nat, spoiled : BOOLEAN]
      /\ pmCounts'.spoiled = pmCounts.spoiled BY DEF PmExpires, PmInput, PmSound, PmTyped
<1>3. pmRights' \in [cache : [PmKeys -> Nat], generation : Nat, since : Nat, snapshot : Nat]
      /\ pmRights'.since = pmRights.since /\ pmRights'.generation = pmRights.generation
      /\ pmRights'.snapshot = pmRights.snapshot
      /\ \A i \in PmKeys : pmRights'.cache[i] \in {pmRights.cache[i], Unknown}
  BY <1>1 DEF PmSound, PmTyped, Unknown
<1>4. PmTyped' /\ PmRightsAreOfTheSession' BY <1>2, <1>3 DEF PmSound, PmTyped, PmRightsAreOfTheSession, Failed
<1>5. \A r \in pmRequests' : r.id # 0 /\ PmRequestFits(r)' BY <1>2, <1>3 DEF PmSound, PmRequestFits
<1>6. \A c \in pmCalls' : PmCallFits(c)' BY <1>2, <1>3 DEF PmSound, PmCallFits
<1> QED BY <1>2, <1>4, <1>5, <1>6 DEF PmSound

LEMMA PmClearSound == PmSound /\ clearPermissionCache => PmSound'
<1> SUFFICES ASSUME PmSound, clearPermissionCache PROVE PmSound' OBVIOUS
<1>1. pmRights' = [cache |-> [k \in PmKeys |-> Unknown], generation |-> pmRights.generation + 1,
                   since |-> pmServer, snapshot |-> 0]
      /\ pmRequests' = {[r EXCEPT !.shared = FALSE] : r \in pmRequests}
      /\ UNCHANGED <<pmServer, pmCalls, pmSaid>> BY DEF clearPermissionCache
<1>2. pmCounts' \in [inputs : Nat, spoiled : BOOLEAN]
      /\ (~pmCounts'.spoiled => \A r \in pmRequests : r.kind # "tables")
  BY DEF clearPermissionCache, PmSound, PmTyped
<1>3. \A r \in pmRequests : LET q == [r EXCEPT !.shared = FALSE] IN
         q \in PmRequest /\ q.id = r.id /\ q.decided = r.decided /\ q.generation = r.generation /\ q.kind = r.kind /\ ~q.shared
 <2> SUFFICES ASSUME NEW r \in PmRequest
              PROVE  LET q == [r EXCEPT !.shared = FALSE] IN
                     q \in PmRequest /\ q.id = r.id /\ q.decided = r.decided /\ q.generation = r.generation /\ q.kind = r.kind /\ ~q.shared
   BY DEF PmSound, PmTyped
 <2> QED BY DEF PmRequest
<1>4. PmTyped' /\ PmRightsAreOfTheSession'
 <2>1. IsFiniteSet(pmRequests')
  <3> DEFINE f == [r \in pmRequests |-> [r EXCEPT !.shared = FALSE]]
  <3>1. f \in Surjection(pmRequests, pmRequests') BY <1>1 DEF Surjection
  <3> QED BY <3>1, FS_Surjection DEF PmSound, PmTyped
 <2>2. pmRequests' \subseteq PmRequest BY <1>1, <1>3
 <2>3. pmRights' \in [cache : [PmKeys -> Nat], generation : Nat, since : Nat, snapshot : Nat] /\ pmRights'.since = pmServer
   BY <1>1 DEF PmSound, PmTyped, Unknown
 <2> QED BY <1>1, <1>2, <2>1, <2>2, <2>3 DEF PmSound, PmTyped, PmRightsAreOfTheSession, Failed, Unknown
<1>5. ASSUME NEW q \in pmRequests' PROVE PmRequestFits(q)'
 <2>1. PICK r \in pmRequests : q = [r EXCEPT !.shared = FALSE] BY <1>1, <1>5
 <2>2. q.id = r.id /\ q.decided = r.decided /\ q.generation = r.generation /\ q.kind = r.kind /\ ~q.shared
   BY <1>3, <2>1
 <2>3. r.generation \in Nat /\ pmRights.generation \in Nat /\ r.generation <= pmRights.generation
   BY DEF PmSound, PmTyped, PmRequest, PmRequestFits
 <2>4. pmRights'.generation = pmRights.generation + 1 BY <1>1
 <2> QED BY <1>2, <2>2, <2>3, <2>4 DEF PmRequestFits
<1>6. \A q \in pmRequests' : \E r \in pmRequests : q.id = r.id /\ q.decided = r.decided BY <1>1, <1>3
<1>7. ASSUME NEW p \in pmRequests', NEW q \in pmRequests', p.id = q.id PROVE p = q
 <2>1. PICK a \in pmRequests, b \in pmRequests : p = [a EXCEPT !.shared = FALSE] /\ q = [b EXCEPT !.shared = FALSE]
   BY <1>1, <1>7
 <2>2. a.id = b.id BY <1>3, <1>7, <2>1
 <2>3. a = b BY <2>2 DEF PmSound
 <2> QED BY <2>1, <2>3
<1>8. pmRights'.since >= pmRights.since BY <1>1 DEF PmSound, PmTyped
<1> QED BY <1>1, <1>4, <1>5, <1>6, <1>7, <1>8, PmRequestsOnly

LEMMA PmTablesAskedSound == PmSound /\ PmTablesAsked => PmSound'
<1> SUFFICES ASSUME PmSound, PmTablesAsked PROVE PmSound' OBVIOUS
<1> DEFINE r == [id |-> PmFreeId, kind |-> "tables", keys |-> {}, shared |-> FALSE,
                 generation |-> pmRights.generation, decided |-> Unknown]
<1>1. pmRequests' = pmRequests \cup {r} /\ UNCHANGED <<pmServer, pmRights, pmCalls, pmSaid>>
  BY DEF PmTablesAsked
<1>2. pmCounts' \in [inputs : Nat, spoiled : BOOLEAN] /\ pmCounts'.spoiled = pmCounts.spoiled
  BY DEF PmTablesAsked, PmSound, PmTyped
<1>3. PmFreeId \in Nat BY PmFreeIdIsFree DEF PmSound
<1>4. pmRights.generation \in Nat BY DEF PmSound, PmTyped
<1>5. r \in PmRequest /\ r.id = PmFreeId /\ r.decided = Unknown /\ r.generation = pmRights.generation /\ ~r.shared
  BY <1>3, <1>4 DEF PmRequest, Unknown
<1> HIDE DEF r
<1>6. \A c \in pmCalls' : c \in PmCall /\ c \in pmCalls BY <1>1 DEF PmSound, PmTyped
<1> QED BY <1>1, <1>2, <1>5, <1>6, PmNewRequest

LEMMA PmRegistrySound == ASSUME NEW r \in pmRequests, PmSound, primeDatasetAccessRegistry(r) PROVE PmSound'
<1>1. r.kind = "tables" /\ r.decided # Unknown /\ pmRequests' = pmRequests \ {r}
      /\ pmRights' = [pmRights EXCEPT !.snapshot = IF r.decided > PmMaxSessions THEN @ ELSE r.decided]
      /\ UNCHANGED <<pmServer, pmCalls, pmSaid, pmCounts>> BY DEF primeDatasetAccessRegistry
<1>2. r.decided \in Nat /\ PmRequestFits(r) BY DEF PmSound, PmTyped, PmRequest
<1>3. pmRights' \in [cache : [PmKeys -> Nat], generation : Nat, since : Nat, snapshot : Nat]
      /\ pmRights'.since = pmRights.since /\ pmRights'.generation = pmRights.generation
      /\ pmRights'.cache = pmRights.cache /\ pmRights'.snapshot \in {pmRights.snapshot, r.decided}
  BY <1>1, <1>2 DEF PmSound, PmTyped
<1>4. PmTyped' /\ PmRightsAreOfTheSession'
 <2>1. IsFiniteSet(pmRequests') BY <1>1, FS_RemoveElement DEF PmSound, PmTyped
 <2>2. PmTyped' BY <1>1, <1>3, <2>1 DEF PmSound, PmTyped, Failed
 <2>3. PmRightsAreOfTheSession' BY <1>1, <1>2, <1>3 DEF PmSound, PmRightsAreOfTheSession, PmRequestFits
 <2> QED BY <2>2, <2>3
<1>5. \A q \in pmRequests' : PmRequestFits(q)' BY <1>1, <1>3 DEF PmSound, PmRequestFits
<1>6. \A p, q \in pmRequests' : p.id = q.id => p = q BY <1>1 DEF PmSound
<1>7. pmRights'.since >= pmRights.since BY <1>3 DEF PmSound, PmTyped
<1>8. \A p \in pmRequests' : \E q \in pmRequests : p.id = q.id /\ p.decided = q.decided BY <1>1
<1> QED BY <1>1, <1>4, <1>5, <1>6, <1>7, <1>8, PmRequestsOnly

\* An answer is cached only if nothing was cleared since it was asked for.
LEMMA PmCacheFits ==
  ASSUME PmSound, NEW r \in pmRequests, r.decided # Unknown
  PROVE  /\ cacheAllowedByRoute(r, pmRights.cache) \in [PmKeys -> Nat]
         /\ \A k \in PmKeys : LET v == cacheAllowedByRoute(r, pmRights.cache)[k] IN v # Unknown => v >= pmRights.since
<1>1. r.decided \in Nat /\ PmRequestFits(r) /\ pmRights.cache \in [PmKeys -> Nat]
  BY DEF PmSound, PmTyped, PmRequest
<1>2. \A k \in PmKeys : pmRights.cache[k] # Unknown => pmRights.cache[k] >= pmRights.since
  BY DEF PmSound, PmRightsAreOfTheSession
<1>3. CASE cacheAllowedByRoute(r, pmRights.cache) = pmRights.cache BY <1>1, <1>2, <1>3
<1>4. CASE /\ r.generation = pmRights.generation
           /\ cacheAllowedByRoute(r, pmRights.cache) = [k \in PmKeys |-> IF k \in r.keys THEN r.decided ELSE pmRights.cache[k]]
  BY <1>1, <1>2, <1>4 DEF PmRequestFits
<1> QED BY <1>3, <1>4 DEF cacheAllowedByRoute

LEMMA PmSettleSound == ASSUME NEW r \in pmRequests, PmSound, PmSettle(r) PROVE PmSound'
<1> DEFINE cache == cacheAllowedByRoute(r, pmRights.cache)
           waiting == {c \in pmCalls : c.waits = r.id}
           told == {c \in waiting : c.own /\ c.kind # "multi"}
           values(c) == IF c.kind = "one" THEN {r.decided} ELSE {cache[k] : k \in c.keys}
<1>1. /\ r.decided # Unknown /\ pmRequests' = pmRequests \ {r} /\ pmRights' = [pmRights EXCEPT !.cache = cache]
      /\ pmCalls' = (pmCalls \ waiting)
            \cup {IF c.kind = "multi" THEN PrimeOf(c, 1) ELSE [c EXCEPT !.waits = 0] : c \in waiting \ told}
            \cup {PrimeOf(c, 2) : c \in {t \in told : t.rest # {}}}
      /\ pmSaid' = \E c \in told : PmOld(c, values(c))
      /\ UNCHANGED <<pmServer, pmCounts>> BY DEF PmSettle
<1>2. cache \in [PmKeys -> Nat] /\ \A k \in PmKeys : cache[k] # Unknown => cache[k] >= pmRights.since
  BY <1>1, PmCacheFits
<1> HIDE DEF cache
<1>3. pmRights' \in [cache : [PmKeys -> Nat], generation : Nat, since : Nat, snapshot : Nat]
      /\ pmRights'.since = pmRights.since /\ pmRights'.generation = pmRights.generation
      /\ pmRights'.cache = cache /\ pmRights'.snapshot = pmRights.snapshot BY <1>1, <1>2 DEF PmSound, PmTyped
<1>4. \A c \in pmCalls : c \in PmCall /\ c.since \in Nat /\ c.since <= pmRights.since /\ PmCallFits(c)
  BY DEF PmSound, PmTyped, PmCallFits, PmCall
<1>5. ASSUME NEW c \in told PROVE ~PmOld(c, values(c))
 <2>1. c \in pmCalls /\ c.waits = r.id /\ c.keys \subseteq PmKeys BY <1>4, <1>5 DEF PmCall
 <2>2. CASE c.kind = "one"
  <3>1. r.id # 0 /\ r.decided \in Nat BY DEF PmSound, PmTyped, PmRequest
  <3>2. r.decided >= c.since BY <1>1, <1>4, <2>1, <3>1 DEF PmCallFits
  <3> QED BY <1>4, <2>1, <2>2, <3>1, <3>2 DEF PmOld
 <2>3. CASE c.kind # "one"
  <3>1. pmRights.since \in Nat BY DEF PmSound, PmTyped
  <3> QED BY <1>2, <1>4, <2>1, <2>3, <3>1 DEF PmOld
 <2> QED BY <2>2, <2>3
<1>6. pmSaid' = FALSE BY <1>1, <1>5
<1>7. ASSUME NEW c \in pmCalls' PROVE c \in PmCall /\ PmCallFits(c)'
 <2>1. CASE c \in pmCalls BY <1>1, <1>3, <1>4, <2>1 DEF PmCallFits
 <2>2. CASE \E d \in pmCalls : c = [d EXCEPT !.waits = 0] BY <1>3, <1>4, <2>2 DEF PmCallFits, PmCall
 <2>3. CASE \E d \in pmCalls, scope \in PmScopes : c = PrimeOf(d, scope)
  <3>1. PICK d \in pmCalls, scope \in PmScopes : c = PrimeOf(d, scope) BY <2>3
  <3>2. c \in PmCall /\ c.since = d.since BY <1>4, <3>1, PmPrimeOfFits
  <3>3. c.waits = 0 BY <3>1, <1>4 DEF PrimeOf, PmCall
  <3> QED BY <1>3, <1>4, <3>2, <3>3 DEF PmCallFits
 <2> QED BY <1>1, <2>1, <2>2, <2>3 DEF PmScopes
<1>8. PmTyped'
 <2>1. IsFiniteSet(pmRequests') BY <1>1, FS_RemoveElement DEF PmSound, PmTyped
 <2> QED BY <1>1, <1>3, <1>6, <1>7, <2>1 DEF PmSound, PmTyped, Failed
<1>9. PmRightsAreOfTheSession' BY <1>1, <1>2, <1>3, <1>6 DEF PmSound, PmRightsAreOfTheSession
<1>10. \A q \in pmRequests' : q.id # 0 /\ PmRequestFits(q)' BY <1>1, <1>3 DEF PmSound, PmRequestFits
<1>11. \A p, q \in pmRequests' : p.id = q.id => p = q BY <1>1 DEF PmSound
<1> QED BY <1>7, <1>8, <1>9, <1>10, <1>11 DEF PmSound

LEMMA PmBeginSound == PmSound /\ PmBegin => PmSound'
<1> SUFFICES ASSUME PmSound, PmBegin PROVE PmSound' OBVIOUS
<1>1. PICK kind \in {"one", "prime", "multi"} : \E keys \in SUBSET PmKeys :
         PmLookup([kind |-> kind, keys |-> keys, since |-> pmRights.since, waits |-> 0, own |-> FALSE,
                   batchTried |-> FALSE, rest |-> {}])
 <2>1. \A route \in PmRoutes : {<<1, route>>} \in SUBSET PmKeys BY DEF PmKeys, PmScopes
 <2>2. {1} \X PmRoutes \in SUBSET PmKeys BY DEF PmKeys, PmScopes
 <2> QED BY <2>1, <2>2 DEF PmBegin
<1>2. PICK keys \in SUBSET PmKeys :
         PmLookup([kind |-> kind, keys |-> keys, since |-> pmRights.since, waits |-> 0, own |-> FALSE,
                   batchTried |-> FALSE, rest |-> {}]) BY <1>1
<1> DEFINE c == [kind |-> kind, keys |-> keys, since |-> pmRights.since, waits |-> 0, own |-> FALSE,
                 batchTried |-> FALSE, rest |-> {}]
<1>3. c \in PmCall /\ c.since <= pmRights.since BY DEF PmSound, PmTyped, PmCall
<1>4. pmCounts' \in [inputs : Nat, spoiled : BOOLEAN] /\ pmCounts'.spoiled = pmCounts.spoiled /\ UNCHANGED pmServer
  BY DEF PmBegin, PmSound, PmTyped
<1>5. PmLookup(c) BY <1>2
<1> HIDE DEF c
<1> QED BY <1>3, <1>4, <1>5, PmLookupSound

LEMMA PmAgainSound == PmSound /\ PmAgain => PmSound'
<1> SUFFICES ASSUME PmSound, PmAgain PROVE PmSound' OBVIOUS
<1>1. PICK c \in pmCalls : PmLookup(c) BY DEF PmAgain
<1>2. c \in PmCall /\ c.since <= pmRights.since BY DEF PmSound, PmTyped, PmCallFits
<1>3. pmCounts' \in [inputs : Nat, spoiled : BOOLEAN] /\ pmCounts'.spoiled = pmCounts.spoiled /\ UNCHANGED pmServer
  BY DEF PmAgain, PmSound, PmTyped
<1> QED BY <1>1, <1>2, <1>3, PmLookupSound

LEMMA PmStep == PmSound /\ [PmNext]_pmVars => PmSound'
<1>1. PmSound /\ UNCHANGED pmVars => PmSound'
  BY DEF PmSound, PmTyped, PmRequestFits, PmCallFits, PmRightsAreOfTheSession, pmVars, Failed
<1> QED BY <1>1, PmSessionChangesSound, PmExpiresSound, PmClearSound, PmTablesAskedSound, PmBeginSound, PmAgainSound,
           PmDecideSound, PmSettleSound, PmRegistrySound DEF PmNext

\* Whatever callers share, and however late an answer comes, no right of an ended session is cached or told.
THEOREM PmRightsAreTheSessions == PmSizes => (PmSpec => []PmRightsAreOfTheSession)
<1>1. PmSound => PmRightsAreOfTheSession BY DEF PmSound
<1> QED BY <1>1, PmInitSound, PmStep, PTL DEF PmSpec
-----------------------------------------------------------------------------
LfSpec == LfInit /\ [][LfNext]_lfVars
-----------------------------------------------------------------------------
(* The login form: LfFormShowsItsPhase, for any number of inputs and of openings. *)

LfTyped ==
  /\ lfForm \in [id : Nat, phase : LfPhases, parts : SUBSET LfParts, identifier : BOOLEAN, enabled : BOOLEAN]
  /\ lfModal \in [kind : {"page", "modal"}, shown : {"login", "none", "privacy"}, kept : BOOLEAN, openings : Nat, in : BOOLEAN]
  /\ lfCalls \subseteq [id : Nat, form : Nat, phase : LfPhases, pc : {"asked", "bootstrap"}]
  /\ \A c \in lfCalls : c.form <= lfForm.id
  /\ lfCounts \in [inputs : Nat, spoiled : BOOLEAN]
LfMine == {c \in lfCalls : c.form = lfForm.id}
LfReady ==
  /\ lfForm.enabled
  /\ "otp" \in lfForm.parts <=> lfForm.phase = "otp"
  /\ "reset" \in lfForm.parts <=> lfForm.phase = "reset_verify"
  /\ "password" \in lfForm.parts <=> lfForm.phase = "credentials"
  /\ lfForm.phase = "reset_verify" => lfForm.identifier
\* What is displayed while the answer to the submission of a phase is awaited; a code or a reset may be sent again.
LfAwaits(phase) ==
  /\ lfForm.phase = phase
  /\ phase = "credentials" => "reset" \notin lfForm.parts /\ ("otp" \notin lfForm.parts => "password" \in lfForm.parts)
  /\ phase = "otp" => "otp" \in lfForm.parts /\ {"reset", "password"} \cap lfForm.parts = {}
  /\ phase = "reset_request" => {"otp", "password"} \cap lfForm.parts = {}
  /\ phase = "reset_verify" => "reset" \in lfForm.parts /\ {"otp", "password"} \cap lfForm.parts = {} /\ lfForm.identifier
LfFits ==
  /\ \A c, d \in LfMine : c = d
  /\ LfMine = {} => LfReady
  /\ \A c \in LfMine : LfAwaits(c.phase)
LfSound == LfTyped /\ (~lfModal.in /\ ~lfCounts.spoiled => LfFits)

LEMMA LfInitSound == LfInit => LfSound
<1> SUFFICES ASSUME LfInit PROVE LfSound OBVIOUS
<1>1. LfTyped
 <2>1. lfForm \in [id : Nat, phase : LfPhases, parts : SUBSET LfParts, identifier : BOOLEAN, enabled : BOOLEAN]
   BY DEF LfInit, LfFresh, LfPhases, LfParts
 <2>2. lfModal \in [kind : {"page", "modal"}, shown : {"login", "none", "privacy"}, kept : BOOLEAN, openings : Nat, in : BOOLEAN]
   BY DEF LfInit
 <2> QED BY <2>1, <2>2 DEF LfInit, LfTyped
<1>2. LfReady /\ LfMine = {} BY DEF LfInit, LfFresh, LfReady, LfMine
<1> QED BY <1>1, <1>2 DEF LfSound, LfFits

\* Something is submitted by a form that awaits nothing.
LEMMA LfSendSound ==
  ASSUME LfSound, LfInput(LfWaiting), UNCHANGED lfModal, NEW phase \in LfPhases, LfSend(phase),
         lfForm' \in [id : Nat, phase : LfPhases, parts : SUBSET LfParts, identifier : BOOLEAN, enabled : BOOLEAN],
         lfForm'.id = lfForm.id, LfReady => LfAwaits(phase)'
  PROVE  LfSound'
<1> DEFINE c == [id |-> lfCounts.inputs, form |-> lfForm.id, phase |-> phase, pc |-> "asked"]
<1>1. lfCalls' = lfCalls \cup {c} BY DEF LfSend
<1>2. c \in [id : Nat, form : Nat, phase : LfPhases, pc : {"asked", "bootstrap"}] /\ c.form = lfForm.id /\ c.phase = phase
  BY DEF LfSound, LfTyped
<1>3. lfCounts' \in [inputs : Nat, spoiled : BOOLEAN] /\ (~lfCounts'.spoiled => ~lfCounts.spoiled /\ LfMine = {})
 <2>1. LfWaiting <=> LfMine # {} BY DEF LfWaiting, LfMine
 <2>2. LfWaiting \in BOOLEAN BY DEF LfWaiting
 <2> QED BY <2>1, <2>2 DEF LfInput, LfSound, LfTyped
<1> HIDE DEF c
<1>4. LfTyped' BY <1>1, <1>2, <1>3 DEF LfSound, LfTyped
<1>5. LfMine' = LfMine \cup {c} BY <1>1, <1>2 DEF LfMine
<1>6. ASSUME ~lfModal'.in, ~lfCounts'.spoiled PROVE LfFits'
 <2>1. LfMine' = {c} /\ LfReady BY <1>3, <1>5, <1>6 DEF LfSound, LfFits
 <2> QED BY <1>2, <2>1 DEF LfFits
<1> QED BY <1>4, <1>6 DEF LfSound

\* Inputs that send nothing, on a form that awaits nothing.
LEMMA LfLinkSound ==
  ASSUME LfSound, LfInput(LfWaiting), UNCHANGED <<lfModal, lfCalls>>,
         lfForm' \in [id : Nat, phase : LfPhases, parts : SUBSET LfParts, identifier : BOOLEAN, enabled : BOOLEAN],
         lfForm'.id = lfForm.id, LfReady => LfReady'
  PROVE  LfSound'
<1>1. lfCounts' \in [inputs : Nat, spoiled : BOOLEAN] /\ (~lfCounts'.spoiled => ~lfCounts.spoiled /\ LfMine = {})
 <2>1. LfWaiting <=> LfMine # {} BY DEF LfWaiting, LfMine
 <2>2. LfWaiting \in BOOLEAN BY DEF LfWaiting
 <2> QED BY <2>1, <2>2 DEF LfInput, LfSound, LfTyped
<1>2. LfTyped' BY <1>1 DEF LfSound, LfTyped
<1>3. LfMine' = LfMine BY DEF LfMine
<1> QED BY <1>1, <1>2, <1>3 DEF LfSound, LfFits

LEMMA LfInputsSound == LfSound /\ (LfForgot \/ LfBack \/ LfSubmit(TRUE) \/ LfSubmit(FALSE)) => LfSound'
<1> SUFFICES ASSUME LfSound PROVE LfForgot \/ LfBack \/ LfSubmit(TRUE) \/ LfSubmit(FALSE) => LfSound' OBVIOUS
<1>1. CASE LfForgot
 <2>1. lfForm' = showPasswordResetRequestPhase(lfForm) BY <1>1 DEF LfForgot
 <2>2. lfForm' \in [id : Nat, phase : LfPhases, parts : SUBSET LfParts, identifier : BOOLEAN, enabled : BOOLEAN]
       /\ lfForm'.id = lfForm.id
   BY <2>1 DEF showPasswordResetRequestPhase, LfSound, LfTyped, LfPhases, LfParts
 <2>3. LfReady => LfReady' BY <2>1 DEF showPasswordResetRequestPhase, LfReady, LfSound, LfTyped
 <2> QED BY <1>1, <2>2, <2>3, LfLinkSound DEF LfForgot
<1>2. CASE LfBack
 <2>1. lfForm' = restoreLoginCredentialsPhase(lfForm) BY <1>2 DEF LfBack
 <2>2. lfForm' \in [id : Nat, phase : LfPhases, parts : SUBSET LfParts, identifier : BOOLEAN, enabled : BOOLEAN]
       /\ lfForm'.id = lfForm.id
   BY <2>1 DEF restoreLoginCredentialsPhase, LfSound, LfTyped, LfPhases, LfParts
 <2>3. LfReady => LfReady' BY <2>1 DEF restoreLoginCredentialsPhase, LfReady, LfSound, LfTyped
 <2> QED BY <1>2, <2>2, <2>3, LfLinkSound DEF LfBack
<1>3. ASSUME NEW filled \in BOOLEAN, LfSubmit(filled) PROVE LfSound'
 <2>0. LfInput(LfWaiting) /\ UNCHANGED lfModal BY <1>3 DEF LfSubmit
 <2>1. CASE filled \/ lfForm.phase = "credentials"
  <3>1. LfSend(lfForm.phase) /\ lfForm' = [lfForm EXCEPT !.enabled = FALSE] BY <1>3, <2>1 DEF LfSubmit
  <3>2. lfForm' \in [id : Nat, phase : LfPhases, parts : SUBSET LfParts, identifier : BOOLEAN, enabled : BOOLEAN]
        /\ lfForm'.id = lfForm.id /\ lfForm.phase \in LfPhases BY <3>1 DEF LfSound, LfTyped
  <3>3. LfReady => LfAwaits(lfForm.phase)' BY <3>1 DEF LfReady, LfAwaits, LfSound, LfTyped
  <3> QED BY <2>0, <3>1, <3>2, <3>3, LfSendSound
 <2>2. CASE ~(filled \/ lfForm.phase = "credentials")
  <3>1. UNCHANGED <<lfCalls, lfForm>> BY <1>3, <2>2 DEF LfSubmit
  <3>2. lfForm' \in [id : Nat, phase : LfPhases, parts : SUBSET LfParts, identifier : BOOLEAN, enabled : BOOLEAN]
    BY <3>1 DEF LfSound, LfTyped
  <3>3. LfReady => LfReady' BY <3>1 DEF LfReady
  <3> QED BY <2>0, <3>1, <3>2, <3>3, LfLinkSound
 <2> QED BY <2>1, <2>2
<1> QED BY <1>1, <1>2, <1>3

LEMMA LfResendSound == LfSound /\ (LfResendOtp \/ LfResendReset) => LfSound'
<1> SUFFICES ASSUME LfSound PROVE LfResendOtp \/ LfResendReset => LfSound' OBVIOUS
<1>1. CASE LfResendOtp
 <2>1. lfForm' = [lfForm EXCEPT !.phase = "credentials", !.enabled = FALSE] /\ "otp" \in lfForm.parts
       /\ LfSend("credentials") BY <1>1 DEF LfResendOtp
 <2>2. lfForm' \in [id : Nat, phase : LfPhases, parts : SUBSET LfParts, identifier : BOOLEAN, enabled : BOOLEAN]
       /\ lfForm'.id = lfForm.id /\ "credentials" \in LfPhases BY <2>1 DEF LfSound, LfTyped, LfPhases
 <2>3. LfReady => LfAwaits("credentials")' BY <2>1 DEF LfReady, LfAwaits, LfSound, LfTyped
 <2> QED BY <1>1, <2>1, <2>2, <2>3, LfSendSound DEF LfResendOtp
<1>2. CASE LfResendReset
 <2>1. PICK enabled \in BOOLEAN : lfForm' = [lfForm EXCEPT !.phase = "reset_request", !.enabled = enabled]
   BY <1>2 DEF LfResendReset, LfSound, LfTyped
 <2>2. lfForm' \in [id : Nat, phase : LfPhases, parts : SUBSET LfParts, identifier : BOOLEAN, enabled : BOOLEAN]
       /\ lfForm'.id = lfForm.id /\ "reset_request" \in LfPhases BY <2>1 DEF LfSound, LfTyped, LfPhases
 <2>3. LfReady => LfAwaits("reset_request")'
   BY <1>2, <2>1 DEF LfReady, LfAwaits, LfSound, LfTyped, LfResendReset
 <2> QED BY <1>2, <2>2, <2>3, LfSendSound DEF LfResendReset
<1> QED BY <1>1, <1>2

\* An answer reaches the form that awaits it, or changes no form.
LEMMA LfAnsweredSound ==
  ASSUME LfSound, NEW c \in lfCalls, lfCalls' = lfCalls \ {c}, UNCHANGED lfModal,
         lfCounts' \in [inputs : Nat, spoiled : BOOLEAN], lfCounts.spoiled => lfCounts'.spoiled,
         lfForm' \in [id : Nat, phase : LfPhases, parts : SUBSET LfParts, identifier : BOOLEAN, enabled : BOOLEAN],
         lfForm'.id = lfForm.id, c.form # lfForm.id => lfForm' = lfForm,
         c.form = lfForm.id /\ LfAwaits(c.phase) /\ ~lfCounts'.spoiled => LfReady'
  PROVE  LfSound'
<1>1. LfTyped' BY DEF LfSound, LfTyped
<1>2. ASSUME ~lfModal'.in, ~lfCounts'.spoiled PROVE LfFits'
 <2>0. LfFits /\ LfMine' = LfMine \ {c} BY <1>2 DEF LfSound, LfMine
 <2>1. CASE c.form = lfForm.id
  <3>1. c \in LfMine /\ LfAwaits(c.phase) BY <2>0, <2>1 DEF LfMine, LfFits
  <3>2. LfMine' = {} BY <2>0, <3>1 DEF LfFits
  <3> QED BY <1>2, <2>1, <3>1, <3>2 DEF LfFits
 <2>2. CASE c.form # lfForm.id
  <3>1. LfMine' = LfMine /\ lfForm' = lfForm BY <2>0, <2>2 DEF LfMine
  <3> QED BY <2>0, <3>1 DEF LfFits, LfReady, LfAwaits
 <2> QED BY <2>1, <2>2
<1> QED BY <1>1, <1>2 DEF LfSound

\* Not answered, or refused: a code that is sent again and fails is left out of the promise.
LEMMA LfFailedSound == ASSUME NEW c \in lfCalls, LfSound, LfRefused(c) \/ LfLost(c) PROVE LfSound'
<1>1. lfCounts' \in [inputs : Nat, spoiled : BOOLEAN] /\ (lfCounts.spoiled => lfCounts'.spoiled)
      /\ (c.phase \in {"credentials", "reset_request"} /\ ~lfCounts'.spoiled => {"otp", "reset"} \cap lfForm.parts = {})
 <2>1. CASE c.phase \in {"credentials", "reset_request"}
  <3>1. LfResent(c) BY <2>1 DEF LfRefused, LfLost
  <3>2. PICK spoils \in BOOLEAN : spoils = ({"otp", "reset"} \cap lfForm.parts # {}) OBVIOUS
  <3>3. lfCounts' = [lfCounts EXCEPT !.spoiled = @ \/ spoils] BY <3>1, <3>2 DEF LfResent
  <3> QED BY <3>2, <3>3 DEF LfSound, LfTyped
 <2>2. CASE c.phase \notin {"credentials", "reset_request"} BY <2>2 DEF LfRefused, LfLost, LfSound, LfTyped
 <2> QED BY <2>1, <2>2
<1>2. lfCalls' = lfCalls \ {c} /\ UNCHANGED lfModal
      /\ (lfForm' = lfForm \/ (c.form = lfForm.id /\ lfForm' = [lfForm EXCEPT !.enabled = TRUE]))
      /\ (c.form = lfForm.id => lfForm' = [lfForm EXCEPT !.enabled = TRUE]
                                \/ (c.phase = "reset_request" /\ "reset" \in lfForm.parts))
  BY DEF LfRefused, LfLost, LfAnswer
<1>3. lfForm' \in [id : Nat, phase : LfPhases, parts : SUBSET LfParts, identifier : BOOLEAN, enabled : BOOLEAN]
      /\ lfForm'.id = lfForm.id BY <1>2 DEF LfSound, LfTyped
<1>4. ASSUME c.form = lfForm.id, LfAwaits(c.phase), ~lfCounts'.spoiled PROVE LfReady'
 <2>1. lfForm' = [lfForm EXCEPT !.enabled = TRUE] /\ lfForm.phase = c.phase BY <1>1, <1>2, <1>4 DEF LfAwaits
 <2>2. c.phase \in LfPhases BY DEF LfSound, LfTyped
 <2> QED BY <1>1, <1>4, <2>1, <2>2 DEF LfReady, LfAwaits, LfPhases, LfSound, LfTyped
<1> QED BY <1>1, <1>2, <1>3, <1>4, LfAnsweredSound

LEMMA LfAnswersSound ==
  ASSUME NEW c \in lfCalls, LfSound,
         \/ LfCodeWanted(c, TRUE) \/ LfCodeWanted(c, FALSE)
         \/ handlePasswordResetRequestPhase(c) \/ handlePasswordResetVerifyPhase(c)
  PROVE  LfSound'
<1> DEFINE Forms == [id : Nat, phase : LfPhases, parts : SUBSET LfParts, identifier : BOOLEAN, enabled : BOOLEAN]
<1>0. lfForm \in Forms /\ UNCHANGED <<lfCounts, lfModal>> /\ lfCalls' = lfCalls \ {c} /\ lfCounts \in [inputs : Nat, spoiled : BOOLEAN]
  BY DEF LfSound, LfTyped, LfCodeWanted, handlePasswordResetRequestPhase, handlePasswordResetVerifyPhase, LfAnswer
<1>1. ASSUME NEW byMail \in BOOLEAN, LfCodeWanted(c, byMail) PROVE LfSound'
 <2> DEFINE f == [showOTPPhase(lfForm, byMail) EXCEPT !.enabled = TRUE]
 <2>1. lfForm' = IF c.form = lfForm.id THEN f ELSE lfForm BY <1>1 DEF LfCodeWanted, LfAnswer
 <2>2. f \in Forms /\ f.id = lfForm.id /\ f.enabled /\ f.phase = "otp" /\ "otp" \in f.parts
       /\ (f.parts \cap {"reset", "password"} = lfForm.parts \cap {"reset"})
   BY <1>0 DEF showOTPPhase, LfPhases, LfParts
 <2>3. c.phase = "credentials" BY <1>1 DEF LfCodeWanted
 <2> HIDE DEF f
 <2>4. LfAwaits("credentials") /\ lfForm' = f => LfReady' BY <2>2 DEF LfAwaits, LfReady
 <2> QED BY <1>0, <2>1, <2>2, <2>3, <2>4, LfAnsweredSound
<1>2. CASE handlePasswordResetRequestPhase(c)
 <2> DEFINE f == [[showPasswordResetVerifyPhase(lfForm) EXCEPT !.identifier = TRUE] EXCEPT !.enabled = TRUE]
 <2>1. lfForm' = IF c.form = lfForm.id THEN f ELSE lfForm
   BY <1>2 DEF handlePasswordResetRequestPhase, LfAnswer
 <2>2. f \in Forms /\ f.id = lfForm.id /\ f.enabled /\ f.phase = "reset_verify" /\ "reset" \in f.parts
       /\ {"otp", "password"} \cap f.parts = {} /\ f.identifier
   BY <1>0 DEF showPasswordResetVerifyPhase, LfPhases, LfParts
 <2> HIDE DEF f
 <2>3. lfForm' = f => LfReady' BY <2>2 DEF LfReady
 <2> QED BY <1>0, <2>1, <2>2, <2>3, LfAnsweredSound
<1>3. CASE handlePasswordResetVerifyPhase(c)
 <2> DEFINE f == [restoreLoginCredentialsPhase(lfForm) EXCEPT !.enabled = TRUE]
 <2>1. lfForm' = IF c.form = lfForm.id THEN f ELSE lfForm
   BY <1>3 DEF handlePasswordResetVerifyPhase, LfAnswer
 <2>2. f \in Forms /\ f.id = lfForm.id /\ f.enabled /\ f.phase = "credentials" /\ f.parts = {"username", "password", "forgot"}
   BY <1>0 DEF restoreLoginCredentialsPhase, LfPhases, LfParts
 <2> HIDE DEF f
 <2>3. lfForm' = f => LfReady' BY <2>2 DEF LfReady
 <2> QED BY <1>0, <2>1, <2>2, <2>3, LfAnsweredSound
<1> QED BY <1>1, <1>2, <1>3

LEMMA LfAuthenticatedSound ==
  ASSUME NEW c \in lfCalls, LfSound, LfAuthenticated(c) \/ completeSuccessfulModalLogin(c)
  PROVE  LfSound'
<1>1. CASE lfModal'.in /\ lfCalls' = lfCalls \ {c}
 <2>1. lfModal' \in [kind : {"page", "modal"}, shown : {"login", "none", "privacy"}, kept : BOOLEAN, openings : Nat, in : BOOLEAN]
   BY <1>1 DEF LfAuthenticated, completeSuccessfulModalLogin, LfSound, LfTyped
 <2>2. UNCHANGED <<lfForm, lfCounts>> BY DEF LfAuthenticated, completeSuccessfulModalLogin
 <2> QED BY <1>1, <2>1, <2>2 DEF LfSound, LfTyped
<1>2. CASE lfCalls' = (lfCalls \ {c}) \cup {[c EXCEPT !.pc = "bootstrap"]} /\ UNCHANGED <<lfModal, lfForm, lfCounts>>
 <2> DEFINE d == [c EXCEPT !.pc = "bootstrap"]
 <2>1. d \in [id : Nat, form : Nat, phase : LfPhases, pc : {"asked", "bootstrap"}] /\ d.form = c.form /\ d.phase = c.phase
   BY DEF LfSound, LfTyped
 <2>2. lfCalls' = (lfCalls \ {c}) \cup {d} BY <1>2
 <2> HIDE DEF d
 <2>3. LfTyped' BY <1>2, <2>1, <2>2 DEF LfSound, LfTyped
 <2>4. LfMine' = IF c \in LfMine THEN (LfMine \ {c}) \cup {d} ELSE LfMine BY <1>2, <2>1, <2>2 DEF LfMine
 <2>5. LfFits => LfFits' BY <1>2, <2>1, <2>4 DEF LfFits, LfReady, LfAwaits
 <2> QED BY <1>2, <2>3, <2>5 DEF LfSound
<1>3. lfModal'.in \/ ~lfModal'.in OBVIOUS
<1> QED BY <1>1, <1>2 DEF LfAuthenticated, completeSuccessfulModalLogin, LfSound, LfTyped

\* The modal shows, hides or replaces the form, and never changes it; a fetched one is new.
LEMMA LfModalSound ==
  LfSound /\ (showLoginModal \/ LfFetched \/ LfFetchFails \/ LfClose \/ showPrivacyContentInModal) => LfSound'
<1> SUFFICES ASSUME LfSound, showLoginModal \/ LfFetched \/ LfFetchFails \/ LfClose \/ showPrivacyContentInModal
             PROVE  LfSound' OBVIOUS
<1>1. lfModal' \in [kind : {"page", "modal"}, shown : {"login", "none", "privacy"}, kept : BOOLEAN, openings : Nat, in : BOOLEAN]
      /\ lfModal'.in = lfModal.in
 <2>0. lfModal \in [kind : {"page", "modal"}, shown : {"login", "none", "privacy"}, kept : BOOLEAN, openings : Nat, in : BOOLEAN]
   BY DEF LfSound, LfTyped
 <2> DEFINE Fits == lfModal' \in [kind : {"page", "modal"}, shown : {"login", "none", "privacy"}, kept : BOOLEAN, openings : Nat, in : BOOLEAN]
                    /\ lfModal'.in = lfModal.in
 <2>1. CASE showLoginModal BY <2>0, <2>1 DEF showLoginModal
 <2>2. CASE LfFetched
  <3>1. lfModal.openings - 1 \in Nat BY <2>0, <2>2 DEF LfFetched
  <3> QED BY <2>0, <2>2, <3>1 DEF LfFetched
 <2>3. CASE LfFetchFails
  <3>1. lfModal.openings - 1 \in Nat BY <2>0, <2>3 DEF LfFetchFails
  <3> QED BY <2>0, <2>3, <3>1 DEF LfFetchFails
 <2>4. CASE LfClose BY <2>0, <2>4 DEF LfClose
 <2>5. CASE showPrivacyContentInModal BY <2>0, <2>5 DEF showPrivacyContentInModal
 <2> QED BY <2>1, <2>2, <2>3, <2>4, <2>5
<1>2. lfCounts' \in [inputs : Nat, spoiled : BOOLEAN] /\ lfCounts'.spoiled = lfCounts.spoiled /\ lfCalls' = lfCalls
  BY DEF LfSound, LfTyped, LfInput, showLoginModal, LfFetched, LfFetchFails, LfClose, showPrivacyContentInModal
<1>3. CASE lfForm' = lfForm
 <2>1. LfTyped' /\ LfMine' = LfMine BY <1>1, <1>2, <1>3 DEF LfSound, LfTyped, LfMine
 <2> QED BY <1>1, <1>2, <1>3, <2>1 DEF LfSound, LfFits, LfReady, LfAwaits
<1>4. CASE LfFetched
 <2>1. lfForm' = LfFresh(lfForm.id + 1) BY <1>4 DEF LfFetched
 <2>2. lfForm' \in [id : Nat, phase : LfPhases, parts : SUBSET LfParts, identifier : BOOLEAN, enabled : BOOLEAN]
       /\ lfForm'.id = lfForm.id + 1 BY <2>1 DEF LfSound, LfTyped, LfFresh, LfPhases, LfParts
 <2>3. LfTyped' /\ LfMine' = {} BY <1>1, <1>2, <2>2 DEF LfSound, LfTyped, LfMine
 <2>4. LfReady' BY <2>1 DEF LfReady, LfFresh
 <2> QED BY <2>3, <2>4 DEF LfSound, LfFits
<1> QED BY <1>3, <1>4 DEF showLoginModal, LfFetchFails, LfClose, showPrivacyContentInModal

LEMMA LfStep == LfSound /\ [LfNext]_lfVars => LfSound'
<1>1. LfSound /\ UNCHANGED lfVars => LfSound'
  BY DEF LfSound, LfTyped, LfFits, LfMine, LfReady, LfAwaits, lfVars
<1> QED BY <1>1, LfInputsSound, LfResendSound, LfFailedSound, LfAnswersSound, LfAuthenticatedSound, LfModalSound DEF LfNext

\* A form that waits for nothing can be submitted, and what it displays is what its phase submits.
THEOREM LfShowsItsPhase == LfSpec => []LfFormShowsItsPhase
<1>1. LfSound => LfFormShowsItsPhase BY DEF LfSound, LfFits, LfMine, LfReady, LfFormShowsItsPhase, LfWaiting
<1> QED BY <1>1, LfInitSound, LfStep, PTL DEF LfSpec
-----------------------------------------------------------------------------
SeSpec == SeInit /\ [][SeNext]_seVars
-----------------------------------------------------------------------------
(* Two tabs and the session: SeShellIsOfTheSession, for any number of sessions. *)

SeSizes == SeMaxSessions \in Nat \ {0}

SeJobsOf == [tab : SeTabs, kind : {"login", "loginSync", "load", "logout", "logoutSync"},
             pc : {"announce", "modes", "rights", "fingerprint", "boot", "tables", "asked", "answered", "emptied", "assign", "told"},
             got : Nat, as : BOOLEAN]
SeTabsOf == [SeTabs -> [shell : Nat, as : BOOLEAN, rights : Nat]]
\* What is told of the present session, and the rights in it.
SeEvent == [kind |-> IF LoggedIn(seServer) THEN "login" ELSE "logout", id |-> seServer]
SeRights == IF LoggedIn(seServer) THEN seServer ELSE NoRights
SeTyped ==
  /\ SeMaxSessions \in Nat /\ seServer \in 0..SeMaxSessions
  /\ seStore \in [user : BOOLEAN, told : BOOLEAN]
  /\ seTabs \in SeTabsOf
  /\ seJobs \subseteq SeJobsOf
  /\ seMail \in [SeTabs -> [box : [Transports -> {<<>>, <<SeEvent>>}], seen : SUBSET (0..seServer)]]

\* What each kind of job has done so far is of the present session.
SeJobFits(j) ==
  /\ j.got \in {NoRights, seServer}
  /\ j.kind = "login" => LoggedIn(seServer) /\ j.pc \in {"announce", "modes", "rights", "boot", "tables"}
  /\ j.kind = "loginSync" => LoggedIn(seServer) /\ j.pc \in {"modes", "rights", "boot", "tables"}
  /\ j.kind = "load" => j.pc \in {"modes", "rights", "fingerprint", "boot", "tables"}
  /\ j.kind = "logout" => j.got = NoRights /\ (j.pc = "asked" \/ (~LoggedIn(seServer) /\ j.pc \in {"answered", "emptied", "assign"}))
  /\ j.kind = "logoutSync" => ~LoggedIn(seServer) /\ j.pc \in {"told", "emptied"}
  /\ j.pc = "rights" => LoggedIn(seServer)
  /\ j.pc \in {"rights", "fingerprint", "boot", "tables"} => seStore.user = LoggedIn(seServer)
  /\ j.pc = "tables" => j.as = LoggedIn(seServer)
  /\ j.pc \in {"fingerprint", "boot", "tables"} => seTabs[j.tab].rights = SeRights
\* The jobs that have still to tell the other tab; nothing else is carried out meanwhile, and only a login that is
\* told is met.
SeAnnounces(j) == (j.kind = "login" /\ j.pc = "announce") \/ (j.kind = "logout" /\ j.pc \in {"answered", "emptied"})
SeAnnouncing ==
  \A a \in seJobs : SeAnnounces(a) =>
     /\ \A t \in SeTabs : \A x \in Transports : seMail[t].box[x] = <<>>
     /\ \A j \in seJobs : j = a \/ j.pc = "asked"
SeTold ==
  LoggedIn(seServer) =>
    /\ \A t \in SeTabs : \A x \in Transports : seMail[t].box[x] # <<>> => seStore.told
    /\ \A a \in seJobs : SeAnnounces(a) => seStore.told
\* A tab shows the session, or is about to, or will be told of it.
SeDone(t) == seTabs[t].shell = seServer /\ seTabs[t].as = LoggedIn(seServer) /\ seTabs[t].rights = SeRights
SeActive(t) == \E j \in seJobs : j.tab = t /\ j.pc # "asked"
SeAwaited(t) ==
  /\ seServer \notin seMail[t].seen
  /\ (\E x \in Transports : seMail[t].box[x] # <<>>) \/ (\E a \in seJobs : SeAnnounces(a) /\ a.tab # t)
SeFollows == \A t \in SeTabs : SeDone(t) \/ SeActive(t) \/ SeAwaited(t)
SeFits == SeTyped /\ (\A j \in seJobs : SeJobFits(j)) /\ SeAnnouncing /\ SeTold /\ SeFollows
SeSound == seSpoiled \in BOOLEAN /\ (~seSpoiled => SeFits)

LEMMA SeInitSound == SeSizes => (SeInit => SeSound)
<1> SUFFICES ASSUME SeSizes, SeInit PROVE SeSound OBVIOUS
<1> USE DEF SeInit
<1>1. PICK told \in BOOLEAN : seStore = [user |-> LoggedIn(seServer), told |-> told] OBVIOUS
<1>2. LoggedIn(seServer) \in BOOLEAN /\ SeMaxSessions \in Nat /\ seServer \in 0..SeMaxSessions /\ NoRights \in Nat
  BY DEF SeSizes, LoggedIn, NoRights
<1>3. seStore \in [user : BOOLEAN, told : BOOLEAN] BY <1>1, <1>2
<1>4. seTabs \in SeTabsOf /\ \A t \in SeTabs : SeDone(t) BY <1>2 DEF SeTabsOf, SeDone, SeRights
<1>5. seMail \in [SeTabs -> [box : [Transports -> {<<>>, <<SeEvent>>}], seen : SUBSET (0..seServer)]]
      /\ \A t \in SeTabs : \A x \in Transports : seMail[t].box[x] = <<>> BY DEF NewMail
<1>6. SeTyped BY <1>2, <1>3, <1>4, <1>5 DEF SeTyped
<1> QED BY <1>4, <1>5, <1>6 DEF SeSound, SeFits, SeAnnouncing, SeTold, SeFollows

LEMMA SeParity == \A s \in Nat : LoggedIn(s) \in BOOLEAN /\ (LoggedIn(s + 1) <=> ~LoggedIn(s)) BY DEF LoggedIn

\* A job goes on; what it writes is of the present session.
LEMMA SeMoved ==
  ASSUME SeFits, NEW j \in seJobs, NEW k \in SeJobsOf, SeMove(j, {k}), k.tab = j.tab, j.pc # "asked", k.pc # "asked",
         SeAnnounces(k) <=> SeAnnounces(j), UNCHANGED <<seServer, seMail>>, SeJobFits(k)',
         seStore' \in [user : BOOLEAN, told : BOOLEAN], seStore'.told = seStore.told,
         seStore'.user \in {seStore.user, LoggedIn(seServer)}, seTabs' \in SeTabsOf,
         \A t \in SeTabs : /\ seTabs'[t].rights \in {seTabs[t].rights, SeRights}
                           /\ seTabs'[t].shell = seTabs[t].shell /\ seTabs'[t].as = seTabs[t].as
  PROVE  SeFits'
<1>0. seJobs' = (seJobs \ {j}) \cup {k} /\ SeRights' = SeRights /\ SeEvent' = SeEvent
  BY DEF SeMove, SeRights, SeEvent
<1>1. SeTyped' BY <1>0 DEF SeFits, SeTyped
<1>2. ASSUME NEW i \in seJobs' PROVE SeJobFits(i)'
 <2>1. CASE i \in seJobs
  <3>1. SeJobFits(i) /\ i.tab \in SeTabs BY <2>1 DEF SeFits, SeTyped, SeJobsOf
  <3> QED BY <1>0, <3>1 DEF SeJobFits
 <2> QED BY <1>0, <1>2, <2>1
<1>3. SeAnnouncing' /\ SeTold' BY <1>0 DEF SeFits, SeAnnouncing, SeTold, SeAnnounces
<1>4. ASSUME NEW t \in SeTabs PROVE SeDone(t)' \/ SeActive(t)' \/ SeAwaited(t)'
 <2>1. CASE SeDone(t) BY <1>0, <2>1 DEF SeDone
 <2>2. CASE SeActive(t) BY <1>0, <2>2 DEF SeActive
 <2>3. CASE SeAwaited(t) BY <1>0, <2>3 DEF SeAwaited, SeAnnounces
 <2> QED BY <2>1, <2>2, <2>3 DEF SeFits, SeFollows
<1> QED BY <1>1, <1>2, <1>3, <1>4 DEF SeFits, SeFollows

\* What is known of a job.
LEMMA SeJobTyped ==
  ASSUME SeFits, NEW j \in seJobs
  PROVE  /\ j \in SeJobsOf /\ j.tab \in SeTabs /\ j.got \in Nat /\ SeJobFits(j) /\ seTabs \in SeTabsOf
         /\ SeMaxSessions \in Nat /\ seServer \in Nat /\ NoRights \in Nat /\ seServer # NoRights /\ SeRights \in Nat
         /\ LoggedIn(seServer) \in BOOLEAN /\ seStore \in [user : BOOLEAN, told : BOOLEAN]
BY SeParity DEF SeFits, SeTyped, SeJobsOf, NoRights, SeRights

LEMMA SeServedSound == ASSUME NEW j \in seJobs, SeFits, SeServed(j) PROVE SeFits'
<1>0. PICK k : k = [j EXCEPT !.got = seServer] OBVIOUS
<1>1. SeMove(j, {k}) /\ UNCHANGED <<seServer, seStore, seTabs, seMail>> /\ j.pc \in {"modes", "rights", "tables"}
  BY <1>0 DEF SeServed
<1>2. k \in SeJobsOf /\ k.tab = j.tab /\ k.pc = j.pc /\ k.kind = j.kind /\ k.got = seServer /\ k.as = j.as
  BY <1>0, SeJobTyped DEF SeJobsOf
<1>3. SeJobFits(k)' /\ (SeAnnounces(k) <=> SeAnnounces(j))
  BY <1>1, <1>2, SeJobTyped DEF SeJobFits, SeAnnounces, SeRights
<1> QED BY <1>1, <1>2, <1>3, SeJobTyped, SeMoved

\* The mode was read; a guest's page holds no rights then.
LEMMA SeModesSound == ASSUME NEW j \in seJobs, SeFits, setAuthModes(j) PROVE SeFits'
<1>0. /\ j.pc = "modes" /\ j.got = seServer /\ seStore' = [seStore EXCEPT !.user = LoggedIn(seServer)]
      /\ UNCHANGED <<seServer, seMail>> BY SeJobTyped DEF setAuthModes, SeJobFits
<1>1. seStore' \in [user : BOOLEAN, told : BOOLEAN] /\ seStore'.told = seStore.told /\ seStore'.user = LoggedIn(seServer)
  BY <1>0, SeJobTyped
<1>2. CASE LoggedIn(seServer)
 <2> DEFINE k == [j EXCEPT !.pc = "rights", !.got = NoRights]
 <2>1. SeMove(j, {k}) /\ UNCHANGED seTabs BY <1>0, <1>2 DEF setAuthModes
 <2>2. k \in SeJobsOf /\ k.tab = j.tab /\ k.pc = "rights" /\ k.kind = j.kind /\ k.got = NoRights /\ k.as = j.as
   BY SeJobTyped DEF SeJobsOf
 <2> HIDE DEF k
 <2>3. SeJobFits(k)' /\ (SeAnnounces(k) <=> SeAnnounces(j))
   BY <1>0, <1>1, <1>2, <2>1, <2>2, SeJobTyped DEF SeJobFits, SeAnnounces, NoRights
 <2> QED BY <1>0, <1>1, <2>1, <2>2, <2>3, SeJobTyped, SeMoved
<1>3. CASE ~LoggedIn(seServer)
 <2> DEFINE k == [j EXCEPT !.got = NoRights, !.pc = IF j.kind = "load" THEN "fingerprint" ELSE "boot"]
 <2>1. SeMove(j, {k}) /\ seTabs' = [seTabs EXCEPT ![j.tab].rights = NoRights]
   BY <1>0, <1>3 DEF setAuthModes, SeAfterModes
 <2>2. k \in SeJobsOf /\ k.tab = j.tab /\ k.kind = j.kind /\ k.got = NoRights /\ k.as = j.as
       /\ k.pc = IF j.kind = "load" THEN "fingerprint" ELSE "boot" BY SeJobTyped DEF SeJobsOf
 <2> HIDE DEF k
 <2>3. seTabs' \in SeTabsOf /\ seTabs'[j.tab].rights = SeRights
       /\ \A t \in SeTabs : /\ seTabs'[t].shell = seTabs[t].shell /\ seTabs'[t].as = seTabs[t].as
                            /\ t # j.tab => seTabs'[t].rights = seTabs[t].rights
   BY <1>3, <2>1, SeJobTyped DEF SeRights, SeTabsOf
 <2>4. SeJobFits(k)' /\ (SeAnnounces(k) <=> SeAnnounces(j))
   BY <1>0, <1>1, <1>3, <2>2, <2>3, SeJobTyped DEF SeJobFits, SeAnnounces, SeRights, NoRights
 <2> QED BY <1>0, <1>1, <2>1, <2>2, <2>3, <2>4, SeJobTyped, SeMoved
<1> QED BY <1>2, <1>3

LEMMA SePermissionsSound == ASSUME NEW j \in seJobs, SeFits, fetchUserPermissions(j) PROVE SeFits'
<1> DEFINE k == [j EXCEPT !.got = NoRights, !.pc = IF j.kind = "load" THEN "fingerprint" ELSE "boot"]
<1>1. /\ j.pc = "rights" /\ j.got = seServer /\ LoggedIn(seServer) /\ SeMove(j, {k})
      /\ seTabs' = [seTabs EXCEPT ![j.tab].rights = seServer] /\ UNCHANGED <<seServer, seStore, seMail>>
  BY SeJobTyped DEF fetchUserPermissions, SeJobFits, SeAfterModes
<1>2. k \in SeJobsOf /\ k.tab = j.tab /\ k.kind = j.kind /\ k.got = NoRights /\ k.as = j.as
      /\ k.pc = IF j.kind = "load" THEN "fingerprint" ELSE "boot" BY SeJobTyped DEF SeJobsOf
<1> HIDE DEF k
<1>3. seTabs' \in SeTabsOf /\ seTabs'[j.tab].rights = SeRights
      /\ \A t \in SeTabs : /\ seTabs'[t].shell = seTabs[t].shell /\ seTabs'[t].as = seTabs[t].as
                           /\ t # j.tab => seTabs'[t].rights = seTabs[t].rights
  BY <1>1, SeJobTyped DEF SeRights, SeTabsOf
<1>4. SeJobFits(k)' /\ (SeAnnounces(k) <=> SeAnnounces(j))
  BY <1>1, <1>2, <1>3, SeJobTyped DEF SeJobFits, SeAnnounces, SeRights, NoRights
<1> QED BY <1>1, <1>2, <1>3, <1>4, SeJobTyped, SeMoved

LEMMA SeBootSound == ASSUME NEW j \in seJobs, SeFits, checkFingerprint(j) \/ runPostAuthBootstrap(j) PROVE SeFits'
<1>0. UNCHANGED <<seServer, seStore, seTabs, seMail>> BY DEF checkFingerprint, runPostAuthBootstrap
<1>1. CASE checkFingerprint(j)
 <2> DEFINE k == [j EXCEPT !.pc = "boot"]
 <2>1. SeMove(j, {k}) /\ j.pc = "fingerprint" BY <1>1 DEF checkFingerprint
 <2>2. k \in SeJobsOf /\ k.tab = j.tab /\ k.kind = j.kind /\ k.got = j.got /\ k.as = j.as /\ k.pc = "boot"
   BY SeJobTyped DEF SeJobsOf
 <2> HIDE DEF k
 <2>3. SeJobFits(k)' /\ (SeAnnounces(k) <=> SeAnnounces(j))
   BY <1>0, <2>1, <2>2, SeJobTyped DEF SeJobFits, SeAnnounces, SeRights, NoRights
 <2> QED BY <1>0, <2>1, <2>2, <2>3, SeJobTyped, SeMoved
<1>2. CASE runPostAuthBootstrap(j)
 <2>0. PICK k : k = [j EXCEPT !.pc = "tables", !.as = seStore.user] OBVIOUS
 <2>1. SeMove(j, {k}) /\ j.pc = "boot" BY <1>2, <2>0 DEF runPostAuthBootstrap
 <2>2. k \in SeJobsOf /\ k.tab = j.tab /\ k.kind = j.kind /\ k.got = j.got /\ k.as = seStore.user /\ k.pc = "tables"
   BY <2>0, SeJobTyped DEF SeJobsOf
 <2>3. SeJobFits(k)' /\ (SeAnnounces(k) <=> SeAnnounces(j))
   BY <1>0, <2>1, <2>2, SeJobTyped DEF SeJobFits, SeAnnounces, SeRights, NoRights
 <2> QED BY <1>0, <2>1, <2>2, <2>3, SeJobTyped, SeMoved
<1> QED BY <1>1, <1>2

LEMMA SeResetSound == ASSUME NEW j \in seJobs, SeFits, performSpaLogoutReset(j) PROVE SeFits'
<1> DEFINE k == [j EXCEPT !.pc = "emptied"]
<1>1. /\ j.pc \in {"answered", "told"} /\ SeMove(j, {k}) /\ UNCHANGED <<seServer, seMail>>
      /\ seStore' = [seStore EXCEPT !.user = FALSE] /\ seTabs' = [seTabs EXCEPT ![j.tab] = [@ EXCEPT !.rights = NoRights]]
  BY DEF performSpaLogoutReset, applyLoggedOutShellReset
<1>2. j.kind \in {"logout", "logoutSync"} /\ ~LoggedIn(seServer) /\ (j.pc = "told" <=> j.kind = "logoutSync")
  BY <1>1, SeJobTyped DEF SeJobFits, SeJobsOf
<1>3. k \in SeJobsOf /\ k.tab = j.tab /\ k.kind = j.kind /\ k.got = j.got /\ k.as = j.as /\ k.pc = "emptied"
  BY SeJobTyped DEF SeJobsOf
<1> HIDE DEF k
<1>4. seTabs' \in SeTabsOf /\ seTabs'[j.tab].rights = SeRights
      /\ \A t \in SeTabs : /\ seTabs'[t].shell = seTabs[t].shell /\ seTabs'[t].as = seTabs[t].as
                           /\ t # j.tab => seTabs'[t].rights = seTabs[t].rights
  BY <1>1, <1>2, SeJobTyped DEF SeRights, SeTabsOf
<1>5. seStore' \in [user : BOOLEAN, told : BOOLEAN] /\ seStore'.told = seStore.told /\ seStore'.user = LoggedIn(seServer)
  BY <1>1, <1>2, SeJobTyped
<1>6. SeJobFits(k)' /\ (SeAnnounces(k) <=> SeAnnounces(j))
  BY <1>1, <1>2, <1>3, SeJobTyped DEF SeJobFits, SeAnnounces, NoRights
<1> QED BY <1>1, <1>3, <1>4, <1>5, <1>6, SeJobTyped, SeMoved

\* The shell is built: the tab shows the session.
LEMMA SeTablesSound == ASSUME NEW j \in seJobs, SeFits, load_tables(j) PROVE SeFits'
<1>0. /\ j.pc = "tables" /\ j.got = seServer /\ j.as = LoggedIn(seServer) /\ seTabs[j.tab].rights = SeRights
      /\ seTabs' = [seTabs EXCEPT ![j.tab] = [@ EXCEPT !.shell = j.got, !.as = j.as]]
      /\ seJobs' = seJobs \ {j} /\ UNCHANGED <<seServer, seStore, seMail>>
  BY SeJobTyped DEF load_tables, SeJobFits, SeMove
<1>1. seTabs' \in SeTabsOf
      /\ \A t \in SeTabs : seTabs'[t].rights = seTabs[t].rights
            /\ (t # j.tab => seTabs'[t].shell = seTabs[t].shell /\ seTabs'[t].as = seTabs[t].as)
      /\ seTabs'[j.tab].shell = seServer /\ seTabs'[j.tab].as = LoggedIn(seServer)
  BY <1>0, SeJobTyped DEF SeTabsOf
<1>2. SeRights' = SeRights /\ SeEvent' = SeEvent BY <1>0 DEF SeRights, SeEvent
<1>3. SeTyped' BY <1>0, <1>1, <1>2 DEF SeFits, SeTyped
<1>4. ASSUME NEW i \in seJobs' PROVE SeJobFits(i)'
 <2>1. SeJobFits(i) /\ i.tab \in SeTabs BY <1>0, <1>4, SeJobTyped
 <2> QED BY <1>0, <1>1, <1>2, <2>1 DEF SeJobFits
<1>5. SeAnnouncing' /\ SeTold' BY <1>0 DEF SeFits, SeAnnouncing, SeTold, SeAnnounces
<1>6. ASSUME NEW t \in SeTabs PROVE SeDone(t)' \/ SeActive(t)' \/ SeAwaited(t)'
 <2>1. CASE t = j.tab BY <1>0, <1>1, <1>2, <2>1 DEF SeDone
 <2>2. CASE t # j.tab
  <3>1. SeDone(t) => SeDone(t)' BY <1>0, <1>1, <1>2, <2>2 DEF SeDone
  <3>2. SeActive(t) => SeActive(t)' BY <1>0, <2>2 DEF SeActive
  <3>3. SeAwaited(t) => SeAwaited(t)' BY <1>0 DEF SeAwaited, SeAnnounces
  <3> QED BY <3>1, <3>2, <3>3 DEF SeFits, SeFollows
 <2> QED BY <2>1, <2>2
<1> QED BY <1>3, <1>4, <1>5, <1>6 DEF SeFits, SeFollows

\* A page is loaded instead of what went on in the tab, none of which was still to be told.
LEMMA SePageLoadsSound ==
  ASSUME SeFits, NEW j \in seJobs, j.pc # "asked", ~SeAnnounces(j), SePageLoads(j.tab),
         UNCHANGED <<seServer, seStore, seTabs>>
  PROVE  SeFits'
<1> DEFINE k == SeJob(j.tab, "load", "modes")
<1>0. j.tab \in SeTabs /\ SeEvent' = SeEvent /\ SeRights' = SeRights BY SeJobTyped DEF SeEvent, SeRights
<1>1. seJobs' = {i \in seJobs : i.tab # j.tab} \cup {k}
      /\ seMail' = [seMail EXCEPT ![j.tab] = [box |-> NewMail, seen |-> {}]] BY DEF SePageLoads
<1>2. k \in SeJobsOf /\ k.tab = j.tab /\ k.kind = "load" /\ k.pc = "modes" /\ k.got = NoRights
  BY SeJobTyped DEF SeJobsOf, SeJob
<1> HIDE DEF k
<1>3. \A a \in seJobs : ~SeAnnounces(a) BY DEF SeFits, SeAnnouncing
<1>4. seMail' \in [SeTabs -> [box : [Transports -> {<<>>, <<SeEvent>>}], seen : SUBSET (0..seServer)]]
      /\ (\A x \in Transports : seMail'[j.tab].box[x] = <<>>) /\ (\A t \in SeTabs : t # j.tab => seMail'[t] = seMail[t])
 <2>1. [box |-> NewMail, seen |-> {}] \in [box : [Transports -> {<<>>, <<SeEvent>>}], seen : SUBSET (0..seServer)]
   BY DEF NewMail
 <2> QED BY <1>0, <1>1, <2>1 DEF SeFits, SeTyped, NewMail
<1>5. SeTyped' BY <1>0, <1>1, <1>2, <1>4 DEF SeFits, SeTyped
<1>6. ASSUME NEW i \in seJobs' PROVE SeJobFits(i)'
 <2>1. CASE i \in seJobs BY <2>1, <1>0, SeJobTyped DEF SeJobFits
 <2>2. CASE i = k BY <1>2, <2>2 DEF SeJobFits
 <2> QED BY <1>1, <1>6, <2>1, <2>2
<1>7. \A a \in seJobs' : ~SeAnnounces(a) BY <1>1, <1>2, <1>3 DEF SeAnnounces
<1>8. SeAnnouncing' /\ SeTold'
 <2>1. \A t \in SeTabs : \A x \in Transports : seMail'[t].box[x] # <<>> => seMail[t].box[x] # <<>> BY <1>4
 <2> QED BY <1>7, <2>1 DEF SeFits, SeAnnouncing, SeTold, SeAnnounces
<1>9. ASSUME NEW t \in SeTabs PROVE SeDone(t)' \/ SeActive(t)' \/ SeAwaited(t)'
 <2>1. CASE t = j.tab BY <1>1, <1>2, <2>1 DEF SeActive
 <2>2. CASE t # j.tab
  <3>1. SeDone(t) => SeDone(t)' BY <1>0 DEF SeDone
  <3>2. SeActive(t) => SeActive(t)' BY <1>1, <2>2 DEF SeActive
  <3>3. SeAwaited(t) => SeAwaited(t)' BY <1>3, <1>4, <2>2 DEF SeAwaited
  <3> QED BY <3>1, <3>2, <3>3 DEF SeFits, SeFollows
 <2> QED BY <2>1, <2>2
<1> QED BY <1>5, <1>6, <1>8, <1>9 DEF SeFits, SeFollows

\* The other tab is told of the session; nothing else was under way.
LEMMA SePublished ==
  ASSUME SeFits, NEW j \in seJobs, SeAnnounces(j), NEW k \in SeJobsOf, SeMove(j, {k}), k.tab = j.tab, k.pc # "asked",
         ~SeAnnounces(k), SeJobFits(k), emitAuthEvent(j.tab, IF LoggedIn(seServer) THEN "login" ELSE "logout"),
         UNCHANGED <<seServer, seStore, seTabs>>
  PROVE  SeFits'
<1>0. SeEvent' = SeEvent /\ SeRights' = SeRights /\ seJobs' = (seJobs \ {j}) \cup {k} /\ j.tab \in SeTabs /\ j.pc # "asked"
  BY SeJobTyped DEF SeEvent, SeRights, SeMove, SeAnnounces
<1>1. (\A t \in SeTabs : \A x \in Transports : seMail[t].box[x] = <<>>) /\ \A i \in seJobs : i = j \/ i.pc = "asked"
  BY DEF SeFits, SeAnnouncing
<1>2. seMail' = [t \in SeTabs |-> IF t = j.tab THEN seMail[t] ELSE
                    [seMail[t] EXCEPT !.box = [x \in Transports |-> Append(seMail[t].box[x], SeEvent)]]]
  BY DEF emitAuthEvent, SeEvent
<1>3. \A t \in SeTabs : seMail[t] \in [box : [Transports -> {<<>>, <<SeEvent>>}], seen : SUBSET (0..seServer)]
  BY DEF SeFits, SeTyped
<1>4. ASSUME NEW t \in SeTabs
      PROVE  /\ seMail'[t] \in [box : [Transports -> {<<>>, <<SeEvent>>}], seen : SUBSET (0..seServer)]
             /\ seMail'[t].seen = seMail[t].seen /\ (t # j.tab => seMail'[t].box["channel"] # <<>>)
 <2>1. CASE t = j.tab BY <1>2, <1>3, <2>1
 <2>2. CASE t # j.tab
  <3> DEFINE box == [x \in Transports |-> Append(seMail[t].box[x], SeEvent)]
  <3>1. \A x \in Transports : Append(seMail[t].box[x], SeEvent) = <<SeEvent>>
   <4>1. Append(<<>>, SeEvent) = <<SeEvent>> OBVIOUS
   <4> QED BY <1>1, <4>1
  <3>2. box \in [Transports -> {<<>>, <<SeEvent>>}] /\ box["channel"] = <<SeEvent>> BY <3>1 DEF Transports
  <3>3. seMail'[t] = [seMail[t] EXCEPT !.box = box] BY <1>2, <2>2
  <3> HIDE DEF box
  <3>4. <<SeEvent>> # <<>> OBVIOUS
  <3> QED BY <1>3, <3>2, <3>3, <3>4
 <2> QED BY <2>1, <2>2
<1>5. SeTyped'
 <2>1. seMail' \in [SeTabs -> [box : [Transports -> {<<>>, <<SeEvent>>}], seen : SUBSET (0..seServer)]]
   BY <1>2, <1>4
 <2> QED BY <1>0, <2>1 DEF SeFits, SeTyped
<1>6. \A i \in seJobs' : SeJobFits(i)' BY <1>0 DEF SeFits, SeJobFits
<1>7. \A i \in seJobs' : i = k \/ i.pc = "asked" BY <1>0, <1>1
<1>8. \A a \in seJobs' : ~SeAnnounces(a) BY <1>0, <1>1, SeJobTyped DEF SeAnnounces, SeJobFits
<1>9. SeAnnouncing' /\ SeTold' BY <1>8 DEF SeFits, SeAnnouncing, SeTold, SeAnnounces
<1>10. ASSUME NEW t \in SeTabs PROVE SeDone(t)' \/ SeActive(t)' \/ SeAwaited(t)'
 <2>1. CASE t = j.tab BY <1>0, <2>1 DEF SeActive
 <2>2. CASE t # j.tab
  <3>1. SeDone(t) => SeDone(t)' BY <1>0 DEF SeDone
  <3>2. SeActive(t) => SeActive(t)' BY <1>0, <1>1, <2>2 DEF SeActive
  <3>3. SeAwaited(t) => SeAwaited(t)' BY <1>4, <2>2 DEF SeAwaited, Transports
  <3> QED BY <3>1, <3>2, <3>3 DEF SeFits, SeFollows
 <2> QED BY <2>1, <2>2
<1> QED BY <1>5, <1>6, <1>9, <1>10 DEF SeFits, SeFollows

LEMMA SePublishSound == ASSUME NEW j \in seJobs, SeFits, publishAuthLogin(j) \/ publishAuthLogout(j) PROVE SeFits'
<1>0. UNCHANGED <<seServer, seStore, seTabs>> BY DEF publishAuthLogin, publishAuthLogout
<1>1. CASE publishAuthLogin(j)
 <2> DEFINE k == [j EXCEPT !.pc = "modes"]
 <2>1. j.pc = "announce" /\ j.kind = "login" /\ LoggedIn(seServer) /\ SeMove(j, {k})
   BY <1>1, SeJobTyped DEF publishAuthLogin, SeJobFits, SeJobsOf
 <2>2. SeAnnounces(j) /\ seStore.told BY <2>1 DEF SeFits, SeTold, SeAnnounces
 <2>3. emitAuthEvent(j.tab, "login") BY <1>1, <2>2 DEF publishAuthLogin
 <2>4. k \in SeJobsOf /\ k.tab = j.tab /\ k.kind = j.kind /\ k.got = j.got /\ k.as = j.as /\ k.pc = "modes"
   BY SeJobTyped DEF SeJobsOf
 <2> HIDE DEF k
 <2>5. SeJobFits(k) /\ ~SeAnnounces(k) BY <2>1, <2>4, SeJobTyped DEF SeJobFits, SeAnnounces
 <2> QED BY <1>0, <2>1, <2>2, <2>3, <2>4, <2>5, SePublished
<1>2. CASE publishAuthLogout(j)
 <2> DEFINE k == [j EXCEPT !.pc = "assign"]
 <2>1. j.pc = "emptied" /\ j.kind = "logout" /\ ~LoggedIn(seServer) /\ SeMove(j, {k}) /\ emitAuthEvent(j.tab, "logout")
   BY <1>2, SeJobTyped DEF publishAuthLogout, SeJobFits
 <2>2. SeAnnounces(j) BY <2>1 DEF SeAnnounces
 <2>3. k \in SeJobsOf /\ k.tab = j.tab /\ k.kind = j.kind /\ k.got = j.got /\ k.as = j.as /\ k.pc = "assign"
   BY SeJobTyped DEF SeJobsOf
 <2> HIDE DEF k
 <2>4. SeJobFits(k) /\ ~SeAnnounces(k) BY <2>1, <2>3, SeJobTyped DEF SeJobFits, SeAnnounces
 <2> QED BY <1>0, <2>1, <2>2, <2>3, <2>4, SePublished
<1> QED BY <1>1, <1>2

LEMMA SeNavigatesSound == ASSUME NEW j \in seJobs, SeFits, SeLoginFails(j) \/ navigateToPostLogoutPath(j) PROVE SeFits'
<1>1. SePageLoads(j.tab) /\ UNCHANGED <<seServer, seStore, seTabs>>
  BY DEF SeLoginFails, navigateToPostLogoutPath
<1>2. j.pc # "asked" /\ ~SeAnnounces(j)
  BY SeJobTyped DEF SeLoginFails, navigateToPostLogoutPath, SeAnnounces, SeJobFits
<1> QED BY <1>1, <1>2, SePageLoadsSound

\* A new job that tells nothing leaves the others what they were.
LEMMA SeBegun ==
  ASSUME SeFits, NEW k \in SeJobsOf, seJobs' = seJobs \cup {k}, SeJobFits(k), ~SeAnnounces(k),
         k.pc = "asked" \/ \A a \in seJobs : ~SeAnnounces(a), UNCHANGED <<seServer, seStore, seTabs, seMail>>
  PROVE  SeFits'
<1>0. SeEvent' = SeEvent /\ SeRights' = SeRights BY DEF SeEvent, SeRights
<1>1. SeTyped' BY <1>0 DEF SeFits, SeTyped
<1>2. \A i \in seJobs' : SeJobFits(i)' BY <1>0 DEF SeFits, SeJobFits
<1>3. SeAnnouncing' /\ SeTold' BY DEF SeFits, SeAnnouncing, SeTold, SeAnnounces
<1>4. \A t \in SeTabs : SeDone(t)' \/ SeActive(t)' \/ SeAwaited(t)'
  BY <1>0 DEF SeFits, SeFollows, SeDone, SeActive, SeAwaited, SeAnnounces
<1> QED BY <1>1, <1>2, <1>3, <1>4 DEF SeFits, SeFollows

LEMMA SeLogoutAskedSound == ASSUME NEW tab \in SeTabs, SeFits, SeLogoutAsked(tab) PROVE SeFits'
<1> DEFINE k == SeJob(tab, "logout", "asked")
<1>1. seJobs' = seJobs \cup {k} /\ UNCHANGED <<seServer, seStore, seTabs, seMail>> BY DEF SeLogoutAsked
<1>2. k \in SeJobsOf /\ k.kind = "logout" /\ k.pc = "asked" /\ k.got = NoRights
 <2>1. NoRights \in Nat BY DEF SeFits, SeTyped, NoRights
 <2> QED BY <2>1 DEF SeJobsOf, SeJob
<1> HIDE DEF k
<1>3. SeJobFits(k) /\ ~SeAnnounces(k) BY <1>2 DEF SeJobFits, SeAnnounces
<1> QED BY <1>1, <1>2, <1>3, SeBegun

\* An event begins a job, or is ignored because the tab knows of the session, or is carrying it out.
LEMMA SeNotifiedSound == ASSUME NEW tab \in SeTabs, NEW x \in Transports, SeFits, notifySubscribers(tab, x) PROVE SeFits'
<1> DEFINE kind == IF LoggedIn(seServer) THEN "loginSync" ELSE "logoutSync"
           k == SeJob(tab, kind, IF kind = "logoutSync" THEN "told" ELSE "modes")
<1>0. SeEvent' = SeEvent /\ SeRights' = SeRights /\ UNCHANGED <<seServer, seStore, seTabs>> /\ seMail[tab].box[x] # <<>>
  BY DEF notifySubscribers, SeEvent, SeRights
<1>1. \A t \in SeTabs : seMail[t] \in [box : [Transports -> {<<>>, <<SeEvent>>}], seen : SUBSET (0..seServer)]
  BY DEF SeFits, SeTyped
<1>2. seMail[tab].box[x] = <<SeEvent>> /\ seServer \in Nat BY <1>0, <1>1 DEF SeFits, SeTyped
<1>3. Head(seMail[tab].box[x]) = SeEvent /\ Tail(seMail[tab].box[x]) = <<>>
 <2>1. Head(<<SeEvent>>) = SeEvent /\ Tail(<<SeEvent>>) = <<>> OBVIOUS
 <2> QED BY <1>2, <2>1
<1>4. SeEvent.id = seServer /\ SeEvent.kind = (IF LoggedIn(seServer) THEN "login" ELSE "logout")
  BY DEF SeEvent
<1>5. handleAuthBroadcastEvent(tab, SeEvent)
      /\ seMail' = [seMail EXCEPT ![tab].box[x] = <<>>, ![tab].seen = @ \cup {seServer}]
  BY <1>3, <1>4 DEF notifySubscribers
<1>6. \A a \in seJobs : ~SeAnnounces(a) BY <1>0 DEF SeFits, SeAnnouncing
<1>7. LoggedIn(seServer) => seStore.told BY <1>0 DEF SeFits, SeTold
<1>8. \/ seJobs' = seJobs /\ (seServer \in seMail[tab].seen \/ \E j \in seJobs : j.tab = tab /\ j.kind = kind)
      \/ seJobs' = seJobs \cup {k} BY <1>4, <1>5, <1>7 DEF handleAuthBroadcastEvent
<1>9. k \in SeJobsOf /\ k.tab = tab /\ k.kind = kind /\ k.got = NoRights /\ k.pc = IF kind = "logoutSync" THEN "told" ELSE "modes"
 <2>1. NoRights \in Nat BY DEF SeFits, SeTyped, NoRights
 <2> QED BY <2>1 DEF SeJobsOf, SeJob
<1> HIDE DEF k
<1>10. SeJobFits(k) /\ ~SeAnnounces(k) /\ k.pc # "asked" BY <1>9 DEF SeJobFits, SeAnnounces
<1>11. seMail' \in [SeTabs -> [box : [Transports -> {<<>>, <<SeEvent>>}], seen : SUBSET (0..seServer)]]
       /\ (\A t \in SeTabs : t # tab => seMail'[t] = seMail[t])
       /\ \A t \in SeTabs : \A y \in Transports : seMail'[t].box[y] # <<>> => seMail[t].box[y] # <<>>
 <2> DEFINE new == [seMail[tab] EXCEPT !.box[x] = <<>>, !.seen = @ \cup {seServer}]
 <2>1. new \in [box : [Transports -> {<<>>, <<SeEvent>>}], seen : SUBSET (0..seServer)]
       /\ \A y \in Transports : new.box[y] # <<>> => seMail[tab].box[y] # <<>>
  <3> DEFINE box == [seMail[tab].box EXCEPT ![x] = <<>>]
             seen == seMail[tab].seen \cup {seServer}
  <3>1. seen \in SUBSET (0..seServer) BY <1>1, <1>2
  <3>2. box \in [Transports -> {<<>>, <<SeEvent>>}] /\ \A y \in Transports : box[y] # <<>> => seMail[tab].box[y] # <<>>
    BY <1>1
  <3>3. new = [seMail[tab] EXCEPT !.box = box, !.seen = seen] OBVIOUS
  <3> HIDE DEF box, seen, new
  <3> QED BY <1>1, <3>1, <3>2, <3>3
 <2>2. seMail' = [seMail EXCEPT ![tab] = new] BY <1>5
 <2>3. seMail \in [SeTabs -> [box : [Transports -> {<<>>, <<SeEvent>>}], seen : SUBSET (0..seServer)]]
   BY DEF SeFits, SeTyped
 <2> HIDE DEF new
 <2> QED BY <2>1, <2>2, <2>3
<1>12. SeTyped' BY <1>0, <1>8, <1>9, <1>11 DEF SeFits, SeTyped
<1>13. \A i \in seJobs' : SeJobFits(i)' BY <1>0, <1>8, <1>10 DEF SeFits, SeJobFits
<1>14. \A a \in seJobs' : ~SeAnnounces(a) BY <1>6, <1>8, <1>10
<1>15. SeAnnouncing' /\ SeTold' BY <1>0, <1>11, <1>14 DEF SeFits, SeAnnouncing, SeTold, SeAnnounces
<1>16. ASSUME NEW t \in SeTabs PROVE SeDone(t)' \/ SeActive(t)' \/ SeAwaited(t)'
 <2>1. SeDone(t) => SeDone(t)' BY <1>0 DEF SeDone
 <2>2. SeActive(t) => SeActive(t)' BY <1>8 DEF SeActive
 <2>3. CASE t # tab
  <3>1. SeAwaited(t) => SeAwaited(t)' BY <1>0, <1>6, <1>11, <2>3 DEF SeAwaited
  <3> QED BY <2>1, <2>2, <3>1 DEF SeFits, SeFollows
 <2>4. CASE t = tab /\ ~SeDone(t) /\ ~SeActive(t)
  <3>1. seServer \notin seMail[tab].seen BY <2>4 DEF SeFits, SeFollows, SeAwaited
  <3>2. \A j \in seJobs : j.tab = tab => j.kind # kind BY <2>4, SeJobTyped DEF SeActive, SeJobFits
  <3> QED BY <1>8, <1>9, <1>10, <2>4, <3>1, <3>2 DEF SeActive
 <2> QED BY <2>1, <2>2, <2>3, <2>4
<1> QED BY <1>12, <1>13, <1>15, <1>16 DEF SeFits, SeFollows

\* A session begins or ends while nothing else is carried out; its job tells the other tab.
LEMMA SeChanged ==
  ASSUME SeFits, NEW k \in SeJobsOf, SeAnnounces(k), seJobs' = {k}, seServer' = seServer + 1, seServer' <= SeMaxSessions,
         \A t \in SeTabs : \A x \in Transports : seMail[t].box[x] = <<>>, UNCHANGED <<seStore, seTabs, seMail>>,
         SeJobFits(k)', LoggedIn(seServer') => seStore.told
  PROVE  SeFits'
<1>0. seServer \in Nat /\ seServer' \in Nat /\ seServer' > seServer BY DEF SeFits, SeTyped
<1>1. seMail' \in [SeTabs -> [box : [Transports -> {<<>>, <<SeEvent'>>}], seen : SUBSET (0..seServer')]]
      /\ \A t \in SeTabs : seServer' \notin seMail'[t].seen
 <2>1. \A t \in SeTabs : seMail[t] \in [box : [Transports -> {<<>>, <<SeEvent'>>}], seen : SUBSET (0..seServer')]
                         /\ seServer' \notin seMail[t].seen
  <3>1. \A t \in SeTabs : seMail[t] \in [box : [Transports -> {<<>>, <<SeEvent>>}], seen : SUBSET (0..seServer)]
    BY DEF SeFits, SeTyped
  <3>2. ASSUME NEW t \in SeTabs PROVE seMail[t].box \in [Transports -> {<<>>, <<SeEvent'>>}] BY <3>1
  <3>3. ASSUME NEW t \in SeTabs PROVE seMail[t].seen \in SUBSET (0..seServer') /\ seServer' \notin seMail[t].seen
   <4>1. seMail[t].seen \in SUBSET (0..seServer) BY <3>1
   <4>2. 0..seServer \in SUBSET (0..seServer') /\ seServer' \notin 0..seServer BY <1>0
   <4> QED BY <4>1, <4>2
  <3> QED BY <3>1, <3>2, <3>3
 <2> QED BY <2>1 DEF SeFits, SeTyped
<1>2. SeTyped' BY <1>0, <1>1 DEF SeFits, SeTyped
<1>3. SeAnnouncing' /\ SeTold' BY DEF SeAnnouncing, SeTold
<1>4. ASSUME NEW t \in SeTabs PROVE SeActive(t)' \/ SeAwaited(t)'
 <2>1. k.tab = t => SeActive(t)' BY DEF SeActive, SeAnnounces
 <2>2. k.tab # t => SeAwaited(t)' BY <1>1 DEF SeAwaited, SeAnnounces
 <2> QED BY <2>1, <2>2
<1> QED BY <1>2, <1>3, <1>4 DEF SeFits, SeFollows

LEMMA SeQuietMail == ASSUME NEW others, SeQuiet(others) PROVE others = {} /\ \A t \in SeTabs : \A x \in Transports : seMail[t].box[x] = <<>>
BY DEF SeQuiet, NewMail

LEMMA SeLoginSound == ASSUME NEW tab \in SeTabs, SeFits, SeLogin(tab), ~seSpoiled' PROVE SeFits'
<1> DEFINE k == SeJob(tab, "login", "announce")
<1>1. /\ ~LoggedIn(seServer) /\ seServer' = seServer + 1 /\ seServer < SeMaxSessions /\ seStore.told /\ SeQuiet(seJobs)
      /\ seJobs' = seJobs \cup {k} /\ UNCHANGED <<seStore, seTabs, seMail>> BY DEF SeMayBegin, SeLogin
<1>2. SeMaxSessions \in Nat /\ seServer \in Nat /\ NoRights \in Nat BY DEF SeFits, SeTyped, NoRights
<1>3. k \in SeJobsOf /\ k.kind = "login" /\ k.pc = "announce" /\ k.got = NoRights BY <1>2 DEF SeJobsOf, SeJob
<1>4. LoggedIn(seServer') BY <1>1, <1>2, SeParity
<1> HIDE DEF k
<1>5. SeJobFits(k)' /\ SeAnnounces(k) BY <1>3, <1>4 DEF SeJobFits, SeAnnounces
<1>6. seJobs' = {k} /\ \A t \in SeTabs : \A x \in Transports : seMail[t].box[x] = <<>> BY <1>1, SeQuietMail
<1>7. seServer' <= SeMaxSessions BY <1>1, <1>2
<1> QED BY <1>1, <1>3, <1>5, <1>6, <1>7, SeChanged

LEMMA SeLogoutServedSound == ASSUME NEW j \in seJobs, SeFits, SeLogoutServed(j), ~seSpoiled' PROVE SeFits'
<1> DEFINE k == [j EXCEPT !.pc = "answered"]
<1>1. /\ j.pc = "asked" /\ SeQuiet(seJobs \ {j}) /\ seJobs' = (seJobs \ {j}) \cup {k} /\ seServer < SeMaxSessions
      /\ seServer' = (IF LoggedIn(seServer) THEN seServer + 1 ELSE seServer) /\ UNCHANGED <<seStore, seTabs, seMail>>
  BY DEF SeMayBegin, SeLogoutServed, SeMove
<1>2. k \in SeJobsOf /\ k.tab = j.tab /\ k.kind = j.kind /\ k.got = j.got /\ k.pc = "answered" /\ j.kind = "logout"
      /\ j.got = NoRights BY <1>1, SeJobTyped DEF SeJobsOf, SeJobFits
<1>3. seJobs = {j} /\ seJobs' = {k} /\ \A t \in SeTabs : \A x \in Transports : seMail[t].box[x] = <<>>
  BY <1>1, SeQuietMail
<1> HIDE DEF k
<1>4. SeAnnounces(k) BY <1>2 DEF SeAnnounces
<1>5. CASE LoggedIn(seServer)
 <2>1. seServer' = seServer + 1 /\ seServer' <= SeMaxSessions /\ ~LoggedIn(seServer')
   BY <1>1, <1>5, SeJobTyped, SeParity
 <2>2. SeJobFits(k)' BY <1>2, <2>1 DEF SeJobFits
 <2> QED BY <1>1, <1>2, <1>3, <1>4, <2>1, <2>2, SeChanged
<1>6. CASE ~LoggedIn(seServer)
 <2>0. UNCHANGED <<seServer, seStore, seTabs, seMail>> /\ SeEvent' = SeEvent /\ SeRights' = SeRights
   BY <1>1, <1>6 DEF SeEvent, SeRights
 <2>1. SeTyped' BY <1>2, <1>3, <2>0 DEF SeFits, SeTyped
 <2>2. SeJobFits(k)' BY <1>2, <1>6, <2>0 DEF SeJobFits
 <2>3. SeAnnouncing' /\ SeTold' BY <1>3, <1>6, <2>0 DEF SeAnnouncing, SeTold
 <2>4. ASSUME NEW t \in SeTabs PROVE SeDone(t)' \/ SeActive(t)'
  <3>1. CASE t = j.tab BY <1>2, <1>3, <3>1 DEF SeActive
  <3>2. CASE t # j.tab
   <4>1. ~SeAnnounces(j) BY <1>1 DEF SeAnnounces
   <4>2. SeDone(t) BY <1>3, <3>2, <4>1 DEF SeFits, SeFollows, SeActive, SeAwaited
   <4> QED BY <2>0, <4>2 DEF SeDone
  <3> QED BY <3>1, <3>2
 <2> QED BY <1>3, <2>1, <2>2, <2>3, <2>4 DEF SeFits, SeFollows
<1> QED BY <1>5, <1>6

LEMMA SeStep == SeSound /\ [SeNext]_seVars => SeSound'
<1> SUFFICES ASSUME SeSound, [SeNext]_seVars PROVE SeSound' OBVIOUS
<1>1. seSpoiled' \in BOOLEAN /\ (~seSpoiled' => ~seSpoiled)
  BY DEF SeNext, seVars, SeSound, SeLogin, SeLogoutAsked, notifySubscribers, publishAuthLogin, SeLoginFails, SeLogoutServed,
         performSpaLogoutReset, publishAuthLogout, navigateToPostLogoutPath, SeLogoutFails, SeServed, setAuthModes,
         fetchUserPermissions, SeModesFail, checkFingerprint, resetSessionAndRedirect, clearClientAuthArtifacts,
         runPostAuthBootstrap, load_tables
<1>2. ASSUME ~seSpoiled' PROVE SeFits'
 <2>0. SeFits BY <1>1, <1>2 DEF SeSound
 <2>1. CASE UNCHANGED seVars
   BY <2>0, <2>1 DEF seVars, SeFits, SeTyped, SeJobFits, SeAnnouncing, SeTold, SeFollows, SeDone, SeActive, SeAwaited,
                     SeAnnounces, SeEvent, SeRights
 <2>2. ASSUME NEW t \in SeTabs, SeLogin(t) \/ SeLogoutAsked(t) \/ \E x \in Transports : notifySubscribers(t, x) PROVE SeFits'
   BY <1>2, <2>0, <2>2, SeLoginSound, SeLogoutAskedSound, SeNotifiedSound
 <2>3. ASSUME NEW j \in seJobs, publishAuthLogin(j) \/ SeLoginFails(j) \/ SeLogoutServed(j) \/ performSpaLogoutReset(j)
              \/ publishAuthLogout(j) \/ navigateToPostLogoutPath(j)
       PROVE  SeFits'
   BY <1>2, <2>0, <2>3, SePublishSound, SeNavigatesSound, SeLogoutServedSound, SeResetSound
 <2>4. ASSUME NEW j \in seJobs, SeServed(j) \/ setAuthModes(j) \/ fetchUserPermissions(j) \/ checkFingerprint(j)
              \/ runPostAuthBootstrap(j) \/ load_tables(j)
       PROVE  SeFits'
   BY <2>0, <2>4, SeServedSound, SeModesSound, SePermissionsSound, SeBootSound, SeTablesSound
 <2>5. ASSUME NEW j \in seJobs, SeLogoutFails(j) \/ SeModesFail(j) \/ resetSessionAndRedirect(j) \/ clearClientAuthArtifacts(j)
       PROVE  FALSE
   BY <1>2, <2>5 DEF SeLogoutFails, SeModesFail, resetSessionAndRedirect, clearClientAuthArtifacts
 <2> QED BY <2>1, <2>2, <2>3, <2>4, <2>5 DEF SeNext
<1> QED BY <1>1, <1>2 DEF SeSound

\* When nothing runs and nothing is under way, both tabs show the session of the server with its rights.
THEOREM SeTabsShowTheSession == SeSizes => (SeSpec => []SeShellIsOfTheSession)
<1>1. SeSound => SeShellIsOfTheSession
 <2> SUFFICES ASSUME SeSound, SeQuiet(seJobs), ~seSpoiled, NEW t \in SeTabs PROVE SeDone(t)
   BY DEF SeShellIsOfTheSession, SeDone, SeRights
 <2>1. seJobs = {} /\ \A x \in Transports : seMail[t].box[x] = <<>> BY SeQuietMail
 <2> QED BY <2>1 DEF SeSound, SeFits, SeFollows, SeActive, SeAwaited
<1> QED BY <1>1, SeInitSound, SeStep, PTL DEF SeSpec
-----------------------------------------------------------------------------
UpSpec == UpInit /\ [][UpNext]_upVars
-----------------------------------------------------------------------------
(* The user's page: UpPageIsOfTheAccount, for any number of inputs. *)

UpTexts == Usernames \cup Emails \cup UpPasswords \cup {Nothing, "code"}
UpCallsOf == [kind : {"load", "reload", "save", "code", "password", "passwordCode"},
              pc : {"sent", "done", "refused", "password refused"},
              username : UpTexts, email : UpTexts, otp : UpTexts, password : UpTexts]
UpServersOf == [username : UpTexts, email : UpTexts, password : UpTexts, code : UpTexts, passwordCode : BOOLEAN]
UpKnownOf == [username : UpTexts, email : UpTexts, password : UpTexts]
UpCountsOf == [inputs : Nat, typed : BOOLEAN, astray : BOOLEAN, twice : SUBSET UpTexts]
UpFormsOf == [username : UpTexts, email : UpTexts, confirm : UpTexts, otp : UpTexts, old : UpTexts, new : UpTexts,
              passwordOtp : BOOLEAN]
UpDialogs == {NoDialog} \cup [for : {"code", "save"}, username : UpTexts, email : UpTexts]
UpTyped ==
  /\ upServer \in UpServersOf
  /\ upForm \in UpFormsOf
  /\ upKnown \in UpKnownOf
  /\ upDialog \in UpDialogs
  /\ upCalls \subseteq UpCallsOf
  /\ upCounts \in UpCountsOf

\* The page is saved, or loaded again after it was, by one request at a time.
UpSaves == {c \in upCalls : c.kind \in {"save", "reload"}}
UpAlone == (\A c, d \in UpSaves : c = d) /\ (upDialog.for = "save" => UpSaves = {})
\* Nothing was changed at the server that the page was not told of.
UpUnchanged == \A c \in upCalls : c.kind = "save" => c.pc \in {"sent", "password refused"}
UpShows ==
  /\ upKnown.username = upServer.username /\ upKnown.email = upServer.email
  /\ upCounts.typed \/ (upForm.username = upServer.username /\ upForm.email = upServer.email)
UpKnows ==
  ~upCounts.astray /\ UpUnchanged =>
    /\ \A c \in PageLoads : c.pc = "done" => c.username = upServer.username /\ c.email = upServer.email
    /\ PageLoads = {} => UpShows
UpAddresses ==
  /\ upServer.email \in upCounts.twice
  /\ \A c \in upCalls : c.kind = "save" /\ c.email # Nothing => c.email \in upCounts.twice
  /\ upDialog.for = "save" => upDialog.email \in upCounts.twice \cup {Nothing}
UpSound == UpTyped /\ UpAlone /\ UpKnows /\ UpAddresses

\* What the fields are.
LEMMA UpFields ==
  ASSUME UpTyped
  PROVE  /\ upServer.username \in UpTexts /\ upServer.email \in UpTexts
         /\ upForm.username \in UpTexts /\ upForm.email \in UpTexts /\ upForm.otp \in UpTexts
         /\ upForm.old \in UpTexts /\ upForm.new \in UpTexts
         /\ upKnown.username \in UpTexts /\ upKnown.email \in UpTexts /\ upKnown.password \in UpTexts
         /\ upCounts.typed \in BOOLEAN /\ upCounts.astray \in BOOLEAN /\ upCounts.twice \in SUBSET UpTexts
         /\ Nothing \in UpTexts /\ "code" \in UpTexts
BY DEF UpTyped, UpServersOf, UpFormsOf, UpKnownOf, UpCountsOf, UpTexts

\* What an input and an answer do to the counts.
LEMMA UpCounted ==
  ASSUME UpTyped
  PROVE  /\ OneMore \in UpCountsOf /\ OneMore.typed = upCounts.typed /\ OneMore.astray = upCounts.astray
         /\ OneMore.twice = upCounts.twice
         /\ \A c \in UpCountsOf : \A typed \in BOOLEAN :
              LET d == [c EXCEPT !.typed = typed]
              IN d \in UpCountsOf /\ d.typed = typed /\ d.astray = c.astray /\ d.twice = c.twice
         /\ \A c \in UpCountsOf : \A astray \in BOOLEAN :
              LET d == [c EXCEPT !.astray = astray]
              IN d \in UpCountsOf /\ d.typed = c.typed /\ d.astray = astray /\ d.twice = c.twice
         /\ \A c \in UpCountsOf : \A twice \in SUBSET UpTexts :
              LET d == [c EXCEPT !.twice = twice]
              IN d \in UpCountsOf /\ d.typed = c.typed /\ d.astray = c.astray /\ d.twice = twice
<1>1. upCounts \in UpCountsOf BY DEF UpTyped
<1>2. OneMore \in UpCountsOf /\ OneMore.typed = upCounts.typed /\ OneMore.astray = upCounts.astray
      /\ OneMore.twice = upCounts.twice BY <1>1 DEF OneMore, UpCountsOf
<1>3. ASSUME NEW c \in UpCountsOf, NEW typed \in BOOLEAN
      PROVE  LET d == [c EXCEPT !.typed = typed]
             IN d \in UpCountsOf /\ d.typed = typed /\ d.astray = c.astray /\ d.twice = c.twice
  BY DEF UpCountsOf
<1>4. ASSUME NEW c \in UpCountsOf, NEW astray \in BOOLEAN
      PROVE  LET d == [c EXCEPT !.astray = astray]
             IN d \in UpCountsOf /\ d.typed = c.typed /\ d.astray = astray /\ d.twice = c.twice
  BY DEF UpCountsOf
<1>5. ASSUME NEW c \in UpCountsOf, NEW twice \in SUBSET UpTexts
      PROVE  LET d == [c EXCEPT !.twice = twice]
             IN d \in UpCountsOf /\ d.typed = c.typed /\ d.astray = c.astray /\ d.twice = twice
  BY DEF UpCountsOf
<1> QED BY <1>2, <1>3, <1>4, <1>5

LEMMA UpInitSound == UpInit => UpSound
<1> SUFFICES ASSUME UpInit PROVE UpSound OBVIOUS
<1>1. UpTyped
 <2>1. upServer \in UpServersOf BY DEF UpInit, UpTexts, Usernames, Emails, UpPasswords, Nothing, UpServersOf
 <2>2. upForm \in UpFormsOf
  <3>1. Nothing \in UpTexts BY DEF UpTexts
  <3> QED BY <3>1 DEF UpInit, UpFormsOf
 <2>3. upCalls \subseteq UpCallsOf
  <3>1. Nothing \in UpTexts BY DEF UpTexts
  <3>2. Load("load") \in UpCallsOf BY <3>1 DEF Load, Call, UpCallsOf
  <3> QED BY <3>2 DEF UpInit
 <2>4. upCounts \in UpCountsOf BY DEF UpInit, UpTexts, Emails, UpCountsOf
 <2>5. upKnown \in UpKnownOf BY DEF UpInit, UpTexts, UpKnownOf
 <2>6. upDialog \in UpDialogs BY DEF UpInit, UpDialogs
 <2> QED BY <2>1, <2>2, <2>3, <2>4, <2>5, <2>6 DEF UpTyped
<1>2. PageLoads = {Load("load")} /\ UpSaves = {} /\ Load("load").pc = "sent" /\ Load("load").kind = "load"
  BY DEF UpInit, PageLoads, UpSaves, Load, Call
<1>3. UpAlone /\ UpAddresses BY <1>2 DEF UpInit, UpAlone, UpAddresses, NoDialog, Nothing
<1>4. UpKnows BY <1>2 DEF UpKnows
<1> QED BY <1>1, <1>3, <1>4 DEF UpSound

\* Steps that touch neither a load nor a save, and change nothing the page knows of the account.
LEMMA UpAside ==
  ASSUME UpSound, UpTyped',
         upServer'.username = upServer.username, upServer'.email = upServer.email,
         upKnown'.username = upKnown.username, upKnown'.email = upKnown.email,
         upCounts'.typed \/ (upForm'.username = upForm.username /\ upForm'.email = upForm.email
                              /\ upCounts'.typed = upCounts.typed),
         upCounts'.astray = upCounts.astray, upCounts'.twice = upCounts.twice,
         upDialog'.for # "save" \/ upDialog' = upDialog,
         \A c \in upCalls' : c \in upCalls \/ c.kind \notin {"load", "reload", "save"},
         \A c \in upCalls : c \in upCalls' \/ c.kind \notin {"load", "reload", "save"}
  PROVE  UpSound'
<1>1. PageLoads' = PageLoads /\ UpSaves' = UpSaves /\ UpUnchanged' = UpUnchanged
  BY DEF PageLoads, UpSaves, UpUnchanged
<1>2. UpAlone' BY <1>1 DEF UpSound, UpAlone
<1>3. UpKnows' BY <1>1 DEF UpSound, UpKnows, UpShows
<1>4. UpAddresses' BY DEF UpSound, UpAddresses
<1> QED BY <1>2, <1>3, <1>4 DEF UpSound

LEMMA UpTypingSound ==
  ASSUME UpSound, \/ \E u \in Usernames : typeUsername(u)
                  \/ \E e \in Emails : typeEmail(e) \/ typeConfirm(e)
                  \/ \E p, q \in UpPasswords : typePasswords(p, q)
                  \/ typeCode \/ typePasswordCode
  PROVE  UpSound'
<1>0. Usernames \subseteq UpTexts /\ Emails \subseteq UpTexts /\ UpPasswords \subseteq UpTexts /\ Nothing \in UpTexts
  BY DEF UpTexts
<1>1. upCounts' = [OneMore EXCEPT !.typed = TRUE] /\ UNCHANGED <<upServer, upDialog, upCalls>>
  BY DEF typeUsername, typeEmail, typeConfirm, typePasswords, typeCode, typePasswordCode, Typing
<1>2. upCounts' \in UpCountsOf
      /\ upCounts'.typed /\ upCounts'.astray = upCounts.astray /\ upCounts'.twice = upCounts.twice
  BY <1>1, UpCounted DEF UpSound
<1>3. upForm' \in UpFormsOf
 <2>0. upForm \in UpFormsOf /\ upServer.code \in UpTexts BY DEF UpSound, UpTyped, UpServersOf
 <2>1. CASE \E u \in Usernames : typeUsername(u) BY <1>0, <2>0, <2>1 DEF typeUsername, UpFormsOf
 <2>2. CASE \E e \in Emails : typeEmail(e) \/ typeConfirm(e)
   BY <1>0, <2>0, <2>2 DEF typeEmail, typeConfirm, UpFormsOf
 <2>3. CASE \E p, q \in UpPasswords : typePasswords(p, q) BY <1>0, <2>0, <2>3 DEF typePasswords, UpFormsOf
 <2>4. CASE typeCode \/ typePasswordCode BY <1>0, <2>0, <2>4 DEF typeCode, typePasswordCode, UpFormsOf
 <2> QED BY <2>1, <2>2, <2>3, <2>4
<1>4. upKnown' \in UpKnownOf
      /\ upKnown'.username = upKnown.username /\ upKnown'.email = upKnown.email
  BY <1>0 DEF UpSound, UpTyped, typeUsername, typeEmail, typeConfirm, typePasswords, typeCode, typePasswordCode, UpKnownOf
<1>5. UpTyped' BY <1>1, <1>2, <1>3, <1>4 DEF UpSound, UpTyped
<1> QED BY <1>1, <1>2, <1>4, <1>5, UpAside

\* Calls of the page are records of its texts.
LEMMA UpCallTyped ==
  ASSUME NEW kind \in {"load", "reload", "save", "code", "password", "passwordCode"}, NEW u \in UpTexts, NEW e \in UpTexts,
         NEW otp \in UpTexts, NEW p \in UpTexts
  PROVE  /\ Call(kind, u, e, otp, p) \in UpCallsOf /\ Call(kind, u, e, otp, p).kind = kind
         /\ Call(kind, u, e, otp, p).email = e /\ Call(kind, u, e, otp, p).pc = "sent" BY DEF Call, UpCallsOf

\* Codes are asked for, the password is changed, or the dialog closed.
LEMMA UpOtherInputsSound ==
  ASSUME UpSound, sendEmailCode \/ sendPasswordCode \/ submitPassword \/ cancelPassword
  PROVE  UpSound'
<1>0. Nothing \in UpTexts /\ "code" \in UpTexts BY DEF UpTexts
<1>1. UNCHANGED <<upServer, upForm, upKnown>>
  BY DEF sendEmailCode, sendPasswordCode, submitPassword, cancelPassword
<1>2. upCounts' \in UpCountsOf
      /\ upCounts'.typed = upCounts.typed /\ upCounts'.astray = upCounts.astray /\ upCounts'.twice = upCounts.twice
  BY UpCounted DEF UpSound, UpTyped, sendEmailCode, sendPasswordCode, submitPassword, cancelPassword
<1>3. upDialog' \in UpDialogs
      /\ (upDialog'.for # "save" \/ upDialog' = upDialog)
 <2>0. NoDialog.for # "save" /\ NoDialog \in UpDialogs /\ upForm.email \in UpTexts /\ upDialog \in UpDialogs
   BY UpFields DEF NoDialog, Nothing, UpDialogs, UpSound, UpTyped
 <2>1. CASE sendEmailCode
  <3>1. upDialog' = [for |-> "code", username |-> Nothing, email |-> upForm.email] BY <2>1 DEF sendEmailCode
  <3> QED BY <1>0, <2>0, <3>1 DEF UpDialogs
 <2>2. CASE ~sendEmailCode BY <2>0, <2>2 DEF sendPasswordCode, submitPassword, cancelPassword
 <2> QED BY <2>1, <2>2
<1>4. \/ upCalls' = upCalls
      \/ \E kind \in {"password", "passwordCode"}, u, e, otp, p \in UpTexts : upCalls' = upCalls \cup {Call(kind, u, e, otp, p)}
 <2>1. upForm.old \in UpTexts /\ upForm.new \in UpTexts BY UpFields DEF UpSound
 <2>2. CASE sendPasswordCode BY <1>0, <2>1, <2>2 DEF sendPasswordCode
 <2>3. CASE submitPassword BY <1>0, <2>1, <2>3 DEF submitPassword
 <2> QED BY <2>2, <2>3 DEF sendEmailCode, cancelPassword
<1>5. upCalls' \subseteq UpCallsOf /\ (\A c \in upCalls' : c \in upCalls \/ c.kind \in {"password", "passwordCode"})
      /\ upCalls \subseteq upCalls'
 <2>1. CASE upCalls' = upCalls BY <2>1 DEF UpSound, UpTyped
 <2>2. ASSUME NEW kind \in {"password", "passwordCode"}, NEW u \in UpTexts, NEW e \in UpTexts, NEW otp \in UpTexts, NEW p \in UpTexts,
              upCalls' = upCalls \cup {Call(kind, u, e, otp, p)}
       PROVE  upCalls' \subseteq UpCallsOf /\ (\A c \in upCalls' : c \in upCalls \/ c.kind \in {"password", "passwordCode"})
              /\ upCalls \subseteq upCalls'
  <3>1. Call(kind, u, e, otp, p) \in UpCallsOf /\ Call(kind, u, e, otp, p).kind = kind
    BY <2>2 DEF Call, UpCallsOf
  <3> QED BY <2>2, <3>1 DEF UpSound, UpTyped
 <2> QED BY <1>4, <2>1, <2>2
<1>6. UpTyped' BY <1>1, <1>2, <1>3, <1>5 DEF UpSound, UpTyped
<1> QED BY <1>1, <1>2, <1>3, <1>5, <1>6, UpAside

LEMMA UpLoadsSound ==
  ASSUME NEW c \in upCalls, UpSound, UpLoadServed(c) \/ loadInitialData(c) \/ UpLoadFails(c)
  PROVE  UpSound'
<1>0. c \in PageLoads /\ c.kind \in {"load", "reload"} /\ UNCHANGED <<upServer, upDialog>> /\ c \in UpCallsOf /\ Nothing \in UpTexts
  BY DEF UpLoadServed, loadInitialData, UpLoadFails, PageLoads, UpSound, UpTyped, UpTexts
<1>1. CASE UpLoadServed(c)
 <2> DEFINE d == [c EXCEPT !.pc = "done", !.username = upServer.username, !.email = upServer.email]
 <2>1. d \in UpCallsOf /\ d.kind = c.kind /\ d.username = upServer.username /\ d.email = upServer.email /\ d.pc = "done"
   BY <1>0, UpFields DEF UpSound, UpCallsOf
 <2>2. upCalls' = (upCalls \ {c}) \cup {d} /\ UNCHANGED <<upServer, upForm, upKnown, upDialog, upCounts>>
   BY <1>1 DEF UpLoadServed
 <2> HIDE DEF d
 <2>3. UpTyped' BY <2>1, <2>2 DEF UpSound, UpTyped
 <2>4. UpAlone'
  <3>1. UpSaves' = IF c \in UpSaves THEN (UpSaves \ {c}) \cup {d} ELSE UpSaves BY <2>1, <2>2 DEF UpSaves
  <3> QED BY <2>2, <3>1 DEF UpSound, UpAlone
 <2>5. UpKnows'
  <3>1. PageLoads' = (PageLoads \ {c}) \cup {d} BY <1>0, <2>1, <2>2 DEF PageLoads
  <3>2. UpUnchanged' = UpUnchanged BY <1>0, <2>1, <2>2 DEF UpUnchanged
  <3> QED BY <2>1, <2>2, <3>1, <3>2 DEF UpSound, UpKnows
 <2>6. UpAddresses' BY <1>0, <2>1, <2>2 DEF UpSound, UpAddresses
 <2> QED BY <2>3, <2>4, <2>5, <2>6 DEF UpSound
<1>2. CASE loadInitialData(c) \/ UpLoadFails(c)
 <2>1. upCalls' = upCalls \ {c} BY <1>2 DEF loadInitialData, UpLoadFails
 <2>2. upCounts' \in UpCountsOf /\ upCounts'.twice = upCounts.twice
       /\ (loadInitialData(c) => upCounts'.astray = upCounts.astray /\ ~upCounts'.typed)
       /\ (UpLoadFails(c) => upCounts'.astray)
   BY <1>2 DEF loadInitialData, UpLoadFails, UpSound, UpTyped, UpCountsOf
 <2>3. upForm' \in UpFormsOf
       /\ (loadInitialData(c) => upForm'.username = c.username /\ upForm'.email = c.email)
   BY <1>0, <1>2 DEF loadInitialData, UpLoadFails, UpSound, UpTyped, UpCallsOf, UpFormsOf
 <2>4. upKnown' \in UpKnownOf
       /\ (loadInitialData(c) => upKnown'.username = c.username /\ upKnown'.email = c.email)
   BY <1>0, <1>2 DEF loadInitialData, UpLoadFails, UpSound, UpTyped, UpCallsOf, UpKnownOf
 <2>5. UpTyped' BY <1>0, <2>1, <2>2, <2>3, <2>4 DEF UpSound, UpTyped
 <2>6. UpAlone' /\ UpAddresses' BY <1>0, <2>1, <2>2 DEF UpSound, UpAlone, UpAddresses, UpSaves
 <2>7. UpKnows'
  <3>1. PageLoads' \subseteq PageLoads /\ UpUnchanged' = UpUnchanged
    BY <1>0, <2>1 DEF PageLoads, UpUnchanged
  <3>2. CASE loadInitialData(c)
   <4>1. c.pc = "done" BY <3>2 DEF loadInitialData
   <4> QED BY <1>0, <2>2, <2>3, <2>4, <3>1, <3>2, <4>1 DEF UpSound, UpKnows, UpShows
  <3>3. CASE UpLoadFails(c) BY <2>2, <3>3 DEF UpKnows
  <3> QED BY <1>2, <3>2, <3>3
 <2> QED BY <2>5, <2>6, <2>7 DEF UpSound
<1> QED BY <1>1, <1>2

\* What is saved: an address that was typed twice, or none.
LEMMA UpProfileUpdate ==
  ASSUME UpSound, NEW u \in UpTexts, NEW e \in UpTexts, NEW p \in UpTexts
  PROVE  /\ ProfileUpdate(u, e, p) \in UpCallsOf /\ ProfileUpdate(u, e, p).kind = "save" /\ ProfileUpdate(u, e, p).pc = "sent"
         /\ ProfileUpdate(u, e, p).email \in {e, Nothing}
<1> DEFINE email == Changed(e, upKnown.email)
           otp == IF email = Nothing THEN Nothing ELSE upForm.otp
           name == Changed(u, upKnown.username)
<1>1. email \in UpTexts /\ otp \in UpTexts /\ name \in UpTexts /\ email \in {e, Nothing}
  BY UpFields DEF UpSound, Changed
<1>2. ProfileUpdate(u, e, p) = Call("save", name, email, otp, p) BY DEF ProfileUpdate
<1> HIDE DEF email, otp, name
<1>3. Call("save", name, email, otp, p) \in UpCallsOf /\ Call("save", name, email, otp, p).kind = "save"
      /\ Call("save", name, email, otp, p).email = email /\ Call("save", name, email, otp, p).pc = "sent"
  BY <1>1, UpCallTyped
<1> QED BY <1>1, <1>2, <1>3

\* A save is sent when none is under way, nor a reload after one.
LEMMA UpSaveSent ==
  ASSUME UpSound, UpTyped', UpSaves = {}, UNCHANGED <<upServer, upForm>>,
         upKnown'.username = upKnown.username, upKnown'.email = upKnown.email, upDialog' = NoDialog,
         upCounts'.typed = upCounts.typed, upCounts'.astray = upCounts.astray, upCounts.twice \subseteq upCounts'.twice,
         NEW c \in UpCallsOf, upCalls' = upCalls \cup {c}, c.kind = "save", c.pc = "sent", c.email \in upCounts'.twice \cup {Nothing}
  PROVE  UpSound'
<1>1. PageLoads' = PageLoads /\ UpUnchanged' = UpUnchanged /\ UpSaves' = {c}
  BY DEF PageLoads, UpUnchanged, UpSaves
<1>2. UpAlone' BY <1>1 DEF UpAlone, NoDialog, Nothing
<1>3. UpKnows' BY <1>1 DEF UpSound, UpKnows, UpShows
<1>4. UpAddresses' BY DEF UpSound, UpAddresses, NoDialog, Nothing
<1> QED BY <1>2, <1>3, <1>4 DEF UpSound

LEMMA UpSubmitSound == UpSound /\ submitProfile => UpSound'
<1> SUFFICES ASSUME UpSound, submitProfile PROVE UpSound' OBVIOUS
<1>1. UNCHANGED <<upServer, upForm, upKnown>> /\ upDialog = NoDialog BY DEF submitProfile, Input
<1>2. upForm.email \in UpTexts /\ upForm.username \in UpTexts /\ PasswordAtHand \in UpTexts
  BY UpFields DEF UpSound, PasswordAtHand
<1>3. upCounts' \in UpCountsOf
      /\ upCounts'.typed = upCounts.typed /\ upCounts'.astray = upCounts.astray
      /\ upCounts'.twice = upCounts.twice \cup ({upForm.email} \ {Nothing})
 <2>1. upCounts' = [OneMore EXCEPT !.twice = @ \cup ({upForm.email} \ {Nothing})] BY DEF submitProfile
 <2>2. upCounts.twice \cup ({upForm.email} \ {Nothing}) \in SUBSET UpTexts BY <1>2, UpFields DEF UpSound
 <2>3. PICK twice \in SUBSET UpTexts : twice = upCounts.twice \cup ({upForm.email} \ {Nothing}) BY <2>2
 <2>4. OneMore \in UpCountsOf /\ OneMore.typed = upCounts.typed /\ OneMore.astray = upCounts.astray
       /\ OneMore.twice = upCounts.twice BY UpCounted DEF UpSound
 <2>5. upCounts' = [OneMore EXCEPT !.twice = twice] BY <2>1, <2>3, <2>4
 <2> QED BY <2>3, <2>4, <2>5, UpCounted DEF UpSound
<1>4. UpSaves = {} BY DEF submitProfile, UpUnderWay, UpSaves
<1>5. CASE PasswordAtHand = Nothing
 <2>1. upDialog' = [for |-> "save", username |-> upForm.username, email |-> upForm.email] /\ UNCHANGED upCalls
   BY <1>5 DEF submitProfile
 <2>2. UpTyped' BY <1>1, <1>2, <1>3, <2>1 DEF UpSound, UpTyped, UpDialogs
 <2>3. PageLoads' = PageLoads /\ UpUnchanged' = UpUnchanged /\ UpSaves' = {}
   BY <1>4, <2>1 DEF PageLoads, UpUnchanged, UpSaves
 <2>4. UpAlone' /\ UpKnows' /\ UpAddresses'
   BY <1>1, <1>3, <2>1, <2>3 DEF UpSound, UpAlone, UpKnows, UpShows, UpAddresses
 <2> QED BY <2>2, <2>4 DEF UpSound
<1>6. CASE PasswordAtHand # Nothing
 <2> DEFINE c == ProfileUpdate(upForm.username, upForm.email, PasswordAtHand)
 <2>1. upCalls' = upCalls \cup {c} /\ UNCHANGED upDialog BY <1>6 DEF submitProfile
 <2>2. c \in UpCallsOf /\ c.kind = "save" /\ c.pc = "sent" /\ c.email \in {upForm.email, Nothing}
   BY <1>2, UpProfileUpdate
 <2> HIDE DEF c
 <2>3. UpTyped' BY <1>1, <1>3, <2>1, <2>2 DEF UpSound, UpTyped
 <2> QED BY <1>1, <1>3, <1>4, <2>1, <2>2, <2>3, UpSaveSent
<1> QED BY <1>5, <1>6

LEMMA UpGivePasswordSound == ASSUME NEW p \in UpPasswords, UpSound, givePassword(p) PROVE UpSound'
<1>0. p \in UpTexts /\ Nothing \in UpTexts /\ upDialog' = NoDialog /\ UNCHANGED <<upServer, upForm, upCounts>> /\ upDialog # NoDialog
  BY DEF givePassword, UpTexts
<1>1. upDialog \in [for : {"code", "save"}, username : UpTexts, email : UpTexts] /\ NoDialog \in UpDialogs
  BY <1>0 DEF UpSound, UpTyped, UpDialogs
<1>2. CASE upDialog.for = "code"
 <2> DEFINE c == Call("code", Nothing, upDialog.email, Nothing, p)
 <2>1. upCalls' = upCalls \cup {c} /\ UNCHANGED upKnown BY <1>2 DEF givePassword
 <2>2. c \in UpCallsOf /\ c.kind = "code" BY <1>0, <1>1, UpCallTyped
 <2> HIDE DEF c
 <2>3. UpTyped' BY <1>0, <1>1, <2>1, <2>2 DEF UpSound, UpTyped
 <2>4. upDialog'.for # "save" BY <1>0 DEF NoDialog, Nothing
 <2> QED BY <1>0, <2>1, <2>2, <2>3, <2>4, UpAside
<1>3. CASE upDialog.for # "code"
 <2>1. upKnown' = [upKnown EXCEPT !.password = p]
       /\ upCalls' = IF Differs(upDialog.username, upDialog.email)
                     THEN upCalls \cup {ProfileUpdate(upDialog.username, upDialog.email, p)} ELSE upCalls
   BY <1>3 DEF givePassword
 <2>2. upKnown' \in UpKnownOf
       /\ upKnown'.username = upKnown.username /\ upKnown'.email = upKnown.email
   BY <1>0, <2>1 DEF UpSound, UpTyped, UpKnownOf
 <2>3. CASE upCalls' = upCalls
  <3>1. UpTyped' BY <1>0, <1>1, <2>2, <2>3 DEF UpSound, UpTyped
  <3>2. upDialog'.for # "save" BY <1>0 DEF NoDialog, Nothing
  <3> QED BY <1>0, <2>2, <2>3, <3>1, <3>2, UpAside
 <2>4. CASE upDialog.for = "save" /\ upCalls' = upCalls \cup {ProfileUpdate(upDialog.username, upDialog.email, p)}
  <3> DEFINE c == ProfileUpdate(upDialog.username, upDialog.email, p)
  <3>1. c \in UpCallsOf /\ c.kind = "save" /\ c.pc = "sent" /\ c.email \in {upDialog.email, Nothing}
    BY <1>0, <1>1, UpProfileUpdate
  <3>2. upCalls' = upCalls \cup {c} BY <2>4
  <3> HIDE DEF c
  <3>3. UpTyped' BY <1>0, <1>1, <2>2, <3>1, <3>2 DEF UpSound, UpTyped
  <3>4. UpSaves = {} /\ c.email \in upCounts.twice \cup {Nothing}
    BY <2>4, <3>1 DEF UpSound, UpAlone, UpAddresses
  <3> QED BY <1>0, <2>2, <3>1, <3>2, <3>3, <3>4, UpSaveSent
 <2> QED BY <1>1, <1>3, <2>1, <2>3, <2>4
<1> QED BY <1>2, <1>3

\* The server answers one call; a save may change the account, whoever asked then learns of it.
LEMMA UpServedSound == ASSUME NEW c \in upCalls, UpSound, UpServed(c) PROVE UpSound'
<1>1. PICK pc \in {"done", "refused", "password refused"} :
         /\ c.pc = "sent" /\ c \notin PageLoads /\ UNCHANGED <<upForm, upKnown, upDialog, upCounts>>
         /\ upCalls' = (upCalls \ {c}) \cup {[c EXCEPT !.pc = pc]} /\ (pc = "password refused" => UNCHANGED upServer)
  BY DEF UpServed, UpAnswer, RequestEmailChangeOTPHandler, RequestPasswordChangeOTPHandler, UserProfileUpdateHandler
<1>0. c \in UpCallsOf /\ c.pc = "sent" /\ c.kind \notin {"load", "reload"} /\ UNCHANGED <<upForm, upKnown, upDialog, upCounts>>
  BY <1>1 DEF PageLoads, UpSound, UpTyped
<1> DEFINE d == [c EXCEPT !.pc = pc]
<1>2. d \in UpCallsOf /\ d.kind = c.kind /\ d.pc = pc /\ d.email = c.email BY <1>0 DEF UpCallsOf
<1>3. upCalls' = (upCalls \ {c}) \cup {d} BY <1>1
<1> HIDE DEF d
<1>4. upServer' \in UpServersOf
      /\ (c.kind # "save" => upServer'.username = upServer.username /\ upServer'.email = upServer.email)
      /\ upServer'.email \in {upServer.email, c.email}
      /\ (c.email = Nothing => upServer'.email = upServer.email)
 <2>1. upServer \in UpServersOf /\ Nothing \in UpTexts BY DEF UpSound, UpTyped, UpTexts, UpServersOf
 <2>2. Renamed(c) \in UpServersOf /\ Renamed(c).email = upServer.email
   BY <1>0, <2>1 DEF Renamed, UpCallsOf, UpServersOf
 <2>3. CASE c.kind = "save"
  <3>1. \/ upServer' \in {upServer, Renamed(c), Codeless(Renamed(c))}
        \/ c.email # Nothing /\ upServer' = Moved(c)
   <4>1. AfterRefusal(c) \subseteq {upServer, Renamed(c), Codeless(Renamed(c))}
                                     \cup (IF c.email = Nothing THEN {} ELSE {Moved(c)})
     BY <2>3 DEF AfterRefusal, SameAddress
   <4> QED BY <2>3, <4>1 DEF UpServed, UpAnswer, RequestEmailChangeOTPHandler, RequestPasswordChangeOTPHandler,
                             UserProfileUpdateHandler, SameAddress
  <3>2. CASE upServer' \in {upServer, Renamed(c)} BY <2>1, <2>2, <2>3, <3>2
  <3>3. CASE upServer' = Codeless(Renamed(c)) BY <2>1, <2>2, <2>3, <3>3 DEF Codeless, UpServersOf
  <3>4. CASE c.email # Nothing /\ upServer' = Moved(c)
    BY <1>0, <2>1, <2>2, <2>3, <3>4 DEF Moved, UpCallsOf, UpServersOf
  <3> QED BY <3>1, <3>2, <3>3, <3>4
 <2>4. CASE c.kind # "save"
  <3>1. \/ upServer' = upServer \/ upServer' = Codeless(upServer) \/ upServer' = [upServer EXCEPT !.code = c.email]
        \/ upServer' \in {[upServer EXCEPT !.passwordCode = valid] : valid \in BOOLEAN} \/ upServer' = NewPassword(c)
   <4>1. c.kind \in {"code", "password", "passwordCode"} BY <1>0, <2>4 DEF UpCallsOf
   <4>2. AfterRefusal(c) \subseteq {upServer, Codeless(upServer), [upServer EXCEPT !.code = c.email], NewPassword(c)}
                                     \cup {[upServer EXCEPT !.passwordCode = valid] : valid \in BOOLEAN}
     BY <4>1 DEF AfterRefusal
   <4> QED BY <4>1, <4>2 DEF UpServed, UpAnswer, RequestEmailChangeOTPHandler, RequestPasswordChangeOTPHandler,
                             UserProfileUpdateHandler
  <3>2. CASE upServer' = upServer BY <2>1, <3>2
  <3>3. CASE upServer' = Codeless(upServer) \/ upServer' = [upServer EXCEPT !.code = c.email] \/ upServer' = NewPassword(c)
    BY <1>0, <2>1, <2>4, <3>3 DEF Codeless, NewPassword, UpCallsOf, UpServersOf
  <3>4. CASE upServer' \in {[upServer EXCEPT !.passwordCode = valid] : valid \in BOOLEAN}
   <4>1. PICK valid \in BOOLEAN : upServer' = [upServer EXCEPT !.passwordCode = valid] BY <3>4
   <4> QED BY <2>1, <2>4, <4>1 DEF UpServersOf
  <3> QED BY <3>1, <3>2, <3>3, <3>4
 <2> QED BY <2>3, <2>4
<1>5. UpTyped' BY <1>0, <1>2, <1>3, <1>4 DEF UpSound, UpTyped
<1>6. CASE c.kind # "save" BY <1>0, <1>2, <1>3, <1>4, <1>5, <1>6, UpAside
<1>7. CASE c.kind = "save"
 <2>1. UpAlone'
  <3>1. UpSaves' = (UpSaves \ {c}) \cup {d} /\ c \in UpSaves BY <1>2, <1>3, <1>7 DEF UpSaves
  <3> QED BY <1>0, <3>1 DEF UpSound, UpAlone
 <2>2. UpAddresses' BY <1>0, <1>2, <1>3, <1>4, <1>7 DEF UpSound, UpAddresses
 <2>3. UpKnows'
  <3>1. CASE pc = "password refused"
   <4>1. PageLoads' = PageLoads /\ UpUnchanged' = UpUnchanged
     BY <1>0, <1>2, <1>3, <3>1 DEF PageLoads, UpUnchanged
   <4> QED BY <1>0, <1>1, <3>1, <4>1 DEF UpSound, UpKnows, UpShows
  <3>2. CASE pc # "password refused" BY <1>2, <1>3, <1>7, <3>2 DEF UpKnows, UpUnchanged
  <3> QED BY <3>1, <3>2
 <2> QED BY <1>5, <2>1, <2>2, <2>3 DEF UpSound
<1> QED BY <1>6, <1>7

LEMMA UpAnswersSound ==
  ASSUME NEW c \in upCalls, UpSound, emailCodeSent(c) \/ passwordCodeSent(c) \/ passwordChanged(c)
  PROVE  UpSound'
<1>0. c \in UpCallsOf /\ c.kind \notin {"load", "reload", "save"} /\ UNCHANGED <<upServer, upDialog, upCounts>>
      /\ upCalls' = upCalls \ {c} /\ Nothing \in UpTexts
  BY DEF emailCodeSent, passwordCodeSent, passwordChanged, Answered, UpSound, UpTyped, UpTexts
<1>1. upForm' \in UpFormsOf
      /\ upForm'.username = upForm.username /\ upForm'.email = upForm.email
 <2>1. upForm \in UpFormsOf BY DEF UpSound, UpTyped, UpFormsOf
 <2>2. CASE upForm' = upForm BY <2>1, <2>2
 <2>3. CASE upForm' = [upForm EXCEPT !.old = Nothing, !.new = Nothing, !.passwordOtp = FALSE]
   BY <1>0, <2>1, <2>3 DEF UpFormsOf
 <2> QED BY <2>2, <2>3 DEF emailCodeSent, passwordCodeSent, passwordChanged
<1>2. upKnown' \in UpKnownOf
      /\ upKnown'.username = upKnown.username /\ upKnown'.email = upKnown.email
  BY <1>0 DEF emailCodeSent, passwordCodeSent, passwordChanged, UpSound, UpTyped, UpCallsOf, UpKnownOf
<1>3. UpTyped' BY <1>0, <1>1, <1>2 DEF UpSound, UpTyped
<1> QED BY <1>0, <1>1, <1>2, <1>3, UpAside

\* A save that succeeded is followed by a reload, which tells the account as it is then.
LEMMA UpSavedSound == ASSUME NEW c \in upCalls, UpSound, profileSaved(c) PROVE UpSound'
<1> DEFINE d == Load("reload")
<1>0. c \in UpSaves /\ c.kind = "save" /\ UNCHANGED <<upServer, upDialog>> /\ Nothing \in UpTexts
  BY DEF profileSaved, UpSaves, UpTexts
<1>1. upCalls' = (upCalls \ {c}) \cup {d} BY DEF profileSaved, refreshProfileData
<1>2. d \in UpCallsOf /\ d.kind = "reload" /\ d.pc = "sent" BY <1>0 DEF Load, Call, UpCallsOf
<1> HIDE DEF d
<1>3. upCounts' \in UpCountsOf
      /\ upCounts'.twice = upCounts.twice /\ (~upCounts'.astray => ~UpUnderWay("load"))
 <2>1. PICK astray \in BOOLEAN : astray = UpUnderWay("load") BY DEF UpUnderWay
 <2>2. upCounts' = [upCounts EXCEPT !.astray = astray] BY <2>1 DEF profileSaved
 <2> QED BY <2>1, <2>2, UpCounted DEF UpSound, UpTyped
<1>4. UpTyped'
 <2>1. upForm' \in UpFormsOf BY <1>0 DEF profileSaved, UpSound, UpTyped, UpFormsOf
 <2>2. upKnown' \in UpKnownOf BY <1>0 DEF profileSaved, UpSound, UpTyped, UpKnownOf
 <2> QED BY <1>0, <1>1, <1>2, <1>3, <2>1, <2>2 DEF UpSound, UpTyped
<1>5. UpSaves = {c} /\ upDialog.for # "save" BY <1>0 DEF UpSound, UpAlone
<1>6. UpSaves' = {d} BY <1>0, <1>1, <1>2, <1>5 DEF UpSaves
<1>7. UpAlone' /\ UpAddresses' BY <1>0, <1>1, <1>2, <1>3, <1>5, <1>6 DEF UpSound, UpAlone, UpAddresses
<1>8. UpKnows'
 <2>1. ASSUME ~upCounts'.astray PROVE PageLoads' = {d}
  <3>1. \A l \in PageLoads : l \in UpSaves BY <1>3, <2>1 DEF UpUnderWay, PageLoads, UpSaves
  <3> QED BY <1>0, <1>1, <1>2, <1>5, <3>1 DEF PageLoads
 <2> QED BY <1>2, <2>1 DEF UpKnows
<1> QED BY <1>4, <1>7, <1>8 DEF UpSound

LEMMA UpNotSavedSound == ASSUME NEW c \in upCalls, UpSound, notSaved(c) PROVE UpSound'
<1>0. c.kind \notin {"load", "reload"} /\ UNCHANGED <<upServer, upDialog, upForm>> /\ Nothing \in UpTexts
      /\ upCalls' = upCalls \ {c} BY DEF notSaved, PageLoads, Answered, UpTexts
<1>1. upKnown' \in UpKnownOf
      /\ upKnown'.username = upKnown.username /\ upKnown'.email = upKnown.email
  BY <1>0 DEF notSaved, UpSound, UpTyped, UpKnownOf
<1>2. upCounts' \in UpCountsOf
      /\ upCounts'.twice = upCounts.twice /\ upCounts'.typed = upCounts.typed
      /\ (c.kind # "save" => upCounts'.astray = upCounts.astray)
      /\ (upCounts'.astray <=> upCounts.astray \/ (c.kind = "save" /\ c.pc # "password refused"))
 <2>1. PICK lost \in BOOLEAN : lost = (c.kind = "save" /\ c.pc # "password refused") OBVIOUS
 <2>2. PICK astray \in BOOLEAN : astray = (upCounts.astray \/ lost) OBVIOUS
 <2>3. upCounts' = [upCounts EXCEPT !.astray = astray] BY <2>1, <2>2 DEF notSaved
 <2>4. c.kind # "save" => astray = upCounts.astray BY <2>1, <2>2, UpFields DEF UpSound
 <2>5. upCounts' \in UpCountsOf /\ upCounts'.twice = upCounts.twice /\ upCounts'.typed = upCounts.typed
       /\ upCounts'.astray = astray BY <2>3, UpCounted DEF UpSound, UpTyped
 <2> QED BY <2>1, <2>2, <2>4, <2>5
<1>3. UpTyped' BY <1>0, <1>1, <1>2 DEF UpSound, UpTyped
<1>4. CASE c.kind # "save" BY <1>0, <1>1, <1>2, <1>3, <1>4, UpAside
<1>5. CASE c.kind = "save"
 <2>1. UpAlone' /\ UpAddresses' BY <1>0, <1>2 DEF UpSound, UpAlone, UpAddresses, UpSaves
 <2>2. PageLoads' = PageLoads BY <1>0 DEF PageLoads
 <2>3. ASSUME ~upCounts'.astray, UpUnchanged' PROVE UpUnchanged BY <1>0, <1>2, <1>5, <2>3 DEF UpUnchanged
 <2>4. UpKnows' BY <1>0, <1>1, <1>2, <2>2, <2>3 DEF UpSound, UpKnows, UpShows
 <2> QED BY <1>3, <2>1, <2>4 DEF UpSound
<1> QED BY <1>4, <1>5

LEMMA UpStep == UpSound /\ [UpNext]_upVars => UpSound'
<1>1. UpSound /\ UNCHANGED upVars => UpSound'
  BY DEF UpSound, UpTyped, UpAlone, UpSaves, UpKnows, UpShows, UpUnchanged, UpAddresses, PageLoads, upVars
<1> QED BY <1>1, UpTypingSound, UpOtherInputsSound, UpSubmitSound, UpGivePasswordSound, UpLoadsSound, UpServedSound,
           UpAnswersSound, UpSavedSound, UpNotSavedSound DEF UpNext

\* At rest the page knows the account as it is and shows it, and the account has no address that was not typed twice.
THEOREM UpShowsTheAccount == UpSpec => []UpPageIsOfTheAccount
<1>1. UpSound => UpPageIsOfTheAccount
  BY DEF UpSound, UpKnows, UpShows, UpUnchanged, UpAddresses, UpPageIsOfTheAccount, PageLoads
<1> QED BY <1>1, UpInitSound, UpStep, PTL DEF UpSpec
-----------------------------------------------------------------------------
(* Live updates: LuToldIsShown, for any number of events. *)

LuSpec == LuInit /\ [][LuNext]_luVars

LuPages == [active : LuDatasets \cup {NoDataset}, unloading : BOOLEAN, session : BOOLEAN]
LuPageTyped == luPage \in LuPages
LuStreamTyped == luStream \in [source : [of : LuDatasets \cup {NoDataset}, open : BOOLEAN], timer : BOOLEAN, delay : Nat]
LuRowsTyped == luRows \in [LuDatasets -> [version : Nat, told : Nat, done : Nat, shown : Nat]]
LuHows == {"new", "emptied", "cached", "read", "cancelled", "failed", "overtaken", "merged"}
LuViewsTyped == luViews \in [LuDatasets -> [search : {"none", "typed", "committed"}, cached : Nat, how : LuHows]]
LuReadSet == [kind : {"search", "table", "redraw"}, of : LuDatasets, since : Nat, rows : Nat]
LuReadsTyped == luReads \subseteq LuReadSet
LuCountsTyped == luCounts \in [events : Nat, spoiled : BOOLEAN]
LuTypes == LuRowsTyped /\ LuViewsTyped /\ LuReadsTyped
\* The stream and the scheduled refresh are of the dataset shown; while the page is left, it is known to be; there
\* is a stream or the attempt to open one.
LuOfThePage ==
    /\ luStream.source.of \in {NoDataset, luPage.active}
    /\ luTimers \subseteq {luPage.active}
    /\ luPage.unloading => luCounts.spoiled
    /\ luPage.active # NoDataset /\ luPage.session /\ ~luCounts.spoiled => luStream.timer \/ luStream.source.of # NoDataset
LuPageSound == LuPageTyped /\ LuStreamTyped /\ LuCountsTyped /\ LuOfThePage
\* A read that was served has what was told when it began.
LuReadsSound == \A r \in luReads : /\ r.since <= luRows[r.of].told
                                   /\ r.kind # "redraw" /\ r.rows # NoRows => r.rows >= r.since
\* What was told of a dataset was attended to, or a refresh is scheduled, or one that began since is under way; and
\* what was read at the server has what was attended to.
LuAttends ==
    \A d \in LuDatasets :
        /\ luRows[d].told <= luRows[d].version /\ luRows[d].done <= luRows[d].told
        /\ d \in luTimers \/ luRows[d].done = luRows[d].told \/ \E r \in luReads : r.of = d /\ r.since = luRows[d].told
        /\ luViews[d].how = "read" => luRows[d].shown >= luRows[d].done
LuRowsSound == LuTypes /\ LuReadsSound /\ LuAttends
LuSound == LuPageSound /\ LuRowsSound

LEMMA LuPageSet ==
  ASSUME NEW p \in LuPages, NEW b \in BOOLEAN
  PROVE  [p EXCEPT !.unloading = b] \in LuPages /\ [p EXCEPT !.session = b] \in LuPages BY SMT DEF LuPages

LEMMA LuInitSound == LuInit => LuSound
<1> SUFFICES ASSUME LuInit PROVE LuSound OBVIOUS
<1>1. LuPageSound
  BY SMT DEF LuInit, LuPageSound, LuPages, LuPageTyped, LuStreamTyped, LuCountsTyped, LuOfThePage, LuClosed, BaseDelay
<1>2. LuTypes BY SMT DEF LuInit, LuTypes, LuRowsTyped, LuViewsTyped, LuReadsTyped, LuHows, NoRows
<1>3. LuReadsSound /\ LuAttends BY SMT DEF LuInit, LuReadsSound, LuAttends, NoRows
<1> QED BY <1>1, <1>2, <1>3 DEF LuSound, LuRowsSound

\* What connecting does to the stream and to the refreshes scheduled.
LEMMA LuConnects ==
  ASSUME LuStreamTyped, NEW active \in LuDatasets \cup {NoDataset}, NEW timers, connectIfNeeded(active, timers)
  PROVE  /\ LuStreamTyped' /\ luStream'.timer = FALSE
         /\ luTimers' \in {timers, {}}
         /\ luPage.unloading => luStream'.source.of = NoDataset
         /\ ~luPage.unloading =>
                \/ luStream'.source.of = active /\ active # NoDataset
                \/ luStream'.source.of = NoDataset /\ (~luPage.session \/ active = NoDataset)
<1>1. CASE luPage.unloading
 <2>1. luStream' = LuStream(LuClosed, FALSE) /\ luTimers' = timers BY <1>1, Zenon DEF connectIfNeeded
 <2> QED BY <1>1, <2>1, SMT DEF LuStreamTyped, LuStream, LuClosed
<1>2. CASE ~luPage.unloading /\ (~luPage.session \/ active = NoDataset)
 <2>1. luStream' = [source |-> LuClosed, timer |-> FALSE, delay |-> BaseDelay] /\ luTimers' = {}
   BY <1>2, Zenon DEF connectIfNeeded
 <2> QED BY <1>2, <2>1, SMT DEF LuStreamTyped, LuClosed, BaseDelay
<1>3. CASE ~luPage.unloading /\ ~(~luPage.session \/ active = NoDataset)
 <2>1. luStream' = LuStream([of |-> active, open |-> FALSE], FALSE) /\ luTimers' = timers
   BY <1>3, Zenon DEF connectIfNeeded
 <2>2. LuStreamTyped' BY <2>1, SMT DEF LuStreamTyped, LuStream
 <2>3. luStream'.source.of = active /\ luStream'.timer = FALSE BY <2>1, SMT DEF LuStream
 <2> QED BY <1>3, <2>1, <2>2, <2>3
<1> QED BY <1>1, <1>2, <1>3

\* A refresh that is cancelled counts as attended to.
LEMMA LuCancelSound ==
  ASSUME LuRowsSound, luTimers' \subseteq luTimers, LuCancels(luTimers \ luTimers'), luReads' = luReads
  PROVE  LuRowsSound'
<1> USE DEF LuRowsSound
<1>1. LuRowsTyped' BY SMT DEF LuCancels, LuTypes, LuRowsTyped
<1>2. LuViewsTyped' BY SMT DEF LuCancels, LuTypes, LuViewsTyped, LuHows
<1>3. LuReadsSound' BY SMT DEF LuCancels, LuTypes, LuRowsTyped, LuReadsTyped, LuReadSet, LuReadsSound
<1>4. LuAttends' BY SMTT(30) DEF LuCancels, LuTypes, LuRowsTyped, LuViewsTyped, LuHows, LuAttends
<1> QED BY <1>1, <1>2, <1>3, <1>4 DEF LuTypes, LuReadsTyped

\* A read that begins has what was told by then.
LEMMA LuBeginSound ==
  ASSUME LuRowsSound, NEW d \in LuDatasets, NEW kind \in {"search", "table", "redraw"}, NEW rows \in Nat,
         kind # "redraw" => rows = NoRows, luReads' = luReads \cup {LuRead(kind, d, rows)},
         luRows' = luRows, luViews' = luViews, luTimers' \in {luTimers, luTimers \ {d}}
  PROVE  LuRowsSound'
<1> USE DEF LuRowsSound
<1>1. LuRead(kind, d, rows) \in LuReadSet /\ LuRead(kind, d, rows).of = d
      /\ LuRead(kind, d, rows).since = luRows[d].told /\ LuRead(kind, d, rows).kind = kind /\ LuRead(kind, d, rows).rows = rows
  BY SMT DEF LuRead, LuReadSet, LuTypes, LuRowsTyped
<1>2. PICK r \in LuReadSet : r.of = d /\ r.since = luRows[d].told /\ r.kind = kind /\ r.rows = rows /\ luReads' = luReads \cup {r}
  BY <1>1
<1>3. LuTypes' BY <1>2, SMT DEF LuTypes, LuRowsTyped, LuViewsTyped, LuReadsTyped
<1>4. LuReadsSound' BY <1>2, SMT DEF LuReadsSound, LuTypes, LuRowsTyped, LuReadsTyped
<1>5. LuAttends' BY <1>2, SMTT(30) DEF LuAttends, LuTypes, LuRowsTyped, LuReadsTyped
<1> QED BY <1>3, <1>4, <1>5

\* Begun by whatever refreshes the table.
LEMMA LuRefreshSound ==
  ASSUME LuRowsSound, NEW d \in LuDatasets, refreshTableUnified(d), luRows' = luRows, luViews' = luViews,
         luTimers' \in {luTimers, luTimers \ {d}}
  PROVE  LuRowsSound'
<1>1. luViews[d].cached \in Nat BY SMT DEF LuRowsSound, LuTypes, LuViewsTyped
<1>2. CASE luViews[d].search = "committed"
 <2>1. luReads' = luReads \cup {LuRead("redraw", d, luViews[d].cached)} BY <1>2 DEF refreshTableUnified
 <2> QED BY <1>1, <2>1, LuBeginSound
<1>3. CASE luViews[d].search # "committed"
 <2>1. luReads' = luReads \cup {LuRead("table", d, NoRows)} BY <1>3 DEF refreshTableUnified
 <2>2. NoRows \in Nat BY DEF NoRows
 <2> QED BY <2>1, <2>2, LuBeginSound
<1> QED BY <1>2, <1>3

LEMMA LuSearchSound ==
  ASSUME LuRowsSound, NEW d \in LuDatasets, do_intelligent_search(d), luTimers' \in {luTimers, luTimers \ {d}}
  PROVE  LuRowsSound'
<1> USE DEF LuRowsSound
<1>1. LuRead("search", d, NoRows) \in LuReadSet /\ LuRead("search", d, NoRows).of = d
      /\ LuRead("search", d, NoRows).since = luRows[d].told /\ LuRead("search", d, NoRows).rows = NoRows
  BY SMT DEF LuRead, LuReadSet, LuTypes, LuRowsTyped, NoRows
<1>2. PICK r \in LuReadSet : r.of = d /\ r.since = luRows[d].told /\ r.rows = NoRows /\ luReads' = luReads \cup {r}
  BY <1>1 DEF do_intelligent_search
<1>3. luRows' = [luRows EXCEPT ![d].shown = NoRows]
      /\ luViews' = [luViews EXCEPT ![d] = [search |-> "committed", cached |-> NoRows, how |-> "emptied"]]
  BY DEF do_intelligent_search
<1>4. LuRowsTyped' BY <1>3, SMT DEF LuTypes, LuRowsTyped, NoRows
<1>5. LuViewsTyped' BY <1>3, SMT DEF LuTypes, LuViewsTyped, LuHows, NoRows
<1>6. LuReadsTyped' BY <1>2, SMT DEF LuTypes, LuReadsTyped
<1>7. LuReadsSound' BY <1>2, <1>3, SMT DEF LuReadsSound, LuTypes, LuRowsTyped, LuReadsTyped, LuReadSet
<1>8. LuAttends' BY <1>2, <1>3, SMTT(30) DEF LuAttends, LuTypes, LuRowsTyped, LuViewsTyped
<1> QED BY <1>4, <1>5, <1>6, <1>7, <1>8 DEF LuTypes

\* A read that ends: what was told when it began was attended to.
LEMMA LuEndSound ==
  ASSUME LuRowsSound, NEW r \in luReads, NEW shown \in Nat, LuEnds(r, shown), LuViewsTyped',
         \A e \in LuDatasets \ {r.of} : luViews'[e].how = luViews[e].how,
         luViews'[r.of].how = "read" => r.since >= luRows[r.of].done /\ shown >= r.since
  PROVE  LuRowsSound'
<1> USE DEF LuRowsSound
<1>1. r \in LuReadSet /\ r.since <= luRows[r.of].told BY DEF LuTypes, LuReadsTyped, LuReadsSound
<1>2. PICK d \in LuDatasets : d = r.of BY <1>1, SMT DEF LuReadSet
<1>3. PICK since \in Nat : since = r.since BY <1>1, SMT DEF LuReadSet
<1>4. luRows[d].done \in Nat BY SMT DEF LuTypes, LuRowsTyped
<1>5. PICK done \in Nat : done = Later(luRows[d].done, since) BY <1>3, <1>4 DEF Later
<1>6. done >= since /\ done >= luRows[d].done /\ (done = since \/ done = luRows[d].done) /\ (since >= luRows[d].done => done = since)
  BY <1>3, <1>4, <1>5, SMT DEF Later
<1>7. luRows' = [luRows EXCEPT ![d] = [version |-> luRows[d].version, told |-> luRows[d].told, done |-> done, shown |-> shown]]
      /\ luReads' = luReads \ {r} /\ luTimers' = luTimers BY <1>2, <1>3, <1>5 DEF LuEnds
<1>8. LuRowsTyped' BY <1>7, SMT DEF LuTypes, LuRowsTyped
<1>10. LuReadsTyped' BY <1>7, SMT DEF LuTypes, LuReadsTyped
<1>11. LuReadsSound' BY <1>7, SMT DEF LuReadsSound, LuTypes, LuRowsTyped, LuReadsTyped, LuReadSet
<1>12. /\ \A e \in LuDatasets \ {d} : luViews'[e].how = luViews[e].how
       /\ luViews'[d].how = "read" => since >= luRows[d].done /\ shown >= since
       /\ since <= luRows[d].told /\ r.of = d /\ r.since = since BY <1>1, <1>2, <1>3
<1>13. ASSUME NEW e \in LuDatasets
       PROVE  /\ luRows'[e].told <= luRows'[e].version /\ luRows'[e].done <= luRows'[e].told
              /\ luViews'[e].how = "read" => luRows'[e].shown >= luRows'[e].done
  BY <1>6, <1>7, <1>12, SMT DEF LuAttends, LuTypes, LuRowsTyped
<1>14. ASSUME NEW e \in LuDatasets
       PROVE  e \in luTimers' \/ luRows'[e].done = luRows'[e].told \/ \E s \in luReads' : s.of = e /\ s.since = luRows'[e].told
  BY <1>6, <1>7, <1>12, SMT DEF LuAttends, LuTypes, LuRowsTyped
<1>15. LuAttends' BY <1>13, <1>14 DEF LuAttends
<1> QED BY <1>8, <1>10, <1>11, <1>15 DEF LuTypes

\* The same from what the actions of an ending say.
LEMMA LuAnswerSound ==
  ASSUME LuRowsSound, NEW r \in luReads, LuServed(r) \/ LuTableAnswered(r) \/ LuSearchAnswered(r) \/ LuReadFails(r)
  PROVE  LuRowsSound'
<1> USE DEF LuRowsSound
<1>1. r \in LuReadSet /\ r.since <= luRows[r.of].told BY DEF LuTypes, LuReadsTyped, LuReadsSound
<1>2. r.kind # "redraw" /\ r.rows # NoRows => r.rows >= r.since BY DEF LuReadsSound
<1>3. r.of \in LuDatasets /\ r.rows \in Nat /\ r.since \in Nat BY <1>1, SMT DEF LuReadSet
<1>4. luRows[r.of].shown \in Nat /\ luRows[r.of].done \in Nat BY <1>3, SMT DEF LuTypes, LuRowsTyped
<1>5. luViews[r.of].cached \in Nat BY <1>3, SMT DEF LuTypes, LuViewsTyped
<1>6. LuHow(r) \in LuHows /\ (LuHow(r) = "read" => r.kind # "redraw" /\ r.since >= luRows[r.of].done)
  BY <1>3, <1>4, SMT DEF LuHow, LuHows
<1>7. ASSUME LuServed(r) PROVE LuRowsSound'
 <2>1. PICK s \in LuReadSet : /\ s.of = r.of /\ s.since = r.since /\ s.rows = luRows[r.of].version
                              /\ s.kind = r.kind /\ luReads' = (luReads \ {r}) \cup {s}
  <3>1. luReads' = (luReads \ {r}) \cup {[r EXCEPT !.rows = luRows[r.of].version]} BY <1>7 DEF LuServed
  <3>2. luRows[r.of].version \in Nat BY <1>3, SMT DEF LuTypes, LuRowsTyped
  <3> DEFINE s == [r EXCEPT !.rows = luRows[r.of].version]
  <3>3. s \in LuReadSet /\ s.of = r.of /\ s.since = r.since /\ s.rows = luRows[r.of].version /\ s.kind = r.kind
    BY <1>1, <3>2, SMT DEF LuReadSet
  <3> QED BY <3>1, <3>3
 <2>2. luRows' = luRows /\ luViews' = luViews /\ luTimers' = luTimers BY <1>7 DEF LuServed
 <2>3. luRows[r.of].version >= luRows[r.of].told /\ luRows[r.of].version \in Nat /\ luRows[r.of].told \in Nat
   BY <1>3, SMT DEF LuAttends, LuTypes, LuRowsTyped
 <2>4. LuTypes' BY <2>1, <2>2, SMT DEF LuTypes, LuRowsTyped, LuViewsTyped, LuReadsTyped
 <2>5. LuReadsSound' BY <1>1, <1>3, <2>1, <2>2, <2>3, SMT DEF LuReadsSound, LuTypes, LuReadsTyped, LuReadSet
 <2>6. LuAttends' BY <1>3, <2>1, <2>2, SMTT(30) DEF LuAttends, LuTypes, LuReadsTyped, LuRowsTyped
 <2> QED BY <2>4, <2>5, <2>6
<1>8. ASSUME LuTableAnswered(r) PROVE LuRowsSound'
 <2>1. LuEnds(r, r.rows) /\ (r.kind = "redraw" \/ r.rows # NoRows) BY <1>8 DEF LuTableAnswered
 <2>11. PICK how \in LuHows : how = LuHow(r) BY <1>6
 <2>12. PICK d \in LuDatasets : d = r.of BY <1>3
 <2>2. luViews' = [luViews EXCEPT ![d].how = how] BY <1>8, <2>11, <2>12 DEF LuTableAnswered
 <2>3. LuViewsTyped' BY <2>2, SMT DEF LuTypes, LuViewsTyped
 <2>4. luViews'[r.of].how = LuHow(r) /\ \A e \in LuDatasets \ {r.of} : luViews'[e].how = luViews[e].how
   BY <2>11, <2>12, <2>2, SMT DEF LuTypes, LuViewsTyped
 <2> QED BY <1>2, <1>3, <1>6, <2>1, <2>3, <2>4, LuEndSound
<1>9. ASSUME LuSearchAnswered(r) PROVE LuRowsSound'
 <2> DEFINE old == luViews[r.of].cached
            shown == IF old # NoRows /\ old < r.rows THEN old ELSE r.rows
            how == IF old # NoRows THEN "merged" ELSE LuHow(r)
 <2>1. LuEnds(r, shown) /\ r.kind = "search" /\ r.rows # NoRows BY <1>9 DEF LuSearchAnswered
 <2>2. PICK found \in BOOLEAN :
          luViews' = [luViews EXCEPT ![r.of] = [search |-> luViews[r.of].search, cached |-> IF found THEN shown ELSE old, how |-> how]]
   BY <1>9 DEF LuSearchAnswered
 <2>3. shown \in Nat /\ (old = NoRows => shown = r.rows) BY <1>3, <1>5
 <2>4. how \in LuHows /\ (how = "read" => old = NoRows /\ LuHow(r) = "read") BY <1>6 DEF LuHows
 <2>5. PICK cached \in Nat : cached = IF found THEN shown ELSE old BY <1>5, <2>3
 <2>6. r.kind # "redraw" BY <2>1
 <2> HIDE DEF old, shown, how
 <2>7. how = "read" => r.since >= luRows[r.of].done /\ shown >= r.since BY <1>2, <1>6, <2>1, <2>3, <2>4, <2>6
 <2>8. luViews' = [luViews EXCEPT ![r.of] = [search |-> luViews[r.of].search, cached |-> cached, how |-> how]]
   BY <2>2, <2>5
 <2>9. LuViewsTyped' /\ luViews'[r.of].how = how /\ \A e \in LuDatasets \ {r.of} : luViews'[e].how = luViews[e].how
   BY <1>3, <2>4, <2>8, SMT DEF LuTypes, LuViewsTyped
 <2> QED BY <2>1, <2>3, <2>7, <2>9, LuEndSound
<1>10. ASSUME LuReadFails(r) PROVE LuRowsSound'
 <2>1. LuEnds(r, luRows[r.of].shown) BY <1>10 DEF LuReadFails
 <2>11. PICK d \in LuDatasets : d = r.of BY <1>3
 <2>2. luViews' = [luViews EXCEPT ![d].how = "failed"] BY <1>10, <2>11 DEF LuReadFails
 <2>3. LuViewsTyped' BY <2>2, SMT DEF LuTypes, LuViewsTyped, LuHows
 <2>4. luViews'[r.of].how # "read" /\ \A e \in LuDatasets \ {r.of} : luViews'[e].how = luViews[e].how
   BY <2>2, <2>11, SMT DEF LuTypes, LuViewsTyped
 <2> QED BY <1>4, <2>1, <2>3, <2>4, LuEndSound
<1> QED BY <1>7, <1>8, <1>9, <1>10

\* What is typed does not change what is shown.
LEMMA LuTypedSound ==
  ASSUME LuRowsSound, NEW d \in LuDatasets, NEW term \in {"none", "typed", "committed"},
         luViews' = [luViews EXCEPT ![d].search = term], luRows' = luRows, luTimers' = luTimers,
         luReads' = luReads \/ luReads' = luReads \cup {LuRead("table", d, NoRows)}
  PROVE  LuRowsSound'
<1> USE DEF LuRowsSound
<1>1. LuRead("table", d, NoRows) \in LuReadSet /\ LuRead("table", d, NoRows).of = d
      /\ LuRead("table", d, NoRows).since = luRows[d].told /\ LuRead("table", d, NoRows).rows = NoRows
  BY SMT DEF LuRead, LuReadSet, LuTypes, LuRowsTyped, NoRows
<1>2. PICK r \in LuReadSet : r.of = d /\ r.since = luRows[d].told /\ r.rows = NoRows
                             /\ (luReads' = luReads \/ luReads' = luReads \cup {r}) BY <1>1
<1>3. LuTypes' BY <1>2, SMT DEF LuTypes, LuRowsTyped, LuViewsTyped, LuReadsTyped
<1>4. LuReadsSound' BY <1>2, SMT DEF LuReadsSound, LuTypes, LuRowsTyped, LuReadsTyped
<1>5. LuAttends' BY <1>2, SMTT(30) DEF LuAttends, LuTypes, LuRowsTyped, LuViewsTyped, LuReadsTyped
<1> QED BY <1>3, <1>4, <1>5

\* What the actions that only concern the page keep.
LEMMA LuKeptSound == LuRowsSound /\ UNCHANGED <<luTimers, luRows, luViews, luReads>> => LuRowsSound'
  BY SMT DEF LuRowsSound, LuTypes, LuRowsTyped, LuViewsTyped, LuReadsTyped, LuReadsSound, LuAttends
\* And what those that do not concern it keep.
LEMMA LuPageKept ==
  ASSUME LuPageSound, UNCHANGED <<luPage, luStream>>, luTimers' \subseteq luTimers, luCounts' = luCounts \/ LuEvent(luCounts.spoiled)
  PROVE  LuPageSound'
<1>1. luCounts' \in [events : Nat, spoiled : BOOLEAN] /\ luCounts'.spoiled = luCounts.spoiled
 <2>1. PICK spoiled \in BOOLEAN : spoiled = luCounts.spoiled BY DEF LuPageSound, LuCountsTyped
 <2>2. luCounts' = luCounts \/ luCounts' = [events |-> luCounts.events + 1, spoiled |-> spoiled] BY <2>1 DEF LuEvent
 <2> QED BY <2>1, <2>2, SMT DEF LuPageSound, LuCountsTyped
<1> QED BY <1>1, SMT DEF LuPageSound, LuPageTyped, LuStreamTyped, LuCountsTyped, LuOfThePage

LEMMA LuStep == LuSound /\ [LuNext]_luVars => LuSound'
<1> SUFFICES ASSUME LuPageSound, LuRowsSound, [LuNext]_luVars PROVE LuPageSound' /\ LuRowsSound' BY DEF LuSound
<1>1. ASSUME NEW name \in LuDatasets \cup {NoDataset}, LuNavigate(name) PROVE LuPageSound' /\ LuRowsSound'
 <2>1. luPage' = [luPage EXCEPT !.active = name] /\ connectIfNeeded(name, {}) /\ LuCancels(luTimers \ luTimers')
  <3>1. luTimers \ {luPage.active} = {} BY DEF LuPageSound, LuOfThePage
  <3> QED BY <1>1, <3>1 DEF LuNavigate, setSSEActiveDataset
 <2>2. PICK left \in BOOLEAN : left = luPage.unloading BY DEF LuPageSound, LuPageTyped, LuPages
 <2>3. luCounts' = [events |-> luCounts.events + 1, spoiled |-> left] BY <1>1, <2>2 DEF LuNavigate, LuEvent
 <2>4. LuPageTyped' /\ luPage'.active = name /\ luPage'.unloading = luPage.unloading /\ luPage'.session = luPage.session
   BY <2>1, SMT DEF LuPageSound, LuPageTyped, LuPages
 <2>5. LuCountsTyped' BY <2>3, SMT DEF LuPageSound, LuCountsTyped
 <2>6. /\ LuStreamTyped' /\ luTimers' = {} /\ luStream'.source.of \in {NoDataset, name} /\ luStream'.timer = FALSE
       /\ name # NoDataset /\ luPage.session /\ ~luPage.unloading => luStream'.source.of # NoDataset
   BY <2>1, LuConnects, Zenon DEF LuPageSound
 <2>7. LuOfThePage' BY <2>2, <2>3, <2>4, <2>6, SMT DEF LuOfThePage
 <2>8. luReads' = luReads BY <1>1 DEF LuNavigate
 <2> QED BY <2>1, <2>4, <2>5, <2>6, <2>7, <2>8, LuCancelSound DEF LuPageSound
<1>2. ASSUME LuOpened PROVE LuPageSound' /\ LuRowsSound'
 <2>1. LuStreamTyped' BY <1>2, SMT DEF LuPageSound, LuStreamTyped, LuOpened, BaseDelay
 <2>2. LuOfThePage' BY <1>2, SMT DEF LuPageSound, LuPageTyped, LuStreamTyped, LuCountsTyped, LuOfThePage, LuOpened, BaseDelay
 <2> QED BY <1>2, <2>1, <2>2, LuKeptSound DEF LuOpened, LuPageSound, LuPageTyped, LuCountsTyped
<1>3. ASSUME LuStreamFails PROVE LuPageSound' /\ LuRowsSound'
 <2>1. PICK spoiled \in BOOLEAN : spoiled = luCounts.spoiled BY DEF LuPageSound, LuCountsTyped
 <2>2. luCounts' = [events |-> luCounts.events + 1, spoiled |-> spoiled] BY <1>3, <2>1 DEF LuStreamFails, LuEvent
 <2>3. LuCountsTyped' /\ luCounts'.spoiled = luCounts.spoiled BY <2>1, <2>2, SMT DEF LuPageSound, LuCountsTyped
 <2>4. LuStreamTyped' BY <1>3, SMT DEF LuPageSound, LuStreamTyped, LuStreamFails, LuStream, LuClosed, MaxDelay
 <2>5. luStream'.source.of = NoDataset /\ (luPage.unloading \/ luStream'.timer = TRUE)
   BY <1>3, SMT DEF LuStreamFails, LuStream, LuClosed
 <2>6. UNCHANGED <<luPage, luTimers, luRows, luViews, luReads>> BY <1>3 DEF LuStreamFails
 <2>7. LuOfThePage' BY <2>3, <2>5, <2>6, SMT DEF LuPageSound, LuOfThePage
 <2> QED BY <2>3, <2>4, <2>6, <2>7, LuKeptSound DEF LuPageSound, LuPageTyped
<1>4. ASSUME LuReconnect PROVE LuPageSound' /\ LuRowsSound'
 <2>1. PICK left \in BOOLEAN : left = luPage.unloading BY DEF LuPageSound, LuPageTyped, LuPages
 <2>2. luCounts' = [luCounts EXCEPT !.spoiled = left] BY <1>4, <2>1 DEF LuReconnect
 <2>3. connectIfNeeded(luPage.active, luTimers) /\ LuCancels(luTimers \ luTimers') /\ UNCHANGED <<luPage, luReads>>
   BY <1>4 DEF LuReconnect
 <2>4. luPage.active \in LuDatasets \cup {NoDataset} BY DEF LuPageSound, LuPageTyped, LuPages
 <2>5. LuCountsTyped' /\ luCounts'.spoiled = left BY <2>2, SMT DEF LuPageSound, LuCountsTyped
 <2>6. /\ LuStreamTyped' /\ luTimers' \in {luTimers, {}} /\ luStream'.source.of \in {NoDataset, luPage.active}
       /\ luPage.active # NoDataset /\ luPage.session /\ ~luPage.unloading => luStream'.source.of # NoDataset
   BY <2>3, <2>4, LuConnects, Zenon DEF LuPageSound
 <2>7. LuOfThePage' BY <2>1, <2>3, <2>5, <2>6, SMT DEF LuPageSound, LuOfThePage
 <2>8. luTimers' \subseteq luTimers BY <2>6
 <2> QED BY <2>3, <2>5, <2>6, <2>7, <2>8, LuCancelSound DEF LuPageSound, LuPageTyped
<1>5. ASSUME NEW d \in LuDatasets, LuRowChanges(d) PROVE LuPageSound' /\ LuRowsSound'
 <2>1. PICK told \in BOOLEAN :
          /\ told => luStream.source = [of |-> d, open |-> TRUE]
          /\ luRows' = [luRows EXCEPT ![d] = [version |-> luRows[d].version + 1,
                                              told |-> IF told THEN luRows[d].version + 1 ELSE luRows[d].told,
                                              done |-> luRows[d].done, shown |-> luRows[d].shown]]
          /\ luTimers' = IF told /\ d = luPage.active THEN luTimers \cup {d} ELSE luTimers
   BY <1>5, Zenon DEF LuRowChanges, scheduleDebouncedRefresh
 <2>2. UNCHANGED <<luPage, luStream, luViews, luReads>> BY <1>5 DEF LuRowChanges
 <2>3. PICK spoiled \in BOOLEAN : spoiled = luCounts.spoiled BY DEF LuPageSound, LuCountsTyped
 <2>4. luCounts' = [events |-> luCounts.events + 1, spoiled |-> spoiled] BY <1>5, <2>3 DEF LuRowChanges, LuEvent
 <2>5. LuCountsTyped' /\ luCounts'.spoiled = luCounts.spoiled BY <2>3, <2>4, SMT DEF LuPageSound, LuCountsTyped
 <2>6. luTimers' \subseteq luTimers \cup {luPage.active} BY <2>1
 <2>7. LuOfThePage' BY <2>2, <2>5, <2>6, SMT DEF LuPageSound, LuOfThePage
 <2>8. LuPageSound' BY <2>2, <2>5, <2>7 DEF LuPageSound, LuPageTyped, LuStreamTyped
 <2>9. told => d = luPage.active
  <3>1. luStream.source.of \in {NoDataset, luPage.active} BY DEF LuPageSound, LuOfThePage
  <3>2. d # NoDataset BY Zenon DEF LuDatasets, NoDataset
  <3> QED BY <2>1, <3>1, <3>2
 <2> USE DEF LuRowsSound
 <2>10. LuTypes' BY <2>1, <2>2, SMT DEF LuTypes, LuRowsTyped, LuViewsTyped, LuReadsTyped
 <2>11. LuReadsSound'
   BY <2>1, <2>2, SMT DEF LuReadsSound, LuAttends, LuTypes, LuRowsTyped, LuReadsTyped, LuReadSet
 <2>12. LuAttends' BY <2>1, <2>2, <2>9, SMTT(30) DEF LuAttends, LuTypes, LuRowsTyped
 <2> QED BY <2>8, <2>10, <2>11, <2>12
<1>6. ASSUME NEW d \in LuDatasets, refreshActiveDatasetSurface(d) PROVE LuPageSound' /\ LuRowsSound'
 <2>1. luTimers' = luTimers \ {d} /\ UNCHANGED <<luPage, luStream, luCounts>> BY <1>6 DEF refreshActiveDatasetSurface
 <2>2. LuPageSound' BY <2>1, LuPageKept
 <2>3. CASE do_intelligent_search(d) BY <2>1, <2>2, <2>3, LuSearchSound
 <2>4. CASE rerenderCachedSearchResults(d)
  <3> USE DEF LuRowsSound
  <3>1. luRows' = [luRows EXCEPT ![d] = [version |-> luRows[d].version, told |-> luRows[d].told, done |-> luRows[d].told,
                                         shown |-> luViews[d].cached]]
    BY <2>4, SMT DEF rerenderCachedSearchResults, LuTypes, LuRowsTyped
  <3>2. luViews' = [luViews EXCEPT ![d].how = "cached"] /\ luReads' = luReads BY <2>4 DEF rerenderCachedSearchResults
  <3>3. LuRowsTyped' BY <3>1, SMT DEF LuTypes, LuRowsTyped, LuViewsTyped
  <3>4. LuViewsTyped' BY <3>2, SMT DEF LuTypes, LuViewsTyped, LuHows
  <3>5. LuReadsSound' BY <3>1, <3>2, SMT DEF LuReadsSound, LuTypes, LuRowsTyped, LuReadsTyped, LuReadSet
  <3>6. LuAttends' BY <2>1, <3>1, <3>2, SMTT(30) DEF LuAttends, LuTypes, LuRowsTyped, LuViewsTyped
  <3> QED BY <2>2, <3>2, <3>3, <3>4, <3>5, <3>6 DEF LuTypes, LuReadsTyped
 <2>5. CASE refreshTableUnified(d) /\ UNCHANGED <<luRows, luViews>> BY <2>1, <2>2, <2>5, LuRefreshSound
 <2> QED BY <1>6, <2>3, <2>4, <2>5 DEF refreshActiveDatasetSurface
<1>7. ASSUME NEW d \in LuDatasets, LuLoads(d) \/ LuTypesTerm(d) \/ commitSearch(d) \/ clearAllFilters(d)
      PROVE LuPageSound' /\ LuRowsSound'
 <2>1. UNCHANGED <<luPage, luStream, luTimers>> /\ (luCounts' = luCounts \/ LuEvent(luCounts.spoiled))
   BY <1>7, Zenon DEF LuLoads, LuTypesTerm, commitSearch, clearAllFilters
 <2>2. LuPageSound' BY <2>1, LuPageKept
 <2>3. CASE LuLoads(d) BY <2>1, <2>2, <2>3, LuRefreshSound DEF LuLoads
 <2>4. CASE LuTypesTerm(d)
  <3>1. PICK term \in {"none", "typed", "committed"} : luViews' = [luViews EXCEPT ![d].search = term]
    BY <2>4 DEF LuTypesTerm
  <3> QED BY <2>2, <2>4, <3>1, LuTypedSound DEF LuTypesTerm
 <2>5. CASE commitSearch(d) BY <2>1, <2>2, <2>5, LuSearchSound DEF commitSearch
 <2>6. CASE clearAllFilters(d)
  <3>1. luViews' = [luViews EXCEPT ![d].search = "none"] /\ UNCHANGED <<luTimers, luRows>>
        /\ luReads' = luReads \cup {LuRead("table", d, NoRows)} BY <2>6 DEF clearAllFilters
  <3> QED BY <2>2, <3>1, LuTypedSound
 <2> QED BY <1>7, <2>3, <2>4, <2>5, <2>6
<1>8. ASSUME NEW r \in luReads, LuServed(r) \/ LuTableAnswered(r) \/ LuSearchAnswered(r) \/ LuReadFails(r)
      PROVE LuPageSound' /\ LuRowsSound'
 <2>1. UNCHANGED <<luPage, luStream, luTimers, luCounts>>
   BY <1>8, Zenon DEF LuServed, LuTableAnswered, LuSearchAnswered, LuReadFails, LuEnds
 <2>2. LuPageSound' BY <2>1, LuPageKept
 <2> QED BY <1>8, <2>2, LuAnswerSound
<1>9. ASSUME beginPageUnload \/ LuPageShow \/ LuSession PROVE LuPageSound' /\ LuRowsSound'
 <2>1. LuEvent(TRUE) /\ UNCHANGED <<luTimers, luRows, luViews, luReads>>
   BY <1>9, Zenon DEF beginPageUnload, LuPageShow, LuSession
 <2>2. LuCountsTyped' /\ luCounts'.spoiled = TRUE BY <2>1, SMT DEF LuEvent, LuPageSound, LuCountsTyped
 <2>3. LuPageTyped' /\ luPage'.active = luPage.active
  <3>1. PICK b \in BOOLEAN : luPage' = [luPage EXCEPT !.unloading = b] \/ luPage' = [luPage EXCEPT !.session = b]
   <4>1. (~luPage.session) \in BOOLEAN OBVIOUS
   <4>2. LuSession => luPage' = [luPage EXCEPT !.session = ~luPage.session] BY DEF LuSession
   <4> QED BY <1>9, <4>1, <4>2, Zenon DEF beginPageUnload, LuPageShow
  <3>2. LuPageTyped' BY <3>1, LuPageSet, Zenon DEF LuPageSound, LuPageTyped
  <3> QED BY <3>1, <3>2, SMT DEF LuPageSound, LuPageTyped, LuPages
 <2>4. LuStreamTyped' /\ luStream'.source.of \in {NoDataset, luPage.active}
  <3>1. luStream' = LuStream(LuClosed, FALSE) \/ luStream' = luStream
    BY <1>9, Zenon DEF beginPageUnload, LuPageShow, LuSession
  <3>2. CASE luStream' = LuStream(LuClosed, FALSE)
    BY <3>2, SMT DEF LuPageSound, LuStreamTyped, LuStream, LuClosed
  <3>3. CASE luStream' = luStream BY <3>3 DEF LuPageSound, LuStreamTyped, LuOfThePage
  <3> QED BY <3>1, <3>2, <3>3
 <2>5. LuOfThePage' BY <2>1, <2>2, <2>3, <2>4, SMT DEF LuPageSound, LuOfThePage
 <2> QED BY <2>1, <2>2, <2>3, <2>4, <2>5, LuKeptSound DEF LuPageSound
<1>10. ASSUME UNCHANGED luVars PROVE LuPageSound' /\ LuRowsSound'
  BY <1>10, LuKeptSound DEF luVars, LuPageSound, LuPageTyped, LuStreamTyped, LuCountsTyped, LuOfThePage
<1> QED BY <1>1, <1>2, <1>3, <1>4, <1>5, <1>6, <1>7, <1>8, <1>9, <1>10 DEF LuNext

\* A stream is of the dataset shown; however the stream fails, reads fail or overtake each other and the page is left,
\* hidden and signed out of, every change told was attended to, and is shown where the rows shown are those that were
\* read for it (sse_subscriber.js).
THEOREM LuTellsWhatIsShown == LuSpec => []LuToldIsShown
<1>1. LuSound => LuToldIsShown
  BY SMT DEF LuSound, LuPageSound, LuRowsSound, LuOfThePage, LuTypes, LuRowsTyped, LuAttends, LuAtRest, LuToldIsShown
<1> QED BY <1>1, LuInitSound, LuStep, PTL DEF LuSpec
-----------------------------------------------------------------------------
(* Languages: LnShownAsChosen, for any number of languages chosen, elements added and texts edited. *)

LnSpec == LnInit /\ [][LnNext]_lnVars

LnPageNames == {"dev", "current", "texts", "english", "shown", "cards", "values", "observing", "missing", "suppressed",
                "editable", "spoiled"}
LnRequestNames == {"n", "lang", "stage", "english", "texts"}
LnTyped ==
    /\ DOMAIN lnPage = LnPageNames /\ lnPage.spoiled \in BOOLEAN
    /\ DOMAIN lnJobs = {"requests", "ai", "editor", "opening", "saves"}
    /\ DOMAIN lnCounts = {"choices", "inputs", "newest", "wanted", "failed"}
    /\ lnCounts.newest \in Nat /\ lnCounts.failed \in BOOLEAN
    /\ DOMAIN lnServer = {"text", "gone"} /\ DOMAIN lnServer.text = Languages
    /\ \A r \in lnJobs.requests : DOMAIN r = LnRequestNames /\ r.n \in Nat /\ r.n <= lnCounts.newest
\* The newest request is for the language wanted, and is under way until the page is in that language.
LnWanted ==
    /\ \A r \in lnJobs.requests : r.n = lnCounts.newest => r.lang = lnCounts.wanted
    /\ lnCounts.failed \/ lnPage.current = lnCounts.wanted \/ \E r \in lnJobs.requests : r.n = lnCounts.newest
\* One request renders at a time, and leaves all parts of the page in its language.
LnRenders ==
    /\ \A r, q \in lnJobs.requests : r.stage \in Rendering /\ q.stage \in Rendering => r = q
    /\ \A r \in lnJobs.requests :
         /\ r.stage \in Rendering => r.lang = lnPage.current
         /\ r.stage = "values" => lnPage.cards = lnPage.current
    /\ (\A r \in lnJobs.requests : r.stage \notin Rendering) => lnPage.cards = lnPage.current /\ lnPage.values = lnPage.current
LnElements == lnPage.observing /\ lnPage.shown # NotThere => lnPage.shown = BestText(lnPage.texts, lnPage.english)
\* The texts fetched and in memory are those stored, unless a text is being saved; that one is stored already.
LnFresh ==
    ~lnPage.spoiled =>
      /\ \A f \in lnJobs.saves : \A l \in Generated : f[l] = lnServer.text[l]
      /\ lnJobs.saves = {} =>
           /\ \A r \in lnJobs.requests : r.stage = "queued" => r.texts = Text(r.lang, lnServer.text[r.lang])
           /\ lnPage.observing /\ lnPage.current \in Generated => lnPage.texts = Text(lnPage.current, lnServer.text[lnPage.current])
LnSound == LnTyped /\ LnWanted /\ LnRenders /\ LnElements /\ LnFresh

LEMMA LnInitSound == LnInit => LnSound
<1> SUFFICES ASSUME LnInit PROVE LnSound OBVIOUS
<1>1. LnTyped BY SMT DEF LnInit, LnTyped, LnPageNames
<1>2. LnWanted BY SMT DEF LnInit, LnWanted
<1>3. LnRenders BY SMT DEF LnInit, LnRenders
<1>4. LnElements BY SMT DEF LnInit, LnElements
<1>5. LnFresh BY SMT DEF LnInit, LnFresh
<1> QED BY <1>1, <1>2, <1>3, <1>4, <1>5 DEF LnSound

LEMMA LnTranslatedIs ==
  ASSUME NEW p, DOMAIN p = LnPageNames
  PROVE  /\ DOMAIN Translated(p) = LnPageNames
         /\ \A f \in LnPageNames \ {"shown", "missing"} : Translated(p)[f] = p[f]
         /\ p.shown = NotThere => Translated(p) = p
         /\ p.shown # NotThere => Translated(p).shown = BestText(p.texts, p.english)
<1>1. CASE p.shown = NotThere BY <1>1 DEF Translated
<1>2. CASE p.shown # NotThere
 <2> DEFINE best == BestText(p.texts, p.english)
 <2>1. PICK missing : missing = (p.missing \/ best = NoText) OBVIOUS
 <2>2. Translated(p) = [p EXCEPT !.shown = best, !.missing = missing] BY <1>2, <2>1, Zenon DEF Translated
 <2> HIDE DEF best
 <2>3. DOMAIN Translated(p) = LnPageNames /\ Translated(p).shown = best BY <2>2, SMT DEF LnPageNames
 <2>4. \A f \in LnPageNames \ {"shown", "missing"} : Translated(p)[f] = p[f] BY <2>2, Zenon DEF LnPageNames
 <2> QED BY <1>2, <2>3, <2>4 DEF best
<1> QED BY <1>1, <1>2

\* What a step does to the requests: it drops one that is not the newest, or one that failed, or takes one further.
LEMMA LnDrops ==
  ASSUME LnSound, NEW r \in lnJobs.requests, r.stage \notin Rendering, UNCHANGED <<lnPage, lnServer>>, Dropped(r),
         \/ r.n # lnCounts.newest /\ UNCHANGED lnCounts
         \/ r.n # lnCounts.newest /\ lnCounts' = [lnCounts EXCEPT !.failed = lnCounts.failed]
         \/ lnCounts' = [lnCounts EXCEPT !.failed = TRUE]
  PROVE  LnSound'
<1> USE DEF LnSound
<1>1. lnJobs'.requests = lnJobs.requests \ {r} /\ lnJobs'.saves = lnJobs.saves /\ DOMAIN lnJobs' = DOMAIN lnJobs
  BY SMT DEF Dropped, LnTyped
<1>2. /\ DOMAIN lnCounts' = DOMAIN lnCounts /\ lnCounts'.newest = lnCounts.newest /\ lnCounts'.wanted = lnCounts.wanted
      /\ lnCounts'.failed = TRUE \/ (lnCounts'.failed = lnCounts.failed /\ r.n # lnCounts.newest)
  BY SMT DEF LnTyped
<1>3. LnTyped' BY <1>1, <1>2, Zenon DEF LnTyped
<1>4. LnWanted' BY <1>1, <1>2, SMT DEF LnWanted
<1>5. LnRenders' BY <1>1, Zenon DEF LnRenders
<1>6. LnElements' BY Zenon DEF LnElements
<1>7. LnFresh' BY <1>1, Zenon DEF LnFresh
<1> QED BY <1>3, <1>4, <1>5, <1>6, <1>7
LEMMA LnAdvances ==
  ASSUME LnSound, NEW r \in lnJobs.requests, r.stage \notin Rendering, UNCHANGED <<lnPage, lnServer, lnCounts>>,
         NEW q, lnJobs' = [lnJobs EXCEPT !.requests = (@ \ {r}) \cup {q}], DOMAIN q = LnRequestNames, q.n = r.n,
         q.lang = r.lang, q.stage \in {"texts", "queued"}, q.stage = "queued" => q.texts = Text(r.lang, lnServer.text[r.lang])
  PROVE  LnSound'
<1> USE DEF LnSound
<1>1. /\ lnJobs'.requests = (lnJobs.requests \ {r}) \cup {q} /\ lnJobs'.saves = lnJobs.saves
      /\ DOMAIN lnJobs' = DOMAIN lnJobs /\ q.stage \notin Rendering BY SMT DEF LnTyped, Rendering
<1>2. LnTyped' BY <1>1, Zenon DEF LnTyped
<1>3. LnWanted' BY <1>1, Zenon DEF LnWanted
<1>4. LnRenders' BY <1>1, Zenon DEF LnRenders, Rendering
<1>5. LnElements' BY Zenon DEF LnElements
<1>6. LnFresh' BY <1>1, Zenon DEF LnFresh
<1> QED BY <1>2, <1>3, <1>4, <1>5, <1>6

LEMMA LnChooses ==
  ASSUME LnSound, NEW l \in Languages, UNCHANGED <<lnPage, lnServer>>, NEW kept \in SUBSET lnJobs.requests,
         \A r \in lnJobs.requests \ kept : r.stage \notin Rendering,
         lnJobs' = [lnJobs EXCEPT !.requests = Fetch(kept, l, lnCounts.newest + 1)],
         DOMAIN lnCounts' = DOMAIN lnCounts, lnCounts'.newest = lnCounts.newest + 1, lnCounts'.wanted = l,
         lnCounts'.failed \in BOOLEAN
  PROVE  LnSound'
<1> USE DEF LnSound
<1> DEFINE q == [n |-> lnCounts.newest + 1, lang |-> l, stage |-> IF l = "en" THEN "texts" ELSE "english",
                 english |-> lnPage.english, texts |-> NoText]
<1>1. /\ lnJobs'.requests = kept \cup {q} /\ lnJobs'.saves = lnJobs.saves /\ DOMAIN lnJobs' = DOMAIN lnJobs
  BY SMT DEF LnTyped, Fetch
<1>2. /\ DOMAIN q = LnRequestNames /\ q.n = lnCounts.newest + 1 /\ q.lang = l
      /\ q.stage \notin Rendering /\ q.stage # "queued" BY SMT DEF LnRequestNames, Rendering
<1>q. q \notin lnJobs.requests BY <1>2, SMT DEF LnTyped
<1> HIDE DEF q
<1>3. LnTyped' BY <1>1, <1>2, SMT DEF LnTyped
<1>4. LnWanted' BY <1>1, <1>2, SMT DEF LnWanted, LnTyped
<1>5. LnRenders'
 <2>1. \A r, s \in lnJobs'.requests : r.stage \in Rendering /\ s.stage \in Rendering => r = s
   BY <1>1, <1>2, Zenon DEF LnRenders
 <2>2. \A r \in lnJobs'.requests :
        /\ r.stage \in Rendering => r.lang = lnPage.current
        /\ r.stage = "values" => lnPage.cards = lnPage.current BY <1>1, <1>2, Zenon DEF LnRenders, Rendering
 <2>3. (\A r \in lnJobs'.requests : r.stage \notin Rendering) => lnPage.cards = lnPage.current /\ lnPage.values = lnPage.current
   BY <1>1, <1>2, Zenon DEF LnRenders
 <2> QED BY <2>1, <2>2, <2>3, Zenon DEF LnRenders
<1>6. LnElements' BY Zenon DEF LnElements
<1>7. LnFresh' BY <1>1, <1>2, Zenon DEF LnFresh
<1> QED BY <1>3, <1>4, <1>5, <1>6, <1>7

LEMMA LnRequestsStep ==
  ASSUME LnSound, NEW r \in lnJobs.requests,
         englishArrives(r) \/ textsArrive(r) \/ languageUnknown(r) \/ textsFail(r)
  PROVE  LnSound'
<1>1. CASE (englishArrives(r) \/ textsArrive(r) \/ languageUnknown(r)) /\ ~requestIsCurrent(r)
 <2>1. /\ r.stage \notin Rendering /\ UNCHANGED <<lnPage, lnServer, lnCounts>> /\ r.n # lnCounts.newest /\ Dropped(r)
   BY <1>1, Zenon DEF englishArrives, textsArrive, languageUnknown, Rendering, Rest, requestIsCurrent
 <2> QED BY <2>1, LnDrops
<1>2. CASE englishArrives(r) /\ requestIsCurrent(r)
 <2>1. PICK english : lnJobs' = [lnJobs EXCEPT !.requests = (@ \ {r}) \cup {[r EXCEPT !.stage = "texts", !.english = english]}]
   BY <1>2, Zenon DEF englishArrives
 <2> DEFINE q == [r EXCEPT !.stage = "texts", !.english = english]
 <2>2. /\ r.stage \notin Rendering /\ UNCHANGED <<lnPage, lnServer, lnCounts>>
   BY <1>2, Zenon DEF englishArrives, Rendering, Rest
 <2>3. DOMAIN q = LnRequestNames /\ q.n = r.n /\ q.lang = r.lang /\ q.stage = "texts" BY SMT DEF LnSound, LnTyped, LnRequestNames
 <2>4. lnJobs' = [lnJobs EXCEPT !.requests = (@ \ {r}) \cup {q}] BY <2>1
 <2> HIDE DEF q
 <2>5. "texts" # "queued" OBVIOUS
 <2> QED BY <2>2, <2>3, <2>4, <2>5, LnAdvances
<1>3. CASE textsArrive(r) /\ requestIsCurrent(r)
 <2> DEFINE q == [r EXCEPT !.stage = "queued", !.texts = Text(r.lang, lnServer.text[r.lang])]
 <2>2. /\ r.stage \notin Rendering /\ UNCHANGED <<lnPage, lnServer, lnCounts>>
       /\ lnJobs' = [lnJobs EXCEPT !.requests = (@ \ {r}) \cup {q}]
   BY <1>3, Zenon DEF textsArrive, Rendering, Rest
 <2>3. /\ DOMAIN q = LnRequestNames /\ q.n = r.n /\ q.lang = r.lang /\ q.stage = "queued"
       /\ q.texts = Text(r.lang, lnServer.text[r.lang]) BY SMT DEF LnSound, LnTyped, LnRequestNames
 <2> HIDE DEF q
 <2> QED BY <2>2, <2>3, LnAdvances
<1>4. CASE languageUnknown(r) /\ requestIsCurrent(r)
 <2>1. /\ r.stage \notin Rendering /\ UNCHANGED <<lnPage, lnServer>>
       /\ lnCounts' = [lnCounts EXCEPT !.newest = @ + 1, !.wanted = "en"]
       /\ lnJobs' = [lnJobs EXCEPT !.requests = Fetch(@ \ {r}, "en", lnCounts.newest + 1)]
   BY <1>4, Zenon DEF languageUnknown, Rendering, Rest
 <2>2. /\ DOMAIN lnCounts' = DOMAIN lnCounts /\ lnCounts'.newest = lnCounts.newest + 1 /\ lnCounts'.wanted = "en"
       /\ lnCounts'.failed \in BOOLEAN BY <2>1, SMT DEF LnSound, LnTyped
 <2>3. lnJobs' = [lnJobs EXCEPT !.requests = Fetch(lnJobs.requests \ {r}, "en", lnCounts.newest + 1)] BY <2>1
 <2>4. "en" \in Languages BY DEF Languages
 <2>5. /\ lnJobs.requests \ {r} \in SUBSET lnJobs.requests
       /\ \A s \in lnJobs.requests \ (lnJobs.requests \ {r}) : s.stage \notin Rendering BY <2>1
 <2> QED BY <2>1, <2>2, <2>3, <2>4, <2>5, LnChooses
<1>5. CASE textsFail(r)
 <2>1. /\ r.stage \notin Rendering /\ UNCHANGED <<lnPage, lnServer>> /\ Dropped(r)
       /\ lnCounts' = [lnCounts EXCEPT !.failed = @ \/ requestIsCurrent(r)]
   BY <1>5, Zenon DEF textsFail, Rendering, Rest
 <2>2. CASE requestIsCurrent(r)
  <3>1. lnCounts' = [lnCounts EXCEPT !.failed = TRUE] BY <2>1, <2>2, Zenon
  <3> QED BY <2>1, <3>1, LnDrops
 <2>3. CASE ~requestIsCurrent(r)
  <3>1. lnCounts' = [lnCounts EXCEPT !.failed = lnCounts.failed] BY <2>1, <2>3, Zenon DEF LnSound, LnTyped
  <3> QED BY <2>1, <2>3, <3>1, LnDrops DEF requestIsCurrent
 <2> QED BY <2>2, <2>3
<1> QED BY <1>1, <1>2, <1>3, <1>4, <1>5

\* What rendering does: the page in the language of the newest request, part after part.
LEMMA LnRenderStep ==
  ASSUME LnSound, NEW r \in lnJobs.requests,
         translateElements(r) \/ refreshCardLanguages(r) \/ refreshLocalizedDatasetValues(r)
  PROVE  LnSound'
<1>1. CASE translateElements(r) /\ ~requestIsCurrent(r)
 <2>1. /\ r.stage \notin Rendering /\ UNCHANGED <<lnPage, lnServer, lnCounts>> /\ r.n # lnCounts.newest /\ Dropped(r)
   BY <1>1, Zenon DEF translateElements, Rendering, Rest, requestIsCurrent
 <2> QED BY <2>1, LnDrops
<1>2. CASE translateElements(r) /\ requestIsCurrent(r)
 <2> DEFINE p == [lnPage EXCEPT !.english = r.english, !.texts = r.texts, !.current = r.lang,
                                !.missing = FALSE, !.observing = TRUE]
            q == [r EXCEPT !.stage = "cards"]
 <2>1. /\ UNCHANGED <<lnServer, lnCounts>> /\ r.n = lnCounts.newest /\ r.stage = "queued"
       /\ \A s \in lnJobs.requests : s.stage \notin Rendering
       /\ lnPage' = Translated(p) /\ lnJobs' = [lnJobs EXCEPT !.requests = (lnJobs.requests \ {r}) \cup {q}]
   BY <1>2, Zenon DEF translateElements, Rest, Step, requestIsCurrent
 <2>2. /\ DOMAIN p = LnPageNames /\ p.english = r.english /\ p.texts = r.texts /\ p.current = r.lang /\ p.observing
       /\ p.shown = lnPage.shown /\ p.cards = lnPage.cards /\ p.values = lnPage.values /\ p.spoiled = lnPage.spoiled
   BY SMT DEF LnSound, LnTyped, LnPageNames
 <2>3. /\ DOMAIN q = LnRequestNames /\ q.n = r.n /\ q.lang = r.lang /\ q.stage = "cards"
   BY SMT DEF LnSound, LnTyped, LnRequestNames
 <2> HIDE DEF p, q
 <2>4. /\ DOMAIN lnPage' = LnPageNames
       /\ \A f \in LnPageNames \ {"shown", "missing"} : lnPage'[f] = p[f]
       /\ p.shown = NotThere => lnPage'.shown = NotThere
       /\ p.shown # NotThere => lnPage'.shown = BestText(p.texts, p.english)
   BY <2>1, <2>2, LnTranslatedIs, Zenon
 <2>5. /\ lnPage'.english = p.english /\ lnPage'.texts = p.texts /\ lnPage'.current = r.lang /\ lnPage'.observing
       /\ lnPage'.cards = lnPage.cards /\ lnPage'.values = lnPage.values /\ lnPage'.spoiled = lnPage.spoiled
       /\ lnPage'.texts = r.texts BY <2>2, <2>4, SMT DEF LnPageNames
 <2>6. /\ lnJobs'.requests = (lnJobs.requests \ {r}) \cup {q} /\ lnJobs'.saves = lnJobs.saves
       /\ DOMAIN lnJobs' = DOMAIN lnJobs BY <2>1, SMT DEF LnSound, LnTyped
 <2> USE DEF LnSound
 <2>7. LnTyped' BY <2>1, <2>3, <2>4, <2>5, <2>6, Zenon DEF LnTyped
 <2>8. LnWanted' BY <2>1, <2>3, <2>5, <2>6, Zenon DEF LnWanted
 <2>9. LnRenders' BY <2>1, <2>3, <2>5, <2>6, SMT DEF LnRenders, Rendering
 <2>10. LnElements' BY <2>4, <2>5, Zenon DEF LnElements
 <2>11. LnFresh' BY <2>1, <2>3, <2>5, <2>6, SMT DEF LnFresh
 <2> QED BY <2>7, <2>8, <2>9, <2>10, <2>11
<1>3. CASE refreshCardLanguages(r)
 <2> DEFINE q == [r EXCEPT !.stage = "values"]
 <2>1. /\ UNCHANGED <<lnServer, lnCounts>> /\ r.stage = "cards" /\ lnPage' = [lnPage EXCEPT !.cards = r.lang]
       /\ lnJobs' = [lnJobs EXCEPT !.requests = (lnJobs.requests \ {r}) \cup {q}]
   BY <1>3, Zenon DEF refreshCardLanguages, Rest, Step
 <2>2. /\ DOMAIN lnPage' = LnPageNames /\ lnPage'.cards = r.lang /\ lnPage'.spoiled = lnPage.spoiled
       /\ lnPage'.current = lnPage.current /\ lnPage'.observing = lnPage.observing /\ lnPage'.texts = lnPage.texts
       /\ lnPage'.english = lnPage.english /\ lnPage'.shown = lnPage.shown
   BY <2>1, SMT DEF LnSound, LnTyped, LnPageNames
 <2>3. /\ DOMAIN q = LnRequestNames /\ q.n = r.n /\ q.lang = r.lang /\ q.stage = "values"
   BY SMT DEF LnSound, LnTyped, LnRequestNames
 <2> HIDE DEF q
 <2>6. /\ lnJobs'.requests = (lnJobs.requests \ {r}) \cup {q} /\ lnJobs'.saves = lnJobs.saves
       /\ DOMAIN lnJobs' = DOMAIN lnJobs BY <2>1, SMT DEF LnSound, LnTyped
 <2> USE DEF LnSound
 <2>7. LnTyped' BY <2>1, <2>2, <2>3, <2>6, Zenon DEF LnTyped
 <2>8. LnWanted' BY <2>1, <2>2, <2>3, <2>6, Zenon DEF LnWanted
 <2>9. LnRenders'
  <3>1. r.lang = lnPage.current BY <2>1, SMT DEF LnRenders, Rendering
  <3>2. \A s \in lnJobs.requests \ {r} : s.stage \notin Rendering BY <2>1, SMT DEF LnRenders, Rendering
  <3> QED BY <3>1, <3>2, <2>2, <2>3, <2>6, SMT DEF LnRenders, Rendering
 <2>10. LnElements' BY <2>2, Zenon DEF LnElements
 <2>11. LnFresh' BY <2>1, <2>2, <2>3, <2>6, SMT DEF LnFresh
 <2> QED BY <2>7, <2>8, <2>9, <2>10, <2>11
<1>4. CASE refreshLocalizedDatasetValues(r)
 <2>0. PICK editable : lnPage' = [lnPage EXCEPT !.values = r.lang, !.editable = editable]
   BY <1>4, Zenon DEF refreshLocalizedDatasetValues
 <2>1. /\ UNCHANGED <<lnServer, lnCounts>> /\ r.stage = "values" /\ Dropped(r)
   BY <1>4, Zenon DEF refreshLocalizedDatasetValues, Rest
 <2>2. /\ DOMAIN lnPage' = LnPageNames /\ lnPage'.values = r.lang /\ lnPage'.spoiled = lnPage.spoiled
       /\ lnPage'.current = lnPage.current /\ lnPage'.observing = lnPage.observing /\ lnPage'.texts = lnPage.texts
       /\ lnPage'.english = lnPage.english /\ lnPage'.shown = lnPage.shown /\ lnPage'.cards = lnPage.cards
   BY <2>0, SMT DEF LnSound, LnTyped, LnPageNames
 <2>6. /\ lnJobs'.requests = lnJobs.requests \ {r} /\ lnJobs'.saves = lnJobs.saves /\ DOMAIN lnJobs' = DOMAIN lnJobs
   BY <2>1, SMT DEF LnSound, LnTyped, Dropped
 <2> USE DEF LnSound
 <2>7. LnTyped' BY <2>1, <2>2, <2>6, Zenon DEF LnTyped
 <2>3. r.lang = lnPage.current /\ lnPage.cards = lnPage.current BY <2>1, SMT DEF LnRenders, Rendering
 <2>8. LnWanted' BY <2>1, <2>2, <2>3, <2>6, Zenon DEF LnWanted
 <2>9. LnRenders'
  <3>2. \A s \in lnJobs.requests \ {r} : s.stage \notin Rendering BY <2>1, SMT DEF LnRenders, Rendering
  <3> QED BY <3>2, <2>2, <2>3, <2>6, SMT DEF LnRenders, Rendering
 <2>10. LnElements' BY <2>2, Zenon DEF LnElements
 <2>11. LnFresh' BY <2>1, <2>2, <2>6, SMT DEF LnFresh
 <2> QED BY <2>7, <2>8, <2>9, <2>10, <2>11
<1> QED BY <1>1, <1>2, <1>3, <1>4

\* A step that leaves the requests, the texts and what is being saved alone, and translates the page at most.
LEMMA LnKeeps ==
  ASSUME LnSound, lnJobs'.requests = lnJobs.requests, lnJobs'.saves = lnJobs.saves, DOMAIN lnJobs' = DOMAIN lnJobs,
         DOMAIN lnCounts' = DOMAIN lnCounts, lnCounts'.newest = lnCounts.newest, lnCounts'.wanted = lnCounts.wanted,
         lnCounts'.failed = lnCounts.failed, UNCHANGED lnServer, DOMAIN lnPage' = LnPageNames,
         \A f \in LnPageNames \ {"shown", "missing", "suppressed"} : lnPage'[f] = lnPage[f],
         lnPage'.shown = lnPage.shown \/ lnPage'.shown = BestText(lnPage.texts, lnPage.english) \/ ~lnPage.observing
  PROVE  LnSound'
<1> USE DEF LnSound
<1>1. /\ lnPage'.spoiled = lnPage.spoiled /\ lnPage'.current = lnPage.current /\ lnPage'.texts = lnPage.texts
      /\ lnPage'.english = lnPage.english /\ lnPage'.cards = lnPage.cards /\ lnPage'.values = lnPage.values
      /\ lnPage'.observing = lnPage.observing BY SMT DEF LnPageNames
<1>2. LnTyped' BY <1>1, Zenon DEF LnTyped
<1>3. LnWanted' BY <1>1, Zenon DEF LnWanted
<1>4. LnRenders' BY <1>1, Zenon DEF LnRenders
<1>5. LnElements' BY <1>1, Zenon DEF LnElements
<1>6. LnFresh' BY <1>1, Zenon DEF LnFresh
<1> QED BY <1>2, <1>3, <1>4, <1>5, <1>6

LEMMA LnObserverStep ==
  ASSUME LnSound, observeDomChanges
  PROVE  LnSound'
<1> DEFINE p == [lnPage EXCEPT !.shown = Untranslated]
           t == Translated(p)
<1>1. /\ UNCHANGED lnServer /\ lnCounts' = [lnCounts EXCEPT !.inputs = @ + 1]
      /\ lnJobs' = [lnJobs EXCEPT !.ai = "timer"] \/ UNCHANGED lnJobs
      /\ \/ lnPage.observing /\ (lnPage' = t \/ lnPage' = [t EXCEPT !.missing = FALSE])
         \/ ~lnPage.observing /\ lnPage' = p BY Zenon DEF observeDomChanges, Rest
<1>2. DOMAIN p = LnPageNames /\ (\A f \in LnPageNames \ {"shown"} : p[f] = lnPage[f]) /\ p.shown = Untranslated
      /\ p.texts = lnPage.texts /\ p.english = lnPage.english BY SMT DEF LnSound, LnTyped, LnPageNames
<1>3. Untranslated # NotThere BY SMT DEF Untranslated, NotThere
<1> HIDE DEF p
<1>4. /\ DOMAIN t = LnPageNames /\ (\A f \in LnPageNames \ {"shown", "missing"} : t[f] = lnPage[f])
      /\ t.shown = BestText(lnPage.texts, lnPage.english) BY <1>2, <1>3, LnTranslatedIs, Zenon
<1> HIDE DEF t
<1>5. /\ DOMAIN lnPage' = LnPageNames /\ (\A f \in LnPageNames \ {"shown", "missing", "suppressed"} : lnPage'[f] = lnPage[f])
      /\ lnPage'.shown = BestText(lnPage.texts, lnPage.english) \/ ~lnPage.observing
  BY <1>1, <1>2, <1>4, SMT DEF LnPageNames
<1>6. /\ lnJobs'.requests = lnJobs.requests /\ lnJobs'.saves = lnJobs.saves /\ DOMAIN lnJobs' = DOMAIN lnJobs
      /\ DOMAIN lnCounts' = DOMAIN lnCounts /\ lnCounts'.newest = lnCounts.newest /\ lnCounts'.wanted = lnCounts.wanted
      /\ lnCounts'.failed = lnCounts.failed BY <1>1, SMT DEF LnSound, LnTyped
<1> QED BY <1>1, <1>5, <1>6, LnKeeps

\* The AI's timer and failure, and the editor until it is saved: what LnSound speaks of stays.
LEMMA LnAsideStep ==
  ASSUME LnSound, \/ aiTimer \/ aiFails \/ openEditor \/ editorOpens \/ fillEmptyFields \/ \E l \in Generated : writeField(l)
  PROVE  LnSound'
<1>1. /\ UNCHANGED lnServer
      /\ lnCounts' = lnCounts \/ lnCounts' = [lnCounts EXCEPT !.inputs = @ + 1]
  BY Zenon DEF aiTimer, aiFails, openEditor, editorOpens, fillEmptyFields, writeField, Rest
<1>2. \/ lnPage' = lnPage \/ lnPage' = [lnPage EXCEPT !.missing = FALSE]
      \/ lnPage' = [lnPage EXCEPT !.suppressed = @ \cup {lnPage.current}]
 <2>1. CASE aiFails BY <2>1, SMT DEF aiFails
 <2>2. CASE aiTimer BY <2>2, Zenon DEF aiTimer
 <2>3. CASE openEditor \/ editorOpens \/ fillEmptyFields \/ \E l \in Generated : writeField(l)
   BY <2>3, Zenon DEF openEditor, editorOpens, fillEmptyFields, writeField
 <2> QED BY <2>1, <2>2, <2>3
<1>3. lnJobs'.requests = lnJobs.requests /\ lnJobs'.saves = lnJobs.saves /\ DOMAIN lnJobs' = DOMAIN lnJobs
 <2>1. CASE aiTimer
  <3>1. PICK ai : lnJobs' = [lnJobs EXCEPT !.ai = ai] BY <2>1, Zenon DEF aiTimer
  <3> QED BY <3>1, SMT DEF LnSound, LnTyped
 <2>2. CASE aiFails BY <2>2, SMT DEF aiFails, LnSound, LnTyped
 <2>3. CASE openEditor BY <2>3, SMT DEF openEditor, LnSound, LnTyped
 <2>4. CASE editorOpens
  <3>1. PICK editor : lnJobs' = [lnJobs EXCEPT !.opening = @ - 1, !.editor = editor] BY <2>4, Zenon DEF editorOpens
  <3> QED BY <3>1, SMT DEF LnSound, LnTyped
 <2>5. CASE fillEmptyFields BY <2>5, SMT DEF fillEmptyFields, LnSound, LnTyped
 <2>6. CASE \E l \in Generated : writeField(l) BY <2>6, SMT DEF writeField, LnSound, LnTyped
 <2> QED BY <2>1, <2>2, <2>3, <2>4, <2>5, <2>6
<1>4. /\ DOMAIN lnPage' = LnPageNames /\ (\A f \in LnPageNames \ {"shown", "missing", "suppressed"} : lnPage'[f] = lnPage[f])
      /\ lnPage'.shown = lnPage.shown BY <1>2, SMT DEF LnPageNames, LnSound, LnTyped
<1>5. /\ DOMAIN lnCounts' = DOMAIN lnCounts /\ lnCounts'.newest = lnCounts.newest /\ lnCounts'.wanted = lnCounts.wanted
      /\ lnCounts'.failed = lnCounts.failed BY <1>1, SMT DEF LnSound, LnTyped
<1> QED BY <1>1, <1>3, <1>4, <1>5, LnKeeps

\* The texts stored change: those in memory with them, unless a request or a save was under way.
LEMMA LnAnswersStep ==
  ASSUME LnSound, aiAnswers
  PROVE  LnSound'
<1>0. PICK texts : texts = Text(IF lnPage.current \in Generated THEN lnPage.current ELSE "en", "new") OBVIOUS
<1> DEFINE p == [lnPage EXCEPT !.texts = texts]
           t == Translated(p)
<1>1. PICK spoiled \in BOOLEAN : spoiled = (lnPage.spoiled \/ lnJobs.requests # {} \/ lnJobs.saves # {}
                                        \/ (lnPage.current \in Generated /\ lnServer.text[lnPage.current] # "none")) BY Zenon
<1>2. /\ UNCHANGED lnCounts /\ lnJobs' = [lnJobs EXCEPT !.ai = "done"]
      /\ lnServer' = AiTextsStored BY SMT DEF aiAnswers
<1>3. t.spoiled = lnPage.spoiled => lnPage' = [t EXCEPT !.missing = lnPage.missing, !.spoiled = spoiled]
  BY <1>0, <1>1, Zenon DEF aiAnswers
<1>4. DOMAIN p = LnPageNames /\ (\A f \in LnPageNames \ {"texts"} : p[f] = lnPage[f]) /\ p.texts = texts
      /\ p.shown = lnPage.shown BY SMT DEF LnSound, LnTyped, LnPageNames
<1> HIDE DEF p
<1>5. /\ DOMAIN t = LnPageNames /\ (\A f \in LnPageNames \ {"shown", "missing"} : t[f] = p[f])
      /\ lnPage.shown = NotThere => t.shown = NotThere
      /\ lnPage.shown # NotThere => t.shown = BestText(p.texts, p.english) BY <1>4, LnTranslatedIs, Zenon
<1> HIDE DEF t
<1>6. t.spoiled = lnPage.spoiled BY <1>4, <1>5, SMT DEF LnPageNames
<1>t. /\ t.current = lnPage.current /\ t.texts = texts /\ t.english = lnPage.english
      /\ t.cards = lnPage.cards /\ t.values = lnPage.values /\ t.observing = lnPage.observing
      /\ p.texts = texts /\ p.english = lnPage.english BY <1>4, <1>5, SMT DEF LnPageNames
<1>7. /\ DOMAIN lnPage' = LnPageNames /\ lnPage'.spoiled = spoiled /\ lnPage'.shown = t.shown
      /\ lnPage'.current = lnPage.current /\ lnPage'.texts = texts /\ lnPage'.english = lnPage.english
      /\ lnPage'.cards = lnPage.cards /\ lnPage'.values = lnPage.values /\ lnPage'.observing = lnPage.observing
 <2>1. lnPage' = [t EXCEPT !.missing = lnPage.missing, !.spoiled = spoiled] /\ DOMAIN t = LnPageNames BY <1>3, <1>5, <1>6
 <2>2. /\ DOMAIN lnPage' = LnPageNames /\ lnPage'.spoiled = spoiled /\ lnPage'.shown = t.shown
       /\ lnPage'.current = t.current /\ lnPage'.texts = t.texts /\ lnPage'.english = t.english
       /\ lnPage'.cards = t.cards /\ lnPage'.values = t.values /\ lnPage'.observing = t.observing
   BY <2>1, SMT DEF LnPageNames
 <2> QED BY <1>t, <2>2
<1>8. /\ lnJobs'.requests = lnJobs.requests /\ lnJobs'.saves = lnJobs.saves /\ DOMAIN lnJobs' = DOMAIN lnJobs
      /\ DOMAIN lnServer' = DOMAIN lnServer /\ DOMAIN lnServer'.text = Languages
      /\ \A l \in Generated : lnServer.text[l] = "none" => lnServer'.text[l] = "new"
  BY <1>2, SMT DEF LnSound, LnTyped, Generated, Languages, AiTextsStored
<1> USE DEF LnSound
<1>9. LnTyped' BY <1>2, <1>7, <1>8, Zenon DEF LnTyped
<1>10. LnWanted' BY <1>2, <1>7, <1>8, Zenon DEF LnWanted
<1>11. LnRenders' BY <1>2, <1>7, <1>8, Zenon DEF LnRenders
<1>12. LnElements' BY <1>t, <1>5, <1>7, Zenon DEF LnElements
<1>13. LnFresh' BY <1>0, <1>1, <1>7, <1>8, Zenon DEF LnFresh
<1> QED BY <1>9, <1>10, <1>11, <1>12, <1>13

LEMMA LnAnswerLostStep ==
  ASSUME LnSound, aiAnswerLost
  PROVE  LnSound'
<1>1. /\ UNCHANGED lnCounts /\ lnJobs' = [lnJobs EXCEPT !.ai = "done"]
      /\ lnServer' = AiTextsStored /\ lnPage' = [lnPage EXCEPT !.spoiled = TRUE] BY Zenon DEF aiAnswerLost
<1>2. /\ DOMAIN lnPage' = LnPageNames /\ lnPage'.spoiled = TRUE /\ lnPage'.shown = lnPage.shown
      /\ lnPage'.current = lnPage.current /\ lnPage'.texts = lnPage.texts /\ lnPage'.english = lnPage.english
      /\ lnPage'.cards = lnPage.cards /\ lnPage'.values = lnPage.values /\ lnPage'.observing = lnPage.observing
  BY <1>1, SMT DEF LnPageNames, LnSound, LnTyped
<1>3. /\ lnJobs'.requests = lnJobs.requests /\ lnJobs'.saves = lnJobs.saves /\ DOMAIN lnJobs' = DOMAIN lnJobs
      /\ DOMAIN lnServer' = DOMAIN lnServer /\ DOMAIN lnServer'.text = Languages
  BY <1>1, SMT DEF LnSound, LnTyped, Generated, Languages, AiTextsStored
<1> USE DEF LnSound
<1>4. LnTyped' BY <1>1, <1>2, <1>3, Zenon DEF LnTyped
<1>5. LnWanted' BY <1>1, <1>2, <1>3, Zenon DEF LnWanted
<1>6. LnRenders' BY <1>1, <1>2, <1>3, Zenon DEF LnRenders
<1>7. LnElements' BY <1>1, <1>2, <1>3, Zenon DEF LnElements
<1>8. LnFresh' BY <1>2, Zenon DEF LnFresh
<1> QED BY <1>4, <1>5, <1>6, <1>7, <1>8

LEMMA LnSaveStep ==
  ASSUME LnSound, saveEditor
  PROVE  LnSound'
<1>1. PICK spoiled \in BOOLEAN : spoiled = (lnPage.spoiled \/ lnJobs.saves # {} \/ lnJobs.ai = "asked") BY Zenon
<1>2. PICK fields : fields = lnJobs.editor.fields OBVIOUS
<1>3. /\ UNCHANGED lnCounts /\ lnJobs' = [lnJobs EXCEPT !.saves = lnJobs.saves \cup {fields}]
      /\ lnServer' = [lnServer EXCEPT !.text = [l \in Languages |-> IF l \in Generated THEN fields[l] ELSE lnServer.text[l]]]
  BY <1>2, SMT DEF saveEditor
<1>4. lnPage' = [lnPage EXCEPT !.spoiled = spoiled] BY <1>1, Zenon DEF saveEditor
<1>5. /\ DOMAIN lnPage' = LnPageNames /\ lnPage'.spoiled = spoiled /\ lnPage'.shown = lnPage.shown
      /\ lnPage'.current = lnPage.current /\ lnPage'.texts = lnPage.texts /\ lnPage'.english = lnPage.english
      /\ lnPage'.cards = lnPage.cards /\ lnPage'.values = lnPage.values /\ lnPage'.observing = lnPage.observing
  BY <1>4, SMT DEF LnPageNames, LnSound, LnTyped
<1>6. /\ lnJobs'.requests = lnJobs.requests /\ lnJobs'.saves = lnJobs.saves \cup {fields} /\ DOMAIN lnJobs' = DOMAIN lnJobs
      /\ DOMAIN lnServer' = DOMAIN lnServer /\ DOMAIN lnServer'.text = Languages
      /\ \A l \in Generated : lnServer'.text[l] = fields[l]
  BY <1>3, SMT DEF LnSound, LnTyped, Generated, Languages
<1> USE DEF LnSound
<1>9. LnTyped' BY <1>3, <1>5, <1>6, Zenon DEF LnTyped
<1>10. LnWanted' BY <1>3, <1>5, <1>6, Zenon DEF LnWanted
<1>11. LnRenders' BY <1>5, <1>6, Zenon DEF LnRenders
<1>12. LnElements' BY <1>5, Zenon DEF LnElements
<1>13. LnFresh'
 <2>1. CASE spoiled BY <2>1, <1>5, Zenon DEF LnFresh
 <2>2. CASE ~spoiled
  <3>1. lnJobs.saves = {} BY <1>1, <2>2
  <3>2. lnJobs'.saves = {fields} BY <1>6, <3>1
  <3> QED BY <1>6, <3>2, Zenon DEF LnFresh
 <2> QED BY <2>1, <2>2
<1> QED BY <1>9, <1>10, <1>11, <1>12, <1>13

LEMMA LnSavedStep ==
  ASSUME LnSound, NEW f \in lnJobs.saves, editorSaved(f)
  PROVE  LnSound'
<1>1. UNCHANGED <<lnCounts, lnServer>> /\ lnJobs' = [lnJobs EXCEPT !.editor = NoTextEditor, !.saves = lnJobs.saves \ {f}]
  BY Zenon DEF editorSaved, Rest
<1>2. lnJobs'.requests = lnJobs.requests /\ lnJobs'.saves = lnJobs.saves \ {f} /\ DOMAIN lnJobs' = DOMAIN lnJobs
  BY <1>1, SMT DEF LnSound, LnTyped
<1> USE DEF LnSound
<1>3. CASE lnJobs.requests # {}
 <2>1. lnPage' = [lnPage EXCEPT !.spoiled = TRUE] BY <1>3, Zenon DEF editorSaved
 <2>2. /\ DOMAIN lnPage' = LnPageNames /\ lnPage'.spoiled = TRUE /\ lnPage'.shown = lnPage.shown
       /\ lnPage'.current = lnPage.current /\ lnPage'.texts = lnPage.texts /\ lnPage'.english = lnPage.english
       /\ lnPage'.cards = lnPage.cards /\ lnPage'.values = lnPage.values /\ lnPage'.observing = lnPage.observing
   BY <2>1, SMT DEF LnPageNames, LnSound, LnTyped
 <2>3. LnTyped' BY <1>1, <1>2, <2>2, Zenon DEF LnTyped
 <2>4. LnWanted' BY <1>1, <1>2, <2>2, Zenon DEF LnWanted
 <2>5. LnRenders' BY <1>2, <2>2, Zenon DEF LnRenders
 <2>6. LnElements' BY <2>2, Zenon DEF LnElements
 <2>7. LnFresh' BY <2>2, Zenon DEF LnFresh
 <2> QED BY <2>3, <2>4, <2>5, <2>6, <2>7
<1>4. CASE lnJobs.requests = {}
 <2>0. PICK texts : texts = IF lnPage.current \in Generated THEN Text(lnPage.current, f[lnPage.current]) ELSE lnPage.texts OBVIOUS
 <2> DEFINE p == [lnPage EXCEPT !.texts = texts, !.english = Text("en", f["en"])]
 <2>1. lnPage' = Translated(p) BY <1>4, <2>0, Zenon DEF editorSaved
 <2>e. PICK english : english = Text("en", f["en"]) OBVIOUS
 <2>p. p = [lnPage EXCEPT !.texts = texts, !.english = english] BY <2>e
 <2> HIDE DEF p
 <2>2. DOMAIN p = LnPageNames /\ p.texts = texts /\ p.shown = lnPage.shown /\ p.spoiled = lnPage.spoiled
       /\ p.current = lnPage.current /\ p.cards = lnPage.cards /\ p.values = lnPage.values
       /\ p.observing = lnPage.observing BY <2>p, SMT DEF LnSound, LnTyped, LnPageNames
 <2>3. /\ DOMAIN lnPage' = LnPageNames /\ (\A g \in LnPageNames \ {"shown", "missing"} : lnPage'[g] = p[g])
       /\ lnPage.shown = NotThere => lnPage'.shown = NotThere
       /\ lnPage.shown # NotThere => lnPage'.shown = BestText(p.texts, p.english)
   BY <2>1, <2>2, LnTranslatedIs, Zenon
 <2>4. /\ lnPage'.spoiled = lnPage.spoiled /\ lnPage'.current = lnPage.current /\ lnPage'.texts = texts
       /\ lnPage'.cards = lnPage.cards /\ lnPage'.values = lnPage.values /\ lnPage'.observing = lnPage.observing
       /\ p.texts = lnPage'.texts /\ p.english = lnPage'.english BY <2>2, <2>3, SMT DEF LnPageNames
 <2>5. LnTyped' BY <1>1, <1>2, <2>3, <2>4, Zenon DEF LnTyped
 <2>6. LnWanted' BY <1>1, <1>2, <2>4, Zenon DEF LnWanted
 <2>7. LnRenders' BY <1>2, <2>4, Zenon DEF LnRenders
 <2>8. LnElements' BY <2>3, <2>4, Zenon DEF LnElements
 <2>9. LnFresh' BY <1>1, <1>2, <1>4, <2>0, <2>4, SMT DEF LnFresh
 <2> QED BY <2>5, <2>6, <2>7, <2>8, <2>9
<1> QED BY <1>3, <1>4

LEMMA LnSteps == LnSound /\ [LnNext]_lnVars => LnSound'
<1> SUFFICES ASSUME LnSound, [LnNext]_lnVars PROVE LnSound' OBVIOUS
<1>1. ASSUME NEW l \in Languages, setLanguage(l) PROVE LnSound'
 <2>1. /\ UNCHANGED <<lnPage, lnServer>> /\ lnJobs' = [lnJobs EXCEPT !.requests = Fetch(lnJobs.requests, l, lnCounts.newest + 1)]
       /\ lnCounts' = [lnCounts EXCEPT !.choices = @ + 1, !.newest = @ + 1, !.wanted = l, !.failed = FALSE]
   BY <1>1, Zenon DEF setLanguage, Rest
 <2>2. /\ DOMAIN lnCounts' = DOMAIN lnCounts /\ lnCounts'.newest = lnCounts.newest + 1 /\ lnCounts'.wanted = l
       /\ lnCounts'.failed \in BOOLEAN BY <2>1, SMT DEF LnSound, LnTyped
 <2> QED BY <2>1, <2>2, LnChooses
<1>2. ASSUME NEW r \in lnJobs.requests,
             \/ englishArrives(r) \/ textsArrive(r) \/ languageUnknown(r) \/ textsFail(r)
             \/ translateElements(r) \/ refreshCardLanguages(r) \/ refreshLocalizedDatasetValues(r)
      PROVE  LnSound' BY <1>2, LnRequestsStep, LnRenderStep
<1>3. CASE observeDomChanges BY <1>3, LnObserverStep
<1>4. CASE \/ aiTimer \/ aiFails \/ openEditor \/ editorOpens \/ fillEmptyFields \/ \E l \in Generated : writeField(l)
  BY <1>4, LnAsideStep
<1>5. CASE aiAnswers \/ aiAnswerLost BY <1>5, LnAnswersStep, LnAnswerLostStep
<1>6. CASE saveEditor BY <1>6, LnSaveStep
<1>7. ASSUME NEW f \in lnJobs.saves, editorSaved(f) PROVE LnSound' BY <1>7, LnSavedStep
<1>8. CASE UNCHANGED lnVars
 <2>1. UNCHANGED <<lnPage, lnServer, lnJobs, lnCounts>> BY <1>8 DEF lnVars
 <2> QED BY <2>1, Zenon DEF LnSound, LnTyped, LnWanted, LnRenders, LnElements, LnFresh
<1> QED BY <1>1, <1>2, <1>3, <1>4, <1>5, <1>6, <1>7, <1>8, Zenon DEF LnNext

\* With nothing under way the page is in the language chosen last, in its texts and in all its parts,
\* and the texts are those stored.
THEOREM LnShowsTheChosen == LnSpec => []LnShownAsChosen
<1>1. LnSound => LnShownAsChosen
 <2> SUFFICES ASSUME LnSound, lnJobs.requests = {}
     PROVE  /\ lnCounts.failed \/ lnPage.current = lnCounts.wanted
            /\ lnPage.cards = lnPage.current /\ lnPage.values = lnPage.current
            /\ (lnPage.observing /\ lnPage.shown # NotThere) => lnPage.shown = BestText(lnPage.texts, lnPage.english)
            /\ (~lnPage.spoiled /\ lnPage.observing /\ lnPage.current \in Generated /\ lnJobs.saves = {})
                 => lnPage.texts = Text(lnPage.current, lnServer.text[lnPage.current]) BY DEF LnShownAsChosen
 <2> QED BY Zenon DEF LnSound, LnWanted, LnRenders, LnElements, LnFresh
<1> QED BY <1>1, LnInitSound, LnSteps, PTL DEF LnSpec
=============================================================================
