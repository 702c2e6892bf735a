------------------------------ MODULE Payments ------------------------------
(***************************************************************************)
(* The payment gateway: orders made at the payment provider, the payment   *)
(* rows kept for them, and the callback that tells an application that its *)
(* payment has completed.                                                  *)
(*                                                                         *)
(* A row learns of the provider's state in two ways: by the webhooks the   *)
(* provider sends, which come late, twice or out of order and are repeated *)
(* until they are answered with 2xx, and by a status request of the        *)
(* application, which polls the provider.  Every SQL statement is a        *)
(* transaction of its own, so the handlers interleave between statements.  *)
(***************************************************************************)
EXTENDS Naturals, FiniteSets, TLAPS

CONSTANTS
  Orders,
  NoOrder,
  Claimants,    \* the orders whose application registered a callback target
  Handlers,     \* the goroutines that serve webhooks and status requests
  EarlyEvents,  \* can the provider's order move before its row is inserted?
  MaxCrashes    \* bound: how often the process may die

ASSUME PaymentsAssumption ==
  /\ NoOrder \notin Orders
  /\ Claimants \subseteq Orders
  /\ EarlyEvents \in BOOLEAN
  /\ MaxCrashes \in Nat

VARIABLES
  \* the provider
  providerState, \* the state of each order, "none" before it is made
  outbox,        \* the events of each order not yet answered with 2xx
  \* the payments table
  status,        \* the status of the row, "none" when there is no row
  paidAt,        \* is paid_at set?
  \* the application
  told,          \* has it accepted the completed callback?
  \* the gateway
  creating,      \* how far CreatePayment has come with each order
  handler,       \* what each goroutine is doing
  crashes

providerVars == <<providerState, outbox>>
rowVars == <<status, paidAt>>
vars == <<providerVars, rowVars, told, creating, handler, crashes>>

Terminal == {"completed", "failed", "cancelled"}
Event == {"authorised"} \cup Terminal
Status == {"none", "pending"} \cup Event
Place == {"idle", "update", "load", "callback", "poll", "ok", "failed"}
Job == [kind : {"none", "webhook", "get"}, at : Place,
        order : Orders \cup {NoOrder}, asked : Status, shown : Status]
Idle == [kind |-> "none", at |-> "idle", order |-> NoOrder,
         asked |-> "none", shown |-> "none"]

TypeOK ==
  /\ providerState \in [Orders -> Status]
  /\ outbox \in [Orders -> SUBSET Event]
  /\ status \in [Orders -> Status]
  /\ paidAt \in [Orders -> BOOLEAN]
  /\ told \in [Orders -> BOOLEAN]
  /\ creating \in [Orders -> {"new", "ordered", "returned", "failed"}]
  /\ handler \in [Handlers -> Job]
  /\ \A h \in Handlers : handler[h].at # "idle" => handler[h].order \in Orders
  /\ crashes \in 0..MaxCrashes

Init ==
  /\ providerState = [o \in Orders |-> "none"]
  /\ outbox = [o \in Orders |-> {}]
  /\ status = [o \in Orders |-> "none"]
  /\ paidAt = [o \in Orders |-> FALSE]
  /\ told = [o \in Orders |-> FALSE]
  /\ creating = [o \in Orders |-> "new"]
  /\ handler = [h \in Handlers |-> Idle]
  /\ crashes = 0

-----------------------------------------------------------------------------
(* CreatePayment: the order at the provider, then the row.                 *)

CreateOrder(o) ==
  /\ creating[o] = "new"
  /\ creating' = [creating EXCEPT ![o] = "ordered"]
  /\ providerState' = [providerState EXCEPT ![o] = "pending"]
  /\ UNCHANGED <<outbox, rowVars, told, handler, crashes>>

InsertPayment(o) ==
  /\ creating[o] = "ordered"
  /\ creating' = [creating EXCEPT ![o] = "returned"]
  /\ status' = [status EXCEPT ![o] = "pending"]
  /\ UNCHANGED <<providerVars, paidAt, told, handler, crashes>>

\* The INSERT reports an error, whether or not it was executed: the caller gets
\* no checkout URL, and the provider keeps the order.
CreateFails(o) ==
  /\ creating[o] = "ordered"
  /\ creating' = [creating EXCEPT ![o] = "failed"]
  /\ \E s \in {"none", "pending"} : status' = [status EXCEPT ![o] = s]
  /\ UNCHANGED <<providerVars, paidAt, told, handler, crashes>>

-----------------------------------------------------------------------------
(* The provider.  The customer can pay once CreatePayment has returned the *)
(* checkout URL; EarlyEvents lets the order move before.                   *)

ProviderCanMove(from, to) ==
  \/ from = "pending" /\ to \in Event
  \/ from = "authorised" /\ to \in Terminal

ProviderMoves(o) ==
  /\ EarlyEvents \/ creating[o] = "returned"
  /\ \E s \in Event :
       /\ ProviderCanMove(providerState[o], s)
       /\ providerState' = [providerState EXCEPT ![o] = s]
       /\ outbox' = [outbox EXCEPT ![o] = @ \cup {s}]
  /\ UNCHANGED <<rowVars, told, creating, handler, crashes>>

-----------------------------------------------------------------------------
(* The UPDATE that the webhook and the status request share.               *)

\* A bug: the row takes whatever status is named last.
CanAlwaysMove(from, to) == from # "none" /\ from # to

\* A bug: an authorised payment can not move any more.
CanMoveFromPending(from, to) == from = "pending" /\ to \in Event

\* paymentStatusTransitionPredicateSQL.  No row has the status "none".
CanMove(from, to) ==
  \/ from = "pending" /\ to \in {"authorised", "completed", "failed", "cancelled"}
  \/ from = "authorised" /\ to \in {"completed", "failed", "cancelled"}

\* A bug: the row is given the provider's name of the event.
UpdateRowUnmapped(o, s) ==
  IF CanMove(status[o], s)
    THEN /\ status' = [status EXCEPT ![o] = IF s = "completed" THEN "ORDER_COMPLETED" ELSE s]
         /\ paidAt' = [paidAt EXCEPT ![o] = @ \/ s = "completed"]
    ELSE UNCHANGED rowVars

UpdateRow(o, s) ==
  IF CanMove(status[o], s)
    THEN /\ status' = [status EXCEPT ![o] = s]
         /\ paidAt' = [paidAt EXCEPT ![o] = @ \/ s = "completed"]
    ELSE UNCHANGED rowVars

At(h, kind, place) == handler[h].kind = kind /\ handler[h].at = place

GotoPlace(h, place) == handler' = [handler EXCEPT ![h].at = place]

-----------------------------------------------------------------------------
(* WebhookHandler.                                                         *)

\* The provider sends, or sends again, an event that was not acknowledged.
WebhookArrives(h, o, s) ==
  /\ handler[h] = Idle
  /\ s \in outbox[o]
  /\ handler' = [handler EXCEPT ![h] =
       [kind |-> "webhook", at |-> "update", order |-> o, asked |-> s, shown |-> "none"]]
  /\ UNCHANGED <<providerVars, rowVars, told, creating, crashes>>

\* A bug: the callback is only delivered by the webhook that moved the row.
WebhookUpdateOnce(h) ==
  LET o == handler[h].order
      s == handler[h].asked IN
  /\ At(h, "webhook", "update")
  /\ UpdateRow(o, s)
  /\ GotoPlace(h, IF s = "completed" /\ CanMove(status[o], s) THEN "load" ELSE "ok")
  /\ UNCHANGED <<providerVars, told, creating, crashes>>

\* The UPDATE; a completed event goes on to the callback, moved or not.
WebhookUpdate(h) ==
  /\ At(h, "webhook", "update")
  /\ UpdateRow(handler[h].order, handler[h].asked)
  /\ GotoPlace(h, IF handler[h].asked = "completed" THEN "load" ELSE "ok")
  /\ UNCHANGED <<providerVars, told, creating, crashes>>

\* 200: the provider stops repeating the event, if the answer reaches it.
Acknowledge(h) ==
  LET o == handler[h].order IN
  /\ At(h, "webhook", "ok")
  /\ \/ outbox' = [outbox EXCEPT ![o] = @ \ {handler[h].asked}]
     \/ UNCHANGED outbox
  /\ handler' = [handler EXCEPT ![h] = Idle]
  /\ UNCHANGED <<providerState, rowVars, told, creating, crashes>>

\* A bug: a failed delivery is answered with 200 as well.
RefuseWith200(h) ==
  LET o == handler[h].order IN
  /\ At(h, "webhook", "failed")
  /\ outbox' = [outbox EXCEPT ![o] = @ \ {handler[h].asked}]
  /\ handler' = [handler EXCEPT ![h] = Idle]
  /\ UNCHANGED <<providerState, rowVars, told, creating, crashes>>

\* 500 or 502: the provider will repeat the event.
Refuse(h) ==
  /\ At(h, "webhook", "failed")
  /\ handler' = [handler EXCEPT ![h] = Idle]
  /\ UNCHANGED <<providerVars, rowVars, told, creating, crashes>>

-----------------------------------------------------------------------------
(* deliverCompletedPaymentCallback, for both handlers.                     *)

\* A bug: the row's status is not looked at before the callback.
LoadAnyStatus(h) ==
  LET o == handler[h].order IN
  /\ handler[h].at = "load"
  /\ GotoPlace(h, IF status[o] = "none" THEN "failed"
                  ELSE IF o \in Claimants THEN "callback" ELSE "ok")
  /\ UNCHANGED <<providerVars, rowVars, told, creating, crashes>>

\* The SELECT: an error without a row, and nothing to do when the row has not
\* completed or the application has no callback.
Load(h) ==
  LET o == handler[h].order IN
  /\ handler[h].at = "load"
  /\ GotoPlace(h, IF status[o] = "none" THEN "failed"
                  ELSE IF status[o] = "completed" /\ o \in Claimants
                    THEN "callback" ELSE "ok")
  /\ UNCHANGED <<providerVars, rowVars, told, creating, crashes>>

CallbackAccepted(h) ==
  /\ handler[h].at = "callback"
  /\ told' = [told EXCEPT ![handler[h].order] = TRUE]
  /\ GotoPlace(h, "ok")
  /\ UNCHANGED <<providerVars, rowVars, creating, crashes>>

\* The application refuses, or its answer does not arrive within 15 seconds.
CallbackFails(h) ==
  /\ handler[h].at = "callback"
  /\ \E accepted \in BOOLEAN : told' = [told EXCEPT ![handler[h].order] = @ \/ accepted]
  /\ GotoPlace(h, "failed")
  /\ UNCHANGED <<providerVars, rowVars, creating, crashes>>

\* A bug: a status request shows what the failed UPDATE was to persist.
StatementFailsShowing(h) ==
  /\ handler[h].at \in {"update", "load"}
  /\ handler' = [handler EXCEPT ![h].at = "failed",
                   ![h].shown = IF handler[h].kind = "get" THEN handler[h].asked ELSE @]
  /\ UNCHANGED <<providerVars, rowVars, told, creating, crashes>>

\* A statement of the UPDATE or the SELECT reports an error.
StatementFails(h) ==
  /\ handler[h].at \in {"update", "load"}
  /\ GotoPlace(h, "failed")
  /\ UNCHANGED <<providerVars, rowVars, told, creating, crashes>>

-----------------------------------------------------------------------------
(* GetPaymentStatusHandler.                                                *)

StatusRequested(h, o) ==
  /\ handler[h] = Idle
  /\ status[o] # "none"
  /\ handler' = [handler EXCEPT ![h] =
       [kind |-> "get", order |-> o, asked |-> "none", shown |-> status[o],
        at |-> IF status[o] \in {"pending", "authorised"} THEN "poll"
               ELSE IF status[o] = "completed" THEN "load" ELSE "ok"]]
  /\ UNCHANGED <<providerVars, rowVars, told, creating, crashes>>

\* GetOrder: an unknown state, or an error, leaves the row alone.
PollProvider(h) ==
  LET s == providerState[handler[h].order] IN
  /\ At(h, "get", "poll")
  /\ \/ s \in Event /\ handler' = [handler EXCEPT ![h].asked = s, ![h].at = "update"]
     \/ GotoPlace(h, "ok")
  /\ UNCHANGED <<providerVars, rowVars, told, creating, crashes>>

\* The UPDATE; only a row that it moved is shown with its new status.
StatusUpdate(h) ==
  LET s == handler[h].asked IN
  /\ At(h, "get", "update")
  /\ UpdateRow(handler[h].order, s)
  /\ handler' = IF CanMove(status[handler[h].order], s)
       THEN [handler EXCEPT ![h].shown = s,
               ![h].at = IF s = "completed" THEN "load" ELSE "ok"]
       ELSE [handler EXCEPT ![h].at = "ok"]
  /\ UNCHANGED <<providerVars, told, creating, crashes>>

\* The answer, 200 even when the delivery of the callback has failed.
Show(h) ==
  /\ At(h, "get", "ok") \/ At(h, "get", "failed")
  /\ handler' = [handler EXCEPT ![h] = Idle]
  /\ UNCHANGED <<providerVars, rowVars, told, creating, crashes>>

-----------------------------------------------------------------------------
Crash ==
  /\ crashes < MaxCrashes
  /\ crashes' = crashes + 1
  /\ handler' = [h \in Handlers |-> Idle]
  /\ creating' = [o \in Orders |-> IF creating[o] = "ordered" THEN "failed" ELSE creating[o]]
  /\ UNCHANGED <<providerVars, rowVars, told>>

Next ==
  \/ \E o \in Orders : \/ CreateOrder(o) \/ InsertPayment(o) \/ CreateFails(o)
                       \/ ProviderMoves(o)
  \/ \E h \in Handlers, o \in Orders :
       \/ \E s \in Event : WebhookArrives(h, o, s)
       \/ StatusRequested(h, o)
  \/ \E h \in Handlers :
       \/ WebhookUpdate(h) \/ Acknowledge(h) \/ Refuse(h)
       \/ Load(h) \/ CallbackAccepted(h) \/ CallbackFails(h) \/ StatementFails(h)
       \/ PollProvider(h) \/ StatusUpdate(h) \/ Show(h)
  \/ Crash

Spec == Init /\ [][Next]_vars

\* A goroutine goes on with what it does.
Proceed(h) ==
  \/ WebhookUpdate(h) \/ Acknowledge(h) \/ Refuse(h) \/ Load(h)
  \/ CallbackAccepted(h) \/ CallbackFails(h) \/ PollProvider(h)
  \/ StatusUpdate(h) \/ Show(h)

\* A goroutine does not stop by itself.  The provider repeats its final event
\* until it is acknowledged; the database and the application do not fail for
\* the same order for ever.
Fairness ==
  /\ \A h \in Handlers : WF_vars(Proceed(h))
  /\ \A o \in Orders :
       /\ SF_vars(\E h \in Handlers, s \in Terminal : WebhookArrives(h, o, s))
       /\ SF_vars(\E h \in Handlers : /\ handler[h].order = o /\ handler[h].asked \in Terminal
                                      /\ WebhookUpdate(h))
       /\ SF_vars(\E h \in Handlers : handler[h].order = o /\ Load(h))
       /\ SF_vars(\E h \in Handlers : handler[h].order = o /\ CallbackAccepted(h))

FairSpec == Spec /\ Fairness

-----------------------------------------------------------------------------
(* Properties.                                                             *)

\* The provider's order has reached status s.
Reached(o, s) ==
  \/ providerState[o] = s
  \/ s = "authorised" /\ providerState[o] \in Terminal

\* The row never claims what has not happened at the provider, whatever the
\* order in which webhooks and polls are applied: a terminal status is the
\* provider's, and paid_at is set for a completed payment only.
RowFollowsProvider ==
  \A o \in Orders :
    /\ status[o] \in Event => Reached(o, status[o])
    /\ paidAt[o] <=> status[o] = "completed"

\* No application is told of a payment the provider did not complete or the
\* row does not show as completed.
ToldOnlyWhenCompleted ==
  \A o \in Orders : told[o] => providerState[o] = "completed" /\ status[o] = "completed"

\* What a status request will answer was persisted, and is the row's status or
\* one the row has left since (the tests of GetPaymentStatusHandler forbid to
\* report a completion that is not persisted).
ShownIsPersisted ==
  \A h \in Handlers :
    LET o == handler[h].order
        shown == handler[h].shown IN
    shown \in Event =>
      \/ status[o] = shown
      \/ shown = "authorised" /\ status[o] \in Terminal

\* The comment in WebhookHandler: a completed event must attempt delivery even
\* when the transition was consumed before, and a failure makes the provider
\* retry.  So the completed event of an application with a callback is not
\* acknowledged before the application was told.
AckedCompletedIsTold ==
  \A o \in Claimants :
    providerState[o] = "completed" /\ "completed" \notin outbox[o] => told[o]

\* An application whose customer has paid is told in the end.
CompletedIsTold == \A o \in Claimants : providerState[o] = "completed" ~> told[o]

\* The row ends with the provider's final state.
RowCatchesUp ==
  \A o \in Orders, s \in Terminal : providerState[o] = s ~> status[o] = s

\* The gateway implements the lifecycle of a payment.
Lifecycle == INSTANCE PaymentLifecycle WITH stage <- status
LifecycleSafety == Lifecycle!LifecycleSafety
-----------------------------------------------------------------------------
(* Proofs, for any orders, claimants, handlers and bound on crashes, and whether or not events come early.

   The argument: everything the gateway holds of an order (an event in flight, the status a handler is about
   to write, the row) is a state the provider's order has reached, and stays so because the provider's order
   only moves forward.  A row that was shown only moves forward too, and without early events the UPDATE of a
   completed webhook finds its row, so that only a delivered callback lets the webhook be acknowledged. *)

\* The events the provider still sends are states its order has reached.
OutboxReached == \A o \in Orders : \A s \in outbox[o] : Reached(o, s)

\* What a handler is about to write was reached, and is never "none".
AskedReached ==
  \A h \in Handlers :
    /\ handler[h].asked \in Event =>
         handler[h].order \in Orders /\ Reached(handler[h].order, handler[h].asked)
    /\ handler[h].at = "update" => handler[h].asked \in Event

\* A callback is under way only for a completed row that has a target.
CallbackCompleted ==
  \A h \in Handlers :
    handler[h].at = "callback" =>
      handler[h].order \in Claimants /\ status[handler[h].order] = "completed"

\* There is no row before the INSERT, and no order before the first call.
NotCreatedYet ==
  \A o \in Orders :
    /\ creating[o] \in {"new", "ordered"} => status[o] = "none"
    /\ creating[o] = "new" => providerState[o] = "none"

IInv ==
  /\ TypeOK /\ OutboxReached /\ AskedReached /\ RowFollowsProvider
  /\ ToldOnlyWhenCompleted /\ CallbackCompleted /\ NotCreatedYet

\* The statuses.
LEMMA StatusFacts ==
  /\ Terminal \subseteq Event /\ Event \subseteq Status
  /\ "none" \in Status /\ "pending" \in Status
  /\ "none" \notin Event /\ "pending" \notin Event
  /\ "completed" \in Terminal /\ "authorised" \in Event /\ "authorised" \notin Terminal
BY DEF Terminal, Event, Status

-----------------------------------------------------------------------------
(* Type correctness.                                                       *)

\* A handler that waits.
LEMMA IdleIsJob == Idle \in Job BY DEF Idle, Job, Place, Status

\* A row update keeps the types of the row.
LEMMA UpdateRowType ==
  ASSUME TypeOK, NEW o \in Orders, NEW s, UpdateRow(o, s)
  PROVE  status' \in [Orders -> Status] /\ paidAt' \in [Orders -> BOOLEAN]
<1>1. CASE CanMove(status[o], s) BY <1>1 DEF TypeOK, UpdateRow, CanMove, Status, Event, Terminal
<1>2. CASE ~CanMove(status[o], s) BY <1>2 DEF TypeOK, UpdateRow, rowVars
<1> QED BY <1>1, <1>2

\* A handler that moves to another place keeps the type of its job.
LEMMA GotoPlaceType ==
  ASSUME TypeOK, NEW h \in Handlers, NEW p \in Place,
         handler[h].order \in Orders, GotoPlace(h, p)
  PROVE  /\ handler' \in [Handlers -> Job]
         /\ \A x \in Handlers : handler'[x].at # "idle" => handler'[x].order \in Orders
<1>1. handler[h] \in Job BY DEF TypeOK
<1>2. [handler[h] EXCEPT !.at = p] \in Job BY <1>1 DEF Job
<1>3. handler' = [handler EXCEPT ![h] = [handler[h] EXCEPT !.at = p]] BY DEF GotoPlace, TypeOK
<1>4. handler' \in [Handlers -> Job] BY <1>2, <1>3 DEF TypeOK
<1>5. ASSUME NEW x \in Handlers, handler'[x].at # "idle"
      PROVE  handler'[x].order \in Orders
 <2>1. CASE x = h BY <2>1, <1>1, <1>3 DEF TypeOK, Job
 <2>2. CASE x # h BY <2>2, <1>3, <1>5 DEF TypeOK
 <2> QED BY <2>1, <2>2
<1> QED BY <1>4, <1>5

\* Every step keeps the types.
LEMMA TypeNext == TypeOK /\ [Next]_vars => TypeOK'
<1> SUFFICES ASSUME TypeOK, [Next]_vars
             PROVE  TypeOK' OBVIOUS
<1> USE StatusFacts DEF TypeOK, vars, providerVars, rowVars
<1>1. ASSUME NEW o \in Orders, CreateOrder(o)
      PROVE  TypeOK' BY <1>1 DEF CreateOrder
<1>2. ASSUME NEW o \in Orders, InsertPayment(o)
      PROVE  TypeOK' BY <1>2 DEF InsertPayment
<1>3. ASSUME NEW o \in Orders, CreateFails(o)
      PROVE  TypeOK' BY <1>3 DEF CreateFails
<1>4. ASSUME NEW o \in Orders, ProviderMoves(o)
      PROVE  TypeOK' BY <1>4 DEF ProviderMoves
<1>5. ASSUME NEW h \in Handlers, NEW o \in Orders, NEW s \in Event, WebhookArrives(h, o, s)
      PROVE  TypeOK' BY <1>5 DEF WebhookArrives, Job, Place
<1>6. ASSUME NEW h \in Handlers, NEW o \in Orders, StatusRequested(h, o)
      PROVE  TypeOK' BY <1>6 DEF StatusRequested, Job, Place
<1>7. ASSUME NEW h \in Handlers, WebhookUpdate(h)
      PROVE  TypeOK'
 <2> DEFINE o == handler[h].order
            s == handler[h].asked
 <2>1. o \in Orders /\ UpdateRow(o, s) /\ UNCHANGED <<providerVars, told, creating, crashes>>
   BY <1>7 DEF WebhookUpdate, At
 <2>2. \E p \in Place : GotoPlace(h, p) BY <1>7 DEF WebhookUpdate, Place
 <2>3. status' \in [Orders -> Status] /\ paidAt' \in [Orders -> BOOLEAN] BY <2>1, UpdateRowType
 <2> QED BY <2>1, <2>2, <2>3, GotoPlaceType
<1>8. ASSUME NEW h \in Handlers, Acknowledge(h)
      PROVE  TypeOK' BY <1>8, IdleIsJob DEF Acknowledge, At, Idle
<1>9. ASSUME NEW h \in Handlers, Refuse(h)
      PROVE  TypeOK' BY <1>9, IdleIsJob DEF Refuse, Idle
<1>10. ASSUME NEW h \in Handlers, Load(h)
      PROVE  TypeOK' BY <1>10, GotoPlaceType DEF Load, Place
<1>11. ASSUME NEW h \in Handlers, CallbackAccepted(h)
      PROVE  TypeOK' BY <1>11, GotoPlaceType DEF CallbackAccepted, Place
<1>12. ASSUME NEW h \in Handlers, CallbackFails(h)
      PROVE  TypeOK' BY <1>12, GotoPlaceType DEF CallbackFails, Place
<1>13. ASSUME NEW h \in Handlers, StatementFails(h)
      PROVE  TypeOK' BY <1>13, GotoPlaceType DEF StatementFails, Place
<1>14. ASSUME NEW h \in Handlers, PollProvider(h)
      PROVE  TypeOK' BY <1>14, GotoPlaceType DEF PollProvider, At, Place, Job
<1>15. ASSUME NEW h \in Handlers, StatusUpdate(h)
      PROVE  TypeOK'
 <2> DEFINE o == handler[h].order
            s == handler[h].asked
 <2>1. o \in Orders /\ UpdateRow(o, s) /\ UNCHANGED <<providerVars, told, creating, crashes>>
   BY <1>15 DEF StatusUpdate, At
 <2>2. status' \in [Orders -> Status] /\ paidAt' \in [Orders -> BOOLEAN] BY <2>1, UpdateRowType
 <2>3. CASE CanMove(status[o], s)
  <3> DEFINE p == IF s = "completed" THEN "load" ELSE "ok"
             job == [handler[h] EXCEPT !.shown = s, !.at = p]
  <3>1. handler' = [handler EXCEPT ![h] = job] BY <1>15, <2>3 DEF StatusUpdate
  <3>2. handler[h] \in Job /\ s \in Status /\ p \in Place BY DEF Job, Place
  <3>3. job \in Job /\ job.order = o BY <3>2 DEF Job
  <3> QED BY <2>1, <2>2, <3>1, <3>3
 <2>4. CASE ~CanMove(status[o], s) BY <1>15, <2>1, <2>2, <2>4 DEF StatusUpdate, Job, Place
 <2> QED BY <2>3, <2>4
<1>16. ASSUME NEW h \in Handlers, Show(h)
      PROVE  TypeOK' BY <1>16, IdleIsJob DEF Show, Idle
<1>17. CASE Crash BY <1>17, PaymentsAssumption, IdleIsJob DEF Crash, Idle
<1>18. CASE UNCHANGED vars BY <1>18
<1> QED BY <1>1, <1>2, <1>3, <1>4, <1>5, <1>6, <1>7, <1>8, <1>9, <1>10, <1>11, <1>12,
   <1>13, <1>14, <1>15, <1>16, <1>17, <1>18 DEF Next

\* The gateway's state is well typed in every behaviour.
THEOREM TypeCorrect == Spec => []TypeOK
<1>1. Init => TypeOK BY IdleIsJob, PaymentsAssumption, StatusFacts DEF Init, TypeOK, Idle
<1> QED BY <1>1, TypeNext, PTL DEF Spec

-----------------------------------------------------------------------------
(* The inductive invariant.                                                *)

\* The invariant holds at first.
LEMMA IInvInit == Init => IInv
<1> SUFFICES ASSUME Init PROVE IInv OBVIOUS
<1>1. TypeOK BY IdleIsJob, PaymentsAssumption, StatusFacts DEF Init, TypeOK, Idle
<1>2. OutboxReached /\ AskedReached /\ CallbackCompleted /\ NotCreatedYet
  BY StatusFacts DEF Init, Idle, OutboxReached, AskedReached, CallbackCompleted, NotCreatedYet
<1>3. RowFollowsProvider /\ ToldOnlyWhenCompleted
  BY StatusFacts DEF Init, RowFollowsProvider, ToldOnlyWhenCompleted
<1> QED BY <1>1, <1>2, <1>3 DEF IInv

\* What an order has reached stays reached when the provider moves on.
LEMMA ReachedStays ==
  ASSUME TypeOK, NEW o \in Orders, NEW p \in Orders, ProviderMoves(o),
         NEW s \in Event, Reached(p, s)
  PROVE  Reached(p, s)' BY DEF TypeOK, ProviderMoves, ProviderCanMove, Reached, Event, Terminal

\* Every step keeps it.
LEMMA IInvNext == IInv /\ [Next]_vars => IInv'
<1> SUFFICES ASSUME IInv, [Next]_vars
             PROVE  IInv' OBVIOUS
<1>0. TypeOK /\ TypeOK' BY TypeNext DEF IInv
<1> DEFINE Core == /\ OutboxReached /\ AskedReached /\ RowFollowsProvider
                   /\ ToldOnlyWhenCompleted /\ CallbackCompleted /\ NotCreatedYet
<1> USE <1>0, StatusFacts
    DEF IInv, TypeOK, vars, providerVars, rowVars, OutboxReached, AskedReached,
        RowFollowsProvider, ToldOnlyWhenCompleted, CallbackCompleted, NotCreatedYet
<1>1. ASSUME NEW o \in Orders, CreateOrder(o)
      PROVE  Core' BY <1>1 DEF CreateOrder, Reached, Event, Terminal
<1>2. ASSUME NEW o \in Orders, InsertPayment(o)
      PROVE  Core' BY <1>2 DEF InsertPayment, Reached
<1>3. ASSUME NEW o \in Orders, CreateFails(o)
      PROVE  Core' BY <1>3 DEF CreateFails, Reached
<1>4. ASSUME NEW o \in Orders, ProviderMoves(o)
      PROVE  Core'
 <2>1. PICK s \in Event :
         /\ ProviderCanMove(providerState[o], s)
         /\ providerState' = [providerState EXCEPT ![o] = s]
         /\ outbox' = [outbox EXCEPT ![o] = @ \cup {s}] BY <1>4 DEF ProviderMoves
 <2>2. UNCHANGED <<rowVars, told, creating, handler, crashes>> BY <1>4 DEF ProviderMoves
 <2>3. \A p \in Orders, e \in Event : Reached(p, e) => Reached(p, e)' BY <1>4, ReachedStays
 <2>4. OutboxReached' BY <2>1, <2>3 DEF Reached
 <2>5. AskedReached' /\ RowFollowsProvider' /\ CallbackCompleted' BY <2>2, <2>3 DEF Job
 <2>6. providerState[o] \notin Terminal /\ providerState[o] # "none" BY <2>1 DEF ProviderCanMove, Terminal
 <2>7. ToldOnlyWhenCompleted' /\ NotCreatedYet' BY <2>1, <2>2, <2>6
 <2> QED BY <2>4, <2>5, <2>7
<1>5. ASSUME NEW h \in Handlers, NEW o \in Orders, NEW s \in Event, WebhookArrives(h, o, s)
      PROVE  Core' BY <1>5 DEF WebhookArrives, Reached
<1>6. ASSUME NEW h \in Handlers, NEW o \in Orders, StatusRequested(h, o)
      PROVE  Core' BY <1>6 DEF StatusRequested, Reached
<1>7. ASSUME NEW h \in Handlers, WebhookUpdate(h)
      PROVE  Core' BY <1>7 DEF WebhookUpdate, At, GotoPlace, UpdateRow, CanMove, Reached, Terminal, Event
<1>8. ASSUME NEW h \in Handlers, Acknowledge(h)
      PROVE  Core' BY <1>8 DEF Acknowledge, At, Idle, Reached
<1>9. ASSUME NEW h \in Handlers, Refuse(h)
      PROVE  Core' BY <1>9 DEF Refuse, Idle, Reached
<1>10. ASSUME NEW h \in Handlers, Load(h)
      PROVE  Core' BY <1>10 DEF Load, GotoPlace, Reached
<1>11. ASSUME NEW h \in Handlers, CallbackAccepted(h)
      PROVE  Core' BY <1>11 DEF CallbackAccepted, GotoPlace, Reached
<1>12. ASSUME NEW h \in Handlers, CallbackFails(h)
      PROVE  Core' BY <1>12 DEF CallbackFails, GotoPlace, Reached
<1>13. ASSUME NEW h \in Handlers, StatementFails(h)
      PROVE  Core' BY <1>13 DEF StatementFails, GotoPlace, Reached
<1>14. ASSUME NEW h \in Handlers, PollProvider(h)
      PROVE  Core'
 <2> DEFINE s == providerState[handler[h].order]
 <2>1. CASE s \in Event /\ handler' = [handler EXCEPT ![h].asked = s, ![h].at = "update"]
  <3>1. handler[h].order \in Orders BY <1>14 DEF PollProvider, At
  <3>2. \A x \in Handlers :
          /\ handler'[x].order = handler[x].order
          /\ x # h => handler'[x] = handler[x] BY <2>1
  <3>3. handler'[h].asked = s /\ handler'[h].at = "update" BY <2>1
  <3>4. OutboxReached' /\ RowFollowsProvider' /\ ToldOnlyWhenCompleted' /\ NotCreatedYet'
    BY <1>14 DEF PollProvider, Reached
  <3>5. AskedReached' BY <1>14, <2>1, <3>1, <3>2, <3>3 DEF PollProvider, Reached
  <3>6. CallbackCompleted' BY <1>14, <3>2, <3>3 DEF PollProvider
  <3> QED BY <3>4, <3>5, <3>6
 <2>2. CASE GotoPlace(h, "ok") BY <1>14, <2>2 DEF PollProvider, GotoPlace, Reached
 <2> QED BY <1>14, <2>1, <2>2 DEF PollProvider
<1>15. ASSUME NEW h \in Handlers, StatusUpdate(h)
      PROVE  Core'
 <2>1. OutboxReached' /\ NotCreatedYet' /\ AskedReached'
   BY <1>15 DEF StatusUpdate, At, UpdateRow, CanMove, Reached, Terminal, Event
 <2>2. RowFollowsProvider' /\ ToldOnlyWhenCompleted'
   BY <1>15 DEF StatusUpdate, At, UpdateRow, CanMove, Reached, Terminal, Event
 <2>3. CallbackCompleted' BY <1>15 DEF StatusUpdate, At, UpdateRow, CanMove, Terminal, Event
 <2> QED BY <2>1, <2>2, <2>3
<1>16. ASSUME NEW h \in Handlers, Show(h)
      PROVE  Core' BY <1>16 DEF Show, Idle, Reached
<1>17. CASE Crash BY <1>17 DEF Crash, Idle, Reached
<1>18. CASE UNCHANGED vars BY <1>18 DEF Reached
<1> QED BY <1>1, <1>2, <1>3, <1>4, <1>5, <1>6, <1>7, <1>8, <1>9, <1>10, <1>11, <1>12,
   <1>13, <1>14, <1>15, <1>16, <1>17, <1>18 DEF Next

\* It holds always.
LEMMA Inductive == Spec => []IInv BY IInvInit, IInvNext, PTL DEF Spec

\* Whatever the order of webhooks and polls, the row never claims what has not
\* happened at the provider.
THEOREM RowCorrect == Spec => []RowFollowsProvider
<1>1. IInv => RowFollowsProvider BY DEF IInv
<1> QED BY <1>1, Inductive, PTL

\* The application is told only of a payment that has completed.
THEOREM ToldCorrect == Spec => []ToldOnlyWhenCompleted
<1>1. IInv => ToldOnlyWhenCompleted BY DEF IInv
<1> QED BY <1>1, Inductive, PTL

-----------------------------------------------------------------------------
(* The gateway implements the lifecycle.                                   *)

\* The lifecycle starts.
LEMMA LifecycleInitially == Init => Lifecycle!LifecycleInit BY DEF Init, Lifecycle!LifecycleInit

\* Every step is one of the lifecycle, or none.
LEMMA LifecycleStep ==
  IInv /\ [Next]_vars => [Lifecycle!LifecycleNext]_(Lifecycle!lifecycleVars)
<1> SUFFICES ASSUME IInv, [Next]_vars
             PROVE  \/ \E o \in Orders :
                         \/ Lifecycle!Open(o) \/ Lifecycle!Authorise(o)
                         \/ Lifecycle!End(o) \/ Lifecycle!Tell(o)
                    \/ UNCHANGED <<status, told>> BY DEF Lifecycle!LifecycleNext, Lifecycle!lifecycleVars
<1> USE DEF IInv, TypeOK, Lifecycle!Open, Lifecycle!Authorise, Lifecycle!End,
            Lifecycle!Tell, Lifecycle!Become, Lifecycle!Ending
<1>1. ASSUME NEW o \in Orders,
             InsertPayment(o) \/ CreateFails(o)
      PROVE  Lifecycle!Open(o) \/ UNCHANGED <<status, told>>
  BY <1>1 DEF InsertPayment, CreateFails, NotCreatedYet
<1>2. ASSUME NEW o \in Orders, NEW s \in Status, UpdateRow(o, s), told' = told
      PROVE  Lifecycle!Authorise(o) \/ Lifecycle!End(o) \/ UNCHANGED <<status, told>>
  BY <1>2 DEF UpdateRow, CanMove, rowVars
<1>3. ASSUME NEW h \in Handlers, WebhookUpdate(h) \/ StatusUpdate(h)
      PROVE  \E o \in Orders, s \in Status : UpdateRow(o, s) /\ told' = told
 <2>1. handler[h].order \in Orders /\ handler[h].asked \in Status
   BY <1>3 DEF WebhookUpdate, StatusUpdate, At, Job
 <2> QED BY <1>3, <2>1 DEF WebhookUpdate, StatusUpdate
<1>4. ASSUME NEW h \in Handlers, CallbackAccepted(h) \/ CallbackFails(h)
      PROVE  Lifecycle!Tell(handler[h].order) \/ UNCHANGED <<status, told>>
 <2> DEFINE o == handler[h].order
 <2>1. o \in Claimants /\ o \in Orders /\ status[o] = "completed" /\ status' = status
   BY <1>4, PaymentsAssumption
      DEF CallbackAccepted, CallbackFails, CallbackCompleted, rowVars
 <2>2. PICK v \in BOOLEAN : told' = [told EXCEPT ![o] = v] BY <1>4, <2>1 DEF CallbackAccepted, CallbackFails
 <2>3. v = TRUE \/ v = told[o] BY <1>4, <2>1, <2>2 DEF CallbackAccepted, CallbackFails
 <2>4. CASE told[o] BY <2>1, <2>2, <2>3, <2>4
 <2>5. CASE ~told[o] BY <2>1, <2>2, <2>3, <2>5
 <2> QED BY <2>4, <2>5
<1>5. ASSUME NEW h \in Handlers, handler[h].at = "callback"
      PROVE  handler[h].order \in Orders BY <1>5
<1>6. ASSUME \/ \E o \in Orders : CreateOrder(o) \/ ProviderMoves(o)
             \/ \E h \in Handlers, o \in Orders :
                  \/ \E s \in Event : WebhookArrives(h, o, s)
                  \/ StatusRequested(h, o)
             \/ \E h \in Handlers :
                  \/ Acknowledge(h) \/ Refuse(h) \/ Load(h) \/ StatementFails(h)
                  \/ PollProvider(h) \/ Show(h)
             \/ Crash
             \/ UNCHANGED vars
      PROVE  UNCHANGED <<status, told>>
  BY <1>6 DEF CreateOrder, ProviderMoves, WebhookArrives, StatusRequested, Acknowledge,
     Refuse, Load, StatementFails, PollProvider, Show, Crash, vars, rowVars
<1>7. CASE \E h \in Handlers : WebhookUpdate(h) \/ StatusUpdate(h)
 <2>1. PICK o \in Orders, s \in Status : UpdateRow(o, s) /\ told' = told BY <1>3, <1>7
 <2>2. Lifecycle!Authorise(o) \/ Lifecycle!End(o) \/ UNCHANGED <<status, told>> BY <1>2, <2>1
 <2> QED BY <2>2
<1>8. CASE \E h \in Handlers : CallbackAccepted(h) \/ CallbackFails(h)
 <2>1. PICK h \in Handlers : CallbackAccepted(h) \/ CallbackFails(h) BY <1>8
 <2>2. handler[h].order \in Orders BY <1>5, <2>1 DEF CallbackAccepted, CallbackFails
 <2>3. Lifecycle!Tell(handler[h].order) \/ UNCHANGED <<status, told>> BY <1>4, <2>1
 <2> HIDE DEF Lifecycle!Tell
 <2> QED BY <2>2, <2>3
<1> QED BY <1>1, <1>6, <1>7, <1>8 DEF Next

\* Every behaviour of the gateway is one of the lifecycle: statuses only move
\* forward, terminal ones are final, and only completed payments are told.
THEOREM Implements == Spec => LifecycleSafety
BY LifecycleInitially, LifecycleStep, Inductive, PTL
   DEF Spec, LifecycleSafety, Lifecycle!LifecycleSafety

-----------------------------------------------------------------------------
(* What is shown, and what is acknowledged.                                *)

\* A row that was told of an event only moves from authorised to a final status.
LEMMA RowMovesForward ==
  ASSUME IInv, [Next]_vars, NEW o \in Orders, status[o] \in Event
  PROVE  status'[o] = status[o] \/ (status[o] = "authorised" /\ status'[o] \in Terminal)
<1> USE StatusFacts DEF IInv, TypeOK, NotCreatedYet, providerVars, rowVars
<1>1. ASSUME NEW p \in Orders, InsertPayment(p) \/ CreateFails(p) PROVE status'[o] = status[o]
  BY <1>1 DEF InsertPayment, CreateFails
<1>2. ASSUME NEW h \in Handlers, WebhookUpdate(h) \/ StatusUpdate(h)
      PROVE  status'[o] = status[o] \/ (status[o] = "authorised" /\ status'[o] \in Terminal)
 <2>1. UpdateRow(handler[h].order, handler[h].asked) BY <1>2 DEF WebhookUpdate, StatusUpdate
 <2>2. status' = status \/ (/\ CanMove(status[handler[h].order], handler[h].asked)
                            /\ status' = [status EXCEPT ![handler[h].order] = handler[h].asked])
   BY <2>1 DEF UpdateRow
 <2> QED BY <2>2 DEF CanMove, Event, Terminal
<1>3. CASE UNCHANGED status BY <1>3
<1>4. ASSUME NEW p \in Orders, CreateOrder(p) \/ ProviderMoves(p) PROVE UNCHANGED status
  BY <1>4 DEF CreateOrder, ProviderMoves
<1>5. ASSUME NEW h \in Handlers, NEW p \in Orders, (\E s \in Event : WebhookArrives(h, p, s)) \/ StatusRequested(h, p)
      PROVE  UNCHANGED status BY <1>5 DEF WebhookArrives, StatusRequested
<1>6. ASSUME NEW h \in Handlers,
             \/ Acknowledge(h) \/ Refuse(h) \/ Load(h) \/ CallbackAccepted(h) \/ CallbackFails(h)
             \/ StatementFails(h) \/ PollProvider(h) \/ Show(h)
      PROVE  UNCHANGED status
  BY <1>6 DEF Acknowledge, Refuse, Load, CallbackAccepted, CallbackFails, StatementFails, PollProvider, Show
<1>7. CASE Crash \/ UNCHANGED vars BY <1>7 DEF Crash, vars
<1> QED BY <1>1, <1>2, <1>3, <1>4, <1>5, <1>6, <1>7 DEF Next

\* A status request shows the status of an order there is.
ShownInv == ShownIsPersisted /\ \A h \in Handlers : handler[h].shown \in Event => handler[h].order \in Orders

\* Every step keeps what was shown.
LEMMA ShownNext == IInv /\ ShownInv /\ [Next]_vars => ShownInv'
<1> SUFFICES ASSUME IInv, ShownInv, [Next]_vars, NEW h \in Handlers, handler'[h].shown \in Event
             PROVE  /\ handler'[h].order \in Orders
                    /\ \/ status'[handler'[h].order] = handler'[h].shown
                       \/ handler'[h].shown = "authorised" /\ status'[handler'[h].order] \in Terminal
  BY DEF ShownInv, ShownIsPersisted
<1>1. TypeOK BY DEF IInv
<1>2. CASE handler'[h].shown = handler[h].shown /\ handler'[h].order = handler[h].order
 <2> DEFINE o == handler[h].order
 <2>1. /\ o \in Orders
       /\ status[o] = handler[h].shown \/ (handler[h].shown = "authorised" /\ status[o] \in Terminal)
   BY <1>2 DEF ShownInv, ShownIsPersisted
 <2>2. status[o] \in Event BY <1>2, <2>1, StatusFacts
 <2>3. status'[o] = status[o] \/ (status[o] = "authorised" /\ status'[o] \in Terminal)
   BY <2>1, <2>2, RowMovesForward
 <2>4. "authorised" \notin Terminal BY StatusFacts
 <2> QED BY <1>2, <2>1, <2>3, <2>4
<1>3. ASSUME NEW g \in Handlers, Acknowledge(g) \/ Refuse(g) \/ Show(g)
      PROVE  handler'[h].shown = handler[h].shown /\ handler'[h].order = handler[h].order
 <2>1. handler'[g] = Idle /\ \A x \in Handlers : x # g => handler'[x] = handler[x]
   BY <1>1, <1>3 DEF Acknowledge, Refuse, Show, TypeOK
 <2>2. h # g BY <2>1, StatusFacts DEF Idle
 <2> QED BY <2>1, <2>2
<1>4. ASSUME NEW g \in Handlers,
             \/ Load(g) \/ CallbackAccepted(g) \/ CallbackFails(g) \/ StatementFails(g)
             \/ PollProvider(g) \/ WebhookUpdate(g)
      PROVE  handler'[h].shown = handler[h].shown /\ handler'[h].order = handler[h].order
  BY <1>1, <1>4 DEF TypeOK, Job, Load, CallbackAccepted, CallbackFails, StatementFails, PollProvider,
     WebhookUpdate, GotoPlace
<1>5. ASSUME NEW g \in Handlers, NEW o \in Orders, NEW s \in Event, WebhookArrives(g, o, s)
      PROVE  handler'[h].shown = handler[h].shown /\ handler'[h].order = handler[h].order
  BY <1>1, <1>5, StatusFacts DEF TypeOK, WebhookArrives
<1>6. ASSUME NEW g \in Handlers, NEW o \in Orders, StatusRequested(g, o), h = g
      PROVE  handler'[h].order = o /\ handler'[h].shown = status[o] /\ status' = status
  BY <1>1, <1>6 DEF TypeOK, StatusRequested, rowVars
<1>7. ASSUME NEW g \in Handlers, NEW o \in Orders, StatusRequested(g, o), h # g
      PROVE  handler'[h] = handler[h] BY <1>1, <1>7 DEF TypeOK, StatusRequested
<1>8. ASSUME NEW g \in Handlers, StatusUpdate(g), ~(h = g /\ CanMove(status[handler[g].order], handler[g].asked))
      PROVE  handler'[h].shown = handler[h].shown /\ handler'[h].order = handler[h].order
  BY <1>1, <1>8 DEF TypeOK, Job, StatusUpdate
<1>9. ASSUME StatusUpdate(h), CanMove(status[handler[h].order], handler[h].asked)
      PROVE  /\ handler'[h].order \in Orders
             /\ status'[handler'[h].order] = handler'[h].shown
 <2>1. handler[h].order \in Orders BY <1>1, <1>9 DEF TypeOK, StatusUpdate, At
 <2>2. handler'[h].order = handler[h].order /\ handler'[h].shown = handler[h].asked
   BY <1>1, <1>9 DEF TypeOK, Job, StatusUpdate
 <2>3. status' = [status EXCEPT ![handler[h].order] = handler[h].asked] BY <1>9 DEF StatusUpdate, UpdateRow
 <2> QED BY <1>1, <2>1, <2>2, <2>3 DEF TypeOK
<1>10. ASSUME NEW o \in Orders, CreateOrder(o) \/ InsertPayment(o) \/ CreateFails(o) \/ ProviderMoves(o)
       PROVE  UNCHANGED handler BY <1>10 DEF CreateOrder, InsertPayment, CreateFails, ProviderMoves
<1>11. CASE Crash BY <1>11, StatusFacts DEF Crash, Idle
<1>12. CASE UNCHANGED vars BY <1>2, <1>12 DEF vars
<1>13. ASSUME NEW g \in Handlers, NEW o \in Orders, StatusRequested(g, o)
       PROVE  /\ handler'[h].order \in Orders
              /\ \/ status'[handler'[h].order] = handler'[h].shown
                 \/ handler'[h].shown = "authorised" /\ status'[handler'[h].order] \in Terminal
  BY <1>2, <1>6, <1>7, <1>13
<1>14. ASSUME NEW g \in Handlers, StatusUpdate(g)
       PROVE  /\ handler'[h].order \in Orders
              /\ \/ status'[handler'[h].order] = handler'[h].shown
                 \/ handler'[h].shown = "authorised" /\ status'[handler'[h].order] \in Terminal
  BY <1>2, <1>8, <1>9, <1>14
<1> QED BY <1>2, <1>3, <1>4, <1>5, <1>10, <1>11, <1>12, <1>13, <1>14 DEF Next

\* What a status request will answer was persisted: see ShownIsPersisted.
THEOREM ShownCorrect == Spec => []ShownIsPersisted
<1>1. Init => ShownInv BY StatusFacts DEF Init, Idle, ShownInv, ShownIsPersisted
<1>2. ShownInv => ShownIsPersisted BY DEF ShownInv
<1> QED BY <1>1, <1>2, ShownNext, Inductive, PTL DEF Spec

\* Without early events an order moves only once its row is there, and a webhook for a
\* completed payment goes past the UPDATE only with a completed row, and past the callback
\* only when the application knows.
AckInv ==
  /\ \A o \in Orders : /\ creating[o] = "returned" => status[o] # "none"
                       /\ providerState[o] \in Event => creating[o] = "returned"
  /\ \A h \in Handlers : handler[h].kind = "webhook" /\ handler[h].asked = "completed" =>
        /\ handler[h].at \in {"load", "callback", "ok"} => status[handler[h].order] = "completed"
        /\ handler[h].at = "ok" /\ handler[h].order \in Claimants => told[handler[h].order]
  /\ AckedCompletedIsTold

\* What was told and what has completed stay so.
LEMMA ToldStays ==
  ASSUME IInv, [Next]_vars, NEW o \in Orders
  PROVE  /\ status[o] = "completed" => status'[o] = "completed"
         /\ told[o] => told'[o]
<1>1. status[o] = "completed" => status'[o] = "completed" BY RowMovesForward, StatusFacts
<1>2. told[o] => told'[o]
 <2> USE DEF IInv, TypeOK
 <2>1. ASSUME NEW p \in Orders, CreateOrder(p) \/ InsertPayment(p) \/ CreateFails(p) \/ ProviderMoves(p)
       PROVE  UNCHANGED told BY <2>1 DEF CreateOrder, InsertPayment, CreateFails, ProviderMoves
 <2>2. ASSUME NEW h \in Handlers, NEW p \in Orders, (\E s \in Event : WebhookArrives(h, p, s)) \/ StatusRequested(h, p)
       PROVE  UNCHANGED told BY <2>2 DEF WebhookArrives, StatusRequested
 <2>3. ASSUME NEW h \in Handlers,
              \/ WebhookUpdate(h) \/ Acknowledge(h) \/ Refuse(h) \/ Load(h)
              \/ StatementFails(h) \/ PollProvider(h) \/ StatusUpdate(h) \/ Show(h)
       PROVE  UNCHANGED told
   BY <2>3 DEF WebhookUpdate, Acknowledge, Refuse, Load, StatementFails, PollProvider, StatusUpdate, Show
 <2>4. ASSUME NEW h \in Handlers, CallbackAccepted(h) \/ CallbackFails(h) PROVE told[o] => told'[o]
   BY <2>4 DEF CallbackAccepted, CallbackFails
 <2>5. CASE Crash \/ UNCHANGED vars BY <2>5 DEF Crash, vars
 <2> QED BY <2>1, <2>2, <2>3, <2>4, <2>5 DEF Next
<1> QED BY <1>1, <1>2

\* The steps of the orders keep what is acknowledged.
LEMMA AckOrders ==
  ASSUME ~EarlyEvents, IInv, AckInv, [Next]_vars, NEW o \in Orders
  PROVE  /\ creating'[o] = "returned" => status'[o] # "none"
         /\ providerState'[o] \in Event => creating'[o] = "returned"
<1> DEFINE Goal == /\ creating'[o] = "returned" => status'[o] # "none"
                   /\ providerState'[o] \in Event => creating'[o] = "returned"
<1>0. /\ creating[o] = "returned" => status[o] # "none"
      /\ providerState[o] \in Event => creating[o] = "returned" BY DEF AckInv
<1> USE <1>0, StatusFacts DEF IInv, TypeOK, providerVars, rowVars
<1>1. ASSUME NEW p \in Orders, CreateOrder(p) PROVE Goal BY <1>1 DEF CreateOrder
<1>2. ASSUME NEW p \in Orders, InsertPayment(p) PROVE Goal BY <1>2 DEF InsertPayment
<1>3. ASSUME NEW p \in Orders, CreateFails(p) PROVE Goal BY <1>3 DEF CreateFails
<1>4. ASSUME NEW p \in Orders, ProviderMoves(p) PROVE Goal BY <1>4 DEF ProviderMoves
<1>5. ASSUME NEW h \in Handlers, WebhookUpdate(h) \/ StatusUpdate(h) PROVE Goal
  BY <1>5 DEF WebhookUpdate, StatusUpdate, UpdateRow, CanMove
<1>6. ASSUME NEW h \in Handlers, NEW p \in Orders, (\E s \in Event : WebhookArrives(h, p, s)) \/ StatusRequested(h, p)
      PROVE  Goal BY <1>6 DEF WebhookArrives, StatusRequested
<1>7. ASSUME NEW h \in Handlers,
             \/ Acknowledge(h) \/ Refuse(h) \/ Load(h) \/ CallbackAccepted(h) \/ CallbackFails(h)
             \/ StatementFails(h) \/ PollProvider(h) \/ Show(h)
      PROVE  Goal
  BY <1>7 DEF Acknowledge, Refuse, Load, CallbackAccepted, CallbackFails, StatementFails, PollProvider, Show
<1>8. CASE Crash BY <1>8 DEF Crash
<1>9. CASE UNCHANGED vars BY <1>9 DEF vars
<1> QED BY <1>1, <1>2, <1>3, <1>4, <1>5, <1>6, <1>7, <1>8, <1>9 DEF Next

\* The steps of the webhooks do.
LEMMA AckWebhooks ==
  ASSUME ~EarlyEvents, IInv, AckInv, [Next]_vars, NEW h \in Handlers,
         handler'[h].kind = "webhook", handler'[h].asked = "completed",
         handler'[h].at \in {"load", "callback", "ok"}
  PROVE  /\ status'[handler'[h].order] = "completed"
         /\ handler'[h].at = "ok" /\ handler'[h].order \in Claimants => told'[handler'[h].order]
<1> DEFINE o == handler[h].order
           Goal == /\ status'[handler'[h].order] = "completed"
                   /\ handler'[h].at = "ok" /\ handler'[h].order \in Claimants => told'[handler'[h].order]
<1>1. TypeOK /\ Claimants \subseteq Orders BY PaymentsAssumption DEF IInv
\* A goroutine that stays where it was.
<1>2. CASE handler'[h] = handler[h]
 <2>1. o \in Orders BY <1>1, <1>2 DEF TypeOK
 <2>2. status[o] = "completed" /\ (handler[h].at = "ok" /\ o \in Claimants => told[o]) BY <1>2 DEF AckInv
 <2> QED BY <1>2, <2>1, <2>2, ToldStays
<1>3. ASSUME NEW p \in Orders, CreateOrder(p) \/ InsertPayment(p) \/ CreateFails(p) \/ ProviderMoves(p)
      PROVE  handler'[h] = handler[h] BY <1>3 DEF CreateOrder, InsertPayment, CreateFails, ProviderMoves
<1>4. ASSUME NEW g \in Handlers, NEW p \in Orders, (\E s \in Event : WebhookArrives(g, p, s)) \/ StatusRequested(g, p)
      PROVE  handler'[h] = handler[h] BY <1>1, <1>4 DEF TypeOK, WebhookArrives, StatusRequested
<1>5. ASSUME NEW g \in Handlers, Acknowledge(g) \/ Refuse(g) \/ Show(g) PROVE handler'[h] = handler[h]
  BY <1>1, <1>5 DEF TypeOK, Acknowledge, Refuse, Show, Idle
<1>6. ASSUME NEW g \in Handlers, PollProvider(g) PROVE handler'[h] = handler[h]
  BY <1>1, <1>6 DEF TypeOK, Job, PollProvider, At, GotoPlace
<1>7. ASSUME NEW g \in Handlers, StatusUpdate(g) PROVE handler'[h] = handler[h]
  BY <1>1, <1>7 DEF TypeOK, Job, StatusUpdate, At
<1>8. ASSUME NEW g \in Handlers, StatementFails(g) PROVE handler'[h] = handler[h]
  BY <1>1, <1>8 DEF TypeOK, Job, StatementFails, GotoPlace
<1>9. ASSUME NEW g \in Handlers, CallbackFails(g) PROVE handler'[h] = handler[h]
  BY <1>1, <1>9 DEF TypeOK, Job, CallbackFails, GotoPlace
<1>10. ASSUME NEW g \in Handlers, g # h, WebhookUpdate(g) \/ Load(g) \/ CallbackAccepted(g) PROVE handler'[h] = handler[h]
  BY <1>1, <1>10 DEF TypeOK, WebhookUpdate, Load, CallbackAccepted, GotoPlace
\* The UPDATE: the order has completed and its row is there, so the row completes.
<1>11. ASSUME WebhookUpdate(h) PROVE Goal
 <2>1. o \in Orders /\ handler'[h] = [handler[h] EXCEPT !.at = "load"] /\ handler[h].asked = "completed"
   BY <1>1, <1>11 DEF TypeOK, Job, WebhookUpdate, At, GotoPlace
 <2>2. handler'[h].order = o /\ handler'[h].at = "load" BY <1>1, <2>1 DEF TypeOK, Job
 <2>3. Reached(o, "completed") BY <2>1, StatusFacts DEF IInv, AskedReached
 <2>4. providerState[o] = "completed" BY <2>3 DEF Reached
 <2>5. status[o] # "none" BY <2>1, <2>4, StatusFacts DEF AckInv
 <2>6. status[o] \in Event => Reached(o, status[o]) BY <2>1 DEF IInv, RowFollowsProvider
 <2>7. status[o] \in {"pending", "authorised", "completed"}
   BY <1>1, <2>1, <2>4, <2>5, <2>6 DEF TypeOK, Reached, Status, Event, Terminal
 <2>8. UpdateRow(o, "completed") BY <1>11, <2>1 DEF WebhookUpdate
 <2>9. status'[o] = "completed" BY <1>1, <2>1, <2>7, <2>8 DEF TypeOK, UpdateRow, CanMove, rowVars
 <2> QED BY <2>2, <2>9
\* The SELECT finds it completed, and goes on to the callback when there is one.
<1>12. ASSUME Load(h) PROVE Goal
 <2>1. /\ o \in Orders /\ handler[h].at = "load" /\ status' = status
       /\ handler'[h] = [handler[h] EXCEPT !.at =
             IF status[o] = "none" THEN "failed"
             ELSE IF status[o] = "completed" /\ o \in Claimants THEN "callback" ELSE "ok"]
   BY <1>1, <1>12 DEF TypeOK, Load, GotoPlace, rowVars
 <2>2. handler'[h].order = o /\ handler'[h].kind = handler[h].kind /\ handler'[h].asked = handler[h].asked
   BY <1>1, <2>1 DEF TypeOK, Job
 <2>3. status[o] = "completed" BY <2>1, <2>2 DEF AckInv
 <2>4. o \in Claimants => handler'[h].at = "callback" BY <1>1, <2>1, <2>3 DEF TypeOK, Job
 <2> QED BY <2>1, <2>2, <2>3, <2>4
<1>13. ASSUME CallbackAccepted(h) PROVE Goal
 <2>1. /\ o \in Orders /\ handler[h].at = "callback" /\ status' = status
       /\ handler'[h] = [handler[h] EXCEPT !.at = "ok"] /\ told' = [told EXCEPT ![o] = TRUE]
   BY <1>1, <1>13 DEF TypeOK, CallbackAccepted, GotoPlace, rowVars
 <2>2. handler'[h].order = o /\ handler'[h].kind = handler[h].kind /\ handler'[h].asked = handler[h].asked
   BY <1>1, <2>1 DEF TypeOK, Job
 <2>3. status[o] = "completed" BY <2>1, <2>2 DEF AckInv
 <2> QED BY <1>1, <2>1, <2>2, <2>3 DEF TypeOK
<1>14. CASE Crash BY <1>14 DEF Crash, Idle
<1>15. CASE UNCHANGED vars BY <1>2, <1>15 DEF vars
<1> QED BY <1>2, <1>3, <1>4, <1>5, <1>6, <1>7, <1>8, <1>9, <1>10, <1>11, <1>12, <1>13, <1>14, <1>15 DEF Next

\* Every step does, without early events.
LEMMA AckNext == ~EarlyEvents /\ IInv /\ AckInv /\ [Next]_vars => AckInv'
<1> SUFFICES ASSUME ~EarlyEvents, IInv, AckInv, [Next]_vars PROVE AckInv' OBVIOUS
<1>1. ASSUME NEW o \in Claimants, providerState'[o] = "completed", "completed" \notin outbox'[o] PROVE told'[o]
 <2>0. TypeOK /\ o \in Orders BY PaymentsAssumption DEF IInv
 <2>1. CASE providerState[o] = "completed" /\ "completed" \notin outbox[o]
   BY <2>0, <2>1, ToldStays DEF AckInv, AckedCompletedIsTold
 <2> DEFINE Same == providerState' = providerState /\ \A p \in Orders : outbox[p] \subseteq outbox'[p]
 <2>2. CASE Same BY <1>1, <2>0, <2>1, <2>2
 <2>3. ASSUME NEW p \in Orders, CreateOrder(p) PROVE told'[o]
  <3>1. providerState[o] = "completed" /\ outbox' = outbox BY <1>1, <2>0, <2>3 DEF CreateOrder, TypeOK
  <3> QED BY <1>1, <2>1, <3>1
 <2>4. ASSUME NEW p \in Orders, ProviderMoves(p) PROVE told'[o]
  <3>1. PICK s \in Event : /\ providerState' = [providerState EXCEPT ![p] = s]
                           /\ outbox' = [outbox EXCEPT ![p] = @ \cup {s}] BY <2>4 DEF ProviderMoves
  <3>2. CASE o = p BY <1>1, <2>0, <3>1, <3>2 DEF TypeOK
  <3>3. CASE o # p BY <1>1, <2>0, <2>1, <3>1, <3>3 DEF TypeOK
  <3> QED BY <3>2, <3>3
 <2>5. ASSUME NEW h \in Handlers, Acknowledge(h) PROVE told'[o]
  <3>1. CASE handler[h].order = o /\ handler[h].asked = "completed"
   <4>1. told[o] BY <2>0, <2>5, <3>1 DEF AckInv, Acknowledge, At
   <4> QED BY <2>0, <4>1, ToldStays
  <3>2. CASE ~(handler[h].order = o /\ handler[h].asked = "completed")
   <4>1. providerState'[o] = providerState[o] /\ ("completed" \in outbox[o] => "completed" \in outbox'[o])
     BY <2>0, <2>5, <3>2 DEF Acknowledge, TypeOK
   <4> QED BY <1>1, <2>1, <4>1
  <3> QED BY <3>1, <3>2
 <2>6. ASSUME NEW p \in Orders, InsertPayment(p) \/ CreateFails(p) PROVE Same
   BY <2>6 DEF InsertPayment, CreateFails, providerVars
 <2>7. ASSUME NEW h \in Handlers, NEW p \in Orders, (\E s \in Event : WebhookArrives(h, p, s)) \/ StatusRequested(h, p)
       PROVE  Same BY <2>7 DEF WebhookArrives, StatusRequested, providerVars
 <2>8. ASSUME NEW h \in Handlers,
              \/ WebhookUpdate(h) \/ Refuse(h) \/ Load(h) \/ CallbackAccepted(h) \/ CallbackFails(h)
              \/ StatementFails(h) \/ PollProvider(h) \/ StatusUpdate(h) \/ Show(h)
       PROVE  Same
   BY <2>8 DEF WebhookUpdate, Refuse, Load, CallbackAccepted, CallbackFails, StatementFails, PollProvider,
      StatusUpdate, Show, providerVars
 <2>9. CASE Crash \/ UNCHANGED vars BY <2>2, <2>9 DEF Crash, vars, providerVars
 <2> QED BY <2>2, <2>3, <2>4, <2>5, <2>6, <2>7, <2>8, <2>9 DEF Next
<1>2. AckedCompletedIsTold' BY <1>1 DEF AckedCompletedIsTold
<1> QED BY <1>2, AckOrders, AckWebhooks DEF AckInv

\* When an order moves only after its row was inserted, an acknowledged completed event has
\* been told to the application: see AckedCompletedIsTold.  (With early events it is not.)
THEOREM AckedCorrect == ~EarlyEvents => (Spec => []AckedCompletedIsTold)
<1> SUFFICES ASSUME ~EarlyEvents PROVE Spec => []AckedCompletedIsTold OBVIOUS
<1>1. Init => AckInv BY StatusFacts, PaymentsAssumption DEF Init, Idle, AckInv, AckedCompletedIsTold
<1>2. IInv /\ AckInv /\ [Next]_vars => AckInv' BY AckNext
<1>3. AckInv => AckedCompletedIsTold BY DEF AckInv
<1> QED BY <1>1, <1>2, <1>3, Inductive, PTL DEF Spec
=============================================================================
