-------------------------- MODULE PaymentLifecycle --------------------------
(***************************************************************************)
(* What the payment gateway promises of one payment row per order: its     *)
(* status only moves forward, a terminal status is final, and the          *)
(* application is told of a payment only after it has completed.           *)
(***************************************************************************)
CONSTANTS
  Orders,
  Claimants    \* the orders whose application registered a callback target

VARIABLES
  stage,       \* the status of the payment of each order, "none" without one
  told         \* has the application accepted the completed callback?

lifecycleVars == <<stage, told>>

Ending == {"completed", "failed", "cancelled"}
Stage == {"none", "pending", "authorised"} \cup Ending

LifecycleInit ==
  /\ stage = [o \in Orders |-> "none"]
  /\ told = [o \in Orders |-> FALSE]

Become(o, s) == stage' = [stage EXCEPT ![o] = s] /\ UNCHANGED told

Open(o) == stage[o] = "none" /\ Become(o, "pending")

Authorise(o) == stage[o] = "pending" /\ Become(o, "authorised")

End(o) ==
  /\ stage[o] \in {"pending", "authorised"}
  /\ \E s \in Ending : Become(o, s)

Tell(o) ==
  /\ o \in Claimants /\ stage[o] = "completed" /\ ~told[o]
  /\ told' = [told EXCEPT ![o] = TRUE]
  /\ UNCHANGED stage

LifecycleNext == \E o \in Orders : Open(o) \/ Authorise(o) \/ End(o) \/ Tell(o)

LifecycleSafety == LifecycleInit /\ [][LifecycleNext]_lifecycleVars
=============================================================================
