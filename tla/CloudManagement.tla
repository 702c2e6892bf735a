---------------------------- MODULE CloudManagement ----------------------------
(***************************************************************************)
(* The cloud management view of two operators: the list of services, read    *)
(* again after each change of a filter and each action; and the panel of a   *)
(* rollout, in which an operator reads what the orchestrator would do next,   *)
(* claims a work item with a lease, and executes the step claimed.  The      *)
(* orchestrator is another service: it knows a lease by its token, checks    *)
(* what a request expects, and lets a lease expire.                          *)
(***************************************************************************)
EXTENDS Naturals, FiniteSets

CONSTANTS CmMaxTokens,  \* bound: leases given
          CmMaxInputs   \* bound: inputs of the operators

VARIABLES
    cmServer,  \* the work items: their step, lease and whether it has expired; leases given; steps run
    cmUi,      \* by operator: what the panel shows, the claim it holds, whether its button waits
    cmCalls,   \* requests under way, and whether the panel that sent them is still there
    cmCounts   \* inputs so far
cmVars == <<cmServer, cmUi, cmCalls, cmCounts>>

Operators == {"a", "b"}
Items == {1, 2}
Done == 3             \* after the steps 1 and 2
RequiresConfirm(step) == step = 2  \* on production
NoLease == 0
Action(kind, item, step) == [kind |-> kind, item |-> item, step |-> step]
NoNext == Action("none", 1, 1)
Claim(item, step, token) == [item |-> item, step |-> step, token |-> token]
NoClaim == Claim(1, 1, NoLease)
EmptyPanel == [next |-> NoNext, claim |-> NoClaim, busy |-> FALSE]

CmInit ==
    /\ cmServer = [step |-> [i \in Items |-> 1], lease |-> [i \in Items |-> NoLease], old |-> [i \in Items |-> FALSE],
                   given |-> {}, ran |-> {}, twice |-> FALSE]
    /\ cmUi = [u \in Operators |-> EmptyPanel]
    /\ cmCalls = {}
    /\ cmCounts = 0

CmInput == cmCounts < CmMaxInputs /\ cmCounts' = cmCounts + 1
Call(u, kind, claim, confirmed) ==
    [u |-> u, kind |-> kind, pc |-> "sent", claim |-> claim, confirmed |-> confirmed, next |-> NoNext, attached |-> TRUE]
-----------------------------------------------------------------------------
(* The orchestrator *)

\* Any work item not done: claimed if it has no lease in force, executed else; or left to a person.
OrchestratorNext ==
    {Action(IF cmServer.lease[i] = NoLease \/ cmServer.old[i] THEN "claim" ELSE "execute", i, cmServer.step[i]) :
        i \in {i \in Items : cmServer.step[i] # Done}}
    \cup {Action("fallback", i, cmServer.step[i]) : i \in {i \in Items : cmServer.step[i] # Done}}

Answered(c, d) == cmCalls' = (cmCalls \ {c}) \cup {[d EXCEPT !.pc = "served"]}

CmNextServed(c) ==
    /\ c.kind \in {"next", "guide"} /\ c.pc = "sent"
    /\ \E next \in OrchestratorNext \cup (IF OrchestratorNext = {} THEN {NoNext} ELSE {}) :
          Answered(c, [c EXCEPT !.next = next])
    /\ UNCHANGED <<cmServer, cmUi, cmCounts>>

CmClaimServed(c) ==
    /\ c.kind = "claim" /\ c.pc = "sent"
    /\ LET i == c.claim.item
           token == Cardinality(cmServer.given) + 1
       IN /\ cmServer.lease[i] = NoLease \/ cmServer.old[i]
          /\ cmServer.step[i] # Done /\ token <= CmMaxTokens
          /\ cmServer' = [cmServer EXCEPT !.lease[i] = token, !.old[i] = FALSE,
                                          !.given = @ \cup {[u |-> c.u, claim |-> Claim(i, cmServer.step[i], token)]}]
          /\ Answered(c, [c EXCEPT !.claim = Claim(i, cmServer.step[i], token)])
    /\ UNCHANGED <<cmUi, cmCounts>>

\* Run if the token is that of the item and the step the one expected; the lease is given back
\* or kept for the next step.
CmExecuteServed(c) ==
    /\ c.kind = "execute" /\ c.pc = "sent"
    /\ LET i == c.claim.item
       IN /\ cmServer.lease[i] = c.claim.token /\ ~cmServer.old[i] /\ cmServer.step[i] = c.claim.step
          /\ \E kept \in {cmServer.lease[i], NoLease} :
                cmServer' = [cmServer EXCEPT !.step[i] = @ + 1, !.lease[i] = kept,
                                             !.ran = @ \cup {[step |-> c.claim.step, confirmed |-> c.confirmed, item |-> i]},
                                             !.twice = @ \/ \E r \in cmServer.ran : r.item = i /\ r.step = c.claim.step]
    /\ Answered(c, c)
    /\ UNCHANGED <<cmUi, cmCounts>>

CmExpires(i) ==
    /\ cmServer.lease[i] # NoLease /\ ~cmServer.old[i]
    /\ cmServer' = [cmServer EXCEPT !.old[i] = TRUE]
    /\ UNCHANGED <<cmUi, cmCalls, cmCounts>>
-----------------------------------------------------------------------------
(* The panel *)

Shown(u, panel) == cmUi' = [cmUi EXCEPT ![u] = panel]
Waits(u) == Shown(u, [cmUi[u] EXCEPT !.busy = TRUE])
ReadyAgain(c) == IF c.attached THEN Shown(c.u, [cmUi[c.u] EXCEPT !.busy = FALSE]) ELSE UNCHANGED cmUi

loadOrchestratorNext(u) ==
    /\ cmUi[u].next = NoNext /\ ~cmUi[u].busy /\ CmInput
    /\ Waits(u)
    /\ cmCalls' = cmCalls \cup {Call(u, "next", cmUi[u].claim, FALSE)}
    /\ UNCHANGED cmServer

\* A panel is replaced by a new one, if it is still there: requests of the old one come too late for it.
Replaced(c, next, claim) ==
    IF c.attached
    THEN /\ Shown(c.u, [next |-> next, claim |-> claim, busy |-> FALSE])
         /\ cmCalls' = {IF d.u = c.u THEN [d EXCEPT !.attached = FALSE] ELSE d : d \in cmCalls \ {c}}
    ELSE UNCHANGED cmUi /\ cmCalls' = cmCalls \ {c}

CmGuided(c) ==
    /\ c.kind \in {"next", "guide"} /\ c.pc = "served"
    /\ Replaced(c, c.next, c.claim)
    /\ UNCHANGED <<cmServer, cmCounts>>

canClaimOrchestratorNext(next) == next.kind = "claim"

\* claimOrchestratorNext: after the name of the worker; what is shown next comes with the claim.
claimOrchestratorNext(u) ==
    /\ canClaimOrchestratorNext(cmUi[u].next) /\ ~cmUi[u].busy /\ CmInput
    /\ Waits(u)
    /\ cmCalls' = cmCalls \cup {Call(u, "claim", Claim(cmUi[u].next.item, cmUi[u].next.step, NoLease), FALSE)}
    /\ UNCHANGED cmServer

\* canExecuteClaimedOrchestratorNext: the claim held is of the item and step offered.
AnyClaim(next, claim) == next.kind = "execute" /\ claim # NoClaim
canExecuteClaimedOrchestratorNext(next, claim) ==
    next.kind = "execute" /\ claim # NoClaim /\ claim.item = next.item /\ claim.step = next.step

\* executeClaimedOrchestratorNext: after a reason and, if the step requires it, a confirmation.
\* The item and step are those offered, the token that of the claim.
executeClaimedOrchestratorNext(u) ==
    LET next == cmUi[u].next IN
    /\ canExecuteClaimedOrchestratorNext(next, cmUi[u].claim) /\ ~cmUi[u].busy /\ CmInput
    /\ Waits(u)
    /\ cmCalls' = cmCalls \cup {Call(u, "execute", Claim(next.item, next.step, cmUi[u].claim.token),
                                     RequiresConfirm(next.step))}
    /\ UNCHANGED cmServer

\* reloadRolloutGuidance: after a claim with it, after an execution without.
reloadRolloutGuidance(c) ==
    /\ c.kind \in {"claim", "execute"} /\ c.pc = "served"
    /\ cmCalls' = (cmCalls \ {c}) \cup
                     {[Call(c.u, "guide", IF c.kind = "claim" THEN c.claim ELSE NoClaim, FALSE) EXCEPT !.attached = c.attached]}
    /\ UNCHANGED <<cmServer, cmUi, cmCounts>>

\* planOrchestratorFallbackNext: nothing but a plan is shown.
planOrchestratorFallbackNext(u) ==
    /\ cmUi[u].next.kind = "fallback" /\ ~cmUi[u].busy /\ CmInput
    /\ Waits(u)
    /\ cmCalls' = cmCalls \cup {Call(u, "fallback", NoClaim, FALSE)}
    /\ UNCHANGED cmServer

\* A plan has come, or a request has failed, served before or not: the button can be used again.
CmEnds(c) ==
    /\ ReadyAgain(c)
    /\ cmCalls' = cmCalls \ {c}
    /\ UNCHANGED <<cmServer, cmCounts>>
-----------------------------------------------------------------------------
(* The list *)

Listed(u) == [Call(u, "list", NoClaim, FALSE) EXCEPT !.pc = "served"]

\* buildToolbar: a filter is set, or the button pressed, and the list asked for.
buildToolbar(u) ==
    /\ CmInput
    /\ cmCalls' = cmCalls \cup {Listed(u)}
    /\ UNCHANGED <<cmServer, cmUi>>

\* refresh: the list is drawn anew, and with it the panels.
refresh(c) ==
    /\ c.kind = "list"
    /\ Shown(c.u, EmptyPanel)
    /\ cmCalls' = {IF d.u = c.u THEN [d EXCEPT !.attached = FALSE] ELSE d : d \in cmCalls \ {c}}
    /\ UNCHANGED <<cmServer, cmCounts>>

\* runAction: an action on a service, confirmed if on production; then the list is asked for.
runAction(u) ==
    /\ CmInput
    /\ cmCalls' = cmCalls \cup {[Call(u, "action", NoClaim, FALSE) EXCEPT !.pc = "served"]}
    /\ UNCHANGED <<cmServer, cmUi>>
CmActionDone(c) ==
    /\ c.kind = "action"
    /\ cmCalls' = (cmCalls \ {c}) \cup {Listed(c.u)}
    /\ UNCHANGED <<cmServer, cmUi, cmCounts>>

CmNext ==
    \/ \E c \in cmCalls :
          \/ CmNextServed(c) \/ CmClaimServed(c) \/ CmExecuteServed(c) \/ CmGuided(c)
          \/ reloadRolloutGuidance(c) \/ CmEnds(c) \/ refresh(c) \/ CmActionDone(c)
    \/ \E i \in Items : CmExpires(i)
    \/ \E u \in Operators :
          \/ loadOrchestratorNext(u) \/ claimOrchestratorNext(u) \/ executeClaimedOrchestratorNext(u)
          \/ planOrchestratorFallbackNext(u) \/ runAction(u) \/ buildToolbar(u)
-----------------------------------------------------------------------------
Claims == [item : Items, step : 1..Done, token : 0..CmMaxTokens]
Actions == [kind : {"none", "claim", "execute", "fallback"}, item : Items, step : 1..2]
CmTypeOK ==
    /\ cmServer.step \in [Items -> 1..Done] /\ cmServer.lease \in [Items -> 0..CmMaxTokens]
    /\ cmServer.old \in [Items -> BOOLEAN] /\ cmServer.twice \in BOOLEAN
    /\ cmServer.given \subseteq [u : Operators, claim : Claims]
    /\ cmServer.ran \subseteq [step : 1..2, confirmed : BOOLEAN, item : Items]
    /\ cmUi \in [Operators -> [next : Actions, claim : Claims, busy : BOOLEAN]]
    /\ cmCalls \subseteq [u : Operators, kind : {"next", "claim", "execute", "guide", "fallback", "list", "action"},
                          pc : {"sent", "served"}, claim : Claims, confirmed : BOOLEAN, next : Actions, attached : BOOLEAN]
    /\ cmCounts \in 0..CmMaxInputs

\* However requests of two operators interleave, fail after they were served or come back to a
\* panel that is gone: what is asked to be executed was claimed by that operator, item, step and
\* token; no step is run twice; a step on production only after it was confirmed.
CmRunsWhatWasClaimed ==
    /\ \A c \in cmCalls : c.kind = "execute" => [u |-> c.u, claim |-> c.claim] \in cmServer.given
    /\ ~cmServer.twice
    /\ \A r \in cmServer.ran : RequiresConfirm(r.step) => r.confirmed
=============================================================================
