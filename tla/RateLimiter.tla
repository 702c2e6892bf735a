----------------------------- MODULE RateLimiter -----------------------------
(***************************************************************************)
(* The limiters of requests of one client.  A route counts them in a sliding *)
(* window: the stamp of a request is taken before the lock, and a clean-up   *)
(* drops lists that look old.  Sign-in and the firewall count them in a      *)
(* window that begins with a request.                                       *)
(***************************************************************************)
EXTENDS Naturals, Sequences, FiniteSets

CONSTANTS RlRequests,   \* requests of the client under way at once
          RlLimit,      \* requests a window admits
          RlWindow,     \* length of the window
          RlCleanAge,   \* age of the first stamp at which the clean-up drops a list (24 hours)
          RlMaxDelay,   \* bound: time between a stamp and the lock
          RlMaxTime,    \* bound: the clock
          RlMaxCounted  \* bound: requests that are counted

VARIABLES
    rlKind,   \* the limiter in use
    rlTimes,  \* "route": the requests whose stamps are kept, by their place in rlLog
    rlJob,    \* "route": per request, the stamp it waits for the lock with (<<>> when there is none)
    rlEntry,  \* "login", "special": the window, <<>> before the first request
    rlNow,    \* the clock
    rlLog     \* the requests counted, in that order, with their stamps and answers
rlVars == <<rlKind, rlTimes, rlJob, rlEntry, rlNow, rlLog>>

RlInit ==
    /\ rlKind \in {"route", "login", "special"}
    /\ rlTimes = {} /\ rlEntry = <<>> /\ rlLog = <<>>
    /\ rlJob = [r \in RlRequests |-> <<>>]
    /\ rlNow = RlWindow
-----------------------------------------------------------------------------
(* A route *)

Stamp(r) ==
    /\ rlKind = "route" /\ rlJob[r] = <<>>
    /\ rlJob' = [rlJob EXCEPT ![r] = <<rlNow>>]
    /\ UNCHANGED <<rlKind, rlTimes, rlEntry, rlNow, rlLog>>

Kept(stamp) == {i \in rlTimes : rlLog[i].stamp + RlWindow > stamp}

\* A bug: the request is not among those that are compared with the limit.
WithinLimitBeforeIt(times) == Cardinality(times) - 1 <= RlLimit

WithinLimit(times) == Cardinality(times) <= RlLimit

\* What is refused counts too: a client that goes on asking stays refused.
Count(r) ==
    /\ rlJob[r] # <<>> /\ Len(rlLog) < RlMaxCounted
    /\ LET stamp == rlJob[r][1]
           times == Kept(stamp) \cup {Len(rlLog) + 1}
       IN  /\ rlTimes' = times
           /\ rlLog' = Append(rlLog, [stamp |-> stamp, ok |-> WithinLimit(times)])
    /\ rlJob' = [rlJob EXCEPT ![r] = <<>>]
    /\ UNCHANGED <<rlKind, rlEntry, rlNow>>

\* The list goes as a whole, by its first stamp.
CleanUpRequests ==
    /\ \E first \in rlTimes : (\A i \in rlTimes : first <= i) /\ rlNow - rlLog[first].stamp > RlCleanAge
    /\ rlTimes' = {}
    /\ UNCHANGED <<rlKind, rlJob, rlEntry, rlNow, rlLog>>
-----------------------------------------------------------------------------
(* Sign-in and the firewall: the clock is read under the lock *)

WindowOver ==
    \/ rlEntry = <<>>
    \/ rlKind = "login" /\ rlNow - rlEntry[1].start > RlWindow
    \/ rlKind = "special" /\ rlNow - rlEntry[1].start >= RlWindow

Attempt ==
    /\ rlKind # "route" /\ Len(rlLog) < RlMaxCounted
    /\ LET entry == IF WindowOver THEN [count |-> 1, start |-> rlNow]
                                  ELSE [rlEntry[1] EXCEPT !.count = @ + 1]
       IN  /\ rlEntry' = <<entry>>
           /\ rlLog' = Append(rlLog, [stamp |-> rlNow, ok |-> entry.count <= RlLimit])
    /\ UNCHANGED <<rlKind, rlTimes, rlJob, rlNow>>
-----------------------------------------------------------------------------
\* The clock; no request waits for the lock longer than RlMaxDelay.
RlTick ==
    /\ rlNow < RlMaxTime
    /\ \A r \in RlRequests : rlJob[r] # <<>> => rlNow - rlJob[r][1] < RlMaxDelay
    /\ rlNow' = rlNow + 1
    /\ UNCHANGED <<rlKind, rlTimes, rlJob, rlEntry, rlLog>>

RlNext ==
    \/ \E r \in RlRequests : Stamp(r) \/ Count(r)
    \/ CleanUpRequests \/ Attempt \/ RlTick
RlSpec == RlInit /\ [][RlNext]_rlVars
-----------------------------------------------------------------------------
RlTypeOK ==
    /\ rlKind \in {"route", "login", "special"}
    /\ rlTimes \subseteq 1..RlMaxCounted /\ rlJob \in [RlRequests -> Seq(0..RlMaxTime)]
    /\ rlEntry \in Seq([count : 1..RlMaxCounted, start : 0..RlMaxTime])
    /\ rlNow \in 0..RlMaxTime
    /\ rlLog \in Seq([stamp : 0..RlMaxTime, ok : BOOLEAN])

CountedWithin(from, to) == {i \in DOMAIN rlLog : rlLog[i].stamp > from /\ rlLog[i].stamp <= to}
AdmittedWithin(from, to) == {i \in CountedWithin(from, to) : rlLog[i].ok}

\* No span of a window admits more requests than the limit, whatever order they get the lock in and
\* whenever the clean-up runs, if the span is shortened by the delay of a request (a late one may
\* have found stamps of its window dropped) and stamps are kept for two windows and that delay
\* (a limit of more than 12 hours would not be).  Two windows that meet may admit it twice.
NeverTooMany ==
    \A x \in 0..RlMaxTime :
        IF rlKind = "route" THEN Cardinality(AdmittedWithin(x - (RlWindow - RlMaxDelay), x)) <= RlLimit
                            ELSE Cardinality(AdmittedWithin(x - RlWindow, x)) <= 2 * RlLimit

\* Who is refused has used up the limit within the window before that: on a route by any
\* requests, at sign-in and the firewall by requests that were admitted.
RefusedForCause ==
    \A i \in DOMAIN rlLog : ~rlLog[i].ok =>
        LET from == rlLog[i].stamp - RlWindow - 1
        IN  IF rlKind = "route"
            THEN Cardinality({j \in 1..(i - 1) : rlLog[j].stamp > from + 1}) >= RlLimit
            ELSE Cardinality({j \in AdmittedWithin(from, rlLog[i].stamp) : j < i}) >= RlLimit

RlLimitsHold == NeverTooMany /\ RefusedForCause
=============================================================================
