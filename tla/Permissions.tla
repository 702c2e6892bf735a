----------------------------- MODULE Permissions -----------------------------
(***************************************************************************)
(* The cache of the rights to datasets, whose requests callers share.  The  *)
(* session of the server changes under the page: at a login or a logout in  *)
(* it, which clear the cache some time after, or in another tab.  A right   *)
(* is the number of the session it was given by.                            *)
(***************************************************************************)
EXTENDS Naturals, FiniteSets

CONSTANTS PmMaxInputs,    \* bound: calls and entries that expire
          PmMaxSessions   \* bound: sessions

VARIABLES
    pmServer,    \* the session
    pmRights,    \* the cache of rights, its generation, the session of the last clear, the snapshot
    pmRequests,  \* requests for rights and for the list of datasets, under way
    pmCalls,     \* callers waiting for rights
    pmSaid,      \* whether the last callers were told a right of an ended session
    pmCounts     \* inputs so far; a list of datasets was awaited during a clear
pmVars == <<pmServer, pmRights, pmRequests, pmCalls, pmSaid, pmCounts>>

PmScopes == {1, 2}
PmRoutes == {"read"}
PmKeys == PmScopes \X PmRoutes
Unknown == 0                        \* no entry, or not decided yet
Failed == PmMaxSessions + 1         \* no answer: taken for a denial
Limited == PmMaxSessions + 2        \* too many requests: taken for a permission

PmInit ==
    /\ pmServer = 1
    /\ pmRights = [cache |-> [k \in PmKeys |-> Unknown], generation |-> 0, since |-> 1, snapshot |-> 0]
    /\ pmRequests = {} /\ pmCalls = {}
    /\ pmSaid = FALSE
    /\ pmCounts = [inputs |-> 0, spoiled |-> FALSE]

PmInput ==
    /\ pmCounts.inputs < PmMaxInputs
    /\ pmCounts' = [pmCounts EXCEPT !.inputs = @ + 1]

PmSessionChanges ==
    /\ pmServer < PmMaxSessions /\ pmServer' = pmServer + 1
    /\ UNCHANGED <<pmRights, pmRequests, pmCalls, pmSaid, pmCounts>>
-----------------------------------------------------------------------------
(* Rights *)

\* A caller is told a right of a session that ended before the caller asked.
PmOld(c, values) == \E v \in values : v # Unknown /\ v < c.since
PmFreeId == CHOOSE i \in 1..(Cardinality(pmRequests) + 1) : \A r \in pmRequests : r.id # i
PmMissing(c) == {k \in c.keys : pmRights.cache[k] = Unknown}
\* primeMultipleDatasetPermissions ends with one scope after the other.
PrimeOf(c, scope) ==
    [c EXCEPT !.kind = "prime", !.waits = 0, !.own = FALSE, !.rest = {s \in PmScopes : s > scope},
              !.keys = {scope} \X PmRoutes]

\* What a caller may share: a single question for its route, a batch of its scope, or the same
\* several batches.
PmShared(c, kind) ==
    {r \in pmRequests :
       /\ r.kind = kind /\ r.shared
       /\ CASE kind = "prime" -> (c.kind = "one" => c.keys \subseteq r.keys)
                                  /\ \A k \in c.keys : \E q \in r.keys : q[1] = k[1]
            [] kind = "multi" -> r.keys = PmMissing(c)
            [] OTHER -> r.keys = c.keys}

PmJoin(c, r) ==
    /\ pmCalls' = (pmCalls \ {c}) \cup {[c EXCEPT !.waits = r.id, !.own = r.kind = "one", !.batchTried = TRUE]}
    /\ UNCHANGED <<pmRights, pmRequests, pmSaid>>

PmAsk(c) ==
    /\ pmRequests' = pmRequests \cup
           {[id |-> PmFreeId, kind |-> c.kind, keys |-> PmMissing(c), shared |-> TRUE,
             generation |-> pmRights.generation, decided |-> Unknown]}
    /\ pmCalls' = (pmCalls \ {c}) \cup {[c EXCEPT !.waits = PmFreeId, !.own = TRUE]}
    /\ UNCHANGED <<pmRights, pmSaid>>

\* A caller that has its answer; of several scopes the next one is looked up.
PmEnds(c, others) ==
    pmCalls' = others \cup (IF c.rest = {} THEN {} ELSE {PrimeOf(c, 2)})

\* hasDatasetPermission and primeDatasetPermissions up to their await.
PmLookup(c) ==
    \/ /\ PmMissing(c) = {}
       /\ IF c.kind = "multi" THEN pmCalls' = (pmCalls \ {c}) \cup {PrimeOf(c, 1)} /\ UNCHANGED pmSaid
          ELSE PmEnds(c, pmCalls \ {c}) /\ pmSaid' = PmOld(c, {pmRights.cache[k] : k \in c.keys})
       /\ UNCHANGED <<pmRights, pmRequests>>
    \/ /\ PmMissing(c) # {}
       /\ LET batch == IF c.kind = "one" /\ ~c.batchTried THEN PmShared(c, "prime") ELSE {}
              shared == IF batch # {} THEN batch ELSE PmShared(c, c.kind)
          IN IF shared # {} THEN \E r \in shared : PmJoin(c, r) ELSE PmAsk(c)

\* Single questions and batches of the first scope; the second one is asked for with the first.
PmBegin ==
    /\ \E kind \in {"one", "prime", "multi"} :
          \E keys \in CASE kind = "one" -> {{<<1, route>>} : route \in PmRoutes}
                        [] kind = "prime" -> {{1} \X PmRoutes}
                        [] OTHER -> {PmKeys} :
             PmLookup([kind |-> kind, keys |-> keys, since |-> pmRights.since, waits |-> 0, own |-> FALSE,
                       batchTried |-> FALSE, rest |-> {}])
    /\ pmCounts.inputs < PmMaxInputs
    /\ pmCounts' = [pmCounts EXCEPT !.inputs = @ + 1]
    /\ UNCHANGED pmServer

PmAgain ==
    /\ \E c \in pmCalls : c.waits = 0 /\ PmLookup(c)
    /\ UNCHANGED <<pmServer, pmCounts>>

\* The server decides, in the session of that moment, or fails; several questions at once that
\* are limited are like ones that failed.
PmDecide ==
    /\ \E r \in pmRequests, d \in {pmServer, Failed, Limited} :
          /\ r.decided = Unknown /\ (d = Limited => r.kind = "one")
          /\ pmRequests' = (pmRequests \ {r}) \cup {[r EXCEPT !.decided = d]}
    /\ UNCHANGED <<pmServer, pmRights, pmCalls, pmSaid, pmCounts>>

\* Mutant: an answer is stored whatever was cleared meanwhile.
CacheAnyway(r, cache) ==
    IF r.decided = Limited \/ (r.decided = Failed /\ r.kind # "one") THEN cache
    ELSE [k \in PmKeys |-> IF k \in r.keys THEN r.decided ELSE cache[k]]

\* An answer is stored if nothing was cleared since the question; a failure only of a single one.
cacheAllowedByRoute(r, cache) ==
    IF r.generation # pmRights.generation \/ r.decided = Limited \/ (r.decided = Failed /\ r.kind # "one")
    THEN cache
    ELSE [k \in PmKeys |-> IF k \in r.keys THEN r.decided ELSE cache[k]]

\* The answer arrives: a single question's callers get it, the one who asked for a batch gets
\* what is cached now (what is not is denied), the others look up again.
PmSettle(r) ==
    /\ r.kind # "tables" /\ r.decided # Unknown
    /\ pmRequests' = pmRequests \ {r}
    /\ LET cache == cacheAllowedByRoute(r, pmRights.cache)
           waiting == {c \in pmCalls : c.waits = r.id}
           told == {c \in waiting : c.own /\ c.kind # "multi"}
           values(c) == IF c.kind = "one" THEN {r.decided} ELSE {cache[k] : k \in c.keys}
       IN /\ pmRights' = [pmRights EXCEPT !.cache = cache]
          /\ pmCalls' = (pmCalls \ waiting)
                \cup {IF c.kind = "multi" THEN PrimeOf(c, 1) ELSE [c EXCEPT !.waits = 0] : c \in waiting \ told}
                \cup {PrimeOf(c, 2) : c \in {t \in told : t.rest # {}}}
          /\ pmSaid' = \E c \in told : PmOld(c, values(c))
    /\ UNCHANGED <<pmServer, pmCounts>>

\* Five minutes pass for an entry.
PmExpires ==
    /\ PmInput
    /\ \E k \in PmKeys : pmRights.cache[k] # Unknown /\ pmRights' = [pmRights EXCEPT !.cache[k] = Unknown]
    /\ UNCHANGED <<pmServer, pmRequests, pmCalls, pmSaid>>

\* After a login or a logout was carried out, in this tab or another.
clearPermissionCache ==
    /\ pmRights.since # pmServer
    /\ pmCounts' = [pmCounts EXCEPT !.spoiled = @ \/ \E r \in pmRequests : r.kind = "tables"]
    /\ pmRights' = [cache |-> [k \in PmKeys |-> Unknown], generation |-> pmRights.generation + 1,
                    since |-> pmServer, snapshot |-> 0]
    /\ pmRequests' = {[r EXCEPT !.shared = FALSE] : r \in pmRequests}
    /\ UNCHANGED <<pmServer, pmCalls, pmSaid>>

\* The list of datasets, asked for by the tabs and by the table tree, tells which are readable.
PmTablesAsked ==
    /\ \A r \in pmRequests : r.kind # "tables"
    /\ pmCounts.inputs < PmMaxInputs
    /\ pmCounts' = [pmCounts EXCEPT !.inputs = @ + 1]
    /\ pmRequests' = pmRequests \cup
          {[id |-> PmFreeId, kind |-> "tables", keys |-> {}, shared |-> FALSE,
            generation |-> pmRights.generation, decided |-> Unknown]}
    /\ UNCHANGED <<pmServer, pmRights, pmCalls, pmSaid>>

primeDatasetAccessRegistry(r) ==
    /\ r.kind = "tables" /\ r.decided # Unknown
    /\ pmRequests' = pmRequests \ {r}
    /\ pmRights' = [pmRights EXCEPT !.snapshot = IF r.decided > PmMaxSessions THEN @ ELSE r.decided]
    /\ UNCHANGED <<pmServer, pmCalls, pmSaid, pmCounts>>
-----------------------------------------------------------------------------
PmNext ==
    \/ PmSessionChanges \/ PmExpires \/ clearPermissionCache \/ PmTablesAsked
    \/ PmBegin \/ PmAgain \/ PmDecide
    \/ \E r \in pmRequests : PmSettle(r) \/ primeDatasetAccessRegistry(r)
-----------------------------------------------------------------------------
(* Properties *)

PmTypeOK ==
    /\ pmServer \in 1..PmMaxSessions
    /\ \A k \in PmKeys : pmRights.cache[k] \in 0..Failed
    /\ \A c \in pmCalls : c.keys \subseteq PmKeys

\* After the cache was cleared for a new session no right of the former one is cached or told
\* to a caller that asked after the clear, whatever was asked before and is answered late; the
\* snapshot of readable datasets too, as long as none was awaited during a clear.
PmRightsAreOfTheSession ==
    /\ \A k \in PmKeys : pmRights.cache[k] # Unknown => pmRights.cache[k] >= pmRights.since
    /\ ~pmSaid
    /\ pmRights.snapshot # 0 /\ ~pmCounts.spoiled => pmRights.snapshot >= pmRights.since
=============================================================================
