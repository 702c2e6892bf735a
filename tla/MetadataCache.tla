---------------------------- MODULE MetadataCache ----------------------------
(***************************************************************************)
(* The caches of metadata that each process keeps beside the database.  A   *)
(* reader that finds no entry, or one that is too old, loads the metadata   *)
(* by several statements and stores them with the time of storing.  Some    *)
(* caches are also invalidated by whoever changes the metadata, in its own  *)
(* process and before its transaction has committed.                        *)
(***************************************************************************)
EXTENDS Integers

CONSTANTS MeProcesses,   \* the processes of the program, each with its cache
          MeReaders,     \* requests that read
          MeTTL,         \* how long an entry is served
          MeMaxDelay,    \* the longest time a reader takes to load
          MeMaxTime,     \* bound: the time
          MeMaxChanges   \* bound: changes of the metadata that are committed

VARIABLES
    meInvalidated,  \* whether changes invalidate this cache (schema and existence) or wait for the TTL
    meDb,           \* the committed version of the metadata
    meUntil,        \* history: when a version ceased to be the committed one
    meChange,       \* the transaction that changes the metadata; history: stored in its process since it invalidated
    meCache,        \* per process: the versions stored, one for each statement, and when
    meLoad,         \* per reader: its process, what it has read, and since when
    meCaught,       \* history: processes in which a change was committed unseen
    meNow
meVars == <<meInvalidated, meDb, meUntil, meChange, meCache, meLoad, meCaught, meNow>>

Versions == 0..MeMaxChanges
Never == MeMaxTime + 1
NoEntry == [has |-> FALSE, first |-> 0, second |-> 0, at |-> 0]
NoLoad(p) == [pc |-> "idle", by |-> p, first |-> 0, second |-> 0, began |-> 0]
Busy(p) == \E r \in MeReaders : meLoad[r].pc # "idle" /\ meLoad[r].by = p

MeInit ==
    /\ meInvalidated \in BOOLEAN
    /\ meDb = 0 /\ meUntil = [v \in Versions |-> Never]
    /\ \E p \in MeProcesses : meChange = [pc |-> "none", by |-> p, stored |-> FALSE]
    /\ meCache = [p \in MeProcesses |-> NoEntry]
    /\ \E p \in MeProcesses : meLoad = [r \in MeReaders |-> NoLoad(p)]
    /\ meCaught = {} /\ meNow = 0
-----------------------------------------------------------------------------
(* Reading.  A request that finds a fresh entry changes nothing. *)

Fresh(entry) == entry.has /\ meNow - entry.at < MeTTL

\* The first statement of a load, in process p.
LoadFirst(r, p) ==
    /\ meLoad[r].pc = "idle" /\ ~Fresh(meCache[p])
    /\ meLoad' = [meLoad EXCEPT ![r] = [pc |-> "first", by |-> p, first |-> meDb, second |-> 0, began |-> meNow]]
    /\ UNCHANGED <<meInvalidated, meDb, meUntil, meChange, meCache, meCaught, meNow>>

LoadSecond(r) ==
    /\ meLoad[r].pc = "first"
    /\ meLoad' = [meLoad EXCEPT ![r].pc = "second", ![r].second = meDb]
    /\ UNCHANGED <<meInvalidated, meDb, meUntil, meChange, meCache, meCaught, meNow>>

Stored(load) == [has |-> TRUE, first |-> load.first, second |-> load.second, at |-> meNow]

Store(r) ==
    /\ meLoad[r].pc = "second"
    /\ meCache' = [meCache EXCEPT ![meLoad[r].by] = Stored(meLoad[r])]
    /\ meLoad' = [meLoad EXCEPT ![r] = NoLoad(@.by)]
    /\ meChange' = [meChange EXCEPT !.stored = @ \/ meLoad[r].by = meChange.by]
    /\ UNCHANGED <<meInvalidated, meDb, meUntil, meCaught, meNow>>

LoadFails(r) ==
    /\ meLoad[r].pc # "idle"
    /\ meLoad' = [meLoad EXCEPT ![r] = NoLoad(@.by)]
    /\ UNCHANGED <<meInvalidated, meDb, meUntil, meChange, meCache, meCaught, meNow>>

\* The periodic clean-up.
CleanUp(p) ==
    /\ meCache[p].has /\ ~Fresh(meCache[p])
    /\ meCache' = [meCache EXCEPT ![p] = NoEntry]
    /\ UNCHANGED <<meInvalidated, meDb, meUntil, meChange, meLoad, meCaught, meNow>>
-----------------------------------------------------------------------------
(* Changing.  Two changes of one table exclude each other: their rows are locked. *)

Change(p) ==
    /\ meChange.pc = "none" /\ meDb < MeMaxChanges
    /\ meChange' = [pc |-> "written", by |-> p, stored |-> FALSE]
    /\ UNCHANGED <<meInvalidated, meDb, meUntil, meCache, meLoad, meCaught, meNow>>

\* A bug: the key is another one, so that no entry is found.
InvalidateNothing ==
    /\ meInvalidated /\ meChange.pc = "written"
    /\ meChange' = [meChange EXCEPT !.pc = "invalidated", !.stored = FALSE]
    /\ meCaught' = IF Busy(meChange.by) THEN meCaught ELSE meCaught \ {meChange.by}
    /\ UNCHANGED <<meInvalidated, meDb, meUntil, meCache, meLoad, meNow>>

Invalidate ==
    /\ meInvalidated /\ meChange.pc = "written"
    /\ meChange' = [meChange EXCEPT !.pc = "invalidated", !.stored = FALSE]
    /\ meCache' = [meCache EXCEPT ![meChange.by] = NoEntry]
    /\ meCaught' = IF Busy(meChange.by) THEN meCaught ELSE meCaught \ {meChange.by}
    /\ UNCHANGED <<meInvalidated, meDb, meUntil, meLoad, meNow>>

\* Other processes do not learn of it, nor does a reader of this one that overlapped.
Commit ==
    /\ meChange.pc = IF meInvalidated THEN "invalidated" ELSE "written"
    /\ meChange' = [meChange EXCEPT !.pc = "none"]
    /\ meDb' = meDb + 1 /\ meUntil' = [meUntil EXCEPT ![meDb] = meNow]
    /\ meCaught' = IF meInvalidated /\ ~Busy(meChange.by) /\ ~meChange.stored
                   THEN meCaught \cup (MeProcesses \ {meChange.by})
                   ELSE MeProcesses
    /\ UNCHANGED <<meInvalidated, meCache, meLoad, meNow>>

Rollback ==
    /\ meChange.pc # "none"
    /\ meChange' = [meChange EXCEPT !.pc = "none"]
    /\ UNCHANGED <<meInvalidated, meDb, meUntil, meCache, meLoad, meCaught, meNow>>
-----------------------------------------------------------------------------
Tick ==
    /\ meNow < MeMaxTime
    /\ \A r \in MeReaders : meLoad[r].pc # "idle" => meNow < meLoad[r].began + MeMaxDelay
    /\ meNow' = meNow + 1
    /\ UNCHANGED <<meInvalidated, meDb, meUntil, meChange, meCache, meLoad, meCaught>>

MeNext ==
    \/ \E r \in MeReaders : (\E p \in MeProcesses : LoadFirst(r, p)) \/ LoadSecond(r) \/ Store(r) \/ LoadFails(r)
    \/ \E p \in MeProcesses : CleanUp(p) \/ Change(p)
    \/ Invalidate \/ Commit \/ Rollback \/ Tick
MeSpec == MeInit /\ [][MeNext]_meVars
-----------------------------------------------------------------------------
MeTypeOK ==
    /\ meInvalidated \in BOOLEAN
    /\ meDb \in Versions /\ meUntil \in [Versions -> 0..Never]
    /\ meChange \in [pc : {"none", "written", "invalidated"}, by : MeProcesses, stored : BOOLEAN]
    /\ meCache \in [MeProcesses -> [has : BOOLEAN, first : Versions, second : Versions, at : 0..MeMaxTime]]
    /\ meLoad \in [MeReaders -> [pc : {"idle", "first", "second"}, by : MeProcesses,
                                 first : Versions, second : Versions, began : 0..MeMaxTime]]
    /\ meCaught \subseteq MeProcesses /\ meNow \in 0..MeMaxTime

Recent(v, since) == v = meDb \/ since <= meUntil[v]

\* Whatever was invalidated too early or stored too late: what a process serves was the
\* committed metadata less than the time of an entry and of a load ago.
ServedIsRecent ==
    \A p \in MeProcesses : Fresh(meCache[p]) =>
        LET since == meNow - MeTTL - MeMaxDelay + 1
        IN  Recent(meCache[p].first, since) /\ Recent(meCache[p].second, since)

\* A change takes effect at once in its own process, unless a reader of it overlapped the end
\* of the transaction that had invalidated the entry: from then on an entry there is the committed
\* metadata, and its parts agree, until a change is made in another process.
TakesEffect ==
    \A p \in MeProcesses \ meCaught : meCache[p].has => meCache[p].first = meDb /\ meCache[p].second = meDb

MeServedIsRecent == ServedIsRecent /\ TakesEffect
=============================================================================
