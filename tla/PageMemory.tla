----------------------------- MODULE PageMemory -----------------------------
(***************************************************************************)
(* The memory broker every result page of the process goes through         *)
(* (core/src/memory.rs) and the cache of expendable hot pages that shares  *)
(* its budgets (core/src/hot_cache.rs over result-cache/src/lib.rs).       *)
(*                                                                         *)
(* One actor works on one query.  It waits for reservations one at a time  *)
(* and hands them to consumers, which shrink and drop them whenever they   *)
(* like.  A step is what happens under one lock; between two of them any   *)
(* other thread may run, also between freeing bytes and waking the waiters.*)
(* The cache is kept in the order of use, the page used last at its head.  *)
(***************************************************************************)
EXTENDS Integers, Sequences
LOCAL INSTANCE SequencesExt

CONSTANTS
    Queries,        \* the queries, each with its actor
    NoQuery,        \* no query: the lock is free, or any query's page may go
    Global,         \* PageMemoryConfig::global_bytes
    PerResult,      \* PageMemoryConfig::per_result_bytes
    Transfer,       \* what a page or a schema reserves: 16 raw limits
    Source,         \* what an open statement reserves: 8 raw limits
    Kept,           \* what a schema, or a drained source, shrinks to
    Page,           \* the charge of a cached page
    Pages,          \* page indexes
    MaxRequests     \* bound: reservations and insertions of an actor

\* Memory::new refuses budgets whose raw limit would be too small; a statement
\* fits in the quarter kept for sources, and beside it a transfer fits.
ASSUME BudgetAssumption ==
    /\ PerResult <= Global /\ 4 * Source <= Global /\ Transfer + Source <= PerResult
    /\ Kept <= Source /\ Source <= Transfer /\ Page <= PerResult
    /\ NoQuery \notin Queries /\ MaxRequests \in Nat
    /\ {Global, PerResult, Transfer, Source, Kept, Page} \subseteq Nat

VARIABLES
    used, source,   \* MemoryUsage::used_bytes and source_bytes
    results,        \* State::results, zero for a query without an entry
    cache,          \* the hot pages, each with its own reservation
    cacheLock,      \* the query whose actor is inside HotCache::insert
    held,           \* how many leases of each shape live outside the cache
    pc,             \* per actor: where it is
    want,           \* per actor: what it reserves, or the page it caches
    scope,          \* per actor: the eviction scope it has read
    notified,       \* per actor: its Notified future has been woken
    wakes,          \* notify_waiters calls due after a release
    requests

usage == <<used, source, results>>
memoryVars == <<usage, cache, cacheLock, held, pc, want, scope, notified, wakes, requests>>

Lease == [query : Queries, bytes : {Source, Kept}, source : {TRUE}]
         \cup [query : Queries, bytes : {Transfer, Kept}, source : {FALSE}]
Entry == [query : Queries, page : Pages]
Bytes(kind) == IF kind = "source" THEN Source ELSE Transfer
Waiting == {"enable", "try", "quota", "scope", "evict", "park"}

MemoryTypeOK ==
    /\ used \in Nat /\ source \in Nat /\ results \in [Queries -> Nat]
    /\ cache \in Seq(Entry) /\ cacheLock \in Queries \cup {NoQuery}
    /\ held \in [Lease -> Nat] /\ wakes \in Nat
    /\ pc \in [Queries -> Waiting \cup {"idle", "insert", "room", "announce", "remove"}]
    /\ want \in [Queries -> {"nothing", "source", "transfer"} \cup Pages]
    /\ scope \in [Queries -> Queries \cup {NoQuery}]
    /\ notified \in [Queries -> BOOLEAN] /\ requests \in [Queries -> 0..MaxRequests]

MemoryInit ==
    /\ used = 0 /\ source = 0 /\ results = [q \in Queries |-> 0]
    /\ cache = <<>> /\ cacheLock = NoQuery /\ held = [l \in Lease |-> 0]
    /\ pc = [q \in Queries |-> "idle"] /\ want = [q \in Queries |-> "nothing"]
    /\ scope = [q \in Queries |-> NoQuery] /\ notified = [q \in Queries |-> FALSE]
    /\ wakes = 0 /\ requests = [q \in Queries |-> 0]

-----------------------------------------------------------------------------
(* The bookkeeping under Memory's state lock.                              *)

SourceBlocked(bytes) == source + bytes > Global \div 4
ResultBlocked(q, bytes) == results[q] + bytes > PerResult
\* try_acquire
Fits(q, bytes, isSource) ==
    /\ used + bytes <= Global /\ ~ResultBlocked(q, bytes)
    /\ isSource => ~SourceBlocked(bytes)

Charge(q, bytes, isSource) ==
    /\ used' = used + bytes
    /\ source' = IF isSource THEN source + bytes ELSE source
    /\ results' = [results EXCEPT ![q] = @ + bytes]

ReleaseSilent(q, bytes, isSource) ==
    /\ used' = used - bytes
    /\ source' = IF isSource THEN source - bytes ELSE source
    /\ results' = [results EXCEPT ![q] = @ - bytes]
    /\ UNCHANGED wakes

\* Memory::release; the waiters are woken after the lock is dropped.
Release(q, bytes, isSource) ==
    /\ used' = used - bytes
    /\ source' = IF isSource THEN source - bytes ELSE source
    /\ results' = [results EXCEPT ![q] = @ - bytes]
    /\ wakes' = wakes + 1

EvictionScope(q, bytes) == IF ResultBlocked(q, bytes) THEN q ELSE NoQuery
Evictable(s) == {i \in DOMAIN cache : s = NoQuery \/ cache[i].query = s}
Newest(i, places) == \A j \in places : i <= j
Oldest(i, places) == \A j \in places : j <= i
\* evict_one: the page used longest ago, of one query or of all.
EvictOne(s) ==
    \E i \in Evictable(s) :
        /\ Oldest(i, Evictable(s)) /\ cache' = RemoveAt(cache, i)
        /\ Release(cache[i].query, Page, FALSE)

Goto(q, label) == pc' = [pc EXCEPT ![q] = label]
\* The request is answered or given up; its future is dropped.
Finish(q, label) ==
    /\ Goto(q, label) /\ want' = [want EXCEPT ![q] = "nothing"]
    /\ notified' = [notified EXCEPT ![q] = FALSE]

-----------------------------------------------------------------------------
(* Memory::acquire.                                                        *)

Requested(q) == requests[q] < MaxRequests /\ requests' = [requests EXCEPT ![q] = @ + 1]

Acquire(q, kind) ==
    /\ pc[q] = "idle" /\ Requested(q)
    /\ want' = [want EXCEPT ![q] = kind] /\ Goto(q, "enable")
    /\ UNCHANGED <<usage, cache, cacheLock, held, scope, notified, wakes>>

\* The future is registered before the books are read.
Enable(q) ==
    /\ pc[q] = "enable" /\ Goto(q, "try")
    /\ notified' = [notified EXCEPT ![q] = FALSE]
    /\ UNCHANGED <<usage, cache, cacheLock, held, want, scope, wakes, requests>>

Try(q) ==
    LET bytes == Bytes(want[q])
        isSource == want[q] = "source"
    IN /\ pc[q] = "try"
       /\ IF Fits(q, bytes, isSource)
          THEN /\ Charge(q, bytes, isSource) /\ Finish(q, "idle")
               /\ held' = [held EXCEPT ![[query |-> q, bytes |-> bytes,
                                          source |-> isSource]] = @ + 1]
          ELSE /\ Goto(q, IF isSource THEN "quota" ELSE "scope")
               /\ UNCHANGED <<usage, held, want, notified>>
       /\ UNCHANGED <<cache, cacheLock, scope, wakes, requests>>

\* Hot pages do not consume the source quota: nothing to evict for it.
CheckQuota(q) ==
    /\ pc[q] = "quota" /\ Goto(q, IF SourceBlocked(Source) THEN "park" ELSE "scope")
    /\ UNCHANGED <<usage, cache, cacheLock, held, want, scope, notified, wakes, requests>>

ReadScope(q) ==
    /\ pc[q] = "scope" /\ Goto(q, "evict")
    /\ scope' = [scope EXCEPT ![q] = EvictionScope(q, Bytes(want[q]))]
    /\ UNCHANGED <<usage, cache, cacheLock, held, want, notified, wakes, requests>>

Evict(q) ==
    /\ pc[q] = "evict" /\ cacheLock = NoQuery
    /\ IF Evictable(scope[q]) # {}
       THEN EvictOne(scope[q]) /\ Goto(q, "enable")
       ELSE Goto(q, "park") /\ UNCHANGED <<usage, cache, wakes>>
    /\ UNCHANGED <<cacheLock, held, want, scope, notified, requests>>

Wake(q) ==
    /\ pc[q] = "park" /\ notified[q] /\ Goto(q, "enable")
    /\ UNCHANGED <<usage, cache, cacheLock, held, want, scope, notified, wakes, requests>>

\* wait_capacity drops the future where it waits: cancel, timeout, disconnect.
Abandon(q) ==
    /\ pc[q] = "park" /\ Finish(q, "idle")
    /\ UNCHANGED <<usage, cache, cacheLock, held, scope, wakes, requests>>

\* Every future registered by now; one registered later missed it.
NotifyWaiters ==
    notified' = [q \in Queries |-> notified[q] \/ pc[q] \in Waiting \ {"enable"}]
Notify ==
    /\ wakes > 0 /\ wakes' = wakes - 1 /\ NotifyWaiters
    /\ UNCHANGED <<usage, cache, cacheLock, held, pc, want, scope, requests>>

-----------------------------------------------------------------------------
(* PageLease: what consumers do with it.                                   *)

Drop(l) ==
    /\ held[l] > 0 /\ held' = [held EXCEPT ![l] = @ - 1]
    /\ Release(l.query, l.bytes, l.source)
    /\ UNCHANGED <<cache, cacheLock, pc, want, scope, notified, requests>>

ShrinkUnmarked(l) ==
    /\ l.bytes > Kept /\ held[l] > 0
    /\ held' = [held EXCEPT ![l] = @ - 1, ![[l EXCEPT !.bytes = Kept]] = @ + 1]
    /\ Release(l.query, l.bytes - Kept, FALSE)
    /\ UNCHANGED <<cache, cacheLock, pc, want, scope, notified, requests>>

\* shrink_to: the surplus is freed.
Shrink(l) ==
    /\ l.bytes > Kept /\ held[l] > 0
    /\ held' = [held EXCEPT ![l] = @ - 1, ![[l EXCEPT !.bytes = Kept]] = @ + 1]
    /\ Release(l.query, l.bytes - Kept, l.source)
    /\ UNCHANGED <<cache, cacheLock, pc, want, scope, notified, requests>>

-----------------------------------------------------------------------------
(* HotCache.  The actor holds the cache's lock over the whole insertion.   *)

Position(q, p) == {i \in DOMAIN cache : cache[i].query = q /\ cache[i].page = p}

\* The page's older copy goes first.
Insert(q, p) ==
    /\ pc[q] = "idle" /\ cacheLock = NoQuery /\ Requested(q)
    /\ cacheLock' = q /\ want' = [want EXCEPT ![q] = p] /\ Goto(q, "insert")
    /\ IF Position(q, p) = {} THEN UNCHANGED <<usage, cache, wakes>>
       ELSE /\ \E i \in Position(q, p) : cache' = RemoveAt(cache, i)
            /\ Release(q, Page, FALSE)
    /\ UNCHANGED <<held, scope, notified>>

Place(q) ==
    /\ pc[q] = "insert"
    /\ IF Fits(q, Page, FALSE)
       THEN /\ Charge(q, Page, FALSE) /\ cacheLock' = NoQuery /\ Finish(q, "announce")
            /\ cache' = <<[query |-> q, page |-> want[q]]>> \o cache
       ELSE Goto(q, "room") /\ UNCHANGED <<usage, cache, cacheLock, want, notified>>
    /\ UNCHANGED <<held, scope, wakes, requests>>

MakeRoom(q) ==
    LET s == EvictionScope(q, Page)
    IN /\ pc[q] = "room"
       /\ IF Evictable(s) # {}
          THEN EvictOne(s) /\ Goto(q, "insert") /\ UNCHANGED <<cacheLock, want, notified>>
          ELSE cacheLock' = NoQuery /\ Finish(q, "idle") /\ UNCHANGED <<usage, cache, wakes>>
       /\ UNCHANGED <<held, scope, requests>>

AnnounceNothing(q) ==
    /\ pc[q] = "announce" /\ Goto(q, "idle")
    /\ UNCHANGED <<usage, cache, cacheLock, held, want, scope, notified, wakes, requests>>

\* cache_changed: a waiter may have found nothing to evict just before.
Announce(q) ==
    /\ pc[q] = "announce" /\ Goto(q, "idle") /\ NotifyWaiters
    /\ UNCHANGED <<usage, cache, cacheLock, held, want, scope, wakes, requests>>

\* read: a hit becomes the page used last.
Read(q, p) ==
    /\ pc[q] = "idle" /\ cacheLock = NoQuery /\ Position(q, p) # {}
    /\ \E i \in Position(q, p) : cache' = <<cache[i]>> \o RemoveAt(cache, i)
    /\ UNCHANGED <<usage, cacheLock, held, pc, want, scope, notified, wakes, requests>>

\* remove: the query is released, or its result replaced by the next one.
RemoveResult(q) ==
    /\ pc[q] = "idle" /\ cacheLock = NoQuery /\ Evictable(q) # {}
    /\ cacheLock' = q /\ Goto(q, "remove")
    /\ UNCHANGED <<usage, cache, held, want, scope, notified, wakes, requests>>

\* The pages go one by one, and each wakes the waiters.
RemoveNext(q) ==
    /\ pc[q] = "remove"
    /\ IF Evictable(q) # {}
       THEN /\ \E i \in Evictable(q) : Newest(i, Evictable(q)) /\ cache' = RemoveAt(cache, i)
            /\ Release(q, Page, FALSE) /\ UNCHANGED <<pc, cacheLock>>
       ELSE cacheLock' = NoQuery /\ Goto(q, "idle") /\ UNCHANGED <<usage, cache, wakes>>
    /\ UNCHANGED <<held, want, scope, notified, requests>>

-----------------------------------------------------------------------------
Proceed(q) ==
    \/ Enable(q) \/ Try(q) \/ CheckQuota(q) \/ ReadScope(q) \/ Evict(q) \/ Wake(q)
    \/ Place(q) \/ MakeRoom(q) \/ Announce(q) \/ RemoveNext(q)

MemoryNext ==
    \/ Notify
    \/ \E q \in Queries :
         \/ Proceed(q) \/ Abandon(q) \/ RemoveResult(q)
         \/ \E kind \in {"source", "transfer"} : Acquire(q, kind)
         \/ \E p \in Pages : Insert(q, p) \/ Read(q, p)
    \/ \E l \in Lease : Drop(l) \/ Shrink(l)

\* Threads keep running, and a consumer drops every lease in the end.
MemoryFairness ==
    /\ WF_memoryVars(Notify)
    /\ \A q \in Queries : WF_memoryVars(Proceed(q))
    /\ \A l \in Lease : WF_memoryVars(Drop(l))

MemorySpec == MemoryInit /\ [][MemoryNext]_memoryVars /\ MemoryFairness

-----------------------------------------------------------------------------
(* What the broker promises.                                               *)

HeldBytes(leases) == MapThenSumSet(LAMBDA l : held[l] * l.bytes, leases)
Reserved(q) ==
    HeldBytes({l \in Lease : l.query = q}) + Page * Cardinality(Evictable(q))

\* The three counters say exactly what all leases and cached pages amount to, through
\* concurrent shrinking, eviction and replacement, and no budget is ever exceeded: not the
\* process's, not a result's, not the quarter of idle sources; the unchecked subtractions of
\* the code rely on it.
Accounted ==
    /\ \A q \in Queries : results[q] = Reserved(q) /\ results[q] <= PerResult
    /\ used = MapThenSumSet(Reserved, Queries) /\ used <= Global
    /\ source = HeldBytes({l \in Lease : l.source}) /\ source <= Global \div 4

\* No wake-up is lost: an actor left asleep, once every thread that freed or cached
\* something has reached its notification, neither fits nor has a page to evict.
NoLostWakeup ==
    \A q \in Queries :
        (pc[q] = "park" /\ ~notified[q] /\ wakes = 0 /\ \A r \in Queries : pc[r] # "announce") =>
            LET bytes == Bytes(want[q])
                isSource == want[q] = "source"
            IN /\ ~Fits(q, bytes, isSource)
               /\ \/ isSource /\ SourceBlocked(bytes)
                  \/ Evictable(EvictionScope(q, bytes)) = {}

\* A page that is cached never starves a reservation: every wait ends once the
\* consumers let their leases go, whatever the cache holds.
WaitEnds == \A q \in Queries : pc[q] = "park" ~> pc[q] = "idle"
=============================================================================
