------------------------ MODULE EngineMemory_proofs ------------------------
(***************************************************************************)
(* Stale handles never resolve, for any number of slots and generations,   *)
(* and an actor that waits for memory is never left asleep when it could   *)
(* have had it, for any number of queries and any budgets.                 *)
(***************************************************************************)
EXTENDS HandleArena, PageMemory, TLAPS
LOCAL INSTANCE SequencesExt

-----------------------------------------------------------------------------
\* What the generations are for.  A handle names a slot that exists and has not gone
\* back behind it; it stands for something only at the slot's present generation,
\* and then for what the slot holds; and the handle a reusable slot would issue
\* next has never been issued.
Past(h) == h.slot \in DOMAIN slots /\ h.generation <= slots[h.slot].generation
Present(h) ==
    given[h] = IF slots[h.slot].generation = h.generation THEN slots[h.slot].value ELSE Empty
Unissued(i) == [slot |-> i, generation |-> slots[i].generation] \notin DOMAIN given

Inv ==
    /\ TypeOK
    /\ \A h \in DOMAIN given : Past(h) /\ Present(h)
    /\ \A i \in Reusable : Unissued(i)

\* The empty arena satisfies the invariant.
LEMMA InitInv == Init => Inv
  BY SizeAssumption DEF Init, Inv, TypeOK, Reusable, Handle, Slot

\* insert into a free slot (ids.rs, find): the handle is new.
LEMMA ReuseInv == ASSUME Inv, NEW v \in Values, Reuse(v) PROVE Inv'
  <1> USE EmptyAssumption, SizeAssumption
  <1>1. PICK i \in Reusable :
          /\ slots' = [slots EXCEPT ![i].value = v]
          /\ Give([slot |-> i, generation |-> slots[i].generation], v)
    BY DEF Reuse
  <1> DEFINE n == [slot |-> i, generation |-> slots[i].generation]
  <1>2. i \in 1..Len(slots) /\ slots[i] \in Slot /\ slots[i].generation \in 0..LastGeneration
    <2>1. slots \in Seq(Slot) /\ i \in DOMAIN slots
      BY DEF Inv, TypeOK, Reusable
    <2>2. i \in 1..Len(slots) /\ slots[i] \in Slot
      BY <2>1
    <2> QED BY <2>2 DEF Slot
  <1>3. n \in Handle /\ n \notin DOMAIN given
    BY <1>2 DEF Handle, Inv, Unissued
  <1>4. /\ DOMAIN slots' = DOMAIN slots
        /\ \A j \in DOMAIN slots : slots'[j].generation = slots[j].generation
        /\ \A j \in DOMAIN slots : j # i => slots'[j] = slots[j]
        /\ slots'[i].value = v
    BY <1>1, <1>2 DEF Inv, TypeOK, Slot
  <1>5. /\ DOMAIN given' = DOMAIN given \cup {n} /\ given'[n] = v
        /\ \A h \in DOMAIN given : given'[h] = given[h]
    BY <1>1, <1>3 DEF Give
  <1>6. TypeOK'
    <2>1. slots' \in Seq(Slot)
      BY <1>1, <1>2 DEF Inv, TypeOK, Slot
    <2>2. DOMAIN given' \subseteq Handle
      BY <1>3, <1>5 DEF Inv, TypeOK
    <2>3. given' \in [DOMAIN given' -> Values \cup {Empty}]
      <3>1. \A k \in DOMAIN given : given[k] \in Values \cup {Empty}
        BY DEF Inv, TypeOK
      <3> QED BY <1>1, <3>1 DEF Give
    <2> QED BY <2>1, <2>2, <2>3 DEF TypeOK
  <1>7. \A h \in DOMAIN given' : (Past(h) /\ Present(h))'
    <2> TAKE h \in DOMAIN given'
    <2>1. CASE h = n
      BY <2>1, <1>2, <1>3, <1>4, <1>5 DEF Past, Present
    <2>2. CASE h \in DOMAIN given
      <3>1. Past(h) /\ Present(h) /\ h \in Handle
        BY <2>2 DEF Inv, TypeOK
      <3>2. CASE h.slot # i
        BY <2>2, <3>1, <3>2, <1>4, <1>5 DEF Past, Present
      <3>3. CASE h.slot = i
        <4>1. h.generation # slots[i].generation
          BY <3>1, <3>3, <2>2, <1>3 DEF Handle
        <4> QED BY <2>2, <3>1, <3>3, <4>1, <1>4, <1>5 DEF Past, Present
      <3> QED BY <3>2, <3>3
    <2> QED BY <2>1, <2>2, <1>5
  <1>8. \A j \in Reusable' : Unissued(j)'
    <2> TAKE j \in Reusable'
    <2>1. j # i /\ j \in Reusable
      BY <1>1, <1>4 DEF Reusable
    <2> QED BY <2>1, <1>4, <1>5 DEF Inv, Unissued, Reusable
  <1> QED BY <1>6, <1>7, <1>8 DEF Inv

\* insert at the end: no handle names the new slot yet.
LEMMA ExtendInv == ASSUME Inv, NEW v \in Values, Extend(v) PROVE Inv'
  <1> USE EmptyAssumption, SizeAssumption
  <1> DEFINE i == Len(slots) + 1
             n == [slot |-> i, generation |-> 0]
  <1>1. /\ slots \in Seq(Slot) /\ Len(slots) \in Nat /\ DOMAIN slots = 1..Len(slots)
        /\ Reusable = {}
        /\ slots' = Append(slots, [generation |-> 0, value |-> v])
        /\ Give(n, v)
    BY DEF Extend, Inv, TypeOK
  <1>2. n \in Handle /\ n \notin DOMAIN given
    BY <1>1 DEF Handle, Inv, Past
  <1>3. /\ DOMAIN slots' = DOMAIN slots \cup {i} /\ i \notin DOMAIN slots
        /\ \A j \in DOMAIN slots : slots'[j] = slots[j]
        /\ slots'[i] = [generation |-> 0, value |-> v]
    BY <1>1
  <1>4. /\ DOMAIN given' = DOMAIN given \cup {n} /\ given'[n] = v
        /\ \A h \in DOMAIN given : given'[h] = given[h]
    BY <1>1, <1>2 DEF Give
  <1>5. TypeOK'
    <2>1. slots' \in Seq(Slot)
      <3>1. [generation |-> 0, value |-> v] \in Slot
        BY DEF Slot
      <3> QED BY <1>1, <3>1
    <2>2. DOMAIN given' \subseteq Handle
      BY <1>2, <1>4 DEF Inv, TypeOK
    <2>3. given' \in [DOMAIN given' -> Values \cup {Empty}]
      <3>1. \A k \in DOMAIN given : given[k] \in Values \cup {Empty}
        BY DEF Inv, TypeOK
      <3> QED BY <1>1, <3>1 DEF Give
    <2> QED BY <2>1, <2>2, <2>3 DEF TypeOK
  <1>6. \A h \in DOMAIN given' : (Past(h) /\ Present(h))'
    <2> TAKE h \in DOMAIN given'
    <2>1. CASE h = n
      BY <2>1, <1>3, <1>4 DEF Past, Present
    <2>2. CASE h \in DOMAIN given
      BY <2>2, <1>3, <1>4 DEF Inv, Past, Present
    <2> QED BY <2>1, <2>2, <1>4
  <1>7. Reusable' = {}
    BY <1>1, <1>3 DEF Reusable
  <1> QED BY <1>5, <1>6, <1>7 DEF Inv

\* remove: the generation moves on, or the slot is retired.
LEMMA RemoveInv == ASSUME Inv, NEW h \in DOMAIN given, RemoveSlot(h) PROVE Inv'
  <1> USE EmptyAssumption, SizeAssumption
  <1> DEFINE i == h.slot
             g == slots[i].generation
  <1>1. /\ slots \in Seq(Slot) /\ i \in DOMAIN slots /\ DOMAIN slots = 1..Len(slots)
        /\ slots[i] \in Slot /\ g \in 0..LastGeneration /\ h.generation = g
        /\ slots[i].value # Empty
    <2>1. slots \in Seq(Slot)
      BY DEF Inv, TypeOK
    <2>2. DOMAIN slots = 1..Len(slots)
      BY <2>1
    <2>3. i \in DOMAIN slots /\ h.generation = g /\ slots[i].value # Empty
      BY DEF RemoveSlot, Get, Names
    <2>4. slots[i] \in Slot
      BY <2>1, <2>2, <2>3
    <2> QED BY <2>1, <2>2, <2>3, <2>4 DEF Slot
  <1>2. Advance(g) \in 0..LastGeneration /\ Advance(g) >= g /\ (g < LastGeneration => Advance(g) > g)
    BY <1>1 DEF Advance
  <1>3. slots' = [slots EXCEPT ![i] = [generation |-> Advance(g), value |-> Empty]]
    BY <1>1 DEF RemoveSlot
  <1>4. /\ DOMAIN slots' = DOMAIN slots
        /\ \A j \in DOMAIN slots : j # i => slots'[j] = slots[j]
        /\ slots'[i] = [generation |-> Advance(g), value |-> Empty]
    BY <1>1, <1>3
  <1>5. /\ DOMAIN given' = DOMAIN given /\ given'[h] = Empty
        /\ \A k \in DOMAIN given : k # h => given'[k] = given[k]
        /\ given' \in [DOMAIN given -> Values \cup {Empty}]
    BY DEF RemoveSlot, Inv, TypeOK
  <1>6. TypeOK'
    <2>1. [generation |-> Advance(g), value |-> Empty] \in Slot
      BY <1>2 DEF Slot
    <2> QED BY <1>1, <1>3, <1>5, <2>1 DEF Inv, TypeOK
  <1>7. \A k \in DOMAIN given' : (Past(k) /\ Present(k))'
    <2> TAKE k \in DOMAIN given'
    <2>1. Past(k) /\ Present(k) /\ k \in Handle
      BY <1>5 DEF Inv, TypeOK
    <2>2. CASE k.slot # i
      <3>1. k # h
        BY <2>2
      <3> QED BY <2>1, <2>2, <3>1, <1>4, <1>5 DEF Past, Present
    <2>3. CASE k.slot = i
      <3>1. k.generation \in Nat /\ k.generation <= g
        BY <2>1, <2>3 DEF Past, Handle
      <3>2. given'[k] = Empty
        <4>1. CASE k = h
          BY <4>1, <1>5
        <4>2. CASE k # h
          <5>1. k.generation # g
            BY <4>2, <2>1, <2>3, <1>1 DEF Handle, Inv, TypeOK
          <5> QED BY <5>1, <4>2, <2>1, <2>3, <1>5 DEF Present
        <4> QED BY <4>1, <4>2
      <3> QED BY <2>3, <3>1, <3>2, <1>1, <1>2, <1>4 DEF Past, Present
    <2> QED BY <2>2, <2>3
  <1>8. \A j \in Reusable' : Unissued(j)'
    <2> TAKE j \in Reusable'
    <2>1. CASE j = i
      <3>1. Advance(g) > g
        BY <2>1, <1>1, <1>2, <1>4 DEF Reusable, Advance
      <3>2. \A k \in DOMAIN given : k.slot = i => k.generation <= g
        BY DEF Inv, Past
      <3>3. \A k \in DOMAIN given : k # [slot |-> i, generation |-> Advance(g)]
        BY <3>1, <3>2, <1>1, <1>2
      <3> QED BY <2>1, <3>3, <1>4, <1>5 DEF Unissued
    <2>2. CASE j # i
      BY <2>2, <1>4, <1>5 DEF Inv, Unissued, Reusable
    <2> QED BY <2>1, <2>2
  <1> QED BY <1>6, <1>7, <1>8 DEF Inv

\* Every step keeps the invariant.
LEMMA NextInv == Inv /\ [Next]_vars => Inv'
  <1> SUFFICES ASSUME Inv, [Next]_vars PROVE Inv'
    OBVIOUS
  <1>1. CASE \E v \in Values : Reuse(v)
    BY <1>1, ReuseInv
  <1>2. CASE \E v \in Values : Extend(v)
    BY <1>2, ExtendInv
  <1>3. CASE \E h \in DOMAIN given : RemoveSlot(h)
    BY <1>3, RemoveInv
  <1>4. CASE UNCHANGED vars
    BY <1>4 DEF vars, Inv, TypeOK, Past, Present, Unissued, Reusable
  <1> QED BY <1>1, <1>2, <1>3, <1>4 DEF Next

\* The arena's invariant holds in every reachable state (ids.rs).
THEOREM ArenaInv == Spec => []Inv
  BY InitInv, NextInv, PTL DEF Spec

\* A handle resolves to the value it was issued for until it is removed, and to
\* nothing afterwards: a stale handle of the engine is always refused (ids.rs, get).
THEOREM StaleHandlesAreRefused == Spec => []ResolvesToItsOwn
  <1>1. Inv => ResolvesToItsOwn
    BY DEF Inv, Past, Present, ResolvesToItsOwn, Get, Names
  <1> QED BY <1>1, ArenaInv, PTL

-----------------------------------------------------------------------------
USE BudgetAssumption

Wanted == {"nothing", "source", "transfer"} \cup Pages
MemoryShape ==
    /\ used \in Int /\ source \in Int /\ results \in [Queries -> Int]
    /\ cache \in Seq(Entry) /\ wakes \in Nat
    /\ pc \in [Queries -> Waiting \cup {"idle", "insert", "room", "announce", "remove"}]
    /\ want \in [Queries -> Wanted]
    /\ scope \in [Queries -> Queries \cup {NoQuery}]
    /\ notified \in [Queries -> BOOLEAN]

\* Whoever looked at the books, and has not been told since that they have changed, or is about to be.
Asleep(q) == ~notified[q] /\ wakes = 0 /\ \A r \in Queries : pc[r] # "announce"
Scope(q) == EvictionScope(q, Bytes(want[q]))
\* What an actor has seen between its failed attempt and its sleep is still so.
Unchanged(q) ==
    /\ pc[q] \in {"quota", "scope", "evict", "park"} => ~Fits(q, Bytes(want[q]), want[q] = "source")
    /\ pc[q] = "evict" => scope[q] = Scope(q)
    /\ pc[q] = "park" => (want[q] = "source" /\ SourceBlocked(Bytes(want[q]))) \/ Evictable(Scope(q)) = {}

\* What an actor is busy with is what it asks for.
Kind(q) == (pc[q] = "quota" => want[q] = "source") /\ (pc[q] \in {"insert", "room"} => want[q] \in Pages)

MemoryInv ==
    /\ MemoryShape
    /\ \A q \in Queries : Kind(q) /\ (Asleep(q) => Unchanged(q))

-----------------------------------------------------------------------------
LEMMA BytesAreNumbers == \A q \in Queries : Bytes(want[q]) \in Nat
  BY DEF Bytes

\* Taking a page out leaves a sequence of pages.
LEMMA TakenOut ==
    ASSUME MemoryShape, NEW i \in DOMAIN cache, cache' = RemoveAt(cache, i)
    PROVE  cache' \in Seq(Entry)
  <1>1. cache \in Seq(Entry) /\ i \in 1..Len(cache)
    BY DEF MemoryShape
  <1>2. /\ SubSeq(cache, 1, i - 1) \in Seq(Entry) /\ SubSeq(cache, i + 1, Len(cache)) \in Seq(Entry)
    BY <1>1
  <1> QED BY <1>2 DEF RemoveAt

\* What is freed is announced, whatever else happens to those who wait.
LEMMA Freed ==
    ASSUME MemoryInv, NEW q \in Queries, NEW bytes \in Int, NEW isSource \in BOOLEAN,
           Release(q, bytes, isSource),
           cache' \in Seq(Entry), UNCHANGED <<want, scope, notified>>,
           pc' \in [Queries -> Waiting \cup {"idle", "insert", "room", "announce", "remove"}],
           \A r \in Queries : Kind(r)'
    PROVE  MemoryInv'
  <1>1. wakes' # 0
    BY DEF MemoryInv, MemoryShape, Release
  <1>2. MemoryShape'
    <2>1. used' \in Int /\ source' \in Int /\ wakes' \in Nat
      BY DEF MemoryInv, MemoryShape, Release
    <2>2. results' \in [Queries -> Int]
      BY DEF MemoryInv, MemoryShape, Release
    <2> QED BY <2>1, <2>2 DEF MemoryInv, MemoryShape
  <1> QED BY <1>1, <1>2 DEF MemoryInv, Asleep

\* A step that charges at most, and moves only one actor, which comes to wait in none of the stages
\* in which something has been seen, or has seen it.
LEMMA Charged ==
    ASSUME MemoryInv, NEW q \in Queries, MemoryShape',
           wakes' = wakes,
           \A r \in Queries : r # q => /\ pc'[r] = pc[r] /\ want'[r] = want[r] /\ scope'[r] = scope[r]
                                      /\ results'[r] = results[r] /\ notified'[r] = notified[r],
           used' >= used, source' >= source,
           pc[q] # "announce",
           pc'[q] # "announce" => \A i \in DOMAIN cache' : \E j \in DOMAIN cache : cache'[i] = cache[j],
           Kind(q)',
           Asleep(q)' => Unchanged(q)'
    PROVE  MemoryInv'
  <1>1. ASSUME NEW r \in Queries, r # q, Asleep(r)' PROVE Unchanged(r)'
    <2>1. Asleep(r) /\ Unchanged(r) /\ pc'[q] # "announce"
      BY <1>1 DEF MemoryInv, Asleep
    <2>2. /\ pc'[r] = pc[r] /\ want'[r] = want[r] /\ results'[r] = results[r] /\ scope'[r] = scope[r]
          /\ Bytes(want[r]) \in Nat
      BY <1>1, BytesAreNumbers
    <2>3. Scope(r)' = Scope(r)
      BY <2>2 DEF Scope, EvictionScope, ResultBlocked
    <2>4. ~Fits(r, Bytes(want[r]), want[r] = "source") => ~Fits(r, Bytes(want[r]), want[r] = "source")'
      <3>1. /\ used \in Int /\ source \in Int /\ used' \in Int /\ source' \in Int
            /\ Global \div 4 \in Int /\ Global \in Int
        BY DEF MemoryInv, MemoryShape
      <3> QED BY <2>2, <3>1 DEF Fits, ResultBlocked, SourceBlocked
    <2>5. SourceBlocked(Bytes(want[r])) => SourceBlocked(Bytes(want[r]))'
      <3>1. source \in Int /\ source' \in Int /\ Global \div 4 \in Int
        BY DEF MemoryInv, MemoryShape
      <3> QED BY <2>2, <3>1 DEF SourceBlocked
    <2>6. Evictable(Scope(r)) = {} => Evictable(Scope(r))' = {}
      BY <2>1, <2>3 DEF Evictable
    <2> QED BY <2>1, <2>2, <2>3, <2>4, <2>5, <2>6 DEF Unchanged
  <1>2. ASSUME NEW r \in Queries PROVE Kind(r)'
    BY DEF MemoryInv, Kind
  <1> QED BY <1>1, <1>2 DEF MemoryInv

\* Whoever waits is told, whatever stage it is in.
LEMMA Told ==
    ASSUME MemoryInv, NotifyWaiters, wakes' \in Nat,
           \A q \in Queries : pc'[q] \in Waiting \cup {"insert", "room"} => pc[q] = pc'[q],
           pc' \in [Queries -> Waiting \cup {"idle", "insert", "room", "announce", "remove"}],
           UNCHANGED <<usage, cache, want, scope>>
    PROVE  MemoryInv'
  <1>1. MemoryShape'
    BY DEF MemoryInv, MemoryShape, NotifyWaiters, usage
  <1>2. ASSUME NEW q \in Queries, Asleep(q)' PROVE Unchanged(q)'
    BY <1>2 DEF Asleep, Unchanged, NotifyWaiters, Waiting
  <1>3. \A q \in Queries : Kind(q)'
    BY DEF MemoryInv, Kind, Waiting
  <1> QED BY <1>1, <1>2, <1>3 DEF MemoryInv

-----------------------------------------------------------------------------
LEMMA EnableNext == ASSUME MemoryInv, NEW q \in Queries, Enable(q) PROVE MemoryInv'
  <1>1. MemoryShape'
    BY DEF MemoryInv, MemoryShape, Enable, Goto, Waiting, usage
  <1>2. pc[q] = "enable" /\ pc'[q] = "try" /\ Unchanged(q)' /\ Kind(q)'
    BY DEF MemoryInv, MemoryShape, Enable, Goto, Unchanged, Kind
  <1>3. used' >= used /\ source' >= source /\ cache' = cache /\ wakes' = wakes
    BY DEF MemoryInv, MemoryShape, Enable, usage
  <1>4. \A r \in Queries : r # q => /\ pc'[r] = pc[r] /\ want'[r] = want[r] /\ scope'[r] = scope[r]
                                      /\ results'[r] = results[r] /\ notified'[r] = notified[r]
    BY DEF MemoryInv, MemoryShape, Enable, Goto, usage
  <1> QED BY <1>1, <1>2, <1>3, <1>4, Charged

LEMMA TryNext == ASSUME MemoryInv, NEW q \in Queries, Try(q) PROVE MemoryInv'
  <1> DEFINE bytes == Bytes(want[q])
             isSource == want[q] = "source"
  <1>1. pc[q] = "try" /\ cache' = cache /\ wakes' = wakes /\ scope' = scope /\ bytes \in Nat
    BY BytesAreNumbers DEF Try
  <1>2. CASE Fits(q, bytes, isSource)
    <2>1. /\ Charge(q, bytes, isSource) /\ pc' = [pc EXCEPT ![q] = "idle"]
          /\ want' = [want EXCEPT ![q] = "nothing"] /\ notified' = [notified EXCEPT ![q] = FALSE]
      BY <1>2 DEF Try, Finish, Goto
    <2> HIDE DEF bytes, isSource
    <2>2. used' >= used /\ source' >= source /\ used' \in Int /\ source' \in Int /\ results' \in [Queries -> Int]
      BY <1>1, <2>1 DEF Charge, MemoryInv, MemoryShape
    <2>3. MemoryShape'
      BY <1>1, <2>1, <2>2 DEF MemoryInv, MemoryShape, Wanted
    <2>4. pc'[q] = "idle" /\ Unchanged(q)' /\ Kind(q)'
      BY <2>1 DEF MemoryInv, MemoryShape, Unchanged, Kind
    <2>5. \A r \in Queries : r # q => /\ pc'[r] = pc[r] /\ want'[r] = want[r] /\ scope'[r] = scope[r]
                                        /\ results'[r] = results[r] /\ notified'[r] = notified[r]
      BY <1>1, <2>1 DEF Charge, MemoryInv, MemoryShape
    <2> QED BY <1>1, <2>2, <2>3, <2>4, <2>5, Charged
  <1>3. CASE ~Fits(q, bytes, isSource)
    <2>1. UNCHANGED <<usage, want, notified>> /\ pc' = [pc EXCEPT ![q] = IF isSource THEN "quota" ELSE "scope"]
      BY <1>3 DEF Try, Goto
    <2>2. MemoryShape'
      BY <1>1, <2>1 DEF MemoryInv, MemoryShape, usage, Waiting
    <2>3. pc'[q] \in {"quota", "scope"} /\ Kind(q)'
      BY <1>1, <2>1 DEF MemoryInv, MemoryShape, Kind
    <2>4. Unchanged(q)'
      BY <1>1, <1>3, <2>1, <2>3 DEF Unchanged, Fits, ResultBlocked, SourceBlocked, usage
    <2>5. \A r \in Queries : r # q => /\ pc'[r] = pc[r] /\ want'[r] = want[r] /\ scope'[r] = scope[r]
                                        /\ results'[r] = results[r] /\ notified'[r] = notified[r]
      BY <1>1, <2>1 DEF usage, MemoryInv, MemoryShape
    <2>6. used' >= used /\ source' >= source
      BY <2>1 DEF usage, MemoryInv, MemoryShape
    <2> QED BY <1>1, <2>2, <2>3, <2>4, <2>5, <2>6, Charged
  <1> QED BY <1>2, <1>3

\* A step of one actor in which nothing moves but where it stands and what it asks for.
LEMMA Moved ==
    ASSUME MemoryInv, NEW q \in Queries, pc[q] # "announce",
           UNCHANGED <<usage, cache, wakes>>,
           NEW told \in BOOLEAN, notified' = [notified EXCEPT ![q] = told],
           NEW place \in (Waiting \cup {"idle", "insert", "room", "remove"}) \ {"quota"}, 
           pc' = [pc EXCEPT ![q] = place],
           NEW w \in Wanted, want' = [want EXCEPT ![q] = w],
           NEW s \in Queries \cup {NoQuery}, scope' = [scope EXCEPT ![q] = s],
           place \in {"insert", "room"} => w \in Pages,
           Asleep(q)' => Unchanged(q)'
    PROVE  MemoryInv'
  <1>1. MemoryShape' /\ Kind(q)'
    BY DEF MemoryInv, MemoryShape, usage, Kind
  <1>2. pc'[q] = place /\ used' >= used /\ source' >= source
    BY DEF MemoryInv, MemoryShape, usage
  <1>3. \A r \in Queries : r # q => /\ pc'[r] = pc[r] /\ want'[r] = want[r] /\ scope'[r] = scope[r]
                                      /\ results'[r] = results[r] /\ notified'[r] = notified[r]
    BY DEF MemoryInv, MemoryShape, usage
  <1> QED BY <1>1, <1>2, <1>3, Charged

LEMMA LookNext ==
    ASSUME MemoryInv, NEW q \in Queries, CheckQuota(q) \/ ReadScope(q) \/ (Evict(q) /\ Evictable(scope[q]) = {})
    PROVE  MemoryInv'
  <1>1. /\ UNCHANGED <<usage, cache, notified, wakes, want>>
        /\ pc[q] \in {"quota", "scope", "evict"} /\ want[q] \in Wanted
        /\ scope[q] \in Queries \cup {NoQuery} /\ Scope(q) \in Queries \cup {NoQuery}
    BY DEF CheckQuota, ReadScope, Evict, usage, Scope, EvictionScope, MemoryInv, MemoryShape
  <1>2. /\ want' = [want EXCEPT ![q] = want[q]]
        /\ notified' = [notified EXCEPT ![q] = notified[q]] /\ notified[q] \in BOOLEAN
    BY <1>1, Zenon DEF MemoryInv, MemoryShape
  <1>3. ASSUME Asleep(q)'
        PROVE  /\ Asleep(q) /\ Unchanged(q)
               /\ ~Fits(q, Bytes(want[q]), want[q] = "source")'
    <2>1. Asleep(q)
      BY <1>1, <1>3 DEF Asleep, CheckQuota, ReadScope, Evict, Goto, MemoryInv, MemoryShape
    <2> QED BY <1>1, <2>1 DEF MemoryInv, Unchanged, Fits, ResultBlocked, SourceBlocked, usage
  <1>4. CASE CheckQuota(q)
    <2>1. scope' = [scope EXCEPT ![q] = scope[q]]
      BY <1>4 DEF CheckQuota, MemoryInv, MemoryShape
    <2>2. pc' = [pc EXCEPT ![q] = IF SourceBlocked(Source) THEN "park" ELSE "scope"] /\ want[q] = "source"
      BY <1>4 DEF CheckQuota, Goto, MemoryInv, Kind
    <2>3. SourceBlocked(Source) => SourceBlocked(Bytes(want[q]))'
      BY <1>1, <2>2 DEF SourceBlocked, Bytes, usage
    <2>4. Asleep(q)' => Unchanged(q)'
      BY <1>1, <1>3, <2>2, <2>3 DEF Unchanged, MemoryInv, MemoryShape
    <2>5. PICK place \in {"park", "scope"} : pc' = [pc EXCEPT ![q] = place]
      BY <2>2
    <2>6. place \in (Waiting \cup {"idle", "insert", "room", "remove"}) \ {"quota"} /\ place \notin {"insert", "room"}
      BY DEF Waiting
    <2>7. pc[q] # "announce"
      BY <1>1
    <2> QED BY <1>1, <1>2, <2>1, <2>4, <2>5, <2>6, <2>7, Moved
  <1>5. CASE ReadScope(q)
    <2>1. scope' = [scope EXCEPT ![q] = Scope(q)] /\ pc' = [pc EXCEPT ![q] = "evict"]
      BY <1>5 DEF ReadScope, Scope, Goto
    <2>2. scope'[q] = Scope(q)' /\ pc'[q] = "evict"
      BY <1>1, <2>1 DEF Scope, EvictionScope, ResultBlocked, usage, MemoryInv, MemoryShape
    <2>3. Asleep(q)' => Unchanged(q)'
      BY <1>3, <2>2 DEF Unchanged
    <2>4. "evict" \in (Waiting \cup {"idle", "insert", "room", "remove"}) \ {"quota"} /\ "evict" \notin {"insert", "room"}
      BY DEF Waiting
    <2>5. pc[q] # "announce"
      BY <1>1
    <2> QED BY <1>1, <1>2, <2>1, <2>3, <2>4, <2>5, Moved
  <1>6. CASE Evict(q) /\ Evictable(scope[q]) = {}
    <2>1. scope' = [scope EXCEPT ![q] = scope[q]] /\ pc' = [pc EXCEPT ![q] = "park"] /\ pc[q] = "evict"
      BY <1>6 DEF Evict, Goto, MemoryInv, MemoryShape
    <2>2. Scope(q)' = Scope(q) /\ \A t : Evictable(t)' = Evictable(t)
      BY <1>1 DEF Scope, EvictionScope, ResultBlocked, Evictable, usage
    <2>3. ASSUME Asleep(q)' PROVE Unchanged(q)'
      <3>1. scope[q] = Scope(q)
        BY <1>3, <2>1, <2>3 DEF Unchanged
      <3>2. Evictable(Scope(q))' = {} /\ pc'[q] = "park"
        BY <1>6, <2>1, <2>2, <3>1 DEF MemoryInv, MemoryShape
      <3> QED BY <1>3, <2>3, <3>2 DEF Unchanged
    <2>4. "park" \in (Waiting \cup {"idle", "insert", "room", "remove"}) \ {"quota"} /\ "park" \notin {"insert", "room"}
      BY DEF Waiting
    <2>5. pc[q] # "announce"
      BY <1>1
    <2> QED BY <1>1, <1>2, <2>1, <2>3, <2>4, <2>5, Moved
  <1> QED BY <1>4, <1>5, <1>6

LEMMA StepNext ==
    ASSUME MemoryInv, NEW q \in Queries,
           \/ Wake(q) \/ Abandon(q) \/ RemoveResult(q)
           \/ \E kind \in {"source", "transfer"} : Acquire(q, kind)
           \/ \E p \in Pages : Insert(q, p) /\ Position(q, p) = {}
           \/ Place(q) /\ ~Fits(q, Page, FALSE)
           \/ MakeRoom(q) /\ Evictable(EvictionScope(q, Page)) = {}
           \/ RemoveNext(q) /\ Evictable(q) = {}
    PROVE  MemoryInv'
  <1>1. UNCHANGED <<usage, cache, wakes, scope>> /\ pc[q] # "announce"
    BY DEF Wake, Abandon, RemoveResult, Acquire, Insert, Place, MakeRoom, RemoveNext, usage
  <1>2. /\ scope' = [scope EXCEPT ![q] = scope[q]] /\ scope[q] \in Queries \cup {NoQuery}
        /\ want = [want EXCEPT ![q] = want[q]] /\ want[q] \in Wanted
    BY <1>1 DEF MemoryInv, MemoryShape
  <1>3. PICK place \in {"idle", "enable", "insert", "room", "remove"}, w \in Wanted, told \in BOOLEAN :
                /\ pc' = [pc EXCEPT ![q] = place] /\ want' = [want EXCEPT ![q] = w]
                /\ notified' = [notified EXCEPT ![q] = told]
                /\ place \in {"insert", "room"} => w \in Pages
    <2>0. notified = [notified EXCEPT ![q] = notified[q]] /\ notified[q] \in BOOLEAN
      BY Zenon DEF MemoryInv, MemoryShape
    <2>1. CASE Wake(q) \/ RemoveResult(q)
      BY <1>2, <2>0, <2>1 DEF Wake, RemoveResult, Goto
    <2>2. CASE \E kind \in {"source", "transfer"} : Acquire(q, kind)
      BY <2>0, <2>2 DEF Acquire, Goto, Wanted
    <2>3. CASE \E p \in Pages : Insert(q, p) /\ Position(q, p) = {}
      BY <2>0, <2>3 DEF Insert, Goto, Wanted
    <2>4. CASE Place(q) /\ ~Fits(q, Page, FALSE)
      BY <1>2, <2>0, <2>4 DEF Place, Goto, MemoryInv, Kind
    <2>5. CASE MakeRoom(q) /\ Evictable(EvictionScope(q, Page)) = {}
      BY <2>5 DEF MakeRoom, Finish, Goto, Wanted
    <2>6. CASE RemoveNext(q) /\ Evictable(q) = {}
      BY <1>2, <2>0, <2>6 DEF RemoveNext, Goto
    <2>7. CASE Abandon(q)
      BY <2>7 DEF Abandon, Finish, Goto, Wanted
    <2> QED BY <2>1, <2>2, <2>3, <2>4, <2>5, <2>6, <2>7
  <1>4. Unchanged(q)'
    BY <1>3 DEF Unchanged, MemoryInv, MemoryShape
  <1> QED BY <1>1, <1>2, <1>3, <1>4, Moved DEF Waiting

LEMMA FreeNext ==
    ASSUME MemoryInv, NEW q \in Queries,
           \/ Evict(q) /\ Evictable(scope[q]) # {}
           \/ MakeRoom(q) /\ Evictable(EvictionScope(q, Page)) # {}
           \/ RemoveNext(q) /\ Evictable(q) # {}
    PROVE  MemoryInv'
  <1>1. PICK s : Evictable(s) # {} /\ (EvictOne(s) \/ (s = q /\ RemoveNext(q)))
    BY DEF Evict, MakeRoom
  <1>2. PICK i \in DOMAIN cache : /\ cache' = RemoveAt(cache, i)
                                  /\ Release(cache[i].query, Page, FALSE)
    <2>1. CASE EvictOne(s)
      BY <2>1 DEF EvictOne, Evictable
    <2>2. CASE s = q /\ RemoveNext(q)
      <3>1. PICK i \in Evictable(q) : cache' = RemoveAt(cache, i)
        BY <1>1, <2>2 DEF RemoveNext
      <3>2. i \in DOMAIN cache /\ cache[i].query = q
        BY <3>1 DEF Evictable
      <3> QED BY <1>1, <2>2, <3>1, <3>2 DEF RemoveNext
    <2> QED BY <1>1, <2>1, <2>2
  <1>3. cache' \in Seq(Entry)
    BY <1>2, TakenOut DEF MemoryInv
  <1>4. cache[i].query \in Queries
    <2>1. cache[i] \in Entry
      BY DEF MemoryInv, MemoryShape
    <2> QED BY <2>1 DEF Entry
  <1>5. /\ UNCHANGED <<want, scope, notified>>
        /\ \/ \E place \in {"enable", "remove"} : pc' = [pc EXCEPT ![q] = place]
           \/ pc[q] = "room" /\ pc' = [pc EXCEPT ![q] = "insert"]
    <2>1. pc = [pc EXCEPT ![q] = pc[q]]
      BY DEF MemoryInv, MemoryShape
    <2>2. CASE Evict(q) /\ Evictable(scope[q]) # {}
      BY <2>2 DEF Evict, Goto
    <2>3. CASE MakeRoom(q) /\ Evictable(EvictionScope(q, Page)) # {}
      BY <2>3 DEF MakeRoom, Goto
    <2>4. CASE RemoveNext(q) /\ Evictable(q) # {}
      BY <2>1, <2>4 DEF RemoveNext
    <2> QED BY <2>2, <2>3, <2>4
  <1>6. /\ pc' \in [Queries -> Waiting \cup {"idle", "insert", "room", "announce", "remove"}]
        /\ \A r \in Queries : Kind(r)'
    BY <1>5 DEF MemoryInv, MemoryShape, Waiting, Kind
  <1>7. PICK owner \in Queries : Release(owner, Page, FALSE)
    BY <1>2, <1>4
  <1>8. Page \in Int /\ FALSE \in BOOLEAN
    OBVIOUS
  <1> QED BY <1>3, <1>5, <1>6, <1>7, <1>8, Freed

LEMMA ReplaceNext ==
    ASSUME MemoryInv, NEW q \in Queries, NEW p \in Pages, Insert(q, p), Position(q, p) # {}
    PROVE  MemoryInv'
  <1>1. PICK i \in DOMAIN cache : cache' = RemoveAt(cache, i)
    BY DEF Insert, Position
  <1>2. /\ Release(q, Page, FALSE) /\ UNCHANGED <<scope, notified>>
        /\ pc' = [pc EXCEPT ![q] = "insert"] /\ want' = [want EXCEPT ![q] = p]
    BY DEF Insert, Goto
  <1>3. cache' \in Seq(Entry)
    BY <1>1, TakenOut DEF MemoryInv
  <1>4. wakes' # 0 /\ wakes' \in Nat /\ used' \in Int /\ source' \in Int /\ results' \in [Queries -> Int]
    <2>1. Page \in Int
      OBVIOUS
    <2>2. wakes' # 0 /\ wakes' \in Nat /\ used' \in Int /\ source' \in Int
      BY <1>2, <2>1 DEF Release, MemoryInv, MemoryShape
    <2> QED BY <1>2, <2>1, <2>2 DEF Release, MemoryInv, MemoryShape
  <1>5. MemoryShape'
    BY <1>2, <1>3, <1>4 DEF MemoryInv, MemoryShape, Wanted
  <1>6. \A r \in Queries : Kind(r)'
    BY <1>2 DEF MemoryInv, MemoryShape, Kind
  <1> QED BY <1>4, <1>5, <1>6 DEF MemoryInv, Asleep

LEMMA LeaseNext ==
    ASSUME MemoryInv, NEW l \in Lease, Drop(l) \/ Shrink(l)
    PROVE  MemoryInv'
  <1>1. l.query \in Queries /\ l.bytes \in Int /\ l.bytes - Kept \in Int /\ l.source \in BOOLEAN
    <2>1. Source \in Int /\ Kept \in Int /\ Transfer \in Int
      OBVIOUS
    <2>2. l.query \in Queries /\ l.source \in BOOLEAN /\ l.bytes \in {Source, Kept, Transfer}
      BY DEF Lease
    <2> QED BY <2>1, <2>2
  <1>2. UNCHANGED <<cache, pc, want, scope, notified>>
    BY DEF Drop, Shrink
  <1>3. Release(l.query, l.bytes, l.source) \/ Release(l.query, l.bytes - Kept, l.source)
    BY DEF Drop, Shrink
  <1>4. /\ cache' \in Seq(Entry) /\ \A r \in Queries : Kind(r)'
        /\ pc' \in [Queries -> Waiting \cup {"idle", "insert", "room", "announce", "remove"}]
    BY <1>2 DEF MemoryInv, MemoryShape, Kind
  <1>5. PICK owner \in Queries, bytes \in Int, isSource \in BOOLEAN : Release(owner, bytes, isSource)
    BY <1>1, <1>3
  <1> QED BY <1>2, <1>4, <1>5, Freed

LEMMA PlaceNext ==
    ASSUME MemoryInv, NEW q \in Queries, Place(q), Fits(q, Page, FALSE)
    PROVE  MemoryInv'
  <1>1. /\ Charge(q, Page, FALSE) /\ pc' = [pc EXCEPT ![q] = "announce"] /\ pc[q] = "insert"
        /\ cache' = <<[query |-> q, page |-> want[q]]>> \o cache
        /\ want' = [want EXCEPT ![q] = "nothing"] /\ notified' = [notified EXCEPT ![q] = FALSE]
        /\ UNCHANGED <<scope, wakes>>
    BY DEF Place, Finish, Goto
  <1>2. [query |-> q, page |-> want[q]] \in Entry
    BY <1>1 DEF MemoryInv, Kind, Entry
  <1>3. cache' \in Seq(Entry)
    BY <1>1, <1>2 DEF MemoryInv, MemoryShape
  <1>4. used' >= used /\ source' >= source /\ used' \in Int /\ source' \in Int /\ results' \in [Queries -> Int]
    <2>1. Page \in Nat
      OBVIOUS
    <2> QED BY <1>1, <2>1 DEF Charge, MemoryInv, MemoryShape
  <1>5. MemoryShape'
    BY <1>1, <1>3, <1>4 DEF MemoryInv, MemoryShape, Wanted
  <1>6. pc'[q] = "announce" /\ Kind(q)' /\ Unchanged(q)'
    BY <1>1 DEF MemoryInv, MemoryShape, Kind, Unchanged
  <1>7. \A r \in Queries : r # q => /\ pc'[r] = pc[r] /\ want'[r] = want[r] /\ scope'[r] = scope[r]
                                      /\ results'[r] = results[r] /\ notified'[r] = notified[r]
    BY <1>1 DEF Charge, MemoryInv, MemoryShape
  <1> QED BY <1>1, <1>4, <1>5, <1>6, <1>7, Charged

\* What two sequences put together are.
LEMMA Joined ==
    ASSUME NEW S, NEW a \in Seq(S), NEW b \in Seq(S)
    PROVE  /\ a \o b \in Seq(S) /\ Len(a \o b) = Len(a) + Len(b)
           /\ \A n \in 1..Len(a) : (a \o b)[n] = a[n]
           /\ \A n \in 1..(Len(a) + Len(b)) : n > Len(a) => (a \o b)[n] = b[n - Len(a)]
  <1>1. a \o b \in Seq(S) /\ Len(a \o b) = Len(a) + Len(b)
    OBVIOUS
  <1>2. ASSUME NEW n \in 1..Len(a) PROVE (a \o b)[n] = a[n]
    OBVIOUS
  <1>3. ASSUME NEW n \in 1..(Len(a) + Len(b)), n > Len(a) PROVE (a \o b)[n] = b[n - Len(a)]
    BY <1>3
  <1> QED BY <1>1, <1>2, <1>3, Zenon

\* Whatever is left when an element is taken out was there.
LEMMA WithoutOne ==
    ASSUME NEW S, NEW s \in Seq(S), NEW i \in 1..Len(s)
    PROVE  /\ RemoveAt(s, i) \in Seq(S)
           /\ \A n \in DOMAIN RemoveAt(s, i) : \E j \in DOMAIN s : RemoveAt(s, i)[n] = s[j]
  <1>1. SubSeq(s, 1, i - 1) \in Seq(S) /\ Len(SubSeq(s, 1, i - 1)) = i - 1
    OBVIOUS
  <1>2. ASSUME NEW n \in 1..(i - 1) PROVE SubSeq(s, 1, i - 1)[n] = s[n]
    OBVIOUS
  <1>3. SubSeq(s, i + 1, Len(s)) \in Seq(S) /\ Len(SubSeq(s, i + 1, Len(s))) = Len(s) - i
    OBVIOUS
  <1>4. ASSUME NEW n \in 1..(Len(s) - i) PROVE SubSeq(s, i + 1, Len(s))[n] = s[n + i]
    OBVIOUS
  <1>5. PICK front : front = SubSeq(s, 1, i - 1)
    OBVIOUS
  <1>6. PICK back : back = SubSeq(s, i + 1, Len(s))
    OBVIOUS
  <1>7. /\ front \in Seq(S) /\ Len(front) = i - 1 /\ \A n \in 1..(i - 1) : front[n] = s[n]
        /\ back \in Seq(S) /\ Len(back) = Len(s) - i /\ \A n \in 1..(Len(s) - i) : back[n] = s[n + i]
    BY <1>1, <1>2, <1>3, <1>4, <1>5, <1>6, Zenon
  <1>. PICK left : left = front \o back
    OBVIOUS
  <1>8. /\ left \in Seq(S) /\ Len(left) = Len(front) + Len(back)
        /\ \A n \in 1..Len(front) : left[n] = front[n]
        /\ \A n \in 1..(Len(front) + Len(back)) : n > Len(front) => left[n] = back[n - Len(front)]
    <2>1. front \in Seq(S) /\ back \in Seq(S)
      BY <1>7
    <2> QED BY <2>1, Joined, Zenon
  <1>9. RemoveAt(s, i) = left
    BY <1>5, <1>6, Zenon DEF RemoveAt
  <1>10. ASSUME NEW n \in 1..(Len(s) - 1) PROVE \E j \in 1..Len(s) : left[n] = s[j]
    <2>1. CASE n <= i - 1
      <3>1. n \in 1..(i - 1) /\ n \in 1..Len(s)
        BY <2>1
      <3> QED BY <1>7, <1>8, <3>1, Zenon
    <2>2. CASE ~ n <= i - 1
      <3>1. /\ n > i - 1 /\ n \in 1..((i - 1) + (Len(s) - i)) /\ n - (i - 1) \in 1..(Len(s) - i)
            /\ (n - (i - 1)) + i \in 1..Len(s)
        BY <2>2
      <3> QED BY <1>7, <1>8, <3>1, Zenon
    <2> QED BY <2>1, <2>2
  <1>11. Len(left) = Len(s) - 1
    <2>1. Len(left) = (i - 1) + (Len(s) - i)
      BY <1>7, <1>8, Zenon
    <2> QED BY <2>1
  <1>12. DOMAIN left = 1..(Len(s) - 1) /\ DOMAIN s = 1..Len(s)
    <2>1. \A t \in Seq(S) : DOMAIN t = 1..Len(t)
      OBVIOUS
    <2> QED BY <1>8, <1>11, <2>1, Zenon
  <1> QED BY <1>8, <1>9, <1>10, <1>12, Zenon

\* A page that is read moves to the front, and the cache holds the same pages.
Touched(s, i) == <<s[i]>> \o RemoveAt(s, i)

LEMMA TouchedPages ==
    ASSUME NEW S, NEW s \in Seq(S), NEW i \in 1..Len(s)
    PROVE  Touched(s, i) \in Seq(S) /\ \A n \in DOMAIN Touched(s, i) : \E j \in DOMAIN s : Touched(s, i)[n] = s[j]
  <1>1. PICK rest : rest = RemoveAt(s, i)
    OBVIOUS
  <1>2. rest \in Seq(S) /\ \A n \in DOMAIN rest : \E j \in DOMAIN s : rest[n] = s[j]
    BY <1>1, WithoutOne
  <1>3. PICK one : one = <<s[i]>>
    OBVIOUS
  <1>4. one \in Seq(S) /\ Len(one) = 1 /\ one[1] = s[i]
    BY <1>3
  <1>. PICK whole : whole = one \o rest
    OBVIOUS
  <1>5. /\ whole \in Seq(S) /\ Len(whole) = 1 + Len(rest)
        /\ \A n \in 1..1 : whole[n] = one[n]
        /\ \A n \in 1..(1 + Len(rest)) : n > 1 => whole[n] = rest[n - 1]
    <2>1. one \in Seq(S) /\ rest \in Seq(S)
      BY <1>2, <1>4
    <2>2. /\ whole \in Seq(S) /\ Len(whole) = Len(one) + Len(rest)
          /\ \A n \in 1..Len(one) : whole[n] = one[n]
          /\ \A n \in 1..(Len(one) + Len(rest)) : n > Len(one) => whole[n] = rest[n - Len(one)]
      BY <2>1, Joined, Zenon
    <2> QED BY <1>4, <2>2, Zenon
  <1>6. DOMAIN whole = 1..(1 + Len(rest)) /\ DOMAIN rest = 1..Len(rest) /\ i \in DOMAIN s
    <2>1. \A t \in Seq(S) : DOMAIN t = 1..Len(t)
      OBVIOUS
    <2> QED BY <1>2, <1>5, <2>1, Zenon
  <1>7. ASSUME NEW n \in 1..(1 + Len(rest)) PROVE \E j \in DOMAIN s : whole[n] = s[j]
    <2>1. CASE n = 1
      <3>1. 1 \in 1..1
        OBVIOUS
      <3> QED BY <1>4, <1>5, <1>6, <2>1, <3>1, Zenon
    <2>2. CASE n # 1
      <3>1. n > 1 /\ n - 1 \in 1..Len(rest)
        BY <2>2
      <3> QED BY <1>2, <1>5, <1>6, <3>1, Zenon
    <2> QED BY <2>1, <2>2
  <1> QED BY <1>1, <1>3, <1>5, <1>6, <1>7, Zenon DEF Touched

LEMMA ReadNext ==
    ASSUME MemoryInv, NEW q \in Queries, NEW p \in Pages, Read(q, p)
    PROVE  MemoryInv'
  <1>1. PICK i \in DOMAIN cache : cache' = <<cache[i]>> \o RemoveAt(cache, i)
    BY DEF Read, Position
  <1>2. UNCHANGED <<usage, pc, want, scope, notified, wakes>> /\ pc[q] = "idle"
    BY DEF Read
  <1>3. cache \in Seq(Entry) /\ i \in 1..Len(cache) /\ cache[i] \in Entry
    BY DEF MemoryInv, MemoryShape
  <1>4. cache' = Touched(cache, i)
    BY <1>1 DEF Touched
  <1>5. cache' \in Seq(Entry) /\ \A n \in DOMAIN cache' : \E j \in DOMAIN cache : cache'[n] = cache[j]
    BY <1>3, <1>4, TouchedPages
  <1>6. MemoryShape' /\ Unchanged(q)' /\ Kind(q)'
    BY <1>2, <1>5 DEF MemoryInv, MemoryShape, usage, Unchanged, Kind
  <1>7. /\ used' >= used /\ source' >= source
        /\ \A r \in Queries : r # q => /\ pc'[r] = pc[r] /\ want'[r] = want[r] /\ scope'[r] = scope[r]
                                      /\ results'[r] = results[r] /\ notified'[r] = notified[r]
    BY <1>2 DEF MemoryInv, MemoryShape, usage
  <1> QED BY <1>2, <1>5, <1>6, <1>7, Charged

-----------------------------------------------------------------------------
\* Between its failed attempt and its sleep, what an actor has seen stays so, unless it is told of the
\* change or a wake for it is on its way (core/src/memory.rs, acquire, release; core/src/hot_cache.rs).
THEOREM MemoryInvariant == MemorySpec => []MemoryInv
  <1>1. MemoryInit => MemoryInv
    BY DEF MemoryInit, MemoryInv, MemoryShape, Wanted, Kind, Asleep, Unchanged
  <1>2. MemoryInv /\ [MemoryNext]_memoryVars => MemoryInv'
    <2> SUFFICES ASSUME MemoryInv, [MemoryNext]_memoryVars PROVE MemoryInv'
      OBVIOUS
    <2>1. CASE Notify
      <3>1. wakes' \in Nat /\ pc' = pc /\ UNCHANGED <<usage, cache, want, scope>> /\ NotifyWaiters
        BY <2>1 DEF Notify, MemoryInv, MemoryShape
      <3> QED BY <3>1, Told DEF MemoryInv, MemoryShape
    <2>2. ASSUME NEW q \in Queries, Announce(q) PROVE MemoryInv'
      <3>1. wakes' = wakes /\ pc' = [pc EXCEPT ![q] = "idle"] /\ UNCHANGED <<usage, cache, want, scope>> /\ NotifyWaiters
        BY <2>2 DEF Announce, Goto
      <3>2. /\ pc' \in [Queries -> Waiting \cup {"idle", "insert", "room", "announce", "remove"}]
            /\ \A r \in Queries : pc'[r] \in Waiting \cup {"insert", "room"} => pc[r] = pc'[r]
        BY <3>1 DEF MemoryInv, MemoryShape, Waiting
      <3> QED BY <3>1, <3>2, Told DEF MemoryInv, MemoryShape
    <2>3. ASSUME NEW q \in Queries, Proceed(q) PROVE MemoryInv'
      <3>1. CASE Enable(q) \/ Try(q) \/ CheckQuota(q) \/ ReadScope(q) \/ Wake(q) \/ Announce(q)
        BY <2>2, <3>1, EnableNext, TryNext, LookNext, StepNext
      <3>2. CASE Evict(q)
        BY <3>2, LookNext, FreeNext
      <3>3. CASE Place(q)
        BY <3>3, PlaceNext, StepNext
      <3>4. CASE MakeRoom(q) \/ RemoveNext(q)
        BY <3>4, FreeNext, StepNext
      <3> QED BY <2>3, <3>1, <3>2, <3>3, <3>4 DEF Proceed
    <2>4. ASSUME NEW q \in Queries, Abandon(q) \/ RemoveResult(q) PROVE MemoryInv'
      BY <2>4, StepNext
    <2>5. ASSUME NEW q \in Queries, NEW kind \in {"source", "transfer"}, Acquire(q, kind) PROVE MemoryInv'
      BY <2>5, StepNext
    <2>6. ASSUME NEW q \in Queries, NEW p \in Pages, Insert(q, p) \/ Read(q, p) PROVE MemoryInv'
      BY <2>6, StepNext, ReplaceNext, ReadNext
    <2>7. ASSUME NEW l \in Lease, Drop(l) \/ Shrink(l) PROVE MemoryInv'
      BY <2>7, LeaseNext
    <2>8. CASE UNCHANGED memoryVars
      BY <2>8 DEF memoryVars, usage, MemoryInv, MemoryShape, Kind, Asleep, Unchanged, Fits, ResultBlocked,
                  SourceBlocked, Scope, EvictionScope, Evictable
    <2> QED BY <2>1, <2>3, <2>4, <2>5, <2>6, <2>7, <2>8 DEF MemoryNext
  <1> QED BY <1>1, <1>2, PTL DEF MemorySpec

\* An actor asleep in the broker, with no wake on its way to it, could neither take what it waits for
\* nor evict a page for it (core/src/memory.rs, acquire).
THEOREM NoWakeupIsLost == MemorySpec => []NoLostWakeup
  <1>1. MemoryInv => NoLostWakeup
    BY DEF MemoryInv, Asleep, Unchanged, Scope, NoLostWakeup
  <1> QED BY <1>1, MemoryInvariant, PTL
=============================================================================
