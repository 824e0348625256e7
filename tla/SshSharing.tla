------------------------------ MODULE SshSharing ------------------------------
(***************************************************************************)
(* Connections that share a tunnel (driver-api/src/ssh_shared.rs) or a     *)
(* local listener (driver-api/src/ssh_local.rs).  A registry maps the key  *)
(* of the settings to a slot, weakly; the slot is a lock around a weak     *)
(* reference to what is shared, and what is shared holds its slot, so that *)
(* a slot lives as long as anyone waits for it or uses its content.  A     *)
(* master is an SSH process of its own, which may die while it is held.    *)
(* An invalidation takes the key out of the registry and leaves those      *)
(* alone who hold something already.                                       *)
(***************************************************************************)
EXTENDS Integers, FiniteSets

CONSTANTS
    ShRequests,     \* connections being opened
    ShKeys,         \* the keys of the settings
    ShListeners,    \* the keys that stand for a local listener, the others for a master
    ShSlots, ShShared,  \* identities of slots and of what is shared, numbers that are used again
    ShRegistry,     \* slots of the registry, 128 in the code
    ShPermits,      \* masters or listeners that may exist, 128 in the code
    ShInvalidations, \* bound
    ShNobody

ASSUME ShAssumption ==
    /\ ShListeners \subseteq ShKeys /\ ShSlots \subseteq Nat \ {0} /\ ShShared \subseteq Nat \ {0}
    /\ ShRequests \cap ShShared = {} /\ ShNobody \notin ShRequests
    /\ {ShRegistry, ShPermits, ShInvalidations} \subseteq Nat

Unset == 0

VARIABLES
    shRegistry, \* per key: the registered slot, POOL
    shOwner,    \* per slot: the request that has locked it
    shContent,  \* per slot: the weak reference
    shAlive,    \* the masters that answer, the listeners that listen
    shAt,       \* per request: what it is doing
    shKey,      \* per request: the key it asks for
    shSlot,     \* per request: the slot it holds
    shHeld,     \* per request: what it shares
    shInside,   \* per shared: the slot it holds
    shEpoch,    \* per key: how often it was invalidated
    shAsked, shStarted  \* per request and per shared: the epoch of its key when it began

shVars == <<shRegistry, shOwner, shContent, shAlive, shAt, shKey, shSlot, shHeld, shInside, shEpoch,
            shAsked, shStarted>>

ShTypeOK ==
    /\ shRegistry \in [ShKeys -> ShSlots \cup {Unset}]
    /\ shOwner \in [ShSlots -> ShRequests \cup {ShNobody}]
    /\ shContent \in [ShSlots -> ShShared \cup {Unset}]
    /\ shAlive \subseteq ShShared
    /\ shAt \in [ShRequests -> {"idle", "waiting", "looking", "starting", "using"}]
    /\ shKey \in [ShRequests -> ShKeys]
    /\ shSlot \in [ShRequests -> ShSlots \cup {Unset}]
    /\ shHeld \in [ShRequests -> ShShared \cup {Unset}]
    /\ shInside \in [ShShared -> ShSlots \cup {Unset}]
    /\ shEpoch \in [ShKeys -> 0..ShInvalidations]
    /\ shAsked \in [ShRequests -> 0..ShInvalidations]
    /\ shStarted \in [ShShared -> 0..ShInvalidations]

ShInit ==
    /\ shRegistry = [k \in ShKeys |-> Unset] /\ shOwner = [s \in ShSlots |-> ShNobody]
    /\ shContent = [s \in ShSlots |-> Unset] /\ shAlive = {}
    /\ shAt = [r \in ShRequests |-> "idle"]
    /\ shKey \in [ShRequests -> ShKeys]
    /\ shSlot = [r \in ShRequests |-> Unset] /\ shHeld = [r \in ShRequests |-> Unset]
    /\ shInside = [m \in ShShared |-> Unset]
    /\ shEpoch = [k \in ShKeys |-> 0] /\ shAsked = [r \in ShRequests |-> 0]
    /\ shStarted = [m \in ShShared |-> 0]

\* Weak::upgrade
Exists(m) == \E r \in ShRequests : shHeld[r] = m
Live(s) == (\E r \in ShRequests : shSlot[r] = s) \/ (\E m \in ShShared : shInside[m] = s)
SameKind(k, l) == (k \in ShListeners) = (l \in ShListeners)
\* try_acquire: masters that were retired and still serve count, too.
Admitted(k) ==
    {r \in ShRequests : shAt[r] = "starting" /\ SameKind(k, shKey[r])}
    \cup {m \in ShShared : \E r \in ShRequests : shHeld[r] = m /\ SameKind(k, shKey[r])}

\* Identities that are free are used again, the smallest first.
IsFirst(n, free) == n \in free /\ \A o \in free : n <= o

\* Of those nobody holds, nothing is left.
Kept(held) == {m \in ShShared : \E r \in ShRequests : held[r] = m}
Dropped(held) ==
    /\ shInside' = [m \in ShShared |-> IF m \in Kept(held) THEN shInside[m] ELSE Unset]
    /\ shStarted' = [m \in ShShared |-> IF m \in Kept(held) THEN shStarted[m] ELSE 0]
    /\ shContent' = [s \in ShSlots |-> IF shContent[s] \in Kept(held) THEN shContent[s] ELSE Unset]
    /\ shAlive' = shAlive \cap Kept(held)

\* The registry without its dead slots, those of the kind of a key.
Swept(k) == [l \in ShKeys |-> IF SameKind(k, l) /\ shRegistry[l] # Unset /\ ~Live(shRegistry[l])
                              THEN Unset ELSE shRegistry[l]]
Used(k) == {l \in ShKeys : SameKind(k, l) /\ Swept(k)[l] # Unset}

\* acquire, under the lock of the registry: dead slots go, the live one of the key is taken, or a
\* new one if there is room.
ShAsk(r) ==
    LET k == shKey[r]
        kept == Swept(k)
    IN /\ shAt[r] = "idle"
       /\ \/ kept[k] # Unset /\ shSlot' = [shSlot EXCEPT ![r] = kept[k]]
             /\ shRegistry' = kept /\ UNCHANGED shContent
          \/ /\ kept[k] = Unset /\ Cardinality(Used(k)) < ShRegistry
             /\ \E s \in ShSlots :
                   /\ IsFirst(s, {c \in ShSlots : ~Live(c) /\ \A l \in ShKeys : kept[l] # c})
                   /\ shSlot' = [shSlot EXCEPT ![r] = s]
                   /\ shRegistry' = [kept EXCEPT ![k] = s]
                   /\ shContent' = [shContent EXCEPT ![s] = Unset]
       /\ shAt' = [shAt EXCEPT ![r] = "waiting"]
       /\ shAsked' = [shAsked EXCEPT ![r] = shEpoch[k]]
       /\ UNCHANGED <<shOwner, shAlive, shKey, shHeld, shInside, shEpoch, shStarted>>

\* The registry is full.
ShNoRoom(r) ==
    LET k == shKey[r]
    IN /\ shAt[r] = "idle" /\ Swept(k)[k] = Unset /\ Cardinality(Used(k)) >= ShRegistry
       /\ shRegistry' = Swept(k)
       /\ UNCHANGED <<shOwner, shContent, shAlive, shAt, shKey, shSlot, shHeld, shInside, shEpoch,
                      shAsked, shStarted>>

ShLock(r) ==
    /\ shAt[r] = "waiting" /\ shOwner[shSlot[r]] = ShNobody
    /\ shOwner' = [shOwner EXCEPT ![shSlot[r]] = r] /\ shAt' = [shAt EXCEPT ![r] = "looking"]
    /\ UNCHANGED <<shRegistry, shContent, shAlive, shKey, shSlot, shHeld, shInside, shEpoch, shAsked,
                   shStarted>>

\* What the slot refers to, if it still exists; of a master it is asked whether it answers.
Joinable(r) ==
    LET m == shContent[shSlot[r]] IN m # Unset /\ Exists(m) /\ (shKey[r] \in ShListeners \/ m \in shAlive)

ShJoin(r) ==
    /\ shAt[r] = "looking" /\ Joinable(r)
    /\ shHeld' = [shHeld EXCEPT ![r] = shContent[shSlot[r]]]
    /\ shAt' = [shAt EXCEPT ![r] = "using"]
    /\ shOwner' = [shOwner EXCEPT ![shSlot[r]] = ShNobody] /\ shSlot' = [shSlot EXCEPT ![r] = Unset]
    /\ UNCHANGED <<shRegistry, shContent, shAlive, shKey, shInside, shEpoch, shAsked, shStarted>>

\* As it would be if a master did not hold its slot.
ShShareLoose(r) ==
    /\ shAt[r] = "starting"
    /\ \E m \in ShShared :
          /\ IsFirst(m, {n \in ShShared : ~Exists(n)})
          /\ shHeld' = [shHeld EXCEPT ![r] = m] /\ shAlive' = shAlive \cup {m}
          /\ shContent' = [shContent EXCEPT ![shSlot[r]] = m]
          /\ shStarted' = [shStarted EXCEPT ![m] = shAsked[r]]
    /\ shAt' = [shAt EXCEPT ![r] = "using"]
    /\ shOwner' = [shOwner EXCEPT ![shSlot[r]] = ShNobody] /\ shSlot' = [shSlot EXCEPT ![r] = Unset]
    /\ UNCHANGED <<shRegistry, shKey, shInside, shEpoch, shAsked>>

\* A new one is started while the slot stays locked.
ShBegin(r) ==
    /\ shAt[r] = "looking" /\ ~Joinable(r) /\ Cardinality(Admitted(shKey[r])) < ShPermits
    /\ shAt' = [shAt EXCEPT ![r] = "starting"]
    /\ UNCHANGED <<shRegistry, shOwner, shContent, shAlive, shKey, shSlot, shHeld, shInside, shEpoch,
                   shAsked, shStarted>>

ShShare(r) ==
    /\ shAt[r] = "starting"
    /\ \E m \in ShShared :
          /\ IsFirst(m, {n \in ShShared : ~Exists(n)})
          /\ shHeld' = [shHeld EXCEPT ![r] = m] /\ shAlive' = shAlive \cup {m}
          /\ shInside' = [shInside EXCEPT ![m] = shSlot[r]]
          /\ shContent' = [shContent EXCEPT ![shSlot[r]] = m]
          /\ shStarted' = [shStarted EXCEPT ![m] = shAsked[r]]
    /\ shAt' = [shAt EXCEPT ![r] = "using"]
    /\ shOwner' = [shOwner EXCEPT ![shSlot[r]] = ShNobody] /\ shSlot' = [shSlot EXCEPT ![r] = Unset]
    /\ UNCHANGED <<shRegistry, shKey, shEpoch, shAsked>>

\* No permit, a start that fails, or the deadline, which drops the request wherever it is.
ShGiveUp(r) ==
    /\ shAt[r] \in {"waiting", "looking", "starting"}
    /\ shAt' = [shAt EXCEPT ![r] = "idle"]
    /\ shOwner' = [s \in ShSlots |-> IF shOwner[s] = r THEN ShNobody ELSE shOwner[s]]
    /\ shSlot' = [shSlot EXCEPT ![r] = Unset] /\ shAsked' = [shAsked EXCEPT ![r] = 0]
    /\ UNCHANGED <<shRegistry, shContent, shAlive, shKey, shHeld, shInside, shEpoch, shStarted>>

\* The connection closes; the last one takes what it shared with it.
ShRelease(r) ==
    LET held == [shHeld EXCEPT ![r] = Unset]
    IN /\ shAt[r] = "using" /\ shAt' = [shAt EXCEPT ![r] = "idle"]
       /\ shHeld' = held /\ Dropped(held) /\ shAsked' = [shAsked EXCEPT ![r] = 0]
       /\ UNCHANGED <<shRegistry, shOwner, shKey, shSlot, shEpoch>>

\* The process of a master ends by itself.
ShDies(m) ==
    /\ m \in shAlive /\ \E r \in ShRequests : shHeld[r] = m /\ shKey[r] \notin ShListeners
    /\ shAlive' = shAlive \ {m}
    /\ UNCHANGED <<shRegistry, shOwner, shContent, shAt, shKey, shSlot, shHeld, shInside, shEpoch,
                   shAsked, shStarted>>

\* invalidate, of the key of a session or of a listener.
ShInvalidate(k) ==
    /\ shEpoch[k] < ShInvalidations /\ shEpoch' = [shEpoch EXCEPT ![k] = @ + 1]
    /\ shRegistry' = [shRegistry EXCEPT ![k] = Unset]
    /\ UNCHANGED <<shOwner, shContent, shAlive, shAt, shKey, shSlot, shHeld, shInside, shAsked, shStarted>>

ShNext ==
    \/ \E r \in ShRequests :
          \/ ShAsk(r) \/ ShNoRoom(r) \/ ShLock(r) \/ ShJoin(r) \/ ShBegin(r) \/ ShShare(r)
          \/ ShGiveUp(r) \/ ShRelease(r)
    \/ \E m \in ShShared : ShDies(m)
    \/ \E k \in ShKeys : ShInvalidate(k)

ShSpec == ShInit /\ [][ShNext]_shVars

-----------------------------------------------------------------------------
(* Properties.                                                             *)

KeyOf(m) == shKey[CHOOSE r \in ShRequests : shHeld[r] = m]

\* Connections with one key share: two masters that answer, or two listeners, exist for a key only
\* with an invalidation between the requests that started them, however requests race, masters
\* die, and slots come and go.  A request that begins after an invalidation is never given what was
\* started for an earlier one; nobody gets what belongs to another key; and there are never more
\* than the permits, the retired ones included.
ShSharedByKey ==
    /\ \A m, n \in shAlive : m # n /\ KeyOf(m) = KeyOf(n) => shStarted[m] # shStarted[n]
    /\ \A r \in ShRequests : shHeld[r] # Unset =>
          /\ shStarted[shHeld[r]] >= shAsked[r]
          /\ \A q \in ShRequests : shHeld[q] = shHeld[r] => shKey[q] = shKey[r]
    /\ \A k \in ShKeys : Cardinality(Admitted(k)) <= ShPermits
=============================================================================
