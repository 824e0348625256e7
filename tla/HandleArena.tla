----------------------------- MODULE HandleArena -----------------------------
(***************************************************************************)
(* The arena that issues every handle of the engine: connections, queries  *)
(* and exports (driver-api/src/ids.rs).  A handle is a slot and the        *)
(* generation the slot had; removal advances the generation, up to a last  *)
(* value at which the slot is retired.  Slots are counted from 1 here.     *)
(***************************************************************************)
EXTENDS Integers, Sequences

CONSTANTS
    Values,             \* what slots hold
    Empty,              \* an unoccupied slot, and the answer to a stale handle
    LastGeneration,     \* u32::MAX
    MaxSlots            \* the slots a u32 can name: one more insertion panics

ASSUME EmptyAssumption == Empty \notin Values
ASSUME SizeAssumption == LastGeneration \in Nat /\ MaxSlots \in Nat

VARIABLES
    slots,              \* Arena::slots
    given               \* what each handle was first issued for, Empty once it was
                        \* removed; the code keeps no such record
vars == <<slots, given>>

Slot == [generation : 0..LastGeneration, value : Values \cup {Empty}]
Handle == [slot : Nat \ {0}, generation : 0..LastGeneration]

TypeOK ==
    /\ slots \in Seq(Slot)
    /\ DOMAIN given \subseteq Handle
    /\ given \in [DOMAIN given -> Values \cup {Empty}]

Init == slots = <<>> /\ given = [h \in {} |-> Empty]

\* saturating_add(1)
Advance(g) == IF g < LastGeneration THEN g + 1 ELSE g

\* get, get_mut
Names(h) == h.slot \in DOMAIN slots /\ slots[h.slot].generation = h.generation
Get(h) == IF Names(h) THEN slots[h.slot].value ELSE Empty

ReusableForever == {i \in DOMAIN slots : slots[i].value = Empty}
Reusable == {i \in DOMAIN slots : slots[i].value = Empty /\ slots[i].generation < LastGeneration}

\* The record of a handle that was issued before is not changed by a second issue.
Give(h, v) ==
    given' = [k \in DOMAIN given \cup {h} |-> IF k \in DOMAIN given THEN given[k] ELSE v]

\* insert: the first reusable slot, under the generation it has reached...
Reuse(v) ==
    \E i \in Reusable :
        /\ \A j \in Reusable : i <= j
        /\ slots' = [slots EXCEPT ![i].value = v]
        /\ Give([slot |-> i, generation |-> slots[i].generation], v)

ExtendOffByOne(v) ==
    /\ Reusable = {} /\ Len(slots) < MaxSlots
    /\ slots' = Append(slots, [generation |-> 0, value |-> v])
    /\ Give([slot |-> Len(slots), generation |-> 0], v)

\* ... or a new slot.
Extend(v) ==
    /\ Reusable = {} /\ Len(slots) < MaxSlots
    /\ slots' = Append(slots, [generation |-> 0, value |-> v])
    /\ Give([slot |-> Len(slots) + 1, generation |-> 0], v)

\* remove, of a handle that still stands for something.
RemoveSlot(h) ==
    /\ Get(h) # Empty
    /\ slots' = [slots EXCEPT ![h.slot] = [generation |-> Advance(@.generation), value |-> Empty]]
    /\ given' = [given EXCEPT ![h] = Empty]

Next ==
    \/ \E v \in Values : Reuse(v) \/ Extend(v)
    \/ \E h \in DOMAIN given : RemoveSlot(h)

Spec == Init /\ [][Next]_vars

-----------------------------------------------------------------------------
\* A handle answers with the value it was issued for until it is removed, and with
\* nothing ever after, although its slot is used again and its generation may run out.
ResolvesToItsOwn == \A h \in DOMAIN given : Get(h) = given[h]
=============================================================================
