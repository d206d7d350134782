------------------------------ MODULE SpscRing ------------------------------
(***************************************************************************)
(* SoundRecorder::BlockQueue (application/sound_recorder.{hpp,cpp}): the    *)
(* lock-free single-producer / single-consumer ring of block pointers.      *)
(* A ring is a record of its slots and its two indices.  Each operation is  *)
(* two steps, as its effects become visible: a push writes the slot, then   *)
(* publishes the tail; a pop reads the slot, then releases it by advancing  *)
(* the head.  One slot stays empty to tell full from empty.                 *)
(***************************************************************************)
EXTENDS Integers, Sequences

CONSTANTS
    Cap,       \* the number of slots
    NoBlock    \* nullptr

ASSUME CapAssumption == Cap \in Nat \ {0}

\* Mutant: an index is not masked.
Unmasked(i) == i

Mod(i) == i % Cap                    \* the mask of a power of two

Ring(B) == [slots : [0..(Cap - 1) -> B \cup {NoBlock}], head : 0..(Cap - 1), tail : 0..(Cap - 1)]

EmptyRing == [slots |-> [i \in 0..(Cap - 1) |-> NoBlock], head |-> 0, tail |-> 0]

Count(r) == Mod(r.tail - r.head + Cap)

\* Mutant: the slot that tells full from empty is used.
FullWhenAllUsed(r) == Mod(r.tail) = r.head /\ r.slots[r.tail] # NoBlock

IsFull(r)  == Mod(r.tail + 1) = r.head
IsEmpty(r) == r.head = r.tail

\* try_push: first the slot, then the tail.
WriteSlot(r, b) == [r EXCEPT !.slots[r.tail] = b]
Publish(r)      == [r EXCEPT !.tail = Mod(@ + 1)]

\* Mutants: a pop takes the newest item; a pop does not release the slot.
Newest(r)   == r.slots[Mod(r.tail - 1 + Cap)]
StayPut(r)  == r

\* try_pop: first the slot, then the head.
Oldest(r)   == r.slots[r.head]
Advance(r)  == [r EXCEPT !.head = Mod(@ + 1)]

\* The queued blocks, oldest first.
Contents(r) == [i \in 1..Count(r) |-> r.slots[Mod(r.head + i - 1)]]
=============================================================================
