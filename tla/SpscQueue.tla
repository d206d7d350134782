----------------------------- MODULE SpscQueue ------------------------------
(***************************************************************************)
(* One ring between its two threads, as SoundRecorder::BlockQueue is used:  *)
(* the producer runs try_push, the consumer try_pop, and the two interleave *)
(* at every load and store of the shared indices.  m_head and m_tail are    *)
(* atomics read with acquire and written with release, so a slot is seen    *)
(* whole once its index is; a thread reads its own index relaxed.           *)
(***************************************************************************)
EXTENDS SpscRing

CONSTANTS
    Items,      \* what may be pushed
    MaxPush     \* bound on the number of pushes

ASSUME QueueAssumption == NoBlock \notin Items /\ MaxPush \in Nat

VARIABLES
    ring,
    ppc, item,  \* the producer, and what it is pushing
    cpc, got,   \* the consumer, and what it read
    pushed,     \* how many pushes have begun
    taken       \* what the consumer has taken, oldest first

qvars == <<ring, ppc, item, cpc, got, pushed, taken>>

QInit ==
    /\ ring = EmptyRing
    /\ ppc = "out" /\ item = NoBlock
    /\ cpc = "out" /\ got = NoBlock
    /\ pushed = 0 /\ taken = <<>>

\* The guard loads both indices: a full ring returns false.
PushTest(x) ==
    /\ ppc = "out" /\ pushed < MaxPush
    /\ ~IsFull(ring)
    /\ ppc' = "store" /\ item' = x /\ pushed' = pushed + 1
    /\ UNCHANGED <<ring, cpc, got, taken>>

PushStore ==
    /\ ppc = "store"
    /\ ring' = WriteSlot(ring, item) /\ ppc' = "publish"
    /\ UNCHANGED <<item, cpc, got, pushed, taken>>

PushPublish ==
    /\ ppc = "publish"
    /\ ring' = Publish(ring) /\ ppc' = "out" /\ item' = NoBlock
    /\ UNCHANGED <<cpc, got, pushed, taken>>

\* An empty ring returns nullptr.
PopTest ==
    /\ cpc = "out" /\ ~IsEmpty(ring)
    /\ cpc' = "load"
    /\ UNCHANGED <<ring, ppc, item, got, pushed, taken>>

PopLoad ==
    /\ cpc = "load"
    /\ got' = Oldest(ring) /\ cpc' = "advance"
    /\ UNCHANGED <<ring, ppc, item, pushed, taken>>

PopAdvance ==
    /\ cpc = "advance"
    /\ ring' = Advance(ring) /\ taken' = Append(taken, got)
    /\ cpc' = "out" /\ got' = NoBlock
    /\ UNCHANGED <<ppc, item, pushed>>

QNext == (\E x \in Items : PushTest(x)) \/ PushStore \/ PushPublish \/ PopTest \/ PopLoad \/ PopAdvance

QSpec == QInit /\ [][QNext]_qvars

-----------------------------------------------------------------------------
QTypeOK ==
    /\ ring \in Ring(Items)
    /\ ppc \in {"out", "store", "publish"} /\ cpc \in {"out", "load", "advance"}
    /\ item \in Items \cup {NoBlock} /\ got \in Items \cup {NoBlock}
    /\ pushed \in 0..MaxPush /\ taken \in Seq(Items)

\* The slot the producer writes is never one the consumer may read
\* (sound_recorder.cpp:61-77): while a store is under way the ring is not
\* full, and while a load is under way it is not empty.
SlotsApart ==
    /\ ppc # "out" => ~IsFull(ring)
    /\ cpc # "out" => ~IsEmpty(ring)
    /\ cpc = "advance" => got = Oldest(ring)

\* The ring implements a FIFO that holds one item less than it has slots.
Queue == INSTANCE Fifo WITH queue <- Contents(ring), Bound <- Cap - 1

IsFifo == Queue!Spec
=============================================================================
