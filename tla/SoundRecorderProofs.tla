------------------------- MODULE SoundRecorderProofs ------------------------
(***************************************************************************)
(* Proofs about SoundRecorder and the rings between its threads, for a pool *)
(* of any size, blocks of any length and callbacks of any span: a block is  *)
(* always in exactly one place, the rings are never full when something is  *)
(* pushed, no copy runs past the end of its block, and the file receives    *)
(* the frames in order, none twice and none lost but the counted ones.      *)
(*                                                                          *)
(* The first part is about rings, of any capacity.  The second is about the *)
(* recorder, whose rings have the capacity the constructor computes         *)
(* (CapacityAssumption, cited there only).  The last is about SpscQueue,    *)
(* one ring between its two threads at every load and store, which          *)
(* implements a FIFO.                                                       *)
(*                                                                          *)
(* In the second, Placed ties each thread's position to the ring it is      *)
(* working on; the rest is counting: with every block in one place, and one *)
(* of them out of the ring, the ring has a slot left.  For the frames, All  *)
(* is the file and what is on its way to it: the steps regroup it or, a     *)
(* copy, add to its end, since the block they change is not queued.         *)
(***************************************************************************)
EXTENDS SoundRecorder, SpscQueue, DataLemmas

-----------------------------------------------------------------------------
(* Rings.                                                                   *)

\* The mask leaves an index alone, or takes Cap off an index that ran over.
LEMMA ModSmall == ASSUME NEW i \in 0..(Cap - 1) PROVE Mod(i) = i
  BY CapAssumption, SMTT(30) DEF Mod

\* ... or takes Cap off one that ran over by less than Cap;
LEMMA ModWrap == ASSUME NEW i \in Cap..(2 * Cap - 1) PROVE Mod(i) = i - Cap
  BY CapAssumption, SMTT(30) DEF Mod

\* ... which is all that is ever asked of it.
LEMMA ModCases ==
  ASSUME NEW i \in 0..(2 * Cap - 1)
  PROVE  /\ Mod(i) = (IF i < Cap THEN i ELSE i - Cap)
         /\ Mod(i) \in 0..(Cap - 1)
<1>1. CASE i < Cap
  <2>1. i \in 0..(Cap - 1)
    BY <1>1, CapAssumption
  <2> QED
    BY <2>1, <1>1, ModSmall
<1>2. CASE ~(i < Cap)
  <2>1. i \in Cap..(2 * Cap - 1)
    BY <1>2, CapAssumption
  <2>2. Mod(i) = i - Cap
    BY <2>1, ModWrap
  <2> QED
    BY <2>1, <2>2, <1>2, CapAssumption
<1> QED
  BY <1>1, <1>2

\* The index after i.
LEMMA ModNext ==
  ASSUME NEW i \in 0..(Cap - 1)
  PROVE  /\ Mod(i + 1) = (IF i = Cap - 1 THEN 0 ELSE i + 1)
         /\ Mod(i + 1) \in 0..(Cap - 1)
<1>1. i + 1 \in 0..(2 * Cap - 1)
  BY CapAssumption
<1> QED
  BY <1>1, ModCases, CapAssumption

\* The fields of a ring.
LEMMA RingFields ==
  ASSUME NEW B, NEW r \in Ring(B)
  PROVE  /\ r.head \in 0..(Cap - 1) /\ r.tail \in 0..(Cap - 1)
         /\ r.slots \in [0..(Cap - 1) -> B \cup {NoBlock}]
  BY DEF Ring

\* How many items a ring holds, and what that says of full and empty.
LEMMA CountCases ==
  ASSUME NEW B, NEW r \in Ring(B)
  PROVE  /\ Count(r) = (IF r.tail >= r.head THEN r.tail - r.head ELSE r.tail - r.head + Cap)
         /\ Count(r) \in 0..(Cap - 1)
         /\ IsFull(r) <=> Count(r) = Cap - 1
         /\ IsEmpty(r) <=> Count(r) = 0
<1>1. r.head \in 0..(Cap - 1) /\ r.tail \in 0..(Cap - 1)
  BY RingFields
<1> DEFINE k == r.tail - r.head + Cap
<1>2. k \in 0..(2 * Cap - 1) /\ Count(r) = Mod(k)
  BY <1>1, CapAssumption DEF Count
<1> HIDE DEF k
<1>3. Count(r) = (IF k < Cap THEN k ELSE k - Cap)
  BY <1>2, ModCases
<1> USE DEF k
<1>4. Count(r) = (IF r.tail >= r.head THEN r.tail - r.head ELSE r.tail - r.head + Cap)
  BY <1>1, <1>3, CapAssumption
<1>5. Mod(r.tail + 1) = (IF r.tail = Cap - 1 THEN 0 ELSE r.tail + 1)
  BY <1>1, ModNext
<1>6. Count(r) \in 0..(Cap - 1)
  BY <1>1, <1>4, CapAssumption
<1>7. IsFull(r) <=> Count(r) = Cap - 1
  BY <1>1, <1>4, <1>5, CapAssumption DEF IsFull
<1>8. IsEmpty(r) <=> Count(r) = 0
  BY <1>1, <1>4, CapAssumption DEF IsEmpty
<1> QED
  BY <1>4, <1>6, <1>7, <1>8

\* Where the i-th item from the front is; never the slot at the tail.
LEMMA PlaceCases ==
  ASSUME NEW B, NEW r \in Ring(B), NEW i \in 1..Count(r)
  PROVE  /\ Mod(r.head + i - 1) =
              (IF r.head + i - 1 < Cap THEN r.head + i - 1 ELSE r.head + i - 1 - Cap)
         /\ Mod(r.head + i - 1) \in 0..(Cap - 1)
         /\ Mod(r.head + i - 1) # r.tail
<1>1. r.head \in 0..(Cap - 1) /\ r.tail \in 0..(Cap - 1)
  BY RingFields
<1>2. /\ Count(r) \in 0..(Cap - 1)
      /\ Count(r) = (IF r.tail >= r.head THEN r.tail - r.head ELSE r.tail - r.head + Cap)
  BY CountCases
<1>3. r.head + i - 1 \in 0..(2 * Cap - 1)
  BY <1>1, <1>2, CapAssumption
<1>4. PICK j \in 0..(2 * Cap - 1) : j = r.head + i - 1
  BY <1>3
<1>5. Mod(j) = (IF j < Cap THEN j ELSE j - Cap) /\ Mod(j) \in 0..(Cap - 1)
  BY ModCases
<1>6. Mod(j) # r.tail
  BY <1>1, <1>2, <1>4, <1>5, CapAssumption
<1>7. Mod(r.head + i - 1) = (IF r.head + i - 1 < Cap THEN r.head + i - 1 ELSE r.head + i - 1 - Cap)
  <2>1. CASE j < Cap
    BY <2>1, <1>4, <1>5, <1>1, <1>2
  <2>2. CASE ~(j < Cap)
    BY <2>2, <1>4, <1>5, <1>1, <1>2, CapAssumption
  <2> QED
    BY <2>1, <2>2
<1>8. Mod(r.head + i - 1) \in 0..(Cap - 1) /\ Mod(r.head + i - 1) # r.tail
  BY <1>4, <1>5, <1>6, Zenon
<1> QED
  BY <1>7, <1>8, Zenon

\* The fields after each store.
LEMMA RingOps ==
  ASSUME NEW B, NEW r \in Ring(B), NEW b \in B
  PROVE  /\ WriteSlot(r, b) \in Ring(B)
         /\ Publish(r) \in Ring(B)
         /\ Advance(r) \in Ring(B)
         /\ WriteSlot(r, b).head = r.head /\ WriteSlot(r, b).tail = r.tail
         /\ WriteSlot(r, b).slots = [r.slots EXCEPT ![r.tail] = b]
         /\ Publish(r).head = r.head /\ Publish(r).tail = Mod(r.tail + 1)
         /\ Publish(r).slots = r.slots
         /\ Advance(r).head = Mod(r.head + 1) /\ Advance(r).tail = r.tail
         /\ Advance(r).slots = r.slots
<1>1. r.head \in 0..(Cap - 1) /\ r.tail \in 0..(Cap - 1)
  BY RingFields
<1>2. Mod(r.head + 1) \in 0..(Cap - 1) /\ Mod(r.tail + 1) \in 0..(Cap - 1)
  BY <1>1, ModNext
<1> QED
  BY <1>1, <1>2 DEF Ring, WriteSlot, Publish, Advance

\* Writing the slot at the tail shows to nobody.
LEMMA WriteKeepsContents ==
  ASSUME NEW B, NEW r \in Ring(B), NEW b \in B
  PROVE  Count(WriteSlot(r, b)) = Count(r) /\ Contents(WriteSlot(r, b)) = Contents(r)
<1> DEFINE w == WriteSlot(r, b)
<1>1. /\ w.head = r.head /\ w.tail = r.tail
      /\ w.slots = [r.slots EXCEPT ![r.tail] = b]
  BY RingOps
<1>2. Count(w) = Count(r)
  BY <1>1 DEF Count
<1>3. ASSUME NEW i \in 1..Count(r)
      PROVE  w.slots[Mod(w.head + i - 1)] = r.slots[Mod(r.head + i - 1)]
  <2>1. Mod(r.head + i - 1) \in 0..(Cap - 1) /\ Mod(r.head + i - 1) # r.tail
    BY PlaceCases
  <2>2. r.slots \in [0..(Cap - 1) -> B \cup {NoBlock}]
    BY RingFields
  <2> QED
    BY <1>1, <2>1, <2>2
<1> HIDE DEF w
<1>4. Contents(w) = Contents(r)
  BY <1>2, <1>3 DEF Contents
<1> QED
  BY <1>2, <1>4 DEF w

\* Publishing appends what the slot at the tail holds.
LEMMA PublishAppends ==
  ASSUME NEW B, NEW r \in Ring(B), ~IsFull(r)
  PROVE  /\ Count(Publish(r)) = Count(r) + 1
         /\ Contents(Publish(r)) = Append(Contents(r), r.slots[r.tail])
<1> DEFINE p == Publish(r)
<1>1. /\ p.head = r.head /\ p.tail = Mod(r.tail + 1) /\ p.slots = r.slots
      /\ p \in Ring(B)
  BY CapAssumption DEF p, Publish, Ring, Mod
<1>2. r.head \in 0..(Cap - 1) /\ r.tail \in 0..(Cap - 1)
  BY RingFields
<1>3. Mod(r.tail + 1) = (IF r.tail = Cap - 1 THEN 0 ELSE r.tail + 1)
  BY <1>2, ModNext
<1>4. Count(p) = (IF p.tail >= p.head THEN p.tail - p.head ELSE p.tail - p.head + Cap)
  BY <1>1, CountCases
<1>5. /\ Count(r) = (IF r.tail >= r.head THEN r.tail - r.head ELSE r.tail - r.head + Cap)
      /\ Count(r) \in 0..(Cap - 1) /\ Count(r) # Cap - 1
  BY CountCases
<1>6. Count(p) = Count(r) + 1
  BY <1>1, <1>2, <1>3, <1>4, <1>5, CapAssumption
<1>7. Mod(r.head + Count(r) + 1 - 1) = r.tail
  <2> DEFINE k == r.head + Count(r)
  <2>1. k \in 0..(2 * Cap - 1)
    BY <1>2, <1>5, CapAssumption
  <2> HIDE DEF k
  <2>2. Mod(k) = (IF k < Cap THEN k ELSE k - Cap)
    BY <2>1, ModCases
  <2> USE DEF k
  <2>3. r.head + Count(r) + 1 - 1 = k
    BY <1>2, <1>5
  <2> QED
    BY <2>2, <2>3, <1>2, <1>5, CapAssumption
<1>8. Contents(p) = [i \in 1..(Count(r) + 1) |-> r.slots[Mod(r.head + i - 1)]]
  BY <1>1, <1>6 DEF Contents
<1>9. Contents(p) = Append(Contents(r), r.slots[r.tail])
  <2> DEFINE c == Contents(r)
             n == Count(r)
             x == r.slots[r.tail]
  <2>1. /\ n \in Nat /\ Len(c) = n
        /\ c = [i \in 1..n |-> r.slots[Mod(r.head + i - 1)]]
    BY <1>5 DEF Contents
  <2>2. r.slots[Mod(r.head + (n + 1) - 1)] = x
    <3>1. r.head + (n + 1) - 1 = r.head + Count(r) + 1 - 1
      BY <1>2, <1>5
    <3> QED
      BY <3>1, <1>7
  <2>3. Contents(p) = [i \in 1..(n + 1) |-> r.slots[Mod(r.head + i - 1)]]
    BY <1>8
  <2> HIDE DEF c, n, x, p
  <2>4. Append(c, x) = [i \in 1..(n + 1) |-> IF i = n + 1 THEN x ELSE c[i]]
    BY <2>1
  <2>5. ASSUME NEW i \in 1..(n + 1)
        PROVE  r.slots[Mod(r.head + i - 1)] = (IF i = n + 1 THEN x ELSE c[i])
    <3>1. CASE i = n + 1
      BY <3>1, <2>2
    <3>2. CASE i # n + 1
      <4>1. i \in 1..n
        BY <3>2, <2>1
      <4> QED
        BY <4>1, <3>2, <2>1
    <3> QED
      BY <3>1, <3>2
  <2>6. Contents(p) = Append(c, x)
    BY <2>3, <2>4, <2>5
  <2> QED
    BY <2>6 DEF c, x
<1> QED
  BY <1>6, <1>9

\* Advancing takes the front off.
LEMMA AdvanceTakes ==
  ASSUME NEW B, NEW r \in Ring(B), ~IsEmpty(r)
  PROVE  /\ Count(Advance(r)) = Count(r) - 1
         /\ Contents(r) # <<>>
         /\ Head(Contents(r)) = Oldest(r)
         /\ Contents(Advance(r)) = Tail(Contents(r))
<1> DEFINE a == Advance(r)
<1>1. /\ a.head = Mod(r.head + 1) /\ a.tail = r.tail /\ a.slots = r.slots
      /\ a \in Ring(B)
  BY CapAssumption DEF a, Advance, Ring, Mod
<1>2. r.head \in 0..(Cap - 1) /\ r.tail \in 0..(Cap - 1)
  BY RingFields
<1>3. Mod(r.head + 1) = (IF r.head = Cap - 1 THEN 0 ELSE r.head + 1)
  BY <1>2, ModNext
<1>4. Count(a) = (IF a.tail >= a.head THEN a.tail - a.head ELSE a.tail - a.head + Cap)
  BY <1>1, CountCases
<1>5. /\ Count(r) = (IF r.tail >= r.head THEN r.tail - r.head ELSE r.tail - r.head + Cap)
      /\ Count(r) \in 0..(Cap - 1) /\ Count(r) # 0
  BY CountCases
<1>6. Count(a) = Count(r) - 1
  BY <1>1, <1>2, <1>3, <1>4, <1>5, CapAssumption
<1>7. Len(Contents(r)) = Count(r) /\ Contents(r) # <<>>
  BY <1>5 DEF Contents
<1>8. Head(Contents(r)) = Oldest(r)
  <2>1. Contents(r)[1] = r.slots[Mod(r.head + 1 - 1)]
    BY <1>5 DEF Contents
  <2>2. r.head + 1 - 1 = r.head /\ Mod(r.head) = r.head
    BY <1>2, ModSmall
  <2>3. Head(Contents(r)) = Contents(r)[1]
    BY <1>7 DEF Contents
  <2> QED
    BY <2>1, <2>2, <2>3 DEF Oldest
<1>9. Contents(a) = Tail(Contents(r))
  <2>1. Tail(Contents(r)) = [i \in 1..(Count(r) - 1) |-> Contents(r)[i + 1]]
    <3> DEFINE c == Contents(r)
               n == Count(r)
    <3>1. n \in Nat /\ Len(c) = n /\ c = [i \in 1..n |-> r.slots[Mod(r.head + i - 1)]]
      BY <1>5 DEF Contents
    <3> HIDE DEF c, n
    <3>2. Tail(c) = [i \in 1..(n - 1) |-> c[i + 1]]
      BY <3>1
    <3> QED
      BY <3>2 DEF c, n
  <2>2. Contents(a) = [i \in 1..(Count(r) - 1) |-> r.slots[Mod(Mod(r.head + 1) + i - 1)]]
    BY <1>1, <1>6 DEF Contents
  <2>3. ASSUME NEW i \in 1..(Count(r) - 1)
        PROVE  r.slots[Mod(Mod(r.head + 1) + i - 1)] = Contents(r)[i + 1]
    <3>1. i + 1 \in 1..Count(r)
      BY <1>5
    <3>2. Contents(r)[i + 1] = r.slots[Mod(r.head + (i + 1) - 1)]
      BY <3>1 DEF Contents
    <3>3. Mod(r.head + (i + 1) - 1) =
            (IF r.head + (i + 1) - 1 < Cap THEN r.head + (i + 1) - 1 ELSE r.head + (i + 1) - 1 - Cap)
      BY <3>1, PlaceCases
    <3> DEFINE k == Mod(r.head + 1) + i - 1
    <3>4. k \in 0..(2 * Cap - 1)
      BY <1>2, <1>3, <1>5, CapAssumption
    <3> HIDE DEF k
    <3>5. Mod(k) = (IF k < Cap THEN k ELSE k - Cap)
      BY <3>4, ModCases
    <3> USE DEF k
    <3>6. Mod(Mod(r.head + 1) + i - 1) = Mod(r.head + (i + 1) - 1)
      BY <1>2, <1>3, <1>5, <3>3, <3>5, CapAssumption
    <3> QED
      BY <3>2, <3>6
  <2> QED
    BY <2>1, <2>2, <2>3
<1> QED
  BY <1>6, <1>7, <1>8, <1>9

\* The rings have a slot more than the pool has blocks.
LEMMA CapFact ==
  /\ Cardinality(Blocks) \in Nat \ {0} /\ Cap \in Nat \ {0}
  /\ Cardinality(Blocks) <= Cap - 1
<1> DEFINE n == Cardinality(Blocks)
           S == {c \in {2^k : k \in 0..n} : c >= n + 1}
<1>1. n \in Nat \ {0}
  BY RecorderAssumption, FS_CardinalityType, FS_EmptySet
<1>2. S \in SUBSET Nat /\ S # {} /\ \A c \in S : c >= n + 1
  <2>1. \A k \in 0..n : 2^k \in Nat \ {0}
    BY PowersAssumption
  <2>2. \E k \in 0..n : 2^k >= n + 1
    BY PowersAssumption
  <2> QED
    BY <2>1, <2>2
<1>3. RingCap = Min(S)
  BY DEF RingCap
<1> HIDE DEF S
<1>4. Min(S) \in S
  BY <1>2, MinLeast
<1>5. RingCap \in Nat /\ RingCap >= n + 1
  BY <1>2, <1>3, <1>4
<1> HIDE DEF n
<1>6. RingCap \in Nat \ {0} /\ n <= RingCap - 1
  BY <1>1, <1>5
<1> QED
  BY <1>1, <1>6, CapacityAssumption DEF n

\* How many blocks a ring holds.
LEMMA RingCount ==
  ASSUME NEW r \in Ring(Blocks)
  PROVE  /\ Count(r) \in 0..(Cap - 1) /\ (IsFull(r) <=> Count(r) = Cap - 1)
         /\ (IsEmpty(r) <=> Count(r) = 0)
         /\ DOMAIN Contents(r) = 1..Count(r)
         /\ r.head <= r.tail => Count(r) = r.tail - r.head
<1>1. r.head \in 0..(Cap - 1) /\ r.tail \in 0..(Cap - 1)
  BY RingFields
<1>2. DOMAIN Contents(r) = 1..Count(r)
  BY DEF Contents
<1> QED
  BY <1>1, <1>2, CountCases

\* A block written into the free slot does not show.
LEMMA RingWrite ==
  ASSUME NEW r \in Ring(Blocks), NEW b \in Blocks, NEW w, w = WriteSlot(r, b)
  PROVE  /\ w \in Ring(Blocks) /\ Count(w) = Count(r) /\ Contents(w) = Contents(r)
         /\ w.tail = r.tail /\ w.slots[w.tail] = b
<1>1. Count(w) = Count(r) /\ Contents(w) = Contents(r)
  BY WriteKeepsContents
<1>2. w \in Ring(Blocks) /\ w.tail = r.tail /\ w.slots[w.tail] = b
  BY DEF WriteSlot, Ring
<1> QED
  BY <1>1, <1>2

\* A publication adds the block in the free slot at the end.
LEMMA RingPublish ==
  ASSUME NEW r \in Ring(Blocks), ~IsFull(r), NEW p, p = Publish(r)
  PROVE  /\ p \in Ring(Blocks) /\ Count(p) = Count(r) + 1
         /\ Contents(p) = Append(Contents(r), r.slots[r.tail])
<1>1. p \in Ring(Blocks)
  BY ModNext DEF Ring, Publish
<1> QED
  BY <1>1, PublishAppends

\* An advance takes the oldest block out.
LEMMA RingAdvance ==
  ASSUME NEW r \in Ring(Blocks), ~IsEmpty(r), NEW a, a = Advance(r)
  PROVE  /\ a \in Ring(Blocks) /\ a.tail = r.tail /\ a.slots = r.slots
         /\ Contents(r) # <<>> /\ Head(Contents(r)) = Oldest(r) /\ Contents(a) = Tail(Contents(r))
         /\ Count(a) = Count(r) - 1
<1>1. a \in Ring(Blocks) /\ a.tail = r.tail /\ a.slots = r.slots
  BY ModNext DEF Ring, Advance
<1> QED
  BY <1>1, AdvanceTakes

-----------------------------------------------------------------------------
(* Places.                                                                  *)

Held(x, b) == IF x = b THEN 1 ELSE 0
In(r, b)   == Occurrences(Contents(r), b)

\* The places of a block, ring by ring and thread by thread.
LEMMA PlacesFact ==
  ASSUME NEW b
  PROVE  Places(b) = In(free, b) + In(filled, b) + Held(cur, b) + Held(wblk, b)
  BY DEF Places, In, Held, Occurrences, Contents

\* A block added to a ring.
LEMMA InPublish ==
  ASSUME NEW r \in Ring(Blocks), Contents(r) \in Seq(Blocks), ~IsFull(r), NEW c \in Blocks,
         r.slots[r.tail] = c, NEW p, p = Publish(r), NEW b
  PROVE  Contents(p) \in Seq(Blocks) /\ In(p, b) = In(r, b) + Held(c, b) /\ In(r, b) \in Nat
<1>1. Contents(p) = Append(Contents(r), c)
  BY RingPublish
<1>2. Contents(p) \in Seq(Blocks)
  BY <1>1, AppendProperties
<1>3. In(p, b) = In(r, b) + Held(c, b)
  BY <1>1, OccurrencesAppend DEF In, Held
<1>4. In(r, b) \in Nat
  BY OccurrencesType DEF In
<1> QED
  BY <1>2, <1>3, <1>4

\* A block taken out of a ring.
LEMMA InAdvance ==
  ASSUME NEW r \in Ring(Blocks), Contents(r) \in Seq(Blocks), ~IsEmpty(r), NEW a, a = Advance(r), NEW b
  PROVE  /\ Oldest(r) \in Blocks /\ Contents(a) \in Seq(Blocks)
         /\ In(r, b) = Held(Oldest(r), b) + In(a, b) /\ In(a, b) \in Nat
<1>1. Contents(r) # <<>> /\ Head(Contents(r)) = Oldest(r) /\ Contents(a) = Tail(Contents(r))
  BY RingAdvance
<1>2. Oldest(r) \in Blocks /\ Contents(a) \in Seq(Blocks)
  BY <1>1, HeadTailProperties
<1>3. In(r, b) = Held(Oldest(r), b) + In(a, b)
  BY <1>1, OccurrencesTail DEF In, Held
<1>4. In(a, b) \in Nat
  BY <1>2, OccurrencesType DEF In
<1> QED
  BY <1>2, <1>3, <1>4

\* A ring that holds every block at most once, and one of them not at all,
\* has a slot left.
LEMMA RoomForOne ==
  ASSUME NEW r \in Ring(Blocks), Contents(r) \in Seq(Blocks), \A x \in Blocks : In(r, x) <= 1,
         NEW b \in Blocks, In(r, b) = 0
  PROVE  ~IsFull(r)
<1> DEFINE C == Contents(r)
           n == Count(r)
           P(x) == {i \in DOMAIN C : C[i] = x}
<1>1. n \in Nat /\ DOMAIN C = 1..n /\ (IsFull(r) <=> n = Cap - 1)
  BY RingCount, CapFact
<1>2. \A i \in 1..n : C[i] \in Blocks
  BY <1>1, ElementOfSeq, LenProperties
<1>3. \A x \in Blocks : IsFiniteSet(P(x)) /\ Cardinality(P(x)) \in Nat /\ Cardinality(P(x)) <= 1
  BY OccurrencesType DEF In, Occurrences
<1>4. ASSUME NEW i \in 1..n, NEW j \in 1..n, C[i] = C[j] PROVE i = j
  <2> SUFFICES ASSUME i # j PROVE FALSE
    OBVIOUS
  <2> DEFINE B == P(C[i])
  <2>1. i \in B /\ j \in B /\ {i} \subseteq B /\ j \notin {i}
    BY <1>1, <1>4
  <2>2. IsFiniteSet(B) /\ Cardinality(B) <= 1 /\ Cardinality(B) \in Nat
    BY <1>2, <1>3
  <2> HIDE DEF B
  <2>3. Cardinality({i}) + 1 <= Cardinality(B) /\ Cardinality({i}) = 1
    BY <2>1, <2>2, CountWithOne, FS_Singleton
  <2> QED
    BY <2>2, <2>3
<1>5. \A i \in 1..n : C[i] # b
  <2> SUFFICES ASSUME NEW i \in 1..n, C[i] = b PROVE FALSE
    OBVIOUS
  <2>1. i \in P(b) /\ Cardinality(P(b)) = 0
    BY <1>1 DEF In, Occurrences
  <2>2. P(b) = {}
    BY <1>3, <2>1, FS_EmptySet
  <2> QED
    BY <2>1, <2>2
<1>6. C \in [1..n -> Blocks \ {b}]
  <2>1. C = [i \in 1..n |-> C[i]]
    BY DEF Contents
  <2> QED
    BY <2>1, <1>2, <1>5
<1> HIDE DEF C, n
<1>7. C \in Injection(1..n, Blocks \ {b})
  BY <1>1, <1>4, <1>6 DEF Injection, IsInjective
<1>8. IsFiniteSet(Blocks \ {b}) /\ Cardinality(Blocks \ {b}) = Cardinality(Blocks) - 1
  BY RecorderAssumption, FS_RemoveElement
<1>9. Cardinality(1..n) <= Cardinality(Blocks \ {b}) /\ Cardinality(1..n) = n
  BY <1>1, <1>7, <1>8, FS_Injection, CountUpTo
<1> QED
  BY <1>1, <1>8, <1>9, CapFact

-----------------------------------------------------------------------------
(* The inductive invariant.                                                 *)

\* A push of block b into r between its two steps.
Pushing(r, b) == ~IsFull(r) /\ r.slots[r.tail] = b

Queues ==
    /\ free \in Ring(Blocks) /\ Contents(free) \in Seq(Blocks)
    /\ filled \in Ring(Blocks) /\ Contents(filled) \in Seq(Blocks)
    /\ cur \in Blocks \cup {NoBlock} /\ wblk \in Blocks \cup {NoBlock}

\* The callback runs only in a stream that was started and not yet closed;
\* the GUI thread has the rings to itself before and after.
GuiOK ==
    /\ apc # "out" => gpc \in {"recording", "stopping", "closing"}
    /\ stream = "running" => gpc \in {"recording", "stopping"}
    /\ gpc = "ready" => wpc = "off" /\ cur = NoBlock /\ ~IsEmpty(free)
    /\ gpc = "tailpublish" => cur # NoBlock /\ Pushing(filled, cur)

AudioOK ==
    /\ apc = "take" => cur = NoBlock /\ ~IsEmpty(free)
    /\ apc \in {"handoff", "publish"} => cur # NoBlock
    /\ apc = "publish" => Pushing(filled, cur)

WriterOK ==
    /\ wblk # NoBlock <=> wpc \in {"write", "give", "given"}
    /\ wpc = "release" => ~IsEmpty(filled)
    /\ wpc = "given" => Pushing(free, wblk)

Placed == Queues /\ GuiOK /\ AudioOK /\ WriterOK /\ OnePlace

-----------------------------------------------------------------------------
(* Initially every block is free.                                           *)

\* The constructor leaves each block once in the ring of the free ones.
LEMMA AllFreeFact ==
  /\ AllFree \in Ring(Blocks) /\ Contents(AllFree) \in Seq(Blocks) /\ ~IsEmpty(AllFree)
  /\ \A b \in Blocks : In(AllFree, b) = 1
<1> DEFINE n == Cardinality(Blocks)
           order == SetToSeq(Blocks)
<1>1. n \in Nat \ {0} /\ Cap \in Nat \ {0} /\ n <= Cap - 1
  BY CapFact
<1>2. Min({n, Cap - 1}) = n
  <2> DEFINE S == {n, Cap - 1}
  <2>1. S \in SUBSET Nat /\ n \in S /\ \A x \in S : n <= x
    BY <1>1
  <2> HIDE DEF S
  <2>2. Min(S) = n
    BY <2>1, MinUnique
  <2> QED
    BY <2>2 DEF S
<1>3. order \in [1..n -> Blocks] /\ IsInjective(order) /\ \A b \in Blocks : \E i \in 1..n : order[i] = b
  <2>1. \E f \in [1..n -> Blocks] : IsInjective(f)
    BY RecorderAssumption, FS_CardinalityType DEF ExistsBijection, Bijection, Injection
  <2>2. order \in [1..n -> Blocks] /\ IsInjective(order)
    BY <2>1 DEF SetToSeq
  <2> HIDE DEF order
  <2>3. order \in Injection(1..n, Blocks)
    BY <2>2 DEF Injection
  <2>4. Cardinality(1..n) = n
    BY <1>1, CountUpTo
  <2>5. order \in Surjection(1..n, Blocks)
    BY <2>3, <2>4, RecorderAssumption, FS_Injection
  <2> QED
    BY <2>2, <2>5 DEF Surjection
<1> HIDE DEF order
<1>4. AllFree = [slots |-> [i \in 0..(Cap - 1) |-> IF i < n THEN order[i + 1] ELSE NoBlock],
                 head |-> 0, tail |-> n]
  BY <1>2 DEF AllFree, order
<1> HIDE DEF n
<1>5. PICK r : r = AllFree
  OBVIOUS
<1>6. /\ r.head = 0 /\ r.tail = n
      /\ r.slots = [i \in 0..(Cap - 1) |-> IF i < n THEN order[i + 1] ELSE NoBlock]
  BY <1>4, <1>5
<1>7. \A i \in 0..(Cap - 1) : r.slots[i] \in Blocks \cup {NoBlock}
  BY <1>1, <1>3, <1>6
<1>8. r \in Ring(Blocks)
  <2>1. n \in 0..(Cap - 1) /\ 0 \in 0..(Cap - 1)
    BY <1>1
  <2>2. r.slots \in [0..(Cap - 1) -> Blocks \cup {NoBlock}]
    BY <1>6, <1>7
  <2>3. r = [slots |-> r.slots, head |-> 0, tail |-> n]
    BY <1>4, <1>5
  <2> QED
    BY <2>1, <2>2, <2>3 DEF Ring
<1>9. Count(r) = n /\ (IsEmpty(r) <=> Count(r) = 0)
  BY <1>1, <1>6, <1>8, RingCount
<1>10. ASSUME NEW i \in 1..n PROVE r.slots[Mod(r.head + i - 1)] = order[i]
  <2>1. i - 1 \in 0..(Cap - 1) /\ i - 1 < n /\ (i - 1) + 1 = i /\ r.head + i - 1 = i - 1
    BY <1>1, <1>6
  <2>2. Mod(i - 1) = i - 1
    BY <2>1, ModSmall
  <2> QED
    BY <2>1, <2>2, <1>6
<1>11. Contents(r) = order
  <2>1. Contents(r) = [i \in 1..n |-> order[i]]
    BY <1>9, <1>10 DEF Contents
  <2> QED
    BY <2>1, <1>3
<1>12. order \in Seq(Blocks)
  BY <1>1, <1>3, FunctionIsSeq
<1>13. ASSUME NEW b \in Blocks PROVE In(r, b) = 1
  <2>1. PICK i \in 1..n : order[i] = b
    BY <1>3
  <2>2. {j \in DOMAIN order : order[j] = b} = {i}
    BY <2>1, <1>3 DEF IsInjective
  <2> QED
    BY <2>2, <1>11, FS_Singleton DEF In, Occurrences
<1> QED
  BY <1>1, <1>5, <1>8, <1>9, <1>11, <1>12, <1>13

\* The empty ring.
LEMMA EmptyFact ==
  /\ EmptyRing \in Ring(Blocks) /\ Contents(EmptyRing) \in Seq(Blocks)
  /\ \A b \in Blocks : In(EmptyRing, b) = 0
<1>1. EmptyRing \in Ring(Blocks) /\ EmptyRing.head = 0 /\ EmptyRing.tail = 0
  BY CapFact DEF EmptyRing, Ring
<1>2. Count(EmptyRing) = 0
  BY <1>1, RingCount
<1>3. Contents(EmptyRing) = <<>>
  BY <1>2 DEF Contents
<1> QED
  BY <1>1, <1>3, OccurrencesNone, EmptySeq DEF In

\* The invariant holds initially.
LEMMA InitPlaced == Init => Placed
<1> SUFFICES ASSUME Init PROVE Placed
  OBVIOUS
<1>1. /\ free = AllFree /\ filled = EmptyRing /\ cur = NoBlock /\ wblk = NoBlock
      /\ stream = "closed" /\ apc = "out" /\ wpc = "off" /\ gpc = "ready"
  BY DEF Init
<1>2. Queues
  BY <1>1, AllFreeFact, EmptyFact DEF Queues
<1>3. GuiOK /\ AudioOK /\ WriterOK
  BY <1>1, AllFreeFact DEF GuiOK, AudioOK, WriterOK
<1>4. ASSUME NEW b \in Blocks PROVE Places(b) = 1
  <2>1. Held(cur, b) = 0 /\ Held(wblk, b) = 0
    BY <1>1, RecorderAssumption DEF Held
  <2>2. In(free, b) = 1 /\ In(filled, b) = 0
    BY <1>1, AllFreeFact, EmptyFact
  <2> QED
    BY <2>1, <2>2, PlacesFact
<1> QED
  BY <1>2, <1>3, <1>4 DEF Placed, OnePlace

-----------------------------------------------------------------------------
(* Every step keeps the invariant.                                          *)

\* The primes of the state's parts, on the variables.
LEMMA Primed ==
  /\ Queues' <=> /\ free' \in Ring(Blocks) /\ Contents(free') \in Seq(Blocks)
                 /\ filled' \in Ring(Blocks) /\ Contents(filled') \in Seq(Blocks)
                 /\ cur' \in Blocks \cup {NoBlock} /\ wblk' \in Blocks \cup {NoBlock}
  /\ GuiOK' <=> /\ apc' # "out" => gpc' \in {"recording", "stopping", "closing"}
                /\ stream' = "running" => gpc' \in {"recording", "stopping"}
                /\ gpc' = "ready" => wpc' = "off" /\ cur' = NoBlock /\ ~IsEmpty(free')
                /\ gpc' = "tailpublish" => cur' # NoBlock /\ Pushing(filled', cur')
  /\ AudioOK' <=> /\ apc' = "take" => cur' = NoBlock /\ ~IsEmpty(free')
                  /\ apc' \in {"handoff", "publish"} => cur' # NoBlock
                  /\ apc' = "publish" => Pushing(filled', cur')
  /\ WriterOK' <=> /\ wblk' # NoBlock <=> wpc' \in {"write", "give", "given"}
                   /\ wpc' = "release" => ~IsEmpty(filled')
                   /\ wpc' = "given" => Pushing(free', wblk')
<1>1. /\ Contents(free)' = Contents(free') /\ Contents(filled)' = Contents(filled')
      /\ IsEmpty(free)' = IsEmpty(free') /\ IsEmpty(filled)' = IsEmpty(filled')
      /\ Pushing(filled, cur)' = Pushing(filled', cur') /\ Pushing(free, wblk)' = Pushing(free', wblk')
      /\ Ring(Blocks)' = Ring(Blocks)
  BY DEF Contents, Count, Mod, IsEmpty, Pushing, IsFull, Ring
<1> QED
  BY <1>1 DEF Queues, GuiOK, AudioOK, WriterOK

\* The places of a block after a step.
LEMMA PlacesNext ==
  ASSUME NEW b
  PROVE  Places(b)' = In(free', b) + In(filled', b) + Held(cur', b) + Held(wblk', b)
  BY DEF Places, In, Held, Occurrences, Contents, Count, Mod

\* What OnePlace says of a block, ring by ring.
LEMMA OneOf ==
  ASSUME Placed, NEW b \in Blocks
  PROVE  /\ In(free, b) \in Nat /\ In(filled, b) \in Nat
         /\ Held(cur, b) \in {0, 1} /\ Held(wblk, b) \in {0, 1} /\ Held(NoBlock, b) = 0
         /\ In(free, b) + In(filled, b) + Held(cur, b) + Held(wblk, b) = 1
<1>1. In(free, b) \in Nat /\ In(filled, b) \in Nat
  BY OccurrencesType DEF In, Placed, Queues
<1>2. Held(cur, b) \in {0, 1} /\ Held(wblk, b) \in {0, 1} /\ Held(NoBlock, b) = 0
  BY RecorderAssumption DEF Held
<1>3. Places(b) = 1
  BY DEF Placed, OnePlace
<1> QED
  BY <1>1, <1>2, <1>3, PlacesFact

\* While a block is in a thread's hands neither ring is full.
LEMMA RoomToPush ==
  ASSUME Placed, cur # NoBlock \/ wblk # NoBlock
  PROVE  ~IsFull(free) /\ ~IsFull(filled)
<1>1. free \in Ring(Blocks) /\ Contents(free) \in Seq(Blocks) /\ filled \in Ring(Blocks) /\ Contents(filled) \in Seq(Blocks)
  BY DEF Placed, Queues
<1>2. PICK b \in Blocks : Held(cur, b) = 1 \/ Held(wblk, b) = 1
  BY DEF Placed, Queues, Held
<1>3. \A x \in Blocks : In(free, x) <= 1 /\ In(filled, x) <= 1
  <2> TAKE x \in Blocks
  <2> QED
    BY OneOf
<1>4. In(free, b) = 0 /\ In(filled, b) = 0
  BY <1>2, OneOf
<1> QED
  BY <1>1, <1>3, <1>4, RoomForOne

\* A step that leaves the rings and the blocks in hand alone.
LEMMA QuietStep ==
  ASSUME Placed, UNCHANGED <<free, filled, cur, wblk>>
  PROVE  Queues' /\ OnePlace'
<1>1. Queues'
  BY Primed DEF Placed, Queues
<1>2. \A b \in Blocks : Places(b)' = Places(b)
  BY DEF Places, Contents, Count, Mod
<1> QED
  BY <1>1, <1>2 DEF Placed, OnePlace

\* The block that goes from a ring into a thread's hands.
LEMMA TakenFrom ==
  ASSUME NEW r \in Ring(Blocks), Contents(r) \in Seq(Blocks), ~IsEmpty(r), NEW a, a = Advance(r)
  PROVE  /\ a \in Ring(Blocks) /\ Contents(a) \in Seq(Blocks) /\ Oldest(r) \in Blocks
         /\ ~IsFull(a) /\ \A b : Pushing(r, b) => Pushing(a, b)
         /\ \A b \in Blocks : In(r, b) = Held(Oldest(r), b) + In(a, b) /\ In(a, b) \in Nat
<1>1. a \in Ring(Blocks) /\ a.tail = r.tail /\ a.slots = r.slots /\ Count(a) = Count(r) - 1
  BY RingAdvance
<1>2. Count(r) \in 0..(Cap - 1) /\ (IsFull(a) <=> Count(a) = Cap - 1)
  BY <1>1, RingCount
<1>3. ~IsFull(a)
  BY <1>1, <1>2, CapFact
<1>4. \A b : Pushing(r, b) => Pushing(a, b)
  BY <1>1, <1>3 DEF Pushing
<1>5. Oldest(r) \in Blocks /\ Contents(a) \in Seq(Blocks)
  BY InAdvance
<1>6. \A b \in Blocks : In(r, b) = Held(Oldest(r), b) + In(a, b) /\ In(a, b) \in Nat
  BY InAdvance
<1> QED
  BY <1>1, <1>3, <1>4, <1>5, <1>6

\* The first half of a push.
LEMMA PushBegun ==
  ASSUME NEW r \in Ring(Blocks), Contents(r) \in Seq(Blocks), ~IsFull(r), NEW c \in Blocks,
         NEW w, w = WriteSlot(r, c)
  PROVE  /\ w \in Ring(Blocks) /\ Contents(w) = Contents(r) /\ Pushing(w, c)
         /\ IsEmpty(w) <=> IsEmpty(r)
         /\ \A b : In(w, b) = In(r, b)
<1>1. /\ w \in Ring(Blocks) /\ Count(w) = Count(r) /\ Contents(w) = Contents(r)
      /\ w.slots[w.tail] = c
  BY RingWrite
<1>2. (IsFull(w) <=> IsFull(r)) /\ (IsEmpty(w) <=> IsEmpty(r))
  BY <1>1, RingCount
<1> QED
  BY <1>1, <1>2 DEF Pushing, In

\* The second half of a push.
LEMMA PushEnded ==
  ASSUME NEW r \in Ring(Blocks), Contents(r) \in Seq(Blocks), NEW c \in Blocks, Pushing(r, c),
         NEW p, p = Publish(r)
  PROVE  /\ p \in Ring(Blocks) /\ Contents(p) \in Seq(Blocks) /\ ~IsEmpty(p)
         /\ \A b : In(p, b) = In(r, b) + Held(c, b)
<1>1. ~IsFull(r) /\ r.slots[r.tail] = c
  BY DEF Pushing
<1>2. p \in Ring(Blocks) /\ Count(p) = Count(r) + 1
  BY <1>1, RingPublish
<1>3. ~IsEmpty(p)
  BY <1>2, RingCount
<1>4. Contents(p) \in Seq(Blocks) /\ \A b : In(p, b) = In(r, b) + Held(c, b)
  BY <1>1, InPublish
<1> QED
  BY <1>2, <1>3, <1>4

\* A step of the callback keeps the invariant.
LEMMA AudioPlaced ==
  ASSUME Placed, CallbackRefused \/ (\E k \in Spans : CallbackBegin(k)) \/ AudioStep
  PROVE  Placed'
<1>0. Queues /\ GuiOK /\ AudioOK /\ WriterOK /\ OnePlace
  BY DEF Placed
<1>1. CASE CallbackRefused
  <2>1. UNCHANGED <<free, filled, cur, wblk>>
    BY <1>1 DEF CallbackRefused, rings, writer
  <2>2. Queues' /\ OnePlace'
    BY <2>1, QuietStep
  <2>3. GuiOK' /\ AudioOK' /\ WriterOK'
    BY <1>0, <1>1, <2>1, Primed DEF CallbackRefused, GuiOK, AudioOK, WriterOK, writer, audio
  <2> QED
    BY <2>2, <2>3 DEF Placed
<1>2. ASSUME NEW k \in Spans, CallbackBegin(k) PROVE Placed'
  <2>1. UNCHANGED <<free, filled, cur, wblk>>
    BY <1>2 DEF CallbackBegin, rings, writer
  <2>2. Queues' /\ OnePlace'
    BY <2>1, QuietStep
  <2>3. GuiOK' /\ AudioOK' /\ WriterOK'
    BY <1>0, <1>2, <2>1, Primed DEF CallbackBegin, GuiOK, AudioOK, WriterOK, writer, audio
  <2> QED
    BY <2>2, <2>3 DEF Placed
<1>3. CASE TakeBlock
  <2>1. UNCHANGED <<free, filled, cur, wblk>>
    BY <1>3 DEF TakeBlock, rings, writer
  <2>2. Queues' /\ OnePlace'
    BY <2>1, QuietStep
  <2>3. GuiOK' /\ AudioOK' /\ WriterOK'
    BY <1>0, <1>3, <2>1, Primed DEF TakeBlock, GuiOK, AudioOK, WriterOK, writer, audio
  <2> QED
    BY <2>2, <2>3 DEF Placed
<1>4. CASE TakeAdvance
  <2>1. /\ apc = "take" /\ cur = NoBlock /\ ~IsEmpty(free)
        /\ cur' = Oldest(free) /\ free' = Advance(free) /\ filled' = filled /\ wblk' = wblk
    BY <1>0, <1>4 DEF TakeAdvance, GuiOK, AudioOK, writer
  <2>2. /\ free' \in Ring(Blocks) /\ Contents(free') \in Seq(Blocks) /\ cur' \in Blocks
        /\ \A b : Pushing(free, b) => Pushing(free', b)
        /\ \A b \in Blocks : In(free, b) = Held(cur', b) + In(free', b) /\ In(free', b) \in Nat
    BY <1>0, <2>1, TakenFrom DEF Queues
  <2>3. Queues'
    BY <1>0, <2>1, <2>2, Primed DEF Queues
  <2>4. GuiOK' /\ AudioOK' /\ WriterOK'
    BY <1>0, <1>4, <2>1, <2>2, Primed, RecorderAssumption DEF TakeAdvance, GuiOK, AudioOK, WriterOK, writer, audio
  <2>5. ASSUME NEW b \in Blocks PROVE Places(b)' = 1
    <3>1. Held(cur, b) = 0
      BY <2>1, OneOf
    <3>2. Held(wblk', b) = Held(wblk, b) /\ In(filled', b) = In(filled, b)
      BY <2>1
    <3>3. Held(cur', b) \in {0, 1}
      BY DEF Held
    <3>4. In(free, b) = Held(cur', b) + In(free', b) /\ In(free', b) \in Nat
      BY <2>2
    <3>5. Places(b)' = In(free', b) + In(filled, b) + Held(cur', b) + Held(wblk, b)
      BY <3>2, PlacesNext
    <3> QED
      BY <3>1, <3>3, <3>4, <3>5, OneOf
  <2> QED
    BY <2>3, <2>4, <2>5 DEF Placed, OnePlace
<1>5. CASE Copy
  <2>1. UNCHANGED <<free, filled, cur, wblk>>
    BY <1>5 DEF Copy, rings, writer
  <2>2. Queues' /\ OnePlace'
    BY <2>1, QuietStep
  <2>3. GuiOK' /\ AudioOK' /\ WriterOK'
    BY <1>0, <1>5, <2>1, Primed DEF Copy, GuiOK, AudioOK, WriterOK, writer, audio
  <2> QED
    BY <2>2, <2>3 DEF Placed
<1>6. CASE HandOff
  <2>1. cur \in Blocks /\ cur # NoBlock /\ ~IsFull(filled) /\ apc = "handoff"
    BY <1>0, <1>6, RoomToPush DEF HandOff, AudioOK, Queues
  <2>2. filled' = WriteSlot(filled, cur) /\ apc' = "publish" /\ UNCHANGED <<free, cur, wblk, wpc, gpc, stream>>
    BY <1>6, <2>1 DEF HandOff, writer
  <2>3. /\ filled' \in Ring(Blocks) /\ Contents(filled') \in Seq(Blocks) /\ Pushing(filled', cur)
        /\ IsEmpty(filled') <=> IsEmpty(filled)
        /\ \A b : In(filled', b) = In(filled, b)
    BY <1>0, <2>1, <2>2, PushBegun DEF Queues
  <2>4. Queues'
    BY <1>0, <2>2, <2>3, Primed DEF Queues
  <2>5. GuiOK' /\ AudioOK' /\ WriterOK'
    BY <1>0, <2>1, <2>2, <2>3, Primed DEF GuiOK, AudioOK, WriterOK
  <2>6. ASSUME NEW b \in Blocks PROVE Places(b)' = 1
    BY <2>2, <2>3, OneOf, PlacesNext
  <2> QED
    BY <2>4, <2>5, <2>6 DEF Placed, OnePlace
<1>7. CASE HandOffPublish
  <2>1. cur \in Blocks /\ cur # NoBlock /\ Pushing(filled, cur) /\ apc = "publish"
    BY <1>0, <1>7 DEF HandOffPublish, AudioOK, Queues
  <2>2. filled' = Publish(filled) /\ cur' = NoBlock /\ apc' = "loop" /\ UNCHANGED <<free, wblk, wpc, gpc, stream>>
    BY <1>7 DEF HandOffPublish, AfterHandOff, writer
  <2>3. /\ filled' \in Ring(Blocks) /\ Contents(filled') \in Seq(Blocks) /\ ~IsEmpty(filled')
        /\ \A b : In(filled', b) = In(filled, b) + Held(cur, b)
    BY <1>0, <2>1, <2>2, PushEnded DEF Queues
  <2>4. Queues'
    BY <1>0, <2>2, <2>3, Primed DEF Queues
  <2>5. GuiOK' /\ AudioOK' /\ WriterOK'
    BY <1>0, <2>1, <2>2, <2>3, Primed DEF GuiOK, AudioOK, WriterOK
  <2>6. ASSUME NEW b \in Blocks PROVE Places(b)' = 1
    <3>1. Held(cur', b) = 0
      BY <2>2, OneOf
    <3> QED
      BY <2>2, <2>3, <3>1, OneOf, PlacesNext
  <2> QED
    BY <2>4, <2>5, <2>6 DEF Placed, OnePlace
<1>8. CASE CallbackEnd
  <2>1. UNCHANGED <<free, filled, cur, wblk>>
    BY <1>8 DEF CallbackEnd, rings, writer
  <2>2. Queues' /\ OnePlace'
    BY <2>1, QuietStep
  <2>3. GuiOK' /\ AudioOK' /\ WriterOK'
    BY <1>0, <1>8, <2>1, Primed DEF CallbackEnd, GuiOK, AudioOK, WriterOK, writer, audio
  <2> QED
    BY <2>2, <2>3 DEF Placed
<1> QED
  BY <1>1, <1>2, <1>3, <1>4, <1>5, <1>6, <1>7, <1>8 DEF AudioStep

\* A step of the writer keeps the invariant.
LEMMA WriterPlaced ==
  ASSUME Placed, WriterStep
  PROVE  Placed'
<1>0. Queues /\ GuiOK /\ AudioOK /\ WriterOK /\ OnePlace
  BY DEF Placed
<1>1. CASE DrainRead
  <2>1. UNCHANGED <<free, filled, cur, wblk>>
    BY <1>1 DEF DrainRead, rings, writer
  <2>2. Queues' /\ OnePlace'
    BY <2>1, QuietStep
  <2>3. GuiOK' /\ AudioOK' /\ WriterOK'
    BY <1>0, <1>1, <2>1, Primed DEF DrainRead, GuiOK, AudioOK, WriterOK, writer, audio, AfterDrain
  <2> QED
    BY <2>2, <2>3 DEF Placed
<1>2. CASE DrainAdvance
  <2>1. wpc = "release" /\ wblk = NoBlock /\ ~IsEmpty(filled)
    BY <1>0, <1>2 DEF DrainAdvance, WriterOK
  <2>2. /\ wblk' = Oldest(filled) /\ filled' = Advance(filled) /\ wpc' = "write"
        /\ UNCHANGED <<free, cur, apc, gpc, stream>>
    BY <1>2 DEF DrainAdvance, audio
  <2>3. /\ filled' \in Ring(Blocks) /\ Contents(filled') \in Seq(Blocks) /\ wblk' \in Blocks
        /\ \A b : Pushing(filled, b) => Pushing(filled', b)
        /\ \A b \in Blocks : In(filled, b) = Held(wblk', b) + In(filled', b) /\ In(filled', b) \in Nat
    BY <1>0, <2>1, <2>2, TakenFrom DEF Queues
  <2>4. Queues'
    BY <1>0, <2>2, <2>3, Primed DEF Queues
  <2>5. GuiOK' /\ AudioOK' /\ WriterOK'
    BY <1>0, <2>1, <2>2, <2>3, Primed, RecorderAssumption DEF GuiOK, AudioOK, WriterOK
  <2>6. ASSUME NEW b \in Blocks PROVE Places(b)' = 1
    <3>1. Held(wblk, b) = 0
      BY <2>1, OneOf
    <3>2. Held(wblk', b) \in {0, 1}
      BY DEF Held
    <3>3. In(filled, b) = Held(wblk', b) + In(filled', b) /\ In(filled', b) \in Nat
      BY <2>3
    <3>4. Places(b)' = In(free, b) + In(filled', b) + Held(cur, b) + Held(wblk', b)
      BY <2>2, PlacesNext
    <3> QED
      BY <3>1, <3>2, <3>3, <3>4, OneOf
  <2> QED
    BY <2>4, <2>5, <2>6 DEF Placed, OnePlace
<1>3. CASE WriteBlock
  <2>1. UNCHANGED <<free, filled, cur, wblk>>
    BY <1>3 DEF WriteBlock, rings, writer
  <2>2. Queues' /\ OnePlace'
    BY <2>1, QuietStep
  <2>3. GuiOK' /\ AudioOK' /\ WriterOK'
    BY <1>0, <1>3, <2>1, Primed DEF WriteBlock, GuiOK, AudioOK, WriterOK, writer, audio
  <2> QED
    BY <2>2, <2>3 DEF Placed
<1>4. CASE GiveBack
  <2>1. wblk \in Blocks /\ wblk # NoBlock /\ ~IsFull(free) /\ wpc = "give"
    BY <1>0, <1>4, RoomToPush DEF GiveBack, WriterOK, Queues
  <2>2. /\ free' = WriteSlot(free, wblk) /\ wpc' = "given"
        /\ UNCHANGED <<filled, cur, wblk, apc, gpc, stream>>
    BY <1>4, <2>1 DEF GiveBack, audio
  <2>3. /\ free' \in Ring(Blocks) /\ Contents(free') \in Seq(Blocks) /\ Pushing(free', wblk)
        /\ IsEmpty(free') <=> IsEmpty(free)
        /\ \A b : In(free', b) = In(free, b)
    BY <1>0, <2>1, <2>2, PushBegun DEF Queues
  <2>4. Queues'
    BY <1>0, <2>2, <2>3, Primed DEF Queues
  <2>5. GuiOK' /\ AudioOK' /\ WriterOK'
    BY <1>0, <2>1, <2>2, <2>3, Primed DEF GuiOK, AudioOK, WriterOK
  <2>6. ASSUME NEW b \in Blocks PROVE Places(b)' = 1
    BY <2>2, <2>3, OneOf, PlacesNext
  <2> QED
    BY <2>4, <2>5, <2>6 DEF Placed, OnePlace
<1>5. CASE GiveBackPublish
  <2>1. wblk \in Blocks /\ wblk # NoBlock /\ Pushing(free, wblk) /\ wpc = "given"
    BY <1>0, <1>5 DEF GiveBackPublish, WriterOK, Queues
  <2>2. /\ free' = Publish(free) /\ wblk' = NoBlock /\ wpc' = "drain"
        /\ UNCHANGED <<filled, cur, apc, gpc, stream>>
    BY <1>5 DEF GiveBackPublish, audio
  <2>3. /\ free' \in Ring(Blocks) /\ Contents(free') \in Seq(Blocks) /\ ~IsEmpty(free')
        /\ \A b : In(free', b) = In(free, b) + Held(wblk, b)
    BY <1>0, <2>1, <2>2, PushEnded DEF Queues
  <2>4. Queues'
    BY <1>0, <2>2, <2>3, Primed DEF Queues
  <2>5. GuiOK' /\ AudioOK' /\ WriterOK'
    BY <1>0, <2>1, <2>2, <2>3, Primed DEF GuiOK, AudioOK, WriterOK
  <2>6. ASSUME NEW b \in Blocks PROVE Places(b)' = 1
    <3>1. Held(wblk', b) = 0
      BY <2>2, OneOf
    <3> QED
      BY <2>2, <2>3, <3>1, OneOf, PlacesNext
  <2> QED
    BY <2>4, <2>5, <2>6 DEF Placed, OnePlace
<1>6. CASE CheckStop
  <2>1. UNCHANGED <<free, filled, cur, wblk>>
    BY <1>6 DEF CheckStop, rings, writer
  <2>2. Queues' /\ OnePlace'
    BY <2>1, QuietStep
  <2>3. GuiOK' /\ AudioOK' /\ WriterOK'
    BY <1>0, <1>6, <2>1, Primed DEF CheckStop, GuiOK, AudioOK, WriterOK, writer, audio, AfterStop
  <2> QED
    BY <2>2, <2>3 DEF Placed
<1>7. CASE WriterTimeout
  <2>1. UNCHANGED <<free, filled, cur, wblk>>
    BY <1>7 DEF WriterTimeout, rings, writer
  <2>2. Queues' /\ OnePlace'
    BY <2>1, QuietStep
  <2>3. GuiOK' /\ AudioOK' /\ WriterOK'
    BY <1>0, <1>7, <2>1, Primed DEF WriterTimeout, TimedOut, GuiOK, AudioOK, WriterOK, writer, audio
  <2> QED
    BY <2>2, <2>3 DEF Placed
<1> QED
  BY <1>1, <1>2, <1>3, <1>4, <1>5, <1>6, <1>7 DEF WriterStep

\* A step of the GUI thread keeps the invariant.
LEMMA GuiPlaced ==
  ASSUME Placed, Start \/ OpenStream \/ StartStream \/ StopBegin \/ StopStep
  PROVE  Placed'
<1>0. Queues /\ GuiOK /\ AudioOK /\ WriterOK /\ OnePlace
  BY DEF Placed
<1>1. CASE Start
  <2>1. /\ gpc = "ready" /\ cur = NoBlock /\ ~IsEmpty(free)
        /\ cur' = Oldest(free) /\ free' = Advance(free) /\ filled' = filled /\ wblk' = wblk
    BY <1>0, <1>1 DEF Start, GuiOK, AudioOK, writer
  <2>2. /\ free' \in Ring(Blocks) /\ Contents(free') \in Seq(Blocks) /\ cur' \in Blocks
        /\ \A b : Pushing(free, b) => Pushing(free', b)
        /\ \A b \in Blocks : In(free, b) = Held(cur', b) + In(free', b) /\ In(free', b) \in Nat
    BY <1>0, <2>1, TakenFrom DEF Queues
  <2>3. Queues'
    BY <1>0, <2>1, <2>2, Primed DEF Queues
  <2>4. GuiOK' /\ AudioOK' /\ WriterOK'
    BY <1>0, <1>1, <2>1, <2>2, Primed, RecorderAssumption DEF Start, GuiOK, AudioOK, WriterOK, writer, audio
  <2>5. ASSUME NEW b \in Blocks PROVE Places(b)' = 1
    <3>1. Held(cur, b) = 0
      BY <2>1, OneOf
    <3>2. Held(wblk', b) = Held(wblk, b) /\ In(filled', b) = In(filled, b)
      BY <2>1
    <3>3. Held(cur', b) \in {0, 1}
      BY DEF Held
    <3>4. In(free, b) = Held(cur', b) + In(free', b) /\ In(free', b) \in Nat
      BY <2>2
    <3>5. Places(b)' = In(free', b) + In(filled, b) + Held(cur', b) + Held(wblk, b)
      BY <3>2, PlacesNext
    <3> QED
      BY <3>1, <3>3, <3>4, <3>5, OneOf
  <2> QED
    BY <2>3, <2>4, <2>5 DEF Placed, OnePlace
<1>2. CASE OpenStream
  <2>1. UNCHANGED <<free, filled, cur, wblk>>
    BY <1>2 DEF OpenStream, Notify, rings, writer
  <2>2. Queues' /\ OnePlace'
    BY <2>1, QuietStep
  <2>3. GuiOK' /\ AudioOK' /\ WriterOK'
    BY <1>0, <1>2, <2>1, Primed DEF OpenStream, Notify, GuiOK, AudioOK, WriterOK, writer, audio
  <2> QED
    BY <2>2, <2>3 DEF Placed
<1>3. CASE StartStream
  <2>1. UNCHANGED <<free, filled, cur, wblk>>
    BY <1>3 DEF StartStream, Notify, rings, writer
  <2>2. Queues' /\ OnePlace'
    BY <2>1, QuietStep
  <2>3. GuiOK' /\ AudioOK' /\ WriterOK'
    BY <1>0, <1>3, <2>1, Primed DEF StartStream, Notify, GuiOK, AudioOK, WriterOK, writer, audio
  <2> QED
    BY <2>2, <2>3 DEF Placed
<1>4. CASE StopBegin
  <2>1. UNCHANGED <<free, filled, cur, wblk>>
    BY <1>4 DEF StopBegin, rings, writer
  <2>2. Queues' /\ OnePlace'
    BY <2>1, QuietStep
  <2>3. GuiOK' /\ AudioOK' /\ WriterOK'
    BY <1>0, <1>4, <2>1, Primed DEF StopBegin, GuiOK, AudioOK, WriterOK, writer, audio
  <2> QED
    BY <2>2, <2>3 DEF Placed
<1>5. CASE StopStream
  <2>1. UNCHANGED <<free, filled, cur, wblk>>
    BY <1>5 DEF StopStream, rings, writer
  <2>2. Queues' /\ OnePlace'
    BY <2>1, QuietStep
  <2>3. GuiOK' /\ AudioOK' /\ WriterOK'
    BY <1>0, <1>5, <2>1, Primed DEF StopStream, GuiOK, AudioOK, WriterOK, writer, audio
  <2> QED
    BY <2>2, <2>3 DEF Placed
<1>6. CASE CloseStream
  <2>1. UNCHANGED <<free, filled, cur, wblk>>
    BY <1>6 DEF CloseStream, rings, writer
  <2>2. Queues' /\ OnePlace'
    BY <2>1, QuietStep
  <2>3. GuiOK' /\ AudioOK' /\ WriterOK'
    BY <1>0, <1>6, <2>1, Primed DEF CloseStream, GuiOK, AudioOK, WriterOK, writer, audio, CallbackJoined
  <2> QED
    BY <2>2, <2>3 DEF Placed
<1>7. CASE Signal
  <2>1. UNCHANGED <<free, filled, cur, wblk>>
    BY <1>7 DEF Signal, Notify, rings, writer
  <2>2. Queues' /\ OnePlace'
    BY <2>1, QuietStep
  <2>3. GuiOK' /\ AudioOK' /\ WriterOK'
    BY <1>0, <1>7, <2>1, Primed DEF Signal, Notify, GuiOK, AudioOK, WriterOK, writer, audio
  <2> QED
    BY <2>2, <2>3 DEF Placed
<1>8. CASE JoinWriter
  <2>1. UNCHANGED <<free, filled, cur, wblk>>
    BY <1>8 DEF JoinWriter, rings, writer
  <2>2. Queues' /\ OnePlace'
    BY <2>1, QuietStep
  <2>3. GuiOK' /\ AudioOK' /\ WriterOK'
    BY <1>0, <1>8, <2>1, Primed DEF JoinWriter, GuiOK, AudioOK, WriterOK, writer, audio
  <2> QED
    BY <2>2, <2>3 DEF Placed
<1>9. CASE Abort
  <2>1. UNCHANGED <<free, filled, cur, wblk>>
    BY <1>9 DEF Abort, rings, writer
  <2>2. Queues' /\ OnePlace'
    BY <2>1, QuietStep
  <2>3. GuiOK' /\ AudioOK' /\ WriterOK'
    BY <1>0, <1>9, <2>1, Primed DEF Abort, GuiOK, AudioOK, WriterOK, writer, audio
  <2> QED
    BY <2>2, <2>3 DEF Placed
<1>10. CASE HandOffTail
  <2>1. gpc = "tail" /\ apc = "out" /\ UNCHANGED <<free, wblk, wpc, apc, stream>>
    BY <1>0, <1>10 DEF HandOffTail, GuiOK, writer, audio
  <2>2. CASE ~TailHeld
    <3>1. gpc' = "signal" /\ UNCHANGED <<filled, cur>>
      BY <1>10, <2>2 DEF HandOffTail
    <3>2. Queues' /\ OnePlace'
      BY <2>1, <3>1, QuietStep
    <3>3. GuiOK' /\ AudioOK' /\ WriterOK'
      BY <1>0, <2>1, <3>1, Primed DEF GuiOK, AudioOK, WriterOK
    <3> QED
      BY <3>2, <3>3 DEF Placed
  <2>3. CASE TailHeld
    <3>1. cur \in Blocks /\ cur # NoBlock /\ ~IsFull(filled)
      BY <1>0, <2>3, RoomToPush DEF TailHeld, Queues
    <3>2. gpc' = "tailpublish" /\ filled' = WriteSlot(filled, cur) /\ cur' = cur
      BY <1>10, <2>3, <3>1 DEF HandOffTail
    <3>3. /\ filled' \in Ring(Blocks) /\ Contents(filled') \in Seq(Blocks) /\ Pushing(filled', cur)
          /\ IsEmpty(filled') <=> IsEmpty(filled)
          /\ \A b : In(filled', b) = In(filled, b)
      BY <1>0, <3>1, <3>2, PushBegun DEF Queues
    <3>4. Queues'
      BY <1>0, <2>1, <3>2, <3>3, Primed DEF Queues
    <3>5. GuiOK' /\ AudioOK' /\ WriterOK'
      BY <1>0, <2>1, <3>1, <3>2, <3>3, Primed DEF GuiOK, AudioOK, WriterOK
    <3>6. ASSUME NEW b \in Blocks PROVE Places(b)' = 1
      BY <2>1, <3>2, <3>3, OneOf, PlacesNext
    <3> QED
      BY <3>4, <3>5, <3>6 DEF Placed, OnePlace
  <2> QED
    BY <2>2, <2>3
<1>11. CASE TailPublish
  <2>1. gpc = "tailpublish" /\ apc = "out" /\ cur \in Blocks /\ cur # NoBlock /\ Pushing(filled, cur)
    BY <1>0, <1>11 DEF TailPublish, GuiOK, Queues
  <2>2. /\ filled' = Publish(filled) /\ cur' = NoBlock /\ gpc' = "signal"
        /\ UNCHANGED <<free, wblk, wpc, apc, stream>>
    BY <1>11 DEF TailPublish, writer, audio
  <2>3. /\ filled' \in Ring(Blocks) /\ Contents(filled') \in Seq(Blocks) /\ ~IsEmpty(filled')
        /\ \A b : In(filled', b) = In(filled, b) + Held(cur, b)
    BY <1>0, <2>1, <2>2, PushEnded DEF Queues
  <2>4. Queues'
    BY <1>0, <2>2, <2>3, Primed DEF Queues
  <2>5. GuiOK' /\ AudioOK' /\ WriterOK'
    BY <1>0, <2>1, <2>2, <2>3, Primed DEF GuiOK, AudioOK, WriterOK
  <2>6. ASSUME NEW b \in Blocks PROVE Places(b)' = 1
    <3>1. Held(cur', b) = 0
      BY <2>2, OneOf
    <3> QED
      BY <2>2, <2>3, <3>1, OneOf, PlacesNext
  <2> QED
    BY <2>4, <2>5, <2>6 DEF Placed, OnePlace
<1> QED
  BY <1>1, <1>2, <1>3, <1>4, <1>5, <1>6, <1>7, <1>8, <1>9, <1>10, <1>11 DEF StopStep

\* Every step keeps the invariant.
LEMMA NextPlaced == Placed /\ [Next]_vars => Placed'
<1> SUFFICES ASSUME Placed, [Next]_vars PROVE Placed'
  OBVIOUS
<1>1. CASE UNCHANGED vars
  <2>1. UNCHANGED <<free, filled, cur, wblk, apc, wpc, gpc, stream>>
    BY <1>1 DEF vars, rings, writer, audio
  <2>2. Queues' /\ OnePlace'
    BY <2>1, QuietStep
  <2>3. GuiOK' /\ AudioOK' /\ WriterOK'
    BY <2>1, Primed DEF Placed, GuiOK, AudioOK, WriterOK
  <2> QED
    BY <2>2, <2>3 DEF Placed
<1> QED
  BY <1>1, AudioPlaced, WriterPlaced, GuiPlaced DEF Next

\* A block is never lost and never in two places: the callback does not fill
\* a block that the writer is writing, and the pool never shrinks
\* (sound_recorder.cpp:354-400, 425-437).
THEOREM OnePlaceHolds == Spec => []OnePlace
<1>1. Placed => OnePlace
  BY DEF Placed
<1> QED
  BY <1>1, InitPlaced, NextPlaced, PTL DEF Spec

\* Neither ring is ever full when a block is pushed on it, so no block is
\* dropped or leaked for want of a slot, and stop() leaves the file to the
\* writer (sound_recorder.cpp:169-174, 305-312, 387-400, 432-435).
THEOREM PushNeverFailsHolds == Spec => []PushNeverFails
<1>1. Placed => PushNeverFails
  BY RoomToPush DEF Placed, AudioOK, WriterOK, PushNeverFails, TailHeld
<1> QED
  BY <1>1, InitPlaced, NextPlaced, PTL DEF Spec

-----------------------------------------------------------------------------
(* Sizes and types.                                                         *)

\* A block never holds more frames than it has room for.
WithinBlock == \A b \in Blocks : Len(content[b]) <= BlockFrames

\* The rest of a span is made of frames the device has delivered.
Sizes ==
    /\ content \in [Blocks -> Seq(1..MaxFrames)] /\ WithinBlock
    /\ arg \in [span : Nat, left : Nat, src : Nat] /\ clock \in 0..MaxFrames
    /\ apc # "out" => arg.src >= 1 /\ arg.src + arg.left <= clock + 1
    /\ captured \in Nat /\ dropped \in Nat
    /\ file \in Seq(1..MaxFrames)

Flags ==
    /\ running \in BOOLEAN /\ shouldStop \in BOOLEAN /\ fileOpen \in BOOLEAN /\ final \in BOOLEAN
    /\ stream \in {"closed", "open", "running"}
    /\ apc \in {"out", "loop", "take", "handoff", "publish", "end"}
    /\ wpc \in {"off", "drain", "release", "write", "give", "given", "lock", "sleep", "exited"}

\* Initially nothing is recorded.
LEMMA InitSizes == Init => Sizes /\ Flags
<1> SUFFICES ASSUME Init PROVE Sizes /\ Flags
  OBVIOUS
<1>1. \A b \in Blocks : content[b] = <<>> /\ Len(<<>>) = 0
  BY DEF Init
<1>2. WithinBlock
  BY <1>1, RecorderAssumption DEF WithinBlock
<1>3. content \in [Blocks -> Seq(1..MaxFrames)] /\ file \in Seq(1..MaxFrames)
  BY EmptySeq DEF Init
<1>4. /\ arg \in [span : Nat, left : Nat, src : Nat] /\ clock \in 0..MaxFrames /\ apc = "out"
      /\ captured \in Nat /\ dropped \in Nat
  BY RecorderAssumption DEF Init
<1>5. Flags
  BY DEF Init, Flags
<1> QED
  BY <1>2, <1>3, <1>4, <1>5 DEF Sizes

\* The positions and the flags of the threads are what they are declared to be.
LEMMA NextFlags == Flags /\ [Next]_vars => Flags'
<1> SUFFICES ASSUME Flags, [Next]_vars PROVE Flags'
  OBVIOUS
<1>1. CASE CallbackRefused \/ (\E k \in Spans : CallbackBegin(k)) \/ AudioStep
  BY <1>1 DEF Flags, CallbackRefused, CallbackBegin, AudioStep, TakeBlock, TakeAdvance, Copy, HandOff,
              HandOffPublish, CallbackEnd, flags, outfile, writer, audio
<1>2. CASE WriterStep
  BY <1>2 DEF Flags, WriterStep, DrainRead, DrainAdvance, WriteBlock, GiveBack, GiveBackPublish, CheckStop,
              WriterTimeout, TimedOut, AfterDrain, AfterStop, flags, outfile, writer, audio
<1>3. CASE Start \/ OpenStream \/ StartStream \/ StopBegin \/ StopStep
  BY <1>3 DEF Flags, Start, OpenStream, StartStream, StopBegin, StopStep, StopStream, CloseStream,
              HandOffTail, TailPublish, Signal, Notify, JoinWriter, Abort, flags, outfile, writer, audio
<1>4. CASE UNCHANGED vars
  BY <1>4 DEF Flags, vars, flags, outfile, writer, audio
<1> QED
  BY <1>1, <1>2, <1>3, <1>4 DEF Next

\* A block that is emptied.
LEMMA EmptiedFits ==
  ASSUME content \in [Blocks -> Seq(1..MaxFrames)], WithinBlock, NEW b \in Blocks,
         content' = [content EXCEPT ![b] = <<>>]
  PROVE  content' \in [Blocks -> Seq(1..MaxFrames)] /\ WithinBlock'
<1>1. content' \in [Blocks -> Seq(1..MaxFrames)]
  BY EmptySeq
<1>2. \A x \in Blocks : content'[x] = content[x] \/ content'[x] = <<>>
  OBVIOUS
<1>3. Len(<<>>) = 0 /\ BlockFrames \in Nat
  BY RecorderAssumption
<1> QED
  BY <1>1, <1>2, <1>3 DEF WithinBlock

\* The copy takes what fits: memcpy stays inside the block.
LEMMA CopyFits ==
  ASSUME Sizes, Queues, Copy
  PROVE  Sizes'
<1> DEFINE room == BlockFrames - Len(content[cur])
           take == Min({room, arg.left})
           new  == [i \in 1..take |-> arg.src + i - 1]
<1>1. /\ cur \in Blocks /\ content[cur] \in Seq(1..MaxFrames) /\ Len(content[cur]) <= BlockFrames
      /\ content \in [Blocks -> Seq(1..MaxFrames)] /\ WithinBlock
  BY DEF Copy, Queues, Sizes, WithinBlock
<1>2. /\ arg \in [span : Nat, left : Nat, src : Nat] /\ arg.left \in Nat /\ arg.src \in Nat
      /\ clock \in Nat /\ MaxFrames \in Nat /\ clock <= MaxFrames
      /\ arg.src >= 1 /\ arg.src + arg.left <= clock + 1
  BY RecorderAssumption DEF Sizes, Copy
<1>3. Len(content[cur]) \in Nat /\ BlockFrames \in Nat /\ room \in Nat /\ Len(content[cur]) + room = BlockFrames
  BY <1>1, LenProperties, RecorderAssumption
<1> HIDE DEF room
<1>4. take \in Nat /\ take <= room /\ take <= arg.left
  <2> DEFINE S == {room, arg.left}
  <2>1. S \in SUBSET Nat /\ S # {} /\ room \in S /\ arg.left \in S
    BY <1>2, <1>3
  <2> HIDE DEF S
  <2>2. Min(S) \in S /\ \A x \in S : Min(S) <= x
    BY <2>1, MinLeast
  <2>3. Min(S) \in Nat /\ Min(S) <= room /\ Min(S) <= arg.left
    BY <2>1, <2>2
  <2> QED
    BY <2>3 DEF S
<1>5. /\ content' = [content EXCEPT ![cur] = @ \o new]
      /\ arg' = [arg EXCEPT !.left = @ - take, !.src = @ + take]
      /\ UNCHANGED <<clock, captured, dropped, file>>
  BY DEF Copy, room, counts, outfile
<1> HIDE DEF take
<1>6. new \in Seq(1..MaxFrames) /\ Len(new) = take
  <2>1. \A i \in 1..take : arg.src + i - 1 \in 1..MaxFrames
    BY <1>2, <1>4
  <2>2. new \in [1..take -> 1..MaxFrames]
    BY <2>1
  <2> QED
    BY <2>2, <1>4, FunctionIsSeq
<1> HIDE DEF new
<1>7. content[cur] \o new \in Seq(1..MaxFrames) /\ Len(content[cur] \o new) = Len(content[cur]) + take
  BY <1>1, <1>6, ConcatProperties
<1>8. content' \in [Blocks -> Seq(1..MaxFrames)]
  BY <1>1, <1>5, <1>7
<1>9. Len(content[cur] \o new) <= BlockFrames
  BY <1>3, <1>4, <1>7
<1>10. WithinBlock'
  BY <1>1, <1>5, <1>9 DEF WithinBlock
<1>11. /\ arg' \in [span : Nat, left : Nat, src : Nat]
       /\ arg'.src >= 1 /\ arg'.src + arg'.left <= clock + 1
  <2>1. arg.left - take \in Nat /\ arg.src + take \in Nat /\ arg.src + take >= 1
        /\ (arg.src + take) + (arg.left - take) <= clock + 1
    BY <1>2, <1>4
  <2>2. arg'.left = arg.left - take /\ arg'.src = arg.src + take /\ arg' \in [span : Nat, left : Nat, src : Nat]
    BY <1>2, <1>5, <2>1
  <2> QED
    BY <2>1, <2>2
<1> QED
  BY <1>5, <1>8, <1>10, <1>11 DEF Sizes

\* A step that leaves what Sizes is about alone, but for the callback's place.
LEMMA QuietSizes ==
  ASSUME Sizes, UNCHANGED <<content, arg, clock, captured, dropped, file>>,
         apc' # "out" => apc # "out"
  PROVE  Sizes'
  BY DEF Sizes, WithinBlock

\* A step of the callback.
LEMMA AudioSizes ==
  ASSUME Sizes, Placed, CallbackRefused \/ (\E k \in Spans : CallbackBegin(k)) \/ AudioStep
  PROVE  Sizes'
<1>0. Queues /\ AudioOK
  BY DEF Placed
<1>1. CASE CallbackRefused \/ HandOffPublish
  BY <1>1, QuietSizes DEF CallbackRefused, HandOffPublish, audio, counts, outfile
<1>2. ASSUME NEW k \in Spans, CallbackBegin(k) PROVE Sizes'
  <2>1. k \in Nat /\ clock \in Nat /\ clock + k <= MaxFrames /\ MaxFrames \in Nat
    BY <1>2, RecorderAssumption DEF CallbackBegin, Sizes
  <2>2. /\ clock' = clock + k /\ arg' = [span |-> k, left |-> k, src |-> clock + 1]
        /\ UNCHANGED <<content, captured, dropped, file>>
    BY <1>2 DEF CallbackBegin, counts, outfile
  <2>3. clock' \in 0..MaxFrames /\ arg' \in [span : Nat, left : Nat, src : Nat]
    BY <2>1, <2>2
  <2>4. arg'.src >= 1 /\ arg'.src + arg'.left <= clock' + 1
    BY <2>1, <2>2
  <2> QED
    BY <2>2, <2>3, <2>4 DEF Sizes, WithinBlock
<1>3. CASE TakeBlock
  <2>1. arg.left \in Nat /\ dropped \in Nat
    BY DEF Sizes
  <2>2. dropped' \in Nat
    BY <1>3, <2>1 DEF TakeBlock, Dropped
  <2>3. apc # "out" /\ UNCHANGED <<content, arg, clock, captured, file>>
    BY <1>3 DEF TakeBlock, outfile
  <2> QED
    BY <2>2, <2>3 DEF Sizes, WithinBlock
<1>4. CASE TakeAdvance
  <2>1. /\ cur' = Oldest(free) /\ content' = [content EXCEPT ![cur'] = <<>>]
        /\ apc = "take" /\ ~IsEmpty(free) /\ UNCHANGED <<arg, clock, captured, dropped, file>>
    BY <1>0, <1>4 DEF TakeAdvance, AudioOK, counts, outfile
  <2>2. PICK b \in Blocks : b = Oldest(free)
    BY <1>0, <2>1, TakenFrom DEF Queues
  <2>3. content' = [content EXCEPT ![b] = <<>>]
    BY <2>1, <2>2
  <2>4. content' \in [Blocks -> Seq(1..MaxFrames)] /\ WithinBlock'
    BY <2>3, EmptiedFits DEF Sizes
  <2> QED
    BY <2>1, <2>4 DEF Sizes
<1>5. CASE Copy
  BY <1>0, <1>5, CopyFits
<1>6. CASE HandOff
  <2>1. /\ ~IsFull(filled) /\ apc = "handoff"
    BY <1>6, RoomToPush DEF HandOff, Placed, AudioOK
  <2>2. UNCHANGED <<content, arg, clock, captured, dropped, file>>
    BY <1>6, <2>1 DEF HandOff, outfile
  <2> QED
    BY <2>1, <2>2, QuietSizes
<1>7. CASE CallbackEnd
  <2>1. arg.span \in Nat /\ captured \in Nat
    BY DEF Sizes
  <2>2. captured' \in Nat /\ apc' = "out" /\ UNCHANGED <<content, arg, clock, dropped, file>>
    BY <1>7, <2>1 DEF CallbackEnd, outfile
  <2> QED
    BY <2>2 DEF Sizes, WithinBlock
<1> QED
  BY <1>1, <1>2, <1>3, <1>4, <1>5, <1>6, <1>7 DEF AudioStep

\* A step of the writer.
LEMMA WriterSizes ==
  ASSUME Sizes, Placed, WriterStep
  PROVE  Sizes'
<1>0. Queues /\ WriterOK
  BY DEF Placed
<1>1. CASE WriteBlock
  <2>1. PICK b \in Blocks : b = wblk
    BY <1>0, <1>1 DEF WriteBlock, WriterOK, Queues
  <2>2. /\ file' = (IF fileOpen THEN file \o content[b] ELSE file)
        /\ content' = [content EXCEPT ![b] = <<>>]
        /\ UNCHANGED <<arg, clock, captured, dropped, apc>>
    BY <1>1, <2>1 DEF WriteBlock, audio, counts
  <2>3. content' \in [Blocks -> Seq(1..MaxFrames)] /\ WithinBlock'
    BY <2>2, EmptiedFits DEF Sizes
  <2>4. file \in Seq(1..MaxFrames) /\ content[b] \in Seq(1..MaxFrames)
    BY DEF Sizes
  <2>5. file' \in Seq(1..MaxFrames)
    BY <2>2, <2>4, ConcatProperties
  <2> QED
    BY <2>2, <2>3, <2>5 DEF Sizes
<1>2. CASE DrainRead \/ DrainAdvance \/ GiveBack \/ GiveBackPublish \/ CheckStop \/ WriterTimeout
  <2>1. UNCHANGED <<content, arg, clock, captured, dropped, file, apc>>
    BY <1>2 DEF DrainRead, DrainAdvance, GiveBack, GiveBackPublish, CheckStop, WriterTimeout, audio, counts, outfile
  <2> QED
    BY <2>1, QuietSizes
<1> QED
  BY <1>1, <1>2 DEF WriterStep

\* A step of the GUI thread.
LEMMA GuiSizes ==
  ASSUME Sizes, Placed, Start \/ OpenStream \/ StartStream \/ StopBegin \/ StopStep
  PROVE  Sizes'
<1>1. CASE Start
  <2>1. captured' = 0 /\ dropped' = 0 /\ UNCHANGED <<content, arg, clock, file, apc>>
    BY <1>1 DEF Start, audio, outfile
  <2> QED
    BY <2>1 DEF Sizes, WithinBlock
<1>2. CASE HandOffTail
  <2>1. UNCHANGED <<content, arg, clock, captured, dropped, apc>>
    BY <1>2 DEF HandOffTail, audio, counts
  <2>2. TailHeld => ~IsFull(filled)
    BY RoomToPush DEF TailHeld
  <2>3. file' = file
    BY <1>2, <2>2 DEF HandOffTail
  <2> QED
    BY <2>1, <2>3, QuietSizes
<1>3. CASE \/ OpenStream \/ StartStream \/ StopBegin \/ StopStream \/ CloseStream \/ TailPublish
           \/ Signal \/ JoinWriter \/ Abort
  <2>1. UNCHANGED <<content, arg, clock, captured, dropped, file, apc>>
    BY <1>3 DEF OpenStream, StartStream, StopBegin, StopStream, CloseStream, TailPublish, Signal, JoinWriter,
                Abort, audio, counts, outfile
  <2> QED
    BY <2>1, QuietSizes
<1> QED
  BY <1>1, <1>2, <1>3 DEF StopStep

\* Every step keeps the sizes.
LEMMA NextSizes == Sizes /\ Placed /\ [Next]_vars => Sizes'
<1> SUFFICES ASSUME Sizes, Placed, [Next]_vars PROVE Sizes'
  OBVIOUS
<1>1. CASE UNCHANGED vars
  BY <1>1, QuietSizes DEF vars, audio, counts, outfile
<1> QED
  BY <1>1, AudioSizes, WriterSizes, GuiSizes DEF Next

\* The typed values of every variable are what the code can store there.
THEOREM TypeCorrect == Spec => []TypeOK
<1>1. Placed /\ Sizes /\ Flags => TypeOK
  <2>1. Sizes => clock \in Nat
    BY RecorderAssumption DEF Sizes
  <2> QED
    BY <2>1 DEF Placed, Queues, Sizes, Flags, TypeOK
<1> QED
  BY <1>1, InitPlaced, InitSizes, NextPlaced, NextSizes, NextFlags, PTL DEF Spec

\* No memcpy of the callback runs past the end of its block: a block that is
\* full is handed off before anything more is copied
\* (sound_recorder.cpp:368-400).
THEOREM CopiesFit == Spec => []WithinBlock
<1>1. Sizes => WithinBlock
  BY DEF Sizes
<1> QED
  BY <1>1, InitPlaced, InitSizes, NextPlaced, NextSizes, PTL DEF Spec

-----------------------------------------------------------------------------
(* Sequences one after the other.                                           *)

\* FlattenSeq is a pass that appends a sequence at each step.
LEMMA FlattenPass ==
  ASSUME NEW S, NEW q \in Seq(Seq(S))
  PROVE  \E f \in [0..Len(q) -> Seq(S)] :
             f[0] = <<>> /\ (\A k \in 1..Len(q) : f[k] = f[k - 1] \o q[k]) /\ FlattenSeq(q) = f[Len(q)]
<1> DEFINE n == Len(q)
           V == Seq(S)
           g == [p \in (1..n) \X V |-> p[2] \o q[p[1]]]
           Def(h) == [i \in 1..n |-> IF i = 1 THEN q[i] ELSE h[i - 1] \o q[i]]
           flat == CHOOSE h : h = Def(h)
<1>1. n \in Nat /\ <<>> \in V /\ (\A k \in 1..n : q[k] \in V) /\ (n = 0 => q = <<>>)
  <2>1. n \in Nat /\ \A k \in 1..n : q[k] \in V
    BY LenProperties, ElementOfSeq
  <2> QED
    BY <2>1, EmptySeq
<1>2. \A k \in 1..n, v \in V : v \o q[k] \in V /\ g[<<k, v>>] = v \o q[k]
  BY <1>1, ConcatProperties
<1>3. PICK f \in [0..n -> V] : f[0] = <<>> /\ \A k \in 1..n : f[k] = f[k - 1] \o q[k]
  <2>1. DOMAIN g = (1..n) \X V /\ \A k \in 1..n, v \in V : g[<<k, v>>] \in V
    BY <1>2
  <2> HIDE DEF g, n, V
  <2>2. PICK f \in [0..n -> V] : Pass(f, <<>>, g, n)
    BY <1>1, <2>1, PassExists
  <2>3. \A k \in 1..n : k - 1 \in 0..n
    BY <1>1
  <2> QED
    BY <1>2, <2>2, <2>3 DEF Pass
<1>4. CASE n = 0
  <2>1. FlattenSeq(q) = <<>>
    BY <1>1, <1>4 DEF FlattenSeq
  <2> QED
    BY <1>3, <1>4, <2>1
<1>5. CASE n # 0
  <2> DEFINE e == [i \in 1..n |-> f[i]]
  <2>1. \A i \in 1..n : i \in 0..n /\ (i # 1 => i - 1 \in 1..n)
    BY <1>1
  <2>2. f[1] = q[1]
    <3>1. 1 \in 1..n /\ 1 - 1 = 0
      BY <1>1, <1>5
    <3>2. f[1] = <<>> \o q[1] /\ q[1] \in Seq(S)
      BY <1>1, <1>3, <3>1
    <3> QED
      BY <3>2, ConcatEmptySeq
  <2>3. \A i \in 1..n : e[i] = IF i = 1 THEN q[i] ELSE e[i - 1] \o q[i]
    BY <1>3, <2>1, <2>2
  <2>4. e = Def(e)
    <3> HIDE DEF n
    <3>1. e = [i \in 1..n |-> IF i = 1 THEN q[i] ELSE e[i - 1] \o q[i]]
      BY <2>3
    <3> QED
      BY <3>1
  <2>5. flat = Def(flat)
    <3> HIDE DEF Def, e
    <3> QED
      BY <2>4
  <2>6. FlattenSeq(q) = flat[n]
    BY <1>5 DEF FlattenSeq
  <2>7. \A i \in 1..n : flat[i] = IF i = 1 THEN q[i] ELSE flat[i - 1] \o q[i]
    <3>1. ASSUME NEW h, h = Def(h)
          PROVE  \A i \in 1..n : h[i] = IF i = 1 THEN q[i] ELSE h[i - 1] \o q[i]
      BY <3>1
    <3> HIDE DEF flat, Def
    <3> QED
      BY <2>5, <3>1
  <2> HIDE DEF flat, Def, e, n, g, V
  <2> DEFINE T == {0} \cup {i \in 1..n : flat[i] = f[i]}
  <2>8. \A k \in 0..(n - 1) : k \in T => k + 1 \in T
    <3> SUFFICES ASSUME NEW k \in 0..(n - 1), k \in T PROVE k + 1 \in T
      OBVIOUS
    <3>1. k + 1 \in 1..n /\ (k + 1) - 1 = k
      BY <1>1
    <3>2. CASE k = 0
      BY <3>1, <3>2, <2>2, <2>7
    <3>3. CASE k # 0
      <4>1. flat[k] = f[k] /\ k + 1 # 1
        BY <3>3
      <4>2. flat[k + 1] = flat[k] \o q[k + 1] /\ f[k + 1] = f[k] \o q[k + 1]
        BY <3>1, <4>1, <2>7, <1>3
      <4> QED
        BY <3>1, <4>1, <4>2
    <3> QED
      BY <3>2, <3>3
  <2>9. n \in T
    <3>1. \A k \in 0..n : k \in T
      <4>1. 0 \in T
        OBVIOUS
      <4> HIDE DEF T
      <4> QED
        BY <4>1, <2>8, <1>1, UpTo
    <3> QED
      BY <3>1, <1>1
  <2>10. flat[n] = f[n]
    BY <2>9, <1>5
  <2> QED
    BY <1>3, <2>6, <2>10 DEF n, V
<1> QED
  BY <1>4, <1>5

\* One sequence more.
LEMMA FlattenAppend ==
  ASSUME NEW S, NEW q \in Seq(Seq(S)), NEW x \in Seq(S)
  PROVE  FlattenSeq(q) \in Seq(S) /\ FlattenSeq(Append(q, x)) = FlattenSeq(q) \o x
<1> DEFINE n == Len(q)
           r == Append(q, x)
<1>1. n \in Nat
  BY LenProperties
<1>2. r \in Seq(Seq(S)) /\ Len(r) = n + 1 /\ (\A j \in 1..n : r[j] = q[j]) /\ r[n + 1] = x
  BY AppendProperties
<1> HIDE DEF r
<1>3. PICK f \in [0..n -> Seq(S)] :
          f[0] = <<>> /\ (\A k \in 1..n : f[k] = f[k - 1] \o q[k]) /\ FlattenSeq(q) = f[n]
  BY FlattenPass
<1>4. PICK h \in [0..Len(r) -> Seq(S)] :
          h[0] = <<>> /\ (\A k \in 1..Len(r) : h[k] = h[k - 1] \o r[k]) /\ FlattenSeq(r) = h[Len(r)]
  BY <1>2, FlattenPass
<1> HIDE DEF n
<1>5. \A k \in 0..n : f[k] = h[k]
  <2>1. \A k \in 0..(n - 1) : f[k] = h[k] => f[k + 1] = h[k + 1]
    <3> SUFFICES ASSUME NEW k \in 0..(n - 1), f[k] = h[k] PROVE f[k + 1] = h[k + 1]
      OBVIOUS
    <3>1. Len(r) = n + 1
      BY <1>2
    <3>2. k + 1 \in 1..n /\ k + 1 \in 1..Len(r) /\ (k + 1) - 1 = k
      BY <1>1, <3>1
    <3> QED
      BY <3>2, <1>2, <1>3, <1>4
  <2>2. f[0] = h[0]
    BY <1>3, <1>4
  <2> QED
    BY <1>1, <2>1, <2>2, PassUnique
<1>6. n \in 0..n /\ n + 1 \in 1..Len(r) /\ (n + 1) - 1 = n
  BY <1>1, <1>2
<1>7. h[n + 1] = h[n] \o x
  BY <1>2, <1>4, <1>6
<1> QED
  BY <1>2, <1>3, <1>4, <1>5, <1>6, <1>7 DEF r

\* One sequence less.
LEMMA FlattenTail ==
  ASSUME NEW S, NEW q \in Seq(Seq(S)), q # <<>>
  PROVE  /\ Head(q) \in Seq(S) /\ FlattenSeq(Tail(q)) \in Seq(S)
         /\ FlattenSeq(q) = Head(q) \o FlattenSeq(Tail(q))
<1> DEFINE n == Len(q)
           r == Tail(q)
<1>1. /\ n \in Nat \ {0} /\ r \in Seq(Seq(S)) /\ Head(q) \in Seq(S) /\ Head(q) = q[1]
      /\ DOMAIN r = 1..(n - 1) /\ \A j \in DOMAIN r : r[j] = q[j + 1]
  BY TailOf
<1>2. Len(r) = n - 1
  BY HeadTailProperties
<1> HIDE DEF r
<1>3. PICK f \in [0..n -> Seq(S)] :
          f[0] = <<>> /\ (\A k \in 1..n : f[k] = f[k - 1] \o q[k]) /\ FlattenSeq(q) = f[n]
  BY FlattenPass
<1>4. PICK h \in [0..Len(r) -> Seq(S)] :
          h[0] = <<>> /\ (\A k \in 1..Len(r) : h[k] = h[k - 1] \o r[k]) /\ FlattenSeq(r) = h[Len(r)]
  BY <1>1, FlattenPass
<1> HIDE DEF n
<1> DEFINE m == n - 1
           T == {k \in 0..m : f[k + 1] = q[1] \o h[k]}
<1>5. m \in Nat /\ Len(r) = m /\ m + 1 = n
  BY <1>1, <1>2
<1> HIDE DEF m
<1>6. 0 \in T
  <2>1. 1 \in 1..n /\ 1 - 1 = 0 /\ 0 \in 0..m /\ 0 + 1 = 1
    BY <1>1, <1>5
  <2>2. f[1] = <<>> \o q[1] /\ h[0] = <<>> /\ q[1] \in Seq(S)
    BY <1>1, <1>3, <1>4, <2>1
  <2>3. <<>> \o q[1] = q[1] /\ q[1] \o <<>> = q[1]
    BY <2>2, ConcatEmptySeq
  <2> QED
    BY <2>1, <2>2, <2>3
<1>7. \A k \in 0..(m - 1) : k \in T => k + 1 \in T
  <2> SUFFICES ASSUME NEW k \in 0..(m - 1), f[k + 1] = q[1] \o h[k] PROVE f[(k + 1) + 1] = q[1] \o h[k + 1] /\ k + 1 \in 0..m
    OBVIOUS
  <2>1. k + 1 \in 1..m /\ (k + 1) + 1 \in 1..n /\ ((k + 1) + 1) - 1 = k + 1 /\ (k + 1) - 1 = k /\ k \in 0..m
    BY <1>5
  <2>2. f[(k + 1) + 1] = f[k + 1] \o q[(k + 1) + 1] /\ h[k + 1] = h[k] \o r[k + 1]
    BY <2>1, <1>3, <1>4, <1>5
  <2>3. r[k + 1] = q[(k + 1) + 1] /\ r[k + 1] \in Seq(S) /\ h[k] \in Seq(S) /\ q[1] \in Seq(S)
    <3>1. k + 1 \in DOMAIN r
      BY <2>1, <1>1 DEF m
    <3>2. r[k + 1] \in Seq(S)
      BY <3>1, <1>1, ElementOfSeq, LenProperties
    <3> QED
      BY <3>1, <3>2, <1>1, <1>4, <1>5, <2>1
  <2>4. (q[1] \o h[k]) \o r[k + 1] = q[1] \o (h[k] \o r[k + 1])
    <3>1. \A a, b, c \in Seq(S) : (a \o b) \o c = a \o (b \o c)
      BY ConcatAssociative, SMTT(30)
    <3> QED
      BY <2>3, <3>1
  <2> QED
    BY <2>1, <2>2, <2>3, <2>4
<1>8. m \in T
  <2>1. \A k \in 0..m : k \in T
    <3> HIDE DEF T
    <3> QED
      BY <1>5, <1>6, <1>7, UpTo
  <2> QED
    BY <2>1, <1>5
<1>9. f[m + 1] = q[1] \o h[m] /\ h[m] \in Seq(S)
  BY <1>4, <1>5, <1>8
<1> QED
  BY <1>1, <1>3, <1>4, <1>5, <1>9 DEF r

\* Nothing after nothing.
LEMMA FlattenNone == FlattenSeq(<<>>) = <<>>
  BY DEF FlattenSeq

-----------------------------------------------------------------------------
(* The frames on their way to the file.                                     *)

Load(c, x)   == IF x = NoBlock THEN <<>> ELSE c[x]
Loads(c, q)  == [i \in 1..Len(q) |-> c[q[i]]]
Queued(c, q) == FlattenSeq(Loads(c, q))

\* The file and the frames of the writer's block, of those queued and of the callback's.
Then(x, y)           == x \o y
Joined(f, w, q, x)   == f \o ((w \o q) \o x)
Whole(f, c, w, q, x) == Joined(f, Load(c, w), Queued(c, q), Load(c, x))

\* The frames of the queued blocks are a sequence, which depends on those blocks only.
LEMMA QueuedIs ==
  ASSUME NEW S, NEW c \in [Blocks -> Seq(S)], NEW q \in Seq(Blocks)
  PROVE  /\ Loads(c, q) \in Seq(Seq(S)) /\ Len(Loads(c, q)) = Len(q)
         /\ Queued(c, q) \in Seq(S)
         /\ Queued(c, <<>>) = <<>>
<1>1. Len(q) \in Nat /\ \A i \in 1..Len(q) : q[i] \in Blocks
  BY LenProperties, ElementOfSeq
<1>2. Loads(c, q) \in Seq(Seq(S)) /\ Len(Loads(c, q)) = Len(q)
  <2> DEFINE V == Seq(S)
  <2>1. \A i \in 1..Len(q) : c[q[i]] \in V
    BY <1>1
  <2> HIDE DEF V
  <2>2. Loads(c, q) \in [1..Len(q) -> V]
    BY <2>1 DEF Loads
  <2> QED
    BY <2>2, <1>1, FunctionIsSeq DEF V
<1>3. Queued(c, q) \in Seq(S)
  <2>1. <<>> \in Seq(S)
    BY EmptySeq
  <2> QED
    BY <1>2, <2>1, FlattenAppend DEF Queued
<1>4. Queued(c, <<>>) = <<>>
  <2>1. Loads(c, <<>>) = <<>>
    BY DEF Loads
  <2> QED
    BY <2>1, FlattenNone DEF Queued
<1> QED
  BY <1>2, <1>3, <1>4

\* A block added to the queue.
LEMMA QueuedAppend ==
  ASSUME NEW S, NEW c \in [Blocks -> Seq(S)], NEW q \in Seq(Blocks), NEW b \in Blocks
  PROVE  Queued(c, Append(q, b)) = Queued(c, q) \o c[b]
<1> DEFINE r == Append(q, b)
           s == Loads(c, q)
           u == Loads(c, r)
           y == c[b]
<1>1. /\ Len(q) \in Nat /\ r \in Seq(Blocks) /\ Len(r) = Len(q) + 1
      /\ (\A j \in 1..Len(q) : r[j] = q[j]) /\ r[Len(q) + 1] = b
  BY AppendProperties, LenProperties
<1> HIDE DEF r
<1>2. s \in Seq(Seq(S)) /\ Len(s) = Len(q) /\ u \in Seq(Seq(S)) /\ Len(u) = Len(q) + 1 /\ y \in Seq(S)
  BY <1>1, QueuedIs
<1>3. (\A j \in 1..Len(q) : s[j] = c[q[j]]) /\ \A j \in 1..Len(r) : u[j] = c[r[j]]
  BY DEF Loads
<1>4. \A j \in 1..Len(q) : j \in 1..Len(r)
  BY <1>1
<1>5. Len(q) + 1 \in 1..Len(r)
  BY <1>1
<1>6. (\A j \in 1..Len(q) : u[j] = s[j]) /\ u[Len(q) + 1] = y
  BY <1>1, <1>3, <1>4, <1>5
<1> HIDE DEF s, u, y
<1>7. u = Append(s, y)
  <2> DEFINE v == Append(s, y)
  <2>1. v \in Seq(Seq(S)) /\ Len(v) = Len(q) + 1 /\ (\A j \in 1..Len(q) : v[j] = s[j]) /\ v[Len(q) + 1] = y
    <3> DEFINE V == Seq(S)
    <3>1. v \in Seq(V) /\ Len(v) = Len(s) + 1 /\ (\A j \in 1..Len(s) : v[j] = s[j]) /\ v[Len(s) + 1] = y
      <4>1. s \in Seq(V) /\ y \in V
        BY <1>2
      <4> HIDE DEF V
      <4> QED
        BY <4>1, AppendProperties
    <3> HIDE DEF v
    <3> QED
      BY <3>1, <1>2
  <2> HIDE DEF v
  <2>2. \A j \in 1..(Len(q) + 1) : j \in 1..Len(q) \/ j = Len(q) + 1
    BY <1>1
  <2>3. \A j \in 1..Len(u) : u[j] = v[j]
    BY <1>2, <1>6, <2>1, <2>2
  <2>4. u = v
    BY <1>2, <2>1, <2>3, SeqEqual
  <2> QED
    BY <2>4 DEF v
<1>8. FlattenSeq(Append(s, y)) = FlattenSeq(s) \o y
  BY <1>2, FlattenAppend
<1> QED
  BY <1>7, <1>8 DEF Queued, r, s, u, y

\* A block taken from the queue.
LEMMA QueuedTail ==
  ASSUME NEW S, NEW c \in [Blocks -> Seq(S)], NEW q \in Seq(Blocks), q # <<>>
  PROVE  /\ Head(q) \in Blocks /\ Tail(q) \in Seq(Blocks)
         /\ Queued(c, q) = c[Head(q)] \o Queued(c, Tail(q))
<1> DEFINE r == Tail(q)
           s == Loads(c, q)
           u == Loads(c, r)
<1>1. /\ r \in Seq(Blocks) /\ Head(q) = q[1] /\ Head(q) \in Blocks /\ Len(q) \in Nat \ {0}
      /\ DOMAIN r = 1..(Len(q) - 1) /\ \A j \in DOMAIN r : r[j] = q[j + 1]
  BY TailOf
<1>2. Len(r) = Len(q) - 1
  BY HeadTailProperties
<1> HIDE DEF r
<1>3. s \in Seq(Seq(S)) /\ Len(s) = Len(q) /\ u \in Seq(Seq(S)) /\ Len(u) = Len(q) - 1
  BY <1>1, <1>2, QueuedIs
<1>4. (\A j \in 1..Len(q) : s[j] = c[q[j]]) /\ \A j \in 1..Len(r) : u[j] = c[r[j]]
  BY DEF Loads
<1> HIDE DEF s, u
<1>5. /\ s # <<>> /\ Head(s) = s[1] /\ Tail(s) \in Seq(Seq(S)) /\ Len(Tail(s)) = Len(q) - 1
      /\ \A j \in 1..(Len(q) - 1) : Tail(s)[j] = s[j + 1]
  <2>1. s # <<>>
    BY <1>1, <1>3, EmptySeq
  <2>2. /\ Head(s) = s[1] /\ Tail(s) \in Seq(Seq(S)) /\ DOMAIN Tail(s) = 1..(Len(s) - 1)
        /\ \A j \in DOMAIN Tail(s) : Tail(s)[j] = s[j + 1]
    BY <2>1, <1>3, TailOf
  <2>3. Len(Tail(s)) = Len(s) - 1
    BY <2>1, <1>3, HeadTailProperties
  <2> QED
    BY <2>1, <2>2, <2>3, <1>3
<1>6. \A j \in 1..(Len(q) - 1) : j + 1 \in 1..Len(q)
  BY <1>1
<1>7. Tail(s) = u
  <2>1. \A j \in 1..(Len(q) - 1) : Tail(s)[j] = u[j]
    BY <1>1, <1>2, <1>4, <1>5, <1>6
  <2> DEFINE v == Tail(s)
  <2>2. v \in Seq(Seq(S)) /\ Len(v) = Len(u) /\ \A j \in 1..Len(v) : v[j] = u[j]
    BY <1>3, <1>5, <2>1
  <2> HIDE DEF v
  <2>3. v = u
    BY <1>3, <2>2, SeqEqual
  <2> QED
    BY <2>3 DEF v
<1>8. FlattenSeq(s) = Head(s) \o FlattenSeq(Tail(s))
  BY <1>3, <1>5, FlattenTail
<1>9. Head(s) = c[Head(q)]
  <2>1. 1 \in 1..Len(q)
    BY <1>1
  <2> QED
    BY <2>1, <1>1, <1>4, <1>5
<1>10. FlattenSeq(s) = c[Head(q)] \o FlattenSeq(u)
  BY <1>7, <1>8, <1>9
<1>11. r \in Seq(Blocks) /\ Head(q) \in Blocks
  BY <1>1
<1> QED
  BY <1>10, <1>11 DEF Queued, r, s, u

\* Four sequences, regrouped: the third grows,
LEMMA RegroupThird ==
  ASSUME NEW S, NEW f \in Seq(S), NEW w \in Seq(S), NEW q \in Seq(S), NEW y \in Seq(S)
  PROVE  Joined(f, w, q \o y, <<>>) = Joined(f, w, q, y)
<1> DEFINE V == Seq(S)
<1>1. \A a, b \in V : a \o b \in V
  BY ConcatProperties
<1>2. \A a, b, c \in V : (a \o b) \o c = a \o (b \o c)
  BY ConcatAssociative, SMTT(60)
<1>3. \A a \in V : <<>> \o a = a /\ a \o <<>> = a
  BY ConcatEmptySeq
<1>4. f \in V /\ w \in V /\ q \in V /\ y \in V
  OBVIOUS
<1> HIDE DEF V
<1>5. q \o y \in V /\ w \o (q \o y) \in V
  BY <1>1, <1>4, Zenon
<1>6. (w \o (q \o y)) \o <<>> = w \o (q \o y)
  BY <1>3, <1>5
<1>7. (w \o q) \o y = w \o (q \o y)
  BY <1>2, <1>4, SMTT(60)
<1> QED
  BY <1>6, <1>7 DEF Joined

\* ... the second,
LEMMA RegroupSecond ==
  ASSUME NEW S, NEW y \in Seq(S), NEW q \in Seq(S), NEW f, NEW x
  PROVE  Joined(f, y, q, x) = Joined(f, <<>>, y \o q, x)
<1>1. y \o q \in Seq(S)
  BY ConcatProperties
<1>2. <<>> \o (y \o q) = y \o q
  BY <1>1, ConcatEmptySeq
<1> QED
  BY <1>2 DEF Joined

\* ... the first,
LEMMA RegroupFirst ==
  ASSUME NEW S, NEW f \in Seq(S), NEW y \in Seq(S), NEW q \in Seq(S), NEW x \in Seq(S)
  PROVE  Joined(Then(f, y), <<>>, q, x) = Joined(f, y, q, x)
<1> DEFINE V == Seq(S)
<1>1. \A a, b \in V : a \o b \in V
  BY ConcatProperties
<1>2. \A a, b, c \in V : (a \o b) \o c = a \o (b \o c)
  BY ConcatAssociative, SMTT(60)
<1>3. \A a \in V : <<>> \o a = a /\ a \o <<>> = a
  BY ConcatEmptySeq
<1>4. f \in V /\ y \in V /\ q \in V /\ x \in V
  OBVIOUS
<1> HIDE DEF V
<1>5. <<>> \o q = q
  BY <1>3, <1>4
<1>6. q \o x \in V
  BY <1>1, <1>4, Zenon
<1>7. (f \o y) \o (q \o x) = f \o (y \o (q \o x))
  BY <1>2, <1>4, <1>6, SMTT(60)
<1>8. (y \o q) \o x = y \o (q \o x)
  BY <1>2, <1>4, SMTT(60)
<1> QED
  BY <1>5, <1>7, <1>8 DEF Joined, Then

\* ... the last.
LEMMA RegroupLast ==
  ASSUME NEW S, NEW f \in Seq(S), NEW w \in Seq(S), NEW q \in Seq(S), NEW x \in Seq(S), NEW y \in Seq(S)
  PROVE  Joined(f, w, q, Then(x, y)) = Then(Joined(f, w, q, x), y)
<1> DEFINE V == Seq(S)
<1>1. \A a, b \in V : a \o b \in V
  BY ConcatProperties
<1>2. \A a, b, c \in V : (a \o b) \o c = a \o (b \o c)
  BY ConcatAssociative, SMTT(60)
<1>3. \A a \in V : <<>> \o a = a /\ a \o <<>> = a
  BY ConcatEmptySeq
<1>4. f \in V /\ w \in V /\ q \in V /\ x \in V /\ y \in V
  OBVIOUS
<1> HIDE DEF V
<1> DEFINE p == w \o q
           r == p \o x
<1>5. p \in V
  BY <1>1, <1>4, Zenon
<1> HIDE DEF p
<1>6. r \in V
  BY <1>1, <1>4, <1>5, Zenon
<1>7. p \o (x \o y) = r \o y
  BY <1>2, <1>4, <1>5, SMTT(60)
<1> HIDE DEF r
<1>8. f \o (r \o y) = (f \o r) \o y
  BY <1>2, <1>4, <1>6, SMTT(60)
<1> QED
  BY <1>7, <1>8 DEF p, r, Joined, Then

\* What a block, or none, and the queue hold are sequences.
LEMMA LoadType ==
  ASSUME NEW S, NEW c \in [Blocks -> Seq(S)], NEW q \in Seq(Blocks)
  PROVE  /\ Queued(c, q) \in Seq(S) /\ Load(c, NoBlock) = <<>>
         /\ \A p \in Blocks \cup {NoBlock} : Load(c, p) \in Seq(S)
         /\ \A p \in Blocks : Load(c, p) = c[p] /\ c[p] \in Seq(S)
<1>1. NoBlock \notin Blocks
  BY RecorderAssumption
<1>2. Queued(c, q) \in Seq(S)
  BY QueuedIs
<1> QED
  BY <1>1, <1>2, EmptySeq DEF Load

\* The frames on their way are a sequence.
LEMMA WholeType ==
  ASSUME NEW S, NEW f \in Seq(S), NEW c \in [Blocks -> Seq(S)], NEW q \in Seq(Blocks),
         NEW w \in Blocks \cup {NoBlock}, NEW x \in Blocks \cup {NoBlock}
  PROVE  Whole(f, c, w, q, x) \in Seq(S)
<1>1. Load(c, w) \in Seq(S) /\ Load(c, x) \in Seq(S) /\ Queued(c, q) \in Seq(S)
  BY LoadType
<1> QED
  BY <1>1, ConcatProperties DEF Whole, Joined

\* A block passes from one hand to the next: from the queue to the writer,
LEMMA WholeTaken ==
  ASSUME NEW S, NEW f, NEW c \in [Blocks -> Seq(S)], NEW q \in Seq(Blocks), q # <<>>,
         NEW x \in Blocks \cup {NoBlock}
  PROVE  Whole(f, c, Head(q), Tail(q), x) = Whole(f, c, NoBlock, q, x)
<1>1. Head(q) \in Blocks /\ Tail(q) \in Seq(Blocks) /\ Queued(c, q) = c[Head(q)] \o Queued(c, Tail(q))
  BY QueuedTail
<1>2. /\ Load(c, Head(q)) = c[Head(q)] /\ c[Head(q)] \in Seq(S) /\ Queued(c, Tail(q)) \in Seq(S)
      /\ Load(c, NoBlock) = <<>>
  BY <1>1, LoadType
<1>3. Joined(f, c[Head(q)], Queued(c, Tail(q)), Load(c, x)) = Joined(f, <<>>, c[Head(q)] \o Queued(c, Tail(q)), Load(c, x))
  BY <1>2, RegroupSecond
<1> QED
  BY <1>1, <1>2, <1>3 DEF Whole

\* ... from the callback to the queue;
LEMMA WholePushed ==
  ASSUME NEW S, NEW f \in Seq(S), NEW c \in [Blocks -> Seq(S)], NEW q \in Seq(Blocks),
         NEW w \in Blocks \cup {NoBlock}, NEW b \in Blocks
  PROVE  Whole(f, c, w, Append(q, b), NoBlock) = Whole(f, c, w, q, b)
<1>1. /\ Load(c, w) \in Seq(S) /\ Queued(c, q) \in Seq(S) /\ Load(c, NoBlock) = <<>>
      /\ Load(c, b) = c[b] /\ c[b] \in Seq(S)
  BY LoadType
<1>2. Queued(c, Append(q, b)) = Queued(c, q) \o c[b]
  BY QueuedAppend
<1>3. Joined(f, Load(c, w), Queued(c, q) \o c[b], <<>>) = Joined(f, Load(c, w), Queued(c, q), c[b])
  BY <1>1, RegroupThird
<1> QED
  BY <1>1, <1>2, <1>3 DEF Whole

\* ... or, holding nothing, to or from anywhere.
LEMMA WholeBlank ==
  ASSUME NEW f, NEW c, NEW q, NEW w, NEW x, NEW b \in Blocks, c[b] = <<>>
  PROVE  /\ Whole(f, c, w, q, b) = Whole(f, c, w, q, NoBlock)
         /\ Whole(f, c, b, q, x) = Whole(f, c, NoBlock, q, x)
<1>1. Load(c, b) = <<>> /\ Load(c, NoBlock) = <<>>
  BY RecorderAssumption DEF Load
<1> QED
  BY <1>1 DEF Whole

\* Only block b changes, which is neither queued nor the other thread's block o.
Alone(S, f, c, d, q, o, b) ==
    /\ f \in Seq(S) /\ c \in [Blocks -> Seq(S)] /\ q \in Seq(Blocks)
    /\ o \in Blocks \cup {NoBlock} /\ b \in Blocks /\ o # b
    /\ \A i \in 1..Len(q) : q[i] # b
    /\ \A p \in Blocks : p # b => d[p] = c[p]

\* What the other blocks hold is what they held.
LEMMA AloneLoads ==
  ASSUME NEW S, NEW f, NEW c, NEW d, NEW q, NEW o, NEW b, Alone(S, f, c, d, q, o, b)
  PROVE  /\ Queued(d, q) = Queued(c, q) /\ Load(d, o) = Load(c, o)
         /\ Load(d, b) = d[b] /\ Load(c, b) = c[b] /\ Load(c, NoBlock) = <<>>
         /\ f \in Seq(S) /\ Queued(c, q) \in Seq(S) /\ Load(c, o) \in Seq(S) /\ c[b] \in Seq(S)
<1>1. c \in [Blocks -> Seq(S)] /\ q \in Seq(Blocks)
  BY DEF Alone
<1>2. (\A i \in 1..Len(q) : q[i] # b) /\ \A p \in Blocks : p # b => d[p] = c[p]
  BY DEF Alone
<1>3. Queued(d, q) = Queued(c, q)
  <2>1. \A i \in 1..Len(q) : q[i] \in Blocks
    BY <1>1, LenProperties, ElementOfSeq
  <2>2. \A i \in 1..Len(q) : d[q[i]] = c[q[i]]
    BY <1>2, <2>1
  <2> QED
    BY <2>2 DEF Queued, Loads
<1>4. Load(d, o) = Load(c, o) /\ Load(d, b) = d[b] /\ Load(c, b) = c[b] /\ Load(c, NoBlock) = <<>>
  BY RecorderAssumption DEF Load, Alone
<1>5. Queued(c, q) \in Seq(S) /\ Load(c, o) \in Seq(S) /\ c[b] \in Seq(S)
  <2>1. o \in Blocks \cup {NoBlock} /\ b \in Blocks
    BY DEF Alone
  <2> QED
    BY <1>1, <2>1, LoadType
<1> QED
  BY <1>3, <1>4, <1>5 DEF Alone

\* The callback's block is emptied,
LEMMA WholeEmptied ==
  ASSUME NEW S, NEW f, NEW c, NEW d, NEW q, NEW w, NEW b, Alone(S, f, c, d, q, w, b), d[b] = <<>>
  PROVE  Whole(f, d, w, q, b) = Whole(f, c, w, q, NoBlock)
<1>1. Queued(d, q) = Queued(c, q) /\ Load(d, w) = Load(c, w) /\ Load(d, b) = d[b] /\ Load(c, NoBlock) = <<>>
  BY AloneLoads
<1> QED
  BY <1>1 DEF Whole

\* ... or takes more frames;
LEMMA WholeCopied ==
  ASSUME NEW S, NEW f, NEW c, NEW d, NEW q, NEW w, NEW b, Alone(S, f, c, d, q, w, b),
         NEW y \in Seq(S), d[b] = Then(c[b], y)
  PROVE  Whole(f, d, w, q, b) = Then(Whole(f, c, w, q, b), y)
<1>1. /\ Queued(d, q) = Queued(c, q) /\ Load(d, w) = Load(c, w) /\ Load(d, b) = d[b] /\ Load(c, b) = c[b]
      /\ f \in Seq(S) /\ Queued(c, q) \in Seq(S) /\ Load(c, w) \in Seq(S) /\ c[b] \in Seq(S)
  BY AloneLoads
<1>2. Joined(f, Load(c, w), Queued(c, q), Then(c[b], y)) = Then(Joined(f, Load(c, w), Queued(c, q), c[b]), y)
  BY <1>1, RegroupLast
<1> QED
  BY <1>1, <1>2 DEF Whole

\* ... the writer's block is written and emptied.
LEMMA WholeWritten ==
  ASSUME NEW S, NEW f, NEW c, NEW d, NEW q, NEW x, NEW b, Alone(S, f, c, d, q, x, b), d[b] = <<>>
  PROVE  Whole(Then(f, c[b]), d, b, q, x) = Whole(f, c, b, q, x)
<1>1. /\ Queued(d, q) = Queued(c, q) /\ Load(d, x) = Load(c, x) /\ Load(d, b) = d[b] /\ Load(c, b) = c[b]
      /\ f \in Seq(S) /\ Queued(c, q) \in Seq(S) /\ Load(c, x) \in Seq(S) /\ c[b] \in Seq(S)
  BY AloneLoads
<1>2. Joined(Then(f, c[b]), <<>>, Queued(c, q), Load(c, x)) = Joined(f, c[b], Queued(c, q), Load(c, x))
  BY <1>1, RegroupFirst
<1> QED
  BY <1>1, <1>2 DEF Whole

-----------------------------------------------------------------------------
(* No frame is lost, none is twice in the file.                             *)

\* What is in the file or on its way, how far into the device's frames it
\* goes, and how much of the callback's span is dealt with.
All  == Whole(file, content, wblk, Contents(filled), cur)
Seen == IF apc = "out" THEN clock ELSE arg.src - 1
Done == IF apc = "out" THEN 0 ELSE IF apc = "end" THEN arg.span ELSE arg.span - arg.left

Flow ==
    /\ \A i \in 1..(Len(All) - 1) : All[i] < All[i + 1]
    /\ \A i \in 1..Len(All) : All[i] <= Seen
    /\ captured + Done = Len(All) + dropped

\* At either end of a recording there is nothing in the callback's block;
\* the writer exits with the queue empty, when nothing is pushed any more.
Ends ==
    /\ gpc = "ready" => captured = 0 /\ dropped = 0 /\ \A b \in Blocks : content[b] = <<>>
    /\ gpc \in {"opening", "starting", "aborting", "signal", "join", "stopped"} => cur = NoBlock \/ content[cur] = <<>>
    /\ shouldStop => gpc \in {"aborting", "join", "stopped"}
    /\ final => shouldStop
    /\ wpc = "exited" => final /\ IsEmpty(filled)
    /\ gpc = "stopped" => wpc = "exited"
    /\ fileOpen <=> gpc # "stopped"
    /\ wpc \in {"give", "given"} => content[wblk] = <<>>

\* Initially there is nothing.
LEMMA InitFlow == Init => Flow /\ Ends
<1> SUFFICES ASSUME Init PROVE Flow /\ Ends
  OBVIOUS
<1>1. /\ file = <<>> /\ wblk = NoBlock /\ cur = NoBlock /\ filled = EmptyRing /\ captured = 0 /\ dropped = 0
      /\ apc = "out" /\ clock = 0
  BY DEF Init
<1>2. Contents(EmptyRing) = <<>>
  <2>1. EmptyRing \in Ring(Blocks) /\ EmptyRing.head = 0 /\ EmptyRing.tail = 0
    BY CapFact DEF EmptyRing, Ring
  <2>2. Count(EmptyRing) = 0
    BY <2>1, RingCount
  <2> QED
    BY <2>2 DEF Contents
<1>3. All = <<>>
  <2>1. content \in [Blocks -> Seq(1..MaxFrames)] /\ <<>> \in Seq(Blocks) /\ <<>> \in Seq(1..MaxFrames)
    BY EmptySeq DEF Init
  <2>2. Queued(content, <<>>) = <<>>
    BY <2>1, QueuedIs
  <2>3. Load(content, NoBlock) = <<>> /\ <<>> \o <<>> = <<>>
    BY <2>1, ConcatEmptySeq DEF Load
  <2>4. All = <<>> \o ((<<>> \o <<>>) \o <<>>)
    BY <1>1, <1>2, <2>2, <2>3 DEF All, Whole, Joined
  <2> QED
    BY <2>3, <2>4
<1>4. Len(All) = 0 /\ Done = 0
  BY <1>1, <1>3 DEF Done
<1>5. Flow
  BY <1>1, <1>4 DEF Flow
<1>6. Ends
  BY DEF Init, Ends
<1> QED
  BY <1>5, <1>6

\* What is on its way after a step.
LEMMA AllNext == All' = Whole(file', content', wblk', Contents(filled'), cur')
  BY DEF All, Whole, Joined, Load, Queued, Loads, Contents, Count, Mod

\* The types that matter here.
LEMMA AllTypes ==
  ASSUME Placed, Sizes
  PROVE  /\ All \in Seq(1..MaxFrames) /\ Len(All) \in Nat /\ \A i \in 1..Len(All) : All[i] \in Nat
         /\ Contents(filled) \in Seq(Blocks) /\ filled \in Ring(Blocks) /\ free \in Ring(Blocks)
         /\ content \in [Blocks -> Seq(1..MaxFrames)] /\ file \in Seq(1..MaxFrames)
         /\ wblk \in Blocks \cup {NoBlock} /\ cur \in Blocks \cup {NoBlock}
         /\ captured \in Nat /\ dropped \in Nat /\ clock \in Nat
         /\ arg \in [span : Nat, left : Nat, src : Nat] /\ Seen \in Int /\ Done \in Int
<1>1. /\ Contents(filled) \in Seq(Blocks) /\ filled \in Ring(Blocks) /\ free \in Ring(Blocks)
      /\ wblk \in Blocks \cup {NoBlock} /\ cur \in Blocks \cup {NoBlock}
  BY DEF Placed, Queues
<1>2. /\ content \in [Blocks -> Seq(1..MaxFrames)] /\ file \in Seq(1..MaxFrames)
      /\ captured \in Nat /\ dropped \in Nat /\ clock \in Nat
      /\ arg \in [span : Nat, left : Nat, src : Nat]
  BY RecorderAssumption DEF Sizes
<1>3. Seen \in Int /\ Done \in Int
  BY <1>2 DEF Seen, Done
<1>4. All \in Seq(1..MaxFrames)
  BY <1>1, <1>2, WholeType DEF All
<1>5. Len(All) \in Nat /\ \A i \in 1..Len(All) : All[i] \in 1..MaxFrames
  BY <1>4, LenProperties, ElementOfSeq
<1>6. \A i \in 1..Len(All) : All[i] \in Nat
  BY <1>5, RecorderAssumption
<1> QED
  BY <1>1, <1>2, <1>3, <1>4, <1>5, <1>6

\* A block in a thread's hands, or next in the free ring, is not queued and
\* not in anybody else's hands.
LEMMA Aside ==
  ASSUME Placed, NEW b \in Blocks, (cur = b \/ wblk = b) \/ (~IsEmpty(free) /\ Oldest(free) = b)
  PROVE  /\ \A i \in 1..Len(Contents(filled)) : Contents(filled)[i] # b
         /\ cur = b => wblk # b
         /\ ~IsEmpty(free) /\ Oldest(free) = b => wblk # b
<1>1. /\ free \in Ring(Blocks) /\ Contents(free) \in Seq(Blocks)
      /\ filled \in Ring(Blocks) /\ Contents(filled) \in Seq(Blocks)
  BY DEF Placed, Queues
<1>2. (cur = b <=> Held(cur, b) = 1) /\ (wblk = b <=> Held(wblk, b) = 1)
  BY DEF Held
<1>3. ~IsEmpty(free) /\ Oldest(free) = b => In(free, b) >= 1
  <2> SUFFICES ASSUME ~IsEmpty(free), Oldest(free) = b PROVE In(free, b) >= 1
    OBVIOUS
  <2> DEFINE a == Advance(free)
  <2>1. In(free, b) = Held(Oldest(free), b) + In(a, b) /\ In(a, b) \in Nat
    BY <1>1, TakenFrom
  <2>2. Held(Oldest(free), b) = 1
    BY DEF Held
  <2> HIDE DEF a
  <2> QED
    BY <2>1, <2>2
<1>4. /\ In(filled, b) = 0 /\ (cur = b => wblk # b)
      /\ ~IsEmpty(free) /\ Oldest(free) = b => wblk # b
  BY <1>2, <1>3, OneOf
<1>5. \A i \in 1..Len(Contents(filled)) : Contents(filled)[i] # b
  <2> DEFINE C == Contents(filled)
             P == {i \in DOMAIN C : C[i] = b}
  <2>1. IsFiniteSet(P) /\ Cardinality(P) = 0
    BY <1>1, <1>4, OccurrencesType DEF In, Occurrences
  <2>2. P = {}
    BY <2>1, FS_EmptySet
  <2>3. DOMAIN C = 1..Len(C)
    BY <1>1, LenProperties
  <2> QED
    BY <2>2, <2>3
<1> QED
  BY <1>4, <1>5

\* What Flow says of the frames, the last of them, and the counts.
FlowOf(a, s, c, e, d) ==
    /\ \A i \in 1..(Len(a) - 1) : a[i] < a[i + 1]
    /\ \A i \in 1..Len(a) : a[i] <= s
    /\ c + e = Len(a) + d

\* Flow, before and after a step, as a formula of values.
LEMMA FlowIs == (Flow <=> FlowOf(All, Seen, captured, Done, dropped))
                /\ (Flow' <=> FlowOf(All', Seen', captured', Done', dropped'))
  BY DEF Flow, FlowOf

\* The counts and the last frame may move on while the frames stay.
LEMMA FlowMoves ==
  ASSUME NEW a, Len(a) \in Nat, \A i \in 1..Len(a) : a[i] \in Nat,
         NEW s \in Int, NEW c \in Int, NEW e \in Int, NEW d \in Int, FlowOf(a, s, c, e, d),
         NEW t \in Int, NEW g \in Int, NEW h \in Int, NEW k \in Int, s <= t, g + h + d = c + e + k
  PROVE  FlowOf(a, t, g, h, k)
<1>1. \A i \in 1..Len(a) : a[i] <= t
  <2> SUFFICES ASSUME NEW i \in 1..Len(a) PROVE a[i] <= t
    OBVIOUS
  <2>1. a[i] \in Nat /\ a[i] <= s
    BY DEF FlowOf
  <2> QED
    BY <2>1
<1>2. g + h = Len(a) + k
  <2>1. c + e = Len(a) + d
    BY DEF FlowOf
  <2> QED
    BY <2>1
<1> QED
  BY <1>1, <1>2 DEF FlowOf

\* The counts and the last frame move together.
Balance(s, c, e, d, t, g, h, k) ==
    /\ s \in Int /\ c \in Int /\ e \in Int /\ d \in Int
    /\ t \in Int /\ g \in Int /\ h \in Int /\ k \in Int
    /\ s <= t /\ g + h + d = c + e + k

\* A step that leaves what is on its way alone.
LEMMA FlowKept ==
  ASSUME Flow, Placed, Sizes, All' = All,
         Balance(Seen, captured, Done, dropped, Seen', captured', Done', dropped')
  PROVE  Flow'
<1>1. Len(All) \in Nat /\ (\A i \in 1..Len(All) : All[i] \in Nat)
  BY AllTypes
<1>2. FlowOf(All, Seen, captured, Done, dropped)
  BY FlowIs
<1>3. \A t, g, h, k : Balance(Seen, captured, Done, dropped, t, g, h, k) => FlowOf(All, t, g, h, k)
  <2> SUFFICES ASSUME NEW t, NEW g, NEW h, NEW k, Balance(Seen, captured, Done, dropped, t, g, h, k)
               PROVE  FlowOf(All, t, g, h, k)
    OBVIOUS
  <2> QED
    BY <1>1, <1>2, FlowMoves DEF Balance
<1>4. FlowOf(All, Seen', captured', Done', dropped')
  BY <1>3
<1> QED
  BY <1>4, FlowIs

\* A step of the writer or of the GUI thread that leaves the counts alone.
LEMMA SameBalance ==
  ASSUME Placed, Sizes, UNCHANGED <<apc, arg, clock, captured, dropped>>
  PROVE  Balance(Seen, captured, Done, dropped, Seen', captured', Done', dropped')
<1>1. Seen \in Int /\ Done \in Int /\ captured \in Int /\ dropped \in Int
  BY AllTypes
<1>2. Balance(Seen, captured, Done, dropped, Seen, captured, Done, dropped)
  BY <1>1 DEF Balance
<1>3. Seen' = Seen /\ Done' = Done
  BY DEF Seen, Done
<1> QED
  BY <1>2, <1>3

\* The contents of the queue are all that matters of the ring.
LEMMA QuietAll ==
  ASSUME UNCHANGED <<content, file, wblk, cur>>, Contents(filled') = Contents(filled)
  PROVE  All' = All
  BY AllNext DEF All

\* The frames a copy adds go on where the others ended.
LEMMA CopyFlow ==
  ASSUME Flow, Ends, Placed, Sizes, Copy
  PROVE  Flow'
<1> DEFINE room == BlockFrames - Len(content[cur])
           take == Min({room, arg.left})
           new  == [i \in 1..take |-> arg.src + i - 1]
           n    == Len(All)
<1>1. /\ All \in Seq(1..MaxFrames) /\ n \in Nat /\ (\A i \in 1..n : All[i] \in Nat)
      /\ Contents(filled) \in Seq(Blocks) /\ content \in [Blocks -> Seq(1..MaxFrames)] /\ file \in Seq(1..MaxFrames)
      /\ wblk \in Blocks \cup {NoBlock} /\ cur \in Blocks /\ captured \in Nat /\ dropped \in Nat /\ clock \in Nat
      /\ arg \in [span : Nat, left : Nat, src : Nat]
  BY AllTypes DEF Copy
<1>2. /\ arg.src \in Nat /\ arg.left \in Nat /\ arg.span \in Nat /\ arg.src >= 1 /\ arg.src + arg.left <= clock + 1
      /\ clock <= MaxFrames /\ MaxFrames \in Nat /\ clock \in Nat
  BY <1>1, RecorderAssumption DEF Sizes, Copy
<1>3. take \in Nat /\ take <= arg.left
  <2> DEFINE S == {room, arg.left}
  <2>1. Len(content[cur]) \in Nat /\ Len(content[cur]) <= BlockFrames /\ BlockFrames \in Nat
    BY <1>1, LenProperties, RecorderAssumption DEF Sizes, WithinBlock
  <2>2. room \in Nat
    BY <2>1
  <2> HIDE DEF room
  <2>3. S \in SUBSET Nat /\ S # {} /\ arg.left \in S
    BY <1>2, <2>2
  <2> HIDE DEF S
  <2>4. Min(S) \in S /\ \A x \in S : Min(S) <= x
    BY <2>3, MinLeast
  <2>5. Min(S) \in Nat /\ Min(S) <= arg.left
    BY <2>3, <2>4
  <2> QED
    BY <2>5 DEF S
<1>4. /\ content' = [content EXCEPT ![cur] = @ \o new]
      /\ arg' = [arg EXCEPT !.left = @ - take, !.src = @ + take]
      /\ apc = "loop" /\ apc' \in {"handoff", "loop"}
      /\ UNCHANGED <<file, filled, wblk, cur, captured, dropped>>
  BY DEF Copy, room, rings, outfile, writer, counts
<1> HIDE DEF take
<1>5. new \in Seq(1..MaxFrames) /\ Len(new) = take /\ \A i \in 1..take : new[i] = arg.src + i - 1
  <2>1. \A i \in 1..take : arg.src + i - 1 \in 1..MaxFrames
    BY <1>2, <1>3
  <2>2. new \in [1..take -> 1..MaxFrames]
    BY <2>1
  <2>3. \A i \in 1..take : new[i] = arg.src + i - 1
    OBVIOUS
  <2> HIDE DEF new
  <2> QED
    BY <2>2, <2>3, <1>3, FunctionIsSeq
<1> HIDE DEF new
<1>6. All' = All \o new
  <2>1. (\A i \in 1..Len(Contents(filled)) : Contents(filled)[i] # cur) /\ wblk # cur
    BY <1>1, Aside
  <2>2. content'[cur] = Then(content[cur], new) /\ \A p \in Blocks : p # cur => content'[p] = content[p]
    BY <1>1, <1>4 DEF Then
  <2>3. Whole(file, content', wblk, Contents(filled), cur) = Then(Whole(file, content, wblk, Contents(filled), cur), new)
    <3> DEFINE F == 1..MaxFrames
               q == Contents(filled)
    <3>1. file \in Seq(F) /\ content \in [Blocks -> Seq(F)] /\ new \in Seq(F) /\ q \in Seq(Blocks)
          /\ wblk \in Blocks \cup {NoBlock} /\ cur \in Blocks
      BY <1>1, <1>5
    <3>2. \A i \in 1..Len(q) : q[i] # cur
      BY <2>1
    <3> HIDE DEF F, q
    <3> DEFINE d == content'
    <3>3. d[cur] = Then(content[cur], new) /\ \A p \in Blocks : p # cur => d[p] = content[p]
      BY <2>2
    <3> HIDE DEF d
    <3>4. Alone(F, file, content, d, q, wblk, cur)
      BY <2>1, <3>1, <3>2, <3>3 DEF Alone
    <3>5. Whole(file, d, wblk, q, cur) = Then(Whole(file, content, wblk, q, cur), new)
      BY <3>1, <3>3, <3>4, WholeCopied
    <3> QED
      BY <3>5 DEF q, d
  <2> QED
    BY <2>3, <1>4, AllNext DEF All, Then
<1>7. /\ Len(All') = n + take
      /\ \A i \in 1..(n + take) : All'[i] = IF i <= n THEN All[i] ELSE new[i - n]
  BY <1>1, <1>5, <1>6, ConcatProperties
<1>8. /\ \A i \in 1..(n - 1) : All[i] < All[i + 1]
      /\ \A i \in 1..n : All[i] <= arg.src - 1
      /\ captured + (arg.span - arg.left) = n + dropped
  BY <1>4 DEF Flow, Seen, Done
<1>9. arg'.src = arg.src + take /\ arg'.left = arg.left - take /\ arg'.span = arg.span
  BY <1>1, <1>4
<1>10. Seen' = arg.src + take - 1 /\ Done' = arg.span - (arg.left - take)
  BY <1>4, <1>9, <1>2, <1>3 DEF Seen, Done
<1> HIDE DEF n
<1>11. \A i \in 1..take : i \in Nat /\ i <= take /\ i >= 1
  BY <1>3
<1>12. \A i \in 1..(n + take) : /\ i <= n => i \in 1..n /\ All'[i] = All[i] /\ All[i] \in Nat
                                /\ i > n => i - n \in 1..take /\ All'[i] = arg.src + (i - n) - 1
  <2> SUFFICES ASSUME NEW i \in 1..(n + take)
               PROVE  /\ i <= n => i \in 1..n /\ All'[i] = All[i] /\ All[i] \in Nat
                      /\ i > n => i - n \in 1..take /\ All'[i] = arg.src + (i - n) - 1
    OBVIOUS
  <2>1. CASE i <= n
    <3>1. i \in 1..n
      BY <2>1, <1>1, <1>3
    <3> QED
      BY <3>1, <2>1, <1>1, <1>3, <1>7
  <2>2. CASE i > n
    <3>1. i - n \in 1..take /\ ~(i <= n)
      BY <2>2, <1>1, <1>3
    <3>2. All'[i] = new[i - n]
      BY <3>1, <1>7
    <3> QED
      BY <3>1, <3>2, <2>2, <1>5
  <2> QED
    BY <2>1, <2>2, <1>1
<1>13. \A i \in 1..((n + take) - 1) : All'[i] < All'[i + 1]
  <2> SUFFICES ASSUME NEW i \in 1..((n + take) - 1) PROVE All'[i] < All'[i + 1]
    OBVIOUS
  <2>1. i \in 1..(n + take) /\ i + 1 \in 1..(n + take)
    BY <1>1, <1>3
  <2>2. CASE i + 1 <= n
    <3>1. i \in 1..(n - 1) /\ i <= n
      BY <2>2, <1>1
    <3> QED
      BY <2>1, <2>2, <3>1, <1>8, <1>12
  <2>3. CASE i = n
    <3>1. i <= n /\ i + 1 > n /\ (i + 1) - n = 1
      BY <2>3, <1>1
    <3>2. All'[i] <= arg.src - 1 /\ All'[i] \in Nat
      BY <2>1, <3>1, <1>8, <1>12
    <3>3. All'[i + 1] = arg.src + 1 - 1
      BY <2>1, <3>1, <1>12
    <3> QED
      BY <3>2, <3>3, <1>2
  <2>4. CASE i > n
    <3>1. i + 1 > n
      BY <2>4, <1>1
    <3>2. All'[i] = arg.src + (i - n) - 1 /\ All'[i + 1] = arg.src + ((i + 1) - n) - 1
      BY <2>1, <2>4, <3>1, <1>12
    <3> QED
      BY <3>2, <1>1, <1>2
  <2> QED
    BY <2>2, <2>3, <2>4, <1>1
<1>14. \A i \in 1..(n + take) : All'[i] <= arg.src + take - 1
  <2> SUFFICES ASSUME NEW i \in 1..(n + take) PROVE All'[i] <= arg.src + take - 1
    OBVIOUS
  <2>1. CASE i <= n
    BY <2>1, <1>2, <1>3, <1>8, <1>12
  <2>2. CASE i > n
    <3>1. i - n <= take /\ i - n \in Nat
      BY <2>2, <1>12, <1>11
    <3> QED
      BY <3>1, <2>2, <1>2, <1>3, <1>12
  <2> QED
    BY <2>1, <2>2, <1>1
<1>15. captured' + Done' = (n + take) + dropped'
  <2> DEFINE span == arg.span
             left == arg.left
  <2>1. span \in Nat /\ left \in Nat
    BY <1>2
  <2>2. captured + (span - left) = n + dropped /\ Done' = span - (left - take)
    BY <1>8, <1>10
  <2>3. captured' = captured /\ dropped' = dropped
    BY <1>4
  <2> HIDE DEF span, left
  <2> QED
    BY <2>1, <2>2, <2>3, <1>1, <1>3
<1> QED
  BY <1>7, <1>10, <1>13, <1>14, <1>15 DEF Flow

-----------------------------------------------------------------------------
(* Every step keeps Flow and Ends.                                          *)

\* Ends after a step, on the variables.
LEMMA EndsNext ==
  Ends' <=>
    /\ gpc' = "ready" => captured' = 0 /\ dropped' = 0 /\ \A b \in Blocks : content'[b] = <<>>
    /\ gpc' \in {"opening", "starting", "aborting", "signal", "join", "stopped"} => cur' = NoBlock \/ content'[cur'] = <<>>
    /\ shouldStop' => gpc' \in {"aborting", "join", "stopped"}
    /\ final' => shouldStop'
    /\ wpc' = "exited" => final' /\ IsEmpty(filled')
    /\ gpc' = "stopped" => wpc' = "exited"
    /\ fileOpen' <=> gpc' # "stopped"
    /\ wpc' \in {"give", "given"} => content'[wblk'] = <<>>
  BY DEF Ends, IsEmpty

\* What the callback's steps leave alone of Ends.
LEMMA AudioEnds ==
  ASSUME Ends, gpc \in {"recording", "stopping", "closing"},
         UNCHANGED <<shouldStop, fileOpen, wpc, wblk, final, gpc>>,
         wpc \in {"give", "given"} => content'[wblk] = content[wblk] \/ content'[wblk] = <<>>
  PROVE  Ends'
<1>1. ~shouldStop /\ ~final /\ wpc # "exited" /\ gpc # "stopped"
  BY DEF Ends
<1> QED
  BY <1>1, EndsNext DEF Ends

\* The steps of the callback.
LEMMA AudioFlow ==
  ASSUME Flow, Ends, Placed, Sizes, CallbackRefused \/ (\E k \in Spans : CallbackBegin(k)) \/ AudioStep
  PROVE  Flow' /\ Ends'
<1> DEFINE F == 1..MaxFrames
           q == Contents(filled)
<1>1. /\ q \in Seq(Blocks) /\ filled \in Ring(Blocks) /\ free \in Ring(Blocks)
      /\ content \in [Blocks -> Seq(F)] /\ file \in Seq(F)
      /\ wblk \in Blocks \cup {NoBlock} /\ cur \in Blocks \cup {NoBlock}
      /\ captured \in Nat /\ dropped \in Nat /\ clock \in Nat
      /\ arg.span \in Nat /\ arg.left \in Nat /\ arg.src \in Nat /\ Seen \in Int /\ Done \in Int
  BY AllTypes
<1>2. GuiOK /\ AudioOK /\ WriterOK
  BY DEF Placed
<1>3. All = Whole(file, content, wblk, q, cur)
  BY DEF All
<1> HIDE DEF F, q
<1>4. CASE CallbackRefused
  <2>1. /\ UNCHANGED <<apc, arg, clock, captured, dropped, content, file, wblk, cur, filled>>
        /\ UNCHANGED <<shouldStop, fileOpen, wpc, wblk, final, gpc>>
        /\ gpc \in {"recording", "stopping"}
    BY <1>2, <1>4 DEF CallbackRefused, rings, flags, counts, outfile, audio, writer, GuiOK
  <2>2. Flow'
    BY <2>1, QuietAll, SameBalance, FlowKept
  <2> QED
    BY <2>1, <2>2, AudioEnds
<1>5. CASE \E k \in Spans : CallbackBegin(k)
  <2>1. PICK k \in Spans : CallbackBegin(k)
    BY <1>5
  <2>2. /\ UNCHANGED <<captured, dropped, content, file, wblk, cur, filled>>
        /\ UNCHANGED <<shouldStop, fileOpen, wpc, wblk, final, gpc>>
        /\ apc = "out" /\ apc' = "loop" /\ arg' = [span |-> k, left |-> k, src |-> clock + 1]
        /\ gpc \in {"recording", "stopping"}
    BY <1>2, <2>1 DEF CallbackBegin, rings, flags, counts, outfile, audio, writer, GuiOK
  <2>3. k \in Nat
    BY RecorderAssumption
  <2>4. Seen = clock /\ Done = 0 /\ Seen' = (clock + 1) - 1 /\ Done' = k - k
    BY <2>2 DEF Seen, Done
  <2>5. Balance(clock, captured, 0, dropped, (clock + 1) - 1, captured, k - k, dropped)
    BY <1>1, <2>3 DEF Balance
  <2>6. Flow'
    BY <2>2, <2>4, <2>5, QuietAll, FlowKept
  <2> QED
    BY <2>2, <2>6, AudioEnds
<1>6. CASE TakeBlock
  <2>1. /\ UNCHANGED <<arg, clock, captured, content, file, wblk, cur, filled>>
        /\ UNCHANGED <<shouldStop, fileOpen, wpc, wblk, final, gpc>>
        /\ apc = "loop" /\ gpc \in {"recording", "stopping", "closing"}
    BY <1>2, <1>6 DEF TakeBlock, rings, flags, outfile, writer, GuiOK
  <2>2. Seen = arg.src - 1 /\ Done = arg.span - arg.left
    BY <2>1 DEF Seen, Done
  <2>3. All' = All
    BY <2>1, QuietAll
  <2>4. ASSUME IsEmpty(free) PROVE Flow'
    <3>1. apc' = "end" /\ dropped' = dropped + arg.left
      BY <1>6, <2>4 DEF TakeBlock, Dropped
    <3>2. Seen' = arg.src - 1 /\ Done' = arg.span
      BY <2>1, <3>1 DEF Seen, Done
    <3>3. Balance(arg.src - 1, captured, arg.span - arg.left, dropped, arg.src - 1, captured, arg.span, dropped + arg.left)
      BY <1>1 DEF Balance
    <3>4. Balance(Seen, captured, Done, dropped, Seen', captured', Done', dropped')
      BY <2>1, <2>2, <3>1, <3>2, <3>3
    <3> QED
      BY <2>3, <3>4, FlowKept
  <2>5. ASSUME ~IsEmpty(free) PROVE Flow'
    <3>1. apc' = "take" /\ dropped' = dropped
      BY <1>6, <2>5 DEF TakeBlock
    <3>2. Seen' = arg.src - 1 /\ Done' = arg.span - arg.left
      BY <2>1, <3>1 DEF Seen, Done
    <3>3. Balance(arg.src - 1, captured, arg.span - arg.left, dropped, arg.src - 1, captured, arg.span - arg.left, dropped)
      BY <1>1 DEF Balance
    <3>4. Balance(Seen, captured, Done, dropped, Seen', captured', Done', dropped')
      BY <2>1, <2>2, <3>1, <3>2, <3>3
    <3> QED
      BY <2>3, <3>4, FlowKept
  <2>6. Flow'
    BY <2>4, <2>5
  <2> QED
    BY <2>1, <2>6, AudioEnds
<1>7. CASE TakeAdvance
  <2> DEFINE b == Oldest(free)
  <2>1. /\ UNCHANGED <<arg, clock, captured, dropped, file, wblk, filled>>
        /\ UNCHANGED <<shouldStop, fileOpen, wpc, wblk, final, gpc>>
        /\ apc = "take" /\ apc' = "loop" /\ gpc \in {"recording", "stopping", "closing"}
        /\ cur = NoBlock /\ ~IsEmpty(free) /\ cur' = b /\ content' = [content EXCEPT ![b] = <<>>]
    BY <1>2, <1>7 DEF TakeAdvance, flags, counts, outfile, writer, GuiOK, AudioOK
  <2>2. b \in Blocks
    BY <1>1, <2>1, TakenFrom DEF Placed, Queues
  <2>3. (\A i \in 1..Len(q) : q[i] # b) /\ wblk # b
    BY <2>1, <2>2, Aside DEF q
  <2> HIDE DEF b
  <2>4. content'[b] = <<>> /\ \A p \in Blocks : p # b => content'[p] = content[p]
    BY <1>1, <2>1, <2>2
  <2>5. Whole(file, content', wblk, q, b) = Whole(file, content, wblk, q, NoBlock)
    <3> DEFINE d == content'
    <3>1. Alone(F, file, content, d, q, wblk, b)
      BY <1>1, <2>2, <2>3, <2>4 DEF Alone
    <3>2. d[b] = <<>>
      BY <2>4
    <3> HIDE DEF d
    <3>3. Whole(file, d, wblk, q, b) = Whole(file, content, wblk, q, NoBlock)
      BY <3>1, <3>2, WholeEmptied
    <3> QED
      BY <3>3 DEF d
  <2>6. All' = All
    <3>1. Contents(filled') = q
      BY <2>1 DEF q
    <3> QED
      BY <1>3, <2>1, <2>5, <3>1, AllNext
  <2>7. Balance(Seen, captured, Done, dropped, Seen', captured', Done', dropped')
    <3>1. Balance(Seen, captured, Done, dropped, Seen, captured, Done, dropped)
      BY <1>1 DEF Balance
    <3>2. Seen' = Seen /\ Done' = Done
      BY <2>1 DEF Seen, Done
    <3> QED
      BY <2>1, <3>1, <3>2
  <2>8. Flow'
    BY <2>6, <2>7, FlowKept
  <2>9. wpc \in {"give", "given"} => content'[wblk] = content[wblk]
    <3>1. wpc \in {"give", "given"} => wblk # NoBlock
      BY <1>2 DEF WriterOK
    <3> QED
      BY <1>1, <2>3, <2>4, <3>1
  <2> QED
    BY <2>1, <2>8, <2>9, AudioEnds
<1>8. CASE Copy
  <2>1. Flow'
    BY <1>8, CopyFlow
  <2>2. /\ UNCHANGED <<shouldStop, fileOpen, wpc, wblk, final, gpc>>
        /\ apc = "loop" /\ gpc \in {"recording", "stopping", "closing"}
        /\ cur \in Blocks
        /\ \E x : content' = [content EXCEPT ![cur] = x]
    BY <1>1, <1>2, <1>8 DEF Copy, flags, outfile, writer, GuiOK
  <2>3. wblk # cur
    BY <2>2, Aside
  <2>4. wpc \in {"give", "given"} => content'[wblk] = content[wblk]
    <3>1. wpc \in {"give", "given"} => wblk # NoBlock
      BY <1>2 DEF WriterOK
    <3> QED
      BY <1>1, <2>2, <2>3, <3>1
  <2> QED
    BY <2>1, <2>2, <2>4, AudioEnds
<1>9. CASE HandOff
  <2>1. cur \in Blocks /\ apc = "handoff" /\ gpc \in {"recording", "stopping", "closing"}
    BY <1>1, <1>2, <1>9 DEF HandOff, GuiOK, AudioOK
  <2>2. ~IsFull(filled)
    <3>1. cur # NoBlock
      BY <2>1, RecorderAssumption
    <3> QED
      BY <3>1, RoomToPush
  <2>3. /\ UNCHANGED <<arg, clock, captured, dropped, content, file, wblk, cur>>
        /\ UNCHANGED <<shouldStop, fileOpen, wpc, wblk, final, gpc>>
        /\ apc' = "publish" /\ filled' = WriteSlot(filled, cur)
    BY <1>9, <2>2 DEF HandOff, flags, counts, outfile, writer
  <2>4. Contents(filled') = Contents(filled)
    BY <1>1, <2>1, <2>2, <2>3, PushBegun DEF q
  <2>5. Balance(Seen, captured, Done, dropped, Seen', captured', Done', dropped')
    <3>1. Balance(Seen, captured, Done, dropped, Seen, captured, Done, dropped)
      BY <1>1 DEF Balance
    <3>2. Seen' = Seen /\ Done' = Done
      BY <2>1, <2>3 DEF Seen, Done
    <3> QED
      BY <2>3, <3>1, <3>2
  <2>6. Flow'
    BY <2>3, <2>4, <2>5, QuietAll, FlowKept
  <2> QED
    BY <2>1, <2>3, <2>6, AudioEnds
<1>10. CASE HandOffPublish
  <2>1. /\ UNCHANGED <<arg, clock, captured, dropped, content, file, wblk>>
        /\ UNCHANGED <<shouldStop, fileOpen, wpc, wblk, final, gpc>>
        /\ apc = "publish" /\ apc' = "loop" /\ filled' = Publish(filled) /\ cur' = NoBlock
        /\ cur \in Blocks /\ Pushing(filled, cur) /\ gpc \in {"recording", "stopping", "closing"}
    BY <1>1, <1>2, <1>10 DEF HandOffPublish, AfterHandOff, flags, counts, outfile, writer, GuiOK, AudioOK
  <2>2. Contents(filled') = Append(q, cur)
    BY <1>1, <2>1, RingPublish DEF Pushing, q
  <2>3. Whole(file, content, wblk, Append(q, cur), NoBlock) = Whole(file, content, wblk, q, cur)
    BY <1>1, <2>1, WholePushed
  <2>4. All' = All
    BY <1>3, <2>1, <2>2, <2>3, AllNext
  <2>5. Balance(Seen, captured, Done, dropped, Seen', captured', Done', dropped')
    <3>1. Balance(Seen, captured, Done, dropped, Seen, captured, Done, dropped)
      BY <1>1 DEF Balance
    <3>2. Seen' = Seen /\ Done' = Done
      BY <2>1 DEF Seen, Done
    <3> QED
      BY <2>1, <3>1, <3>2
  <2>6. Flow'
    BY <2>4, <2>5, FlowKept
  <2> QED
    BY <2>1, <2>6, AudioEnds
<1>11. CASE CallbackEnd
  <2>1. /\ UNCHANGED <<arg, clock, dropped, content, file, wblk, cur, filled>>
        /\ UNCHANGED <<shouldStop, fileOpen, wpc, wblk, final, gpc>>
        /\ apc = "end" \/ (apc = "loop" /\ arg.left = 0)
        /\ apc' = "out" /\ captured' = captured + arg.span /\ gpc \in {"recording", "stopping", "closing"}
    BY <1>2, <1>11 DEF CallbackEnd, rings, flags, counts, outfile, writer, GuiOK
  <2>2. Seen = arg.src - 1 /\ Done = arg.span /\ Seen' = clock /\ Done' = 0
    <3>1. Seen = arg.src - 1 /\ Seen' = clock /\ Done' = 0
      BY <2>1 DEF Seen, Done
    <3>2. arg.span - 0 = arg.span
      BY <1>1
    <3> QED
      BY <2>1, <3>1, <3>2 DEF Done
  <2>3. arg.src + arg.left <= clock + 1
    BY <2>1 DEF Sizes
  <2>4. Balance(arg.src - 1, captured, arg.span, dropped, clock, captured + arg.span, 0, dropped)
    <3> DEFINE s == arg.src
               l == arg.left
               n == arg.span
    <3>1. s \in Nat /\ l \in Nat /\ n \in Nat /\ s + l <= clock + 1
      BY <1>1, <2>3
    <3> HIDE DEF s, l, n
    <3>2. Balance(s - 1, captured, n, dropped, clock, captured + n, 0, dropped)
      BY <1>1, <3>1 DEF Balance
    <3> QED
      BY <3>2 DEF s, n
  <2>5. Flow'
    BY <2>1, <2>2, <2>4, QuietAll, FlowKept
  <2> QED
    BY <2>1, <2>5, AudioEnds
<1> QED
  BY <1>4, <1>5, <1>6, <1>7, <1>8, <1>9, <1>10, <1>11 DEF AudioStep

\* The steps of the writer.
LEMMA WriterFlow ==
  ASSUME Flow, Ends, Placed, Sizes, WriterStep
  PROVE  Flow' /\ Ends'
<1> DEFINE F == 1..MaxFrames
           q == Contents(filled)
<1>1. /\ q \in Seq(Blocks) /\ filled \in Ring(Blocks) /\ free \in Ring(Blocks)
      /\ content \in [Blocks -> Seq(F)] /\ file \in Seq(F)
      /\ wblk \in Blocks \cup {NoBlock} /\ cur \in Blocks \cup {NoBlock}
  BY AllTypes
<1>2. GuiOK /\ AudioOK /\ WriterOK
  BY DEF Placed
<1>3. All = Whole(file, content, wblk, q, cur)
  BY DEF All
<1> HIDE DEF F, q
<1>4. /\ UNCHANGED <<apc, arg, clock, captured, dropped, cur, shouldStop, fileOpen, gpc>>
      /\ wpc \in {"drain", "release", "write", "give", "given", "lock", "sleep"}
  BY DEF WriterStep, DrainRead, DrainAdvance, WriteBlock, GiveBack, GiveBackPublish, CheckStop, WriterTimeout,
         TimedOut, rings, flags, counts, outfile, audio, writer
<1>5. gpc # "ready" /\ gpc # "stopped"
  BY <1>2, <1>4 DEF GuiOK, Ends
<1>6. ASSUME All' = All PROVE Flow'
  BY <1>4, <1>6, SameBalance, FlowKept
<1>7. ASSUME content' = content, final' = final, wpc' \notin {"exited", "give", "given"} PROVE Ends'
  BY <1>4, <1>5, <1>7, EndsNext DEF Ends
<1>8. CASE DrainRead
  <2>1. UNCHANGED <<content, file, wblk, cur, filled, final>>
    BY <1>8 DEF DrainRead, rings, outfile
  <2>2. Flow'
    BY <1>6, <2>1, QuietAll
  <2>3. wpc' \notin {"give", "given"} /\ (wpc' = "exited" => final /\ IsEmpty(filled))
    BY <1>8 DEF DrainRead, AfterDrain
  <2>4. Ends'
    BY <1>4, <1>5, <2>1, <2>3, EndsNext DEF Ends
  <2> QED
    BY <2>2, <2>4
<1>9. CASE DrainAdvance
  <2>1. /\ UNCHANGED <<content, file, cur, final>>
        /\ wblk = NoBlock /\ ~IsEmpty(filled) /\ wblk' = Oldest(filled) /\ filled' = Advance(filled) /\ wpc' = "write"
    BY <1>2, <1>9 DEF DrainAdvance, outfile, WriterOK
  <2>2. q # <<>> /\ Head(q) = Oldest(filled) /\ Contents(filled') = Tail(q)
    BY <1>1, <2>1, RingAdvance DEF q
  <2>3. Whole(file, content, Head(q), Tail(q), cur) = Whole(file, content, NoBlock, q, cur)
    BY <1>1, <2>2, WholeTaken
  <2>4. All' = All
    BY <1>3, <2>1, <2>2, <2>3, AllNext
  <2> QED
    BY <1>6, <1>7, <2>1, <2>4
<1>10. CASE WriteBlock
  <2>1. /\ UNCHANGED <<filled, cur, wblk, final>>
        /\ wblk # NoBlock /\ fileOpen /\ file' = Then(file, content[wblk])
        /\ content' = [content EXCEPT ![wblk] = <<>>] /\ wpc' = "give"
    BY <1>2, <1>5, <1>10 DEF WriteBlock, rings, WriterOK, Ends, Then
  <2>2. wblk \in Blocks
    BY <1>1, <2>1
  <2>3. (\A i \in 1..Len(q) : q[i] # wblk) /\ cur # wblk
    BY <2>2, Aside DEF q
  <2>4. content'[wblk] = <<>> /\ \A p \in Blocks : p # wblk => content'[p] = content[p]
    BY <1>1, <2>1, <2>2
  <2>5. Whole(Then(file, content[wblk]), content', wblk, q, cur) = Whole(file, content, wblk, q, cur)
    <3> DEFINE d == content'
    <3>1. Alone(F, file, content, d, q, cur, wblk)
      BY <1>1, <2>2, <2>3, <2>4 DEF Alone
    <3>2. d[wblk] = <<>>
      BY <2>4
    <3> HIDE DEF d
    <3>3. Whole(Then(file, content[wblk]), d, wblk, q, cur) = Whole(file, content, wblk, q, cur)
      BY <3>1, <3>2, WholeWritten
    <3> QED
      BY <3>3 DEF d
  <2>6. All' = All
    <3>1. Contents(filled') = q
      BY <2>1 DEF q
    <3> QED
      BY <1>3, <2>1, <2>5, <3>1, AllNext
  <2>7. cur # NoBlock => content'[cur] = content[cur]
    BY <1>1, <2>3, <2>4
  <2>8. Ends'
    BY <1>4, <1>5, <2>1, <2>4, <2>7, EndsNext DEF Ends
  <2> QED
    BY <1>6, <2>6, <2>8
<1>11. CASE GiveBack
  <2>1. wblk # NoBlock
    BY <1>2, <1>11 DEF GiveBack, WriterOK
  <2>2. ~IsFull(free)
    BY <2>1, RoomToPush
  <2>3. UNCHANGED <<content, file, wblk, cur, filled, final>> /\ wpc = "give" /\ wpc' = "given"
    BY <1>11, <2>2 DEF GiveBack, outfile
  <2>4. Flow'
    BY <1>6, <2>3, QuietAll
  <2>5. Ends'
    BY <1>4, <1>5, <2>3, EndsNext DEF Ends
  <2> QED
    BY <2>4, <2>5
<1>12. CASE GiveBackPublish
  <2>1. /\ UNCHANGED <<content, file, cur, filled, final>> /\ wpc' = "drain"
        /\ wblk # NoBlock /\ wblk' = NoBlock /\ content[wblk] = <<>>
    BY <1>2, <1>12 DEF GiveBackPublish, outfile, WriterOK, Ends
  <2>2. wblk \in Blocks
    BY <1>1, <2>1
  <2>3. Whole(file, content, wblk, q, cur) = Whole(file, content, NoBlock, q, cur)
    BY <2>1, <2>2, WholeBlank
  <2>4. All' = All
    <3>1. Contents(filled') = q
      BY <2>1 DEF q
    <3> QED
      BY <1>3, <2>1, <2>3, <3>1, AllNext
  <2> QED
    BY <1>6, <1>7, <2>1, <2>4
<1>13. CASE CheckStop
  <2>1. UNCHANGED <<content, file, wblk, cur, filled>> /\ final' = shouldStop /\ wpc' \in {"drain", "sleep"}
    BY <1>13 DEF CheckStop, AfterStop, rings, outfile
  <2>2. Flow'
    BY <1>6, <2>1, QuietAll
  <2>3. Ends'
    BY <1>4, <1>5, <2>1, EndsNext DEF Ends
  <2> QED
    BY <2>2, <2>3
<1>14. CASE WriterTimeout
  <2>1. UNCHANGED <<content, file, wblk, cur, filled, final>> /\ wpc' = "drain"
    BY <1>14 DEF WriterTimeout, rings, outfile
  <2>2. Flow'
    BY <1>6, <2>1, QuietAll
  <2> QED
    BY <1>7, <2>1, <2>2
<1> QED
  BY <1>8, <1>9, <1>10, <1>11, <1>12, <1>13, <1>14 DEF WriterStep

\* The steps of the GUI thread.
LEMMA GuiFlow ==
  ASSUME Flow, Ends, Placed, Sizes, Start \/ OpenStream \/ StartStream \/ StopBegin \/ StopStep
  PROVE  Flow' /\ Ends'
<1> DEFINE F == 1..MaxFrames
           q == Contents(filled)
<1>1. /\ q \in Seq(Blocks) /\ filled \in Ring(Blocks) /\ free \in Ring(Blocks)
      /\ content \in [Blocks -> Seq(F)] /\ file \in Seq(F)
      /\ wblk \in Blocks \cup {NoBlock} /\ cur \in Blocks \cup {NoBlock}
  BY AllTypes
<1>2. GuiOK /\ AudioOK /\ WriterOK
  BY DEF Placed
<1>3. All = Whole(file, content, wblk, q, cur)
  BY DEF All
<1> HIDE DEF F, q
<1>4. ASSUME All' = All, UNCHANGED <<apc, arg, clock, captured, dropped>> PROVE Flow'
  BY <1>4, SameBalance, FlowKept
<1>5. CASE Start
  <2> DEFINE b == Oldest(free)
  <2>1. /\ UNCHANGED <<filled, content, file, fileOpen, apc, arg, clock, wblk, final>>
        /\ cur = NoBlock /\ ~IsEmpty(free) /\ cur' = b /\ gpc = "ready" /\ gpc' = "opening"
        /\ captured' = 0 /\ dropped' = 0 /\ captured = 0 /\ dropped = 0 /\ shouldStop' = FALSE /\ wpc' = "drain"
        /\ \A p \in Blocks : content[p] = <<>>
    BY <1>2, <1>5 DEF Start, outfile, audio, GuiOK, Ends
  <2>2. b \in Blocks
    BY <1>1, <2>1, TakenFrom DEF Placed, Queues
  <2> HIDE DEF b
  <2>3. content[b] = <<>>
    BY <2>1, <2>2
  <2>4. Whole(file, content, wblk, q, b) = Whole(file, content, wblk, q, NoBlock)
    BY <2>2, <2>3, WholeBlank
  <2>5. All' = All
    <3>1. Contents(filled') = q
      BY <2>1 DEF q
    <3> QED
      BY <1>3, <2>1, <2>4, <3>1, AllNext
  <2>6. ~shouldStop /\ ~final
    BY <2>1 DEF Ends
  <2>7. Ends'
    BY <2>1, <2>3, <2>6, EndsNext DEF Ends
  <2> QED
    BY <1>4, <2>1, <2>5, <2>7
<1>6. CASE OpenStream \/ StartStream \/ StopBegin \/ StopStream \/ CloseStream
  <2>1. /\ UNCHANGED <<filled, content, cur, file, fileOpen, apc, arg, clock, captured, dropped, wblk, final>>
        /\ gpc \notin {"ready", "aborting", "join", "stopped"} /\ (wpc' = wpc \/ wpc' = "drain")
    BY <1>6 DEF OpenStream, StartStream, StopBegin, StopStream, CloseStream, Notify, rings, counts, outfile,
               audio, writer
  <2>2. Flow'
    BY <1>4, <2>1, QuietAll
  <2>3. ~shouldStop /\ ~final /\ wpc # "exited" /\ fileOpen
    BY <2>1 DEF Ends
  <2>4. /\ gpc' \in {"starting", "aborting", "recording", "stopping", "closing", "tail"}
        /\ gpc' \in {"starting", "aborting"} => gpc \in {"opening", "starting"}
        /\ shouldStop' => shouldStop \/ gpc' = "aborting"
    BY <1>6 DEF OpenStream, StartStream, StopBegin, StopStream, CloseStream, flags
  <2>5. Ends'
    BY <2>1, <2>3, <2>4, EndsNext DEF Ends
  <2> QED
    BY <2>2, <2>5
<1>7. CASE HandOffTail
  <2>1. UNCHANGED <<content, apc, arg, clock, captured, dropped, shouldStop, fileOpen, wpc, wblk, final>> /\ gpc = "tail"
    BY <1>7 DEF HandOffTail, flags, counts, audio, writer
  <2>2. ~shouldStop /\ ~final /\ wpc # "exited" /\ fileOpen
    BY <2>1 DEF Ends
  <2>3. CASE TailHeld
    <3>1. cur # NoBlock /\ cur \in Blocks
      BY <1>1, <2>3 DEF TailHeld
    <3>2. ~IsFull(filled)
      BY <3>1, RoomToPush
    <3>3. gpc' = "tailpublish" /\ filled' = WriteSlot(filled, cur) /\ UNCHANGED <<cur, file>>
      BY <1>7, <2>3, <3>2 DEF HandOffTail
    <3>4. Contents(filled') = Contents(filled)
      BY <1>1, <3>1, <3>2, <3>3, PushBegun DEF q
    <3>5. Flow'
      BY <1>4, <2>1, <3>3, <3>4, QuietAll
    <3>6. Ends'
      BY <2>1, <2>2, <3>3, EndsNext DEF Ends
    <3> QED
      BY <3>5, <3>6
  <2>4. CASE ~TailHeld
    <3>1. gpc' = "signal" /\ UNCHANGED <<filled, cur, file>> /\ (cur = NoBlock \/ content[cur] = <<>>)
      BY <1>7, <2>4 DEF HandOffTail, TailHeld
    <3>2. Flow'
      BY <1>4, <2>1, <3>1, QuietAll
    <3>3. Ends'
      BY <2>1, <2>2, <3>1, EndsNext DEF Ends
    <3> QED
      BY <3>2, <3>3
  <2> QED
    BY <2>3, <2>4
<1>8. CASE TailPublish
  <2>1. /\ UNCHANGED <<content, file, apc, arg, clock, captured, dropped, shouldStop, fileOpen, wpc, wblk, final>>
        /\ gpc = "tailpublish" /\ gpc' = "signal" /\ filled' = Publish(filled) /\ cur' = NoBlock
        /\ cur \in Blocks /\ Pushing(filled, cur)
    BY <1>1, <1>2, <1>8 DEF TailPublish, flags, counts, outfile, audio, writer, GuiOK
  <2>2. Contents(filled') = Append(q, cur)
    BY <1>1, <2>1, RingPublish DEF Pushing, q
  <2>3. Whole(file, content, wblk, Append(q, cur), NoBlock) = Whole(file, content, wblk, q, cur)
    BY <1>1, <2>1, WholePushed
  <2>4. All' = All
    BY <1>3, <2>1, <2>2, <2>3, AllNext
  <2>5. ~shouldStop /\ ~final /\ wpc # "exited" /\ fileOpen
    BY <2>1 DEF Ends
  <2>6. Ends'
    BY <2>1, <2>5, EndsNext DEF Ends
  <2> QED
    BY <1>4, <2>1, <2>4, <2>6
<1>9. CASE Signal \/ JoinWriter \/ Abort
  <2>1. /\ UNCHANGED <<filled, content, cur, file, apc, arg, clock, captured, dropped, wblk, final>>
        /\ wpc' = wpc \/ (wpc = "sleep" /\ wpc' = "drain")
    BY <1>9 DEF Signal, Notify, JoinWriter, Abort, rings, counts, outfile, audio, writer
  <2>2. Flow'
    BY <1>4, <2>1, QuietAll
  <2>3. /\ gpc \in {"signal", "join", "aborting"} /\ gpc' \in {"join", "stopped"}
        /\ gpc' = "join" => fileOpen' = fileOpen /\ shouldStop'
        /\ gpc' = "stopped" => ~fileOpen' /\ shouldStop' = shouldStop /\ wpc = "exited"
    BY <1>9 DEF Signal, JoinWriter, Abort, flags, outfile
  <2>4. Ends'
    BY <2>1, <2>3, EndsNext DEF Ends
  <2> QED
    BY <2>2, <2>4
<1> QED
  BY <1>5, <1>6, <1>7, <1>8, <1>9 DEF StopStep

\* Every step keeps both.
LEMMA NextFlow == Flow /\ Ends /\ Placed /\ Sizes /\ [Next]_vars => Flow' /\ Ends'
<1> SUFFICES ASSUME Flow, Ends, Placed, Sizes, [Next]_vars PROVE Flow' /\ Ends'
  OBVIOUS
<1>1. CASE CallbackRefused \/ (\E k \in Spans : CallbackBegin(k)) \/ AudioStep
  BY <1>1, AudioFlow
<1>2. CASE WriterStep
  BY <1>2, WriterFlow
<1>3. CASE Start \/ OpenStream \/ StartStream \/ StopBegin \/ StopStep
  BY <1>3, GuiFlow
<1>4. CASE UNCHANGED vars
  <2>1. /\ UNCHANGED <<filled, content, cur, file, fileOpen, apc, arg, clock, captured, dropped, wpc, wblk, final>>
        /\ UNCHANGED <<shouldStop, gpc>>
    BY <1>4 DEF vars, rings, flags, counts, outfile, audio, writer
  <2>2. Flow'
    BY <2>1, QuietAll, SameBalance, FlowKept
  <2>3. Ends'
    BY <2>1, EndsNext DEF Ends
  <2> QED
    BY <2>2, <2>3
<1> QED
  BY <1>1, <1>2, <1>3, <1>4 DEF Next

-----------------------------------------------------------------------------
(* What the file and the pipeline hold.                                     *)

\* The pipeline is what follows the file.
LEMMA PipelineIs ==
  ASSUME Placed, Sizes
  PROVE  /\ All = file \o Pipeline /\ Pipeline \in Seq(1..MaxFrames)
         /\ Len(All) = Len(file) + Len(Pipeline)
<1> DEFINE q == Contents(filled)
<1>1. /\ q \in Seq(Blocks) /\ filled \in Ring(Blocks) /\ file \in Seq(1..MaxFrames)
      /\ content \in [Blocks -> Seq(1..MaxFrames)]
      /\ wblk \in Blocks \cup {NoBlock} /\ cur \in Blocks \cup {NoBlock}
  BY AllTypes
<1>2. Len(q) = Count(filled)
  <2>1. DOMAIN q = 1..Count(filled) /\ Count(filled) \in Nat
    BY <1>1, RingCount
  <2>2. DOMAIN q = 1..Len(q) /\ Len(q) \in Nat
    BY <1>1, LenProperties
  <2> QED
    BY <2>1, <2>2, <1>1
<1>3. [i \in 1..Count(filled) |-> content[Contents(filled)[i]]] = Loads(content, q)
  BY <1>2 DEF Loads
<1> HIDE DEF q
<1>4. Pipeline = (Load(content, wblk) \o Queued(content, q)) \o Load(content, cur)
  BY <1>3 DEF Pipeline, Load, Queued
<1>5. All = file \o Pipeline
  BY <1>4 DEF All, Whole, Joined, q
<1>6. Load(content, wblk) \in Seq(1..MaxFrames) /\ Queued(content, q) \in Seq(1..MaxFrames) /\ Load(content, cur) \in Seq(1..MaxFrames)
  BY <1>1, LoadType
<1>7. Pipeline \in Seq(1..MaxFrames)
  BY <1>4, <1>6, ConcatProperties
<1> HIDE DEF Pipeline
<1>8. Len(file \o Pipeline) = Len(file) + Len(Pipeline)
  BY <1>1, <1>7, ConcatProperties
<1> QED
  BY <1>5, <1>7, <1>8

\* Once the recorder is stopped there is nothing in the pipeline.
LEMMA StoppedEmpty ==
  ASSUME Placed, Sizes, Ends, gpc = "stopped"
  PROVE  Pipeline = <<>>
<1>1. wpc = "exited" /\ IsEmpty(filled) /\ (cur = NoBlock \/ content[cur] = <<>>)
  BY DEF Ends
<1>2. wblk = NoBlock
  BY <1>1 DEF Placed, WriterOK
<1>3. filled \in Ring(Blocks) /\ content \in [Blocks -> Seq(1..MaxFrames)]
  BY AllTypes
<1>4. Count(filled) = 0
  BY <1>1, <1>3, RingCount
<1>5. FlattenSeq([i \in 1..Count(filled) |-> content[Contents(filled)[i]]]) = <<>>
  <2>1. [i \in 1..Count(filled) |-> content[Contents(filled)[i]]] = <<>>
    BY <1>4
  <2> QED
    BY <2>1, FlattenNone
<1>6. Pipeline = (<<>> \o <<>>) \o <<>>
  BY <1>1, <1>2, <1>5 DEF Pipeline
<1>7. <<>> \in Seq(1..MaxFrames)
  BY EmptySeq
<1>8. <<>> \o <<>> = <<>>
  BY <1>7, ConcatEmptySeq
<1> QED
  BY <1>6, <1>8

\* Together they say that the frames are kept.
LEMMA KeptFrames == Flow /\ Ends /\ Placed /\ Sizes => FramesKept
<1> SUFFICES ASSUME Flow, Ends, Placed, Sizes PROVE FramesKept
  OBVIOUS
<1>1. All = file \o Pipeline /\ Len(All) = Len(file) + Len(Pipeline)
  BY PipelineIs
<1>2. InOrder
  <2>1. \A i \in 1..(Len(All) - 1) : All[i] < All[i + 1]
    BY DEF Flow
  <2> HIDE DEF All, Pipeline
  <2> QED
    BY <1>1, <2>1 DEF InOrder
<1>3. apc = "out" => captured = Len(file) + Len(Pipeline) + dropped
  <2> DEFINE n == Len(All)
  <2>1. captured \in Nat /\ dropped \in Nat /\ n \in Nat
    BY AllTypes
  <2>2. apc = "out" => captured + 0 = n + dropped
    BY DEF Flow, Done
  <2> HIDE DEF n
  <2>3. apc = "out" => captured = n + dropped
    BY <2>1, <2>2
  <2> QED
    BY <1>1, <2>3 DEF n
<1>4. gpc = "stopped" => Pipeline = <<>> /\ ~fileOpen
  BY StoppedEmpty DEF Ends
<1> QED
  BY <1>2, <1>3, <1>4 DEF FramesKept, NothingLost

\* The file receives the captured frames in the device's order, none twice and
\* none lost but the counted ones, and stop() leaves nothing behind
\* (sound_recorder.cpp, capture, writer_main and stop).
THEOREM FramesKeptHolds == Spec => []FramesKept
<1>1. Init => Placed /\ Sizes /\ Flow /\ Ends
  BY InitPlaced, InitSizes, InitFlow
<1>2. Placed /\ Sizes /\ Flow /\ Ends /\ [Next]_vars => (Placed /\ Sizes /\ Flow /\ Ends)'
  BY NextPlaced, NextSizes, NextFlow
<1>3. Flow /\ Ends /\ Placed /\ Sizes => FramesKept
  BY KeptFrames
<1> QED
  BY <1>1, <1>2, <1>3, PTL DEF Spec

-----------------------------------------------------------------------------
(* One ring between its two threads.                                        *)

\* What the two threads rely on beyond SlotsApart: the producer has an item,
\* and once stored it stays in the slot at the tail; what is between head
\* and tail are items.
ItemStored ==
    /\ ppc # "out" => item \in Items
    /\ ppc = "publish" => ring.slots[ring.tail] = item

ItemsHeld == \A i \in 1..Count(ring) : Contents(ring)[i] \in Items

QueueInv == QTypeOK /\ SlotsApart /\ ItemStored /\ ItemsHeld

\* The ring is empty at first.
LEMMA EmptyRingFacts ==
  EmptyRing \in Ring(Items) /\ Count(EmptyRing) = 0 /\ Contents(EmptyRing) = <<>>
<1>1. EmptyRing \in Ring(Items) /\ EmptyRing.head = 0 /\ EmptyRing.tail = 0
  BY CapAssumption DEF EmptyRing, Ring
<1>2. Count(EmptyRing) = 0
  BY <1>1, CountCases
<1>3. Contents(EmptyRing) = <<>>
  BY <1>2 DEF Contents
<1> QED
  BY <1>1, <1>2, <1>3

\* ... and nothing is pending.
LEMMA InitQueue ==
  ASSUME QInit
  PROVE  QueueInv
<1>1. /\ ring = EmptyRing /\ ppc = "out" /\ item = NoBlock /\ cpc = "out" /\ got = NoBlock
      /\ pushed = 0 /\ taken = <<>>
  BY DEF QInit
<1>2. QTypeOK
  BY <1>1, EmptyRingFacts, QueueAssumption DEF QTypeOK
<1>3. SlotsApart /\ ItemStored
  BY <1>1 DEF SlotsApart, ItemStored
<1>4. ItemsHeld
  BY <1>1, EmptyRingFacts DEF ItemsHeld
<1> QED
  BY <1>2, <1>3, <1>4 DEF QueueInv

\* Every step preserves it.  A push changes what the ring holds only when it
\* publishes, a pop only when it advances; a store touches a slot outside
\* the contents, and leaves the front where the consumer read it.
LEMMA NextQueue ==
  ASSUME QueueInv, [QNext]_qvars
  PROVE  QueueInv'
<1>1. /\ ring \in Ring(Items)
      /\ ppc \in {"out", "store", "publish"} /\ cpc \in {"out", "load", "advance"}
      /\ item \in Items \cup {NoBlock} /\ got \in Items \cup {NoBlock}
      /\ pushed \in 0..MaxPush /\ taken \in Seq(Items)
  BY DEF QueueInv, QTypeOK
<1>2. /\ ppc # "out" => ~IsFull(ring) /\ item \in Items
      /\ ppc = "publish" => ring.slots[ring.tail] = item
      /\ cpc # "out" => ~IsEmpty(ring)
      /\ cpc = "advance" => got = Oldest(ring)
  BY DEF QueueInv, SlotsApart, ItemStored
<1>3. \A i \in 1..Count(ring) : Contents(ring)[i] \in Items
  BY DEF QueueInv, ItemsHeld
<1>4. Count(ring) \in 0..(Cap - 1) /\ (IsFull(ring) <=> Count(ring) = Cap - 1)
      /\ (IsEmpty(ring) <=> Count(ring) = 0)
  BY <1>1, CountCases
<1>5. ring.head \in 0..(Cap - 1) /\ ring.tail \in 0..(Cap - 1)
      /\ ring.slots \in [0..(Cap - 1) -> Items \cup {NoBlock}]
  BY <1>1, RingFields
<1>6. ASSUME NEW x \in Items, PushTest(x) PROVE QueueInv'
  <2>1. /\ ~IsFull(ring) /\ ppc' = "store" /\ item' = x /\ pushed' = pushed + 1
        /\ pushed < MaxPush /\ UNCHANGED <<ring, cpc, got, taken>>
    BY <1>6 DEF PushTest
  <2>2. QTypeOK'
    BY <1>1, <2>1, QueueAssumption DEF QTypeOK
  <2>3. SlotsApart' /\ ItemStored'
    BY <1>2, <2>1 DEF SlotsApart, ItemStored, IsFull, IsEmpty, Oldest
  <2>4. ItemsHeld'
    BY <1>3, <2>1 DEF ItemsHeld, Contents, Count
  <2> QED
    BY <2>2, <2>3, <2>4 DEF QueueInv
<1>7. CASE PushStore
  <2>1. /\ ppc = "store" /\ ring' = WriteSlot(ring, item) /\ ppc' = "publish"
        /\ UNCHANGED <<item, cpc, got, pushed, taken>> /\ item \in Items
    BY <1>2, <1>7 DEF PushStore
  <2>2. /\ ring' \in Ring(Items) /\ ring'.head = ring.head /\ ring'.tail = ring.tail
        /\ ring'.slots = [ring.slots EXCEPT ![ring.tail] = item]
    BY <1>1, <2>1 DEF Ring, WriteSlot
  <2>3. Count(ring') = Count(ring) /\ Contents(ring') = Contents(ring)
    BY <1>1, <2>1, WriteKeepsContents
  <2>4. QTypeOK'
    BY <1>1, <2>1, <2>2 DEF QTypeOK
  <2>5. ~IsFull(ring)' /\ (IsEmpty(ring)' <=> IsEmpty(ring))
    BY <1>2, <2>1, <2>2 DEF IsFull, IsEmpty
  <2>6. ~IsEmpty(ring) => Oldest(ring)' = Oldest(ring)
    BY <1>5, <2>2 DEF IsEmpty, Oldest
  <2>7. SlotsApart'
    BY <1>2, <2>1, <2>5, <2>6 DEF SlotsApart
  <2>8. ItemStored'
    BY <1>5, <2>1, <2>2 DEF ItemStored
  <2>9. ItemsHeld'
    BY <1>3, <2>3 DEF ItemsHeld
  <2> QED
    BY <2>4, <2>7, <2>8, <2>9 DEF QueueInv
<1>8. CASE PushPublish
  <2>1. /\ ppc = "publish" /\ ring' = Publish(ring) /\ ppc' = "out" /\ item' = NoBlock
        /\ UNCHANGED <<cpc, got, pushed, taken>>
        /\ item \in Items /\ ~IsFull(ring) /\ ring.slots[ring.tail] = item
    BY <1>2, <1>8 DEF PushPublish
  <2>2. /\ ring' \in Ring(Items) /\ ring'.head = ring.head /\ ring'.slots = ring.slots
    BY <1>1, <2>1, RingOps
  <2>3. /\ Count(ring') = Count(ring) + 1
        /\ Contents(ring') = Append(Contents(ring), item)
    BY <1>1, <2>1, PublishAppends
  <2>4. QTypeOK'
    BY <1>1, <2>1, <2>2 DEF QTypeOK
  <2>5. ~IsEmpty(ring)'
    <3>1. IsEmpty(ring') <=> Count(ring') = 0
      BY <2>2, CountCases
    <3>2. ~IsEmpty(ring')
      BY <1>4, <2>3, <3>1
    <3> QED
      BY <3>2 DEF IsEmpty
  <2>6. Oldest(ring)' = Oldest(ring)
    BY <2>2 DEF Oldest
  <2>7. SlotsApart'
    BY <1>2, <2>1, <2>5, <2>6 DEF SlotsApart
  <2>8. ItemStored'
    BY <2>1 DEF ItemStored
  <2>9. ItemsHeld'
    <3>1. Len(Contents(ring)) = Count(ring) /\ Contents(ring) \in Seq(Items)
      BY <1>3, <1>4 DEF Contents
    <3>2. \A i \in 1..(Count(ring) + 1) : Append(Contents(ring), item)[i] \in Items
      BY <1>3, <1>4, <2>1, <3>1
    <3> QED
      BY <2>3, <3>2 DEF ItemsHeld
  <2> QED
    BY <2>4, <2>7, <2>8, <2>9 DEF QueueInv
<1>9. CASE PopTest
  <2>1. ~IsEmpty(ring) /\ cpc' = "load" /\ UNCHANGED <<ring, ppc, item, got, pushed, taken>>
    BY <1>9 DEF PopTest
  <2>2. QTypeOK'
    BY <1>1, <2>1 DEF QTypeOK
  <2>3. SlotsApart' /\ ItemStored'
    BY <1>2, <2>1 DEF SlotsApart, ItemStored, IsFull, IsEmpty, Oldest
  <2>4. ItemsHeld'
    BY <1>3, <2>1 DEF ItemsHeld, Contents, Count
  <2> QED
    BY <2>2, <2>3, <2>4 DEF QueueInv
<1>10. CASE PopLoad
  <2>1. /\ cpc = "load" /\ got' = Oldest(ring) /\ cpc' = "advance"
        /\ UNCHANGED <<ring, ppc, item, pushed, taken>>
    BY <1>10 DEF PopLoad
  <2>2. Oldest(ring) \in Items \cup {NoBlock}
    BY <1>5 DEF Oldest
  <2>3. QTypeOK'
    BY <1>1, <2>1, <2>2 DEF QTypeOK
  <2>4. SlotsApart' /\ ItemStored'
    BY <1>2, <2>1 DEF SlotsApart, ItemStored, IsFull, IsEmpty, Oldest
  <2>5. ItemsHeld'
    BY <1>3, <2>1 DEF ItemsHeld, Contents, Count
  <2> QED
    BY <2>3, <2>4, <2>5 DEF QueueInv
<1>11. CASE PopAdvance
  <2>1. /\ cpc = "advance" /\ ring' = Advance(ring) /\ taken' = Append(taken, got)
        /\ cpc' = "out" /\ got' = NoBlock /\ UNCHANGED <<ppc, item, pushed>>
        /\ ~IsEmpty(ring) /\ got = Oldest(ring)
    BY <1>2, <1>11 DEF PopAdvance
  <2>2. /\ Count(ring') = Count(ring) - 1 /\ Contents(ring) # <<>>
        /\ Head(Contents(ring)) = Oldest(ring)
        /\ Contents(ring') = Tail(Contents(ring))
    BY <1>1, <2>1, AdvanceTakes
  <2>3. Contents(ring) \in Seq(Items) /\ Len(Contents(ring)) = Count(ring)
    BY <1>3, <1>4 DEF Contents
  <2>4. got \in Items
    BY <2>1, <2>2, <2>3
  <2>5. /\ ring' \in Ring(Items) /\ ring'.tail = ring.tail /\ ring'.slots = ring.slots
    BY <1>1, <2>1, <2>4, RingOps
  <2>6. QTypeOK'
    BY <1>1, <2>1, <2>4, <2>5 DEF QTypeOK
  <2>7. ~IsFull(ring)'
    <3>1. IsFull(ring') <=> Count(ring') = Cap - 1
      BY <2>5, CountCases
    <3>2. ~IsFull(ring')
      BY <1>4, <2>2, <3>1, CapAssumption
    <3> QED
      BY <3>2 DEF IsFull
  <2>8. SlotsApart'
    BY <2>1, <2>7 DEF SlotsApart
  <2>9. ItemStored'
    BY <1>2, <2>1, <2>5 DEF ItemStored
  <2>10. ItemsHeld'
    <3>1. \A i \in 1..(Count(ring) - 1) : Tail(Contents(ring))[i] \in Items
      BY <1>4, <2>1, <2>2, <2>3
    <3> QED
      BY <2>2, <3>1 DEF ItemsHeld
  <2> QED
    BY <2>6, <2>8, <2>9, <2>10 DEF QueueInv
<1>12. CASE UNCHANGED qvars
  <2>1. UNCHANGED <<ring, ppc, item, cpc, got, pushed, taken>>
    BY <1>12 DEF qvars
  <2> QED
    BY <2>1 DEF QueueInv, QTypeOK, SlotsApart, ItemStored, ItemsHeld, IsFull, IsEmpty, Oldest, Contents, Count
<1> QED
  BY <1>6, <1>7, <1>8, <1>9, <1>10, <1>11, <1>12 DEF QNext

\* Every state of the queue has its type.
THEOREM QueueTypeCorrect == QSpec => []QTypeOK
<1>1. QueueInv => QTypeOK
  BY DEF QueueInv
<1> QED
  BY <1>1, InitQueue, NextQueue, PTL DEF QSpec

\* The producer stores in a slot the consumer may not read, and the consumer
\* takes what it read: BlockQueue needs no lock (sound_recorder.cpp:59-80).
THEOREM SlotsApartHolds == QSpec => []SlotsApart
<1>1. QueueInv => SlotsApart
  BY DEF QueueInv
<1> QED
  BY <1>1, InitQueue, NextQueue, PTL DEF QSpec

-----------------------------------------------------------------------------
(* The ring implements the abstract queue.                                  *)

\* A publication is a Put, an advance is a Take, and no other step shows.
LEMMA StepRefines == QueueInv /\ [QNext]_qvars => [Queue!Next]_<<Contents(ring), taken>>
<1> SUFFICES ASSUME QueueInv, [QNext]_qvars PROVE [Queue!Next]_<<Contents(ring), taken>>
  OBVIOUS
<1>1. ring \in Ring(Items)
  BY DEF QueueInv, QTypeOK
<1>2. Count(ring) \in 0..(Cap - 1) /\ (IsFull(ring) <=> Count(ring) = Cap - 1)
  BY <1>1, CountCases
<1>3. Len(Contents(ring)) = Count(ring)
  BY <1>2 DEF Contents
<1>4. CASE PushPublish
  <2>1. ~IsFull(ring) /\ ring.slots[ring.tail] = item /\ item \in Items
        /\ ring' = Publish(ring) /\ UNCHANGED taken
    BY <1>4 DEF PushPublish, QueueInv, SlotsApart, ItemStored
  <2>2. Contents(ring') = Append(Contents(ring), item)
    BY <1>1, <2>1, PublishAppends
  <2>3. Contents(ring)' = Contents(ring')
    BY DEF Contents, Count
  <2>4. Len(Contents(ring)) < Cap - 1
    <3>1. Count(ring) < Cap - 1
      BY <1>2, <2>1, CapAssumption
    <3> QED
      BY <1>3, <3>1
  <2>5. Queue!Put(item)
    BY <2>1, <2>2, <2>3, <2>4 DEF Queue!Put
  <2> QED
    BY <2>1, <2>5 DEF Queue!Next
<1>5. CASE PopAdvance
  <2>1. ~IsEmpty(ring) /\ got = Oldest(ring)
        /\ ring' = Advance(ring) /\ taken' = Append(taken, got)
    BY <1>5 DEF PopAdvance, QueueInv, SlotsApart
  <2>2. /\ Contents(ring) # <<>> /\ Head(Contents(ring)) = Oldest(ring)
        /\ Contents(ring') = Tail(Contents(ring))
    BY <1>1, <2>1, AdvanceTakes
  <2>3. Contents(ring)' = Contents(ring')
    BY DEF Contents, Count
  <2>4. Queue!Take
    BY <2>1, <2>2, <2>3 DEF Queue!Take
  <2> QED
    BY <2>4 DEF Queue!Next
<1>6. CASE PushStore
  <2>1. item \in Items /\ ring' = WriteSlot(ring, item) /\ UNCHANGED taken
    BY <1>6 DEF PushStore, QueueInv, ItemStored
  <2>2. Contents(ring') = Contents(ring)
    BY <1>1, <2>1, WriteKeepsContents
  <2>3. Contents(ring)' = Contents(ring')
    BY DEF Contents, Count
  <2> QED
    BY <2>1, <2>2, <2>3
<1>7. CASE (\E x \in Items : PushTest(x)) \/ PopTest \/ PopLoad \/ UNCHANGED qvars
  <2>1. UNCHANGED <<ring, taken>>
    BY <1>7 DEF PushTest, PopTest, PopLoad, qvars
  <2> QED
    BY <2>1 DEF Contents, Count
<1> QED
  BY <1>4, <1>5, <1>6, <1>7 DEF QNext

\* Whatever the producer pushes comes out at the consumer once and in order,
\* and never more than Cap - 1 items wait (sound_recorder.hpp:124-139).
THEOREM RingIsFifo == QSpec => IsFifo
<1>1. QInit => Queue!Init
  BY EmptyRingFacts DEF QInit, Queue!Init
<1> QED
  BY <1>1, InitQueue, NextQueue, StepRefines, PTL DEF QSpec, IsFifo, Queue!Spec
=============================================================================
