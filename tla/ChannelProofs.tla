--------------------------- MODULE ChannelProofs ---------------------------
(***************************************************************************)
(* Proofs about Channel, for any threads, channels, payloads and capacities *)
(* and any threshold of the compaction: no wakeup is lost, no channel is    *)
(* freed while a thread works on it, the count of every channel is the      *)
(* number of its references, and each channel is a bounded FIFO.            *)
(*                                                                          *)
(* IInv adds to these what ties a thread to its place: the reference it     *)
(* holds to the channel it works on, the payload it carries, and the        *)
(* condition variable it waits on.                                          *)
(***************************************************************************)
EXTENDS Channel, DataLemmas

\* A thread holds the channel it works on, and carries a payload until it has sent it.
ThreadOK(t) ==
    /\ pc[t] \notin {"out", "release"} => holds[t][chan[t]] > 0
    /\ item[t] # NoValue <=> pc[t] \in {"send", "full"}
    /\ pc[t] # "release" => todo[t] = <<>>

\* The threads that wait on a condition variable of channel c are asleep there.
WaitersOK(c) ==
    /\ \A u \in notEmpty[c] : chan[u] = c /\ pc[u] \in {"empty", "timed"}
    /\ \A u \in notFull[c] : chan[u] = c /\ pc[u] = "full"

IInv ==
    /\ TypeOK
    /\ \A t \in Threads : ThreadOK(t)
    /\ \A c \in Channels : WaitersOK(c)
    /\ CountsExact
    /\ NoLostWakeup

-----------------------------------------------------------------------------
(* The queue in the buffer.                                                 *)

\* What is behind the consumed prefix of a buffer.
LEMMA BehindFact ==
  ASSUME NEW S, NEW b \in Seq(S), NEW h \in 0..Len(b), NEW q, q = SubSeq(b, h + 1, Len(b))
  PROVE  /\ q \in Seq(S) /\ Len(q) = Len(b) - h
         /\ \A i \in 1..(Len(b) - h) : q[i] = b[h + i]
<1>1. Len(b) \in Nat /\ b \in [1..Len(b) -> S]
  BY LenProperties
<1>2. h + 1 \in Int /\ Len(b) \in Int /\ \A i \in (h + 1)..Len(b) : b[i] \in S
  BY <1>1
<1>3. /\ q \in Seq(S)
      /\ Len(q) = IF h + 1 <= Len(b) THEN Len(b) - (h + 1) + 1 ELSE 0
      /\ \A i \in 1..(Len(b) - (h + 1) + 1) : q[i] = b[(h + 1) + i - 1]
  BY <1>2, SubSeqProperties
<1>4. Len(q) = Len(b) - h /\ Len(b) - (h + 1) + 1 = Len(b) - h
  <2>1. Len(q) = IF h + 1 <= Len(b) THEN Len(b) - (h + 1) + 1 ELSE 0
    BY <1>3
  <2>2. Len(b) \in Nat /\ h \in 0..Len(b)
    BY <1>1
  <2> QED
    BY ONLY <2>1, <2>2
<1>5. ASSUME NEW i \in 1..(Len(b) - h) PROVE q[i] = b[h + i]
  <2>1. (h + 1) + i - 1 = h + i
    BY <1>1
  <2> QED
    BY <1>3, <1>4, <2>1
<1> QED
  BY <1>3, <1>4, <1>5

\* A value added to the buffer is the last of the queue.
LEMMA BehindAppend ==
  ASSUME NEW S, NEW b \in Seq(S), NEW h \in 0..Len(b), NEW x \in S
  PROVE  SubSeq(Append(b, x), h + 1, Len(Append(b, x))) = Append(SubSeq(b, h + 1, Len(b)), x)
<1> DEFINE q == SubSeq(b, h + 1, Len(b))
           e == Append(b, x)
           p == SubSeq(e, h + 1, Len(e))
           r == Append(q, x)
<1>1. /\ Len(b) \in Nat /\ e \in Seq(S) /\ Len(e) = Len(b) + 1
      /\ \A i \in 1..Len(b) : e[i] = b[i]
      /\ e[Len(b) + 1] = x
  BY AppendProperties, LenProperties
<1>2. q \in Seq(S) /\ Len(q) = Len(b) - h /\ \A i \in 1..(Len(b) - h) : q[i] = b[h + i]
  BY BehindFact
<1>3. h \in 0..Len(e)
  BY <1>1
<1> HIDE DEF e
<1>4. p \in Seq(S) /\ Len(p) = Len(e) - h /\ \A i \in 1..(Len(e) - h) : p[i] = e[h + i]
  BY <1>1, <1>3, BehindFact
<1> HIDE DEF q, p
<1>5. /\ r \in Seq(S) /\ Len(r) = Len(q) + 1
      /\ \A i \in 1..Len(q) : r[i] = q[i]
      /\ r[Len(q) + 1] = x
  BY <1>2, AppendProperties
<1> HIDE DEF r
<1>6. Len(p) = Len(r)
  BY <1>1, <1>2, <1>4, <1>5
<1>7. ASSUME NEW i \in 1..Len(p) PROVE p[i] = r[i]
  <2>1. i \in 1..(Len(e) - h) /\ p[i] = e[h + i]
    BY <1>4
  <2>2. CASE i = Len(q) + 1
    BY <2>1, <2>2, <1>1, <1>2, <1>5
  <2>3. CASE i # Len(q) + 1
    <3>1. i \in 1..Len(q) /\ i \in 1..(Len(b) - h) /\ h + i \in 1..Len(b)
      BY <2>1, <2>3, <1>1, <1>2
    <3> QED
      BY <3>1, <2>1, <1>1, <1>2, <1>5
  <2> QED
    BY <2>2, <2>3
<1>8. p = r
  BY <1>4, <1>5, <1>6, <1>7, SeqEqual
<1> QED
  BY <1>8 DEF p, r, q, e

\* The compaction of the buffer leaves what is behind its prefix.
LEMMA CompactFact ==
  ASSUME NEW S, NEW b \in Seq(S), NEW h \in 0..Len(b), NEW s, s = Compact(b, h)
  PROVE  /\ s[1] \in Seq(S) /\ s[2] \in 0..Len(s[1]) /\ Len(s[1]) - s[2] = Len(b) - h
         /\ SubSeq(s[1], s[2] + 1, Len(s[1])) = SubSeq(b, h + 1, Len(b))
<1> DEFINE q == SubSeq(b, h + 1, Len(b))
<1>1. q \in Seq(S) /\ Len(q) = Len(b) - h /\ Len(b) \in Nat /\ Len(q) \in Nat
  BY BehindFact, LenProperties
<1>2. SubSeq(q, 1, Len(q)) = q
  BY <1>1, SubSeqFull
<1> HIDE DEF q
<1>3. s = <<q, 0>> \/ s = <<b, h>>
  BY DEF Compact, q
<1>4. CASE s = <<q, 0>>
  <2>1. s[1] = q /\ s[2] = 0 /\ s[2] + 1 = 1
    BY <1>4
  <2> QED
    BY <2>1, <1>1, <1>2 DEF q
<1>5. CASE s = <<b, h>>
  BY <1>1, <1>5
<1> QED
  BY <1>3, <1>4, <1>5

\* The queue of a channel and its length.
LEMMA QueueFact ==
  ASSUME TypeOK, NEW c \in Channels
  PROVE  /\ buf[c] \in Seq(Values) /\ head[c] \in 0..Len(buf[c])
         /\ Queue(c) \in Seq(Values) /\ Len(Queue(c)) = Count(c) /\ Count(c) \in Nat
<1>1. buf[c] \in Seq(Values) /\ head[c] \in Nat /\ head[c] <= Len(buf[c])
  BY DEF TypeOK
<1>2. Len(buf[c]) \in Nat /\ head[c] \in 0..Len(buf[c])
  BY <1>1, LenProperties
<1>3. Queue(c) \in Seq(Values) /\ Len(Queue(c)) = Len(buf[c]) - head[c]
  <2>1. Queue(c) = SubSeq(buf[c], head[c] + 1, Len(buf[c]))
    BY DEF Queue
  <2> QED
    BY <1>1, <1>2, <2>1, BehindFact
<1> QED
  BY <1>1, <1>2, <1>3 DEF Count

\* The queue after a push.
LEMMA PushFact ==
  ASSUME TypeOK, NEW c \in Channels, NEW x \in Values,
         buf' = [buf EXCEPT ![c] = Append(@, x)], head' = head
  PROVE  /\ buf'[c] \in Seq(Values) /\ head'[c] \in 0..Len(buf'[c])
         /\ Queue(c)' = Append(Queue(c), x) /\ Count(c)' = Count(c) + 1
         /\ \A d \in Channels : d # c => Queue(d)' = Queue(d) /\ Count(d)' = Count(d)
<1>1. buf[c] \in Seq(Values) /\ head[c] \in 0..Len(buf[c]) /\ Len(buf[c]) \in Nat
  BY QueueFact, LenProperties
<1>2. buf'[c] = Append(buf[c], x) /\ \A d \in Channels : d # c => buf'[d] = buf[d]
  BY DEF TypeOK
<1>3. Append(buf[c], x) \in Seq(Values) /\ Len(Append(buf[c], x)) = Len(buf[c]) + 1
  BY <1>1, AppendProperties
<1>4. SubSeq(Append(buf[c], x), head[c] + 1, Len(Append(buf[c], x))) = Append(SubSeq(buf[c], head[c] + 1, Len(buf[c])), x)
  BY <1>1, BehindAppend
<1>5. Queue(c)' = Append(Queue(c), x)
  BY <1>2, <1>4 DEF Queue
<1>6. Count(c)' = Count(c) + 1 /\ head'[c] \in 0..Len(buf'[c])
  BY <1>1, <1>2, <1>3 DEF Count
<1> QED
  BY <1>2, <1>3, <1>5, <1>6 DEF Queue, Count

\* The queue after a pop.
LEMMA PopFact ==
  ASSUME TypeOK, NEW c \in Channels, Count(c) > 0,
         NEW s, s = Compact(buf[c], head[c] + 1),
         buf' = [buf EXCEPT ![c] = s[1]], head' = [head EXCEPT ![c] = s[2]]
  PROVE  /\ buf'[c] \in Seq(Values) /\ head'[c] \in 0..Len(buf'[c])
         /\ Queue(c) # <<>> /\ Head(Queue(c)) = buf[c][head[c] + 1] /\ buf[c][head[c] + 1] \in Values
         /\ Queue(c)' = Tail(Queue(c)) /\ Count(c)' = Count(c) - 1
         /\ \A d \in Channels : d # c => Queue(d)' = Queue(d) /\ Count(d)' = Count(d)
<1> DEFINE b == buf[c]
           h == head[c]
<1>1. b \in Seq(Values) /\ h \in 0..Len(b) /\ Len(b) \in Nat /\ Len(b) - h > 0
  BY QueueFact, LenProperties DEF Count
<1>2. /\ buf'[c] = s[1] /\ head'[c] = s[2]
      /\ \A d \in Channels : d # c => buf'[d] = buf[d] /\ head'[d] = head[d]
  BY DEF TypeOK
<1>3. Queue(c) = SubSeq(b, h + 1, Len(b))
  BY DEF Queue
<1>4. Count(c) = Len(b) - h
  BY DEF Count
<1> HIDE DEF b, h
<1>5. h + 1 \in 0..Len(b) /\ h + 1 \in 1..Len(b) /\ Len(b) \in (h + 1)..Len(b) /\ (h + 1) + 1 = h + 2
  BY <1>1
<1>6. Head(SubSeq(b, h + 1, Len(b))) = b[h + 1] /\ Tail(SubSeq(b, h + 1, Len(b))) = SubSeq(b, (h + 1) + 1, Len(b))
  BY <1>1, <1>5, HeadTailOfSubSeq
<1>7. /\ s[1] \in Seq(Values) /\ s[2] \in 0..Len(s[1]) /\ Len(s[1]) - s[2] = Len(b) - (h + 1)
      /\ SubSeq(s[1], s[2] + 1, Len(s[1])) = SubSeq(b, (h + 1) + 1, Len(b))
  BY <1>1, <1>5, CompactFact DEF b, h
<1>8. Queue(c)' = SubSeq(s[1], s[2] + 1, Len(s[1])) /\ Count(c)' = Len(s[1]) - s[2]
  BY <1>2 DEF Queue, Count
<1>9. Queue(c) # <<>>
  <2>1. Queue(c) \in Seq(Values) /\ Len(Queue(c)) = Count(c)
    BY QueueFact
  <2> QED
    BY <2>1
<1>10. b[h + 1] \in Values
  BY <1>1, <1>5, ElementOfSeq
<1>11. Len(b) - (h + 1) = Len(b) - h - 1
  BY <1>1
<1>12. \A d \in Channels : d # c => Queue(d)' = Queue(d) /\ Count(d)' = Count(d)
  BY <1>2 DEF Queue, Count
<1>13. buf'[c] \in Seq(Values) /\ head'[c] \in 0..Len(buf'[c])
  BY <1>2, <1>7
<1>14. Queue(c)' = Tail(Queue(c)) /\ Head(Queue(c)) = b[h + 1]
  BY <1>3, <1>6, <1>7, <1>8
<1>15. Count(c)' = Count(c) - 1
  BY <1>4, <1>7, <1>8, <1>11
<1> QED
  BY <1>9, <1>10, <1>12, <1>13, <1>14, <1>15 DEF b, h

-----------------------------------------------------------------------------
(* The references to a channel.                                             *)

HeldSum(c)   == SumOf([t \in Threads |-> HasRefs(t, c)])
QueuedSum(c) == SumOf([d \in Channels |-> QueueRefs(d, c)])

\* Every thread and every queue has a natural number of references to a channel.
LEMMA RefsType ==
  ASSUME TypeOK, NEW c \in Channels
  PROVE  /\ \A t \in Threads : HasRefs(t, c) \in Nat
         /\ \A d \in Channels : QueueRefs(d, c) \in Nat
<1>1. ASSUME NEW t \in Threads PROVE HasRefs(t, c) \in Nat
  <2>1. holds[t][c] \in Nat /\ todo[t] \in Seq(Values)
    BY DEF TypeOK
  <2>2. Occurrences(todo[t], c) \in Nat
    BY <2>1, OccurrencesType
  <2> QED
    BY <2>1, <2>2 DEF HasRefs
<1>2. ASSUME NEW d \in Channels PROVE QueueRefs(d, c) \in Nat
  <2>1. Occurrences(Queue(d), c) \in Nat
    BY QueueFact, OccurrencesType
  <2> QED
    BY <2>1 DEF QueueRefs
<1> QED
  BY <1>1, <1>2

\* The sums are of finitely many of them.
LEMMA SumsType ==
  ASSUME TypeOK, NEW c \in Channels
  PROVE  /\ HeldSum(c) \in Nat /\ QueuedSum(c) \in Nat
         /\ \A t \in Threads : HasRefs(t, c) <= HeldSum(c)
<1> DEFINE f == [t \in Threads |-> HasRefs(t, c)]
           g == [d \in Channels |-> QueueRefs(d, c)]
<1>1. f \in [Threads -> Nat] /\ g \in [Channels -> Nat]
  BY RefsType
<1>2. \A t \in Threads : f[t] = HasRefs(t, c)
  OBVIOUS
<1>3. HeldSum(c) = SumOf(f) /\ QueuedSum(c) = SumOf(g)
  BY DEF HeldSum, QueuedSum
<1> HIDE DEF f, g
<1>4. IsFiniteSet(Threads) /\ IsFiniteSet(Channels)
  BY ChannelAssumption
<1>5. SumOf(f) \in Nat /\ SumOf(g) \in Nat
  BY <1>1, <1>4, SumType
<1>6. \A t \in Threads : f[t] <= SumOf(f)
  BY <1>1, <1>4, SumAtLeast
<1> QED
  BY <1>2, <1>3, <1>5, <1>6

\* A channel that a thread refers to is counted, and alive.
LEMMA ReferredAlive ==
  ASSUME IInv, NEW t \in Threads, NEW c \in Channels, HasRefs(t, c) > 0
  PROVE  rc[c] \in Nat /\ rc[c] > 0 /\ c \in live
<1>1. HeldSum(c) \in Nat /\ QueuedSum(c) \in Nat /\ HasRefs(t, c) <= HeldSum(c) /\ HasRefs(t, c) \in Nat
  BY SumsType, RefsType DEF IInv
<1>2. rc[c] = HeldSum(c) + QueuedSum(c) /\ (c \in live <=> rc[c] > 0)
  BY DEF IInv, CountsExact, HeldSum, QueuedSum
<1> QED
  BY <1>1, <1>2

\* A step that changes the references of one thread and of one queue changes
\* the count by as much.
LEMMA CountFollows ==
  ASSUME IInv, NEW t \in Threads, NEW d \in Channels, NEW c \in Channels,
         HasRefs(t, c)' \in Nat, QueueRefs(d, c)' \in Nat,
         \A u \in Threads : u # t => HasRefs(u, c)' = HasRefs(u, c),
         \A e \in Channels : e # d => QueueRefs(e, c)' = QueueRefs(e, c),
         rc'[c] = rc[c] - HasRefs(t, c) - QueueRefs(d, c) + HasRefs(t, c)' + QueueRefs(d, c)'
  PROVE  rc'[c] = HeldSum(c)' + QueuedSum(c)'
<1> DEFINE f == [u \in Threads |-> HasRefs(u, c)]
           g == [e \in Channels |-> QueueRefs(e, c)]
           fp == [u \in Threads |-> HasRefs(u, c)']
           gp == [e \in Channels |-> QueueRefs(e, c)']
<1>1. /\ \A u \in Threads : HasRefs(u, c) \in Nat /\ HasRefs(u, c)' \in Nat
      /\ \A e \in Channels : QueueRefs(e, c) \in Nat /\ QueueRefs(e, c)' \in Nat
  <2>1. TypeOK
    BY DEF IInv
  <2>2. /\ \A u \in Threads : HasRefs(u, c) \in Nat
        /\ \A e \in Channels : QueueRefs(e, c) \in Nat
    BY <2>1, RefsType
  <2>3. /\ \A u \in Threads : HasRefs(u, c)' \in Nat
        /\ \A e \in Channels : QueueRefs(e, c)' \in Nat
    BY <2>2
  <2> QED
    BY <2>2, <2>3
<1>2. IsFiniteSet(Threads) /\ IsFiniteSet(Channels)
  BY ChannelAssumption
<1>3. /\ SumOf(f) \in Nat /\ SumOf(fp) \in Nat
      /\ SumOf(fp) = SumOf(f) - HasRefs(t, c) + HasRefs(t, c)'
  <2>1. f \in [Threads -> Nat] /\ fp \in [Threads -> Nat] /\ \A u \in Threads : u # t => fp[u] = f[u]
    BY <1>1
  <2>2. f[t] = HasRefs(t, c) /\ fp[t] = HasRefs(t, c)'
    OBVIOUS
  <2> HIDE DEF f, fp
  <2>3. SumOf(f) \in Nat /\ SumOf(fp) \in Nat /\ SumOf(fp) = SumOf(f) - f[t] + fp[t]
    BY <1>2, <2>1, SumChange
  <2> QED
    BY <2>2, <2>3
<1>4. /\ SumOf(g) \in Nat /\ SumOf(gp) \in Nat
      /\ SumOf(gp) = SumOf(g) - QueueRefs(d, c) + QueueRefs(d, c)'
  <2>1. g \in [Channels -> Nat] /\ gp \in [Channels -> Nat] /\ \A e \in Channels : e # d => gp[e] = g[e]
    BY <1>1
  <2>2. g[d] = QueueRefs(d, c) /\ gp[d] = QueueRefs(d, c)'
    OBVIOUS
  <2> HIDE DEF g, gp
  <2>3. SumOf(g) \in Nat /\ SumOf(gp) \in Nat /\ SumOf(gp) = SumOf(g) - g[d] + gp[d]
    BY <1>2, <2>1, SumChange
  <2> QED
    BY <2>2, <2>3
<1>5. HeldSum(c)' = SumOf(fp) /\ QueuedSum(c)' = SumOf(gp)
  BY DEF HeldSum, QueuedSum
<1>6. rc[c] = SumOf(f) + SumOf(g)
  BY DEF IInv, CountsExact
<1> HIDE DEF f, g, fp, gp
<1> QED
  BY <1>1, <1>3, <1>4, <1>5, <1>6

-----------------------------------------------------------------------------
(* The initial states.                                                      *)

\* Every reference to a channel is held by a thread that was given it.
LEMMA InitInv == Init => IInv
<1> SUFFICES ASSUME Init PROVE IInv
  OBVIOUS
<1>1. (CHOOSE c \in Used : TRUE) \in Channels /\ UNION Range(Given) \subseteq Channels
  <2>1. \A u \in Threads : Given[u] \subseteq Channels
    BY ChannelAssumption
  <2> QED
    BY <2>1, ChannelAssumption DEF Range
<1>2. ASSUME NEW c \in Channels PROVE Cardinality({u \in Threads : c \in Given[u]}) \in Nat
  BY ChannelAssumption, FS_Subset, FS_CardinalityType
<1>3. \A c \in Channels : buf[c] = <<>> /\ head[c] = 0 /\ Len(<<>>) = 0
  BY DEF Init
<1>4. TypeOK
  <2>1. <<>> \in Seq(Values)
    OBVIOUS
  <2>2. /\ buf \in [Channels -> Seq(Values)] /\ head \in [Channels -> Nat]
        /\ live \subseteq Channels /\ rc \in [Channels -> Nat] /\ holds \in [Threads -> [Channels -> Nat]]
    BY <1>1, <1>2, <2>1 DEF Init
  <2>3. /\ pc \in [Threads -> Locations] /\ chan \in [Threads -> Channels]
        /\ item \in [Threads -> Values \cup {NoValue}] /\ todo \in [Threads -> Seq(Values)]
    BY <1>1, <2>1 DEF Init, Locations
  <2>4. /\ notEmpty \in [Channels -> SUBSET Threads] /\ notFull \in [Channels -> SUBSET Threads]
        /\ sends \in 0..MaxSends /\ taken \in [Channels -> Seq(Values)]
    BY <2>1, ChannelAssumption DEF Init
  <2> QED
    BY <1>3, <2>2, <2>3, <2>4 DEF TypeOK
<1>5. \A u \in Threads : ThreadOK(u)
  BY DEF Init, ThreadOK
<1>6. \A c \in Channels : WaitersOK(c)
  BY DEF Init, WaitersOK
<1>7. CountsExact
  <2> SUFFICES ASSUME NEW c \in Channels
               PROVE  /\ rc[c] = HeldSum(c) + QueuedSum(c)
                      /\ c \in live <=> rc[c] > 0
    BY DEF CountsExact, HeldSum, QueuedSum
  <2> DEFINE f == [u \in Threads |-> HasRefs(u, c)]
             g == [d \in Channels |-> QueueRefs(d, c)]
             G == {u \in Threads : c \in Given[u]}
  <2>1. IsFiniteSet(Threads) /\ IsFiniteSet(Channels) /\ c # NoValue
    BY ChannelAssumption
  <2>2. ASSUME NEW u \in Threads PROVE f[u] = IF c \in Given[u] THEN 1 ELSE 0
    <3>1. holds[u][c] = (IF c \in Given[u] THEN 1 ELSE 0) /\ todo[u] = <<>> /\ item[u] = NoValue
      BY DEF Init
    <3> QED
      BY <2>1, <3>1, OccurrencesNone DEF HasRefs
  <2>3. ASSUME NEW d \in Channels PROVE g[d] = 0
    <3>1. Queue(d) \in Seq(Values) /\ Len(Queue(d)) = 0
      BY <1>3, <1>4, QueueFact DEF Count
    <3>2. Queue(d) = <<>>
      BY <3>1, EmptySeq
    <3> QED
      BY <3>2, OccurrencesNone DEF QueueRefs
  <2>4. HeldSum(c) = SumOf(f) /\ QueuedSum(c) = SumOf(g)
    BY DEF HeldSum, QueuedSum
  <2>5. f \in [Threads -> Nat] /\ \A u \in Threads : f[u] \in {0, 1}
    BY <2>2
  <2>6. g \in [Channels -> Nat] /\ \A d \in Channels : g[d] \in {0, 1}
    BY <2>3
  <2>7. {u \in Threads : f[u] = 1} = G /\ {d \in Channels : g[d] = 1} = {}
    BY <2>2, <2>3
  <2>8. c \in live <=> G # {}
    <3>1. live = UNION Range(Given) /\ DOMAIN Given = Threads
      BY ChannelAssumption DEF Init
    <3> QED
      BY <3>1 DEF Range
  <2>9. rc[c] = Cardinality(G) /\ IsFiniteSet(G) /\ Cardinality(G) \in Nat
    BY <1>2, <2>1, FS_Subset DEF Init
  <2> HIDE DEF f, g, G
  <2>10. SumOf(f) = Cardinality(G)
    BY <2>1, <2>5, <2>7, SumOfOnes
  <2>11. SumOf(g) = 0
    BY <2>1, <2>6, <2>7, SumOfOnes, FS_EmptySet
  <2>12. G = {} <=> Cardinality(G) = 0
    BY <2>9, FS_EmptySet
  <2> QED
    BY <2>4, <2>8, <2>9, <2>10, <2>11, <2>12
<1>8. NoLostWakeup
  BY DEF Init, NoLostWakeup
<1> QED
  BY <1>4, <1>5, <1>6, <1>7, <1>8 DEF IInv

-----------------------------------------------------------------------------
(* The steps of a thread: types.                                            *)

Does(t) == Step(t) \/ Call(t) \/ Spurious(t) \/ Timeout(t)

\* What is in the queue behind the head is a value, and one that is released is counted.
LEMMA ReleaseFact ==
  ASSUME IInv, NEW t \in Threads, ReleaseOne(t), Head(todo[t]) \in Channels
  PROVE  rc[Head(todo[t])] \in Nat /\ rc[Head(todo[t])] > 0 /\ Head(todo[t]) \in live
<1> DEFINE c == Head(todo[t])
<1>1. todo[t] \in Seq(Values) /\ todo[t] # <<>> /\ holds[t][c] \in Nat /\ c \in Channels
  BY DEF IInv, TypeOK, ReleaseOne
<1> HIDE DEF c
<1>2. Occurrences(todo[t], c) = 1 + Occurrences(Tail(todo[t]), c) /\ Occurrences(Tail(todo[t]), c) \in Nat
  <2>1. Tail(todo[t]) \in Seq(Values)
    BY <1>1, HeadTailProperties
  <2> QED
    BY <1>1, <2>1, OccurrencesTail, OccurrencesType DEF c
<1>3. HasRefs(t, c) > 0
  BY <1>1, <1>2 DEF HasRefs
<1>4. rc[c] \in Nat /\ rc[c] > 0 /\ c \in live
  BY <1>1, <1>3, ReferredAlive
<1> QED
  BY <1>4 DEF c

\* Every variable keeps its type.
LEMMA TypesKeep ==
  ASSUME IInv, NEW t \in Threads, Does(t)
  PROVE  TypeOK'
<1>1. TypeOK /\ ThreadOK(t)
  BY DEF IInv
<1>2. chan[t] \in Channels /\ item[t] \in Values \cup {NoValue}
  BY <1>1 DEF TypeOK
<1>3. ASSUME NEW c \in Used, NEW x \in Values, SendBegin(t, c, x) PROVE TypeOK'
  <2>1. c \in Channels /\ sends' \in 0..MaxSends
    BY <1>1, <1>3, ChannelAssumption DEF TypeOK, SendBegin
  <2>2. rc' \in [Channels -> Nat]
    BY <1>1, <1>3, SMTT(30) DEF TypeOK, SendBegin, Shared
  <2> QED
    BY <1>1, <1>3, <2>1, <2>2 DEF TypeOK, SendBegin, Goto, Locations, cvs
<1>4. CASE SendWait(t)
  BY <1>1, <1>2, <1>4 DEF TypeOK, SendWait, Goto, Locations, cell
<1>5. CASE SendPush(t)
  <2>1. item[t] \in Values
    BY <1>1, <1>2, <1>5 DEF ThreadOK, SendPush
  <2>2. buf' = [buf EXCEPT ![chan[t]] = Append(@, item[t])] /\ head' = head
    BY <1>5 DEF SendPush
  <2>3. /\ buf'[chan[t]] \in Seq(Values) /\ head'[chan[t]] \in 0..Len(buf'[chan[t]])
        /\ \A d \in Channels : d # chan[t] => buf'[d] = buf[d]
    BY <1>1, <1>2, <2>1, <2>2, PushFact DEF TypeOK
  <2>4. buf' \in [Channels -> Seq(Values)] /\ \A d \in Channels : head'[d] <= Len(buf'[d])
    BY <1>1, <1>2, <2>2, <2>3 DEF TypeOK
  <2> QED
    BY <1>1, <1>5, <2>4 DEF TypeOK, SendPush, Goto, Locations, cell, cvs
<1>6. CASE SendNotify(t)
  BY <1>1, <1>2, <1>6 DEF TypeOK, SendNotify, NotifyOne, Locations, cell
<1>7. ASSUME NEW c \in Used, NEW l \in {"recv", "timedrecv", "poll"}, ReceiveBegin(t, c, l) PROVE TypeOK'
  <2>1. c \in Channels
    BY ChannelAssumption
  <2> QED
    BY <1>1, <1>7, <2>1 DEF TypeOK, ReceiveBegin, Goto, Locations, cell, cvs
<1>8. CASE ReceiveWait(t)
  BY <1>1, <1>2, <1>8 DEF TypeOK, ReceiveWait, Goto, Locations, cell
<1>9. CASE PollEmpty(t)
  BY <1>1, <1>9 DEF TypeOK, PollEmpty, Goto, Locations, cell, cvs
<1>10. CASE ReceivePop(t)
  <2> DEFINE c == chan[t]
             v == buf[c][head[c] + 1]
             s == Compact(buf[c], head[c] + 1)
  <2>1. /\ c \in Channels /\ Count(c) > 0
        /\ buf' = [buf EXCEPT ![c] = s[1]] /\ head' = [head EXCEPT ![c] = s[2]]
        /\ taken' = [taken EXCEPT ![c] = Append(@, v)]
        /\ holds' = IF v \in Channels THEN [holds EXCEPT ![t][v] = @ + 1] ELSE holds
        /\ pc' = [pc EXCEPT ![t] = IF Capacity[c] > 0 THEN "got" ELSE "out"]
        /\ UNCHANGED <<live, rc, chan, item, todo, cvs, sends>>
    BY <1>2, <1>10 DEF ReceivePop, Goto
  <2> HIDE DEF s
  <2>2. s = Compact(buf[c], head[c] + 1)
    BY DEF s
  <2> HIDE DEF c
  <2>3. /\ buf'[c] \in Seq(Values) /\ head'[c] \in 0..Len(buf'[c]) /\ v \in Values
    BY <1>1, <2>1, <2>2, PopFact
  <2> HIDE DEF v
  <2>4. /\ buf' \in [Channels -> Seq(Values)] /\ head' \in [Channels -> Nat]
        /\ \A d \in Channels : head'[d] <= Len(buf'[d])
    <3>1. head'[c] \in Nat /\ head'[c] <= Len(buf'[c])
      <4>1. Len(buf'[c]) \in Nat
        BY <2>3, LenProperties
      <4> QED
        BY <2>3, <4>1
    <3> QED
      BY <1>1, <2>1, <2>3, <3>1 DEF TypeOK
  <2>5. taken' \in [Channels -> Seq(Values)]
    <3>1. taken[c] \in Seq(Values) /\ taken \in [Channels -> Seq(Values)]
      BY <1>1, <2>1 DEF TypeOK
    <3>2. Append(taken[c], v) \in Seq(Values)
      BY <2>3, <3>1, AppendProperties
    <3> QED
      BY <2>1, <3>1, <3>2
  <2>6. holds' \in [Threads -> [Channels -> Nat]]
    <3>1. holds \in [Threads -> [Channels -> Nat]]
      BY <1>1 DEF TypeOK
    <3>2. CASE v \in Channels
      <4>1. [holds[t] EXCEPT ![v] = @ + 1] \in [Channels -> Nat]
        BY <3>1, <3>2
      <4>2. holds' = [holds EXCEPT ![t] = [holds[t] EXCEPT ![v] = @ + 1]]
        BY <2>1, <3>1, <3>2
      <4> QED
        BY <3>1, <4>1, <4>2
    <3> QED
      BY <2>1, <3>1, <3>2
  <2>7. pc' \in [Threads -> Locations]
    BY <1>1, <2>1 DEF TypeOK, Locations
  <2> QED
    BY <1>1, <2>1, <2>4, <2>5, <2>6, <2>7 DEF TypeOK, cvs
<1>11. CASE ReceiveNotify(t)
  BY <1>1, <1>2, <1>11 DEF TypeOK, ReceiveNotify, NotifyOne, Locations, cell
<1>12. CASE Spurious(t)
  BY <1>1, <1>2, <1>12 DEF TypeOK, Spurious, Goto, Locations, cell
<1>13. CASE Timeout(t)
  BY <1>1, <1>2, <1>13 DEF TypeOK, Timeout, Goto, Locations, cell
<1>14. ASSUME NEW c \in Channels, Drop(t, c) PROVE TypeOK'
  <2>1. <<c>> \in Seq(Values) /\ holds[t][c] - 1 \in Nat
    BY <1>1, <1>14 DEF TypeOK, Drop, Values
  <2> QED
    BY <1>1, <1>14, <2>1 DEF TypeOK, Drop, Goto, Locations, cvs
<1>15. CASE ReleaseOne(t)
  <2> DEFINE c == Head(todo[t])
  <2>1. todo[t] \in Seq(Values) /\ todo[t] # <<>>
    BY <1>1, <1>15 DEF TypeOK, ReleaseOne
  <2>2. c \in Values /\ Tail(todo[t]) \in Seq(Values)
    BY <2>1, HeadTailProperties
  <2>3. rc' \in [Channels -> Nat]
    <3>1. CASE c \in Channels
      <4>1. rc[c] \in Nat /\ rc[c] > 0 /\ rc' = [rc EXCEPT ![c] = @ - 1]
        BY <1>15, <3>1, ReleaseFact DEF ReleaseOne
      <4> QED
        BY <1>1, <3>1, <4>1 DEF TypeOK
    <3>2. CASE c \notin Channels
      BY <1>1, <1>15, <3>2 DEF TypeOK, ReleaseOne
    <3> QED
      BY <3>1, <3>2
  <2>4. todo' \in [Threads -> Seq(Values)] /\ live' \subseteq Channels
    <3>1. CASE c \in Channels /\ rc[c] = 1
      <4>1. Queued(c) \o Tail(todo[t]) \in Seq(Values)
        BY <1>1, <2>2, <3>1, QueueFact, ConcatProperties DEF Queued
      <4>2. todo' = [todo EXCEPT ![t] = Queued(c) \o Tail(todo[t])] /\ live' = live \ {c}
        BY <1>15, <3>1 DEF ReleaseOne
      <4> QED
        BY <1>1, <4>1, <4>2 DEF TypeOK
    <3>2. CASE ~(c \in Channels /\ rc[c] = 1)
      <4>1. todo' = [todo EXCEPT ![t] = Tail(todo[t])] /\ live' = live
        BY <1>15, <3>2 DEF ReleaseOne
      <4> QED
        BY <1>1, <2>2, <4>1 DEF TypeOK
    <3> QED
      BY <3>1, <3>2
  <2> QED
    BY <1>1, <1>15, <2>3, <2>4 DEF TypeOK, ReleaseOne, call, cvs
<1>16. CASE Released(t)
  BY <1>1, <1>16 DEF TypeOK, Released, Goto, Locations, cell, cvs
<1> QED
  BY <1>3, <1>4, <1>5, <1>6, <1>7, <1>8, <1>9, <1>10, <1>11, <1>12, <1>13, <1>14, <1>15, <1>16 DEF Does, Step, Call

-----------------------------------------------------------------------------
(* The steps of a thread: where each is.                                    *)

\* A step of thread t leaves where the others are, but for those it wakes.
LEMMA OthersStay ==
  ASSUME IInv, NEW t \in Threads, Does(t), NEW u \in Threads, u # t
  PROVE  /\ chan'[u] = chan[u] /\ item'[u] = item[u] /\ todo'[u] = todo[u] /\ holds'[u] = holds[u]
         /\ \/ pc'[u] = pc[u]
            \/ pc[u] = "empty" /\ pc'[u] = "recv"
            \/ pc[u] = "timed" /\ pc'[u] = "timedrecv"
            \/ pc[u] = "full" /\ pc'[u] = "send"
<1>1. TypeOK /\ \A c \in Channels : WaitersOK(c)
  BY DEF IInv
<1>2. ASSUME NEW c \in Used, NEW x \in Values, SendBegin(t, c, x)
      PROVE  /\ chan'[u] = chan[u] /\ item'[u] = item[u] /\ todo'[u] = todo[u] /\ holds'[u] = holds[u]
             /\ pc'[u] = pc[u]
  BY <1>1, <1>2 DEF TypeOK, SendBegin, Goto
<1>3. ASSUME NEW c \in Used, NEW l \in {"recv", "timedrecv", "poll"}, ReceiveBegin(t, c, l)
      PROVE  /\ chan'[u] = chan[u] /\ item'[u] = item[u] /\ todo'[u] = todo[u] /\ holds'[u] = holds[u]
             /\ pc'[u] = pc[u]
  BY <1>1, <1>3 DEF TypeOK, ReceiveBegin, Goto, cell
<1>4. ASSUME NEW c \in Channels, Drop(t, c)
      PROVE  /\ chan'[u] = chan[u] /\ item'[u] = item[u] /\ todo'[u] = todo[u] /\ holds'[u] = holds[u]
             /\ pc'[u] = pc[u]
  BY <1>1, <1>4 DEF TypeOK, Drop, Goto
<1>5. CASE SendNotify(t)
  <2>1. chan[t] \in Channels
    BY <1>1 DEF TypeOK
  <2>2. \A w \in notEmpty[chan[t]] : pc[w] \in {"empty", "timed"}
    BY <1>1, <2>1 DEF WaitersOK
  <2>3. PICK woken \in NotifyOne(notEmpty[chan[t]]) :
            pc' = [w \in Threads |->
                      CASE w = t -> "out"
                        [] w \in woken -> IF pc[w] = "timed" THEN "timedrecv" ELSE "recv"
                        [] OTHER -> pc[w]]
    BY <1>5 DEF SendNotify
  <2>4. woken \subseteq notEmpty[chan[t]]
    BY DEF NotifyOne
  <2>5. pc'[u] = IF u \in woken THEN (IF pc[u] = "timed" THEN "timedrecv" ELSE "recv") ELSE pc[u]
    BY <2>3
  <2> QED
    BY <1>5, <2>2, <2>4, <2>5 DEF SendNotify, cell
<1>6. CASE ReceiveNotify(t)
  <2>1. chan[t] \in Channels
    BY <1>1 DEF TypeOK
  <2>2. \A w \in notFull[chan[t]] : pc[w] = "full"
    BY <1>1, <2>1 DEF WaitersOK
  <2>3. PICK woken \in NotifyOne(notFull[chan[t]]) :
            pc' = [w \in Threads |-> CASE w = t -> "out" [] w \in woken -> "send" [] OTHER -> pc[w]]
    BY <1>6 DEF ReceiveNotify
  <2>4. woken \subseteq notFull[chan[t]]
    BY DEF NotifyOne
  <2>5. pc'[u] = IF u \in woken THEN "send" ELSE pc[u]
    BY <2>3
  <2> QED
    BY <1>6, <2>2, <2>4, <2>5 DEF ReceiveNotify, cell
<1>7. CASE SendWait(t) \/ ReceiveWait(t) \/ PollEmpty(t)
  BY <1>1, <1>7 DEF TypeOK, SendWait, ReceiveWait, PollEmpty, Goto, cell
<1>8. CASE SendPush(t)
  BY <1>1, <1>8 DEF TypeOK, SendPush, Goto, cell
<1>9. CASE ReceivePop(t)
  BY <1>1, <1>9 DEF TypeOK, ReceivePop, Goto
<1>10. CASE Spurious(t) \/ Timeout(t)
  BY <1>1, <1>10 DEF TypeOK, Spurious, Timeout, Goto, cell
<1>11. CASE ReleaseOne(t)
  BY <1>1, <1>11 DEF TypeOK, ReleaseOne, call
<1>12. CASE Released(t)
  BY <1>1, <1>12 DEF TypeOK, Released, Goto, cell
<1> QED
  BY <1>2, <1>3, <1>4, <1>5, <1>6, <1>7, <1>8, <1>9, <1>10, <1>11, <1>12 DEF Does, Step, Call

\* Every thread keeps hold of the channel it works on, and of its payload.
LEMMA ThreadsKeep ==
  ASSUME IInv, NEW t \in Threads, Does(t), NEW u \in Threads
  PROVE  ThreadOK(u)'
<1>1. TypeOK /\ ThreadOK(u) /\ ThreadOK(t) /\ WaitersOK(chan[t])
  BY DEF IInv, TypeOK
<1>2. CASE u # t
  <2>1. /\ chan'[u] = chan[u] /\ item'[u] = item[u] /\ holds'[u] = holds[u] /\ todo'[u] = todo[u]
        /\ \/ pc'[u] = pc[u]
           \/ pc[u] = "empty" /\ pc'[u] = "recv"
           \/ pc[u] = "timed" /\ pc'[u] = "timedrecv"
           \/ pc[u] = "full" /\ pc'[u] = "send"
    BY <1>2, OthersStay
  <2> QED
    BY <1>1, <2>1 DEF ThreadOK
<1>3. CASE u = t
  <2>1. ASSUME NEW c \in Used, NEW x \in Values, SendBegin(t, c, x) PROVE ThreadOK(t)'
    <3>1. x # NoValue
      BY ChannelAssumption DEF Values
    <3> QED
      BY <1>1, <2>1, <3>1 DEF TypeOK, SendBegin, Goto, ThreadOK
  <2>2. ASSUME NEW c \in Used, NEW l \in {"recv", "timedrecv", "poll"}, ReceiveBegin(t, c, l) PROVE ThreadOK(t)'
    BY <1>1, <2>2 DEF TypeOK, ReceiveBegin, Goto, cell, ThreadOK
  <2>3. ASSUME NEW c \in Channels, Drop(t, c) PROVE ThreadOK(t)'
    BY <1>1, <2>3 DEF TypeOK, Drop, Goto, ThreadOK
  <2>4. CASE SendWait(t)
    BY <1>1, <2>4 DEF TypeOK, SendWait, Goto, cell, ThreadOK
  <2>5. CASE SendPush(t)
    BY <1>1, <2>5 DEF TypeOK, SendPush, Goto, cell, ThreadOK
  <2>6. CASE SendNotify(t)
    <3>1. PICK woken \in NotifyOne(notEmpty[chan[t]]) :
              pc' = [w \in Threads |->
                        CASE w = t -> "out"
                          [] w \in woken -> IF pc[w] = "timed" THEN "timedrecv" ELSE "recv"
                          [] OTHER -> pc[w]]
      BY <2>6 DEF SendNotify
    <3>2. item' = item /\ todo' = todo /\ pc[t] = "sent" /\ t \notin woken
      BY <1>1, <2>6 DEF SendNotify, NotifyOne, WaitersOK
    <3>3. pc'[t] = "out"
      BY <3>1, <3>2
    <3> QED
      BY <1>1, <1>3, <3>2, <3>3 DEF ThreadOK
  <2>7. CASE ReceiveWait(t)
    BY <1>1, <2>7 DEF TypeOK, ReceiveWait, Receiving, Goto, cell, ThreadOK
  <2>8. CASE PollEmpty(t)
    BY <1>1, <2>8 DEF TypeOK, PollEmpty, Goto, cell, ThreadOK
  <2>9. CASE ReceivePop(t)
    <3> DEFINE v == buf[chan[t]][head[chan[t]] + 1]
    <3>1. /\ pc[t] \in {"recv", "timedrecv", "poll"} /\ pc'[t] \in {"got", "out"} /\ UNCHANGED <<chan, item, todo>>
          /\ holds' = IF v \in Channels THEN [holds EXCEPT ![t][v] = @ + 1] ELSE holds
      BY <1>1, <2>9 DEF TypeOK, ReceivePop, Receiving, Goto
    <3> HIDE DEF v
    <3>2. holds[t][chan[t]] \in Nat /\ holds[t][chan[t]] > 0 /\ chan[t] \in Channels /\ item[t] = NoValue /\ todo[t] = <<>>
      BY <1>1, <3>1 DEF TypeOK, ThreadOK
    <3>3. holds'[t][chan[t]] > 0
      BY <1>1, <3>1, <3>2 DEF TypeOK
    <3> QED
      BY <1>3, <3>1, <3>2, <3>3 DEF ThreadOK
  <2>10. CASE ReceiveNotify(t)
    <3>1. PICK woken \in NotifyOne(notFull[chan[t]]) :
              pc' = [w \in Threads |-> CASE w = t -> "out" [] w \in woken -> "send" [] OTHER -> pc[w]]
      BY <2>10 DEF ReceiveNotify
    <3>2. item' = item /\ todo' = todo /\ pc[t] = "got" /\ t \notin woken
      BY <1>1, <2>10 DEF ReceiveNotify, NotifyOne, WaitersOK
    <3>3. pc'[t] = "out"
      BY <3>1, <3>2
    <3> QED
      BY <1>1, <1>3, <3>2, <3>3 DEF ThreadOK
  <2>11. CASE Spurious(t)
    BY <1>1, <2>11 DEF TypeOK, Spurious, Goto, cell, ThreadOK
  <2>12. CASE Timeout(t)
    BY <1>1, <2>12 DEF TypeOK, Timeout, Goto, cell, ThreadOK
  <2>13. CASE ReleaseOne(t)
    <3>1. pc[t] = "release" /\ UNCHANGED <<pc, chan, item, holds>>
      BY <2>13 DEF ReleaseOne, call
    <3> QED
      BY <1>1, <1>3, <3>1 DEF ThreadOK
  <2>14. CASE Released(t)
    BY <1>1, <2>14 DEF TypeOK, Released, Goto, cell, ThreadOK
  <2> QED
    BY <1>3, <2>1, <2>2, <2>3, <2>4, <2>5, <2>6, <2>7, <2>8, <2>9, <2>10, <2>11, <2>12, <2>13, <2>14 DEF Does, Step, Call
<1> QED
  BY <1>2, <1>3

\* A thread that waits on a condition variable is asleep there.
LEMMA WaitersKeep ==
  ASSUME IInv, NEW t \in Threads, Does(t), NEW c \in Channels
  PROVE  WaitersOK(c)'
<1>1. TypeOK /\ WaitersOK(c) /\ chan[t] \in Channels /\ WaitersOK(chan[t])
  BY DEF IInv, TypeOK
<1>2. notEmpty[c] \subseteq Threads /\ notFull[c] \subseteq Threads
  BY <1>1 DEF TypeOK
<1>3. ASSUME pc[t] \notin {"empty", "timed", "full"},
             \A u \in Threads : u # t => pc'[u] = pc[u] /\ chan'[u] = chan[u],
             notEmpty'[c] = notEmpty[c], notFull'[c] = notFull[c]
      PROVE  WaitersOK(c)'
  BY <1>1, <1>2, <1>3 DEF WaitersOK
<1>4. ASSUME NEW d \in Used, NEW x \in Values, SendBegin(t, d, x) PROVE WaitersOK(c)'
  BY <1>1, <1>3, <1>4 DEF TypeOK, SendBegin, Goto, cvs
<1>5. ASSUME NEW d \in Used, NEW l \in {"recv", "timedrecv", "poll"}, ReceiveBegin(t, d, l) PROVE WaitersOK(c)'
  BY <1>1, <1>3, <1>5 DEF TypeOK, ReceiveBegin, Goto, cvs
<1>6. ASSUME NEW d \in Channels, Drop(t, d) PROVE WaitersOK(c)'
  BY <1>1, <1>3, <1>6 DEF TypeOK, Drop, Goto, cvs
<1>7. CASE SendWait(t)
  BY <1>1, <1>2, <1>7, ZenonT(30) DEF TypeOK, SendWait, Goto, WaitersOK
<1>8. CASE SendPush(t)
  BY <1>1, <1>3, <1>8 DEF TypeOK, SendPush, Goto, cvs
<1>9. CASE SendNotify(t)
  <2>1. PICK woken \in NotifyOne(notEmpty[chan[t]]) :
            /\ notEmpty' = [notEmpty EXCEPT ![chan[t]] = @ \ woken]
            /\ pc' = [w \in Threads |->
                        CASE w = t -> "out"
                          [] w \in woken -> IF pc[w] = "timed" THEN "timedrecv" ELSE "recv"
                          [] OTHER -> pc[w]]
    BY <1>9 DEF SendNotify
  <2>2. pc[t] = "sent" /\ UNCHANGED <<chan, notFull>> /\ woken \subseteq notEmpty[chan[t]]
    BY <1>9 DEF SendNotify, NotifyOne
  <2>3. \A w \in Threads : w # t /\ w \notin woken => pc'[w] = pc[w]
    BY <2>1
  <2>4. ASSUME NEW w \in notEmpty'[c] PROVE w \in notEmpty[c] /\ w # t /\ w \notin woken
    BY <1>1, <2>1, <2>2, <2>4 DEF TypeOK, WaitersOK
  <2>5. ASSUME NEW w \in notFull[c] PROVE w # t /\ w \notin woken
    BY <1>1, <2>2 DEF WaitersOK
  <2> QED
    BY <1>1, <1>2, <2>2, <2>3, <2>4, <2>5 DEF WaitersOK
<1>10. CASE ReceiveWait(t)
  BY <1>1, <1>2, <1>10, ZenonT(30) DEF TypeOK, ReceiveWait, Receiving, Goto, WaitersOK
<1>11. CASE PollEmpty(t)
  BY <1>1, <1>3, <1>11 DEF TypeOK, PollEmpty, Goto, cvs
<1>12. CASE ReceivePop(t)
  BY <1>1, <1>3, <1>12 DEF TypeOK, ReceivePop, Receiving, Goto, cvs
<1>13. CASE ReceiveNotify(t)
  <2>1. PICK woken \in NotifyOne(notFull[chan[t]]) :
            /\ notFull' = [notFull EXCEPT ![chan[t]] = @ \ woken]
            /\ pc' = [w \in Threads |-> CASE w = t -> "out" [] w \in woken -> "send" [] OTHER -> pc[w]]
    BY <1>13 DEF ReceiveNotify
  <2>2. pc[t] = "got" /\ UNCHANGED <<chan, notEmpty>> /\ woken \subseteq notFull[chan[t]]
    BY <1>13 DEF ReceiveNotify, NotifyOne
  <2>3. \A w \in Threads : w # t /\ w \notin woken => pc'[w] = pc[w]
    BY <2>1
  <2>4. ASSUME NEW w \in notFull'[c] PROVE w \in notFull[c] /\ w # t /\ w \notin woken
    BY <1>1, <2>1, <2>2, <2>4 DEF TypeOK, WaitersOK
  <2>5. ASSUME NEW w \in notEmpty[c] PROVE w # t /\ w \notin woken
    BY <1>1, <2>2 DEF WaitersOK
  <2> QED
    BY <1>1, <1>2, <2>2, <2>3, <2>4, <2>5 DEF WaitersOK
<1>14. CASE Spurious(t)
  <2>1. /\ pc[t] \in {"empty", "timed", "full"} /\ UNCHANGED chan
        /\ \A u \in Threads : u # t => pc'[u] = pc[u]
        /\ notEmpty' = [notEmpty EXCEPT ![chan[t]] = @ \ {t}]
        /\ notFull' = [notFull EXCEPT ![chan[t]] = @ \ {t}]
    BY <1>1, <1>14 DEF TypeOK, Spurious, Goto
  <2>2. ASSUME NEW w \in notEmpty'[c] PROVE w \in notEmpty[c] /\ w # t
    BY <1>1, <2>1, <2>2 DEF TypeOK, WaitersOK
  <2>3. ASSUME NEW w \in notFull'[c] PROVE w \in notFull[c] /\ w # t
    BY <1>1, <2>1, <2>3 DEF TypeOK, WaitersOK
  <2> QED
    BY <1>1, <1>2, <2>1, <2>2, <2>3 DEF WaitersOK
<1>15. CASE Timeout(t)
  <2>1. /\ pc[t] = "timed" /\ UNCHANGED <<chan, notFull>>
        /\ \A u \in Threads : u # t => pc'[u] = pc[u]
        /\ notEmpty' = [notEmpty EXCEPT ![chan[t]] = @ \ {t}]
    BY <1>1, <1>15 DEF TypeOK, Timeout, Goto
  <2>2. ASSUME NEW w \in notEmpty'[c] PROVE w \in notEmpty[c] /\ w # t
    BY <1>1, <2>1, <2>2 DEF TypeOK, WaitersOK
  <2>3. ASSUME NEW w \in notFull[c] PROVE w # t
    BY <1>1, <2>1 DEF WaitersOK
  <2> QED
    BY <1>1, <1>2, <2>1, <2>2, <2>3 DEF WaitersOK
<1>16. CASE ReleaseOne(t)
  BY <1>1, <1>16 DEF ReleaseOne, call, cvs, WaitersOK
<1>17. CASE Released(t)
  BY <1>1, <1>3, <1>17 DEF TypeOK, Released, Goto, cvs
<1> QED
  BY <1>4, <1>5, <1>6, <1>7, <1>8, <1>9, <1>10, <1>11, <1>12, <1>13, <1>14, <1>15, <1>16, <1>17 DEF Does, Step, Call

-----------------------------------------------------------------------------
(* The steps of a thread: counts.                                           *)

\* A step that changes no reference and no count keeps them exact.
LEMMA NothingCounted ==
  ASSUME IInv, UNCHANGED <<buf, head, live, rc, holds, todo, item>>
  PROVE  CountsExact'
<1>1. \A c : /\ \A u \in Threads : HasRefs(u, c)' = HasRefs(u, c)
             /\ \A d \in Channels : QueueRefs(d, c)' = QueueRefs(d, c)
  BY DEF HasRefs, QueueRefs, Queue
<1> QED
  BY <1>1 DEF IInv, CountsExact

\* A step of thread t that changes neither a queue nor what is alive.
LEMMA NoQueueCounted ==
  ASSUME IInv, NEW t \in Threads, Does(t), UNCHANGED <<buf, head, live>>, NEW c \in Channels,
         HasRefs(t, c)' \in Nat, rc'[c] = rc[c] - HasRefs(t, c) + HasRefs(t, c)',
         c \in live <=> rc'[c] > 0
  PROVE  rc'[c] = HeldSum(c)' + QueuedSum(c)' /\ (c \in live' <=> rc'[c] > 0)
<1>1. TypeOK
  BY DEF IInv
<1>2. \A d \in Channels : QueueRefs(d, c)' = QueueRefs(d, c)
  BY DEF QueueRefs, Queue
<1>3. \A u \in Threads : u # t => HasRefs(u, c)' = HasRefs(u, c)
  BY OthersStay DEF HasRefs
<1>4. QueueRefs(c, c) \in Nat /\ QueueRefs(c, c)' \in Nat /\ HasRefs(t, c) \in Nat /\ rc[c] \in Nat
  BY <1>1, <1>2, RefsType DEF TypeOK
<1>5. rc'[c] = rc[c] - HasRefs(t, c) - QueueRefs(c, c) + HasRefs(t, c)' + QueueRefs(c, c)'
  BY <1>2, <1>4
<1>6. rc'[c] = HeldSum(c)' + QueuedSum(c)'
  BY <1>2, <1>3, <1>4, <1>5, CountFollows
<1> QED
  BY <1>6

\* The count of every channel follows its references.
LEMMA CountsKeep ==
  ASSUME IInv, TypeOK', NEW t \in Threads, Does(t)
  PROVE  CountsExact'
<1>1. TypeOK /\ ThreadOK(t) /\ chan[t] \in Channels /\ holds \in [Threads -> [Channels -> Nat]]
  BY DEF IInv, TypeOK
<1>2. \A c \in Channels : rc[c] \in Nat /\ HasRefs(t, c) \in Nat /\ (c \in live <=> rc[c] > 0)
  BY <1>1, RefsType DEF IInv, TypeOK, CountsExact
<1>n. ASSUME NEW c \in Channels PROVE holds[t][c] \in Nat /\ Occurrences(todo[t], c) \in Nat
  <2>1. todo[t] \in Seq(Values)
    BY <1>1 DEF TypeOK
  <2> QED
    BY <1>1, <2>1, OccurrencesType
<1>3. ASSUME NEW c \in Channels, rc'[c] = HeldSum(c)' + QueuedSum(c)', c \in live' <=> rc'[c] > 0
      PROVE  /\ rc'[c] = SumOf([u \in Threads |-> HasRefs(u, c)'])
                         + SumOf([d \in Channels |-> QueueRefs(d, c)'])
             /\ c \in live' <=> rc'[c] > 0
  BY <1>3 DEF HeldSum, QueuedSum
<1>4. SUFFICES ASSUME NEW c \in Channels
               PROVE  rc'[c] = HeldSum(c)' + QueuedSum(c)' /\ (c \in live' <=> rc'[c] > 0)
  BY <1>3 DEF CountsExact
<1>5. CASE UNCHANGED <<buf, head, live, rc, holds, todo, item>>
  <2>1. CountsExact'
    BY <1>5, NothingCounted
  <2> QED
    BY <2>1 DEF CountsExact, HeldSum, QueuedSum
<1>6. ASSUME NEW d \in Used, NEW x \in Values, SendBegin(t, d, x)
      PROVE  rc'[c] = HeldSum(c)' + QueuedSum(c)' /\ (c \in live' <=> rc'[c] > 0)
  <2>1. /\ pc[t] = "out" /\ item' = [item EXCEPT ![t] = x] /\ rc' = Shared(x)
        /\ UNCHANGED <<buf, head, live, holds, todo>>
        /\ x \in Channels => holds[t][x] > 0
    BY <1>6 DEF SendBegin
  <2>2. item[t] = NoValue /\ item'[t] = x /\ c # NoValue
    BY <1>1, <2>1, ChannelAssumption DEF ThreadOK, TypeOK
  <2>3. HasRefs(t, c)' = HasRefs(t, c) + IF x = c THEN 1 ELSE 0
    <3>1. HasRefs(t, c) = holds[t][c] + Occurrences(todo[t], c) + 0
      BY <2>2 DEF HasRefs
    <3>2. HasRefs(t, c)' = holds[t][c] + Occurrences(todo[t], c) + IF x = c THEN 1 ELSE 0
      BY <2>1, <2>2 DEF HasRefs
    <3>3. holds[t][c] \in Nat /\ Occurrences(todo[t], c) \in Nat
      BY <1>n
    <3> QED
      BY <3>1, <3>2, <3>3
  <2>4. rc'[c] = rc[c] + IF x = c THEN 1 ELSE 0
    <3>1. rc \in [Channels -> Nat] /\ rc[c] \in Nat
      BY <1>1 DEF TypeOK
    <3>2. CASE x = c
      BY <2>1, <3>1, <3>2 DEF Shared
    <3>3. CASE x # c
      BY <2>1, <3>1, <3>3 DEF Shared
    <3> QED
      BY <3>2, <3>3
  <2>5. x = c => c \in live
    <3>1. holds[t][c] \in Nat /\ Occurrences(todo[t], c) \in Nat
      BY <1>n
    <3>2. x = c => HasRefs(t, c) > 0
      BY <2>1, <3>1 DEF HasRefs
    <3> QED
      BY <3>2, ReferredAlive
  <2>6. HasRefs(t, c)' \in Nat /\ rc'[c] = rc[c] - HasRefs(t, c) + HasRefs(t, c)' /\ (c \in live <=> rc'[c] > 0)
    BY <1>2, <2>3, <2>4, <2>5
  <2> QED
    BY <2>1, <2>6, NoQueueCounted
<1>7. ASSUME NEW d \in Channels, Drop(t, d)
      PROVE  rc'[c] = HeldSum(c)' + QueuedSum(c)' /\ (c \in live' <=> rc'[c] > 0)
  <2>1. /\ pc[t] = "out" /\ holds[t][d] > 0
        /\ holds' = [holds EXCEPT ![t][d] = @ - 1] /\ todo' = [todo EXCEPT ![t] = <<d>>]
        /\ UNCHANGED <<buf, head, live, rc, item>>
    BY <1>7 DEF Drop
  <2>2. todo[t] = <<>>
    BY <1>1, <2>1 DEF ThreadOK
  <2>3. todo'[t] = <<d>> /\ holds'[t][c] = holds[t][c] - (IF d = c THEN 1 ELSE 0)
    <3>1. todo'[t] = <<d>> /\ holds[t][c] \in Nat
      BY <1>1, <1>n, <2>1 DEF TypeOK
    <3>2. CASE d = c
      BY <1>1, <2>1, <3>1, <3>2
    <3>3. CASE d # c
      BY <1>1, <2>1, <3>1, <3>3
    <3> QED
      BY <3>1, <3>2, <3>3
  <2>4. Occurrences(todo[t], c) = 0 /\ Occurrences(todo'[t], c) = IF d = c THEN 1 ELSE 0
    BY <2>2, <2>3, OccurrencesNone, OccurrencesOne
  <2>5. HasRefs(t, c)' = HasRefs(t, c)
    <3>1. holds[t][c] \in Nat
      BY <1>1
    <3> QED
      BY <2>1, <2>3, <2>4, <3>1 DEF HasRefs
  <2>6. HasRefs(t, c)' \in Nat /\ rc'[c] = rc[c] - HasRefs(t, c) + HasRefs(t, c)' /\ (c \in live <=> rc'[c] > 0)
    BY <1>2, <2>1, <2>5
  <2> QED
    BY <2>1, <2>6, NoQueueCounted
<1>8. CASE SendPush(t)
  <2> DEFINE d == chan[t]
             x == item[t]
  <2>1. d \in Channels /\ x \in Values
    BY <1>1, <1>8 DEF ThreadOK, TypeOK, SendPush
  <2>2. /\ buf' = [buf EXCEPT ![d] = Append(@, x)] /\ head' = head
        /\ item' = [item EXCEPT ![t] = NoValue]
        /\ UNCHANGED <<live, rc, holds, todo>> /\ pc[t] = "send"
    BY <1>8 DEF SendPush, cell
  <2>3. item'[t] = NoValue /\ c # NoValue
    BY <1>1, <2>2, ChannelAssumption DEF TypeOK
  <2>4. d \in live
    <3>1. holds[t][d] > 0 /\ holds[t][d] \in Nat /\ Occurrences(todo[t], d) \in Nat
      BY <1>1, <1>n, <2>1, <2>2 DEF ThreadOK
    <3>2. HasRefs(t, d) > 0
      BY <3>1 DEF HasRefs
    <3> QED
      BY <2>1, <3>2, ReferredAlive
  <2> PICK dd \in Channels, xx \in Values : dd = d /\ xx = x
    BY <2>1
  <2>5. Queue(dd)' = Append(Queue(dd), xx) /\ \A e \in Channels : e # dd => Queue(e)' = Queue(e)
    BY <1>1, <2>2, PushFact
  <2>6. QueueRefs(dd, c)' = QueueRefs(dd, c) + IF xx = c THEN 1 ELSE 0
    <3>1. Queue(dd) \in Seq(Values)
      BY <1>1, QueueFact
    <3>2. Occurrences(Queue(dd)', c) = Occurrences(Queue(dd), c) + IF xx = c THEN 1 ELSE 0
      BY <2>5, <3>1, OccurrencesAppend
    <3> QED
      BY <2>2, <2>4, <3>2 DEF QueueRefs
  <2>7. \A e \in Channels : e # dd => QueueRefs(e, c)' = QueueRefs(e, c)
    BY <2>2, <2>5 DEF QueueRefs
  <2>8. HasRefs(t, c)' \in Nat /\ HasRefs(t, c)' = HasRefs(t, c) - IF xx = c THEN 1 ELSE 0
    <3>1. holds[t][c] \in Nat /\ Occurrences(todo[t], c) \in Nat
      BY <1>n
    <3>2. HasRefs(t, c) = holds[t][c] + Occurrences(todo[t], c) + IF xx = c THEN 1 ELSE 0
      BY DEF HasRefs
    <3>3. HasRefs(t, c)' = holds[t][c] + Occurrences(todo[t], c) + 0
      BY <2>2, <2>3 DEF HasRefs
    <3> QED
      BY <3>1, <3>2, <3>3
  <2>9. \A u \in Threads : u # t => HasRefs(u, c)' = HasRefs(u, c)
    BY OthersStay DEF HasRefs
  <2>10. QueueRefs(dd, c) \in Nat
    BY <1>1, RefsType
  <2>11. QueueRefs(dd, c)' \in Nat /\ rc'[c] = rc[c] - HasRefs(t, c) - QueueRefs(dd, c) + HasRefs(t, c)' + QueueRefs(dd, c)'
    <3>1. rc[c] \in Nat /\ HasRefs(t, c) \in Nat /\ rc'[c] = rc[c]
      BY <1>2, <2>2
    <3> QED
      BY ONLY <3>1, <2>6, <2>8, <2>10
  <2>12. rc'[c] = HeldSum(c)' + QueuedSum(c)'
    BY <2>7, <2>8, <2>9, <2>11, CountFollows
  <2> QED
    BY <1>2, <2>2, <2>12
<1>9. CASE ReceivePop(t)
  <2> DEFINE d == chan[t]
             v == buf[d][head[d] + 1]
             s == Compact(buf[d], head[d] + 1)
  <2>1. /\ d \in Channels /\ Count(d) > 0 /\ Receiving(t)
        /\ buf' = [buf EXCEPT ![d] = s[1]] /\ head' = [head EXCEPT ![d] = s[2]]
        /\ holds' = IF v \in Channels THEN [holds EXCEPT ![t][v] = @ + 1] ELSE holds
        /\ UNCHANGED <<live, rc, item, todo>>
    BY <1>1, <1>9 DEF ReceivePop
  <2>2. d \in live
    <3>1. holds[t][d] > 0 /\ holds[t][d] \in Nat /\ Occurrences(todo[t], d) \in Nat
      BY <1>1, <1>n, <2>1 DEF ThreadOK, Receiving
    <3>2. HasRefs(t, d) > 0
      BY <3>1 DEF HasRefs
    <3> QED
      BY <2>1, <3>2, ReferredAlive
  <2> PICK dd \in Channels, ss \in {s} : dd = d
    BY <2>1
  <2>3. ss = Compact(buf[dd], head[dd] + 1) /\ Count(dd) > 0
        /\ buf' = [buf EXCEPT ![dd] = ss[1]] /\ head' = [head EXCEPT ![dd] = ss[2]]
    BY <2>1
  <2>4. /\ Queue(dd) # <<>> /\ Head(Queue(dd)) = v /\ v \in Values
        /\ Queue(dd)' = Tail(Queue(dd)) /\ \A e \in Channels : e # dd => Queue(e)' = Queue(e)
    <3> HIDE DEF s, d
    <3>1. /\ Queue(dd) # <<>> /\ Head(Queue(dd)) = buf[dd][head[dd] + 1] /\ buf[dd][head[dd] + 1] \in Values
          /\ Queue(dd)' = Tail(Queue(dd)) /\ \A e \in Channels : e # dd => Queue(e)' = Queue(e)
      BY <1>1, <2>3, PopFact
    <3> QED
      BY <3>1
  <2> PICK vv \in Values : vv = v
    BY <2>4
  <2>5. holds'[t][c] = holds[t][c] + IF vv = c THEN 1 ELSE 0
    BY <1>1, <2>1
  <2> HIDE DEF d, v, s
  <2>6. Queue(dd) \in Seq(Values) /\ Tail(Queue(dd)) \in Seq(Values)
    <3>1. Queue(dd) \in Seq(Values)
      BY <1>1, QueueFact
    <3> QED
      BY <2>4, <3>1, HeadTailProperties
  <2>7. QueueRefs(dd, c) = QueueRefs(dd, c)' + IF vv = c THEN 1 ELSE 0
    <3>1. Occurrences(Queue(dd), c) = (IF vv = c THEN 1 ELSE 0) + Occurrences(Tail(Queue(dd)), c)
      BY <2>4, <2>6, OccurrencesTail
    <3>2. Occurrences(Tail(Queue(dd)), c) \in Nat
      BY <2>6, OccurrencesType
    <3>3. QueueRefs(dd, c) = Occurrences(Queue(dd), c) /\ QueueRefs(dd, c)' = Occurrences(Tail(Queue(dd)), c)
      BY <2>1, <2>2, <2>4 DEF QueueRefs
    <3> QED
      BY <3>1, <3>2, <3>3
  <2>8. QueueRefs(dd, c)' \in Nat
    <3>1. QueueRefs(dd, c)' = Occurrences(Tail(Queue(dd)), c)
      BY <2>1, <2>2, <2>4 DEF QueueRefs
    <3> QED
      BY <2>6, <3>1, OccurrencesType
  <2>9. \A e \in Channels : e # dd => QueueRefs(e, c)' = QueueRefs(e, c)
    BY <2>1, <2>4 DEF QueueRefs
  <2>10. HasRefs(t, c)' \in Nat /\ HasRefs(t, c)' = HasRefs(t, c) + IF vv = c THEN 1 ELSE 0
    <3>1. holds[t][c] \in Nat /\ Occurrences(todo[t], c) \in Nat
      BY <1>n
    <3>2. HasRefs(t, c)' = holds'[t][c] + Occurrences(todo[t], c) + IF item[t] = c THEN 1 ELSE 0
      BY <2>1 DEF HasRefs
    <3>3. HasRefs(t, c) = holds[t][c] + Occurrences(todo[t], c) + IF item[t] = c THEN 1 ELSE 0
      BY DEF HasRefs
    <3> QED
      BY <2>5, <3>1, <3>2, <3>3
  <2>11. \A u \in Threads : u # t => HasRefs(u, c)' = HasRefs(u, c)
    BY OthersStay DEF HasRefs
  <2>12. rc'[c] = rc[c] - HasRefs(t, c) - QueueRefs(dd, c) + HasRefs(t, c)' + QueueRefs(dd, c)'
    BY <1>2, <2>1, <2>7, <2>8, <2>10
  <2>13. rc'[c] = HeldSum(c)' + QueuedSum(c)'
    BY <2>8, <2>9, <2>10, <2>11, <2>12, CountFollows
  <2> QED
    BY <1>2, <2>1, <2>13
<1>10. CASE ReleaseOne(t)
  <2> DEFINE x == Head(todo[t])
             rest == Tail(todo[t])
  <2>1. todo[t] \in Seq(Values) /\ todo[t] # <<>> /\ x \in Values /\ rest \in Seq(Values)
    <3>1. todo[t] \in Seq(Values) /\ todo[t] # <<>>
      BY <1>1, <1>10 DEF TypeOK, ReleaseOne
    <3> QED
      BY <3>1, HeadTailProperties
  <2>2. x \in Channels => rc[x] \in Nat /\ rc[x] > 0 /\ x \in live
    BY <1>10, ReleaseFact
  <2>3. /\ rc' = IF x \in Channels THEN [rc EXCEPT ![x] = @ - 1] ELSE rc
        /\ UNCHANGED <<buf, head, holds, item>>
    BY <1>10 DEF ReleaseOne, call
  <2>4. rc'[c] = rc[c] - IF x = c THEN 1 ELSE 0
    <3>1. rc \in [Channels -> Nat] /\ rc[c] \in Nat
      BY <1>1 DEF TypeOK
    <3> HIDE DEF x
    <3>2. CASE x = c
      BY <2>3, <3>1, <3>2
    <3>3. CASE x # c
      BY <2>3, <3>1, <3>3
    <3> QED
      BY <3>2, <3>3
  <2>5. Occurrences(todo[t], c) = (IF x = c THEN 1 ELSE 0) + Occurrences(rest, c)
    BY <2>1, OccurrencesTail
  <2>6. holds[t][c] \in Nat /\ Occurrences(rest, c) \in Nat /\ c # NoValue
    BY <1>1, <2>1, OccurrencesType, ChannelAssumption
  <2>7. HasRefs(t, c) = holds[t][c] + ((IF x = c THEN 1 ELSE 0) + Occurrences(rest, c)) + IF item[t] = c THEN 1 ELSE 0
    BY <2>5 DEF HasRefs
  <2>8. CASE ~(x \in Channels /\ rc[x] = 1)
    <3>1. todo' = [todo EXCEPT ![t] = rest] /\ live' = live
      BY <1>10, <2>8 DEF ReleaseOne
    <3>2. todo'[t] = rest
      BY <1>1, <3>1 DEF TypeOK
    <3>3. HasRefs(t, c)' = holds[t][c] + Occurrences(rest, c) + IF item[t] = c THEN 1 ELSE 0
      BY <2>3, <3>2 DEF HasRefs
    <3>4. HasRefs(t, c)' \in Nat /\ rc'[c] = rc[c] - HasRefs(t, c) + HasRefs(t, c)'
      <4> HIDE DEF x, rest
      <4> QED
        BY <1>2, <2>4, <2>6, <2>7, <3>3
    <3>5. c \in live <=> rc'[c] > 0
      BY <1>2, <2>2, <2>4, <2>8
    <3> QED
      BY <2>3, <3>1, <3>4, <3>5, NoQueueCounted
  <2>9. CASE x \in Channels /\ rc[x] = 1
    <3>1. todo' = [todo EXCEPT ![t] = Queue(x) \o rest] /\ live' = live \ {x}
      BY <1>10, <2>9 DEF ReleaseOne, Queued
    <3>2. todo'[t] = Queue(x) \o rest
      BY <1>1, <3>1 DEF TypeOK
    <3> PICK d \in Channels, r \in Seq(Values) : d = x /\ r = rest
      BY <2>1, <2>9
    <3> HIDE DEF x, rest
    <3>3. Queue(d) \in Seq(Values) /\ Occurrences(Queue(d), c) \in Nat
      BY <1>1, QueueFact, OccurrencesType
    <3>4. Occurrences(todo'[t], c) = Occurrences(Queue(d), c) + Occurrences(r, c)
      BY <3>2, <3>3, OccurrencesConcat
    <3>5. QueueRefs(d, c) = Occurrences(Queue(d), c) /\ QueueRefs(d, c)' = 0
      BY <2>2, <2>9, <3>1 DEF QueueRefs
    <3>6. \A e \in Channels : e # d => QueueRefs(e, c)' = QueueRefs(e, c)
      BY <2>3, <3>1 DEF QueueRefs, Queue
    <3>7. HasRefs(t, c)' = holds[t][c] + (Occurrences(Queue(d), c) + Occurrences(r, c)) + IF item[t] = c THEN 1 ELSE 0
      BY <2>3, <3>4 DEF HasRefs
    <3>8. \A u \in Threads : u # t => HasRefs(u, c)' = HasRefs(u, c)
      BY OthersStay DEF HasRefs
    <3>9. /\ HasRefs(t, c)' \in Nat /\ QueueRefs(d, c)' \in Nat
          /\ rc'[c] = rc[c] - HasRefs(t, c) - QueueRefs(d, c) + HasRefs(t, c)' + QueueRefs(d, c)'
      <4>1. rc[c] \in Nat /\ Occurrences(r, c) \in Nat
        BY <1>2, <2>6
      <4>2. HasRefs(t, c) = holds[t][c] + ((IF x = c THEN 1 ELSE 0) + Occurrences(r, c)) + IF item[t] = c THEN 1 ELSE 0
        BY <2>7
      <4> QED
        BY ONLY <4>1, <4>2, <2>4, <2>6, <3>3, <3>5, <3>7, SMTT(30)
    <3>10. rc'[c] = HeldSum(c)' + QueuedSum(c)'
      BY <3>6, <3>8, <3>9, CountFollows
    <3>11. c \in live' <=> rc'[c] > 0
      BY <1>2, <2>4, <2>9, <3>1
    <3> QED
      BY <3>10, <3>11
  <2> QED
    BY <2>8, <2>9
<1> QED
  <2>1. ASSUME SendWait(t) \/ SendNotify(t) \/ ReceiveWait(t) \/ PollEmpty(t) \/ ReceiveNotify(t) \/ Released(t)
               \/ Spurious(t) \/ Timeout(t) \/ \E d \in Used : \E l \in {"recv", "timedrecv", "poll"} : ReceiveBegin(t, d, l)
        PROVE  UNCHANGED <<buf, head, live, rc, holds, todo, item>>
    BY <2>1 DEF SendWait, SendNotify, ReceiveWait, PollEmpty, ReceiveNotify, Released, Spurious, Timeout, ReceiveBegin, cell
  <2> QED
    BY <1>5, <1>6, <1>7, <1>8, <1>9, <1>10, <2>1 DEF Does, Step, Call

-----------------------------------------------------------------------------
(* The steps of a thread: wakeups.                                          *)

Awake   == {"sent", "recv", "timedrecv", "poll"}
Freeing == {"got", "send"}

\* The threads at a place of channel c.
At(c, where) == {u \in Threads : chan[u] = c /\ pc[u] \in where}

\* They are finitely many, before and after a step.
LEMMA AtFact ==
  ASSUME NEW c, NEW where
  PROVE  /\ On(c, where) = Cardinality(At(c, where)) /\ On(c, where)' = Cardinality(At(c, where)')
         /\ IsFiniteSet(At(c, where)) /\ IsFiniteSet(At(c, where)')
         /\ On(c, where) \in Nat /\ On(c, where)' \in Nat
<1>1. At(c, where) \in SUBSET Threads /\ At(c, where)' \in SUBSET Threads
  BY DEF At
<1>2. IsFiniteSet(At(c, where)) /\ IsFiniteSet(At(c, where)')
  BY <1>1, ChannelAssumption, FS_Subset
<1>3. On(c, where) = Cardinality(At(c, where)) /\ On(c, where)' = Cardinality(At(c, where)')
  BY DEF On, At
<1> QED
  BY <1>2, <1>3, FS_CardinalityType

\* Nobody leaves; one at most does; one arrives; one arrives as another leaves.
LEMMA NobodyLeaves ==
  ASSUME NEW c, NEW where, At(c, where) \subseteq At(c, where)'
  PROVE  On(c, where) <= On(c, where)'
  BY AtFact, CountSubset

\* One thread leaves the places counted,
LEMMA OneLeaves ==
  ASSUME NEW c, NEW where, NEW t, At(c, where) \subseteq At(c, where)' \cup {t}
  PROVE  On(c, where) <= On(c, where)' + 1
  BY AtFact, CountButOne

\* ... one arrives,
LEMMA OneArrives ==
  ASSUME NEW c, NEW where, NEW t, t \notin At(c, where), t \in At(c, where)', At(c, where) \subseteq At(c, where)'
  PROVE  On(c, where) + 1 <= On(c, where)'
  BY AtFact, CountWithOne

\* ... or one arrives where at most one leaves.
LEMMA OneForAnother ==
  ASSUME NEW c, NEW where, NEW t, NEW u, u \notin At(c, where), u \in At(c, where)', At(c, where) \ {t} \subseteq At(c, where)'
  PROVE  On(c, where) <= On(c, where)'
  BY AtFact, CountSwap

\* The promise about one channel, by its two halves.
EmptyOK(c) == notEmpty[c] # {} => Count(c) <= On(c, Awake)
FullOK(c)  == notFull[c] # {} => Capacity[c] - Count(c) <= On(c, Freeing)

\* NoLostWakeup, channel by channel.
LEMMA WakeupParts ==
  /\ NoLostWakeup <=> \A c \in Channels : EmptyOK(c) /\ FullOK(c)
  /\ NoLostWakeup' <=> \A c \in Channels : EmptyOK(c)' /\ FullOK(c)'
  BY DEF NoLostWakeup, EmptyOK, FullOK, Awake, Freeing

\* What is in a queue, and the room there is.
LEMMA CountFact ==
  ASSUME IInv, NEW c \in Channels
  PROVE  Count(c) \in Nat /\ Capacity[c] \in Nat
  BY QueueFact, ChannelAssumption DEF IInv

\* A step that leaves the queue of c, adds nobody to its waiters, and takes
\* nobody who is awake there.
LEMMA EmptyKeeps ==
  ASSUME IInv, NEW c \in Channels, Count(c)' = Count(c),
         notEmpty'[c] \subseteq notEmpty[c], At(c, Awake) \subseteq At(c, Awake)'
  PROVE  EmptyOK(c)'
<1>1. On(c, Awake) <= On(c, Awake)' /\ On(c, Awake) \in Nat /\ On(c, Awake)' \in Nat
  BY NobodyLeaves, AtFact
<1>2. EmptyOK(c) /\ Count(c) \in Nat
  BY WakeupParts, CountFact DEF IInv
<1> QED
  BY <1>1, <1>2 DEF EmptyOK

\* The same of a full queue.
LEMMA FullKeeps ==
  ASSUME IInv, NEW c \in Channels, Count(c)' = Count(c),
         notFull'[c] \subseteq notFull[c], At(c, Freeing) \subseteq At(c, Freeing)'
  PROVE  FullOK(c)'
<1>1. On(c, Freeing) <= On(c, Freeing)' /\ On(c, Freeing) \in Nat /\ On(c, Freeing)' \in Nat
  BY NobodyLeaves, AtFact
<1>2. FullOK(c) /\ Count(c) \in Nat /\ Capacity[c] \in Nat
  BY WakeupParts, CountFact DEF IInv
<1> QED
  BY <1>1, <1>2 DEF FullOK

\* A thread alone moves, and wakes nobody: it leaves no place that counts.
LEMMA MovesAlone ==
  ASSUME IInv, NEW t \in Threads, NEW c \in Channels,
         UNCHANGED <<buf, head>>,
         \A u \in Threads : u # t => pc'[u] = pc[u] /\ chan'[u] = chan[u],
         notEmpty'[c] \subseteq notEmpty[c], notFull'[c] \subseteq notFull[c],
         pc[t] \notin Awake \cup Freeing
  PROVE  EmptyOK(c)' /\ FullOK(c)'
<1>1. Count(c)' = Count(c)
  BY DEF Count
<1>2. At(c, Awake) \subseteq At(c, Awake)' /\ At(c, Freeing) \subseteq At(c, Freeing)'
  BY DEF At
<1> QED
  BY <1>1, <1>2, EmptyKeeps, FullKeeps

\* An empty queue needs nobody awake, a full one nobody to free it.
LEMMA NobodyNeeded ==
  ASSUME NEW c \in Channels, Count(c)' \in Nat
  PROVE  /\ Count(c)' = 0 => EmptyOK(c)'
         /\ Capacity[c] <= Count(c)' => FullOK(c)'
<1>1. On(c, Awake)' \in Nat /\ On(c, Freeing)' \in Nat /\ Capacity[c] \in Nat
  BY AtFact, ChannelAssumption
<1> QED
  BY <1>1 DEF EmptyOK, FullOK

\* No step loses a wakeup.
LEMMA WakeupsKeep ==
  ASSUME IInv, NEW t \in Threads, Does(t), NEW c \in Channels
  PROVE  EmptyOK(c)' /\ FullOK(c)'
<1>1. TypeOK /\ chan[t] \in Channels /\ WaitersOK(chan[t]) /\ WaitersOK(c) /\ EmptyOK(c) /\ FullOK(c)
  BY WakeupParts DEF IInv, TypeOK
<1>2. Count(c) \in Nat /\ Capacity[c] \in Nat
  BY CountFact
<1>3. ASSUME NEW d \in Used, NEW x \in Values, SendBegin(t, d, x) PROVE EmptyOK(c)' /\ FullOK(c)'
  <2>1. pc[t] \notin Awake \cup Freeing /\ UNCHANGED <<buf, head, notEmpty, notFull>>
    BY <1>3 DEF SendBegin, Awake, Freeing, cvs
  <2>2. \A u \in Threads : u # t => pc'[u] = pc[u] /\ chan'[u] = chan[u]
    BY <1>1, <1>3 DEF TypeOK, SendBegin, Goto
  <2> QED
    BY <2>1, <2>2, MovesAlone
<1>4. ASSUME NEW d \in Used, NEW l \in {"recv", "timedrecv", "poll"}, ReceiveBegin(t, d, l)
      PROVE  EmptyOK(c)' /\ FullOK(c)'
  <2>1. pc[t] \notin Awake \cup Freeing /\ UNCHANGED <<buf, head, notEmpty, notFull>>
    BY <1>4 DEF ReceiveBegin, Awake, Freeing, cvs
  <2>2. \A u \in Threads : u # t => pc'[u] = pc[u] /\ chan'[u] = chan[u]
    BY <1>1, <1>4 DEF TypeOK, ReceiveBegin, Goto
  <2> QED
    BY <2>1, <2>2, MovesAlone
<1>5. ASSUME NEW d \in Channels, Drop(t, d) PROVE EmptyOK(c)' /\ FullOK(c)'
  <2>1. pc[t] \notin Awake \cup Freeing /\ UNCHANGED <<buf, head, notEmpty, notFull>>
    BY <1>5 DEF Drop, Awake, Freeing, cvs
  <2>2. \A u \in Threads : u # t => pc'[u] = pc[u] /\ chan'[u] = chan[u]
    BY <1>1, <1>5 DEF TypeOK, Drop, Goto
  <2> QED
    BY <2>1, <2>2, MovesAlone
<1>6. CASE ReleaseOne(t) \/ Released(t)
  <2>1. pc[t] \notin Awake \cup Freeing /\ UNCHANGED <<buf, head, notEmpty, notFull>>
    BY <1>6 DEF ReleaseOne, Released, Awake, Freeing, cvs
  <2>2. \A u \in Threads : u # t => pc'[u] = pc[u] /\ chan'[u] = chan[u]
    BY <1>1, <1>6 DEF TypeOK, ReleaseOne, Released, Goto, call
  <2> QED
    BY <2>1, <2>2, MovesAlone
<1>7. CASE Spurious(t) \/ Timeout(t)
  <2>1. pc[t] \notin Awake \cup Freeing /\ UNCHANGED <<buf, head>>
    BY <1>7 DEF Spurious, Timeout, Awake, Freeing
  <2>2. \A u \in Threads : u # t => pc'[u] = pc[u] /\ chan'[u] = chan[u]
    BY <1>1, <1>7 DEF TypeOK, Spurious, Timeout, Goto
  <2>3. notEmpty'[c] \subseteq notEmpty[c] /\ notFull'[c] \subseteq notFull[c]
    BY <1>1, <1>7, ZenonT(30) DEF TypeOK, Spurious, Timeout
  <2> QED
    BY <2>1, <2>2, <2>3, MovesAlone
<1>8. CASE SendWait(t)
  <2>1. /\ pc[t] = "send" /\ ~HasRoom(chan[t]) /\ UNCHANGED <<buf, head, chan, notEmpty>>
        /\ notFull' = [notFull EXCEPT ![chan[t]] = @ \cup {t}] /\ pc' = [pc EXCEPT ![t] = "full"]
    BY <1>8 DEF SendWait, Goto
  <2>2. Count(c)' = Count(c)
    BY <2>1 DEF Count
  <2>3. At(c, Awake) \subseteq At(c, Awake)'
    BY <1>1, <2>1 DEF At, Awake, TypeOK
  <2>4. CASE chan[t] = c
    <3>1. Capacity[c] <= Count(c)
      BY <1>2, <2>1, <2>4 DEF HasRoom
    <3> QED
      BY <1>2, <2>1, <2>2, <2>3, <3>1, EmptyKeeps, NobodyNeeded
  <2>5. CASE chan[t] # c
    <3>1. At(c, Freeing) \subseteq At(c, Freeing)' /\ notFull'[c] = notFull[c]
      BY <1>1, <2>1, <2>5 DEF At, TypeOK
    <3> QED
      BY <2>1, <2>2, <2>3, <3>1, EmptyKeeps, FullKeeps
  <2> QED
    BY <2>4, <2>5
<1>9. CASE ReceiveWait(t)
  <2>1. /\ pc[t] \in Awake /\ Count(chan[t]) = 0 /\ UNCHANGED <<buf, head, chan, notFull>>
        /\ notEmpty' = [notEmpty EXCEPT ![chan[t]] = @ \cup {t}]
        /\ pc[t] \notin Freeing /\ \A u \in Threads : u # t => pc'[u] = pc[u]
    BY <1>1, <1>9 DEF ReceiveWait, Receiving, Goto, Awake, Freeing, TypeOK
  <2>2. Count(c)' = Count(c)
    BY <2>1 DEF Count
  <2>3. At(c, Freeing) \subseteq At(c, Freeing)'
    BY <2>1 DEF At
  <2>4. FullOK(c)'
    BY <2>1, <2>2, <2>3, FullKeeps
  <2>5. CASE chan[t] = c
    BY <1>2, <2>1, <2>2, <2>4, <2>5, NobodyNeeded
  <2>6. CASE chan[t] # c
    <3>1. At(c, Awake) \subseteq At(c, Awake)' /\ notEmpty'[c] = notEmpty[c]
      BY <1>1, <2>1, <2>6 DEF At, TypeOK
    <3> QED
      BY <2>2, <2>4, <3>1, EmptyKeeps
  <2> QED
    BY <2>5, <2>6
<1>10. CASE PollEmpty(t)
  <2>1. /\ pc[t] = "poll" /\ Count(chan[t]) = 0 /\ UNCHANGED <<buf, head, chan, notEmpty, notFull>>
        /\ pc[t] \notin Freeing /\ \A u \in Threads : u # t => pc'[u] = pc[u]
    BY <1>1, <1>10 DEF PollEmpty, Goto, Freeing, TypeOK, cvs
  <2>2. Count(c)' = Count(c)
    BY <2>1 DEF Count
  <2>3. At(c, Freeing) \subseteq At(c, Freeing)'
    BY <2>1 DEF At
  <2>4. FullOK(c)'
    BY <2>1, <2>2, <2>3, FullKeeps
  <2>5. CASE chan[t] = c
    BY <1>2, <2>1, <2>2, <2>4, <2>5, NobodyNeeded
  <2>6. CASE chan[t] # c
    <3>1. At(c, Awake) \subseteq At(c, Awake)'
      BY <1>1, <2>1, <2>6 DEF At
    <3> QED
      BY <2>1, <2>2, <2>4, <3>1, EmptyKeeps
  <2> QED
    BY <2>5, <2>6
<1>11. CASE SendPush(t)
  <2>1. item[t] \in Values
    BY <1>11 DEF IInv, ThreadOK, TypeOK, SendPush
  <2>2. /\ pc[t] = "send" /\ pc'[t] = "sent" /\ UNCHANGED <<chan, notEmpty, notFull>>
        /\ \A u \in Threads : u # t => pc'[u] = pc[u]
        /\ buf' = [buf EXCEPT ![chan[t]] = Append(@, item[t])] /\ head' = head
    BY <1>1, <1>11 DEF SendPush, Goto, TypeOK, cvs
  <2> PICK d \in Channels, x \in Values : d = chan[t] /\ x = item[t]
    BY <1>1, <2>1
  <2>3. Count(d)' = Count(d) + 1 /\ \A e \in Channels : e # d => Count(e)' = Count(e)
    BY <1>1, <2>2, PushFact
  <2>4. CASE c = d
    <3>1. t \notin At(c, Awake) /\ t \in At(c, Awake)' /\ At(c, Awake) \subseteq At(c, Awake)'
      BY <2>2, <2>4 DEF At, Awake
    <3>2. At(c, Freeing) \subseteq At(c, Freeing)' \cup {t}
      BY <2>2 DEF At
    <3>3. On(c, Awake) + 1 <= On(c, Awake)' /\ On(c, Freeing) <= On(c, Freeing)' + 1
      BY <3>1, <3>2, OneArrives, OneLeaves
    <3>4. On(c, Awake) \in Nat /\ On(c, Awake)' \in Nat /\ On(c, Freeing) \in Nat /\ On(c, Freeing)' \in Nat
      BY AtFact
    <3>5. Count(c)' = Count(c) + 1 /\ notEmpty' = notEmpty /\ notFull' = notFull
      BY <2>2, <2>3, <2>4
    <3> QED
      BY <1>1, <1>2, <3>3, <3>4, <3>5 DEF EmptyOK, FullOK
  <2>5. CASE c # d
    <3>1. At(c, Awake) \subseteq At(c, Awake)' /\ At(c, Freeing) \subseteq At(c, Freeing)' /\ Count(c)' = Count(c)
      BY <2>2, <2>3, <2>5 DEF At
    <3> QED
      BY <2>2, <3>1, EmptyKeeps, FullKeeps
  <2> QED
    BY <2>4, <2>5
<1>12. CASE ReceivePop(t)
  <2> DEFINE s == Compact(buf[chan[t]], head[chan[t]] + 1)
  <2>1. /\ pc[t] \in Awake \ {"sent"} /\ UNCHANGED <<chan, notEmpty, notFull>> /\ Count(chan[t]) > 0
        /\ pc'[t] = IF Capacity[chan[t]] > 0 THEN "got" ELSE "out"
        /\ \A u \in Threads : u # t => pc'[u] = pc[u]
        /\ buf' = [buf EXCEPT ![chan[t]] = s[1]] /\ head' = [head EXCEPT ![chan[t]] = s[2]]
    BY <1>1, <1>12 DEF ReceivePop, Receiving, Goto, TypeOK, cvs, Awake
  <2> PICK d \in Channels, r \in {s} : d = chan[t]
    BY <1>1
  <2>2. /\ r = Compact(buf[d], head[d] + 1) /\ Count(d) > 0
        /\ buf' = [buf EXCEPT ![d] = r[1]] /\ head' = [head EXCEPT ![d] = r[2]]
    BY <2>1
  <2> HIDE DEF s
  <2>3. Count(d)' = Count(d) - 1 /\ \A e \in Channels : e # d => Count(e)' = Count(e)
    BY <1>1, <2>2, PopFact
  <2>4. CASE c = d
    <3>1. At(c, Awake) \subseteq At(c, Awake)' \cup {t}
      BY <2>1 DEF At
    <3>2. On(c, Awake) <= On(c, Awake)' + 1
      BY <3>1, OneLeaves
    <3>3. On(c, Awake) \in Nat /\ On(c, Awake)' \in Nat /\ On(c, Freeing) \in Nat /\ On(c, Freeing)' \in Nat
      BY AtFact
    <3>4. Count(c)' = Count(c) - 1 /\ Count(c) > 0 /\ notEmpty' = notEmpty /\ notFull' = notFull
      BY <2>1, <2>2, <2>3, <2>4
    <3>5. EmptyOK(c)'
      BY <1>1, <1>2, <3>2, <3>3, <3>4 DEF EmptyOK
    <3>6. FullOK(c)'
      <4>1. CASE Capacity[c] = 0
        <5>1. Count(c)' \in Nat /\ Capacity[c] <= Count(c)'
          BY <1>2, <3>4, <4>1
        <5> QED
          BY <5>1, NobodyNeeded
      <4>2. CASE Capacity[c] > 0
        <5>1. t \notin At(c, Freeing) /\ t \in At(c, Freeing)' /\ At(c, Freeing) \subseteq At(c, Freeing)'
          BY <2>1, <2>4, <4>2 DEF At, Freeing, Awake
        <5>2. On(c, Freeing) + 1 <= On(c, Freeing)'
          BY <5>1, OneArrives
        <5> QED
          BY <1>1, <1>2, <3>3, <3>4, <5>2 DEF FullOK
      <4> QED
        BY <1>2, <4>1, <4>2
    <3> QED
      BY <3>5, <3>6
  <2>5. CASE c # d
    <3>1. At(c, Awake) \subseteq At(c, Awake)' /\ At(c, Freeing) \subseteq At(c, Freeing)' /\ Count(c)' = Count(c)
      BY <2>1, <2>3, <2>5 DEF At
    <3> QED
      BY <2>1, <3>1, EmptyKeeps, FullKeeps
  <2> QED
    BY <2>4, <2>5
<1>13. CASE SendNotify(t)
  <2>1. PICK woken \in NotifyOne(notEmpty[chan[t]]) :
            /\ notEmpty' = [notEmpty EXCEPT ![chan[t]] = @ \ woken]
            /\ pc' = [w \in Threads |->
                        CASE w = t -> "out"
                          [] w \in woken -> IF pc[w] = "timed" THEN "timedrecv" ELSE "recv"
                          [] OTHER -> pc[w]]
    BY <1>13 DEF SendNotify
  <2>2. /\ pc[t] = "sent" /\ UNCHANGED <<buf, head, chan, notFull>>
        /\ woken \subseteq notEmpty[chan[t]] /\ woken \subseteq Threads
    <3>1. notEmpty[chan[t]] \subseteq Threads
      BY <1>1 DEF TypeOK
    <3>2. woken \subseteq notEmpty[chan[t]]
      BY <2>1 DEF NotifyOne
    <3>3. pc[t] = "sent" /\ UNCHANGED <<buf, head, chan, notFull>>
      BY <1>13 DEF SendNotify, cell
    <3> QED
      BY <3>1, <3>2, <3>3
  <2>3. \A w \in Threads : w # t /\ w \notin woken => pc'[w] = pc[w]
    BY <2>1
  <2>4. \A w \in woken : w # t /\ chan[w] = chan[t] /\ pc[w] \in {"empty", "timed"}
    BY <1>1, <2>2 DEF WaitersOK
  <2>5. \A w \in woken : pc'[w] \in {"recv", "timedrecv"}
    BY <2>1, <2>2, <2>4
  <2>6. Count(c)' = Count(c)
    BY <2>2 DEF Count
  <2>7. FullOK(c)'
    <3>1. At(c, Freeing) \subseteq At(c, Freeing)'
      BY <2>2, <2>3, <2>4 DEF At, Freeing
    <3> QED
      BY <2>2, <2>6, <3>1, FullKeeps
  <2>8. CASE chan[t] # c
    <3>1. At(c, Awake) \subseteq At(c, Awake)' /\ notEmpty'[c] = notEmpty[c]
      BY <1>1, <2>1, <2>2, <2>3, <2>4, <2>8 DEF At, TypeOK
    <3> QED
      BY <2>6, <2>7, <3>1, EmptyKeeps
  <2>9. CASE chan[t] = c /\ notEmpty[c] = {}
    <3>1. notEmpty'[c] = {}
      BY <1>1, <2>1, <2>9 DEF TypeOK
    <3> QED
      BY <2>7, <3>1 DEF EmptyOK
  <2>10. CASE chan[t] = c /\ notEmpty[c] # {}
    <3>1. PICK u \in woken : TRUE
      BY <2>1, <2>10 DEF NotifyOne
    <3>2. u \in Threads /\ u # t /\ chan[u] = c /\ pc[u] \in {"empty", "timed"} /\ pc'[u] \in {"recv", "timedrecv"}
      BY <2>2, <2>4, <2>5, <2>10
    <3>3. u \notin At(c, Awake) /\ u \in At(c, Awake)'
      BY <2>2, <3>2 DEF At, Awake
    <3>4. At(c, Awake) \ {t} \subseteq At(c, Awake)'
      BY <2>2, <2>3, <2>4 DEF At, Awake
    <3>5. On(c, Awake) <= On(c, Awake)' /\ On(c, Awake) \in Nat /\ On(c, Awake)' \in Nat
      BY <3>3, <3>4, OneForAnother, AtFact
    <3> QED
      BY <1>1, <1>2, <2>6, <2>7, <2>10, <3>5 DEF EmptyOK
  <2> QED
    BY <2>8, <2>9, <2>10
<1>14. CASE ReceiveNotify(t)
  <2>1. PICK woken \in NotifyOne(notFull[chan[t]]) :
            /\ notFull' = [notFull EXCEPT ![chan[t]] = @ \ woken]
            /\ pc' = [w \in Threads |-> CASE w = t -> "out" [] w \in woken -> "send" [] OTHER -> pc[w]]
    BY <1>14 DEF ReceiveNotify
  <2>2. /\ pc[t] = "got" /\ UNCHANGED <<buf, head, chan, notEmpty>>
        /\ woken \subseteq notFull[chan[t]] /\ woken \subseteq Threads
    <3>1. notFull[chan[t]] \subseteq Threads
      BY <1>1 DEF TypeOK
    <3>2. woken \subseteq notFull[chan[t]]
      BY <2>1 DEF NotifyOne
    <3>3. pc[t] = "got" /\ UNCHANGED <<buf, head, chan, notEmpty>>
      BY <1>14 DEF ReceiveNotify, cell
    <3> QED
      BY <3>1, <3>2, <3>3
  <2>3. \A w \in Threads : w # t /\ w \notin woken => pc'[w] = pc[w]
    BY <2>1
  <2>4. \A w \in woken : w # t /\ chan[w] = chan[t] /\ pc[w] = "full"
    BY <1>1, <2>2 DEF WaitersOK
  <2>5. \A w \in woken : pc'[w] = "send"
    BY <2>1, <2>2, <2>4
  <2>6. Count(c)' = Count(c)
    BY <2>2 DEF Count
  <2>7. EmptyOK(c)'
    <3>1. At(c, Awake) \subseteq At(c, Awake)'
      BY <2>2, <2>3, <2>4 DEF At, Awake
    <3> QED
      BY <2>2, <2>6, <3>1, EmptyKeeps
  <2>8. CASE chan[t] # c
    <3>1. At(c, Freeing) \subseteq At(c, Freeing)' /\ notFull'[c] = notFull[c]
      BY <1>1, <2>1, <2>2, <2>3, <2>4, <2>8 DEF At, TypeOK
    <3> QED
      BY <2>6, <2>7, <3>1, FullKeeps
  <2>9. CASE chan[t] = c /\ notFull[c] = {}
    <3>1. notFull'[c] = {}
      BY <1>1, <2>1, <2>9 DEF TypeOK
    <3> QED
      BY <2>7, <3>1 DEF FullOK
  <2>10. CASE chan[t] = c /\ notFull[c] # {}
    <3>1. PICK u \in woken : TRUE
      BY <2>1, <2>10 DEF NotifyOne
    <3>2. u \in Threads /\ u # t /\ chan[u] = c /\ pc[u] = "full" /\ pc'[u] = "send"
      BY <2>2, <2>4, <2>5, <2>10
    <3>3. u \notin At(c, Freeing) /\ u \in At(c, Freeing)'
      BY <2>2, <3>2 DEF At, Freeing
    <3>4. At(c, Freeing) \ {t} \subseteq At(c, Freeing)'
      BY <2>2, <2>3, <2>4 DEF At, Freeing
    <3>5. On(c, Freeing) <= On(c, Freeing)' /\ On(c, Freeing) \in Nat /\ On(c, Freeing)' \in Nat
      BY <3>3, <3>4, OneForAnother, AtFact
    <3> QED
      BY <1>1, <1>2, <2>6, <2>7, <2>10, <3>5 DEF FullOK
  <2> QED
    BY <2>8, <2>9, <2>10
<1> QED
  BY <1>3, <1>4, <1>5, <1>6, <1>7, <1>8, <1>9, <1>10, <1>11, <1>12, <1>13, <1>14 DEF Does, Step, Call

\* A step of any thread keeps the invariant.
LEMMA NextInv == IInv /\ [Next]_vars => IInv'
<1> SUFFICES ASSUME IInv, [Next]_vars PROVE IInv'
  OBVIOUS
<1>1. CASE UNCHANGED vars
  <2>1. /\ UNCHANGED <<buf, head, live, rc, holds, pc, chan, item>>
        /\ UNCHANGED <<todo, notEmpty, notFull, sends, taken>>
    BY <1>1 DEF vars, cell, call, cvs
  <2>2. TypeOK'
    BY <2>1 DEF IInv, TypeOK
  <2>3. \A u \in Threads : ThreadOK(u)'
    BY <2>1 DEF IInv, ThreadOK
  <2>4. \A c \in Channels : WaitersOK(c)'
    BY <2>1 DEF IInv, WaitersOK
  <2>5. CountsExact'
    BY <2>1 DEF IInv, CountsExact, HasRefs, QueueRefs, Queue
  <2>6. NoLostWakeup'
    BY <2>1 DEF IInv, NoLostWakeup, On, Count
  <2> QED
    BY <2>2, <2>3, <2>4, <2>5, <2>6 DEF IInv
<1>2. ASSUME NEW t \in Threads, Does(t) PROVE IInv'
  <2>1. TypeOK'
    BY <1>2, TypesKeep
  <2>2. \A u \in Threads : ThreadOK(u)'
    BY <1>2, ThreadsKeep
  <2>3. \A c \in Channels : WaitersOK(c)'
    BY <1>2, WaitersKeep
  <2>4. CountsExact'
    BY <1>2, <2>1, CountsKeep
  <2>5. \A c \in Channels : EmptyOK(c)' /\ FullOK(c)'
    BY <1>2, WakeupsKeep
  <2>6. NoLostWakeup'
    BY <2>5, WakeupParts
  <2> QED
    BY <2>1, <2>2, <2>3, <2>4, <2>6 DEF IInv
<1> QED
  BY <1>1, <1>2 DEF Next, Does

\* The typed values of every variable are what the code can store there.
THEOREM TypeCorrect == Spec => []TypeOK
<1>1. IInv => TypeOK
  BY DEF IInv
<1> QED
  BY <1>1, InitInv, NextInv, PTL DEF Spec

\* The atomic count of a channel is the number of the references to it that
\* threads hold, carry or are releasing and that live channels have queued,
\* and a channel is freed exactly when there is none (channel.cpp:68-77).
THEOREM CountsExactHolds == Spec => []CountsExact
<1>1. IInv => CountsExact
  BY DEF IInv
<1> QED
  BY <1>1, InitInv, NextInv, PTL DEF Spec

\* No thread sends to, receives from or waits on a channel that was freed:
\* its caller holds a reference until it returns (channel.cpp:79-206).
THEOREM InUseAliveHolds == Spec => []InUseAlive
<1>1. IInv => InUseAlive
  <2> SUFFICES ASSUME IInv, NEW t \in Threads, pc[t] \notin {"out", "release"}
               PROVE  chan[t] \in live
    BY DEF InUseAlive
  <2>1. chan[t] \in Channels /\ holds[t][chan[t]] > 0 /\ holds[t][chan[t]] \in Nat /\ todo[t] \in Seq(Values)
    BY DEF IInv, ThreadOK, TypeOK
  <2>2. Occurrences(todo[t], chan[t]) \in Nat
    BY <2>1, OccurrencesType
  <2>3. HasRefs(t, chan[t]) > 0
    BY <2>1, <2>2 DEF HasRefs
  <2> QED
    BY <2>1, <2>3, ReferredAlive
<1> QED
  BY <1>1, InitInv, NextInv, PTL DEF Spec

\* A thread that waits always has somebody to wake it: an item in the queue
\* has a receiver awake or a notification to come, a free place likewise
\* (channel.cpp:131-136, 150-157, 186-201).
THEOREM NoLostWakeupHolds == Spec => []NoLostWakeup
<1>1. IInv => NoLostWakeup
  BY DEF IInv
<1> QED
  BY <1>1, InitInv, NextInv, PTL DEF Spec

-----------------------------------------------------------------------------
(* Each channel implements the abstract queue.                              *)

\* A queue that a step leaves alone.
LEMMA QueueStays ==
  ASSUME UNCHANGED <<buf, head, taken>>, NEW c \in Channels
  PROVE  [Abstract(c)!Next]_<<Queue(c), taken[c]>>
<1>1. Queue(c)' = Queue(c) /\ taken'[c] = taken[c]
  BY DEF Queue
<1> QED
  BY <1>1

\* A push is a Put on its channel, a pop a Take, and no other step shows.
LEMMA StepRefines ==
  ASSUME IInv, [Next]_vars, NEW c \in Channels
  PROVE  [Abstract(c)!Next]_<<Queue(c), taken[c]>>
<1>1. CASE UNCHANGED <<buf, head, taken>>
  BY <1>1, QueueStays
<1>2. ASSUME NEW t \in Threads, SendPush(t) PROVE [Abstract(c)!Next]_<<Queue(c), taken[c]>>
  <2>0. PICK d \in {chan[t]}, x \in {item[t]} : TRUE
    OBVIOUS
  <2>1. /\ pc[t] = "send" /\ HasRoom(d) /\ taken' = taken
        /\ buf' = [buf EXCEPT ![d] = Append(@, x)] /\ head' = head
    BY <1>2, <2>0 DEF SendPush
  <2>2. d \in Channels /\ x \in Values /\ TypeOK
    BY <2>0, <2>1 DEF IInv, ThreadOK, TypeOK
  <2>3. /\ Queue(d)' = Append(Queue(d), x)
        /\ \A e \in Channels : e # d => Queue(e)' = Queue(e)
    BY <2>1, <2>2, PushFact
  <2>4. CASE c = d
    <3>1. Capacity[c] \in Nat /\ Count(c) = Len(Queue(c)) /\ Count(c) \in Nat
      BY <2>2, QueueFact, ChannelAssumption
    <3>2. Capacity[c] = 0 \/ Len(Queue(c)) < Capacity[c]
      BY <2>1, <2>4, <3>1 DEF HasRoom
    <3>3. Abstract(c)!Put(x)
      BY <2>1, <2>3, <2>4, <3>2 DEF Abstract!Put
    <3> QED
      BY <2>2, <3>3 DEF Abstract!Next
  <2>5. CASE c # d
    BY <2>1, <2>3, <2>5
  <2> QED
    BY <2>4, <2>5
<1>3. ASSUME NEW t \in Threads, ReceivePop(t) PROVE [Abstract(c)!Next]_<<Queue(c), taken[c]>>
  <2>0. PICK d \in {chan[t]} : TRUE
    OBVIOUS
  <2> DEFINE v == buf[d][head[d] + 1]
             s == Compact(buf[d], head[d] + 1)
  <2>1. /\ Count(d) > 0
        /\ buf' = [buf EXCEPT ![d] = s[1]] /\ head' = [head EXCEPT ![d] = s[2]]
        /\ taken' = [taken EXCEPT ![d] = Append(@, v)]
    BY <1>3, <2>0 DEF ReceivePop
  <2>2. d \in Channels /\ TypeOK /\ taken \in [Channels -> Seq(Values)]
    BY <2>0 DEF IInv, TypeOK
  <2>3. Queue(d) # <<>> /\ Head(Queue(d)) = v /\ Queue(d)' = Tail(Queue(d))
        /\ \A e \in Channels : e # d => Queue(e)' = Queue(e)
    <3>1. v = buf[d][head[d] + 1] /\ s = Compact(buf[d], head[d] + 1)
      OBVIOUS
    <3> HIDE DEF v, s
    <3> QED
      BY <2>1, <2>2, <3>1, PopFact
  <2> HIDE DEF v, s
  <2>4. CASE c = d
    <3>1. taken'[c] = Append(taken[c], Head(Queue(c)))
      BY <2>1, <2>2, <2>3, <2>4
    <3>2. Abstract(c)!Take
      BY <2>3, <2>4, <3>1 DEF Abstract!Take
    <3> QED
      BY <3>2 DEF Abstract!Next
  <2>5. CASE c # d
    BY <2>1, <2>2, <2>3, <2>5
  <2> QED
    BY <2>4, <2>5
<1>4. ASSUME NEW t \in Threads, Does(t), ~SendPush(t), ~ReceivePop(t)
      PROVE  UNCHANGED <<buf, head, taken>>
  BY <1>4 DEF Does, Step, Call, SendBegin, SendWait, SendNotify, ReceiveBegin, ReceiveWait, PollEmpty,
              ReceiveNotify, Spurious, Timeout, Drop, ReleaseOne, Released
<1>5. UNCHANGED vars => UNCHANGED <<buf, head, taken>>
  BY DEF vars
<1> QED
  BY <1>1, <1>2, <1>3, <1>4, <1>5 DEF Next, Does

\* Every channel is a FIFO of its capacity: whatever the waits, the wakeups
\* and the compactions, a send is a put and a receive takes the oldest value
\* (channel.cpp:36-52, 121-206).
THEOREM ChannelIsFifo == Spec => IsFifo
<1>1. Init => \A c \in Channels : Abstract(c)!Init
  <2> SUFFICES ASSUME Init, NEW c \in Channels PROVE Abstract(c)!Init
    OBVIOUS
  <2>1. buf[c] = <<>> /\ head[c] = 0 /\ taken[c] = <<>>
    BY DEF Init
  <2>2. IInv
    BY InitInv
  <2>3. Queue(c) \in Seq(Values) /\ Len(Queue(c)) = 0
    BY <2>1, <2>2, QueueFact DEF IInv, Count
  <2>4. Queue(c) = <<>>
    BY <2>3, EmptySeq
  <2> QED
    BY <2>1, <2>4 DEF Abstract!Init
<1>2. IInv /\ [Next]_vars => [\A c \in Channels : [Abstract(c)!Next]_<<Queue(c), taken[c]>>]_vars
  BY StepRefines
<1> QED
  BY <1>1, <1>2, InitInv, NextInv, PTL DEF Spec, IsFifo
=============================================================================
