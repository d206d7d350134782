---------------------------- MODULE EngineProofs ----------------------------
(***************************************************************************)
(* Proofs about the two parts of the engine that every heap carries.        *)
(*                                                                          *)
(* CycleCollector, for every set of cells and every graph the bounds allow, *)
(* provided the bounds leave no count to saturate (NoSaturation): the types *)
(* of the heap, ReachableAlive, CountsExact, CandidatesExact and            *)
(* GarbageEnrolled.  CollectorInv is the invariant of CollectorInvariant;   *)
(* each step of a phase is a change of one header, described by a table,    *)
(* and a call entered or left.  Between two operations the invariant is     *)
(* PlainInv, which the operations of the program are proved to keep.        *)
(*                                                                          *)
(* Dispatch, for every hierarchy of classes in which the ancestors of a     *)
(* class are a chain, every set of signatures, any number of isolates and   *)
(* any calls: what a resolution returns, what a retraction leaves, the type *)
(* invariant, CallsLiveCode, MemoSafe, and that an accepted definition      *)
(* keeps calls decided.  full_resolve and the retraction of a journal       *)
(* are passes over sequences; Pass and UpTo of DataLemmas say what they     *)
(* compute.  The invariant IInv adds that no signature is registered twice, *)
(* without which a retraction would leave one behind, that a warm cache     *)
(* calls what a live journal keeps for the signature a resolution selects   *)
(* (SiteLive), and that the thread count counts live workers, so that only  *)
(* the main thread finds it at zero.                                        *)
(***************************************************************************)
EXTENDS Dispatch, CollectorInvariant, DataLemmas

-----------------------------------------------------------------------------
(* The calls in progress.                                                   *)

\* There is no call in an empty stack.
LEMMA AtEmpty == \A op, p : At(<<>>, op, p) = 0
<1>1. \A op, p : Calls(<<>>, op, p) = {}
  BY DEF Calls
<1> QED
  BY <1>1 DEF At

\* A call that is in progress is somewhere in the stack.
LEMMA AtSome ==
  ASSUME NEW s \in Seq(Frames), NEW op, NEW p
  PROVE  /\ At(s, op, p) \in Nat
         /\ At(s, op, p) > 0 => \E j \in DOMAIN s : s[j].op = op /\ s[j].cell = p /\ s[j].next = At(s, op, p)
         /\ At(s, op, p) = 0 => \A j \in DOMAIN s : ~(s[j].op = op /\ s[j].cell = p)
<1>1. \A j \in DOMAIN s : s[j].next \in Nat \ {0}
  <2>1. \A j \in DOMAIN s : s[j] \in Frames
    BY LenProperties, ElementOfSeq
  <2> QED
    BY <2>1 DEF Frames
<1>2. CASE Calls(s, op, p) = {}
  BY <1>2 DEF At, Calls
<1>3. CASE Calls(s, op, p) # {}
  <2> DEFINE m == CHOOSE j \in Calls(s, op, p) : TRUE
  <2>1. m \in Calls(s, op, p) /\ At(s, op, p) = s[m].next
    BY <1>3 DEF At
  <2> HIDE DEF m
  <2>2. m \in DOMAIN s /\ s[m].op = op /\ s[m].cell = p
    BY <2>1 DEF Calls
  <2> QED
    BY <2>1, <2>2, <1>1
<1> QED
  BY <1>2, <1>3

\* No two calls of one operation are on one cell.
Apart(s) == \A j, k \in DOMAIN s : s[j].op = s[k].op /\ s[j].cell = s[k].cell => j = k

\* The frame of a call says how far it has got.
LEMMA AtFrame ==
  ASSUME NEW s, Apart(s), NEW j \in DOMAIN s
  PROVE  At(s, s[j].op, s[j].cell) = s[j].next
<1>1. Calls(s, s[j].op, s[j].cell) = {j}
  BY DEF Calls, Apart
<1> QED
  BY <1>1 DEF At

\* What At says determines it.
LEMMA AtIs ==
  ASSUME NEW s \in Seq(Frames), Apart(s), NEW op, NEW p, NEW n \in Nat,
         n > 0 => \E j \in DOMAIN s : s[j].op = op /\ s[j].cell = p /\ s[j].next = n,
         n = 0 => \A j \in DOMAIN s : ~(s[j].op = op /\ s[j].cell = p)
  PROVE  At(s, op, p) = n
<1>1. CASE n = 0
  BY <1>1 DEF At, Calls
<1>2. CASE n > 0
  BY <1>2, AtFrame
<1> QED
  BY <1>1, <1>2

\* The innermost call moves to its next child.
Advanced(s) == [s EXCEPT ![1].next = @ + 1]

\* What moving on to the next child changes.
LEMMA AdvancedIs ==
  ASSUME NEW s \in Seq(Frames), s # <<>>
  PROVE  /\ Advanced(s) \in Seq(Frames) /\ DOMAIN Advanced(s) = DOMAIN s /\ Advanced(s) # <<>>
         /\ 1 \in DOMAIN s /\ Head(s) = s[1] /\ s[1] \in Frames
         /\ \A j \in DOMAIN s : /\ Advanced(s)[j].op = s[j].op /\ Advanced(s)[j].cell = s[j].cell
                                /\ Advanced(s)[j].next = IF j = 1 THEN s[1].next + 1 ELSE s[j].next
<1>1. Len(s) \in Nat \ {0} /\ DOMAIN s = 1..Len(s)
  BY EmptySeq, LenProperties
<1>2. \A j \in DOMAIN s : s[j] \in Frames
  BY <1>1, ElementOfSeq
<1>3. 1 \in DOMAIN s /\ Head(s) = s[1]
  BY <1>1
<1> DEFINE f == [s[1] EXCEPT !.next = @ + 1]
<1>4. f \in Frames /\ f.op = s[1].op /\ f.cell = s[1].cell /\ f.next = s[1].next + 1
  BY <1>2, <1>3 DEF Frames
<1>5. Advanced(s) = [s EXCEPT ![1] = f]
  BY DEF Advanced
<1> HIDE DEF f
<1>6. Advanced(s) \in Seq(Frames) /\ Len(Advanced(s)) = Len(s)
      /\ \A j \in 1..Len(s) : Advanced(s)[j] = IF j = 1 THEN f ELSE s[j]
  BY <1>1, <1>3, <1>4, <1>5, ExceptSeq
<1>7. DOMAIN Advanced(s) = 1..Len(s) /\ Advanced(s) # <<>>
  BY <1>6, <1>1, <1>5, LenProperties, EmptySeq
<1> QED
  BY <1>1, <1>2, <1>3, <1>4, <1>6, <1>7

\* Only the innermost call has moved.
LEMMA AtAdvanced ==
  ASSUME NEW s \in Seq(Frames), s # <<>>, Apart(s)
  PROVE  /\ Apart(Advanced(s))
         /\ At(s, Head(s).op, Head(s).cell) = Head(s).next
         /\ \A op, p : At(Advanced(s), op, p) = IF op = Head(s).op /\ p = Head(s).cell THEN Head(s).next + 1 ELSE At(s, op, p)
<1>1. /\ Advanced(s) \in Seq(Frames) /\ DOMAIN Advanced(s) = DOMAIN s
      /\ 1 \in DOMAIN s /\ Head(s) = s[1] /\ s[1] \in Frames
      /\ \A j \in DOMAIN s : /\ Advanced(s)[j].op = s[j].op /\ Advanced(s)[j].cell = s[j].cell
                             /\ Advanced(s)[j].next = IF j = 1 THEN s[1].next + 1 ELSE s[j].next
  BY AdvancedIs
<1>2. Apart(Advanced(s))
  BY <1>1 DEF Apart
<1>3. At(s, Head(s).op, Head(s).cell) = Head(s).next
  BY <1>1, AtFrame
<1>4. ASSUME NEW op, NEW p
      PROVE  At(Advanced(s), op, p) = IF op = Head(s).op /\ p = Head(s).cell THEN Head(s).next + 1 ELSE At(s, op, p)
  <2>1. CASE op = s[1].op /\ p = s[1].cell
    <3>1. At(Advanced(s), Advanced(s)[1].op, Advanced(s)[1].cell) = Advanced(s)[1].next
      BY <1>1, <1>2, AtFrame
    <3> QED
      BY <3>1, <1>1, <2>1
  <2>2. CASE ~(op = s[1].op /\ p = s[1].cell)
    <3>1. At(s, op, p) \in Nat
          /\ (At(s, op, p) > 0 => \E j \in DOMAIN s : s[j].op = op /\ s[j].cell = p /\ s[j].next = At(s, op, p))
          /\ (At(s, op, p) = 0 => \A j \in DOMAIN s : ~(s[j].op = op /\ s[j].cell = p))
      BY AtSome
    <3>2. At(Advanced(s), op, p) = At(s, op, p)
      <4> DEFINE n == At(s, op, p)
      <4>1. n > 0 => \E j \in DOMAIN Advanced(s) : Advanced(s)[j].op = op /\ Advanced(s)[j].cell = p /\ Advanced(s)[j].next = n
        BY <1>1, <2>2, <3>1
      <4>2. n = 0 => \A j \in DOMAIN Advanced(s) : ~(Advanced(s)[j].op = op /\ Advanced(s)[j].cell = p)
        BY <1>1, <2>2, <3>1
      <4>3. n \in Nat
        BY <3>1
      <4> HIDE DEF n
      <4>4. At(Advanced(s), op, p) = n
        BY <4>1, <4>2, <4>3, <1>1, <1>2, AtIs
      <4> QED
        BY <4>4 DEF n
    <3> QED
      BY <3>2, <2>2, <1>1
  <2> QED
    BY <2>1, <2>2
<1> QED
  BY <1>2, <1>3, <1>4

\* A call is made.
Pushed(s, op, c) == <<[op |-> op, cell |-> c, next |-> 1]>> \o s

\* The frames after a call is entered.
LEMMA PushedIs ==
  ASSUME NEW s \in Seq(Frames), NEW op \in Ops, NEW c \in Cells
  PROVE  /\ Pushed(s, op, c) \in Seq(Frames) /\ DOMAIN Pushed(s, op, c) = 1..(Len(s) + 1) /\ Len(s) \in Nat
         /\ DOMAIN s = 1..Len(s) /\ Pushed(s, op, c)[1] = [op |-> op, cell |-> c, next |-> 1]
         /\ \A j \in DOMAIN s : j + 1 \in DOMAIN Pushed(s, op, c) /\ Pushed(s, op, c)[j + 1] = s[j]
         /\ \A j \in DOMAIN Pushed(s, op, c) : j # 1 => j - 1 \in DOMAIN s /\ Pushed(s, op, c)[j] = s[j - 1]
<1> DEFINE f == [op |-> op, cell |-> c, next |-> 1]
           u == <<f>>
<1>1. f \in Frames
  BY DEF Frames
<1> HIDE DEF f
<1>2. u \in Seq(Frames) /\ Len(u) = 1 /\ u[1] = f
  BY <1>1
<1> HIDE DEF u
<1>3. Len(s) \in Nat /\ DOMAIN s = 1..Len(s)
  BY LenProperties
<1>4. /\ u \o s \in Seq(Frames) /\ Len(u \o s) = 1 + Len(s)
      /\ \A j \in 1..(1 + Len(s)) : (u \o s)[j] = IF j <= 1 THEN u[j] ELSE s[j - 1]
  <2>1. /\ u \o s \in Seq(Frames) /\ Len(u \o s) = Len(u) + Len(s)
        /\ \A j \in 1..(Len(u) + Len(s)) : (u \o s)[j] = IF j <= Len(u) THEN u[j] ELSE s[j - Len(u)]
    BY <1>2, ConcatProperties, Zenon
  <2> QED
    BY <1>2, <2>1
<1>5. DOMAIN (u \o s) = 1..(1 + Len(s))
  BY <1>4, LenProperties
<1>6. Pushed(s, op, c) = u \o s
  BY DEF Pushed, u, f
<1>7. \A j \in DOMAIN s : j + 1 \in 1..(1 + Len(s)) /\ ~(j + 1 <= 1) /\ (j + 1) - 1 = j
  BY <1>3
<1>8. \A j \in 1..(1 + Len(s)) : j # 1 => j - 1 \in 1..Len(s) /\ ~(j <= 1)
  BY <1>3
<1>9. 1 \in 1..(1 + Len(s))
  BY <1>3
<1>10. 1..(1 + Len(s)) = 1..(Len(s) + 1)
  BY <1>3
<1>11. (u \o s)[1] = f
  BY <1>2, <1>4, <1>9
<1>12. \A j \in DOMAIN s : j + 1 \in DOMAIN (u \o s) /\ (u \o s)[j + 1] = s[j]
  BY <1>4, <1>5, <1>7
<1>13. \A j \in DOMAIN (u \o s) : j # 1 => j - 1 \in DOMAIN s /\ (u \o s)[j] = s[j - 1]
  BY <1>3, <1>4, <1>5, <1>8
<1> QED
  BY <1>3, <1>4, <1>5, <1>6, <1>10, <1>11, <1>12, <1>13 DEF f

\* The new call starts at its first child, the others stay where they were.
LEMMA AtPushed ==
  ASSUME NEW s \in Seq(Frames), Apart(s), NEW op \in Ops, NEW c \in Cells, At(s, op, c) = 0
  PROVE  /\ Apart(Pushed(s, op, c))
         /\ \A o, p : At(Pushed(s, op, c), o, p) = IF o = op /\ p = c THEN 1 ELSE At(s, o, p)
<1> DEFINE u == Pushed(s, op, c)
<1>1. /\ u \in Seq(Frames) /\ Len(s) \in Nat /\ DOMAIN s = 1..Len(s) /\ DOMAIN u = 1..(Len(s) + 1)
      /\ u[1].op = op /\ u[1].cell = c /\ u[1].next = 1
      /\ \A j \in DOMAIN s : j + 1 \in DOMAIN u /\ u[j + 1] = s[j]
      /\ \A j \in DOMAIN u : j # 1 => j - 1 \in DOMAIN s /\ u[j] = s[j - 1]
  <2>1. /\ u \in Seq(Frames) /\ Len(s) \in Nat /\ DOMAIN s = 1..Len(s) /\ DOMAIN u = 1..(Len(s) + 1)
        /\ u[1] = [op |-> op, cell |-> c, next |-> 1]
        /\ \A j \in DOMAIN s : j + 1 \in DOMAIN u /\ u[j + 1] = s[j]
        /\ \A j \in DOMAIN u : j # 1 => j - 1 \in DOMAIN s /\ u[j] = s[j - 1]
    BY PushedIs
  <2> HIDE DEF u
  <2> QED
    BY <2>1
<1>2. \A j \in DOMAIN s : ~(s[j].op = op /\ s[j].cell = c)
  BY AtSome
<1> HIDE DEF u
<1>3. Apart(u)
  <2> SUFFICES ASSUME NEW j \in DOMAIN u, NEW k \in DOMAIN u, u[j].op = u[k].op, u[j].cell = u[k].cell
               PROVE  j = k
    BY DEF Apart
  <2>1. CASE j = 1 /\ k # 1
    BY <1>1, <1>2, <2>1
  <2>2. CASE j # 1 /\ k = 1
    BY <1>1, <1>2, <2>2
  <2>3. CASE j # 1 /\ k # 1
    <3>1. j - 1 = k - 1
      BY <1>1, <2>3 DEF Apart
    <3> QED
      BY <3>1, <1>1
  <2> QED
    BY <2>1, <2>2, <2>3
<1>4. 1 \in DOMAIN u
  BY <1>1
<1>5. ASSUME NEW o, NEW p PROVE At(u, o, p) = IF o = op /\ p = c THEN 1 ELSE At(s, o, p)
  <2>1. CASE o = op /\ p = c
    <3>1. At(u, u[1].op, u[1].cell) = u[1].next
      BY <1>3, <1>4, AtFrame
    <3> QED
      BY <3>1, <1>1, <2>1
  <2>2. CASE ~(o = op /\ p = c)
    <3> DEFINE n == At(s, o, p)
    <3>1. /\ n \in Nat
          /\ n > 0 => \E j \in DOMAIN s : s[j].op = o /\ s[j].cell = p /\ s[j].next = n
          /\ n = 0 => \A j \in DOMAIN s : ~(s[j].op = o /\ s[j].cell = p)
      BY AtSome
    <3> HIDE DEF n
    <3>2. n > 0 => \E j \in DOMAIN u : u[j].op = o /\ u[j].cell = p /\ u[j].next = n
      BY <3>1, <1>1
    <3>3. n = 0 => \A j \in DOMAIN u : ~(u[j].op = o /\ u[j].cell = p)
      BY <3>1, <1>1, <2>2
    <3>4. At(u, o, p) = n
      BY <3>1, <3>2, <3>3, <1>1, <1>3, AtIs
    <3> QED
      BY <3>4, <2>2 DEF n
  <2> QED
    BY <2>1, <2>2
<1> QED
  BY <1>3, <1>5 DEF u

\* A call returns.
LEMMA TailIs ==
  ASSUME NEW s \in Seq(Frames), s # <<>>
  PROVE  /\ Tail(s) \in Seq(Frames) /\ 1 \in DOMAIN s /\ Head(s) = s[1] /\ s[1] \in Frames
         /\ \A j \in DOMAIN Tail(s) : j \in Nat /\ j + 1 \in DOMAIN s /\ Tail(s)[j] = s[j + 1]
         /\ \A j \in DOMAIN s : j \in Nat /\ (j # 1 => j - 1 \in DOMAIN Tail(s) /\ Tail(s)[j - 1] = s[j])
<1>1. Len(s) \in Nat \ {0} /\ DOMAIN s = 1..Len(s)
  BY EmptySeq, LenProperties
<1>2. Tail(s) \in Seq(Frames) /\ Len(Tail(s)) = Len(s) - 1 /\ Head(s) = s[1] /\ Head(s) \in Frames
  BY HeadTailProperties, <1>1
<1>3. DOMAIN Tail(s) = 1..(Len(s) - 1)
  BY <1>2, LenProperties
<1>4. \A j \in 1..(Len(s) - 1) : Tail(s)[j] = s[j + 1]
  BY <1>1
<1>5. \A j \in 1..(Len(s) - 1) : j \in Nat /\ j + 1 \in 1..Len(s)
  BY <1>1
<1>6. \A j \in 1..Len(s) : j \in Nat /\ (j # 1 => j - 1 \in 1..(Len(s) - 1) /\ (j - 1) + 1 = j)
  BY <1>1
<1> QED
  BY <1>1, <1>2, <1>3, <1>4, <1>5, <1>6

\* The innermost call has returned, the others stay where they were.
LEMMA AtTail ==
  ASSUME NEW s \in Seq(Frames), s # <<>>, Apart(s)
  PROVE  /\ Apart(Tail(s))
         /\ At(s, Head(s).op, Head(s).cell) = Head(s).next
         /\ \A op, p : At(Tail(s), op, p) = IF op = Head(s).op /\ p = Head(s).cell THEN 0 ELSE At(s, op, p)
<1> DEFINE u == Tail(s)
<1>1. /\ u \in Seq(Frames) /\ 1 \in DOMAIN s /\ Head(s) = s[1] /\ s[1] \in Frames
      /\ \A j \in DOMAIN u : j \in Nat /\ j + 1 \in DOMAIN s /\ u[j] = s[j + 1]
      /\ \A j \in DOMAIN s : j \in Nat /\ (j # 1 => j - 1 \in DOMAIN u /\ u[j - 1] = s[j])
  BY TailIs
<1> HIDE DEF u
<1>2. Apart(u)
  BY <1>1, SMTT(60) DEF Apart
<1>3. At(s, Head(s).op, Head(s).cell) = Head(s).next
  BY <1>1, AtFrame
<1>4. \A j \in DOMAIN u : j + 1 # 1 /\ ~(u[j].op = s[1].op /\ u[j].cell = s[1].cell)
  <2> TAKE j \in DOMAIN u
  <2>1. j \in DOMAIN s
    <3>1. j \in Nat /\ DOMAIN s = 1..Len(s) /\ Len(s) \in Nat /\ j + 1 \in 1..Len(s) /\ DOMAIN u = 1..Len(u) /\ Len(u) \in Nat
      BY <1>1, LenProperties
    <3> QED
      BY <3>1
  <2>2. j + 1 # 1
    <3>1. DOMAIN u = 1..Len(u) /\ Len(u) \in Nat
      BY <1>1, LenProperties
    <3> QED
      BY <3>1
  <2> QED
    BY <2>2, <1>1 DEF Apart
<1>5. ASSUME NEW o, NEW p PROVE At(u, o, p) = IF o = s[1].op /\ p = s[1].cell THEN 0 ELSE At(s, o, p)
  <2>1. CASE o = s[1].op /\ p = s[1].cell
    <3>1. \A j \in DOMAIN u : ~(u[j].op = o /\ u[j].cell = p)
      BY <1>4, <2>1
    <3> QED
      BY <3>1, <2>1 DEF At, Calls
  <2>2. CASE ~(o = s[1].op /\ p = s[1].cell)
    <3> DEFINE n == At(s, o, p)
    <3>1. /\ n \in Nat
          /\ n > 0 => \E j \in DOMAIN s : s[j].op = o /\ s[j].cell = p /\ s[j].next = n
          /\ n = 0 => \A j \in DOMAIN s : ~(s[j].op = o /\ s[j].cell = p)
      BY AtSome
    <3> HIDE DEF n
    <3>2. n > 0 => \E j \in DOMAIN u : u[j].op = o /\ u[j].cell = p /\ u[j].next = n
      BY <3>1, <1>1, <2>2, ZenonT(60)
    <3>3. n = 0 => \A j \in DOMAIN u : ~(u[j].op = o /\ u[j].cell = p)
      BY <3>1, <1>1
    <3>4. At(u, o, p) = n
      BY <3>1, <3>2, <3>3, <1>1, <1>2, AtIs
    <3> QED
      BY <3>4, <2>2 DEF n
  <2> QED
    BY <2>1, <2>2
<1> QED
  BY <1>1, <1>2, <1>3, <1>5 DEF u

\* The sequence of calls, with a name for its type.
LEMMA HeapTyped ==
  ASSUME HeapTypeOK
  PROVE  /\ stack \in Seq(Frames) /\ live \subseteq Cells /\ kids \in [Cells -> Seq(Cells)]
         /\ hdr \in [Cells -> [rc : 0..RCMax, color : Colors, buffered : BOOLEAN]]
         /\ handles \in [Cells -> Nat] /\ lost \subseteq Cells
         /\ cand \in Seq(Cells) /\ work \in Seq(Cells) /\ kept \in Seq(Cells) /\ deferred \in Seq(Cells)
         /\ phase \in {"idle", "mark", "scan", "white", "dispose"}
  BY DEF HeapTypeOK, Frames, Ops

\* The header of a cell, as a record.
LEMMA HeaderType ==
  ASSUME HeapTypeOK, NEW c \in Cells
  PROVE  /\ hdr[c] = [rc |-> hdr[c].rc, color |-> hdr[c].color, buffered |-> hdr[c].buffered]
         /\ hdr[c].rc \in 0..RCMax /\ hdr[c].rc \in Nat /\ hdr[c].color \in Colors /\ hdr[c].buffered \in BOOLEAN
<1>1. hdr[c] \in [rc : 0..RCMax, color : Colors, buffered : BOOLEAN]
  BY HeapTyped
<1>2. RCMax \in Nat
  BY HeapAssumption
<1> QED
  BY <1>1, <1>2

\* The references of a cell, as a sequence.
LEMMA KidsType ==
  ASSUME HeapTypeOK, NEW p \in Cells
  PROVE  /\ kids[p] \in Seq(Cells) /\ DOMAIN kids[p] = 1..Len(kids[p]) /\ Len(kids[p]) \in Nat
         /\ \A i \in DOMAIN kids[p] : i \in Nat \ {0} /\ kids[p][i] \in Cells
<1>1. kids[p] \in Seq(Cells)
  BY HeapTyped
<1> QED
  BY <1>1, LenProperties, ElementOfSeq

\* The calls of a well-formed stack.
LEMMA CallsLive ==
  ASSUME NEW s \in Seq(Frames), NEW ph, NEW L, Stacked(s, ph, L), NEW op, NEW p
  PROVE  /\ At(s, op, p) \in Nat
         /\ At(s, op, p) > 0 => /\ op \in OpsOf(ph) /\ p \in L /\ (op # "dispose" => p \notin Acyclic)
                                /\ (ph = "white" /\ op = "dispose" => p \in Acyclic)
<1>1. /\ At(s, op, p) \in Nat
      /\ At(s, op, p) > 0 => \E j \in DOMAIN s : s[j].op = op /\ s[j].cell = p /\ s[j].next = At(s, op, p)
  BY AtSome
<1> QED
  BY <1>1 DEF Stacked

\* Only the calls of the phase are in progress, on live cells only.
LEMMA NoOtherCalls ==
  ASSUME NEW s \in Seq(Frames), NEW ph, NEW L, Stacked(s, ph, L)
  PROVE  /\ \A op, p : At(s, op, p) \in Nat /\ (op \notin OpsOf(ph) => At(s, op, p) = 0)
         /\ \A op, p : p \notin L => At(s, op, p) = 0
         /\ \A op, p : At(s, op, p) > 0 /\ op # "dispose" => p \notin Acyclic
         /\ \A p : ph = "white" /\ p \notin Acyclic => At(s, "dispose", p) = 0
<1>1. \A op, p : /\ At(s, op, p) \in Nat
                 /\ At(s, op, p) > 0 => /\ op \in OpsOf(ph) /\ p \in L /\ (op # "dispose" => p \notin Acyclic)
                                        /\ (ph = "white" /\ op = "dispose" => p \in Acyclic)
  BY CallsLive
<1> QED
  BY <1>1

\* The calls of each phase.
LEMMA PhaseOps ==
  /\ OpsOf("mark") = {"gray"} /\ OpsOf("scan") = {"scan", "black"} /\ OpsOf("white") = {"white", "dispose"}
  /\ OpsOf("idle") = {"dispose"} /\ OpsOf("dispose") = {"dispose"}
  BY DEF OpsOf

\* The calls in progress are on different cells.
LEMMA StackedApart == ASSUME NEW s, NEW ph, NEW L, Stacked(s, ph, L) PROVE Apart(s)
  BY DEF Stacked, Apart

\* No call in progress is fine in any phase.
LEMMA StackedEmpty == ASSUME NEW ph, NEW L PROVE Stacked(<<>>, ph, L)
  BY DEF Stacked

\* The innermost call.
LEMMA TopCall ==
  ASSUME NEW s \in Seq(Frames), NEW ph, NEW L, Stacked(s, ph, L), s # <<>>
  PROVE  /\ Head(s) \in Frames /\ At(s, Head(s).op, Head(s).cell) = Head(s).next
         /\ Head(s).op \in OpsOf(ph) /\ Head(s).cell \in L
         /\ Head(s).op # "dispose" => Head(s).cell \notin Acyclic
         /\ Head(s).op # "black" => \A p : At(s, "black", p) = 0
<1>1. 1 \in DOMAIN s /\ Head(s) = s[1] /\ s[1] \in Frames
  BY TailIs
<1>2. At(s, Head(s).op, Head(s).cell) = Head(s).next
  BY <1>1, StackedApart, AtFrame
<1>3. ASSUME Head(s).op # "black", NEW p PROVE At(s, "black", p) = 0
  <2>1. \A j \in DOMAIN s : s[j].op # "black"
    <3> SUFFICES ASSUME NEW j \in DOMAIN s, s[j].op = "black" PROVE FALSE
      OBVIOUS
    <3>1. j # 1
      BY <1>1, <1>3
    <3>2. j \in Nat /\ 1 < j
      <4>1. DOMAIN s = 1..Len(s) /\ Len(s) \in Nat
        BY LenProperties
      <4> QED
        BY <4>1, <3>1
    <3> QED
      BY <3>2, <1>1, <1>3 DEF Stacked
  <2> QED
    BY <2>1, AtSome
<1> QED
  BY <1>1, <1>2, <1>3 DEF Stacked

\* The calls stay in order when the innermost one moves on.
LEMMA StackedAdvanced ==
  ASSUME NEW s \in Seq(Frames), NEW ph, NEW L, Stacked(s, ph, L), s # <<>>
  PROVE  Stacked(Advanced(s), ph, L) /\ Advanced(s) \in Seq(Frames)
<1>1. /\ Advanced(s) \in Seq(Frames) /\ DOMAIN Advanced(s) = DOMAIN s
      /\ \A j \in DOMAIN s : Advanced(s)[j].op = s[j].op /\ Advanced(s)[j].cell = s[j].cell
  BY AdvancedIs
<1> QED
  BY <1>1 DEF Stacked

\* They stay in order when a call of the phase is entered.
LEMMA StackedPushed ==
  ASSUME NEW s \in Seq(Frames), NEW ph, NEW L, Stacked(s, ph, L), NEW op \in Ops, NEW c \in Cells,
         At(s, op, c) = 0, op \in OpsOf(ph), c \in L, op # "dispose" => c \notin Acyclic,
         ph = "white" /\ op = "dispose" => c \in Acyclic,
         op # "black" => \A p : At(s, "black", p) = 0
  PROVE  Stacked(Pushed(s, op, c), ph, L) /\ Pushed(s, op, c) \in Seq(Frames)
<1> DEFINE u == Pushed(s, op, c)
<1>1. /\ u \in Seq(Frames) /\ Len(s) \in Nat /\ DOMAIN s = 1..Len(s) /\ DOMAIN u = 1..(Len(s) + 1)
      /\ u[1] = [op |-> op, cell |-> c, next |-> 1]
      /\ \A j \in DOMAIN u : j # 1 => j - 1 \in DOMAIN s /\ u[j] = s[j - 1]
  BY PushedIs
<1>2. Apart(u)
  BY AtPushed, StackedApart
<1> HIDE DEF u
<1>3. u[1].op = op /\ u[1].cell = c
  BY <1>1
<1>4. \A j, k \in DOMAIN u : j < k /\ u[k].op = "black" => u[j].op = "black"
  <2> SUFFICES ASSUME NEW j \in DOMAIN u, NEW k \in DOMAIN u, j < k, u[k].op = "black" PROVE u[j].op = "black"
    OBVIOUS
  <2>1. k # 1 /\ k - 1 \in DOMAIN s /\ s[k - 1].op = "black" /\ u[k] = s[k - 1]
    BY <1>1
  <2>2. CASE j = 1
    <3>1. ~(\A p : At(s, "black", p) = 0)
      <4>1. At(s, "black", s[k - 1].cell) = 0 => ~(s[k - 1].op = "black" /\ s[k - 1].cell = s[k - 1].cell)
        BY <2>1, AtSome
      <4> QED
        BY <2>1, <4>1
    <3> QED
      BY <3>1, <1>3, <2>2
  <2>3. CASE j # 1
    <3>1. j - 1 \in DOMAIN s /\ u[j] = s[j - 1] /\ j - 1 < k - 1
      BY <1>1, <2>3
    <3> QED
      BY <3>1, <2>1 DEF Stacked
  <2> QED
    BY <2>2, <2>3
<1>5. \A j \in DOMAIN u : /\ u[j].op \in OpsOf(ph) /\ u[j].cell \in L
                          /\ u[j].op # "dispose" => u[j].cell \notin Acyclic
                          /\ ph = "white" /\ u[j].op = "dispose" => u[j].cell \in Acyclic
  <2> TAKE j \in DOMAIN u
  <2>1. CASE j = 1
    BY <2>1, <1>3
  <2>2. CASE j # 1
    <3>1. j - 1 \in DOMAIN s /\ u[j] = s[j - 1]
      BY <1>1, <2>2
    <3> QED
      BY <3>1 DEF Stacked
  <2> QED
    BY <2>1, <2>2
<1>6. Stacked(u, ph, L)
  BY <1>2, <1>4, <1>5 DEF Stacked, Apart
<1> QED
  BY <1>1, <1>6 DEF u

\* They stay in order when the innermost one returns.
LEMMA StackedTail ==
  ASSUME NEW s \in Seq(Frames), NEW ph, NEW L, Stacked(s, ph, L), s # <<>>, NEW M,
         \A op, p : At(Tail(s), op, p) > 0 => p \in M
  PROVE  Stacked(Tail(s), ph, M) /\ Tail(s) \in Seq(Frames)
<1> DEFINE u == Tail(s)
<1>1. /\ u \in Seq(Frames)
      /\ \A j \in DOMAIN u : j \in Nat /\ j + 1 \in DOMAIN s /\ u[j] = s[j + 1]
  BY TailIs
<1>2. \A j \in DOMAIN u : u[j].cell \in M
  <2> TAKE j \in DOMAIN u
  <2>1. u[j] \in Frames
    BY <1>1, LenProperties, ElementOfSeq
  <2>2. Apart(u)
    BY StackedApart, AtTail
  <2> HIDE DEF u
  <2>3. At(u, u[j].op, u[j].cell) = u[j].next
    BY <2>2, AtFrame
  <2> QED
    BY <2>1, <2>3 DEF Frames, u
<1> HIDE DEF u
<1>3. Stacked(u, ph, M)
  <2>1. \A j, k \in DOMAIN u : u[j].op = u[k].op /\ u[j].cell = u[k].cell => j = k
    BY <1>1 DEF Stacked
  <2>2. \A j, k \in DOMAIN u : j < k /\ u[k].op = "black" => u[j].op = "black"
    <3> SUFFICES ASSUME NEW j \in DOMAIN u, NEW k \in DOMAIN u, j < k, u[k].op = "black" PROVE u[j].op = "black"
      OBVIOUS
    <3>1. j + 1 < k + 1 /\ s[k + 1].op = "black" /\ j + 1 \in DOMAIN s /\ k + 1 \in DOMAIN s /\ u[j] = s[j + 1]
      BY <1>1
    <3> QED
      BY <3>1 DEF Stacked
  <2>3. \A j \in DOMAIN u : /\ u[j].op \in OpsOf(ph)
                            /\ u[j].op # "dispose" => u[j].cell \notin Acyclic
                            /\ ph = "white" /\ u[j].op = "dispose" => u[j].cell \in Acyclic
    BY <1>1 DEF Stacked
  <2> QED
    BY <2>1, <2>2, <2>3, <1>2 DEF Stacked
<1> QED
  BY <1>1, <1>3 DEF u

-----------------------------------------------------------------------------
(* What the functions on headers do.                                        *)

\* A header is written, and a call may be made on the cell.
Put(h, c, r, k, b) == [h EXCEPT ![c] = [rc |-> r, color |-> k, buffered |-> b]]
Effect(s0, c, push, r, k, b) == hdr' = Put(hdr, c, r, k, b) /\ stack' = IF push = "none" THEN s0 ELSE Pushed(s0, push, c)
Unlisted == cand' = cand /\ lost' = lost

Mach(h, q, s, l) == [hdr |-> h, cand |-> q, stack |-> s, lost |-> l]
On(s0) == Mach(hdr, cand, s0, lost)

\* The machine, spelled out.
LEMMA MachineIs ==
  /\ Machine = On(stack)
  /\ [Machine EXCEPT !.stack[1].next = @ + 1] = On(Advanced(stack))
  BY DEF Machine, On, Mach, Advanced

\* What becoming a machine assigns.
LEMMA MachBecome ==
  ASSUME NEW h, NEW q, NEW s, NEW l
  PROVE  Become(Mach(h, q, s, l)) <=> (hdr' = h /\ cand' = q /\ stack' = s /\ lost' = l)
  BY DEF Mach, Become

\* The machine with the header of one cell in the open.
With(c, s, r, k, b) == Mach(Put(hdr, c, r, k, b), cand, s, lost)

\* The fields of a machine with the header of c in the open.
LEMMA WithFields ==
  ASSUME NEW c \in DOMAIN hdr, NEW s, NEW r, NEW k, NEW b
  PROVE  /\ With(c, s, r, k, b).hdr[c].rc = r /\ With(c, s, r, k, b).hdr[c].buffered = b /\ Color(With(c, s, r, k, b), c) = k
         /\ Become(With(c, s, r, k, b)) <=> (hdr' = Put(hdr, c, r, k, b) /\ cand' = cand /\ stack' = s /\ lost' = lost)
<1> DEFINE A == [rc |-> r, color |-> k, buffered |-> b]
           g == [hdr EXCEPT ![c] = A]
<1>1. g[c] = A /\ A.rc = r /\ A.color = k /\ A.buffered = b /\ Put(hdr, c, r, k, b) = g
  BY DEF Put
<1> HIDE DEF A, g
<1>2. With(c, s, r, k, b).hdr = g
  BY <1>1 DEF With, Mach
<1>3. Become(With(c, s, r, k, b)) <=> (hdr' = g /\ cand' = cand /\ stack' = s /\ lost' = lost)
  BY <1>1 DEF With, Mach, Become
<1> QED
  BY <1>1, <1>2, <1>3 DEF Color

\* A call leaves the header alone.
LEMMA WithCall ==
  ASSUME NEW c, NEW s, NEW r, NEW k, NEW b, NEW op
  PROVE  Call(With(c, s, r, k, b), op, c) = With(c, Pushed(s, op, c), r, k, b)
<1> DEFINE g == Put(hdr, c, r, k, b)
           m == With(c, s, r, k, b)
<1>1. m = [hdr |-> g, cand |-> cand, stack |-> s, lost |-> lost]
  BY DEF With, Mach
<1>2. Call(m, op, c) = [m EXCEPT !.stack = Pushed(@, op, c)]
  BY DEF Call, Pushed
<1> HIDE DEF g, m
<1>3. Call(m, op, c) = [hdr |-> g, cand |-> cand, stack |-> Pushed(s, op, c), lost |-> lost]
  BY <1>1, <1>2
<1> QED
  BY <1>3 DEF g, m, With, Mach

\* What adding, painting and buffering make of the header.
LEMMA WithPut ==
  ASSUME NEW c \in DOMAIN hdr, NEW s, NEW r, NEW k, NEW b
  PROVE  /\ \A n : Add(With(c, s, r, k, b), c, n) = With(c, s, (r + n) % (RCMax + 1), k, b)
         /\ \A x : Paint(With(c, s, r, k, b), c, x) = With(c, s, r, x, b)
         /\ \A x : [With(c, s, r, k, b) EXCEPT !.hdr[c].buffered = x] = With(c, s, r, k, x)
         /\ \A x : [With(c, s, r, k, b) EXCEPT !.hdr[c].rc = x] = With(c, s, x, k, b)
<1> DEFINE A == [rc |-> r, color |-> k, buffered |-> b]
           g == [hdr EXCEPT ![c] = A]
<1>1. g[c] = A /\ \A B : [g EXCEPT ![c] = B] = [hdr EXCEPT ![c] = B]
  <2>1. DOMAIN g = DOMAIN hdr /\ g[c] = A /\ \A x \in DOMAIN hdr : x # c => g[x] = hdr[x]
    OBVIOUS
  <2> HIDE DEF A, g
  <2> QED
    BY <2>1
<1>2. Put(hdr, c, r, k, b) = g /\ A.rc = r /\ A.color = k /\ A.buffered = b
  BY DEF Put
<1>3. \A x : /\ [A EXCEPT !.rc = x] = [rc |-> x, color |-> k, buffered |-> b]
             /\ [A EXCEPT !.color = x] = [rc |-> r, color |-> x, buffered |-> b]
             /\ [A EXCEPT !.buffered = x] = [rc |-> r, color |-> k, buffered |-> x]
  OBVIOUS
<1> HIDE DEF A, g
<1>4. \A x : /\ [g EXCEPT ![c].rc = x] = Put(hdr, c, x, k, b)
             /\ [g EXCEPT ![c].color = x] = Put(hdr, c, r, x, b)
             /\ [g EXCEPT ![c].buffered = x] = Put(hdr, c, r, k, x)
  BY <1>1, <1>3 DEF Put
<1>5. With(c, s, r, k, b) = Mach(g, cand, s, lost)
  BY <1>2 DEF With
<1>6. \A n : Add(Mach(g, cand, s, lost), c, n) = With(c, s, (r + n) % (RCMax + 1), k, b)
  <2> TAKE n
  <2>1. Add(Mach(g, cand, s, lost), c, n) = Mach([g EXCEPT ![c].rc = (g[c].rc + n) % (RCMax + 1)], cand, s, lost)
    BY DEF Add, Mach
  <2> QED
    BY <2>1, <1>1, <1>2, <1>4 DEF With
<1>7. \A x : Paint(Mach(g, cand, s, lost), c, x) = With(c, s, r, x, b)
  <2> TAKE x
  <2>1. Paint(Mach(g, cand, s, lost), c, x) = Mach([g EXCEPT ![c].color = x], cand, s, lost)
    BY DEF Paint, Mach
  <2> QED
    BY <2>1, <1>4 DEF With
<1>8. \A x : [Mach(g, cand, s, lost) EXCEPT !.hdr[c].buffered = x] = With(c, s, r, k, x)
  <2> TAKE x
  <2>1. [Mach(g, cand, s, lost) EXCEPT !.hdr[c].buffered = x] = Mach([g EXCEPT ![c].buffered = x], cand, s, lost)
    BY DEF Mach
  <2> QED
    BY <2>1, <1>4 DEF With
<1>9. \A x : [Mach(g, cand, s, lost) EXCEPT !.hdr[c].rc = x] = With(c, s, x, k, b)
  <2> TAKE x
  <2>1. [Mach(g, cand, s, lost) EXCEPT !.hdr[c].rc = x] = Mach([g EXCEPT ![c].rc = x], cand, s, lost)
    BY DEF Mach
  <2> QED
    BY <2>1, <1>4 DEF With
<1> QED
  BY <1>5, <1>6, <1>7, <1>8, <1>9

\* The machine of a state, with the header of one cell in the open.
LEMMA OnPut ==
  ASSUME HeapTypeOK, NEW s0, NEW c \in Cells
  PROVE  /\ c \in DOMAIN hdr /\ hdr = Put(hdr, c, hdr[c].rc, hdr[c].color, hdr[c].buffered)
         /\ On(s0) = With(c, s0, hdr[c].rc, hdr[c].color, hdr[c].buffered)
         /\ hdr[c].rc \in Nat /\ hdr[c].rc \in 0..RCMax /\ hdr[c].buffered \in BOOLEAN /\ RCMax \in Nat
<1>1. /\ hdr[c] = [rc |-> hdr[c].rc, color |-> hdr[c].color, buffered |-> hdr[c].buffered]
      /\ hdr[c].rc \in Nat /\ hdr[c].rc \in 0..RCMax /\ hdr[c].buffered \in BOOLEAN
  BY HeaderType
<1>2. DOMAIN hdr = Cells /\ hdr = [x \in Cells |-> hdr[x]]
  BY HeapTyped
<1>3. hdr = [hdr EXCEPT ![c] = hdr[c]]
  BY <1>2
<1>4. hdr = Put(hdr, c, hdr[c].rc, hdr[c].color, hdr[c].buffered)
  BY <1>1, <1>3 DEF Put
<1>5. On(s0) = With(c, s0, hdr[c].rc, hdr[c].color, hdr[c].buffered)
  BY <1>4 DEF On, With
<1> QED
  BY <1>1, <1>2, <1>4, <1>5, HeapAssumption

\* The last reference to a buffered cell, to another one, and one of several.
LEMMA ReleaseTable ==
  ASSUME HeapTypeOK, NEW s0, NEW c \in Cells, hdr[c].rc > 0, hdr[c].rc < RCMax,
         c \notin Acyclic /\ ~hdr[c].buffered => hdr[c].color # "purple",
         Become(Release(On(s0), c))
  PROVE  \/ /\ hdr[c].rc = 1 /\ hdr[c].buffered
            /\ Effect(s0, c, "none", 0, "black", TRUE) /\ Unlisted
         \/ /\ hdr[c].rc = 1 /\ ~hdr[c].buffered
            /\ hdr' = hdr /\ stack' = Pushed(s0, "dispose", c) /\ Unlisted
         \/ /\ hdr[c].rc > 1 /\ (c \in Acyclic \/ hdr[c].buffered)
            /\ Effect(s0, c, "none", hdr[c].rc - 1, hdr[c].color, hdr[c].buffered) /\ Unlisted
         \/ /\ hdr[c].rc > 1 /\ c \notin Acyclic /\ ~hdr[c].buffered
            /\ \/ /\ attached /\ Effect(s0, c, "none", hdr[c].rc - 1, "purple", TRUE)
                  /\ cand' = Append(cand, c) /\ lost' = lost \ {c}
               \/ /\ ~attached /\ Effect(s0, c, "none", hdr[c].rc - 1, hdr[c].color, hdr[c].buffered)
                  /\ cand' = cand /\ lost' = lost \cup {c}
<1> DEFINE r == hdr[c].rc
           k == hdr[c].color
           b == hdr[c].buffered
           m == With(c, s0, r, k, b)
           n == With(c, s0, r - 1, k, b)
<1>1. /\ c \in DOMAIN hdr /\ hdr = Put(hdr, c, r, k, b) /\ On(s0) = m
      /\ r \in Nat /\ r \in 0..RCMax /\ b \in BOOLEAN /\ RCMax \in Nat
  BY OnPut
<1>2. (r + -1) % (RCMax + 1) = r - 1
  BY <1>1
<1>3. m.hdr[c].rc = r /\ m.hdr[c].buffered = b /\ n.hdr[c].buffered = b /\ Color(n, c) = k
  BY <1>1, WithFields, WithCall
<1>4. Add(m, c, -1) = n
  BY <1>1, <1>2, WithPut, WithFields
<1>5. Become(Release(m, c))
  BY <1>1
<1>6. CASE r = 1 /\ b
  <2>1. Release(m, c) = Park(m, c)
    <3>1. m.hdr[c].rc = 1 /\ 1 # RCMax /\ m.hdr[c].buffered
      BY <1>1, <1>3, <1>6
    <3> HIDE DEF m
    <3> QED
      BY <3>1 DEF Release, LastReference
  <2>1a. Park(m, c) = Paint([m EXCEPT !.hdr[c].rc = 0], c, "black")
    BY DEF Park, Paint, With, Mach
  <2>1b. [m EXCEPT !.hdr[c].rc = 0] = With(c, s0, 0, k, b)
    BY <1>1, WithPut
  <2>1c. Paint(With(c, s0, 0, k, b), c, "black") = With(c, s0, 0, "black", b)
    BY <1>1, WithPut
  <2>2. Become(With(c, s0, 0, "black", b))
    BY <2>1, <2>1a, <2>1b, <2>1c, <1>5
  <2>3. hdr' = Put(hdr, c, 0, "black", b) /\ cand' = cand /\ stack' = s0 /\ lost' = lost
    BY <1>1, <2>2, WithFields, WithCall
  <2>4. b = TRUE
    BY <1>1, <1>6
  <2> QED
    BY <2>3, <2>4, <1>6 DEF Effect, Unlisted
<1>7. CASE r = 1 /\ ~b
  <2>1. Release(m, c) = Call(m, "dispose", c)
    BY <1>7, <1>3, <1>1 DEF Release, LastReference
  <2>2. Become(With(c, Pushed(s0, "dispose", c), r, k, b))
    BY <2>1, <1>5, WithFields, WithCall
  <2>3. hdr' = hdr /\ cand' = cand /\ stack' = Pushed(s0, "dispose", c) /\ lost' = lost
    BY <2>2, <1>1, WithFields, WithCall
  <2> QED
    BY <2>3, <1>7 DEF Unlisted
<1>8. CASE r > 1 /\ (c \in Acyclic \/ b)
  <2>1. Release(m, c) = n
    BY <1>8, <1>3, <1>1, <1>4 DEF Release, Decrement
  <2>2. hdr' = Put(hdr, c, r - 1, k, b) /\ cand' = cand /\ stack' = s0 /\ lost' = lost
    BY <1>1, <2>1, <1>5, WithFields, WithCall
  <2> QED
    BY <2>2, <1>8 DEF Effect, Unlisted
<1>9. CASE r > 1 /\ c \notin Acyclic /\ ~b
  <2>1. Release(m, c) = Enroll(n, c)
    BY <1>9, <1>3, <1>1, <1>4 DEF Release, Decrement
  <2>2. Become(Enroll(n, c))
    BY <2>1, <1>5
  <2>3. k # "purple"
    BY <1>9
  <2>4. CASE attached
    <3>1. Enroll(n, c) = [n EXCEPT !.hdr[c].color = "purple", !.hdr[c].buffered = TRUE,
                                   !.cand = Append(@, c), !.lost = @ \ {c}]
      BY <2>3, <2>4, <1>3, <1>9 DEF Enroll, PossibleRoot
    <3>2. [n EXCEPT !.hdr[c].color = "purple", !.hdr[c].buffered = TRUE, !.cand = Append(@, c), !.lost = @ \ {c}]
          = [[Paint(n, c, "purple") EXCEPT !.hdr[c].buffered = TRUE] EXCEPT !.cand = Append(@, c), !.lost = @ \ {c}]
      BY DEF Paint, With, Mach
    <3>3a. Paint(n, c, "purple") = With(c, s0, r - 1, "purple", b)
      BY <1>1, WithPut
    <3>3. [Paint(n, c, "purple") EXCEPT !.hdr[c].buffered = TRUE] = With(c, s0, r - 1, "purple", TRUE)
      <4>1. \A x : [With(c, s0, r - 1, "purple", b) EXCEPT !.hdr[c].buffered = x] = With(c, s0, r - 1, "purple", x)
        BY <1>1, WithPut, SMTT(60)
      <4> QED
        BY <4>1, <3>3a
    <3>4. Enroll(n, c) = Mach(Put(hdr, c, r - 1, "purple", TRUE), Append(cand, c), s0, lost \ {c})
      BY <3>1, <3>2, <3>3 DEF With, Mach
    <3>5. hdr' = Put(hdr, c, r - 1, "purple", TRUE) /\ cand' = Append(cand, c) /\ stack' = s0 /\ lost' = lost \ {c}
      BY <2>2, <3>4, MachBecome
    <3> QED
      BY <3>5, <1>9, <2>4 DEF Effect
  <2>5. CASE ~attached
    <3>1. Enroll(n, c) = Mach(Put(hdr, c, r - 1, k, b), cand, s0, lost \cup {c})
      BY <2>5 DEF Enroll, With, Mach
    <3>2. hdr' = Put(hdr, c, r - 1, k, b) /\ cand' = cand /\ stack' = s0 /\ lost' = lost \cup {c}
      BY <2>2, <3>1, MachBecome
    <3> QED
      BY <3>2, <1>9, <2>5 DEF Effect
  <2> QED
    BY <2>4, <2>5
<1>10. r = 1 \/ r > 1
  BY <1>1
<1> QED
  BY <1>1, <1>6, <1>7, <1>8, <1>9, <1>10

\* What retain does to a header.
LEMMA RetainTable ==
  ASSUME HeapTypeOK, NEW c \in Cells, hdr[c].rc < RCMax, Become(Retain(Machine, c))
  PROVE  Effect(stack, c, "none", hdr[c].rc + 1, hdr[c].color, hdr[c].buffered) /\ Unlisted
<1> DEFINE r == hdr[c].rc
           k == hdr[c].color
           b == hdr[c].buffered
           m == With(c, stack, r, k, b)
<1>1. c \in DOMAIN hdr /\ Machine = m /\ r \in Nat /\ RCMax \in Nat
  BY OnPut, MachineIs
<1>2. (r + 1) % (RCMax + 1) = r + 1
  BY <1>1
<1>3. m.hdr[c].rc = r
  BY <1>1, WithFields, WithCall
<1>4. Retain(m, c) = With(c, stack, r + 1, k, b)
  BY <1>1, <1>2, <1>3, WithPut DEF Retain
<1>5. hdr' = Put(hdr, c, r + 1, k, b) /\ cand' = cand /\ stack' = stack /\ lost' = lost
  BY <1>1, <1>4, WithFields, WithCall
<1> QED
  BY <1>5 DEF Effect, Unlisted

\* mark_gray's callback, and mark_gray on a root.
LEMMA GrayTable ==
  ASSUME HeapTypeOK, NEW s0, NEW c \in Cells, hdr[c].rc > 0, Become(MarkGray(Add(On(s0), c, -1), c))
  PROVE  /\ Effect(s0, c, IF hdr[c].color = "gray" THEN "none" ELSE "gray", hdr[c].rc - 1, "gray", hdr[c].buffered)
         /\ Unlisted
<1> DEFINE r == hdr[c].rc
           k == hdr[c].color
           b == hdr[c].buffered
           m == With(c, s0, r, k, b)
           n == With(c, s0, r - 1, k, b)
<1>1. c \in DOMAIN hdr /\ On(s0) = m /\ r \in Nat /\ r \in 0..RCMax /\ RCMax \in Nat
  BY OnPut
<1>2. (r + -1) % (RCMax + 1) = r - 1
  BY <1>1
<1>3. Add(m, c, -1) = n /\ Color(n, c) = k
  BY <1>1, <1>2, WithPut, WithFields
<1>4. Become(MarkGray(n, c))
  BY <1>1, <1>3
<1>5. CASE k = "gray"
  <2>1. Become(n)
    BY <1>3, <1>4, <1>5 DEF MarkGray
  <2>2. hdr' = Put(hdr, c, r - 1, k, b) /\ cand' = cand /\ stack' = s0 /\ lost' = lost
    BY <1>1, <2>1, WithFields, WithCall
  <2> QED
    BY <2>2, <1>5 DEF Effect, Unlisted
<1>6. CASE k # "gray"
  <2>1. Become(Call(Paint(n, c, "gray"), "gray", c))
    BY <1>3, <1>4, <1>6 DEF MarkGray
  <2>2. Paint(n, c, "gray") = With(c, s0, r - 1, "gray", b)
    BY <1>1, WithPut
  <2>3. hdr' = Put(hdr, c, r - 1, "gray", b) /\ cand' = cand /\ stack' = Pushed(s0, "gray", c) /\ lost' = lost
    BY <1>1, <2>1, <2>2, WithFields, WithCall
  <2> QED
    BY <2>3, <1>6 DEF Effect, Unlisted
<1> QED
  BY <1>5, <1>6

\* What becomes of a candidate that is a root.
LEMMA RootTable ==
  ASSUME HeapTypeOK, NEW c \in Cells, hdr[c].color = "purple",
         Become(MarkGray([Machine EXCEPT !.hdr[c].buffered = FALSE], c))
  PROVE  Effect(stack, c, "gray", hdr[c].rc, "gray", FALSE) /\ Unlisted
<1> DEFINE r == hdr[c].rc
           k == hdr[c].color
           b == hdr[c].buffered
           m == With(c, stack, r, k, b)
<1>1. c \in DOMAIN hdr /\ Machine = m
  BY OnPut, MachineIs
<1>2. PICK f : f = FALSE
  OBVIOUS
<1> DEFINE n == With(c, stack, r, k, f)
<1>3. \A x : [m EXCEPT !.hdr[c].buffered = x] = With(c, stack, r, k, x)
  BY <1>1, WithPut
<1>4. [m EXCEPT !.hdr[c].buffered = FALSE] = n
  BY <1>2, <1>3
<1>5. Color(n, c) = k
  BY <1>1, WithFields
<1>6. Become(MarkGray(n, c))
  BY <1>1, <1>4
<1>7. Become(Call(Paint(n, c, "gray"), "gray", c))
  BY <1>5, <1>6 DEF MarkGray
<1>8. Paint(n, c, "gray") = With(c, stack, r, "gray", f)
  BY <1>1, WithPut
<1>9. hdr' = Put(hdr, c, r, "gray", f) /\ cand' = cand /\ stack' = Pushed(stack, "gray", c) /\ lost' = lost
  BY <1>1, <1>7, <1>8, WithFields, WithCall
<1> QED
  BY <1>2, <1>9 DEF Effect, Unlisted

\* What becomes of any other candidate.
LEMMA DroppedTable ==
  ASSUME HeapTypeOK, NEW c \in Cells, Become([Machine EXCEPT !.hdr[c].buffered = FALSE])
  PROVE  Effect(stack, c, "none", hdr[c].rc, hdr[c].color, FALSE) /\ Unlisted
<1>1. c \in DOMAIN hdr /\ Machine = With(c, stack, hdr[c].rc, hdr[c].color, hdr[c].buffered)
  BY OnPut, MachineIs
<1>2. PICK f : f = FALSE
  OBVIOUS
<1>3. \A x : [Machine EXCEPT !.hdr[c].buffered = x] = With(c, stack, hdr[c].rc, hdr[c].color, x)
  BY <1>1, WithPut
<1>4. Become(With(c, stack, hdr[c].rc, hdr[c].color, f))
  BY <1>2, <1>3
<1>5. hdr' = Put(hdr, c, hdr[c].rc, hdr[c].color, f) /\ cand' = cand /\ stack' = stack /\ lost' = lost
  BY <1>1, <1>4, WithFields
<1> QED
  BY <1>2, <1>5 DEF Effect, Unlisted

\* What scan_black does to a child.
LEMMA RepairTable ==
  ASSUME HeapTypeOK, NEW s0, NEW c \in Cells, hdr[c].rc < RCMax, Become(Repair(On(s0), c))
  PROVE  /\ Effect(s0, c, IF hdr[c].color = "black" THEN "none" ELSE "black", hdr[c].rc + 1, "black", hdr[c].buffered)
         /\ Unlisted
<1> DEFINE r == hdr[c].rc
           k == hdr[c].color
           b == hdr[c].buffered
           m == With(c, s0, r, k, b)
           n == With(c, s0, r + 1, k, b)
<1>1. c \in DOMAIN hdr /\ On(s0) = m /\ r \in Nat /\ RCMax \in Nat
  BY OnPut
<1>2. (r + 1) % (RCMax + 1) = r + 1
  BY <1>1
<1>3. Add(m, c, 1) = n /\ Color(n, c) = k
  BY <1>1, <1>2, WithPut, WithFields
<1>4. Become(IF Color(n, c) # "black" THEN ScanBlack(n, c) ELSE n)
  BY <1>1, <1>3 DEF Repair
<1>5. CASE k = "black"
  <2>1. Become(n)
    BY <1>3, <1>4, <1>5
  <2>2. hdr' = Put(hdr, c, r + 1, k, b) /\ cand' = cand /\ stack' = s0 /\ lost' = lost
    BY <1>1, <2>1, WithFields, WithCall
  <2> QED
    BY <2>2, <1>5 DEF Effect, Unlisted
<1>6. CASE k # "black"
  <2>1. Become(Call(Paint(n, c, "black"), "black", c))
    BY <1>3, <1>4, <1>6 DEF ScanBlack
  <2>2. Paint(n, c, "black") = With(c, s0, r + 1, "black", b)
    BY <1>1, WithPut
  <2>3. hdr' = Put(hdr, c, r + 1, "black", b) /\ cand' = cand /\ stack' = Pushed(s0, "black", c) /\ lost' = lost
    BY <1>1, <2>1, <2>2, WithFields, WithCall
  <2> QED
    BY <2>3, <1>6 DEF Effect, Unlisted
<1> QED
  BY <1>5, <1>6

\* scan leaves a cell alone, repairs it, or holds it for garbage.
LEMMA ScanTable ==
  ASSUME HeapTypeOK, NEW s0, NEW c \in Cells, Become(Scan(On(s0), c))
  PROVE  /\ Unlisted
         /\ \/ hdr[c].color # "gray" /\ hdr' = hdr /\ stack' = s0
            \/ hdr[c].color = "gray" /\ hdr[c].rc > 0 /\ Effect(s0, c, "black", hdr[c].rc, "black", hdr[c].buffered)
            \/ hdr[c].color = "gray" /\ hdr[c].rc = 0 /\ Effect(s0, c, "scan", 0, "white", hdr[c].buffered)
<1> DEFINE r == hdr[c].rc
           k == hdr[c].color
           b == hdr[c].buffered
           m == With(c, s0, r, k, b)
<1>1. c \in DOMAIN hdr /\ hdr = Put(hdr, c, r, k, b) /\ On(s0) = m /\ r \in Nat
  BY OnPut
<1>2. Color(m, c) = k /\ m.hdr[c].rc = r
  BY <1>1, WithFields, WithCall
<1>3. \A x : Paint(m, c, x) = With(c, s0, r, x, b)
  BY <1>1, WithPut
<1>4. Become(Scan(m, c))
  BY <1>1
<1>5. CASE k # "gray"
  <2>1. Become(m)
    BY <1>2, <1>4, <1>5 DEF Scan
  <2> QED
    BY <2>1, <1>1, <1>5, WithFields, WithCall DEF Unlisted
<1>6. CASE k = "gray" /\ r > 0
  <2>1. Become(Call(Paint(m, c, "black"), "black", c))
    BY <1>2, <1>4, <1>6 DEF Scan, ScanBlack
  <2>2. hdr' = Put(hdr, c, r, "black", b) /\ cand' = cand /\ stack' = Pushed(s0, "black", c) /\ lost' = lost
    BY <1>1, <2>1, <1>3, WithFields, WithCall
  <2> QED
    BY <2>2, <1>6 DEF Effect, Unlisted
<1>7. CASE k = "gray" /\ r = 0
  <2>1. Become(Call(Paint(m, c, "white"), "scan", c))
    BY <1>2, <1>4, <1>7 DEF Scan
  <2>2. hdr' = Put(hdr, c, r, "white", b) /\ cand' = cand /\ stack' = Pushed(s0, "scan", c) /\ lost' = lost
    BY <1>1, <2>1, <1>3, WithFields, WithCall
  <2> QED
    BY <2>2, <1>7 DEF Effect, Unlisted
<1> QED
  BY <1>1, <1>5, <1>6, <1>7

\* What collect_white does to a cell.
LEMMA WhiteTable ==
  ASSUME HeapTypeOK, NEW s0, NEW c \in Cells, ~hdr[c].buffered, Become(CollectWhite(On(s0), c))
  PROVE  /\ Unlisted
         /\ \/ hdr[c].color # "white" /\ hdr' = hdr /\ stack' = s0
            \/ hdr[c].color = "white" /\ Effect(s0, c, "white", hdr[c].rc, "black", FALSE)
<1> DEFINE r == hdr[c].rc
           k == hdr[c].color
           b == hdr[c].buffered
           m == With(c, s0, r, k, b)
<1>1. c \in DOMAIN hdr /\ hdr = Put(hdr, c, r, k, b) /\ On(s0) = m /\ b \in BOOLEAN
  BY OnPut
<1>2. Color(m, c) = k /\ m.hdr[c].buffered = b
  BY <1>1, WithFields, WithCall
<1>3. Paint(m, c, "black") = With(c, s0, r, "black", b)
  BY <1>1, WithPut
<1>4. Become(CollectWhite(m, c))
  BY <1>1
<1>5. CASE k # "white"
  <2>1. Become(m)
    BY <1>2, <1>4, <1>5 DEF CollectWhite
  <2> QED
    <3>1. hdr' = Put(hdr, c, r, k, b) /\ cand' = cand /\ stack' = s0 /\ lost' = lost
      BY <2>1, <1>1, WithFields
    <3> QED
      BY <3>1, <1>1, <1>5 DEF Unlisted
<1>6. CASE k = "white"
  <2>1. Become(Call(Paint(m, c, "black"), "white", c))
    BY <1>2, <1>4, <1>6 DEF CollectWhite
  <2>2. hdr' = Put(hdr, c, r, "black", b) /\ cand' = cand /\ stack' = Pushed(s0, "white", c) /\ lost' = lost
    BY <1>1, <2>1, <1>3, WithFields, WithCall
  <2>3. b = FALSE
    BY <1>1
  <2> QED
    BY <2>2, <2>3, <1>6 DEF Effect, Unlisted
<1> QED
  BY <1>5, <1>6

(* Covers.                                                                  *)

\* A smaller set is covered when what covered it is still there.
LEMMA CoverStep ==
  ASSUME NEW k, NEW Z, NEW S, Covered(k, Z, S), NEW k2, NEW Z2, NEW S2, Z2 \subseteq Z,
         \A x \in Z2 : x \in S => x \in S2,
         \A p \in Z : \A i \in DOMAIN k[p] : k[p][i] \in Z2 =>
             k[p][i] \in S2 \/ (p \in Z2 /\ \E j \in DOMAIN k2[p] : k2[p][j] = k[p][i])
  PROVE  Covered(k2, Z2, S2)
<1> SUFFICES ASSUME NEW X \in SUBSET Z2, X # {}
             PROVE  X \cap S2 # {} \/ \E p \in Z2 \ X : \E i \in DOMAIN k2[p] : k2[p][i] \in X
  BY DEF Covered
<1>1. X \cap S # {} \/ \E p \in Z \ X : \E i \in DOMAIN k[p] : k[p][i] \in X
  BY DEF Covered
<1> QED
  BY <1>1

\* A set stays covered with one more cell that a member refers to.
LEMMA CoverAdd ==
  ASSUME NEW k, NEW Z, NEW S, Covered(k, Z, S), NEW c, NEW S2, \A x \in Z : x \in S => x \in S2,
         c \in S2 \/ \E p \in Z : \E i \in DOMAIN k[p] : k[p][i] = c
  PROVE  Covered(k, Z \cup {c}, S2)
<1> SUFFICES ASSUME NEW X \in SUBSET (Z \cup {c}), X # {}, X \cap S2 = {}
             PROVE  \E p \in (Z \cup {c}) \ X : \E i \in DOMAIN k[p] : k[p][i] \in X
  BY DEF Covered
<1>1. CASE X \subseteq Z
  <2>1. X \cap S # {} \/ \E p \in Z \ X : \E i \in DOMAIN k[p] : k[p][i] \in X
    BY <1>1 DEF Covered
  <2> QED
    BY <2>1, <1>1
<1>2. CASE c \in X
  <2>1. PICK p \in Z : \E i \in DOMAIN k[p] : k[p][i] = c
    BY <1>2
  <2>2. CASE p \notin X
    BY <1>2, <2>1, <2>2
  <2>3. CASE c \in Z
    <3>1. X \subseteq Z
      BY <2>3
    <3> QED
      BY <3>1, <1>1
  <2>4. CASE p \in X /\ c \notin Z
    <3>1. X \ {c} \in SUBSET Z /\ X \ {c} # {} /\ (X \ {c}) \cap S = {}
      BY <2>1, <2>4
    <3>2. \E q \in Z \ (X \ {c}) : \E i \in DOMAIN k[q] : k[q][i] \in X \ {c}
      BY <3>1 DEF Covered
    <3> QED
      BY <3>2, <2>4
  <2> QED
    BY <2>2, <2>3, <2>4
<1> QED
  BY <1>1, <1>2

\* Nothing covers but the empty set.
LEMMA CoverNone ==
  ASSUME NEW k, NEW Z, Covered(k, Z, {})
  PROVE  Z = {}
<1>1. Z # {} => Z \cap {} # {} \/ \E p \in Z \ Z : \E i \in DOMAIN k[p] : k[p][i] \in Z
  BY DEF Covered
<1> QED
  BY <1>1

\* The empty set is covered by anything.
LEMMA CoverOfNone == ASSUME NEW k, NEW S PROVE Covered(k, {}, S)
  BY DEF Covered

-----------------------------------------------------------------------------
(* Counts.                                                                  *)

\* The slots are finitely many pairs of a cell and an index.
LEMMA SlotsIs ==
  ASSUME NEW k \in [Cells -> Seq(Cells)]
  PROVE  /\ IsFiniteSet(SlotsIn(k))
         /\ \A p, i : <<p, i>> \in SlotsIn(k) <=> p \in Cells /\ i \in DOMAIN k[p]
         /\ \A e \in SlotsIn(k) : e = <<e[1], e[2]>> /\ e[1] \in Cells /\ e[2] \in DOMAIN k[e[1]]
<1> DEFINE f == [p \in Cells |-> {p} \X DOMAIN k[p]]
           U == {f[p] : p \in Cells}
<1>1. IsFiniteSet(Cells)
  BY HeapAssumption
<1>2. IsFiniteSet(U)
  <2>1. f \in Surjection(Cells, U)
    BY DEF Surjection
  <2> QED
    BY <1>1, <2>1, FS_Surjection
<1>3. \A u \in U : IsFiniteSet(u)
  <2> SUFFICES ASSUME NEW p \in Cells PROVE IsFiniteSet({p} \X DOMAIN k[p])
    OBVIOUS
  <2>1. DOMAIN k[p] = 1..Len(k[p]) /\ Len(k[p]) \in Nat
    BY LenProperties
  <2>2. IsFiniteSet(1..Len(k[p])) /\ IsFiniteSet({p})
    BY <2>1, CountUpTo, FS_Singleton
  <2> QED
    BY <2>1, <2>2, FS_Product
<1>4. SlotsIn(k) = UNION U
  BY DEF SlotsIn
<1>5. IsFiniteSet(UNION U)
  BY <1>2, <1>3, FS_UNION
<1> HIDE DEF U
<1>6. IsFiniteSet(SlotsIn(k))
  BY <1>4, <1>5
<1> QED
  BY <1>6 DEF SlotsIn

\* The references that count are finitely many slots.
LEMMA RefsType ==
  ASSUME NEW k \in [Cells -> Seq(Cells)], NEW h, NEW s, NEW c
  PROVE  /\ IsFiniteSet(Counted(k, h, s, c)) /\ Refs(k, h, s, c) \in Nat
         /\ Refs(k, h, s, c) <= Cardinality(SlotsIn(k)) /\ Cardinality(SlotsIn(k)) \in Nat
<1>1. IsFiniteSet(SlotsIn(k)) /\ Counted(k, h, s, c) \subseteq SlotsIn(k)
  BY SlotsIs DEF Counted
<1> QED
  BY <1>1, CountSubset, FS_Subset DEF Refs

\* A count is at least the handles, at most the handles and the slots.
LEMMA CountType ==
  ASSUME NEW g \in [Cells -> Nat], NEW k \in [Cells -> Seq(Cells)], NEW h, NEW s, NEW c \in Cells
  PROVE  /\ Count(g, k, h, s, c) \in Nat /\ g[c] <= Count(g, k, h, s, c) /\ g[c] \in Nat
         /\ Count(g, k, h, s, c) <= g[c] + Cardinality(SlotsIn(k)) /\ Cardinality(SlotsIn(k)) \in Nat
<1>1. Refs(k, h, s, c) \in Nat /\ Refs(k, h, s, c) <= Cardinality(SlotsIn(k)) /\ Cardinality(SlotsIn(k)) \in Nat
  BY RefsType
<1>2. g[c] \in Nat
  OBVIOUS
<1> QED
  BY <1>1, <1>2 DEF Count

\* A reference that is counted, and what a positive count stands for.
LEMMA CountOne ==
  ASSUME NEW g \in [Cells -> Nat], NEW k \in [Cells -> Seq(Cells)], NEW h, NEW s, NEW c \in Cells
  PROVE  /\ \A p \in Cells : \A i \in DOMAIN k[p] : k[p][i] = c /\ ~Out(k, h, s, p, i) => Count(g, k, h, s, c) > 0
         /\ g[c] > 0 => Count(g, k, h, s, c) > 0
         /\ Count(g, k, h, s, c) > 0 =>
               g[c] > 0 \/ \E p \in Cells : \E i \in DOMAIN k[p] : k[p][i] = c /\ ~Out(k, h, s, p, i)
<1> DEFINE C == Counted(k, h, s, c)
<1>1. IsFiniteSet(C) /\ Cardinality(C) \in Nat /\ g[c] \in Nat
  BY RefsType DEF Refs
<1>2. \A p \in Cells : \A i \in DOMAIN k[p] : k[p][i] = c /\ ~Out(k, h, s, p, i) => <<p, i>> \in C
  BY SlotsIs DEF Counted
<1>3. \A e \in C : e[1] \in Cells /\ e[2] \in DOMAIN k[e[1]] /\ k[e[1]][e[2]] = c /\ ~Out(k, h, s, e[1], e[2])
  BY SlotsIs DEF Counted
<1>4. Count(g, k, h, s, c) = g[c] + Cardinality(C)
  BY DEF Count, Refs
<1>5. Cardinality(C) = 0 <=> C = {}
  BY <1>1, FS_EmptySet
<1> HIDE DEF C
<1>6. \A p \in Cells : \A i \in DOMAIN k[p] : k[p][i] = c /\ ~Out(k, h, s, p, i) => Cardinality(C) # 0
  BY <1>2, <1>5
<1>7. Cardinality(C) # 0 => \E p \in Cells : \E i \in DOMAIN k[p] : k[p][i] = c /\ ~Out(k, h, s, p, i)
  BY <1>3, <1>5
<1> QED
  BY <1>1, <1>4, <1>6, <1>7

\* A positive count comes from a handle or from a reference.
LEMMA CountSource ==
  ASSUME HeapTypeOK, NEW c \in Cells, Count(handles, kids, hdr, stack, c) > 0
  PROVE  handles[c] > 0 \/ \E p \in Cells : \E i \in DOMAIN kids[p] : kids[p][i] = c /\ ~Out(kids, hdr, stack, p, i)
<1> DEFINE C == Counted(kids, hdr, stack, c)
<1>1. IsFiniteSet(C) /\ Cardinality(C) \in Nat /\ handles[c] \in Nat
  BY HeapTyped, RefsType DEF Refs
<1>2. \A e \in C : e[1] \in Cells /\ e[2] \in DOMAIN kids[e[1]] /\ kids[e[1]][e[2]] = c /\ ~Out(kids, hdr, stack, e[1], e[2])
  BY HeapTyped, SlotsIs DEF Counted
<1>3. Count(handles, kids, hdr, stack, c) = handles[c] + Cardinality(C)
  BY DEF Count, Refs
<1>4. Cardinality(C) = 0 <=> C = {}
  BY <1>1, FS_EmptySet
<1> HIDE DEF C
<1>5. Cardinality(C) # 0 => \E p \in Cells : \E i \in DOMAIN kids[p] : kids[p][i] = c /\ ~Out(kids, hdr, stack, p, i)
  BY <1>2, <1>4
<1> QED
  BY <1>1, <1>3, <1>5

\* The counted slots of the heap are finitely many.
LEMMA CountedType ==
  ASSUME HeapTypeOK, NEW h, NEW s, NEW c
  PROVE  IsFiniteSet(Counted(kids, h, s, c)) /\ Cardinality(Counted(kids, h, s, c)) \in Nat
  BY HeapTyped, RefsType DEF Refs

\* The counts do not change while no reference is taken out or put back.
LEMMA CountSame ==
  ASSUME HeapTypeOK, \A p \in Cells : \A i \in DOMAIN kids[p] : Out(kids, hdr', stack', p, i) <=> Out(kids, hdr, stack, p, i)
  PROVE  \A c : Refs(kids, hdr', stack', c) = Refs(kids, hdr, stack, c)
<1>1. \A c : Counted(kids, hdr', stack', c) = Counted(kids, hdr, stack, c)
  BY HeapTyped, SlotsIs DEF Counted
<1> QED
  BY <1>1 DEF Refs

\* A reference taken out of the count, and one put back.
LEMMA CountLess ==
  ASSUME HeapTypeOK,
         NEW p \in Cells, NEW i \in DOMAIN kids[p], ~Out(kids, hdr, stack, p, i), Out(kids, hdr', stack', p, i),
         \A q \in Cells : \A j \in DOMAIN kids[q] : q # p \/ j # i => (Out(kids, hdr', stack', q, j) <=> Out(kids, hdr, stack, q, j))
  PROVE  \A c \in Cells : Refs(kids, hdr', stack', c) = Refs(kids, hdr, stack, c) - (IF c = kids[p][i] THEN 1 ELSE 0)
<1> TAKE c \in Cells
<1> DEFINE A == Counted(kids, hdr, stack, c)
           B == Counted(kids, hdr', stack', c)
<1>1. IsFiniteSet(A) /\ Cardinality(A) \in Nat /\ Cardinality(B) \in Nat
  BY CountedType
<1>2. \A e \in SlotsIn(kids) : e = <<p, i>> \/ e[1] # p \/ e[2] # i
  BY HeapTyped, SlotsIs
<1>3. \A e \in SlotsIn(kids) : e[1] \in Cells /\ e[2] \in DOMAIN kids[e[1]]
  BY HeapTyped, SlotsIs
<1>4. <<p, i>> \in SlotsIn(kids) /\ <<p, i>>[1] = p /\ <<p, i>>[2] = i
  BY HeapTyped, SlotsIs
<1>5. CASE c = kids[p][i]
  <2>1. <<p, i>> \in A /\ B = A \ {<<p, i>>}
    BY <1>2, <1>3, <1>4, <1>5 DEF Counted
  <2> HIDE DEF A, B
  <2>2. Cardinality(B) = Cardinality(A) - 1
    BY <2>1, <1>1, FS_RemoveElement
  <2> QED
    BY <2>2, <1>1, <1>5 DEF Refs, A, B
<1>6. CASE c # kids[p][i]
  <2>1. B = A
    BY <1>2, <1>3, <1>4, <1>6 DEF Counted
  <2> QED
    BY <2>1, <1>1, <1>6 DEF Refs
<1> QED
  BY <1>5, <1>6

\* One reference is put back into the count of its target.
LEMMA CountMore ==
  ASSUME HeapTypeOK,
         NEW p \in Cells, NEW i \in DOMAIN kids[p], Out(kids, hdr, stack, p, i), ~Out(kids, hdr', stack', p, i),
         \A q \in Cells : \A j \in DOMAIN kids[q] : q # p \/ j # i => (Out(kids, hdr', stack', q, j) <=> Out(kids, hdr, stack, q, j))
  PROVE  \A c \in Cells : Refs(kids, hdr', stack', c) = Refs(kids, hdr, stack, c) + (IF c = kids[p][i] THEN 1 ELSE 0)
<1> TAKE c \in Cells
<1> DEFINE A == Counted(kids, hdr', stack', c)
           B == Counted(kids, hdr, stack, c)
<1>1. IsFiniteSet(A) /\ Cardinality(A) \in Nat /\ Cardinality(B) \in Nat
  BY CountedType
<1>2. \A e \in SlotsIn(kids) : e = <<p, i>> \/ e[1] # p \/ e[2] # i
  BY HeapTyped, SlotsIs
<1>3. \A e \in SlotsIn(kids) : e[1] \in Cells /\ e[2] \in DOMAIN kids[e[1]]
  BY HeapTyped, SlotsIs
<1>4. <<p, i>> \in SlotsIn(kids) /\ <<p, i>>[1] = p /\ <<p, i>>[2] = i
  BY HeapTyped, SlotsIs
<1>5. CASE c = kids[p][i]
  <2>1. <<p, i>> \in A /\ B = A \ {<<p, i>>}
    BY <1>2, <1>3, <1>4, <1>5 DEF Counted
  <2> HIDE DEF A, B
  <2>2. Cardinality(B) = Cardinality(A) - 1
    BY <2>1, <1>1, FS_RemoveElement
  <2> QED
    BY <2>2, <1>1, <1>5 DEF Refs, A, B
<1>6. CASE c # kids[p][i]
  <2>1. B = A
    BY <1>2, <1>3, <1>4, <1>6 DEF Counted
  <2> QED
    BY <2>1, <1>1, <1>6 DEF Refs
<1> QED
  BY <1>5, <1>6

\* References that were out of the count go away.
LEMMA CountCleared ==
  ASSUME HeapTypeOK, kids' \in [Cells -> Seq(Cells)],
         NEW p \in Cells, kids'[p] = <<>>, \A q \in Cells : q # p => kids'[q] = kids[q],
         \A i \in DOMAIN kids[p] : Out(kids, hdr, stack, p, i),
         \A q \in Cells : \A j \in DOMAIN kids[q] : q # p => (Out(kids', hdr', stack', q, j) <=> Out(kids, hdr, stack, q, j))
  PROVE  \A c : Refs(kids', hdr', stack', c) = Refs(kids, hdr, stack, c)
<1>1. ASSUME NEW c PROVE Counted(kids', hdr', stack', c) = Counted(kids, hdr, stack, c)
  <2>1. ASSUME NEW e \in Counted(kids, hdr, stack, c) PROVE e \in Counted(kids', hdr', stack', c)
    <3>1. e = <<e[1], e[2]>> /\ e[1] \in Cells /\ e[2] \in DOMAIN kids[e[1]] /\ kids[e[1]][e[2]] = c /\ ~Out(kids, hdr, stack, e[1], e[2])
      BY HeapTyped, SlotsIs DEF Counted
    <3>2. e[1] # p
      BY <3>1
    <3>3. <<e[1], e[2]>> \in SlotsIn(kids')
      BY <3>1, <3>2, SlotsIs
    <3> QED
      BY <3>1, <3>2, <3>3 DEF Counted
  <2>2. ASSUME NEW e \in Counted(kids', hdr', stack', c) PROVE e \in Counted(kids, hdr, stack, c)
    <3>1. e = <<e[1], e[2]>> /\ e[1] \in Cells /\ e[2] \in DOMAIN kids'[e[1]] /\ kids'[e[1]][e[2]] = c /\ ~Out(kids', hdr', stack', e[1], e[2])
      BY HeapTyped, SlotsIs DEF Counted
    <3>2. e[1] # p
      BY <3>1
    <3>3. <<e[1], e[2]>> \in SlotsIn(kids)
      BY <3>1, <3>2, HeapTyped, SlotsIs
    <3> QED
      BY <3>1, <3>2, <3>3 DEF Counted
  <2> QED
    BY <2>1, <2>2
<1> QED
  BY <1>1 DEF Refs

\* A sharper form for one cell's references read through an injection.
LEMMA CountMoved ==
  ASSUME NEW A, NEW B, IsFiniteSet(A), NEW f, f = [e \in A |-> f[e]], \A e \in A : f[e] \in B,
         \A d, e \in A : f[d] = f[e] => d = e, \A b \in B : \E e \in A : f[e] = b
  PROVE  IsFiniteSet(B) /\ Cardinality(B) = Cardinality(A)
<1>1. B = {f[e] : e \in A}
  OBVIOUS
<1>2. IsFiniteSet({f[e] : e \in A}) /\ Cardinality({f[e] : e \in A}) = Cardinality(A)
  BY ImageCount
<1> QED
  BY <1>1, <1>2

\* Counts stay below saturation.
LEMMA CountBound ==
  ASSUME NoSaturation, HeapTypeOK, Bounded, NEW h, NEW s, NEW c \in Cells
  PROVE  Count(handles, kids, h, s, c) \in Nat /\ Count(handles, kids, h, s, c) < RCMax
<1>1. handles \in [Cells -> Nat] /\ kids \in [Cells -> Seq(Cells)] /\ IsFiniteSet(Cells)
  BY HeapTyped, HeapAssumption
<1>2. SumOf(handles) \in Nat /\ handles[c] <= SumOf(handles)
  BY <1>1, SumAtLeast
<1>3. /\ Count(handles, kids, h, s, c) \in Nat
      /\ Count(handles, kids, h, s, c) <= handles[c] + Cardinality(SlotsIn(kids)) /\ Cardinality(SlotsIn(kids)) \in Nat
  BY <1>1, CountType
<1>4. SumOf(handles) <= MaxHandles /\ Cardinality(SlotsIn(kids)) <= MaxEdges
  BY DEF Bounded
<1>5. MaxEdges + MaxHandles < RCMax /\ MaxEdges \in Nat /\ MaxHandles \in Nat /\ RCMax \in Nat /\ handles[c] \in Nat
  BY <1>1, HeapAssumption DEF NoSaturation
<1> QED
  BY <1>2, <1>3, <1>4, <1>5

\* A header that was written.
LEMMA PutFields ==
  ASSUME HeapTypeOK, NEW c \in Cells, NEW r \in 0..RCMax, NEW k \in Colors, NEW b \in BOOLEAN, hdr' = Put(hdr, c, r, k, b)
  PROVE  /\ hdr' \in [Cells -> [rc : 0..RCMax, color : Colors, buffered : BOOLEAN]]
         /\ \A x \in Cells : x # c => hdr'[x] = hdr[x]
         /\ hdr'[c].rc = r /\ hdr'[c].color = k /\ (hdr'[c].buffered <=> b)
<1> DEFINE A == [rc |-> r, color |-> k, buffered |-> b]
<1>1. A \in [rc : 0..RCMax, color : Colors, buffered : BOOLEAN] /\ A.rc = r /\ A.color = k /\ (A.buffered <=> b)
  OBVIOUS
<1>2. hdr' = [hdr EXCEPT ![c] = A]
  BY DEF Put
<1> HIDE DEF A
<1>3. hdr \in [Cells -> [rc : 0..RCMax, color : Colors, buffered : BOOLEAN]]
  BY HeapTyped
<1> QED
  BY <1>1, <1>2, <1>3

\* Which phase makes which calls.
LEMMA CallPhase ==
  ASSUME HeapTypeOK, NEW op, op \in OpsOf(phase)
  PROVE  /\ op = "gray" => phase = "mark"
         /\ op = "scan" \/ op = "black" => phase = "scan"
         /\ op = "white" => phase = "white"
         /\ op = "dispose" => phase \in {"idle", "white", "dispose"}
<1>1. phase \in {"idle", "mark", "scan", "white", "dispose"}
  BY HeapTyped
<1>2. CASE phase = "mark"
  BY <1>2, PhaseOps
<1>3. CASE phase = "scan"
  BY <1>3, PhaseOps
<1>4. CASE phase = "white"
  BY <1>4, PhaseOps
<1>5. CASE phase = "idle" \/ phase = "dispose"
  BY <1>5, PhaseOps
<1> QED
  BY <1>1, <1>2, <1>3, <1>4, <1>5

\* The visit of a child by the innermost call.
LEMMA VisitContext ==
  ASSUME CollectorInv, VisitChild, NEW p, p = Top.cell, NEW i, i = Top.next, NEW c, c = Child
  PROVE  /\ stack # <<>> /\ Top.op \in OpsOf(phase) /\ Top.op \in Ops
         /\ p \in live /\ p \in Cells /\ p \notin Acyclic /\ i \in DOMAIN kids[p] /\ i \in Nat \ {0} /\ c = kids[p][i]
         /\ c \in live /\ c \in Cells
         /\ At(stack, Top.op, p) = i
         /\ Advanced(stack) \in Seq(Frames) /\ Stacked(Advanced(stack), phase, live)
         /\ \A op, x : At(Advanced(stack), op, x) = IF op = Top.op /\ x = p THEN i + 1 ELSE At(stack, op, x)
         /\ Top.op # "black" => \A x : At(stack, "black", x) = 0
         /\ Become(Visit(On(Advanced(stack)), Top.op, c))
         /\ live' = live /\ kids' = kids /\ handles' = handles /\ attached' = attached /\ phase' = phase /\ work' = work
         /\ kept' = kept /\ deferred' = deferred /\ isolate' = isolate /\ passes' = passes /\ before' = before /\ ub' = ub
         /\ isolate # "gone"
<1> USE DEF CollectorInv, HeapInv
<1>1. stack # <<>> /\ i <= Len(kids[p]) /\ c = kids[p][i] /\ c \in live
  BY DEF VisitChild, HasChild, InCall, Top, Child
<1>2. stack \in Seq(Frames) /\ live \subseteq Cells
  BY HeapTyped
<1>3. /\ Top \in Frames /\ At(stack, Top.op, p) = i /\ Top.op \in OpsOf(phase) /\ p \in live
      /\ Top.op # "black" => \A x : At(stack, "black", x) = 0
  BY <1>1, <1>2, TopCall DEF Top
<1>4. i \in Nat \ {0} /\ Top.op \in Ops
  BY <1>3 DEF Frames
<1>5. p \in Cells
  BY <1>2, <1>3
<1>6. i \in DOMAIN kids[p]
  BY <1>1, <1>4, <1>5, KidsType
<1>7. p \notin Acyclic
  BY <1>6 DEF Leaves
<1>8. Advanced(stack) \in Seq(Frames) /\ Stacked(Advanced(stack), phase, live)
  BY <1>1, <1>2, StackedAdvanced
<1>9. \A op, x : At(Advanced(stack), op, x) = IF op = Top.op /\ x = p THEN i + 1 ELSE At(stack, op, x)
  <2>1. Apart(stack)
    BY StackedApart
  <2> QED
    BY <1>1, <1>2, <2>1, AtAdvanced DEF Top
<1>10. Become(Visit(On(Advanced(stack)), Top.op, c))
  BY MachineIs DEF VisitChild
<1>11. /\ live' = live /\ kids' = kids /\ handles' = handles /\ attached' = attached /\ phase' = phase /\ work' = work
       /\ kept' = kept /\ deferred' = deferred /\ isolate' = isolate /\ passes' = passes /\ before' = before /\ ub' = ub
  BY DEF VisitChild, heap, pass, ending
<1>12. isolate # "gone"
  BY <1>1 DEF Gone
<1> QED
  BY <1>1, <1>2, <1>3, <1>4, <1>5, <1>6, <1>7, <1>8, <1>9, <1>10, <1>11, <1>12

\* A counted reference: its target is live, not being disposed of, and its count is positive and unsaturated.
LEMMA CountedTarget ==
  ASSUME CollectorInv, NoSaturation, NEW p \in Cells, NEW i \in DOMAIN kids[p], ~Out(kids, hdr, stack, p, i), NEW c, c = kids[p][i]
  PROVE  c \in Cells /\ c \in live /\ At(stack, "dispose", c) = 0 /\ hdr[c].rc > 0 /\ hdr[c].rc < RCMax
         /\ hdr[c].rc = Count(handles, kids, hdr, stack, c)
<1>0. HeapTypeOK /\ Bounded /\ Counts
  BY DEF CollectorInv, HeapInv
<1>1. c \in Cells /\ handles \in [Cells -> Nat] /\ kids \in [Cells -> Seq(Cells)] /\ stack \in Seq(Frames)
  BY <1>0, HeapTyped, KidsType
<1>2. Count(handles, kids, hdr, stack, c) > 0
  BY <1>1, CountOne
<1>3. Count(handles, kids, hdr, stack, c) < RCMax
  BY <1>0, <1>1, CountBound
<1>4. At(stack, "dispose", c) \in Nat
  BY <1>1, AtSome
<1>5. IF c \notin live \/ At(stack, "dispose", c) > 0 THEN Count(handles, kids, hdr, stack, c) = 0
      ELSE hdr[c].rc = Count(handles, kids, hdr, stack, c)
  BY <1>0, <1>1 DEF Counts
<1> QED
  BY <1>1, <1>2, <1>3, <1>4, <1>5

\* The same of a handle.
LEMMA HeldTarget ==
  ASSUME CollectorInv, NoSaturation, NEW c \in Cells, handles[c] > 0
  PROVE  c \in live /\ At(stack, "dispose", c) = 0 /\ hdr[c].rc > 0 /\ hdr[c].rc < RCMax
         /\ hdr[c].rc = Count(handles, kids, hdr, stack, c)
<1>0. HeapTypeOK /\ Bounded /\ Counts
  BY DEF CollectorInv, HeapInv
<1>1. handles \in [Cells -> Nat] /\ kids \in [Cells -> Seq(Cells)] /\ stack \in Seq(Frames)
  BY <1>0, HeapTyped
<1>2. Count(handles, kids, hdr, stack, c) > 0
  BY <1>1, CountOne
<1>3. Count(handles, kids, hdr, stack, c) < RCMax
  BY <1>0, <1>1, CountBound
<1>4. At(stack, "dispose", c) \in Nat
  BY <1>1, AtSome
<1>5. IF c \notin live \/ At(stack, "dispose", c) > 0 THEN Count(handles, kids, hdr, stack, c) = 0
      ELSE hdr[c].rc = Count(handles, kids, hdr, stack, c)
  BY <1>0, <1>1 DEF Counts
<1> QED
  BY <1>1, <1>2, <1>3, <1>4, <1>5

\* Counts that follow the references.
LEMMA CountsSame ==
  ASSUME Counts, handles' = handles, live' = live, \A c : Refs(kids', hdr', stack', c) = Refs(kids, hdr, stack, c),
         \A c \in live : hdr'[c].rc = hdr[c].rc,
         \A c \in Cells : At(stack', "dispose", c) > 0 <=> At(stack, "dispose", c) > 0
  PROVE  Counts'
  BY DEF Counts, Count

\* A call of gray, black, scan or white passes over a child.
LEMMA SkipChild ==
  ASSUME CollectorInv, VisitChild, NEW p, p = Top.cell, NEW i, i = Top.next, NEW c, c = Child,
         hdr' = hdr, stack' = Advanced(stack), Unlisted,
         \/ Top.op \in {"gray", "black"} /\ c \in Acyclic
         \/ Top.op = "scan" /\ (c \notin Acyclic => hdr[c].color # "gray")
         \/ Top.op = "white" /\ c \notin Acyclic /\ hdr[c].color # "white"
  PROVE  CollectorInv'
<1>0. /\ HeapTypeOK /\ Bounded /\ Stacked(stack, phase, live) /\ DeadBlank /\ Leaves /\ Colored /\ Enlisted
      /\ ParkedAlone /\ Counts /\ Whole /\ Uncounted /\ Marking /\ Scanning /\ Collecting
  BY DEF CollectorInv, HeapInv
<1>1. /\ stack # <<>> /\ Top.op \in OpsOf(phase)
      /\ p \in live /\ p \in Cells /\ i \in DOMAIN kids[p] /\ i \in Nat \ {0} /\ c = kids[p][i] /\ c \in live /\ c \in Cells
      /\ At(stack, Top.op, p) = i
      /\ stack' \in Seq(Frames) /\ Stacked(stack', phase, live)
      /\ \A op, x : At(stack', op, x) = IF op = Top.op /\ x = p THEN i + 1 ELSE At(stack, op, x)
      /\ Top.op # "black" => \A x : At(stack, "black", x) = 0
      /\ live' = live /\ kids' = kids /\ handles' = handles /\ attached' = attached /\ phase' = phase /\ work' = work
      /\ kept' = kept /\ deferred' = deferred /\ isolate' = isolate /\ passes' = passes /\ before' = before /\ ub' = ub
      /\ isolate # "gone" /\ cand' = cand /\ lost' = lost
  BY VisitContext DEF Unlisted
<1>2. \A op, x : At(stack, op, x) \in Nat
  BY <1>0, HeapTyped, AtSome
<1>3. \A q \in Cells : \A j \in DOMAIN kids[q] : j \in Nat \ {0} /\ kids[q][j] \in Cells
  BY <1>0, KidsType
<1>4. Top.op \in {"gray", "black", "scan", "white"}
  OBVIOUS
<1>5. \/ phase = "mark" /\ Top.op = "gray"
      \/ phase = "scan" /\ Top.op \in {"scan", "black"}
      \/ phase = "white" /\ Top.op = "white"
  <2>1. /\ Top.op = "gray" => phase = "mark"
        /\ Top.op = "scan" \/ Top.op = "black" => phase = "scan"
        /\ Top.op = "white" => phase = "white"
    <3>1. Top.op \in OpsOf(phase) /\ HeapTypeOK
      BY <1>0, <1>1
    <3> QED
      BY <3>1, CallPhase
  <2> QED
    BY <1>4, <2>1
<1>6. \A op, x : At(stack', op, x) > 0 <=> At(stack, op, x) > 0
  BY <1>1, <1>2
<1>7. \A op, q, j : (q # p \/ j # i \/ op # Top.op) /\ j \in Nat => (Ahead(stack', op, q, j) <=> Ahead(stack, op, q, j))
  BY <1>1, <1>2 DEF Ahead
<1>8. \A op, q, j : (q # p \/ j # i \/ op # Top.op) /\ j \in Nat => (Visited(stack', op, q, j) <=> Visited(stack, op, q, j))
  BY <1>1, <1>2 DEF Visited
<1>9. \A q \in Cells : \A j \in DOMAIN kids[q] : Out(kids, hdr', stack', q, j) <=> Out(kids, hdr, stack, q, j)
  <2> TAKE q \in Cells
  <2> TAKE j \in DOMAIN kids[q]
  <2>1. CASE q # p \/ j # i
    BY <2>1, <1>1, <1>3, <1>6, <1>7, <1>8 DEF Out
  <2>2. CASE q = p /\ j = i
    <3>1. CASE Top.op \in {"gray", "black"}
      BY <2>2, <3>1, <1>1, <1>3, <1>8 DEF Out
    <3>2. CASE Top.op = "scan"
      BY <2>2, <3>2, <1>1, <1>3, <1>6, <1>7, <1>8 DEF Out
    <3>3. CASE Top.op = "white"
      BY <2>2, <3>3, <1>1, <1>3, <1>6, <1>7, <1>8 DEF Out
    <3> QED
      BY <3>1, <3>2, <3>3, <1>4
  <2> QED
    BY <2>1, <2>2
<1>10. HeapTypeOK' /\ Bounded'
  <2>1. HeapTypeOK'
    BY <1>0, <1>1 DEF HeapTypeOK, Frames, Ops
  <2> QED
    BY <1>0, <1>1, <2>1 DEF Bounded
<1>11. (Stacked(stack, phase, live) /\ DeadBlank /\ Leaves /\ Colored)'
  BY <1>0, <1>1, <1>6 DEF DeadBlank, Leaves, Colored, WorkColors
<1>12. (Enlisted /\ Purples)'
  BY <1>0, <1>1, <1>6 DEF Enlisted, Slotted, Buffered, Purples, Parked, CollectorInv, RootsInv
<1>13. ParkedAlone'
  BY <1>0, <1>1, <1>2, <1>6 DEF ParkedAlone, Parked, Untouched
<1>14. Counts'
  BY <1>0, <1>1, <1>6, <1>9, CountSame, CountsSame
<1>15. (Whole /\ Uncounted)'
  BY <1>0, <1>1, <1>6 DEF Whole, Uncounted, White
<1>16. Marking'
  <2> SUFFICES ASSUME phase = "mark" PROVE Marking'
    BY <1>1 DEF Marking
  <2>1. Top.op = "gray" /\ c \in Acyclic
    BY <1>5
  <2>2. \A q \in Gray : \A j \in DOMAIN kids[q] : q \in Cells /\ j \in Nat /\ kids[q][j] \in Cells
    BY <1>0, <1>3, HeapTyped DEF Gray
  <2>3. \A q \in Gray : \A j \in DOMAIN kids[q] :
          kids[q][j] \notin Acyclic /\ ~Ahead(stack', "gray", q, j) => kids[q][j] \in Gray
    <3> SUFFICES ASSUME NEW q \in Gray, NEW j \in DOMAIN kids[q], kids[q][j] \notin Acyclic, ~Ahead(stack', "gray", q, j)
                 PROVE  kids[q][j] \in Gray
      OBVIOUS
    <3>1. q # p \/ j # i
      BY <1>1, <2>1
    <3>2. ~Ahead(stack, "gray", q, j)
      BY <1>7, <2>2, <3>1
    <3> QED
      BY <3>2, <1>0 DEF Marking
  <2>4. Gray' = Gray
    BY <1>1 DEF Gray
  <2> QED
    BY <1>0, <1>1, <2>3, <2>4 DEF Marking
<1>17. \A op : Todo(kids, stack', op) \subseteq Todo(kids, stack, op)
               /\ Todo(kids, stack, op) \subseteq Todo(kids, stack', op) \cup {c}
  BY <1>1, <1>2, <1>3 DEF Todo, Ahead
<1>18. \A op : op # Top.op => Todo(kids, stack', op) = Todo(kids, stack, op)
  BY <1>1, <1>3, <1>7 DEF Todo
<1>19. (Gray = Gray' /\ White = White')
  BY <1>1 DEF Gray, White
<1>20. Scanning'
  <2> SUFFICES ASSUME phase = "scan" PROVE Scanning'
    BY <1>1 DEF Scanning
  <2> DEFINE S == Range(work) \cup Todo(kids, stack, "scan") \cup Todo(kids, stack, "black")
             T == Range(work) \cup Todo(kids, stack', "scan") \cup Todo(kids, stack', "black")
             U == Range(kept) \cup Todo(kids, stack, "black")
             V == Range(kept) \cup Todo(kids, stack', "black")
  <2>1. c \notin Gray
    BY <1>0, <1>1, <1>5 DEF Leaves, Gray
  <2>2. Top.op = "black" => c \notin White
    BY <1>0, <1>1, <1>5 DEF Leaves, White
  <2>3. Covered(kids, Gray, T)
    <3>1. \A x \in Gray : x \in S => x \in T
      BY <1>17, <2>1
    <3>2. Covered(kids, Gray, S)
      BY <1>0 DEF Scanning
    <3> HIDE DEF S, T
    <3> QED
      BY <3>1, <3>2, CoverStep
  <2>4. Covered(kids, White, V)
    <3>1. \A x \in White : x \in U => x \in V
      BY <1>17, <1>18, <2>2
    <3>2. Covered(kids, White, U)
      BY <1>0 DEF Scanning
    <3> HIDE DEF U, V
    <3> QED
      BY <3>1, <3>2, CoverStep
  <2>5. \A q \in Cells : At(stack', "scan", q) > 0 /\ hdr[q].color = "black" =>
          \A j \in DOMAIN kids[q] :
             kids[q][j] \notin Acyclic /\ hdr[kids[q][j]].color # "black" => Ahead(stack', "black", q, j)
    <3> TAKE q \in Cells
    <3> HAVE At(stack', "scan", q) > 0 /\ hdr[q].color = "black"
    <3> TAKE j \in DOMAIN kids[q]
    <3> HAVE kids[q][j] \notin Acyclic /\ hdr[kids[q][j]].color # "black"
    <3>1. Ahead(stack, "black", q, j)
      BY <1>0, <1>6 DEF Scanning
    <3>2. CASE q = p /\ j = i /\ Top.op = "black"
      BY <3>2, <1>1, <1>5
    <3> QED
      BY <3>1, <3>2, <1>3, <1>7
  <2> QED
    BY <1>0, <1>1, <1>19, <2>3, <2>4, <2>5 DEF Scanning
<1>21. Collecting'
  <2> SUFFICES ASSUME phase = "white" PROVE Collecting'
    BY <1>1 DEF Collecting
  <2> DEFINE S == Range(work) \cup Todo(kids, stack, "white")
             T == Range(work) \cup Todo(kids, stack', "white")
  <2>1. c \notin White
    BY <1>0, <1>1, <1>5 DEF White
  <2>2. Covered(kids, White, T)
    <3>1. \A x \in White : x \in S => x \in T
      BY <1>17, <2>1
    <3>2. Covered(kids, White, S)
      BY <1>0 DEF Collecting
    <3> HIDE DEF S, T
    <3> QED
      BY <3>1, <3>2, CoverStep
  <2>3. {x \in Cells : At(stack', "white", x) > 0} = {x \in Cells : At(stack, "white", x) > 0}
    BY <1>6
  <2> QED
    BY <1>0, <1>1, <1>19, <2>2, <2>3 DEF Collecting
<1>22. Enrolled'
  <2>1. Enrolled
    BY <1>1 DEF CollectorInv, RootsInv
  <2>2. Settled' = Settled
    BY <1>1, <1>2, <1>6 DEF Settled
  <2>3. Sources' = Sources
    BY <1>1, <1>4, <1>18, <1>19 DEF Sources, Parked
  <2> QED
    BY <1>1, <2>1, <2>2, <2>3 DEF Enrolled
<1>23. Gone'
  BY <1>1 DEF Gone
<1> QED
  BY <1>1, <1>10, <1>11, <1>12, <1>13, <1>14, <1>15, <1>16, <1>20, <1>21, <1>22, <1>23 DEF CollectorInv, HeapInv, RootsInv

Phases == {"idle", "mark", "scan", "white", "dispose"}

\* What a phase does not call.
LEMMA CallsByPhase ==
  ASSUME NEW s \in Seq(Frames), NEW ph \in Phases, NEW L, Stacked(s, ph, L)
  PROVE  /\ \A op, x : At(s, op, x) \in Nat /\ (At(s, op, x) > 0 => x \in L)
         /\ \A op, x : At(s, op, x) > 0 /\ op # "dispose" => x \notin Acyclic
         /\ ph # "mark" => \A x : At(s, "gray", x) = 0
         /\ ph # "scan" => \A x : At(s, "scan", x) = 0 /\ At(s, "black", x) = 0
         /\ ph # "white" => \A x : At(s, "white", x) = 0
         /\ ph = "mark" \/ ph = "scan" => \A x : At(s, "dispose", x) = 0
         /\ ph = "white" => \A x : x \notin Acyclic => At(s, "dispose", x) = 0
<1>1. /\ \A op, p : At(s, op, p) \in Nat /\ (op \notin OpsOf(ph) => At(s, op, p) = 0)
      /\ \A op, p : p \notin L => At(s, op, p) = 0
      /\ \A op, p : At(s, op, p) > 0 /\ op # "dispose" => p \notin Acyclic
      /\ \A p : ph = "white" /\ p \notin Acyclic => At(s, "dispose", p) = 0
  BY NoOtherCalls
<1>2. CASE ph = "mark"
  <2>1. "scan" \notin OpsOf(ph) /\ "black" \notin OpsOf(ph) /\ "white" \notin OpsOf(ph) /\ "dispose" \notin OpsOf(ph)
    BY <1>2, PhaseOps
  <2> QED
    BY <1>1, <1>2, <2>1
<1>3. CASE ph = "scan"
  <2>1. "gray" \notin OpsOf(ph) /\ "white" \notin OpsOf(ph) /\ "dispose" \notin OpsOf(ph)
    BY <1>3, PhaseOps
  <2> QED
    BY <1>1, <1>3, <2>1
<1>4. CASE ph = "white"
  <2>1. "gray" \notin OpsOf(ph) /\ "scan" \notin OpsOf(ph) /\ "black" \notin OpsOf(ph)
    BY <1>4, PhaseOps
  <2> QED
    BY <1>1, <1>4, <2>1
<1>5. CASE ph = "idle" \/ ph = "dispose"
  <2>1. "gray" \notin OpsOf(ph) /\ "scan" \notin OpsOf(ph) /\ "black" \notin OpsOf(ph) /\ "white" \notin OpsOf(ph)
    BY <1>5, PhaseOps
  <2> QED
    BY <1>1, <1>5, <2>1
<1> QED
  BY <1>2, <1>3, <1>4, <1>5 DEF Phases

\* A header is written and a call may be made on its cell.
LEMMA EffectContext ==
  ASSUME HeapTypeOK, NEW s0 \in Seq(Frames), Stacked(s0, phase, live), NEW c \in Cells, c \in live,
         NEW push \in Ops \cup {"none"}, NEW r \in 0..RCMax, NEW k \in Colors, NEW b \in BOOLEAN, Effect(s0, c, push, r, k, b),
         push # "none" => /\ At(s0, push, c) = 0 /\ push \in OpsOf(phase) /\ (push # "dispose" => c \notin Acyclic)
                          /\ (phase = "white" /\ push = "dispose" => c \in Acyclic)
                          /\ (push # "black" => \A x : At(s0, "black", x) = 0)
  PROVE  /\ stack' \in Seq(Frames) /\ Stacked(stack', phase, live)
         /\ \A op, x : At(stack', op, x) = IF op = push /\ x = c /\ push # "none" THEN 1 ELSE At(s0, op, x)
         /\ hdr' \in [Cells -> [rc : 0..RCMax, color : Colors, buffered : BOOLEAN]]
         /\ \A x \in Cells : x # c => hdr'[x] = hdr[x]
         /\ hdr'[c].rc = r /\ hdr'[c].color = k /\ (hdr'[c].buffered <=> b)
<1>1. hdr' = Put(hdr, c, r, k, b) /\ stack' = IF push = "none" THEN s0 ELSE Pushed(s0, push, c)
  BY DEF Effect
<1>2. /\ hdr' \in [Cells -> [rc : 0..RCMax, color : Colors, buffered : BOOLEAN]]
      /\ \A x \in Cells : x # c => hdr'[x] = hdr[x]
      /\ hdr'[c].rc = r /\ hdr'[c].color = k /\ (hdr'[c].buffered <=> b)
  BY <1>1, PutFields
<1>3. CASE push = "none"
  BY <1>1, <1>2, <1>3
<1>4. CASE push # "none"
  <2>1. push \in Ops /\ stack' = Pushed(s0, push, c) /\ At(s0, push, c) = 0
    BY <1>1, <1>4
  <2>2. stack' \in Seq(Frames) /\ Stacked(stack', phase, live)
    BY <1>4, <2>1, StackedPushed
  <2>3. Apart(s0)
    BY StackedApart
  <2>4. \A op, x : At(stack', op, x) = IF op = push /\ x = c THEN 1 ELSE At(s0, op, x)
    BY <2>1, <2>3, AtPushed
  <2> QED
    BY <1>2, <1>4, <2>2, <2>4
<1> QED
  BY <1>3, <1>4

-----------------------------------------------------------------------------
(* The header of one cell changes.                                          *)

OneCell(c) == /\ live' = live /\ phase' = phase /\ c \in live /\ c \in Cells
              /\ \A x \in Cells : x # c => hdr'[x] = hdr[x]

\* The sets of colored cells after the header of c was written.
LEMMA Painted ==
  ASSUME HeapTypeOK, NEW c, OneCell(c)
  PROVE  /\ Gray' = (Gray \ {c}) \cup (IF hdr'[c].color = "gray" THEN {c} ELSE {})
         /\ White' = (White \ {c}) \cup (IF hdr'[c].color = "white" THEN {c} ELSE {})
         /\ Buffered' = (Buffered \ {c}) \cup (IF hdr'[c].buffered THEN {c} ELSE {})
<1>1. live \subseteq Cells
  BY HeapTyped
<1> QED
  BY <1>1 DEF OneCell, Gray, White, Buffered

\* Colored after the header of c was written.
LEMMA ColoredStep ==
  ASSUME HeapTypeOK, Colored, NEW c, OneCell(c), c \notin Acyclic => hdr'[c].color \in WorkColors,
         \A op \in Ops : \A x \in Cells : x # c => (At(stack', op, x) > 0 <=> At(stack, op, x) > 0),
         /\ At(stack', "gray", c) > 0 => hdr'[c].color = "gray"
         /\ At(stack', "black", c) > 0 => hdr'[c].color = "black"
         /\ At(stack', "white", c) > 0 => hdr'[c].color = "black"
         /\ At(stack', "scan", c) > 0 => hdr'[c].color \in {"white", "black"}
  PROVE  Colored'
<1>1. WorkColors' = WorkColors
  BY DEF OneCell, WorkColors
<1>2. \A x \in live \ Acyclic : hdr'[x].color \in WorkColors
  <2> TAKE x \in live \ Acyclic
  <2>1. x # c => hdr'[x] = hdr[x]
    BY HeapTyped DEF OneCell
  <2> QED
    BY <2>1 DEF Colored
<1>3. ASSUME NEW x \in Cells
      PROVE  /\ At(stack', "gray", x) > 0 => hdr'[x].color = "gray"
             /\ At(stack', "black", x) > 0 => hdr'[x].color = "black"
             /\ At(stack', "white", x) > 0 => hdr'[x].color = "black"
             /\ At(stack', "scan", x) > 0 => hdr'[x].color \in {"white", "black"}
  <2>1. CASE x = c
    BY <2>1
  <2>2. CASE x # c
    <3>1. hdr'[x] = hdr[x]
      BY <2>2 DEF OneCell
    <3>2. /\ At(stack', "gray", x) > 0 <=> At(stack, "gray", x) > 0
          /\ At(stack', "black", x) > 0 <=> At(stack, "black", x) > 0
          /\ At(stack', "white", x) > 0 <=> At(stack, "white", x) > 0
          /\ At(stack', "scan", x) > 0 <=> At(stack, "scan", x) > 0
      BY <2>2 DEF Ops
    <3> QED
      BY <3>1, <3>2 DEF Colored
  <2> QED
    BY <2>1, <2>2
<1>4. live' = live
  BY DEF OneCell
<1> QED
  BY <1>1, <1>2, <1>3, <1>4 DEF Colored

\* Purples after the header of c was written.
LEMMA PurplesStep ==
  ASSUME HeapTypeOK, Purples, NEW c, OneCell(c), Range(Parked) \subseteq Range(Parked'),
         \A op \in Ops : \A x \in Cells : x # c => (At(stack', op, x) > 0 <=> At(stack, op, x) > 0),
         c \notin Acyclic =>
            /\ hdr'[c].color = "purple" => hdr'[c].buffered /\ hdr'[c].rc > 0
            /\ hdr'[c].buffered => \/ hdr'[c].color = "purple"
                                   \/ hdr'[c].color = "black" /\ hdr'[c].rc = 0
                                   \/ phase = "mark" /\ hdr'[c].color = "gray",
         hdr'[c].rc = 0 =>
            \/ hdr'[c].buffered \/ c \in Range(Parked') \/ hdr'[c].color \in {"gray", "white"}
            \/ At(stack', "white", c) > 0 \/ At(stack', "dispose", c) > 0
  PROVE  Purples'
<1>1. live' = live /\ phase' = phase /\ live \subseteq Cells /\ \A x \in live : x # c => hdr'[x] = hdr[x]
  BY HeapTyped DEF OneCell
<1>2. ASSUME NEW x \in live \ Acyclic
      PROVE  /\ hdr'[x].color = "purple" => hdr'[x].buffered /\ hdr'[x].rc > 0
             /\ hdr'[x].buffered => \/ hdr'[x].color = "purple"
                                    \/ hdr'[x].color = "black" /\ hdr'[x].rc = 0
                                    \/ phase = "mark" /\ hdr'[x].color = "gray"
  <2>1. CASE x = c
    BY <2>1
  <2>2. CASE x # c
    BY <2>2, <1>1 DEF Purples
  <2> QED
    BY <2>1, <2>2
<1>3. ASSUME NEW x \in live, hdr'[x].rc = 0
      PROVE  \/ hdr'[x].buffered \/ x \in Range(Parked') \/ hdr'[x].color \in {"gray", "white"}
             \/ At(stack', "white", x) > 0 \/ At(stack', "dispose", x) > 0
  <2>1. CASE x = c
    BY <2>1, <1>3
  <2>2. CASE x # c
    <3>1. hdr'[x] = hdr[x] /\ x \in Cells
      BY <2>2, <1>1
    <3>2. /\ At(stack', "white", x) > 0 <=> At(stack, "white", x) > 0
          /\ At(stack', "dispose", x) > 0 <=> At(stack, "dispose", x) > 0
      BY <2>2, <3>1 DEF Ops
    <3> QED
      BY <1>3, <3>1, <3>2 DEF Purples
  <2> QED
    BY <2>1, <2>2
<1> QED
  BY <1>1, <1>2, <1>3 DEF Purples

\* The parked cells have no references and no calls, so that no visit disturbs them.
LEMMA ParkedStep ==
  ASSUME HeapTypeOK, ParkedAlone, NEW c, OneCell(c), Parked' = Parked, phase = "mark" => Range(work') \subseteq Range(work),
         ~Untouched(kids, handles, stack, c) \/ hdr[c].color # "black", phase = "mark" => hdr'[c].color # "black",
         \A x \in Cells : x # c /\ Untouched(kids, handles, stack, x) => Untouched(kids', handles', stack', x)
  PROVE  ParkedAlone'
<1>1. live' = live /\ phase' = phase
  BY DEF OneCell
<1>2. Parked \in Seq(Cells) /\ work \in Seq(Cells)
  <2>1. <<>> \in Seq(Cells)
    OBVIOUS
  <2> QED
    BY <2>1, HeapTyped DEF Parked
<1>3. Range(Parked) \subseteq Cells /\ Range(work) \subseteq Cells
  BY <1>2, RangeOfSeq
<1>4. ASSUME NEW x \in Range(Parked)
      PROVE  /\ x \in live \ Acyclic /\ hdr'[x].color = "black" /\ ~hdr'[x].buffered
             /\ hdr'[x].rc = 0 /\ Untouched(kids', handles', stack', x)
  <2>1. /\ x \in live \ Acyclic /\ hdr[x].color = "black" /\ ~hdr[x].buffered
        /\ hdr[x].rc = 0 /\ Untouched(kids, handles, stack, x)
    BY DEF ParkedAlone
  <2>2. x # c /\ x \in Cells
    BY <2>1, <1>3
  <2> QED
    BY <2>1, <2>2 DEF OneCell
<1>5. ASSUME phase = "mark", NEW x \in Range(work'), hdr'[x].color = "black" PROVE Untouched(kids', handles', stack', x)
  <2>1. x # c /\ x \in Cells /\ x \in Range(work)
    BY <1>3, <1>5
  <2>2. hdr'[x] = hdr[x]
    BY <2>1 DEF OneCell
  <2>3. Untouched(kids, handles, stack, x)
    BY <1>5, <2>1, <2>2 DEF ParkedAlone
  <2> QED
    BY <2>1, <2>3
<1>6. IsInjective(Parked)
  BY DEF ParkedAlone
<1> QED
  BY <1>1, <1>4, <1>5, <1>6 DEF ParkedAlone

-----------------------------------------------------------------------------
(* mark_gray's callback on a child that is not acyclic.                     *)

\* mark_gray comes to a child that is not acyclic.
LEMMA VisitGray ==
  ASSUME CollectorInv, NoSaturation, VisitChild, NEW p, p = Top.cell, NEW i, i = Top.next, NEW c, c = Child,
         Top.op = "gray", c \notin Acyclic
  PROVE  CollectorInv'
<1>0. /\ HeapTypeOK /\ Bounded /\ Stacked(stack, phase, live) /\ DeadBlank /\ Leaves /\ Colored /\ Enlisted
      /\ ParkedAlone /\ Counts /\ Whole /\ Uncounted /\ Marking /\ Scanning /\ Collecting
  BY DEF CollectorInv, HeapInv
<1> DEFINE s0 == Advanced(stack)
<1>1. /\ stack # <<>> /\ Top.op \in OpsOf(phase)
      /\ p \in live /\ p \in Cells /\ p \notin Acyclic /\ i \in DOMAIN kids[p] /\ i \in Nat \ {0}
      /\ c = kids[p][i] /\ c \in live /\ c \in Cells
      /\ At(stack, "gray", p) = i
      /\ s0 \in Seq(Frames) /\ Stacked(s0, phase, live)
      /\ \A op, x : At(s0, op, x) = IF op = "gray" /\ x = p THEN i + 1 ELSE At(stack, op, x)
      /\ \A x : At(stack, "black", x) = 0
      /\ Become(Visit(On(s0), "gray", c))
      /\ live' = live /\ kids' = kids /\ handles' = handles /\ attached' = attached /\ phase' = phase /\ work' = work
      /\ kept' = kept /\ deferred' = deferred /\ isolate' = isolate /\ passes' = passes /\ before' = before /\ ub' = ub
      /\ isolate # "gone"
  BY VisitContext
<1> HIDE DEF s0
<1>2. phase = "mark"
  BY <1>0, <1>1, CallPhase
<1>3. /\ \A op, x : At(stack, op, x) \in Nat
      /\ \A x : At(stack, "scan", x) = 0 /\ At(stack, "black", x) = 0 /\ At(stack, "white", x) = 0 /\ At(stack, "dispose", x) = 0
  BY <1>0, <1>2, HeapTyped, CallsByPhase DEF Phases
<1>4. hdr[p].color = "gray"
  BY <1>0, <1>1 DEF Colored
<1>5. ~Out(kids, hdr, stack, p, i)
  BY <1>1, <1>3, <1>4 DEF Out, Ahead, Visited
<1>6. hdr[c].rc > 0 /\ hdr[c].rc < RCMax /\ hdr[c].rc \in Nat /\ hdr[c].color \in Colors /\ hdr[c].buffered \in BOOLEAN
  BY <1>0, <1>1, <1>5, CountedTarget, HeaderType
<1>7. hdr[c].color \in {"black", "purple", "gray"}
  BY <1>0, <1>1, <1>2 DEF Colored, WorkColors
<1> DEFINE push == IF hdr[c].color = "gray" THEN "none" ELSE "gray"
<1>8. Effect(s0, c, push, hdr[c].rc - 1, "gray", hdr[c].buffered) /\ Unlisted
  <2>1. Become(MarkGray(Add(On(s0), c, -1), c))
    BY <1>1 DEF Visit
  <2> QED
    BY <2>1, <1>0, <1>1, <1>6, GrayTable
<1>9. hdr[c].color # "gray" => At(s0, "gray", c) = 0 /\ c # p
  BY <1>0, <1>1, <1>3, <1>4 DEF Colored
<1>10. /\ stack' \in Seq(Frames) /\ Stacked(stack', phase, live)
       /\ \A op, x : At(stack', op, x) = IF op = push /\ x = c /\ push # "none" THEN 1 ELSE At(s0, op, x)
       /\ hdr' \in [Cells -> [rc : 0..RCMax, color : Colors, buffered : BOOLEAN]]
       /\ \A x \in Cells : x # c => hdr'[x] = hdr[x]
       /\ hdr'[c].rc = hdr[c].rc - 1 /\ hdr'[c].color = "gray" /\ (hdr'[c].buffered <=> hdr[c].buffered)
  <2>1. push \in Ops \cup {"none"} /\ hdr[c].rc - 1 \in 0..RCMax /\ "gray" \in Colors
    BY <1>6, HeapAssumption DEF Ops, Colors
  <2>2. push # "none" => /\ At(s0, push, c) = 0 /\ push \in OpsOf(phase) /\ (push # "dispose" => c \notin Acyclic)
                         /\ (phase = "white" /\ push = "dispose" => c \in Acyclic)
                         /\ (push # "black" => \A x : At(s0, "black", x) = 0)
    BY <1>1, <1>2, <1>9, SMTT(60)
  <2>3. /\ HeapTypeOK /\ s0 \in Seq(Frames) /\ Stacked(s0, phase, live) /\ c \in Cells /\ c \in live /\ hdr[c].buffered \in BOOLEAN
        /\ Effect(s0, c, push, hdr[c].rc - 1, "gray", hdr[c].buffered)
    BY <1>0, <1>1, <1>6, <1>8
  <2> HIDE DEF push
  <2> QED
    BY <2>1, <2>2, <2>3, EffectContext
<1>11. /\ \A x : At(stack', "scan", x) = 0 /\ At(stack', "black", x) = 0 /\ At(stack', "white", x) = 0 /\ At(stack', "dispose", x) = 0
       /\ \A x : At(stack', "gray", x) = IF x = c /\ hdr[c].color # "gray" THEN 1 ELSE IF x = p THEN i + 1 ELSE At(stack, "gray", x)
  <2>1. push = "none" \/ push = "gray"
    OBVIOUS
  <2>2. push # "none" <=> hdr[c].color # "gray"
    OBVIOUS
  <2> HIDE DEF push
  <2>3. /\ \A op, x : At(stack', op, x) = IF op = push /\ x = c /\ push # "none" THEN 1 ELSE At(s0, op, x)
        /\ \A op, x : At(s0, op, x) = IF op = "gray" /\ x = p THEN i + 1 ELSE At(stack, op, x)
    BY <1>1, <1>10
  <2> QED
    BY <2>1, <2>2, <2>3, <1>3
<1>12. cand' = cand /\ lost' = lost
  BY <1>8 DEF Unlisted
<1>13. \A q \in Cells : \A j \in DOMAIN kids[q] : j \in Nat \ {0} /\ kids[q][j] \in Cells
  BY <1>0, KidsType
<1>14. /\ Out(kids, hdr', stack', p, i)
       /\ \A q \in Cells : \A j \in DOMAIN kids[q] : q # p \/ j # i => (Out(kids, hdr', stack', q, j) <=> Out(kids, hdr, stack, q, j))
  <2>1. hdr'[p].color = "gray" /\ ~Ahead(stack', "gray", p, i)
    BY <1>1, <1>4, <1>9, <1>10, <1>11 DEF Ahead
  <2>2. ASSUME NEW q \in Cells, NEW j \in DOMAIN kids[q], q # p \/ j # i
        PROVE  Out(kids, hdr', stack', q, j) <=> Out(kids, hdr, stack, q, j)
    <3>1. CASE q # c \/ hdr[c].color = "gray"
      <4>1. hdr'[q].color = hdr[q].color
        BY <3>1, <1>10
      <4>2. Ahead(stack', "gray", q, j) <=> Ahead(stack, "gray", q, j)
        BY <3>1, <2>2, <1>1, <1>3, <1>11, <1>13 DEF Ahead
      <4> QED
        BY <4>1, <4>2, <1>3, <1>11, <1>13 DEF Out, Visited, Ahead
    <3>2. CASE q = c /\ hdr[c].color # "gray"
      <4>1. Ahead(stack', "gray", q, j)
        BY <3>2, <1>11, <1>13 DEF Ahead
      <4> QED
        BY <3>2, <4>1, <1>3, <1>7, <1>11, <1>13 DEF Out, Visited, Ahead
    <3> QED
      BY <3>1, <3>2
  <2> QED
    BY <2>1, <2>2, <1>1, SMTT(60) DEF Out
<1>15. \A x \in Cells : Refs(kids, hdr', stack', x) = Refs(kids, hdr, stack, x) - (IF x = c THEN 1 ELSE 0)
  BY <1>0, <1>1, <1>5, <1>14, CountLess
<1>16. HeapTypeOK' /\ Bounded'
  <2>1. HeapTypeOK'
    BY <1>0, <1>1, <1>10, <1>12 DEF HeapTypeOK, Frames, Ops
  <2> QED
    BY <1>0, <1>1, <2>1 DEF Bounded
<1>17. (Stacked(stack, phase, live) /\ DeadBlank /\ Leaves)'
  BY <1>0, <1>1, <1>10, <1>12, HeapAssumption, ZenonT(60) DEF DeadBlank, Leaves
<1>29. OneCell(c)
  BY <1>1, <1>10 DEF OneCell
<1>30. \A op \in Ops : \A x \in Cells : x # c => (At(stack', op, x) > 0 <=> At(stack, op, x) > 0)
  BY <1>1, <1>3, <1>11 DEF Ops
<1>18. Colored'
  <2>1. hdr'[c].color \in WorkColors
    BY <1>2, <1>10 DEF WorkColors
  <2> QED
    BY <1>0, <1>10, <1>11, <1>29, <1>30, <2>1, ColoredStep
<1>19. Gray' = Gray \cup {c} /\ White' = White /\ Buffered' = Buffered
  <2>1. hdr[c].color # "white"
    BY <1>7
  <2>2. /\ Gray' = (Gray \ {c}) \cup {c} /\ White' = White \ {c}
        /\ Buffered' = (Buffered \ {c}) \cup (IF hdr[c].buffered THEN {c} ELSE {})
    BY <1>0, <1>10, <1>29, Painted
  <2>3. (c \in Buffered <=> hdr[c].buffered) /\ c \notin White
    BY <1>1, <2>1 DEF Buffered, White
  <2> QED
    BY <2>2, <2>3
<1>20. Enlisted'
  BY <1>0, <1>1, <1>2, <1>11, <1>12, <1>19 DEF Enlisted, Slotted
<1>21. Purples'
  <2>1. Purples
    BY <1>1 DEF CollectorInv, RootsInv
  <2>2. Parked' = Parked
    BY <1>1, <1>2 DEF Parked
  <2>3. hdr'[c].color = "gray"
    BY <1>10
  <2> QED
    BY <1>0, <1>2, <1>29, <1>30, <2>1, <2>2, <2>3, PurplesStep
<1>22. ParkedAlone'
  <2>1. ~Untouched(kids, handles, stack, c)
    BY <1>1 DEF Untouched
  <2>2. \A x \in Cells : Untouched(kids, handles, stack, x) => Untouched(kids', handles', stack', x)
    <3> SUFFICES ASSUME NEW x \in Cells, Untouched(kids, handles, stack, x) PROVE \A op \in Ops : At(stack', op, x) = 0
      BY <1>1 DEF Untouched
    <3>1. x # c /\ x # p /\ At(stack, "gray", x) = 0
      BY <2>1, <1>1 DEF Untouched, Ops
    <3> QED
      BY <3>1, <1>11 DEF Ops
  <2>3. Parked' = Parked /\ work' = work /\ hdr'[c].color # "black"
    BY <1>1, <1>2, <1>10 DEF Parked
  <2> QED
    BY <1>0, <1>29, <2>1, <2>2, <2>3, ParkedStep
<1>23. Counts'
  <2> SUFFICES ASSUME NEW x \in Cells
               PROVE  IF x \notin live THEN handles[x] + Refs(kids, hdr', stack', x) = 0
                      ELSE hdr'[x].rc = handles[x] + Refs(kids, hdr', stack', x)
    BY <1>1, <1>11 DEF Counts, Count
  <2>1. IF x \notin live THEN handles[x] + Refs(kids, hdr, stack, x) = 0
        ELSE hdr[x].rc = handles[x] + Refs(kids, hdr, stack, x)
    BY <1>0, <1>3 DEF Counts, Count
  <2>2. Refs(kids, hdr, stack, x) \in Nat /\ handles[x] \in Nat
    BY <1>0, HeapTyped, RefsType
  <2>3. CASE x = c
    BY <2>1, <2>2, <2>3, <1>1, <1>10, <1>15, SMTT(60)
  <2>4. CASE x # c
    BY <2>1, <2>2, <2>4, <1>1, <1>10, <1>15
  <2> QED
    BY <2>3, <2>4
<1>24. (Whole /\ Uncounted)'
  <2>1. White = {}
    BY <1>0, <1>2, HeapTyped DEF Colored, WorkColors, White, Leaves
  <2> QED
    BY <2>1, <1>0, <1>1, <1>11, <1>19 DEF Whole, Uncounted
<1>25. Marking'
  <2>1. \A q \in Gray' : \A j \in DOMAIN kids[q] : kids[q][j] \notin Acyclic /\ ~Ahead(stack', "gray", q, j) => kids[q][j] \in Gray'
    <3> SUFFICES ASSUME NEW q \in Gray', NEW j \in DOMAIN kids[q], kids[q][j] \notin Acyclic, ~Ahead(stack', "gray", q, j)
                 PROVE  kids[q][j] \in Gray'
      OBVIOUS
    <3>1. q \in Cells /\ j \in Nat \ {0}
      BY <1>0, <1>1, <1>13, <1>19, HeapTyped DEF Gray
    <3>2. CASE q = p /\ j = i
      BY <3>2, <1>1, <1>19
    <3>3. CASE q = c /\ hdr[c].color # "gray"
      BY <3>1, <3>3, <1>11 DEF Ahead
    <3>4. CASE (q # p \/ j # i) /\ (q # c \/ hdr[c].color = "gray")
      <4>1. q \in Gray
        BY <3>4, <1>1, <1>19 DEF Gray
      <4>2. ~Ahead(stack, "gray", q, j)
        BY <3>1, <3>4, <1>1, <1>3, <1>11 DEF Ahead
      <4>3. kids[q][j] \in Gray
        BY <4>1, <4>2, <1>0, <1>2 DEF Marking
      <4> QED
        BY <4>3, <1>19
    <3> QED
      BY <3>2, <3>3, <3>4
  <2>2. Covered(kids, Gray \cup {c}, Range(kept))
    <3>1. Covered(kids, Gray, Range(kept))
      BY <1>0, <1>2 DEF Marking
    <3>2. p \in Gray
      BY <1>1, <1>4 DEF Gray
    <3> QED
      BY <3>1, <3>2, <1>1, CoverAdd
  <2>3. Range(kept) \subseteq Gray' /\ OrderedRoots(kids, kept, {})
    BY <1>0, <1>2, <1>19 DEF Marking
  <2> QED
    BY <2>1, <2>2, <2>3, <1>1, <1>19 DEF Marking
<1>26. (Scanning /\ Collecting)'
  BY <1>1, <1>2 DEF Scanning, Collecting
<1>27. Enrolled'
  <2>1. Covered(kids, Settled, Sources)
    BY <1>1 DEF CollectorInv, RootsInv, Enrolled
  <2>2. Settled' = Settled
    BY <1>1, <1>2, <1>3, <1>11 DEF Settled
  <2>3. Todo(kids, stack, "dispose") = {}
    BY <1>3 DEF Todo, Ahead
  <2>4. Sources \subseteq Sources'
    BY <2>3, <1>1, <1>2, <1>12, <1>19 DEF Sources, Parked
  <2>5. Covered(kids, Settled, Sources')
    BY <2>1, <2>4, CoverStep
  <2> QED
    BY <2>2, <2>5, <1>1 DEF Enrolled
<1>28. Gone'
  BY <1>1 DEF Gone
<1> QED
  BY <1>1, <1>16, <1>17, <1>18, <1>20, <1>21, <1>22, <1>23, <1>24, <1>25, <1>26, <1>27, <1>28 DEF CollectorInv, HeapInv, RootsInv

(* scan_black's callback on a child that is not acyclic.                    *)

\* scan_black comes to a child that is not acyclic.
LEMMA VisitBlack ==
  ASSUME CollectorInv, NoSaturation, VisitChild, NEW p, p = Top.cell, NEW i, i = Top.next, NEW c, c = Child,
         Top.op = "black", c \notin Acyclic
  PROVE  CollectorInv'
<1>0. /\ HeapTypeOK /\ Bounded /\ Stacked(stack, phase, live) /\ DeadBlank /\ Leaves /\ Colored /\ Enlisted
      /\ ParkedAlone /\ Counts /\ Whole /\ Uncounted /\ Marking /\ Scanning /\ Collecting
  BY DEF CollectorInv, HeapInv
<1> DEFINE s0 == Advanced(stack)
<1>1. /\ stack # <<>> /\ Top.op \in OpsOf(phase)
      /\ p \in live /\ p \in Cells /\ p \notin Acyclic /\ i \in DOMAIN kids[p] /\ i \in Nat \ {0}
      /\ c = kids[p][i] /\ c \in live /\ c \in Cells
      /\ At(stack, "black", p) = i
      /\ s0 \in Seq(Frames) /\ Stacked(s0, phase, live)
      /\ \A op, x : At(s0, op, x) = IF op = "black" /\ x = p THEN i + 1 ELSE At(stack, op, x)
      /\ Become(Visit(On(s0), "black", c))
      /\ live' = live /\ kids' = kids /\ handles' = handles /\ attached' = attached /\ phase' = phase /\ work' = work
      /\ kept' = kept /\ deferred' = deferred /\ isolate' = isolate /\ passes' = passes /\ before' = before /\ ub' = ub
      /\ isolate # "gone"
  BY VisitContext
<1> HIDE DEF s0
<1>2. phase = "scan"
  BY <1>0, <1>1, CallPhase
<1>3. /\ \A op, x : At(stack, op, x) \in Nat
      /\ \A x : At(stack, "gray", x) = 0 /\ At(stack, "white", x) = 0 /\ At(stack, "dispose", x) = 0
  BY <1>0, <1>2, HeapTyped, CallsByPhase DEF Phases
<1>4. hdr[p].color = "black"
  BY <1>0, <1>1 DEF Colored
<1>5. Out(kids, hdr, stack, p, i)
  BY <1>1 DEF Out, Ahead
<1>6. hdr[c].rc < RCMax /\ hdr[c].rc \in Nat /\ hdr[c].color \in Colors /\ hdr[c].buffered = FALSE
  <2>1. hdr[c].rc = Count(handles, kids, hdr, stack, c)
    BY <1>0, <1>1, <1>3 DEF Counts
  <2>2. hdr[c].buffered \in BOOLEAN /\ hdr[c].rc \in Nat /\ hdr[c].color \in Colors
    BY <1>0, <1>1, HeaderType
  <2>3. ~hdr[c].buffered
    BY <1>0, <1>1, <1>2 DEF Enlisted, Buffered
  <2>4. Count(handles, kids, hdr, stack, c) < RCMax
    BY <1>0, <1>1, CountBound
  <2> QED
    BY <2>1, <2>2, <2>3, <2>4
<1>7. hdr[c].color \in {"black", "white", "gray"}
  BY <1>0, <1>1, <1>2 DEF Colored, WorkColors
<1> DEFINE push == IF hdr[c].color = "black" THEN "none" ELSE "black"
<1>8. Effect(s0, c, push, hdr[c].rc + 1, "black", FALSE) /\ Unlisted
  <2>1. Become(Repair(On(s0), c))
    BY <1>1 DEF Visit
  <2>2. Effect(s0, c, push, hdr[c].rc + 1, "black", hdr[c].buffered) /\ Unlisted
    BY <2>1, <1>0, <1>1, <1>6, RepairTable
  <2> QED
    BY <2>2, <1>6
<1>9. hdr[c].color # "black" => At(s0, "black", c) = 0 /\ c # p
  BY <1>0, <1>1, <1>3, <1>4 DEF Colored
<1>10. /\ stack' \in Seq(Frames) /\ Stacked(stack', phase, live)
       /\ \A op, x : At(stack', op, x) = IF op = push /\ x = c /\ push # "none" THEN 1 ELSE At(s0, op, x)
       /\ hdr' \in [Cells -> [rc : 0..RCMax, color : Colors, buffered : BOOLEAN]]
       /\ \A x \in Cells : x # c => hdr'[x] = hdr[x]
       /\ hdr'[c].rc = hdr[c].rc + 1 /\ hdr'[c].color = "black" /\ ~hdr'[c].buffered
  <2>1. push \in Ops \cup {"none"} /\ hdr[c].rc + 1 \in 0..RCMax /\ "black" \in Colors
    BY <1>6, HeapAssumption DEF Ops, Colors
  <2>2. push # "none" => /\ At(s0, push, c) = 0 /\ push \in OpsOf(phase) /\ (push # "dispose" => c \notin Acyclic)
                         /\ (phase = "white" /\ push = "dispose" => c \in Acyclic)
                         /\ (push # "black" => \A x : At(s0, "black", x) = 0)
    BY <1>1, <1>2, <1>9
  <2>3. PICK f \in BOOLEAN : f = FALSE
    OBVIOUS
  <2>4. /\ HeapTypeOK /\ s0 \in Seq(Frames) /\ Stacked(s0, phase, live) /\ c \in Cells /\ c \in live
        /\ Effect(s0, c, push, hdr[c].rc + 1, "black", f)
    BY <1>0, <1>1, <1>8, <2>3
  <2> HIDE DEF push
  <2>5. /\ stack' \in Seq(Frames) /\ Stacked(stack', phase, live)
        /\ \A op, x : At(stack', op, x) = IF op = push /\ x = c /\ push # "none" THEN 1 ELSE At(s0, op, x)
        /\ hdr' \in [Cells -> [rc : 0..RCMax, color : Colors, buffered : BOOLEAN]]
        /\ \A x \in Cells : x # c => hdr'[x] = hdr[x]
        /\ hdr'[c].rc = hdr[c].rc + 1 /\ hdr'[c].color = "black" /\ (hdr'[c].buffered <=> f)
    BY <2>1, <2>2, <2>4, EffectContext
  <2> QED
    BY <2>3, <2>5
<1>11. /\ \A x : At(stack', "gray", x) = 0 /\ At(stack', "white", x) = 0 /\ At(stack', "dispose", x) = 0
       /\ \A x : At(stack', "scan", x) = At(stack, "scan", x)
       /\ \A x : At(stack', "black", x) = IF x = c /\ hdr[c].color # "black" THEN 1 ELSE IF x = p THEN i + 1 ELSE At(stack, "black", x)
  <2>1. push = "none" \/ push = "black"
    OBVIOUS
  <2>2. push # "none" <=> hdr[c].color # "black"
    OBVIOUS
  <2> HIDE DEF push
  <2>3. /\ \A op, x : At(stack', op, x) = IF op = push /\ x = c /\ push # "none" THEN 1 ELSE At(s0, op, x)
        /\ \A op, x : At(s0, op, x) = IF op = "black" /\ x = p THEN i + 1 ELSE At(stack, op, x)
    BY <1>1, <1>10
  <2> QED
    BY <2>1, <2>2, <2>3, <1>3
<1>12. cand' = cand /\ lost' = lost
  BY <1>8 DEF Unlisted
<1>13. \A q \in Cells : \A j \in DOMAIN kids[q] : j \in Nat \ {0} /\ kids[q][j] \in Cells
  BY <1>0, KidsType
<1>14. /\ ~Out(kids, hdr', stack', p, i)
       /\ \A q \in Cells : \A j \in DOMAIN kids[q] : q # p \/ j # i => (Out(kids, hdr', stack', q, j) <=> Out(kids, hdr, stack, q, j))
  <2>1. hdr'[p].color = "black" /\ ~Ahead(stack', "black", p, i)
    BY <1>1, <1>4, <1>9, <1>10, <1>11 DEF Ahead
  <2>2. ASSUME NEW q \in Cells, NEW j \in DOMAIN kids[q], q # p \/ j # i
        PROVE  Out(kids, hdr', stack', q, j) <=> Out(kids, hdr, stack, q, j)
    <3>1. CASE q # c \/ hdr[c].color = "black"
      <4>1. hdr'[q].color = hdr[q].color
        BY <3>1, <1>10
      <4>2. Ahead(stack', "black", q, j) <=> Ahead(stack, "black", q, j)
        BY <3>1, <2>2, <1>1, <1>3, <1>11, <1>13 DEF Ahead
      <4> QED
        BY <4>1, <4>2, <1>3, <1>11, <1>13 DEF Out, Visited, Ahead
    <3>2. CASE q = c /\ hdr[c].color # "black"
      <4>1. Ahead(stack', "black", q, j)
        BY <3>2, <1>11, <1>13 DEF Ahead
      <4> QED
        BY <3>2, <4>1, <1>3, <1>7, <1>11, <1>13 DEF Out, Visited, Ahead
    <3> QED
      BY <3>1, <3>2
  <2> QED
    BY <2>1, <2>2, <1>1, <1>3, <1>11 DEF Out, Visited
<1>15. \A x \in Cells : Refs(kids, hdr', stack', x) = Refs(kids, hdr, stack, x) + (IF x = c THEN 1 ELSE 0)
  BY <1>0, <1>1, <1>5, <1>14, CountMore
<1>16. HeapTypeOK' /\ Bounded'
  <2>1. HeapTypeOK'
    BY <1>0, <1>1, <1>10, <1>12 DEF HeapTypeOK, Frames, Ops
  <2> QED
    BY <1>0, <1>1, <2>1 DEF Bounded
<1>17. (Stacked(stack, phase, live) /\ DeadBlank /\ Leaves)'
  BY <1>0, <1>1, <1>10, <1>12, HeapAssumption DEF DeadBlank, Leaves
<1>29. OneCell(c)
  BY <1>1, <1>10 DEF OneCell
<1>30. \A op \in Ops : \A x \in Cells : x # c => (At(stack', op, x) > 0 <=> At(stack, op, x) > 0)
  BY <1>1, <1>3, <1>11 DEF Ops
<1>18. Colored'
  <2>1. hdr'[c].color \in WorkColors
    BY <1>2, <1>10 DEF WorkColors
  <2> QED
    BY <1>0, <1>10, <1>11, <1>29, <1>30, <2>1, ColoredStep
<1>19. Gray' = Gray \ {c} /\ White' = White \ {c} /\ Buffered' = {} /\ Buffered = {}
  <2>1. Buffered = {}
    BY <1>0, <1>2 DEF Enlisted
  <2>2. /\ Gray' = (Gray \ {c}) \cup {} /\ White' = (White \ {c}) \cup {} /\ Buffered' = (Buffered \ {c}) \cup {}
    BY <1>0, <1>10, <1>29, Painted
  <2> QED
    BY <2>1, <2>2
<1>20. Enlisted'
  BY <1>0, <1>1, <1>2, <1>11, <1>12, <1>19 DEF Enlisted, Slotted
<1>21. Purples'
  <2>1. Purples
    BY <1>1 DEF CollectorInv, RootsInv
  <2>2. Parked' = Parked
    BY <1>1, <1>2 DEF Parked
  <2>3. hdr'[c].color = "black" /\ ~hdr'[c].buffered /\ hdr'[c].rc # 0
    BY <1>6, <1>10
  <2> QED
    BY <1>0, <1>2, <1>29, <1>30, <2>1, <2>2, <2>3, PurplesStep
<1>22. ParkedAlone'
  <2>1. ~Untouched(kids, handles, stack, c)
    BY <1>1 DEF Untouched
  <2>2. \A x \in Cells : Untouched(kids, handles, stack, x) => Untouched(kids', handles', stack', x)
    <3> SUFFICES ASSUME NEW x \in Cells, Untouched(kids, handles, stack, x) PROVE \A op \in Ops : At(stack', op, x) = 0
      BY <1>1 DEF Untouched
    <3>1. x # c /\ x # p /\ At(stack, "black", x) = 0 /\ At(stack, "scan", x) = 0
      BY <2>1, <1>1 DEF Untouched, Ops
    <3> QED
      BY <3>1, <1>11 DEF Ops
  <2>3. Parked' = Parked
    BY <1>1, <1>2 DEF Parked
  <2> QED
    BY <1>0, <1>2, <1>29, <2>1, <2>2, <2>3, ParkedStep
<1>23. Counts'
  <2> SUFFICES ASSUME NEW x \in Cells
               PROVE  IF x \notin live THEN handles[x] + Refs(kids, hdr', stack', x) = 0
                      ELSE hdr'[x].rc = handles[x] + Refs(kids, hdr', stack', x)
    BY <1>1, <1>11 DEF Counts, Count
  <2>1. IF x \notin live THEN handles[x] + Refs(kids, hdr, stack, x) = 0
        ELSE hdr[x].rc = handles[x] + Refs(kids, hdr, stack, x)
    BY <1>0, <1>3 DEF Counts, Count
  <2>2. Refs(kids, hdr, stack, x) \in Nat /\ handles[x] \in Nat
    BY <1>0, HeapTyped, RefsType
  <2>3. CASE x = c
    <3>1. Refs(kids, hdr', stack', c) = Refs(kids, hdr, stack, c) + 1 /\ hdr'[c].rc = hdr[c].rc + 1 /\ c \in live
      BY <1>1, <1>10, <1>15
    <3> QED
      BY <2>1, <2>2, <2>3, <3>1
  <2>4. CASE x # c
    BY <2>1, <2>2, <2>4, <1>1, <1>10, <1>15
  <2> QED
    BY <2>3, <2>4
<1>24. (Whole /\ Uncounted)'
  <2>1. \A x \in White' : hdr'[x].rc = 0
    <3> TAKE x \in White'
    <3>1. x \in White /\ x # c /\ x \in Cells
      BY <1>0, <1>19, HeapTyped DEF White
    <3> QED
      BY <3>1, <1>0, <1>10 DEF Uncounted
  <2> QED
    BY <2>1, <1>0, <1>1, <1>11 DEF Whole, Uncounted
<1>25. Scanning'
  <2> DEFINE S == Range(work) \cup Todo(kids, stack, "scan") \cup Todo(kids, stack, "black")
             T == Range(work) \cup Todo(kids, stack', "scan") \cup Todo(kids, stack', "black")
             U == Range(kept) \cup Todo(kids, stack, "black")
             V == Range(kept) \cup Todo(kids, stack', "black")
  <2>0. /\ Covered(kids, Gray, S) /\ Covered(kids, White, U)
        /\ Range(kept) \subseteq live \ Acyclic /\ Range(work) \subseteq Range(kept) /\ OrderedRoots(kids, kept, {})
    BY <1>0, <1>2 DEF Scanning
  <2>1. Todo(kids, stack', "scan") = Todo(kids, stack, "scan")
    BY <1>11 DEF Todo, Ahead
  <2>2. \A q \in Cells : \A j \in DOMAIN kids[q] : Ahead(stack, "black", q, j) /\ kids[q][j] # c => Ahead(stack', "black", q, j)
    <3> TAKE q \in Cells
    <3> TAKE j \in DOMAIN kids[q]
    <3> HAVE Ahead(stack, "black", q, j) /\ kids[q][j] # c
    <3>1. q # p \/ j # i
      BY <1>1
    <3> QED
      BY <3>1, <1>1, <1>3, <1>11, <1>13 DEF Ahead
  <2>3. Todo(kids, stack, "black") \subseteq Todo(kids, stack', "black") \cup {c}
    BY <2>2 DEF Todo
  <2>4. hdr[c].color # "black" => \A j \in DOMAIN kids[c] : Ahead(stack', "black", c, j) /\ kids[c][j] \in Todo(kids, stack', "black")
    <3> SUFFICES ASSUME hdr[c].color # "black", NEW j \in DOMAIN kids[c]
                 PROVE  Ahead(stack', "black", c, j) /\ kids[c][j] \in Todo(kids, stack', "black")
      OBVIOUS
    <3>1. Ahead(stack', "black", c, j) /\ kids[c][j] \in Cells
      BY <1>1, <1>11, <1>13 DEF Ahead
    <3> QED
      BY <3>1, <1>1 DEF Todo
  <2>5. c \in Gray \/ c \in White => hdr[c].color # "black"
    BY DEF Gray, White
  <2>6. Covered(kids, Gray', T)
    <3>1. \A x \in Gray' : x \in S => x \in T
      BY <2>1, <2>3, <1>19
    <3>2. \A q \in Gray : \A j \in DOMAIN kids[q] : kids[q][j] \in T \/ q \in Gray'
      BY <2>4, <2>5, <1>19
    <3> HIDE DEF S, T
    <3> QED
      BY <2>0, <3>1, <3>2, <1>19, CoverStep
  <2>7. Covered(kids, White', V)
    <3>1. \A x \in White' : x \in U => x \in V
      BY <2>3, <1>19
    <3>2. \A q \in White : \A j \in DOMAIN kids[q] : kids[q][j] \in V \/ q \in White'
      BY <2>4, <2>5, <1>19
    <3> HIDE DEF U, V
    <3> QED
      BY <2>0, <3>1, <3>2, <1>19, CoverStep
  <2>8. ASSUME NEW q \in Cells, At(stack', "scan", q) > 0, hdr'[q].color = "black", NEW j \in DOMAIN kids[q],
               kids[q][j] \notin Acyclic, hdr'[kids[q][j]].color # "black"
        PROVE  Ahead(stack', "black", q, j)
    <3>1. kids[q][j] # c /\ kids[q][j] \in Cells /\ hdr[kids[q][j]].color # "black"
      BY <2>8, <1>10, <1>13
    <3>2. CASE q = c /\ hdr[c].color # "black"
      BY <3>2, <2>4
    <3>3. CASE hdr[q].color = "black"
      <4>1. Ahead(stack, "black", q, j)
        BY <3>1, <3>3, <2>8, <1>0, <1>2, <1>11 DEF Scanning
      <4> QED
        BY <4>1, <3>1, <2>2
    <3>4. q # c => hdr[q].color = "black"
      BY <2>8, <1>10
    <3> QED
      BY <3>2, <3>3, <3>4
  <2> QED
    BY <2>0, <2>6, <2>7, <2>8, <1>1, <1>2 DEF Scanning
<1>26. (Marking /\ Collecting)'
  BY <1>1, <1>2 DEF Marking, Collecting
<1>27. Enrolled'
  <2>1. Covered(kids, Settled, Sources)
    BY <1>1 DEF CollectorInv, RootsInv, Enrolled
  <2>2. Settled' = Settled \cup {c}
    <3>1. c \in Settled'
      BY <1>1, <1>10, <1>11 DEF Settled
    <3>2. \A x \in Cells : x # c => (x \in Settled' <=> x \in Settled)
      BY <1>1, <1>2, <1>3, <1>10, <1>11 DEF Settled
    <3>3. Settled \subseteq Cells /\ Settled' \subseteq Cells
      BY <1>0, <1>1, HeapTyped DEF Settled
    <3> QED
      BY <3>1, <3>2, <3>3, <1>1
  <2>3. Sources' = Sources
    <3>1. Todo(kids, stack, "dispose") = {} /\ Todo(kids, stack', "dispose") = {}
      BY <1>3, <1>11 DEF Todo, Ahead
    <3> QED
      BY <3>1, <1>1, <1>2, <1>12 DEF Sources, Parked
  <2>4. p \in Settled
    BY <1>1, <1>3, <1>4 DEF Settled
  <2>5. Covered(kids, Settled \cup {c}, Sources)
    BY <2>1, <2>4, <1>1, CoverAdd
  <2> QED
    BY <2>2, <2>3, <2>5, <1>1 DEF Enrolled
<1>28. Gone'
  BY <1>1 DEF Gone
<1> QED
  BY <1>1, <1>16, <1>17, <1>18, <1>20, <1>21, <1>22, <1>23, <1>24, <1>25, <1>26, <1>27, <1>28 DEF CollectorInv, HeapInv, RootsInv

(* scan on a gray cell.                                                     *)

Still == /\ live' = live /\ kids' = kids /\ handles' = handles /\ attached' = attached /\ phase' = phase
         /\ isolate' = isolate /\ passes' = passes /\ before' = before /\ ub' = ub /\ cand' = cand /\ lost' = lost
         /\ kept' = kept /\ deferred' = deferred

\* scan paints a gray cell: black when something outside counts it, white otherwise.
LEMMA ScanPaint ==
  ASSUME CollectorInv, NoSaturation, phase = "scan", Still, isolate # "gone",
         NEW s0 \in Seq(Frames), Stacked(s0, phase, live),
         NEW c \in Cells, c \in live, hdr[c].color = "gray",
         NEW push, NEW k, Effect(s0, c, push, hdr[c].rc, k, hdr[c].buffered),
         (push = "black" /\ k = "black" /\ hdr[c].rc > 0) \/ (push = "scan" /\ k = "white" /\ hdr[c].rc = 0),
         \A op, x : At(s0, op, x) > 0 <=> At(stack, op, x) > 0, \A x : At(stack, "black", x) = 0,
         work' \in Seq(Cells), Range(work') \subseteq Range(work),
         Range(work) \cup Todo(kids, stack, "scan") \subseteq Range(work') \cup Todo(kids, s0, "scan") \cup {c},
         c \in Range(kept) \/ \E p \in Cells : At(stack, "scan", p) > 0 /\ \E i \in DOMAIN kids[p] : kids[p][i] = c
  PROVE  CollectorInv'
<1>0. /\ HeapTypeOK /\ Bounded /\ Stacked(stack, phase, live) /\ DeadBlank /\ Leaves /\ Colored /\ Enlisted
      /\ ParkedAlone /\ Counts /\ Whole /\ Uncounted /\ Marking /\ Scanning /\ Collecting
  BY DEF CollectorInv, HeapInv
<1>1. /\ live' = live /\ kids' = kids /\ handles' = handles /\ attached' = attached /\ phase' = phase
      /\ isolate' = isolate /\ passes' = passes /\ before' = before /\ ub' = ub /\ cand' = cand /\ lost' = lost
      /\ kept' = kept /\ deferred' = deferred
  BY DEF Still
<1>2. live \subseteq Cells /\ stack \in Seq(Frames) /\ handles \in [Cells -> Nat] /\ kids \in [Cells -> Seq(Cells)]
  BY <1>0, HeapTyped
<1>3. /\ \A op, x : At(stack, op, x) \in Nat /\ At(s0, op, x) \in Nat
      /\ \A x : At(stack, "gray", x) = 0 /\ At(stack, "white", x) = 0 /\ At(stack, "dispose", x) = 0
      /\ \A x : At(s0, "gray", x) = 0 /\ At(s0, "white", x) = 0 /\ At(s0, "dispose", x) = 0 /\ At(s0, "black", x) = 0
      /\ At(stack, "scan", c) = 0 /\ At(s0, "scan", c) = 0
  <2>1. /\ \A op, x : At(stack, op, x) \in Nat /\ At(s0, op, x) \in Nat
        /\ \A x : At(stack, "gray", x) = 0 /\ At(stack, "white", x) = 0 /\ At(stack, "dispose", x) = 0
        /\ \A x : At(s0, "gray", x) = 0 /\ At(s0, "white", x) = 0 /\ At(s0, "dispose", x) = 0
    BY <1>0, <1>2, CallsByPhase DEF Phases
  <2>2. At(stack, "scan", c) = 0
    BY <1>0, <2>1 DEF Colored
  <2> QED
    BY <2>1, <2>2
<1>4. c \notin Acyclic
  BY <1>0 DEF Leaves
<1>5. hdr[c].rc \in 0..RCMax /\ hdr[c].rc \in Nat /\ ~hdr[c].buffered /\ hdr[c].buffered \in BOOLEAN /\ k \in Colors /\ push \in Ops
  <2>1. ~hdr[c].buffered
    BY <1>0 DEF Enlisted, Buffered
  <2> QED
    BY <2>1, <1>0, HeaderType DEF Colors, Ops
<1>6. push \in {"black", "scan"} /\ k \in {"black", "white"}
  OBVIOUS
<1>10. /\ stack' \in Seq(Frames) /\ Stacked(stack', phase, live)
       /\ \A op, x : At(stack', op, x) = IF op = push /\ x = c THEN 1 ELSE At(s0, op, x)
       /\ hdr' \in [Cells -> [rc : 0..RCMax, color : Colors, buffered : BOOLEAN]]
       /\ \A x \in Cells : x # c => hdr'[x] = hdr[x]
       /\ hdr'[c].rc = hdr[c].rc /\ hdr'[c].color = k /\ ~hdr'[c].buffered
  <2>1. push \in OpsOf(phase)
    BY <1>6, PhaseOps
  <2>2. At(s0, push, c) = 0 /\ push # "dispose" /\ push # "none"
    BY <1>3, <1>6
  <2>3. \A x : At(s0, "black", x) = 0
    BY <1>3
  <2>4. /\ stack' \in Seq(Frames) /\ Stacked(stack', phase, live)
        /\ \A op, x : At(stack', op, x) = IF op = push /\ x = c /\ push # "none" THEN 1 ELSE At(s0, op, x)
        /\ hdr' \in [Cells -> [rc : 0..RCMax, color : Colors, buffered : BOOLEAN]]
        /\ \A x \in Cells : x # c => hdr'[x] = hdr[x]
        /\ hdr'[c].rc = hdr[c].rc /\ hdr'[c].color = k /\ (hdr'[c].buffered <=> hdr[c].buffered)
    BY <1>0, <1>4, <1>5, <2>1, <2>2, <2>3, EffectContext
  <2> QED
    BY <2>2, <2>4, <1>5
<1>11. /\ \A x : At(stack', "gray", x) = 0 /\ At(stack', "white", x) = 0 /\ At(stack', "dispose", x) = 0
       /\ \A x : At(stack', "scan", x) = IF push = "scan" /\ x = c THEN 1 ELSE At(s0, "scan", x)
       /\ \A x : At(stack', "black", x) = IF push = "black" /\ x = c THEN 1 ELSE 0
  BY <1>3, <1>6, <1>10, SMTT(60)
<1>12. OneCell(c)
  BY <1>1, <1>10 DEF OneCell
<1>13. \A q \in Cells : \A j \in DOMAIN kids[q] : j \in Nat \ {0} /\ kids[q][j] \in Cells
  BY <1>0, KidsType
<1>14. \A q \in Cells : \A j \in DOMAIN kids[q] : Out(kids, hdr', stack', q, j) <=> Out(kids, hdr, stack, q, j)
  <2> TAKE q \in Cells
  <2> TAKE j \in DOMAIN kids[q]
  <2>0. j \in Nat \ {0}
    BY <1>13
  <2>1. CASE q # c
    <3>1. hdr'[q].color = hdr[q].color
      BY <2>1, <1>10
    <3> QED
      BY <2>0, <2>1, <3>1, <1>3, <1>11 DEF Out, Visited, Ahead
  <2>2. CASE q = c
    BY <2>0, <2>2, <1>3, <1>10, <1>11 DEF Out, Visited, Ahead
  <2> QED
    BY <2>1, <2>2
<1>15. \A op, x : x # c => (At(stack', op, x) > 0 <=> At(stack, op, x) > 0)
  BY <1>10
<1>16. HeapTypeOK' /\ Bounded'
  <2>1. HeapTypeOK'
    BY <1>0, <1>1, <1>10 DEF HeapTypeOK, Frames, Ops
  <2> QED
    BY <1>0, <1>1, <2>1 DEF Bounded
<1>17. (Stacked(stack, phase, live) /\ DeadBlank /\ Leaves)'
  BY <1>0, <1>1, <1>4, <1>10, HeapAssumption, ZenonT(60) DEF DeadBlank, Leaves
<1>18. Colored'
  <2>1. hdr'[c].color \in WorkColors
    BY <1>6, <1>10 DEF WorkColors
  <2>2. /\ At(stack', "gray", c) = 0 /\ At(stack', "white", c) = 0
        /\ At(stack', "black", c) > 0 => hdr'[c].color = "black"
        /\ At(stack', "scan", c) > 0 => hdr'[c].color \in {"white", "black"}
    BY <1>6, <1>10, <1>11
  <2>3. \A op \in Ops : \A x \in Cells : x # c => (At(stack', op, x) > 0 <=> At(stack, op, x) > 0)
    BY <1>15
  <2> QED
    BY <1>0, <1>12, <2>1, <2>2, <2>3, ColoredStep
<1>19. /\ Gray' = Gray \ {c} /\ White' = White \cup (IF k = "white" THEN {c} ELSE {}) /\ Buffered' = {} /\ Buffered = {}
       /\ c \in Gray /\ c \notin White
  <2>1. Buffered = {} /\ c \in Gray /\ c \notin White
    BY <1>0 DEF Enlisted, Gray, White
  <2>2. /\ Gray' = (Gray \ {c}) \cup {} /\ White' = (White \ {c}) \cup (IF k = "white" THEN {c} ELSE {}) /\ Buffered' = (Buffered \ {c}) \cup {}
    BY <1>0, <1>6, <1>10, <1>12, Painted
  <2> QED
    BY <2>1, <2>2
<1>20. Enlisted'
  BY <1>0, <1>1, <1>11, <1>19 DEF Enlisted, Slotted
<1>21. Purples'
  <2>1. Purples
    BY DEF CollectorInv, RootsInv
  <2>2. Parked' = Parked
    BY <1>1 DEF Parked
  <2>3. hdr'[c].color \in {"black", "white"} /\ ~hdr'[c].buffered /\ (hdr'[c].rc = 0 => hdr'[c].color = "white")
    BY <1>5, <1>10
  <2>4. \A op \in Ops : \A x \in Cells : x # c => (At(stack', op, x) > 0 <=> At(stack, op, x) > 0)
    BY <1>15
  <2> QED
    BY <1>0, <1>12, <2>1, <2>2, <2>3, <2>4, PurplesStep
<1>22. ParkedAlone'
  <2>1. \A x \in Cells : x # c /\ Untouched(kids, handles, stack, x) => Untouched(kids', handles', stack', x)
    <3> SUFFICES ASSUME NEW x \in Cells, x # c, Untouched(kids, handles, stack, x) PROVE \A op \in Ops : At(stack', op, x) = 0
      BY <1>1 DEF Untouched
    <3> QED
      BY <1>3, <1>10 DEF Untouched
  <2>2. Parked' = Parked
    BY <1>1 DEF Parked
  <2> QED
    BY <1>0, <1>12, <2>1, <2>2, ParkedStep
<1>23. Counts'
  <2>1. \A x : Refs(kids, hdr', stack', x) = Refs(kids, hdr, stack, x)
    BY <1>0, <1>14, CountSame
  <2>2. \A x \in live : hdr'[x].rc = hdr[x].rc
    BY <1>2, <1>10
  <2> QED
    BY <1>0, <1>1, <1>3, <1>11, <2>1, <2>2, CountsSame
<1>24. (Whole /\ Uncounted)'
  <2>1. \A x \in White' : hdr'[x].rc = 0
    <3> TAKE x \in White'
    <3>1. CASE x = c
      BY <3>1, <1>10, <1>19
    <3>2. CASE x # c
      <4>1. x \in White /\ x \in Cells
        BY <3>2, <1>2, <1>19 DEF White
      <4> QED
        BY <3>2, <4>1, <1>0, <1>10 DEF Uncounted
    <3> QED
      BY <3>1, <3>2
  <2> QED
    BY <2>1, <1>0, <1>1, <1>11 DEF Whole, Uncounted
<1>25. Scanning'
  <2> DEFINE S == Range(work) \cup Todo(kids, stack, "scan") \cup Todo(kids, stack, "black")
             T == Range(work') \cup Todo(kids, stack', "scan") \cup Todo(kids, stack', "black")
             U == Range(kept) \cup Todo(kids, stack, "black")
             V == Range(kept) \cup Todo(kids, stack', "black")
  <2>0. /\ Covered(kids, Gray, S) /\ Covered(kids, White, U)
        /\ Range(kept) \subseteq live \ Acyclic /\ Range(work) \subseteq Range(kept) /\ OrderedRoots(kids, kept, {})
    BY <1>0 DEF Scanning
  <2>1. Todo(kids, s0, "scan") \subseteq Todo(kids, stack', "scan") /\ Todo(kids, stack, "black") = {}
    <3>1. \A x \in Cells : \A j : Ahead(s0, "scan", x, j) => Ahead(stack', "scan", x, j)
      BY <1>3, <1>11 DEF Ahead
    <3>2. \A x \in Cells : \A j : ~Ahead(stack, "black", x, j)
      BY DEF Ahead
    <3> QED
      BY <3>1, <3>2 DEF Todo
  <2>2. \A j \in DOMAIN kids[c] : kids[c][j] \in T
    <3> TAKE j \in DOMAIN kids[c]
    <3>1. Ahead(stack', "black", c, j) \/ Ahead(stack', "scan", c, j)
      BY <1>6, <1>11, <1>13 DEF Ahead
    <3>2. kids[c][j] \in Cells
      BY <1>13
    <3> QED
      BY <3>1, <3>2 DEF Todo
  <2>3. Covered(kids, Gray', T)
    <3>1. \A x \in Gray' : x \in S => x \in T
      BY <2>1, <1>19
    <3>2. \A q \in Gray : \A j \in DOMAIN kids[q] : kids[q][j] \in T \/ q \in Gray'
      BY <2>2, <1>19
    <3> HIDE DEF S, T
    <3> QED
      BY <2>0, <3>1, <3>2, <1>19, CoverStep
  <2>4. Covered(kids, White', V)
    <3>1. U \subseteq V
      BY <2>1
    <3>2. CASE k # "white"
      <4>1. White' = White
        BY <3>2, <1>19
      <4> HIDE DEF U, V
      <4> QED
        BY <2>0, <3>1, <4>1, CoverStep
    <3>3. CASE k = "white"
      <4>1. White' = White \cup {c}
        BY <3>3, <1>19
      <4>2. c \in V \/ \E p \in White : \E i \in DOMAIN kids[p] : kids[p][i] = c
        <5>1. CASE c \in Range(kept)
          BY <5>1
        <5>2. ASSUME NEW p \in Cells, At(stack, "scan", p) > 0, NEW i \in DOMAIN kids[p], kids[p][i] = c PROVE p \in White
          <6>1. p \in live
            BY <5>2, <1>0, <1>2, CallsLive
          <6>2. hdr[p].color \in {"white", "black"}
            BY <5>2, <1>0 DEF Colored
          <6>3. hdr[p].color # "black"
            <7> SUFFICES ASSUME hdr[p].color = "black" PROVE FALSE
              OBVIOUS
            <7>1. Ahead(stack, "black", p, i)
              BY <5>2, <1>0, <1>4 DEF Scanning
            <7> QED
              BY <7>1 DEF Ahead
          <6> QED
            BY <6>1, <6>2, <6>3 DEF White
        <5> QED
          BY <5>1, <5>2
      <4> HIDE DEF U, V
      <4> QED
        BY <2>0, <3>1, <4>1, <4>2, CoverAdd
    <3> QED
      BY <3>2, <3>3
  <2>5. ASSUME NEW q \in Cells, At(stack', "scan", q) > 0, hdr'[q].color = "black", NEW j \in DOMAIN kids[q],
               kids[q][j] \notin Acyclic, hdr'[kids[q][j]].color # "black"
        PROVE  Ahead(stack', "black", q, j)
    <3>1. CASE q = c
      BY <3>1, <2>5, <1>6, <1>10, <1>11, <1>13 DEF Ahead
    <3>2. CASE q # c
      <4>1. At(stack, "scan", q) > 0 /\ hdr[q].color = "black"
        BY <3>2, <2>5, <1>10, <1>15
      <4>2. hdr[kids[q][j]].color # "black"
        BY <2>5, <1>10, <1>13
      <4>3. Ahead(stack, "black", q, j)
        BY <4>1, <4>2, <2>5, <1>0 DEF Scanning
      <4> QED
        BY <4>3 DEF Ahead
    <3> QED
      BY <3>1, <3>2
  <2>6. Range(work') \subseteq Range(kept)
    BY <2>0
  <2> QED
    BY <2>0, <2>3, <2>4, <2>5, <2>6, <1>1 DEF Scanning
<1>26. (Marking /\ Collecting)'
  BY <1>1 DEF Marking, Collecting
<1>27. Enrolled'
  <2>1. Covered(kids, Settled, Sources)
    BY DEF CollectorInv, RootsInv, Enrolled
  <2>2. Settled' = Settled \cup (IF k = "black" THEN {c} ELSE {})
    <3>1. c \in Settled' <=> k = "black"
      BY <1>1, <1>4, <1>6, <1>10, <1>11 DEF Settled
    <3>2. c \notin Settled
      BY DEF Settled
    <3>3. \A x \in Cells : x # c => (x \in Settled' <=> x \in Settled)
      BY <1>1, <1>3, <1>10, <1>11 DEF Settled
    <3>4. Settled \subseteq Cells /\ Settled' \subseteq Cells
      BY <1>1, <1>2 DEF Settled
    <3> QED
      BY <3>1, <3>2, <3>3, <3>4
  <2>3. Sources' = Sources
    <3>1. Todo(kids, stack, "dispose") = {} /\ Todo(kids, stack', "dispose") = {}
      BY <1>3, <1>11 DEF Todo, Ahead
    <3> QED
      BY <3>1, <1>1 DEF Sources, Parked
  <2>4. CASE k # "black"
    BY <2>1, <2>2, <2>3, <2>4, <1>1 DEF Enrolled
  <2>5. CASE k = "black"
    <3>1. Count(handles, kids, hdr, stack, c) > 0
      BY <2>5, <1>0, <1>3 DEF Counts
    <3>2. handles[c] > 0 \/ \E q \in Cells : \E j \in DOMAIN kids[q] : kids[q][j] = c /\ ~Out(kids, hdr, stack, q, j)
      BY <1>0, <3>1, CountSource
    <3>3. ASSUME NEW q \in Cells, NEW j \in DOMAIN kids[q], kids[q][j] = c, ~Out(kids, hdr, stack, q, j) PROVE q \in Settled
      <4>1. q \in live /\ q \notin Acyclic
        <5>1. kids[q] # <<>>
          BY <3>3
        <5> QED
          BY <5>1, <1>0 DEF DeadBlank, Leaves
      <4>2. hdr[q].color \notin {"gray", "white"}
        BY <3>3, <1>3, <1>4 DEF Out, Ahead
      <4> QED
        BY <4>1, <4>2, <1>3 DEF Settled
    <3>4. c \in Sources \/ \E q \in Settled : \E j \in DOMAIN kids[q] : kids[q][j] = c
      BY <3>2, <3>3 DEF Sources
    <3>5. Covered(kids, Settled \cup {c}, Sources)
      BY <2>1, <3>4, CoverAdd
    <3> QED
      BY <2>2, <2>3, <2>5, <3>5, <1>1 DEF Enrolled
  <2> QED
    BY <2>4, <2>5
<1>28. Gone'
  BY <1>1 DEF Gone
<1> QED
  BY <1>1, <1>10, <1>16, <1>17, <1>18, <1>20, <1>21, <1>22, <1>23, <1>24, <1>25, <1>26, <1>27, <1>28 DEF CollectorInv, HeapInv, RootsInv

\* What the order of a list means for the rest of it.
LEMMA OrderedTail ==
  ASSUME NEW k, NEW q \in Seq(Cells), q # <<>>, NEW Y, OrderedRoots(k, q, Y)
  PROVE  OrderedRoots(k, Tail(q), Y \cup {Head(q)})
<1>1. /\ DOMAIN q = 1..Len(q) /\ DOMAIN Tail(q) = 1..(Len(q) - 1) /\ Len(q) \in Nat \ {0}
      /\ \A j \in DOMAIN Tail(q) : Tail(q)[j] = q[j + 1]
      /\ Head(q) = q[1]
  BY TailOf
<1> SUFFICES ASSUME NEW j \in DOMAIN Tail(q)
             PROVE  \E Z \in SUBSET Cells : /\ ClosedIn(k, Z) /\ Y \cup {Head(q)} \subseteq Z /\ Tail(q)[j] \notin Z
                                            /\ \A i \in 1..(j - 1) : Tail(q)[i] \in Z
  BY DEF OrderedRoots
<1>2. j + 1 \in DOMAIN q /\ (j + 1) - 1 = j /\ j \in Nat \ {0}
  BY <1>1
<1>3. PICK Z \in SUBSET Cells : ClosedIn(k, Z) /\ Y \subseteq Z /\ q[j + 1] \notin Z /\ \A i \in 1..((j + 1) - 1) : q[i] \in Z
  BY <1>2 DEF OrderedRoots
<1>4. \A i \in 1..(j - 1) : i \in DOMAIN Tail(q) /\ i + 1 \in 1..j
  BY <1>1, <1>2
<1>5. 1 \in 1..j
  BY <1>2
<1> QED
  BY <1>1, <1>2, <1>3, <1>4, <1>5

\* The roots stay in order with respect to fewer cells.
LEMMA OrderedLess ==
  ASSUME NEW k, NEW q, NEW Y, OrderedRoots(k, q, Y), NEW Y2, Y2 \subseteq Y
  PROVE  OrderedRoots(k, q, Y2)
  BY DEF OrderedRoots

-----------------------------------------------------------------------------
(* Steps that write no header.                                              *)

\* The next cell of the work list needs nothing.
Skipped == /\ phase \in {"scan", "white"} /\ work # <<>> /\ work' = Tail(work) /\ stack' = stack /\ stack = <<>>
           /\ phase = "scan" => hdr[Head(work)].color # "gray"
           /\ phase = "white" => hdr[Head(work)].color # "white"

\* A step that writes no header and gives up a call, or a cell of the work list.
LEMMA Quieter ==
  ASSUME CollectorInv, Still, hdr' = hdr, isolate # "gone", stack' \in Seq(Frames), Stacked(stack', phase, live),
         \A op, x : At(stack', op, x) > 0 => At(stack, op, x) > 0,
         \A x : At(stack', "white", x) = At(stack, "white", x) /\ At(stack', "dispose", x) = At(stack, "dispose", x),
         \A op : \A q \in Cells : \A j \in DOMAIN kids[q] : Ahead(stack', op, q, j) <=> Ahead(stack, op, q, j),
         work' = work \/ Skipped
  PROVE  CollectorInv'
<1>0. /\ HeapTypeOK /\ Bounded /\ Stacked(stack, phase, live) /\ DeadBlank /\ Leaves /\ Colored /\ Enlisted
      /\ ParkedAlone /\ Counts /\ Whole /\ Uncounted /\ Marking /\ Scanning /\ Collecting
  BY DEF CollectorInv, HeapInv
<1>1. /\ live' = live /\ kids' = kids /\ handles' = handles /\ attached' = attached /\ phase' = phase
      /\ isolate' = isolate /\ passes' = passes /\ before' = before /\ ub' = ub /\ cand' = cand /\ lost' = lost
      /\ kept' = kept /\ deferred' = deferred
  BY DEF Still
<1>2. \A op, x : At(stack, op, x) \in Nat /\ At(stack', op, x) \in Nat
  BY <1>0, HeapTyped, AtSome
<1>3. work' \in Seq(Cells) /\ Range(work') \subseteq Range(work) /\ (Skipped => Range(work) = Range(work') \cup {Head(work)})
  <2>1. work \in Seq(Cells)
    BY <1>0, HeapTyped
  <2>2. CASE Skipped
    BY <2>1, <2>2, TailOf DEF Skipped
  <2> QED
    BY <2>1, <2>2
<1>4. work' = work \/ phase \in {"scan", "white"}
  BY DEF Skipped
<1>5. Parked' = Parked
  BY <1>1, <1>4 DEF Parked
<1>6. \A op : Todo(kids, stack', op) = Todo(kids, stack, op)
  BY DEF Todo
<1>7. \A q \in Cells : \A j \in DOMAIN kids[q] : Out(kids, hdr', stack', q, j) <=> Out(kids, hdr, stack, q, j)
  BY DEF Out, Visited
<1>8. Gray' = Gray /\ White' = White /\ Buffered' = Buffered
  BY <1>1 DEF Gray, White, Buffered
<1>16. HeapTypeOK' /\ Bounded'
  <2>1. HeapTypeOK'
    BY <1>0, <1>1, <1>3 DEF HeapTypeOK, Frames, Ops
  <2> QED
    BY <1>0, <1>1, <2>1 DEF Bounded
<1>17. (Stacked(stack, phase, live) /\ DeadBlank /\ Leaves)'
  BY <1>0, <1>1 DEF DeadBlank, Leaves
<1>18. Colored'
  <2>1. WorkColors' = WorkColors
    BY <1>1 DEF WorkColors
  <2> QED
    BY <2>1, <1>0, <1>1 DEF Colored
<1>20. Enlisted'
  <2>1. Slotted' = Slotted
    BY <1>1, <1>4 DEF Slotted
  <2>2. phase = "idle" => work' = work
    BY <1>4
  <2> QED
    BY <2>1, <2>2, <1>0, <1>1, <1>8 DEF Enlisted
<1>21. Purples'
  BY <1>1, <1>5 DEF CollectorInv, RootsInv, Purples
<1>22. ParkedAlone'
  <2>1. \A x : Untouched(kids, handles, stack, x) => Untouched(kids', handles', stack', x)
    BY <1>1, <1>2 DEF Untouched
  <2>2. phase = "mark" => work' = work
    BY <1>4
  <2> QED
    BY <2>1, <2>2, <1>0, <1>1, <1>5 DEF ParkedAlone
<1>23. Counts'
  <2>1. \A x : Refs(kids, hdr', stack', x) = Refs(kids, hdr, stack, x)
    BY <1>0, <1>7, CountSame
  <2> QED
    BY <1>0, <1>1, <2>1, CountsSame
<1>24. (Whole /\ Uncounted)'
  BY <1>0, <1>1, <1>8 DEF Whole, Uncounted
<1>25. Marking'
  <2>1. Gray \subseteq Cells
    BY <1>0, HeapTyped DEF Gray
  <2> QED
    BY <2>1, <1>0, <1>1, <1>8 DEF Marking
<1>26. Scanning'
  <2> SUFFICES ASSUME phase = "scan" PROVE Scanning'
    BY <1>1 DEF Scanning
  <2> DEFINE S == Range(work) \cup Todo(kids, stack, "scan") \cup Todo(kids, stack, "black")
             T == Range(work') \cup Todo(kids, stack', "scan") \cup Todo(kids, stack', "black")
  <2>1. Covered(kids, Gray, T)
    <3>1. Skipped => Head(work) \notin Gray
      BY DEF Skipped, Gray
    <3>2. \A x \in Gray : x \in S => x \in T
      BY <3>1, <1>3, <1>6
    <3>3. Covered(kids, Gray, S)
      BY <1>0 DEF Scanning
    <3> HIDE DEF S, T
    <3> QED
      BY <3>2, <3>3, CoverStep
  <2>2. Range(work') \subseteq Range(kept)
    BY <1>0, <1>3 DEF Scanning
  <2>3. Todo(kids, stack', "black") = Todo(kids, stack, "black")
    BY <1>6
  <2>4. \A q \in Cells : At(stack', "scan", q) > 0 /\ hdr[q].color = "black" =>
          \A i \in DOMAIN kids[q] :
             kids[q][i] \notin Acyclic /\ hdr[kids[q][i]].color # "black" => Ahead(stack', "black", q, i)
    BY <1>0 DEF Scanning
  <2>5. Range(kept) \subseteq live \ Acyclic /\ Covered(kids, White, Range(kept) \cup Todo(kids, stack, "black")) /\ OrderedRoots(kids, kept, {})
    BY <1>0 DEF Scanning
  <2> QED
    BY <2>1, <2>2, <2>3, <2>4, <2>5, <1>1, <1>8 DEF Scanning
<1>27. Collecting'
  <2> SUFFICES ASSUME phase = "white" PROVE Collecting'
    BY <1>1 DEF Collecting
  <2> DEFINE S == Range(work) \cup Todo(kids, stack, "white")
             T == Range(work') \cup Todo(kids, stack', "white")
             Y == {x \in Cells : At(stack, "white", x) > 0}
  <2>0. Covered(kids, White, S) /\ OrderedRoots(kids, work, Y) /\ Range(work) \subseteq live \ Acyclic
    BY <1>0 DEF Collecting
  <2>1. Covered(kids, White, T)
    <3>1. Skipped => Head(work) \notin White
      BY DEF Skipped, White
    <3>2. \A x \in White : x \in S => x \in T
      BY <3>1, <1>3, <1>6
    <3> HIDE DEF S, T
    <3> QED
      BY <2>0, <3>2, CoverStep
  <2>2. {x \in Cells : At(stack', "white", x) > 0} = Y
    OBVIOUS
  <2>3. OrderedRoots(kids, work', Y)
    <3>1. CASE Skipped
      <4>1. work \in Seq(Cells) /\ work # <<>> /\ work' = Tail(work)
        BY <3>1, <1>0, HeapTyped DEF Skipped
      <4> HIDE DEF Y
      <4>2. OrderedRoots(kids, work', Y \cup {Head(work)})
        BY <2>0, <4>1, OrderedTail
      <4> QED
        BY <4>2, OrderedLess
    <3> QED
      BY <2>0, <3>1
  <2> QED
    BY <2>0, <2>1, <2>2, <2>3, <1>1, <1>3, <1>8 DEF Collecting
<1>28. Enrolled'
  <2>1. Settled' = Settled
    BY <1>1 DEF Settled
  <2>2. Sources' = Sources
    <3>1. phase = "mark" => work' = work
      BY <1>4
    <3> QED
      BY <3>1, <1>1, <1>5, <1>6, <1>8 DEF Sources
  <2> QED
    BY <2>1, <2>2, <1>1 DEF CollectorInv, RootsInv, Enrolled
<1>29. Gone'
  BY <1>1 DEF Gone
<1> QED
  BY <1>1, <1>16, <1>17, <1>18, <1>20, <1>21, <1>22, <1>23, <1>24, <1>25, <1>26, <1>27, <1>28, <1>29 DEF CollectorInv, HeapInv, RootsInv

\* A phase is done with a cell.
LEMMA ReturnStep == ASSUME CollectorInv, Return PROVE CollectorInv'
<1>0. HeapTypeOK /\ Stacked(stack, phase, live)
  BY DEF CollectorInv, HeapInv
<1>1. /\ stack # <<>> /\ Top.op \in {"gray", "black", "scan"} /\ ~(Top.next <= Len(kids[Top.cell])) /\ stack' = Tail(stack)
      /\ Still /\ hdr' = hdr /\ work' = work
  BY DEF Return, InCall, HasChild, Still, heap, pass, ending
<1>2. stack \in Seq(Frames)
  BY <1>0, HeapTyped
<1>3. /\ \A op, x : At(stack', op, x) = IF op = Top.op /\ x = Top.cell THEN 0 ELSE At(stack, op, x)
      /\ At(stack, Top.op, Top.cell) = Top.next
  BY <1>0, <1>1, <1>2, StackedApart, AtTail DEF Top
<1>4. \A op, x : At(stack, op, x) \in Nat
  BY <1>2, AtSome
<1>5. \A op, x : At(stack', op, x) > 0 => x \in live
  BY <1>0, <1>2, <1>3, <1>4, CallsLive
<1>6. Stacked(stack', phase, live) /\ stack' \in Seq(Frames)
  BY <1>0, <1>1, <1>2, <1>5, StackedTail
<1>7. \A op : \A q \in Cells : \A j \in DOMAIN kids[q] : Ahead(stack', op, q, j) <=> Ahead(stack, op, q, j)
  <2> SUFFICES ASSUME NEW op, NEW q \in Cells, NEW j \in DOMAIN kids[q] PROVE Ahead(stack', op, q, j) <=> Ahead(stack, op, q, j)
    OBVIOUS
  <2>1. j \in Nat /\ j <= Len(kids[q]) /\ Len(kids[q]) \in Nat
    BY <1>0, KidsType
  <2>2. CASE op = Top.op /\ q = Top.cell
    BY <2>1, <2>2, <1>1, <1>3, <1>4 DEF Ahead
  <2>3. CASE ~(op = Top.op /\ q = Top.cell)
    BY <2>3, <1>3 DEF Ahead
  <2> QED
    BY <2>2, <2>3
<1>8. \A x : At(stack', "white", x) = At(stack, "white", x) /\ At(stack', "dispose", x) = At(stack, "dispose", x)
  BY <1>1, <1>3
<1>9. \A op, x : At(stack', op, x) > 0 => At(stack, op, x) > 0
  BY <1>3
<1>10. isolate # "gone"
  BY <1>1 DEF CollectorInv, Gone
<1> QED
  BY <1>1, <1>6, <1>7, <1>8, <1>9, <1>10, Quieter

-----------------------------------------------------------------------------
(* The roots.                                                               *)

\* The loop of a phase takes a cell.
LEMMA RootContext ==
  ASSUME CollectorInv, ProcessRoot, NEW c, c = Head(work)
  PROVE  /\ stack = <<>> /\ phase # "idle" /\ work # <<>> /\ work \in Seq(Cells) /\ work' = Tail(work) /\ isolate # "gone"
         /\ c \in Cells /\ c \in live /\ c \notin Acyclic /\ c \in Range(work) /\ work' \in Seq(Cells)
         /\ Range(work) = Range(work') \cup {c} /\ Range(work') \subseteq Range(work) /\ (IsInjective(work) => c \notin Range(work') /\ IsInjective(work'))
         /\ \A op, x : At(stack, op, x) = 0
         /\ live' = live /\ kids' = kids /\ handles' = handles /\ attached' = attached /\ phase' = phase
         /\ isolate' = isolate /\ passes' = passes /\ before' = before /\ ub' = ub
         /\ phase # "mark" => kept' = kept /\ deferred' = deferred
         /\ stack \in Seq(Frames) /\ Stacked(stack, phase, live)
<1>0. /\ HeapTypeOK /\ Leaves /\ Enlisted /\ ParkedAlone /\ Scanning /\ Collecting /\ Stacked(stack, phase, live)
  BY DEF CollectorInv, HeapInv
<1>1. /\ stack = <<>> /\ phase # "idle" /\ work # <<>> /\ work' = Tail(work)
      /\ live' = live /\ kids' = kids /\ handles' = handles /\ attached' = attached /\ phase' = phase
      /\ isolate' = isolate /\ passes' = passes /\ before' = before /\ ub' = ub
      /\ phase # "mark" => kept' = kept /\ deferred' = deferred
  BY DEF ProcessRoot, heap, ending
<1>2. work \in Seq(Cells) /\ live \subseteq Cells /\ stack \in Seq(Frames) /\ phase \in Phases
  BY <1>0, HeapTyped DEF Phases
<1>3. /\ work' \in Seq(Cells) /\ c \in Cells /\ Range(work) = Range(work') \cup {c}
      /\ (IsInjective(work) => c \notin Range(work') /\ IsInjective(work'))
  BY <1>1, <1>2, TailOf
<1>4. c \in live /\ c \notin Acyclic
  <2>1. CASE phase = "mark"
    <3>1. c \in Buffered
      BY <2>1, <1>0, <1>3 DEF Enlisted, Slotted
    <3> QED
      BY <3>1, <1>0 DEF Buffered, Leaves
  <2>2. CASE phase = "scan"
    BY <2>2, <1>0, <1>3 DEF Scanning
  <2>3. CASE phase = "white"
    BY <2>3, <1>0, <1>3 DEF Collecting
  <2>4. CASE phase = "dispose"
    BY <2>4, <1>0, <1>3 DEF ParkedAlone, Parked
  <2> QED
    BY <1>1, <1>2, <2>1, <2>2, <2>3, <2>4 DEF Phases
<1>5. isolate # "gone"
  BY <1>1 DEF CollectorInv, Gone
<1> QED
  BY <1>0, <1>1, <1>2, <1>3, <1>4, <1>5, AtEmpty

\* Scanning: a root, and a child.
LEMMA ScanRoot == ASSUME CollectorInv, NoSaturation, ProcessRoot, phase = "scan" PROVE CollectorInv'
<1> DEFINE c == Head(work)
<1>1. /\ stack = <<>> /\ phase # "idle" /\ work # <<>> /\ work \in Seq(Cells) /\ work' = Tail(work) /\ isolate # "gone"
      /\ c \in Cells /\ c \in live /\ c \notin Acyclic /\ c \in Range(work) /\ work' \in Seq(Cells)
      /\ Range(work) = Range(work') \cup {c} /\ Range(work') \subseteq Range(work)
      /\ \A op, x : At(stack, op, x) = 0
      /\ live' = live /\ kids' = kids /\ handles' = handles /\ attached' = attached /\ phase' = phase
      /\ isolate' = isolate /\ passes' = passes /\ before' = before /\ ub' = ub
      /\ kept' = kept /\ deferred' = deferred
      /\ stack \in Seq(Frames) /\ Stacked(stack, phase, live)
  BY RootContext
<1>2. HeapTypeOK
  BY DEF CollectorInv, HeapInv
<1>3. Become(Scan(On(stack), c))
  BY MachineIs DEF ProcessRoot
<1> HIDE DEF c
<1>4. /\ Unlisted
      /\ \/ hdr[c].color # "gray" /\ hdr' = hdr /\ stack' = stack
         \/ hdr[c].color = "gray" /\ hdr[c].rc > 0 /\ Effect(stack, c, "black", hdr[c].rc, "black", hdr[c].buffered)
         \/ hdr[c].color = "gray" /\ hdr[c].rc = 0 /\ Effect(stack, c, "scan", 0, "white", hdr[c].buffered)
  BY <1>1, <1>2, <1>3, ScanTable
<1>5. Still
  BY <1>1, <1>4 DEF Still, Unlisted
<1>6. CASE hdr[c].color # "gray" /\ hdr' = hdr /\ stack' = stack
  <2>1. Skipped
    BY <1>1, <1>6 DEF Skipped, c
  <2> QED
    BY <2>1, <1>1, <1>5, <1>6, Quieter
<1>7. ASSUME hdr[c].color = "gray", NEW push, NEW k, Effect(stack, c, push, hdr[c].rc, k, hdr[c].buffered),
             (push = "black" /\ k = "black" /\ hdr[c].rc > 0) \/ (push = "scan" /\ k = "white" /\ hdr[c].rc = 0)
      PROVE  CollectorInv'
  <2>1. c \in Range(kept)
    BY <1>1 DEF CollectorInv, HeapInv, Scanning
  <2>2. Range(work) \cup Todo(kids, stack, "scan") \subseteq Range(work') \cup Todo(kids, stack, "scan") \cup {c}
    BY <1>1
  <2>3. \A x : At(stack, "black", x) = 0
    BY <1>1
  <2>4. /\ stack \in Seq(Frames) /\ Stacked(stack, phase, live) /\ c \in Cells /\ c \in live /\ isolate # "gone"
        /\ work' \in Seq(Cells) /\ Range(work') \subseteq Range(work)
    BY <1>1
  <2> QED
    BY <2>1, <2>2, <2>3, <2>4, <1>5, <1>7, ScanPaint
<1> QED
  BY <1>4, <1>6, <1>7

\* scan comes to a child.
LEMMA ScanVisit == ASSUME CollectorInv, NoSaturation, VisitChild, Top.op = "scan" PROVE CollectorInv'
<1> DEFINE p == Top.cell
           i == Top.next
           c == Child
           s0 == Advanced(stack)
<1>0. /\ HeapTypeOK /\ Stacked(stack, phase, live)
  BY DEF CollectorInv, HeapInv
<1>1. /\ stack # <<>> /\ "scan" \in OpsOf(phase)
      /\ p \in live /\ p \in Cells /\ i \in DOMAIN kids[p] /\ i \in Nat \ {0}
      /\ c = kids[p][i] /\ c \in live /\ c \in Cells
      /\ At(stack, "scan", p) = i
      /\ s0 \in Seq(Frames) /\ Stacked(s0, phase, live)
      /\ \A op, x : At(s0, op, x) = IF op = "scan" /\ x = p THEN i + 1 ELSE At(stack, op, x)
      /\ \A x : At(stack, "black", x) = 0
      /\ Become(Visit(On(s0), "scan", c))
      /\ live' = live /\ kids' = kids /\ handles' = handles /\ attached' = attached /\ phase' = phase /\ work' = work
      /\ kept' = kept /\ deferred' = deferred /\ isolate' = isolate /\ passes' = passes /\ before' = before /\ ub' = ub
      /\ isolate # "gone"
  BY VisitContext
<1>2. phase = "scan"
  BY <1>0, <1>1, CallPhase
<1> HIDE DEF p, i, c, s0
<1>3. Become(Scan(On(s0), c))
  BY <1>1 DEF Visit
<1>4. /\ Unlisted
      /\ \/ hdr[c].color # "gray" /\ hdr' = hdr /\ stack' = s0
         \/ hdr[c].color = "gray" /\ hdr[c].rc > 0 /\ Effect(s0, c, "black", hdr[c].rc, "black", hdr[c].buffered)
         \/ hdr[c].color = "gray" /\ hdr[c].rc = 0 /\ Effect(s0, c, "scan", 0, "white", hdr[c].buffered)
  BY <1>0, <1>1, <1>3, ScanTable
<1>5. Still
  BY <1>1, <1>4 DEF Still, Unlisted
<1>6. CASE hdr[c].color # "gray" /\ hdr' = hdr /\ stack' = s0
  BY <1>4, <1>6, SkipChild DEF p, i, c, s0
<1>7. ASSUME hdr[c].color = "gray", NEW push, NEW k, Effect(s0, c, push, hdr[c].rc, k, hdr[c].buffered),
             (push = "black" /\ k = "black" /\ hdr[c].rc > 0) \/ (push = "scan" /\ k = "white" /\ hdr[c].rc = 0)
      PROVE  CollectorInv'
  <2>0. \A op, x : At(stack, op, x) \in Nat
    BY <1>0, HeapTyped, AtSome
  <2>1. \A op, x : At(s0, op, x) > 0 <=> At(stack, op, x) > 0
    BY <2>0, <1>1
  <2>2. Todo(kids, stack, "scan") \subseteq Todo(kids, s0, "scan") \cup {c}
    <3> SUFFICES ASSUME NEW q \in Cells, NEW j \in DOMAIN kids[q], Ahead(stack, "scan", q, j), kids[q][j] # c
                 PROVE  Ahead(s0, "scan", q, j)
      BY DEF Todo
    <3>1. q # p \/ j # i
      BY <1>1
    <3>2. j \in Nat
      BY <1>0, KidsType
    <3> QED
      BY <3>1, <3>2, <2>0, <1>1 DEF Ahead
  <2>3. \E q \in Cells : At(stack, "scan", q) > 0 /\ \E j \in DOMAIN kids[q] : kids[q][j] = c
    BY <1>1
  <2>4. /\ s0 \in Seq(Frames) /\ Stacked(s0, phase, live) /\ c \in Cells /\ c \in live /\ isolate # "gone"
        /\ work' \in Seq(Cells) /\ Range(work') \subseteq Range(work) /\ \A x : At(stack, "black", x) = 0
    BY <1>0, <1>1, HeapTyped
  <2>5. Range(work) \cup Todo(kids, stack, "scan") \subseteq Range(work') \cup Todo(kids, s0, "scan") \cup {c}
    BY <2>2, <1>1
  <2> QED
    BY <2>1, <2>3, <2>4, <2>5, <1>2, <1>5, <1>7, ScanPaint
<1> QED
  BY <1>4, <1>6, <1>7

(* collect_white on a white cell.                                           *)

\* collect_white enters a white cell.
LEMMA WhitePaint ==
  ASSUME CollectorInv, phase = "white", Still, isolate # "gone",
         NEW s0 \in Seq(Frames), Stacked(s0, phase, live),
         NEW c \in Cells, c \in live, hdr[c].color = "white", Effect(s0, c, "white", hdr[c].rc, "black", FALSE),
         \A op, x : At(s0, op, x) > 0 <=> At(stack, op, x) > 0, \A x : At(s0, "dispose", x) = At(stack, "dispose", x),
         \A q \in Cells : \A j \in DOMAIN kids[q] : kids[q][j] \in Acyclic => (Visited(s0, "white", q, j) <=> Visited(stack, "white", q, j)),
         work' \in Seq(Cells), Range(work') \subseteq Range(work),
         Range(work) \cup Todo(kids, stack, "white") \subseteq Range(work') \cup Todo(kids, s0, "white") \cup {c},
         OrderedRoots(kids, work', {x \in Cells : At(stack, "white", x) > 0} \cup {c})
  PROVE  CollectorInv'
<1>0. /\ HeapTypeOK /\ Bounded /\ Stacked(stack, phase, live) /\ DeadBlank /\ Leaves /\ Colored /\ Enlisted
      /\ ParkedAlone /\ Counts /\ Whole /\ Uncounted /\ Marking /\ Scanning /\ Collecting
  BY DEF CollectorInv, HeapInv
<1>1. /\ live' = live /\ kids' = kids /\ handles' = handles /\ attached' = attached /\ phase' = phase
      /\ isolate' = isolate /\ passes' = passes /\ before' = before /\ ub' = ub /\ cand' = cand /\ lost' = lost
      /\ kept' = kept /\ deferred' = deferred
  BY DEF Still
<1>2. live \subseteq Cells /\ stack \in Seq(Frames) /\ handles \in [Cells -> Nat] /\ kids \in [Cells -> Seq(Cells)]
  BY <1>0, HeapTyped
<1>4. c \notin Acyclic
  BY <1>0 DEF Leaves
<1>3. /\ \A op, x : At(stack, op, x) \in Nat /\ At(s0, op, x) \in Nat
      /\ \A x : At(stack, "gray", x) = 0 /\ At(stack, "scan", x) = 0 /\ At(stack, "black", x) = 0
      /\ \A x : At(s0, "gray", x) = 0 /\ At(s0, "scan", x) = 0 /\ At(s0, "black", x) = 0
      /\ \A x : x \notin Acyclic => At(stack, "dispose", x) = 0 /\ At(s0, "dispose", x) = 0
      /\ At(stack, "white", c) = 0 /\ At(s0, "white", c) = 0
  <2>1. /\ \A op, x : At(stack, op, x) \in Nat /\ At(s0, op, x) \in Nat
        /\ \A x : At(stack, "gray", x) = 0 /\ At(stack, "scan", x) = 0 /\ At(stack, "black", x) = 0
        /\ \A x : At(s0, "gray", x) = 0 /\ At(s0, "scan", x) = 0 /\ At(s0, "black", x) = 0
        /\ \A x : x \notin Acyclic => At(stack, "dispose", x) = 0 /\ At(s0, "dispose", x) = 0
    BY <1>0, <1>2, CallsByPhase DEF Phases
  <2>2. At(stack, "white", c) = 0
    BY <1>0, <2>1 DEF Colored
  <2> QED
    BY <2>1, <2>2
<1>5. hdr[c].rc = 0 /\ 0 \in 0..RCMax /\ ~hdr[c].buffered
  <2>1. hdr[c].rc = 0
    BY <1>0 DEF Uncounted, White
  <2>2. ~hdr[c].buffered
    BY <1>0 DEF Enlisted, Buffered
  <2> QED
    BY <2>1, <2>2, HeapAssumption
<1>10. /\ stack' \in Seq(Frames) /\ Stacked(stack', phase, live)
       /\ \A op, x : At(stack', op, x) = IF op = "white" /\ x = c THEN 1 ELSE At(s0, op, x)
       /\ hdr' \in [Cells -> [rc : 0..RCMax, color : Colors, buffered : BOOLEAN]]
       /\ \A x \in Cells : x # c => hdr'[x] = hdr[x]
       /\ hdr'[c].rc = 0 /\ hdr'[c].color = "black" /\ ~hdr'[c].buffered
  <2>1. PICK push \in Ops : push = "white"
    BY DEF Ops
  <2>2. PICK f \in BOOLEAN : f = FALSE
    OBVIOUS
  <2>3. PICK k \in Colors : k = "black"
    BY DEF Colors
  <2>4. push \in OpsOf(phase) /\ At(s0, push, c) = 0 /\ push # "dispose" /\ push # "none"
    BY <2>1, <1>3, PhaseOps
  <2>5. \A x : At(s0, "black", x) = 0
    BY <1>3
  <2>6. Effect(s0, c, push, hdr[c].rc, k, f) /\ hdr[c].rc \in 0..RCMax
    BY <2>1, <2>2, <2>3, <1>5
  <2>7. /\ stack' \in Seq(Frames) /\ Stacked(stack', phase, live)
        /\ \A op, x : At(stack', op, x) = IF op = push /\ x = c /\ push # "none" THEN 1 ELSE At(s0, op, x)
        /\ hdr' \in [Cells -> [rc : 0..RCMax, color : Colors, buffered : BOOLEAN]]
        /\ \A x \in Cells : x # c => hdr'[x] = hdr[x]
        /\ hdr'[c].rc = hdr[c].rc /\ hdr'[c].color = k /\ (hdr'[c].buffered <=> f)
    BY <1>0, <1>4, <2>4, <2>5, <2>6, EffectContext
  <2> QED
    BY <2>1, <2>2, <2>3, <2>7, <1>5
<1>11. /\ \A x : At(stack', "gray", x) = 0 /\ At(stack', "scan", x) = 0 /\ At(stack', "black", x) = 0
       /\ \A x : At(stack', "dispose", x) = At(stack, "dispose", x)
       /\ \A x : At(stack', "white", x) = IF x = c THEN 1 ELSE At(s0, "white", x)
  <2>1. \A op, x : At(stack', op, x) = IF op = "white" /\ x = c THEN 1 ELSE At(s0, op, x)
    BY <1>10
  <2>2. \A x : At(stack', "dispose", x) = At(stack, "dispose", x)
    BY <2>1
  <2> QED
    BY <2>1, <2>2, <1>3
<1>12. OneCell(c)
  BY <1>1, <1>10 DEF OneCell
<1>13. \A q \in Cells : \A j \in DOMAIN kids[q] : j \in Nat \ {0} /\ kids[q][j] \in Cells
  BY <1>0, KidsType
<1>14. \A q \in Cells : \A j \in DOMAIN kids[q] : Out(kids, hdr', stack', q, j) <=> Out(kids, hdr, stack, q, j)
  <2> TAKE q \in Cells
  <2> TAKE j \in DOMAIN kids[q]
  <2>0. j \in Nat \ {0}
    BY <1>13
  <2>1. CASE q # c
    <3>1. hdr'[q].color = hdr[q].color
      BY <2>1, <1>10
    <3>2. At(stack', "white", q) > 0 <=> At(stack, "white", q) > 0
      BY <2>1, <1>11
    <3>3. kids[q][j] \in Acyclic => (Visited(stack', "white", q, j) <=> Visited(stack, "white", q, j))
      <4>1. Visited(stack', "white", q, j) <=> Visited(s0, "white", q, j)
        BY <2>1, <1>11 DEF Visited
      <4> QED
        BY <4>1
    <3> QED
      BY <2>0, <3>1, <3>2, <3>3, <1>3, <1>11 DEF Out, Visited, Ahead
  <2>2. CASE q = c
    BY <2>0, <2>2, <1>3, <1>4, <1>10, <1>11 DEF Out, Visited, Ahead
  <2> QED
    BY <2>1, <2>2
<1>15. \A op, x : x # c => (At(stack', op, x) > 0 <=> At(stack, op, x) > 0)
  BY <1>10
<1>16. HeapTypeOK' /\ Bounded'
  <2>1. HeapTypeOK'
    BY <1>0, <1>1, <1>10 DEF HeapTypeOK, Frames, Ops
  <2> QED
    BY <1>0, <1>1, <2>1 DEF Bounded
<1>17. (Stacked(stack, phase, live) /\ DeadBlank /\ Leaves)'
  BY <1>0, <1>1, <1>4, <1>10, HeapAssumption DEF DeadBlank, Leaves
<1>18. Colored'
  <2>1. hdr'[c].color = "black" /\ "black" \in WorkColors
    BY <1>10 DEF WorkColors
  <2>2. At(stack', "gray", c) = 0 /\ At(stack', "scan", c) = 0
    BY <1>11
  <2>3. \A op \in Ops : \A x \in Cells : x # c => (At(stack', op, x) > 0 <=> At(stack, op, x) > 0)
    BY <1>15
  <2> QED
    BY <1>0, <1>12, <2>1, <2>2, <2>3, ColoredStep
<1>19. Gray' = Gray \ {c} /\ White' = White \ {c} /\ Buffered' = {} /\ Buffered = {}
  <2>1. Buffered = {}
    BY <1>0 DEF Enlisted
  <2>2. /\ Gray' = (Gray \ {c}) \cup {} /\ White' = (White \ {c}) \cup {} /\ Buffered' = (Buffered \ {c}) \cup {}
    BY <1>0, <1>10, <1>12, Painted
  <2> QED
    BY <2>1, <2>2
<1>20. Enlisted'
  <2>1. \A x \in live : ~hdr'[x].buffered
    BY <1>1, <1>19 DEF Buffered
  <2> QED
    BY <2>1, <1>0, <1>1, <1>19 DEF Enlisted, Slotted
<1>21. Purples'
  <2>1. Purples
    BY DEF CollectorInv, RootsInv
  <2>2. Parked' = Parked
    BY <1>1 DEF Parked
  <2>3. hdr'[c].color = "black" /\ ~hdr'[c].buffered /\ At(stack', "white", c) > 0
    BY <1>10, <1>11
  <2>4. \A op \in Ops : \A x \in Cells : x # c => (At(stack', op, x) > 0 <=> At(stack, op, x) > 0)
    BY <1>15
  <2> QED
    BY <1>0, <1>12, <2>1, <2>2, <2>3, <2>4, PurplesStep
<1>22. ParkedAlone'
  <2>1. \A x \in Cells : x # c /\ Untouched(kids, handles, stack, x) => Untouched(kids', handles', stack', x)
    <3> SUFFICES ASSUME NEW x \in Cells, x # c, Untouched(kids, handles, stack, x) PROVE \A op \in Ops : At(stack', op, x) = 0
      BY <1>1 DEF Untouched
    <3> QED
      BY <1>3, <1>10 DEF Untouched
  <2>2. Parked' = Parked /\ hdr[c].color # "black"
    BY <1>1 DEF Parked
  <2> QED
    BY <1>0, <1>12, <2>1, <2>2, ParkedStep
<1>23. Counts'
  <2>1. \A x : Refs(kids, hdr', stack', x) = Refs(kids, hdr, stack, x)
    BY <1>0, <1>14, CountSame
  <2>2. \A x \in live : hdr'[x].rc = hdr[x].rc
    BY <1>2, <1>5, <1>10
  <2>3. \A x \in Cells : At(stack', "dispose", x) > 0 <=> At(stack, "dispose", x) > 0
    BY <1>11
  <2> QED
    BY <1>0, <1>1, <2>1, <2>2, <2>3, CountsSame
<1>24. (Whole /\ Uncounted)'
  <2>1. ASSUME NEW x \in White' PROVE hdr'[x].rc = 0
    <3>1. x \in White /\ x # c /\ x \in Cells
      BY <1>2, <1>19 DEF White
    <3> QED
      BY <3>1, <1>0, <1>10 DEF Uncounted
  <2>2. ASSUME NEW x \in Cells, At(stack', "white", x) > 0 PROVE hdr'[x].rc = 0
    BY <2>2, <1>0, <1>10, <1>15 DEF Uncounted
  <2> QED
    BY <2>1, <2>2, <1>1 DEF Whole, Uncounted
<1>25. Collecting'
  <2> DEFINE S == Range(work) \cup Todo(kids, stack, "white")
             T == Range(work') \cup Todo(kids, stack', "white")
             Y == {x \in Cells : At(stack, "white", x) > 0}
  <2>0. Covered(kids, White, S) /\ Range(work) \subseteq live \ Acyclic
    BY <1>0 DEF Collecting
  <2>1. Todo(kids, s0, "white") \subseteq Todo(kids, stack', "white")
    <3>1. \A x \in Cells : \A j : Ahead(s0, "white", x, j) => Ahead(stack', "white", x, j)
      BY <1>3, <1>11 DEF Ahead
    <3> QED
      BY <3>1 DEF Todo
  <2>2. \A j \in DOMAIN kids[c] : kids[c][j] \in T
    <3> TAKE j \in DOMAIN kids[c]
    <3>1. Ahead(stack', "white", c, j)
      BY <1>11, <1>13 DEF Ahead
    <3>2. kids[c][j] \in Cells
      BY <1>13
    <3> QED
      BY <3>1, <3>2 DEF Todo
  <2>3. Covered(kids, White', T)
    <3>1. \A x \in White' : x \in S => x \in T
      BY <2>1, <1>19
    <3>2. \A q \in White : \A j \in DOMAIN kids[q] : kids[q][j] \in T \/ q \in White'
      BY <2>2, <1>19
    <3> HIDE DEF S, T
    <3> QED
      BY <2>0, <3>1, <3>2, <1>19, CoverStep
  <2>4. {x \in Cells : At(stack', "white", x) > 0} = Y \cup {c}
    BY <1>11, <1>15
  <2> QED
    BY <2>0, <2>3, <2>4, <1>1 DEF Collecting
<1>26. (Marking /\ Scanning)'
  BY <1>1 DEF Marking, Scanning
<1>27. Enrolled'
  <2>1. Covered(kids, Settled, Sources)
    BY DEF CollectorInv, RootsInv, Enrolled
  <2>2. Settled' = Settled
    <3>1. c \notin Settled' /\ c \notin Settled
      BY <1>11 DEF Settled
    <3>3. \A x \in Cells : x # c => (x \in Settled' <=> x \in Settled)
      BY <1>1, <1>3, <1>10, <1>11 DEF Settled
    <3>4. Settled \subseteq Cells /\ Settled' \subseteq Cells
      BY <1>1, <1>2 DEF Settled
    <3>5. Settled' \subseteq Settled /\ Settled \subseteq Settled'
      BY <3>1, <3>3, <3>4
    <3> QED
      BY <3>5
  <2>3. Sources' = Sources
    <3>1. Todo(kids, stack', "dispose") = Todo(kids, stack, "dispose")
      BY <1>11 DEF Todo, Ahead
    <3> QED
      BY <3>1, <1>1 DEF Sources, Parked
  <2> QED
    BY <2>1, <2>2, <2>3, <1>1 DEF Enrolled
<1>28. Gone'
  BY <1>1 DEF Gone
<1> QED
  BY <1>1, <1>10, <1>16, <1>17, <1>18, <1>20, <1>21, <1>22, <1>23, <1>24, <1>25, <1>26, <1>27, <1>28 DEF CollectorInv, HeapInv, RootsInv

\* Collecting: a root, and a child that is not acyclic.
LEMMA WhiteRoot == ASSUME CollectorInv, ProcessRoot, phase = "white" PROVE CollectorInv'
<1> DEFINE c == Head(work)
<1>1. /\ stack = <<>> /\ phase # "idle" /\ work # <<>> /\ work \in Seq(Cells) /\ work' = Tail(work) /\ isolate # "gone"
      /\ c \in Cells /\ c \in live /\ c \notin Acyclic /\ c \in Range(work) /\ work' \in Seq(Cells)
      /\ Range(work) = Range(work') \cup {c} /\ Range(work') \subseteq Range(work)
      /\ \A op, x : At(stack, op, x) = 0
      /\ live' = live /\ kids' = kids /\ handles' = handles /\ attached' = attached /\ phase' = phase
      /\ isolate' = isolate /\ passes' = passes /\ before' = before /\ ub' = ub
      /\ kept' = kept /\ deferred' = deferred
      /\ stack \in Seq(Frames) /\ Stacked(stack, phase, live)
  BY RootContext
<1>2. HeapTypeOK /\ Enlisted /\ Collecting
  BY DEF CollectorInv, HeapInv
<1>3. Become(CollectWhite(On(stack), c))
  BY MachineIs DEF ProcessRoot
<1>4. OrderedRoots(kids, work', {x \in Cells : At(stack, "white", x) > 0} \cup {c})
  <2>1. OrderedRoots(kids, work, {x \in Cells : At(stack, "white", x) > 0})
    BY <1>2 DEF Collecting
  <2> QED
    BY <2>1, <1>1, OrderedTail
<1> HIDE DEF c
<1>5. ~hdr[c].buffered
  BY <1>1, <1>2 DEF Enlisted, Buffered
<1>6. /\ Unlisted
      /\ \/ hdr[c].color # "white" /\ hdr' = hdr /\ stack' = stack
         \/ hdr[c].color = "white" /\ Effect(stack, c, "white", hdr[c].rc, "black", FALSE)
  BY <1>1, <1>2, <1>3, <1>5, WhiteTable
<1>7. Still
  BY <1>1, <1>6 DEF Still, Unlisted
<1>8. CASE hdr[c].color # "white" /\ hdr' = hdr /\ stack' = stack
  <2>1. Skipped
    BY <1>1, <1>8 DEF Skipped, c
  <2> QED
    BY <2>1, <1>1, <1>7, <1>8, Quieter
<1>9. CASE hdr[c].color = "white" /\ Effect(stack, c, "white", hdr[c].rc, "black", FALSE)
  <2>1. Range(work) \cup Todo(kids, stack, "white") \subseteq Range(work') \cup Todo(kids, stack, "white") \cup {c}
    BY <1>1
  <2>2. /\ stack \in Seq(Frames) /\ Stacked(stack, phase, live) /\ c \in Cells /\ c \in live /\ isolate # "gone"
        /\ work' \in Seq(Cells) /\ Range(work') \subseteq Range(work)
    BY <1>1
  <2> QED
    BY <2>1, <2>2, <1>4, <1>7, <1>9, WhitePaint
<1> QED
  BY <1>6, <1>8, <1>9

\* collect_white comes to a child that is not acyclic.
LEMMA WhiteVisit == ASSUME CollectorInv, VisitChild, Top.op = "white", Child \notin Acyclic PROVE CollectorInv'
<1> DEFINE p == Top.cell
           i == Top.next
           c == Child
           s0 == Advanced(stack)
<1>0. /\ HeapTypeOK /\ Stacked(stack, phase, live) /\ Enlisted /\ Collecting
  BY DEF CollectorInv, HeapInv
<1>1. /\ stack # <<>> /\ "white" \in OpsOf(phase)
      /\ p \in live /\ p \in Cells /\ i \in DOMAIN kids[p] /\ i \in Nat \ {0}
      /\ c = kids[p][i] /\ c \in live /\ c \in Cells
      /\ At(stack, "white", p) = i
      /\ s0 \in Seq(Frames) /\ Stacked(s0, phase, live)
      /\ \A op, x : At(s0, op, x) = IF op = "white" /\ x = p THEN i + 1 ELSE At(stack, op, x)
      /\ Become(Visit(On(s0), "white", c))
      /\ live' = live /\ kids' = kids /\ handles' = handles /\ attached' = attached /\ phase' = phase /\ work' = work
      /\ kept' = kept /\ deferred' = deferred /\ isolate' = isolate /\ passes' = passes /\ before' = before /\ ub' = ub
      /\ isolate # "gone"
  BY VisitContext
<1>2. phase = "white" /\ c \notin Acyclic
  BY <1>0, <1>1, CallPhase
<1> HIDE DEF p, i, c, s0
<1>3. Become(CollectWhite(On(s0), c))
  BY <1>1, <1>2 DEF Visit
<1>4. ~hdr[c].buffered
  BY <1>0, <1>1, <1>2 DEF Enlisted, Buffered
<1>5. /\ Unlisted
      /\ \/ hdr[c].color # "white" /\ hdr' = hdr /\ stack' = s0
         \/ hdr[c].color = "white" /\ Effect(s0, c, "white", hdr[c].rc, "black", FALSE)
  BY <1>0, <1>1, <1>3, <1>4, WhiteTable
<1>6. Still
  BY <1>1, <1>5 DEF Still, Unlisted
<1>7. CASE hdr[c].color # "white" /\ hdr' = hdr /\ stack' = s0
  BY <1>2, <1>5, <1>7, SkipChild DEF p, i, c, s0
<1>8. CASE hdr[c].color = "white" /\ Effect(s0, c, "white", hdr[c].rc, "black", FALSE)
  <2>0. \A op, x : At(stack, op, x) \in Nat
    BY <1>0, HeapTyped, AtSome
  <2>1. /\ \A op, x : At(s0, op, x) > 0 <=> At(stack, op, x) > 0
        /\ \A x : At(s0, "dispose", x) = At(stack, "dispose", x)
    BY <2>0, <1>1
  <2>2. \A q \in Cells : \A j \in DOMAIN kids[q] : j \in Nat \ {0}
    BY <1>0, KidsType
  <2>3. Todo(kids, stack, "white") \subseteq Todo(kids, s0, "white") \cup {c}
    <3> SUFFICES ASSUME NEW q \in Cells, NEW j \in DOMAIN kids[q], Ahead(stack, "white", q, j), kids[q][j] # c
                 PROVE  Ahead(s0, "white", q, j)
      BY DEF Todo
    <3>1. q # p \/ j # i
      BY <1>1
    <3> QED
      BY <3>1, <2>2, <2>0, <1>1 DEF Ahead
  <2>4. \A q \in Cells : \A j \in DOMAIN kids[q] : kids[q][j] \in Acyclic => (Visited(s0, "white", q, j) <=> Visited(stack, "white", q, j))
    <3> TAKE q \in Cells
    <3> TAKE j \in DOMAIN kids[q]
    <3> HAVE kids[q][j] \in Acyclic
    <3>1. q # p \/ j # i
      BY <1>1, <1>2
    <3> QED
      BY <3>1, <2>2, <2>0, <1>1 DEF Visited
  <2>5. OrderedRoots(kids, work', {x \in Cells : At(stack, "white", x) > 0} \cup {c})
    <3> DEFINE Y == {x \in Cells : At(stack, "white", x) > 0}
    <3>1. OrderedRoots(kids, work, Y) /\ p \in Y
      BY <1>0, <1>1, <1>2 DEF Collecting
    <3> HIDE DEF Y
    <3>2. \A Z : ClosedIn(kids, Z) /\ Y \subseteq Z => Y \cup {c} \subseteq Z
      BY <3>1, <1>1 DEF ClosedIn
    <3>3. OrderedRoots(kids, work, Y \cup {c})
      BY <3>1, <3>2 DEF OrderedRoots
    <3> QED
      BY <3>3, <1>1 DEF Y
  <2>6. /\ s0 \in Seq(Frames) /\ Stacked(s0, phase, live) /\ c \in Cells /\ c \in live /\ isolate # "gone"
        /\ work' \in Seq(Cells) /\ Range(work') \subseteq Range(work)
    BY <1>0, <1>1, HeapTyped
  <2>7. Range(work) \cup Todo(kids, stack, "white") \subseteq Range(work') \cup Todo(kids, s0, "white") \cup {c}
    BY <2>3, <1>1
  <2> QED
    BY <2>1, <2>4, <2>5, <2>6, <2>7, <1>2, <1>6, <1>8, WhitePaint
<1> QED
  BY <1>5, <1>7, <1>8

\* A list stays in order when what comes last is outside a closed set that holds the rest.
LEMMA OrderedAppend ==
  ASSUME NEW k, NEW q \in Seq(Cells), OrderedRoots(k, q, {}), NEW c \in Cells,
         NEW Z \in SUBSET Cells, ClosedIn(k, Z), Range(q) \subseteq Z, c \notin Z
  PROVE  OrderedRoots(k, Append(q, c), {})
<1> DEFINE u == Append(q, c)
<1>1. /\ DOMAIN q = 1..Len(q) /\ Len(q) \in Nat /\ DOMAIN u = 1..(Len(q) + 1)
      /\ \A j \in DOMAIN q : u[j] = q[j]
      /\ u[Len(q) + 1] = c
  BY AppendOf
<1> HIDE DEF u
<1> SUFFICES ASSUME NEW j \in DOMAIN u
             PROVE  \E Y \in SUBSET Cells : ClosedIn(k, Y) /\ {} \subseteq Y /\ u[j] \notin Y /\ \A i \in 1..(j - 1) : u[i] \in Y
  BY DEF OrderedRoots, u
<1>2. \A i \in 1..(j - 1) : i \in DOMAIN q
  BY <1>1
<1>3. CASE j = Len(q) + 1
  <2>1. \A i \in 1..(j - 1) : u[i] \in Z
    BY <1>1, <1>2 DEF Range
  <2> QED
    BY <2>1, <1>1, <1>3
<1>4. CASE j \in DOMAIN q
  <2>1. PICK Y \in SUBSET Cells : ClosedIn(k, Y) /\ {} \subseteq Y /\ q[j] \notin Y /\ \A i \in 1..(j - 1) : q[i] \in Y
    BY <1>4 DEF OrderedRoots
  <2> QED
    BY <2>1, <1>1, <1>2, <1>4
<1> QED
  BY <1>1, <1>3, <1>4

-----------------------------------------------------------------------------
(* One candidate of MarkRoots.                                              *)

\* A candidate is taken off the buffer: a root, a parked cell, or neither.
LEMMA MarkPaint ==
  ASSUME CollectorInv, ProcessRoot, phase = "mark", NEW c, c = Head(work), NEW push, NEW k,
         Effect(stack, c, push, hdr[c].rc, k, FALSE), Unlisted,
         \/ push = "gray" /\ k = "gray" /\ hdr[c].color = "purple" /\ kept' = Append(kept, c) /\ deferred' = deferred
         \/ /\ push = "none" /\ k = "black" /\ hdr[c].color = "black" /\ hdr[c].rc = 0
            /\ kept' = kept /\ deferred' = Append(deferred, c)
         \/ push = "none" /\ k = "gray" /\ hdr[c].color = "gray" /\ kept' = kept /\ deferred' = deferred
  PROVE  CollectorInv'
<1>0. /\ HeapTypeOK /\ Bounded /\ Stacked(stack, phase, live) /\ DeadBlank /\ Leaves /\ Colored /\ Enlisted
      /\ ParkedAlone /\ Counts /\ Whole /\ Uncounted /\ Marking /\ Scanning /\ Collecting
  BY DEF CollectorInv, HeapInv
<1>1. /\ work # <<>> /\ work \in Seq(Cells) /\ work' = Tail(work) /\ isolate # "gone"
      /\ c \in Cells /\ c \in live /\ c \notin Acyclic /\ c \in Range(work) /\ work' \in Seq(Cells)
      /\ Range(work) = Range(work') \cup {c} /\ Range(work') \subseteq Range(work)
      /\ (IsInjective(work) => c \notin Range(work') /\ IsInjective(work'))
      /\ \A op, x : At(stack, op, x) = 0
      /\ live' = live /\ kids' = kids /\ handles' = handles /\ attached' = attached /\ phase' = phase
      /\ isolate' = isolate /\ passes' = passes /\ before' = before /\ ub' = ub
      /\ stack \in Seq(Frames) /\ cand' = cand /\ lost' = lost
  BY RootContext DEF Unlisted
<1>2. /\ live \subseteq Cells /\ handles \in [Cells -> Nat] /\ kids \in [Cells -> Seq(Cells)]
      /\ kept \in Seq(Cells) /\ deferred \in Seq(Cells)
  BY <1>0, HeapTyped
<1>3. push \in {"gray", "none"} /\ k \in {"gray", "black"} /\ hdr[c].color \in {"purple", "black", "gray"}
  OBVIOUS
<1>4. hdr[c].rc \in 0..RCMax /\ hdr[c].buffered
  <2>1. c \in Buffered
    BY <1>0, <1>1 DEF Enlisted, Slotted
  <2> QED
    BY <2>1, <1>0, <1>1, HeaderType DEF Buffered
<1>10. /\ stack' \in Seq(Frames) /\ Stacked(stack', phase, live)
       /\ \A op, x : At(stack', op, x) = IF op = "gray" /\ x = c /\ push = "gray" THEN 1 ELSE 0
       /\ hdr' \in [Cells -> [rc : 0..RCMax, color : Colors, buffered : BOOLEAN]]
       /\ \A x \in Cells : x # c => hdr'[x] = hdr[x]
       /\ hdr'[c].rc = hdr[c].rc /\ hdr'[c].color = k /\ ~hdr'[c].buffered
  <2>1. push \in Ops \cup {"none"} /\ k \in Colors /\ push # "dispose"
    BY <1>3 DEF Ops, Colors
  <2>2. PICK f \in BOOLEAN : f = FALSE
    OBVIOUS
  <2>3. push # "none" => At(stack, push, c) = 0 /\ push \in OpsOf(phase) /\ \A x : At(stack, "black", x) = 0
    BY <1>1, <1>3, PhaseOps
  <2>4. Effect(stack, c, push, hdr[c].rc, k, f)
    BY <2>2
  <2>5. /\ stack' \in Seq(Frames) /\ Stacked(stack', phase, live)
        /\ \A op, x : At(stack', op, x) = IF op = push /\ x = c /\ push # "none" THEN 1 ELSE At(stack, op, x)
        /\ hdr' \in [Cells -> [rc : 0..RCMax, color : Colors, buffered : BOOLEAN]]
        /\ \A x \in Cells : x # c => hdr'[x] = hdr[x]
        /\ hdr'[c].rc = hdr[c].rc /\ hdr'[c].color = k /\ (hdr'[c].buffered <=> f)
    <3> DEFINE s0 == stack
               r == hdr[c].rc
    <3>1. /\ HeapTypeOK /\ s0 \in Seq(Frames) /\ Stacked(s0, phase, live) /\ c \in Cells /\ c \in live /\ r \in 0..RCMax
          /\ push \in Ops \cup {"none"} /\ k \in Colors /\ f \in BOOLEAN
          /\ Effect(s0, c, push, r, k, f)
      BY <1>0, <1>1, <1>4, <2>1, <2>2, <2>4
    <3>2. push # "none" => /\ At(s0, push, c) = 0 /\ push \in OpsOf(phase) /\ (push # "dispose" => c \notin Acyclic)
                           /\ (phase = "white" /\ push = "dispose" => c \in Acyclic)
                           /\ (push # "black" => \A x : At(s0, "black", x) = 0)
      BY <1>1, <2>1, <2>3
    <3>3. s0 = stack /\ r = hdr[c].rc
      OBVIOUS
    <3> HIDE DEF s0, r
    <3>4. /\ stack' \in Seq(Frames) /\ Stacked(stack', phase, live)
          /\ \A op, x : At(stack', op, x) = IF op = push /\ x = c /\ push # "none" THEN 1 ELSE At(s0, op, x)
          /\ hdr' \in [Cells -> [rc : 0..RCMax, color : Colors, buffered : BOOLEAN]]
          /\ \A x \in Cells : x # c => hdr'[x] = hdr[x]
          /\ hdr'[c].rc = r /\ hdr'[c].color = k /\ (hdr'[c].buffered <=> f)
      <4>1. CASE push = "none"
        <5>1. hdr' = Put(hdr, c, r, k, f) /\ stack' = s0
          BY <3>1, <4>1 DEF Effect
        <5>2. /\ hdr' \in [Cells -> [rc : 0..RCMax, color : Colors, buffered : BOOLEAN]]
              /\ \A x \in Cells : x # c => hdr'[x] = hdr[x]
              /\ hdr'[c].rc = r /\ hdr'[c].color = k /\ (hdr'[c].buffered <=> f)
          BY <3>1, <5>1, PutFields
        <5> QED
          BY <3>1, <4>1, <5>1, <5>2
      <4>2. CASE push # "none"
        <5>1. /\ At(s0, push, c) = 0 /\ push \in OpsOf(phase) /\ (push # "dispose" => c \notin Acyclic)
              /\ (phase = "white" /\ push = "dispose" => c \in Acyclic)
              /\ (push # "black" => \A x : At(s0, "black", x) = 0)
          BY <4>2, <3>2
        <5> QED
          BY <3>1, <5>1, EffectContext
      <4> QED
        BY <4>1, <4>2
    <3> QED
      BY <3>3, <3>4
  <2>6. \A op, x : At(stack', op, x) = IF op = "gray" /\ x = c /\ push = "gray" THEN 1 ELSE 0
    BY <2>5, <1>1, <1>3
  <2> QED
    BY <2>2, <2>5, <2>6
<1>11. \A x : At(stack', "white", x) = 0 /\ At(stack', "scan", x) = 0 /\ At(stack', "black", x) = 0 /\ At(stack', "dispose", x) = 0
  BY <1>10
<1>12. OneCell(c)
  BY <1>1, <1>10 DEF OneCell
<1>13. \A q \in Cells : \A j \in DOMAIN kids[q] : j \in Nat \ {0} /\ kids[q][j] \in Cells
  BY <1>0, KidsType
<1>14. \A q \in Cells : \A j \in DOMAIN kids[q] : Out(kids, hdr', stack', q, j) <=> Out(kids, hdr, stack, q, j)
  <2> TAKE q \in Cells
  <2> TAKE j \in DOMAIN kids[q]
  <2>0. j \in Nat \ {0}
    BY <1>13
  <2>1. CASE q # c \/ push = "none"
    <3>1. hdr'[q].color = hdr[q].color
      BY <2>1, <1>10
    <3>2. \A op : At(stack', op, q) = At(stack, op, q)
      BY <2>1, <1>1, <1>10
    <3> QED
      BY <3>1, <3>2 DEF Out, Visited, Ahead
  <2>2. CASE q = c /\ push = "gray"
    <3>1. Ahead(stack', "gray", q, j)
      BY <2>0, <2>2, <1>10 DEF Ahead
    <3>2. hdr[c].color = "purple"
      BY <2>2
    <3>3. ~Out(kids, hdr, stack, q, j)
      BY <2>0, <2>2, <3>2, <1>1 DEF Out, Visited, Ahead
    <3>4. ~Out(kids, hdr', stack', q, j)
      BY <2>0, <2>2, <3>1, <1>11 DEF Out, Visited, Ahead
    <3> QED
      BY <3>3, <3>4
  <2> QED
    BY <2>1, <2>2, <1>3
<1>15. /\ kept' \in Seq(Cells) /\ deferred' \in Seq(Cells)
       /\ Range(kept') = Range(kept) \cup (IF push = "gray" THEN {c} ELSE {})
       /\ Range(deferred') = Range(deferred) \cup (IF k = "black" THEN {c} ELSE {})
  <2>1. Append(kept, c) \in Seq(Cells) /\ Range(Append(kept, c)) = Range(kept) \cup {c}
    BY <1>1, <1>2, AppendOf
  <2>2. Append(deferred, c) \in Seq(Cells) /\ Range(Append(deferred, c)) = Range(deferred) \cup {c}
    BY <1>1, <1>2, AppendOf
  <2> QED
    BY <2>1, <2>2, <1>2
<1>16. HeapTypeOK' /\ Bounded'
  <2>1. HeapTypeOK'
    BY <1>0, <1>1, <1>10, <1>15 DEF HeapTypeOK, Frames, Ops
  <2> QED
    BY <1>0, <1>1, <2>1 DEF Bounded
<1>17. (Stacked(stack, phase, live) /\ DeadBlank /\ Leaves)'
  BY <1>0, <1>1, <1>10, HeapAssumption DEF DeadBlank, Leaves
<1>18. Colored'
  <2>1. hdr'[c].color \in WorkColors
    BY <1>3, <1>10 DEF WorkColors
  <2>2. /\ At(stack', "black", c) = 0 /\ At(stack', "scan", c) = 0 /\ At(stack', "white", c) = 0
        /\ At(stack', "gray", c) > 0 => hdr'[c].color = "gray"
    BY <1>10
  <2>3. \A op \in Ops : \A x \in Cells : x # c => (At(stack', op, x) > 0 <=> At(stack, op, x) > 0)
    BY <1>1, <1>10
  <2> QED
    BY <1>0, <1>12, <2>1, <2>2, <2>3, ColoredStep
<1>19. /\ Gray' = Gray \cup (IF k = "gray" THEN {c} ELSE {}) /\ White' = White /\ Buffered' = Buffered \ {c}
       /\ k = "gray" => c \in Gray'
  <2>1. c \in Gray <=> hdr[c].color = "gray"
    BY <1>1 DEF Gray
  <2>2. c \notin White
    BY <1>3 DEF White
  <2>3. /\ Gray' = (Gray \ {c}) \cup (IF k = "gray" THEN {c} ELSE {}) /\ White' = (White \ {c}) \cup {}
        /\ Buffered' = (Buffered \ {c}) \cup {}
    BY <1>0, <1>3, <1>10, <1>12, Painted
  <2>4. hdr[c].color = "gray" => k = "gray"
    OBVIOUS
  <2> QED
    BY <2>1, <2>2, <2>3, <2>4
<1>20. Enlisted'
  <2>1. Range(work) = Buffered /\ IsInjective(work) /\ cand = <<>>
    BY <1>0 DEF Enlisted, Slotted
  <2>2. Range(work') = Buffered' /\ IsInjective(work')
    BY <2>1, <1>1, <1>19
  <2> QED
    BY <2>1, <2>2, <1>1, <1>11 DEF Enlisted, Slotted
<1>21. Purples'
  <2>1. Purples
    BY <1>1 DEF CollectorInv, RootsInv
  <2>2. Range(Parked) \subseteq Range(Parked') /\ (k = "black" => c \in Range(Parked'))
    BY <1>1, <1>15 DEF Parked
  <2>3. ~hdr'[c].buffered /\ hdr'[c].color \in {"gray", "black"} /\ (hdr'[c].color = "black" => k = "black")
    BY <1>3, <1>10
  <2>4. \A op \in Ops : \A x \in Cells : x # c => (At(stack', op, x) > 0 <=> At(stack, op, x) > 0)
    BY <1>1, <1>10
  <2> QED
    BY <1>0, <1>12, <2>1, <2>2, <2>3, <2>4, PurplesStep
<1>22. ParkedAlone'
  <2>1. \A x \in Cells : x # c /\ Untouched(kids, handles, stack, x) => Untouched(kids', handles', stack', x)
    <3> SUFFICES ASSUME NEW x \in Cells, x # c, Untouched(kids, handles, stack, x) PROVE \A op \in Ops : At(stack', op, x) = 0
      BY <1>1 DEF Untouched
    <3> QED
      BY <1>10
  <2>2. CASE k = "gray"
    <3>1. Parked' = Parked /\ hdr'[c].color # "black" /\ hdr[c].color # "black" /\ Range(work') \subseteq Range(work)
      BY <2>2, <1>1, <1>10 DEF Parked
    <3> QED
      BY <1>0, <1>12, <2>1, <3>1, ParkedStep
  <2>3. CASE k = "black"
    <3>1. deferred' = Append(deferred, c) /\ Parked' = deferred' /\ Parked = deferred /\ hdr[c].color = "black" /\ hdr[c].rc = 0 /\ push = "none"
      BY <2>3, <1>1 DEF Parked
    <3>2. c \notin Range(deferred)
      BY <3>1, <1>0, <1>4 DEF ParkedAlone
    <3>3. IsInjective(deferred')
      BY <3>1, <3>2, <1>0, <1>1, <1>2, AppendOf DEF ParkedAlone
    <3>4. Untouched(kids, handles, stack, c)
      BY <3>1, <1>0, <1>1 DEF ParkedAlone
    <3>5. Untouched(kids', handles', stack', c)
      BY <3>1, <3>4, <1>1, <1>10 DEF Untouched
    <3>6. ASSUME NEW x \in Range(deferred')
          PROVE  /\ x \in live \ Acyclic /\ hdr'[x].color = "black" /\ ~hdr'[x].buffered
                 /\ hdr'[x].rc = 0 /\ Untouched(kids', handles', stack', x)
      <4>1. CASE x = c
        BY <4>1, <3>1, <3>5, <2>3, <1>1, <1>10
      <4>2. CASE x # c
        <5>1. x \in Range(deferred)
          BY <4>2, <1>15, <2>3
        <5>2. /\ x \in live \ Acyclic /\ hdr[x].color = "black" /\ ~hdr[x].buffered
              /\ hdr[x].rc = 0 /\ Untouched(kids, handles, stack, x)
          BY <5>1, <3>1, <1>0 DEF ParkedAlone
        <5> QED
          BY <4>2, <5>2, <2>1, <1>2, <1>10
      <4> QED
        BY <4>1, <4>2
    <3>7. ASSUME NEW x \in Range(work'), hdr'[x].color = "black" PROVE Untouched(kids', handles', stack', x)
      <4>1. x \in Range(work) /\ x \in Cells
        BY <1>1, RangeOfSeq
      <4>2. CASE x = c
        BY <4>2, <3>5
      <4>3. CASE x # c
        BY <4>1, <4>3, <3>7, <2>1, <1>0, <1>10 DEF ParkedAlone
      <4> QED
        BY <4>2, <4>3
    <3> QED
      BY <3>1, <3>3, <3>6, <3>7, <1>1 DEF ParkedAlone
  <2> QED
    BY <2>2, <2>3, <1>3
<1>23. Counts'
  <2>1. \A x : Refs(kids, hdr', stack', x) = Refs(kids, hdr, stack, x)
    BY <1>0, <1>14, CountSame
  <2>2. \A x \in live : hdr'[x].rc = hdr[x].rc
    BY <1>2, <1>10
  <2>3. \A x \in Cells : At(stack', "dispose", x) > 0 <=> At(stack, "dispose", x) > 0
    BY <1>1, <1>11
  <2> QED
    BY <1>0, <1>1, <2>1, <2>2, <2>3, CountsSame
<1>24. (Whole /\ Uncounted)'
  <2>1. White = {}
    BY <1>0 DEF Colored, WorkColors, White, Leaves
  <2> QED
    BY <2>1, <1>0, <1>1, <1>11, <1>19 DEF Whole, Uncounted
<1>25. Marking'
  <2>0. /\ \A q \in Gray : \A j \in DOMAIN kids[q] : kids[q][j] \notin Acyclic => kids[q][j] \in Gray
        /\ Range(kept) \subseteq Gray /\ Covered(kids, Gray, Range(kept)) /\ OrderedRoots(kids, kept, {})
    <3>1. \A q, j : ~Ahead(stack, "gray", q, j)
      BY <1>1 DEF Ahead
    <3> QED
      BY <3>1, <1>0 DEF Marking
  <2>1. ASSUME NEW q \in Gray', NEW j \in DOMAIN kids[q], kids[q][j] \notin Acyclic, ~Ahead(stack', "gray", q, j)
        PROVE  kids[q][j] \in Gray'
    <3>1. q \in Cells
      BY <1>1, <1>2, <1>19 DEF Gray
    <3>2. CASE q = c /\ push = "gray"
      BY <3>1, <3>2, <2>1, <1>10, <1>13 DEF Ahead
    <3>3. CASE q # c \/ push = "none"
      <4>1. q \in Gray
        <5>1. q = c => k = "gray" \/ q \in Gray
          BY <2>1, <1>19
        <5>2. push = "none" /\ k = "gray" => hdr[c].color = "gray"
          OBVIOUS
        <5> QED
          BY <5>1, <5>2, <3>3, <2>1, <1>1, <1>19 DEF Gray
      <4> QED
        BY <4>1, <2>0, <2>1, <1>19
    <3> QED
      BY <3>2, <3>3, <1>3
  <2>2. CASE push = "gray"
    <3>1. Gray' = Gray \cup {c} /\ Range(kept') = Range(kept) \cup {c} /\ kept' = Append(kept, c) /\ hdr[c].color = "purple"
      BY <2>2, <1>15, <1>19
    <3>2. Covered(kids, Gray', Range(kept'))
      BY <2>0, <3>1, CoverAdd
    <3>3. OrderedRoots(kids, kept', {})
      <4> DEFINE Z == Gray \cup Acyclic
      <4>1. ClosedIn(kids, Z)
        BY <2>0, <1>0 DEF ClosedIn, Leaves
      <4>2. Z \in SUBSET Cells /\ Range(kept) \subseteq Z
        BY <2>0, <1>2, HeapAssumption DEF Gray
      <4>3. c \notin Z
        BY <3>1, <1>1 DEF Gray
      <4> HIDE DEF Z
      <4> QED
        BY <2>0, <3>1, <4>1, <4>2, <4>3, <1>1, <1>2, OrderedAppend
    <3>4. Range(kept') \subseteq Gray'
      BY <2>0, <3>1
    <3> QED
      BY <2>1, <3>2, <3>3, <3>4, <1>1 DEF Marking
  <2>3. CASE push = "none"
    <3>1. kept' = kept /\ Gray' = Gray
      <4>1. k = "gray" => c \in Gray
        BY <2>3, <1>1 DEF Gray
      <4> QED
        BY <4>1, <2>3, <1>19
    <3> QED
      BY <2>0, <2>1, <3>1, <1>1 DEF Marking
  <2> QED
    BY <2>2, <2>3, <1>3
<1>26. (Scanning /\ Collecting)'
  BY <1>1 DEF Scanning, Collecting
<1>27. Enrolled'
  <2>1. Covered(kids, Settled, Sources)
    BY <1>1 DEF CollectorInv, RootsInv, Enrolled
  <2>2. Settled' = Settled
    BY <1>1, <1>11 DEF Settled
  <2>3. Todo(kids, stack, "dispose") = {}
    BY <1>1 DEF Todo, Ahead
  <2>4. Sources \subseteq Sources'
    <3>1. c \in Gray' \/ c \in Range(deferred')
      BY <1>3, <1>15, <1>19
    <3>2. Range(work) \cup Gray \cup Range(deferred) \subseteq Range(work') \cup Gray' \cup Range(deferred')
      BY <3>1, <1>1, <1>15, <1>19
    <3> QED
      BY <2>3, <3>2, <1>1 DEF Sources, Parked
  <2>5. Covered(kids, Settled, Sources')
    BY <2>1, <2>4, CoverStep
  <2> QED
    BY <2>2, <2>5, <1>1 DEF Enrolled
<1>28. Gone'
  BY <1>1 DEF Gone
<1> QED
  BY <1>1, <1>10, <1>16, <1>17, <1>18, <1>20, <1>21, <1>22, <1>23, <1>24, <1>25, <1>26, <1>27, <1>28 DEF CollectorInv, HeapInv, RootsInv

\* The first loop of collect takes a candidate.
LEMMA MarkRootStep == ASSUME CollectorInv, ProcessRoot, phase = "mark" PROVE CollectorInv'
<1> DEFINE c == Head(work)
<1>1. /\ c \in Cells /\ c \in live /\ c \notin Acyclic /\ c \in Range(work) /\ isolate # "gone"
  BY RootContext
<1>2. HeapTypeOK /\ Enlisted /\ Purples
  BY <1>1 DEF CollectorInv, HeapInv, RootsInv
<1>3. MarkRoot(c)
  BY DEF ProcessRoot
<1> HIDE DEF c
<1>4. hdr[c].buffered /\ hdr[c].rc \in Nat
  <2>1. c \in Buffered
    BY <1>1, <1>2 DEF Enlisted, Slotted
  <2> QED
    BY <2>1, <1>1, <1>2, HeaderType DEF Buffered
<1>5. CASE IsRoot(hdr[c])
  <2>1. hdr[c].color = "purple" /\ ~IsParked(hdr[c])
    BY <1>5 DEF IsRoot, IsParked
  <2>2. Become(MarkGray([Machine EXCEPT !.hdr[c].buffered = FALSE], c)) /\ kept' = Append(kept, c) /\ deferred' = deferred
    BY <1>3, <1>5, <2>1 DEF MarkRoot
  <2>3. Effect(stack, c, "gray", hdr[c].rc, "gray", FALSE) /\ Unlisted
    BY <1>1, <1>2, <2>1, <2>2, RootTable
  <2> QED
    BY <2>1, <2>2, <2>3, MarkPaint DEF c
<1>6. CASE ~IsRoot(hdr[c])
  <2>1. Become([Machine EXCEPT !.hdr[c].buffered = FALSE]) /\ kept' = kept
        /\ deferred' = IF IsParked(hdr[c]) THEN Append(deferred, c) ELSE deferred
    BY <1>3, <1>6 DEF MarkRoot
  <2>2. Effect(stack, c, "none", hdr[c].rc, hdr[c].color, FALSE) /\ Unlisted
    BY <1>1, <1>2, <2>1, DroppedTable
  <2>3. CASE IsParked(hdr[c])
    <3>1. hdr[c].color = "black" /\ hdr[c].rc = 0 /\ deferred' = Append(deferred, c)
      BY <2>1, <2>3 DEF IsParked
    <3> QED
      BY <3>1, <2>1, <2>2, MarkPaint DEF c
  <2>4. CASE ~IsParked(hdr[c])
    <3>1. hdr[c].color = "gray"
      BY <1>1, <1>2, <1>4, <1>6, <2>4 DEF Purples, IsRoot, IsParked
    <3>2. deferred' = deferred
      BY <2>1, <2>4
    <3> QED
      BY <3>1, <3>2, <2>1, <2>2, MarkPaint DEF c
  <2> QED
    BY <2>3, <2>4
<1> QED
  BY <1>5, <1>6

\* A call of the finalizer.
LEMMA PushDispose ==
  ASSUME NEW s0 \in Seq(Frames), NEW ph, NEW L, Stacked(s0, ph, L), NEW c \in Cells, c \in L,
         At(s0, "dispose", c) = 0, "dispose" \in OpsOf(ph), ph = "white" => c \in Acyclic,
         \A x : At(s0, "black", x) = 0
  PROVE  /\ Pushed(s0, "dispose", c) \in Seq(Frames) /\ Stacked(Pushed(s0, "dispose", c), ph, L)
         /\ \A op, x : At(Pushed(s0, "dispose", c), op, x) = IF op = "dispose" /\ x = c THEN 1 ELSE At(s0, op, x)
<1>1. PICK o \in Ops : o = "dispose"
  BY DEF Ops
<1>2. Apart(s0)
  BY StackedApart
<1>3. At(s0, o, c) = 0 /\ o \in OpsOf(ph) /\ (o # "dispose" => c \notin Acyclic) /\ (ph = "white" /\ o = "dispose" => c \in Acyclic)
      /\ (o # "black" => \A x : At(s0, "black", x) = 0)
  BY <1>1
<1>4. Stacked(Pushed(s0, o, c), ph, L) /\ Pushed(s0, o, c) \in Seq(Frames)
  BY <1>3, StackedPushed
<1>5. \A op, x : At(Pushed(s0, o, c), op, x) = IF op = o /\ x = c THEN 1 ELSE At(s0, op, x)
  BY <1>2, <1>3, AtPushed
<1> QED
  BY <1>1, <1>4, <1>5

\* A parked cell is disposed of.
LEMMA DisposeRoot == ASSUME CollectorInv, ProcessRoot, phase = "dispose" PROVE CollectorInv'
<1>0. /\ HeapTypeOK /\ Bounded /\ Stacked(stack, phase, live) /\ DeadBlank /\ Leaves /\ Colored /\ Enlisted
      /\ ParkedAlone /\ Counts /\ Whole /\ Uncounted
  BY DEF CollectorInv, HeapInv
<1> DEFINE c == Head(work)
<1>1. /\ stack = <<>> /\ work' = Tail(work) /\ isolate # "gone"
      /\ c \in Cells /\ c \in live /\ c \notin Acyclic /\ c \in Range(work) /\ work' \in Seq(Cells)
      /\ Range(work) = Range(work') \cup {c} /\ Range(work') \subseteq Range(work) /\ (IsInjective(work) => c \notin Range(work') /\ IsInjective(work'))
      /\ \A op, x : At(stack, op, x) = 0
      /\ live' = live /\ kids' = kids /\ handles' = handles /\ attached' = attached /\ phase' = phase
      /\ isolate' = isolate /\ passes' = passes /\ before' = before /\ ub' = ub
      /\ kept' = kept /\ deferred' = deferred
      /\ stack \in Seq(Frames) /\ Stacked(stack, phase, live)
  BY RootContext
<1>2. hdr' = hdr /\ stack' = Pushed(stack, "dispose", c) /\ cand' = cand /\ lost' = lost
  BY DEF ProcessRoot, Become, Call, Machine, Pushed
<1> HIDE DEF c
<1>3. "dispose" \in Ops /\ "dispose" \in OpsOf(phase)
  BY PhaseOps DEF Ops
<1>4. /\ stack' \in Seq(Frames) /\ Stacked(stack', phase, live)
      /\ \A op, x : At(stack', op, x) = IF op = "dispose" /\ x = c THEN 1 ELSE At(stack, op, x)
  <2>1. /\ stack \in Seq(Frames) /\ Stacked(stack, phase, live) /\ c \in Cells /\ c \in live /\ At(stack, "dispose", c) = 0
        /\ "dispose" \in OpsOf(phase) /\ (phase = "white" => c \in Acyclic) /\ \A x : At(stack, "black", x) = 0
    BY <1>1, <1>3
  <2>2. /\ Pushed(stack, "dispose", c) \in Seq(Frames) /\ Stacked(Pushed(stack, "dispose", c), phase, live)
        /\ \A op, x : At(Pushed(stack, "dispose", c), op, x) = IF op = "dispose" /\ x = c THEN 1 ELSE At(stack, op, x)
    BY <2>1, PushDispose
  <2> QED
    BY <2>2, <1>2
<1>5. \A op, x : At(stack', op, x) = IF op = "dispose" /\ x = c THEN 1 ELSE 0
  BY <1>1, <1>4
<1>6. \A q \in Cells : \A j \in DOMAIN kids[q] : j \in Nat \ {0} /\ kids[q][j] \in Cells
  BY <1>0, KidsType
<1>7. \A q \in Cells : \A j \in DOMAIN kids[q] : Out(kids, hdr', stack', q, j) <=> Out(kids, hdr, stack, q, j)
  BY <1>1, <1>2, <1>5, <1>6 DEF Out, Visited, Ahead
<1>8. /\ IsInjective(work)
      /\ \A x \in Range(work) : /\ x \in live \ Acyclic /\ hdr[x].color = "black" /\ ~hdr[x].buffered
                                /\ hdr[x].rc = 0 /\ Untouched(kids, handles, stack, x)
  BY <1>0 DEF ParkedAlone, Parked
<1>9. Parked = work /\ Parked' = work'
  BY <1>1 DEF Parked
<1>10. Gray' = Gray /\ White' = White /\ Buffered' = Buffered
  BY <1>1, <1>2 DEF Gray, White, Buffered
<1>16. HeapTypeOK' /\ Bounded'
  <2>1. HeapTypeOK'
    BY <1>0, <1>1, <1>2, <1>4 DEF HeapTypeOK, Frames, Ops
  <2> QED
    BY <1>0, <1>1, <2>1 DEF Bounded
<1>17. (Stacked(stack, phase, live) /\ DeadBlank /\ Leaves)'
  BY <1>0, <1>1, <1>2, <1>4 DEF DeadBlank, Leaves
<1>18. Colored'
  BY <1>0, <1>1, <1>2, <1>5 DEF Colored, WorkColors
<1>20. Enlisted'
  BY <1>0, <1>1, <1>2, <1>5, <1>8, <1>10 DEF Enlisted, Slotted
<1>21. Purples'
  <2>1. Purples
    BY <1>1 DEF CollectorInv, RootsInv
  <2> QED
    BY <2>1, <1>1, <1>2, <1>5, <1>9 DEF Purples
<1>22. ParkedAlone'
  <2>1. \A x \in Range(work') : x # c /\ x \in Range(work)
    BY <1>1, <1>8
  <2>2. \A x : x # c /\ Untouched(kids, handles, stack, x) => Untouched(kids', handles', stack', x)
    BY <1>1, <1>5 DEF Untouched
  <2> QED
    BY <2>1, <2>2, <1>1, <1>2, <1>8, <1>9 DEF ParkedAlone
<1>23. Counts'
  <2> SUFFICES ASSUME NEW x \in Cells
               PROVE  IF x \notin live \/ At(stack', "dispose", x) > 0 THEN handles[x] + Refs(kids, hdr', stack', x) = 0
                      ELSE hdr[x].rc = handles[x] + Refs(kids, hdr', stack', x)
    BY <1>1, <1>2 DEF Counts, Count
  <2>1. IF x \notin live THEN handles[x] + Refs(kids, hdr, stack, x) = 0
        ELSE hdr[x].rc = handles[x] + Refs(kids, hdr, stack, x)
    BY <1>0, <1>1 DEF Counts, Count
  <2>2. Refs(kids, hdr', stack', x) = Refs(kids, hdr, stack, x)
    BY <1>0, <1>7, CountSame
  <2>3. hdr[c].rc = 0
    BY <1>1, <1>8
  <2> QED
    BY <2>1, <2>2, <2>3, <1>1, <1>5
<1>24. (Whole /\ Uncounted)'
  BY <1>0, <1>1, <1>2, <1>5, <1>10 DEF Whole, Uncounted
<1>25. (Marking /\ Scanning /\ Collecting)'
  BY <1>1 DEF Marking, Scanning, Collecting
<1>27. Enrolled'
  <2>1. Covered(kids, Settled, Sources)
    BY <1>1 DEF CollectorInv, RootsInv, Enrolled
  <2>2. Settled' = Settled \ {c}
    BY <1>1, <1>2, <1>5 DEF Settled
  <2>3. Todo(kids, stack, "dispose") = {}
    BY <1>1 DEF Todo, Ahead
  <2>4. Sources \subseteq Sources' \cup {c}
    BY <2>3, <1>1, <1>2, <1>9, <1>10 DEF Sources
  <2>5. \A j \in DOMAIN kids[c] : kids[c][j] \in Sources'
    <3> SUFFICES ASSUME NEW j \in DOMAIN kids[c] PROVE kids[c][j] \in Todo(kids', stack', "dispose")
      BY DEF Sources
    <3>1. Ahead(stack', "dispose", c, j)
      BY <1>1, <1>5, <1>6 DEF Ahead
    <3> QED
      BY <3>1, <1>1, <1>6 DEF Todo
  <2> DEFINE Z == Settled \ {c}
             S == Sources
             T == Sources'
  <2>6. Z \subseteq Settled /\ (\A x \in Z : x \in S => x \in T)
        /\ \A p \in Settled : \A i \in DOMAIN kids[p] : kids[p][i] \in Z =>
             kids[p][i] \in T \/ (p \in Z /\ \E j \in DOMAIN kids[p] : kids[p][j] = kids[p][i])
    BY <2>4, <2>5
  <2> HIDE DEF Z, S, T
  <2>7. Covered(kids, Z, T)
    BY <2>1, <2>6, CoverStep DEF S
  <2> QED
    BY <2>2, <2>7, <1>1 DEF Enrolled, Z, T
<1>28. Gone'
  BY <1>1 DEF Gone
<1> QED
  BY <1>1, <1>16, <1>17, <1>18, <1>20, <1>21, <1>22, <1>23, <1>24, <1>25, <1>27, <1>28 DEF CollectorInv, HeapInv, RootsInv

\* The loop of a phase takes its next cell.
LEMMA ProcessRootStep == ASSUME CollectorInv, NoSaturation, ProcessRoot PROVE CollectorInv'
<1>1. phase \in {"idle", "mark", "scan", "white", "dispose"} /\ phase # "idle"
  BY HeapTyped DEF CollectorInv, HeapInv, ProcessRoot
<1> QED
  BY <1>1, MarkRootStep, ScanRoot, WhiteRoot, DisposeRoot

(* One phase after another.                                                 *)

\* What a change of phase leaves alone.
Resting == /\ stack = <<>> /\ stack' = stack /\ hdr' = hdr /\ live' = live /\ kids' = kids /\ handles' = handles
           /\ cand' = cand /\ lost' = lost /\ attached' = attached
           /\ isolate' = isolate /\ passes' = passes /\ before' = before /\ ub' = ub

\* What a change of phase keeps.
LEMMA Turn ==
  ASSUME CollectorInv, Resting, phase # "idle", work = <<>>, Parked' = Parked, phase' \in Phases, phase' # "mark",
         work' \in Seq(Cells), kept' \in Seq(Cells), deferred' \in Seq(Cells)
  PROVE  /\ HeapTypeOK' /\ Bounded' /\ (Stacked(stack, phase, live) /\ DeadBlank /\ Leaves /\ ParkedAlone /\ Counts /\ Uncounted)'
         /\ Gone' /\ isolate # "gone"
         /\ \A op, x : At(stack, op, x) = 0 /\ At(stack', op, x) = 0
         /\ \A op, q, j : ~Ahead(stack, op, q, j)
         /\ \A op : Todo(kids, stack, op) = {}
         /\ Range(work) = {}
         /\ Gray' = Gray /\ White' = White /\ Buffered' = Buffered
<1>0. /\ HeapTypeOK /\ Bounded /\ DeadBlank /\ Leaves /\ ParkedAlone /\ Counts /\ Uncounted
  BY DEF CollectorInv, HeapInv
<1>1. \A op, x : At(stack, op, x) = 0 /\ At(stack', op, x) = 0
  BY AtEmpty DEF Resting
<1>2. \A op, q, j : ~Ahead(stack, op, q, j)
  BY <1>1 DEF Ahead
<1>3. \A op : Todo(kids, stack, op) = {}
  BY <1>2 DEF Todo
<1>4. Gray' = Gray /\ White' = White /\ Buffered' = Buffered
  BY DEF Resting, Gray, White, Buffered
<1>5. HeapTypeOK'
  BY <1>0 DEF Resting, HeapTypeOK, Phases
<1>6. Bounded'
  BY <1>0 DEF Resting, Bounded
<1>7. Stacked(stack', phase', live')
  BY StackedEmpty DEF Resting
<1>8. (DeadBlank /\ Leaves /\ Uncounted)'
  BY <1>0, <1>1, <1>4 DEF Resting, DeadBlank, Leaves, Uncounted
<1>9. ParkedAlone'
  BY <1>0 DEF Resting, ParkedAlone, Untouched
<1>10. Counts'
  BY <1>0 DEF Resting, Counts
<1>11. isolate # "gone" /\ Gone'
  BY DEF CollectorInv, Gone, Resting
<1>12. Range(work) = {}
  BY DEF Range
<1> QED
  BY <1>1, <1>2, <1>3, <1>4, <1>5, <1>6, <1>7, <1>8, <1>9, <1>10, <1>11, <1>12

\* The next loop of collect begins.
LEMMA NextPhaseStep == ASSUME CollectorInv, NextPhase PROVE CollectorInv'
<1>0. /\ HeapTypeOK /\ Leaves /\ Colored /\ Enlisted /\ Whole /\ Uncounted /\ Marking /\ Scanning /\ Collecting
  BY DEF CollectorInv, HeapInv
<1>1. /\ phase \in {"mark", "scan", "white"} /\ Resting /\ work = <<>> /\ kept' = kept /\ deferred' = deferred
      /\ phase' = Following(phase) /\ work' = IF phase = "white" THEN deferred ELSE kept
  BY DEF NextPhase, Resting, heap, ending
<1>2. /\ phase = "mark" => phase' = "scan" /\ work' = kept
      /\ phase = "scan" => phase' = "white" /\ work' = kept
      /\ phase = "white" => phase' = "dispose" /\ work' = deferred
  BY <1>1 DEF Following
<1>3. /\ phase' \in {"scan", "white", "dispose"} /\ phase' \in Phases /\ Parked' = Parked /\ phase # "idle"
      /\ work' \in Seq(Cells) /\ kept' \in Seq(Cells) /\ deferred' \in Seq(Cells) /\ kept \in Seq(Cells)
  <2>1. phase' \in {"scan", "white", "dispose"}
    BY <1>1, <1>2
  <2>2. Parked' = Parked
    BY <1>1, <1>2 DEF Parked
  <2>3. work' \in Seq(Cells) /\ kept' \in Seq(Cells) /\ deferred' \in Seq(Cells) /\ kept \in Seq(Cells)
    BY <1>0, <1>1, HeapTyped
  <2> QED
    BY <2>1, <2>2, <2>3, <1>1 DEF Phases
<1>4. /\ HeapTypeOK' /\ Bounded' /\ (Stacked(stack, phase, live) /\ DeadBlank /\ Leaves /\ ParkedAlone /\ Counts /\ Uncounted)'
      /\ Gone' /\ isolate # "gone"
      /\ \A op, x : At(stack, op, x) = 0 /\ At(stack', op, x) = 0
      /\ \A op, q, j : ~Ahead(stack, op, q, j)
      /\ \A op : Todo(kids, stack, op) = {}
      /\ Range(work) = {}
      /\ Gray' = Gray /\ White' = White /\ Buffered' = Buffered
  BY <1>1, <1>3, Turn
<1>5. /\ hdr' = hdr /\ live' = live /\ kids' = kids /\ handles' = handles /\ cand' = cand /\ lost' = lost /\ stack' = stack
      /\ isolate' = isolate
  BY <1>1 DEF Resting
<1>6. Purples /\ Covered(kids, Settled, Sources)
  BY <1>4 DEF CollectorInv, RootsInv, Enrolled
<1>7. Buffered = {} /\ cand = <<>> /\ Range(cand) = {} /\ IsInjective(cand)
  <2>1. Buffered = {} /\ cand = <<>>
    BY <1>0, <1>1, <1>4 DEF Enlisted, Slotted
  <2>2. \A q : q = <<>> => IsInjective(q) /\ Range(q) = {}
    BY DEF IsInjective, Range
  <2> QED
    BY <2>1, <2>2
<1>8. Enlisted'
  BY <1>3, <1>4, <1>5, <1>7 DEF Enlisted, Slotted
<1>9. Purples'
  BY <1>3, <1>4, <1>5, <1>6, <1>7 DEF Purples, Buffered
<1>10. \A x \in live : x \in Acyclic => hdr[x].color = "green"
  BY <1>0 DEF Leaves
<1>11. Gray \subseteq live \ Acyclic /\ White \subseteq live \ Acyclic /\ live \subseteq Cells
  BY <1>0, <1>10, HeapTyped DEF Gray, White
<1>12. CASE phase = "mark"
  <2>1. /\ \A q \in Gray : \A j \in DOMAIN kids[q] : kids[q][j] \notin Acyclic => kids[q][j] \in Gray
        /\ Range(kept) \subseteq Gray /\ Covered(kids, Gray, Range(kept)) /\ OrderedRoots(kids, kept, {})
    BY <1>0, <1>4, <1>12 DEF Marking
  <2>2. White = {}
    BY <1>0, <1>11, <1>12 DEF White, Colored, WorkColors
  <2>3. \A x \in live \ Acyclic : hdr[x].color \in {"black", "gray"}
    BY <1>0, <1>6, <1>7, <1>12 DEF Colored, WorkColors, Purples, Buffered
  <2>4. Colored'
    BY <2>3, <1>2, <1>4, <1>5, <1>12 DEF Colored, WorkColors
  <2>5. Whole'
    BY <1>0, <1>5, <1>12 DEF Whole
  <2>6. (Marking /\ Collecting)'
    BY <1>2, <1>12 DEF Marking, Collecting
  <2>7. Covered(kids', White', Range(kept') \cup Todo(kids', stack', "black"))
    <3>1. White' = {}
      BY <2>2, <1>4
    <3> QED
      BY <3>1, CoverOfNone
  <2>8. Scanning'
    <3>1. Range(work') = Range(kept) /\ Range(kept') = Range(kept)
      BY <1>1, <1>2, <1>12
    <3>2. Todo(kids', stack', "scan") = {} /\ Todo(kids', stack', "black") = {}
      BY <1>4, <1>5
    <3>3. Covered(kids', Gray', Range(work') \cup Todo(kids', stack', "scan") \cup Todo(kids', stack', "black"))
      BY <3>1, <3>2, <2>1, <1>4, <1>5
    <3>4. Range(kept') \subseteq live' \ Acyclic /\ Range(work') \subseteq Range(kept') /\ OrderedRoots(kids', kept', {})
      BY <3>1, <2>1, <1>1, <1>5, <1>11
    <3> QED
      BY <2>7, <3>3, <3>4, <1>4 DEF Scanning
  <2>9. Enrolled'
    <3>1. Settled' = Settled \ Gray
      BY <2>2, <1>2, <1>4, <1>5, <1>12 DEF Settled, Gray, White
    <3>2. Sources \subseteq Sources' \cup Gray
      BY <1>3, <1>4, <1>5, <1>12 DEF Sources
    <3>3. \A p \in Settled : \A i \in DOMAIN kids[p] : kids[p][i] \in Settled \ Gray => p \in Settled \ Gray
      BY <2>1 DEF Settled
    <3> DEFINE Z == Settled \ Gray
               S == Sources
               T == Sources'
    <3>4. Z \subseteq Settled /\ (\A x \in Z : x \in S => x \in T)
          /\ \A p \in Settled : \A i \in DOMAIN kids[p] : kids[p][i] \in Z =>
               kids[p][i] \in T \/ (p \in Z /\ \E j \in DOMAIN kids[p] : kids[p][j] = kids[p][i])
      BY <3>2, <3>3
    <3> HIDE DEF Z, S, T
    <3>5. Covered(kids, Z, T)
      BY <1>6, <3>4, CoverStep DEF S
    <3> QED
      BY <3>1, <3>5, <1>5 DEF Enrolled, Z, T
  <2> QED
    BY <2>4, <2>5, <2>6, <2>8, <2>9, <1>4, <1>8, <1>9 DEF CollectorInv, HeapInv, RootsInv
<1>13. CASE phase = "scan"
  <2>1. Gray = {}
    <3>1. Range(work) \cup Todo(kids, stack, "scan") \cup Todo(kids, stack, "black") = {}
      BY <1>4
    <3>2. Covered(kids, Gray, {})
      BY <3>1, <1>0, <1>13 DEF Scanning
    <3> QED
      BY <3>2, CoverNone
  <2>2. /\ Range(kept) \subseteq live \ Acyclic /\ Covered(kids, White, Range(kept) \cup Todo(kids, stack, "black"))
        /\ OrderedRoots(kids, kept, {})
    BY <1>0, <1>13 DEF Scanning
  <2>3. \A x \in live \ Acyclic : hdr[x].color \in {"black", "white"}
    BY <2>1, <1>0, <1>13 DEF Colored, WorkColors, Gray
  <2>4. Colored'
    BY <2>3, <1>2, <1>4, <1>5, <1>13 DEF Colored, WorkColors
  <2>5. (Whole /\ Marking /\ Scanning)'
    BY <1>2, <1>13 DEF Whole, Marking, Scanning
  <2>6. Collecting'
    <3>1. work' = kept
      BY <1>2, <1>13
    <3>2. Todo(kids', stack', "white") = Todo(kids, stack, "black")
      BY <1>4, <1>5
    <3>3. {x \in Cells : At(stack', "white", x) > 0} = {}
      BY <1>4
    <3> QED
      BY <2>2, <3>1, <3>2, <3>3, <1>4, <1>5 DEF Collecting
  <2>7. Enrolled'
    <3>1. Settled' = Settled
      BY <1>2, <1>4, <1>5, <1>13 DEF Settled
    <3>2. Sources' = Sources
      BY <1>2, <1>3, <1>4, <1>5, <1>13 DEF Sources
    <3> QED
      BY <3>1, <3>2, <1>5, <1>6 DEF Enrolled
  <2> QED
    BY <2>4, <2>5, <2>6, <2>7, <1>4, <1>8, <1>9 DEF CollectorInv, HeapInv, RootsInv
<1>14. CASE phase = "white"
  <2>1. White = {}
    <3>1. Range(work) \cup Todo(kids, stack, "white") = {}
      BY <1>4
    <3>2. Covered(kids, White, {})
      BY <3>1, <1>0, <1>14 DEF Collecting
    <3> QED
      BY <3>2, CoverNone
  <2>3. \A x \in live \ Acyclic : hdr[x].color = "black"
    BY <2>1, <1>0, <1>14 DEF Colored, WorkColors, White
  <2>4. Colored'
    BY <2>3, <1>2, <1>4, <1>5, <1>14 DEF Colored, WorkColors
  <2>5. (Whole /\ Marking /\ Scanning /\ Collecting)'
    BY <1>2, <1>14 DEF Whole, Marking, Scanning, Collecting
  <2>7. Enrolled'
    <3>1. Settled' = Settled
      BY <2>3, <1>2, <1>4, <1>5, <1>14 DEF Settled
    <3>2. Sources' = Sources
      BY <1>2, <1>3, <1>4, <1>5, <1>14 DEF Sources
    <3> QED
      BY <3>1, <3>2, <1>5, <1>6 DEF Enrolled
  <2> QED
    BY <2>4, <2>5, <2>7, <1>4, <1>8, <1>9 DEF CollectorInv, HeapInv, RootsInv
<1> QED
  BY <1>1, <1>12, <1>13, <1>14

\* collect returns.
LEMMA EndPassStep == ASSUME CollectorInv, EndPass PROVE CollectorInv'
<1>0. /\ HeapTypeOK /\ Colored /\ Enlisted
  BY DEF CollectorInv, HeapInv
<1>1. /\ phase = "dispose" /\ phase' = "idle" /\ Resting /\ work = <<>> /\ work' = <<>> /\ kept' = <<>> /\ deferred' = <<>>
  BY DEF EndPass, Resting, heap, ending
<1>2. Parked' = Parked /\ phase' \in Phases /\ phase # "idle" /\ phase' # "mark"
  BY <1>1 DEF Parked, Phases
<1>3. work' \in Seq(Cells) /\ kept' \in Seq(Cells) /\ deferred' \in Seq(Cells)
  BY <1>1
<1>4. /\ HeapTypeOK' /\ Bounded' /\ (Stacked(stack, phase, live) /\ DeadBlank /\ Leaves /\ ParkedAlone /\ Counts /\ Uncounted)'
      /\ Gone' /\ isolate # "gone"
      /\ \A op, x : At(stack, op, x) = 0 /\ At(stack', op, x) = 0
      /\ Gray' = Gray /\ White' = White /\ Buffered' = Buffered
  BY <1>1, <1>2, <1>3, Turn
<1>5. /\ hdr' = hdr /\ live' = live /\ kids' = kids /\ handles' = handles /\ cand' = cand /\ lost' = lost /\ stack' = stack
      /\ isolate' = isolate
  BY <1>1 DEF Resting
<1>6. Purples /\ Covered(kids, Settled, Sources)
  BY <1>4 DEF CollectorInv, RootsInv, Enrolled
<1>7. Colored'
  BY <1>0, <1>1, <1>4, <1>5 DEF Colored, WorkColors
<1>8. Enlisted'
  BY <1>0, <1>1, <1>4, <1>5 DEF Enlisted, Slotted
<1>9. Purples'
  BY <1>1, <1>2, <1>4, <1>5, <1>6 DEF Purples
<1>10. (Whole /\ Marking /\ Scanning /\ Collecting)'
  BY <1>1 DEF Whole, Marking, Scanning, Collecting
<1>11. Enrolled'
  <2>1. Settled' = Settled
    BY <1>1, <1>4, <1>5 DEF Settled
  <2>2. Sources' = Sources
    BY <1>1, <1>2, <1>4, <1>5 DEF Sources
  <2> QED
    BY <2>1, <2>2, <1>5, <1>6 DEF Enrolled
<1> QED
  BY <1>4, <1>7, <1>8, <1>9, <1>10, <1>11 DEF CollectorInv, HeapInv, RootsInv

(* A reference is given back.                                               *)

\* The counts are the same when the same references are out.
LEMMA CountEqual ==
  ASSUME NEW k \in [Cells -> Seq(Cells)], NEW h, NEW s, NEW h2, NEW s2,
         \A p \in Cells : \A i \in DOMAIN k[p] : Out(k, h2, s2, p, i) <=> Out(k, h, s, p, i)
  PROVE  \A c : Refs(k, h2, s2, c) = Refs(k, h, s, c)
<1>1. \A c : Counted(k, h2, s2, c) = Counted(k, h, s, c)
  BY SlotsIs DEF Counted
<1> QED
  BY <1>1 DEF Refs

\* A call passes a reference, and so takes it out of the count.
LEMMA CountDrop ==
  ASSUME HeapTypeOK, NEW s2,
         NEW p \in Cells, NEW i \in DOMAIN kids[p], ~Out(kids, hdr, stack, p, i), Out(kids, hdr, s2, p, i),
         \A q \in Cells : \A j \in DOMAIN kids[q] : q # p \/ j # i => (Out(kids, hdr, s2, q, j) <=> Out(kids, hdr, stack, q, j))
  PROVE  \A c \in Cells : Refs(kids, hdr, s2, c) = Refs(kids, hdr, stack, c) - (IF c = kids[p][i] THEN 1 ELSE 0)
<1> TAKE c \in Cells
<1> DEFINE A == Counted(kids, hdr, stack, c)
           B == Counted(kids, hdr, s2, c)
<1>1. IsFiniteSet(A) /\ Cardinality(A) \in Nat /\ Cardinality(B) \in Nat
  BY CountedType
<1>2. \A e \in SlotsIn(kids) : e = <<p, i>> \/ e[1] # p \/ e[2] # i
  BY HeapTyped, SlotsIs
<1>3. \A e \in SlotsIn(kids) : e[1] \in Cells /\ e[2] \in DOMAIN kids[e[1]]
  BY HeapTyped, SlotsIs
<1>4. <<p, i>> \in SlotsIn(kids) /\ <<p, i>>[1] = p /\ <<p, i>>[2] = i
  BY HeapTyped, SlotsIs
<1>5. CASE c = kids[p][i]
  <2>1. <<p, i>> \in A /\ B = A \ {<<p, i>>}
    BY <1>2, <1>3, <1>4, <1>5 DEF Counted
  <2> HIDE DEF A, B
  <2>2. Cardinality(B) = Cardinality(A) - 1
    BY <2>1, <1>1, FS_RemoveElement
  <2> QED
    BY <2>2, <1>1, <1>5 DEF Refs, A, B
<1>6. CASE c # kids[p][i]
  <2>1. B = A
    BY <1>2, <1>3, <1>4, <1>6 DEF Counted
  <2> QED
    BY <2>1, <1>1, <1>6 DEF Refs
<1> QED
  BY <1>5, <1>6

\* What release does to the cell, and where it notes it.
LEMMA ReleaseOutcome ==
  ASSUME CollectorInv, isolate # "gone", live' = live, phase' = phase, phase \notin {"mark", "scan"},
         NEW c \in Cells, c \in live, hdr[c].rc > 0, hdr[c].rc < RCMax, phase = "white" => c \in Acyclic,
         NEW s0 \in Seq(Frames), Stacked(s0, phase, live), At(s0, "dispose", c) = 0,
         Become(Release(On(s0), c))
  PROVE  /\ OneCell(c) /\ hdr' \in [Cells -> [rc : 0..RCMax, color : Colors, buffered : BOOLEAN]]
         /\ stack' \in Seq(Frames) /\ Stacked(stack', phase, live)
         /\ \A op, x : op # "dispose" \/ x # c => At(stack', op, x) = At(s0, op, x)
         /\ At(stack', "dispose", c) \in {0, 1}
         /\ At(stack', "dispose", c) = 0 => hdr'[c].rc = hdr[c].rc - 1
         /\ At(stack', "dispose", c) = 1 => hdr'[c].rc = 1 /\ hdr[c].rc = 1 /\ ~hdr'[c].buffered
         /\ c \in Acyclic => hdr'[c].color = hdr[c].color /\ ~hdr'[c].buffered
         /\ c \notin Acyclic => /\ hdr'[c].color \in {"black", "purple"} /\ hdr[c].color \in {"black", "purple"}
                                /\ hdr'[c].color = "purple" => hdr'[c].buffered /\ hdr'[c].rc > 0
                                /\ hdr'[c].buffered => hdr'[c].color = "purple" \/ (hdr'[c].color = "black" /\ hdr'[c].rc = 0)
                                /\ At(stack', "dispose", c) = 0 => c \in Range(cand') \cup lost'
         /\ hdr'[c].rc = 0 => hdr'[c].buffered \/ c \in Acyclic \/ At(stack', "dispose", c) > 0
         /\ cand' \in Seq(Cells) /\ Range(cand) \subseteq Range(cand') /\ Range(cand') = Buffered' /\ IsInjective(cand')
         /\ c \in Acyclic => cand' = cand /\ hdr'[c].rc > 0
         /\ lost \subseteq lost' \cup {c} /\ lost' \subseteq live \ Acyclic
<1>0. /\ HeapTypeOK /\ Leaves /\ Colored /\ Enlisted /\ Purples
  BY DEF CollectorInv, HeapInv, RootsInv
<1>1. /\ phase \in {"idle", "white", "dispose"} /\ phase \in Phases /\ live \subseteq Cells /\ cand \in Seq(Cells)
      /\ hdr \in [Cells -> [rc : 0..RCMax, color : Colors, buffered : BOOLEAN]]
  BY <1>0, HeapTyped DEF Phases
<1>2. Range(cand) = Buffered /\ IsInjective(cand)
  BY <1>0, <1>1 DEF Enlisted, Slotted
<1>3. hdr[c].rc \in Nat /\ hdr[c].rc \in 0..RCMax /\ hdr[c].color \in Colors /\ hdr[c].buffered \in BOOLEAN /\ RCMax \in Nat \ {0}
  BY <1>0, HeaderType, HeapAssumption
<1>4. c \notin Acyclic => hdr[c].color \in {"black", "purple"} /\ phase \in {"idle", "dispose"}
  BY <1>0, <1>1 DEF Colored, WorkColors
<1>5. c \in Acyclic => ~hdr[c].buffered /\ c \notin lost /\ hdr[c].color = "green"
  BY <1>0 DEF Leaves
<1>6. c \notin Acyclic =>
            /\ hdr[c].color = "purple" => hdr[c].buffered /\ hdr[c].rc > 0
            /\ hdr[c].buffered => hdr[c].color = "purple" \/ (hdr[c].color = "black" /\ hdr[c].rc = 0)
  BY <1>0, <1>1 DEF Purples
<1>7. \A op, x : At(s0, op, x) \in Nat
  BY AtSome
<1>8. \A x : At(s0, "black", x) = 0
  BY <1>1, CallsByPhase
<1>9. "dispose" \in OpsOf(phase)
  BY <1>1, PhaseOps
<1>10. \A r \in 0..RCMax, k \in Colors, b \in BOOLEAN : Effect(s0, c, "none", r, k, b) =>
          /\ hdr' \in [Cells -> [rc : 0..RCMax, color : Colors, buffered : BOOLEAN]]
          /\ \A x \in Cells : x # c => hdr'[x] = hdr[x]
          /\ hdr'[c].rc = r /\ hdr'[c].color = k /\ (hdr'[c].buffered <=> b)
          /\ stack' = s0 /\ OneCell(c) /\ Buffered' = (Buffered \ {c}) \cup (IF b THEN {c} ELSE {})
  <2> TAKE r \in 0..RCMax, k \in Colors, b \in BOOLEAN
  <2> HAVE Effect(s0, c, "none", r, k, b)
  <2>1. hdr' = Put(hdr, c, r, k, b) /\ stack' = s0
    BY DEF Effect
  <2>2. /\ hdr' \in [Cells -> [rc : 0..RCMax, color : Colors, buffered : BOOLEAN]]
        /\ \A x \in Cells : x # c => hdr'[x] = hdr[x]
        /\ hdr'[c].rc = r /\ hdr'[c].color = k /\ (hdr'[c].buffered <=> b)
    BY <1>0, <2>1, PutFields
  <2>3. OneCell(c)
    BY <2>2 DEF OneCell
  <2>4. Buffered' = (Buffered \ {c}) \cup (IF hdr'[c].buffered THEN {c} ELSE {})
    BY <1>0, <2>3, Painted
  <2> QED
    BY <2>1, <2>2, <2>3, <2>4
<1>11. c \in Buffered <=> hdr[c].buffered
  BY DEF Buffered
<1>12. \/ /\ hdr[c].rc = 1 /\ hdr[c].buffered
          /\ Effect(s0, c, "none", 0, "black", TRUE) /\ Unlisted
       \/ /\ hdr[c].rc = 1 /\ ~hdr[c].buffered
          /\ hdr' = hdr /\ stack' = Pushed(s0, "dispose", c) /\ Unlisted
       \/ /\ hdr[c].rc > 1 /\ (c \in Acyclic \/ hdr[c].buffered)
          /\ Effect(s0, c, "none", hdr[c].rc - 1, hdr[c].color, hdr[c].buffered) /\ Unlisted
       \/ /\ hdr[c].rc > 1 /\ c \notin Acyclic /\ ~hdr[c].buffered
          /\ \/ /\ attached /\ Effect(s0, c, "none", hdr[c].rc - 1, "purple", TRUE)
                /\ cand' = Append(cand, c) /\ lost' = lost \ {c}
             \/ /\ ~attached /\ Effect(s0, c, "none", hdr[c].rc - 1, hdr[c].color, hdr[c].buffered)
                /\ cand' = cand /\ lost' = lost \cup {c}
  <2>1. c \notin Acyclic /\ ~hdr[c].buffered => hdr[c].color # "purple"
    BY <1>6
  <2> QED
    BY <2>1, <1>0, ReleaseTable
<1>13. lost \subseteq live \ Acyclic
  BY <1>0 DEF Leaves
<1>14. "black" \in Colors /\ "purple" \in Colors /\ hdr[c].rc - 1 \in 0..RCMax /\ 0 \in 0..RCMax
  BY <1>3 DEF Colors
<1>15. CASE hdr[c].rc = 1 /\ hdr[c].buffered /\ Effect(s0, c, "none", 0, "black", TRUE) /\ Unlisted
  <2>1. PICK f \in BOOLEAN : f = TRUE
    OBVIOUS
  <2>2. /\ hdr' \in [Cells -> [rc : 0..RCMax, color : Colors, buffered : BOOLEAN]]
        /\ hdr'[c].rc = 0 /\ hdr'[c].color = "black" /\ hdr'[c].buffered
        /\ stack' = s0 /\ OneCell(c) /\ Buffered' = (Buffered \ {c}) \cup {c}
    BY <2>1, <1>10, <1>14, <1>15
  <2>3. Buffered' = Buffered /\ cand' = cand /\ lost' = lost /\ c \in Range(cand') /\ c \notin Acyclic
    BY <2>2, <1>2, <1>5, <1>11, <1>15 DEF Unlisted
  <2> QED
    BY <2>2, <2>3, <1>1, <1>2, <1>4, <1>7, <1>13, <1>15
<1>16. CASE hdr[c].rc = 1 /\ ~hdr[c].buffered /\ hdr' = hdr /\ stack' = Pushed(s0, "dispose", c) /\ Unlisted
  <2>1. /\ stack' \in Seq(Frames) /\ Stacked(stack', phase, live)
        /\ \A op, x : At(stack', op, x) = IF op = "dispose" /\ x = c THEN 1 ELSE At(s0, op, x)
    <3>1. /\ s0 \in Seq(Frames) /\ Stacked(s0, phase, live) /\ c \in Cells /\ c \in live /\ At(s0, "dispose", c) = 0
          /\ "dispose" \in OpsOf(phase) /\ (phase = "white" => c \in Acyclic) /\ \A x : At(s0, "black", x) = 0
      BY <1>8, <1>9
    <3>2. /\ Pushed(s0, "dispose", c) \in Seq(Frames) /\ Stacked(Pushed(s0, "dispose", c), phase, live)
          /\ \A op, x : At(Pushed(s0, "dispose", c), op, x) = IF op = "dispose" /\ x = c THEN 1 ELSE At(s0, op, x)
      BY <3>1, PushDispose
    <3> QED
      BY <3>2, <1>16
  <2>2. At(stack', "dispose", c) = 1 /\ \A op, x : op # "dispose" \/ x # c => At(stack', op, x) = At(s0, op, x)
    BY <2>1
  <2>3. OneCell(c) /\ Buffered' = Buffered /\ cand' = cand /\ lost' = lost
    BY <1>16 DEF OneCell, Buffered, Unlisted
  <2> QED
    BY <2>1, <2>2, <2>3, <1>1, <1>2, <1>4, <1>5, <1>6, <1>13, <1>16
<1>17. CASE hdr[c].rc > 1 /\ (c \in Acyclic \/ hdr[c].buffered) /\ Unlisted
            /\ Effect(s0, c, "none", hdr[c].rc - 1, hdr[c].color, hdr[c].buffered)
  <2>2. /\ hdr' \in [Cells -> [rc : 0..RCMax, color : Colors, buffered : BOOLEAN]]
        /\ hdr'[c].rc = hdr[c].rc - 1 /\ hdr'[c].color = hdr[c].color /\ (hdr'[c].buffered <=> hdr[c].buffered)
        /\ stack' = s0 /\ OneCell(c) /\ Buffered' = (Buffered \ {c}) \cup (IF hdr[c].buffered THEN {c} ELSE {})
    BY <1>3, <1>10, <1>14, <1>17
  <2>3. Buffered' = Buffered /\ cand' = cand /\ lost' = lost /\ (c \notin Acyclic => c \in Range(cand')) /\ hdr'[c].rc > 0
    BY <2>2, <1>2, <1>3, <1>11, <1>17 DEF Unlisted
  <2> QED
    BY <2>2, <2>3, <1>1, <1>2, <1>3, <1>4, <1>5, <1>6, <1>7, <1>13, <1>17
<1>18. CASE /\ hdr[c].rc > 1 /\ c \notin Acyclic /\ ~hdr[c].buffered
            /\ Effect(s0, c, "none", hdr[c].rc - 1, "purple", TRUE) /\ cand' = Append(cand, c) /\ lost' = lost \ {c}
  <2>1. PICK f \in BOOLEAN : f = TRUE
    OBVIOUS
  <2>2. /\ hdr' \in [Cells -> [rc : 0..RCMax, color : Colors, buffered : BOOLEAN]]
        /\ hdr'[c].rc = hdr[c].rc - 1 /\ hdr'[c].color = "purple" /\ hdr'[c].buffered
        /\ stack' = s0 /\ OneCell(c) /\ Buffered' = (Buffered \ {c}) \cup {c}
    BY <2>1, <1>10, <1>14, <1>18
  <2>3. cand' \in Seq(Cells) /\ Range(cand') = Range(cand) \cup {c} /\ IsInjective(cand')
    BY <1>1, <1>2, <1>11, <1>18, AppendOf
  <2>4. Range(cand') = Buffered' /\ c \in Range(cand') /\ hdr'[c].rc > 0
    BY <2>2, <2>3, <1>2, <1>3, <1>18
  <2>5. lost \subseteq lost' \cup {c} /\ lost' \subseteq live \ Acyclic
    BY <1>13, <1>18
  <2>6. \A op, x : op # "dispose" \/ x # c => At(stack', op, x) = At(s0, op, x)
    BY <2>2
  <2>7. At(stack', "dispose", c) = 0 /\ c \notin Acyclic
    BY <2>2, <1>18
  <2>8. stack' \in Seq(Frames) /\ Stacked(stack', phase, live)
    BY <2>2
  <2>9. Range(cand) \subseteq Range(cand')
    BY <2>3
  <2> QED
    BY <2>2, <2>3, <2>4, <2>5, <2>6, <2>7, <2>8, <2>9, <1>4
<1>19. CASE /\ hdr[c].rc > 1 /\ c \notin Acyclic /\ ~hdr[c].buffered
            /\ Effect(s0, c, "none", hdr[c].rc - 1, hdr[c].color, hdr[c].buffered) /\ cand' = cand /\ lost' = lost \cup {c}
  <2>2. /\ hdr' \in [Cells -> [rc : 0..RCMax, color : Colors, buffered : BOOLEAN]]
        /\ hdr'[c].rc = hdr[c].rc - 1 /\ hdr'[c].color = hdr[c].color /\ ~hdr'[c].buffered
        /\ stack' = s0 /\ OneCell(c) /\ Buffered' = (Buffered \ {c}) \cup {}
    BY <1>3, <1>10, <1>14, <1>19
  <2>3. Buffered' = Buffered /\ hdr'[c].rc > 0 /\ lost' \subseteq live \ Acyclic
    BY <2>2, <1>3, <1>11, <1>13, <1>19
  <2> QED
    BY <2>2, <2>3, <1>1, <1>2, <1>4, <1>6, <1>7, <1>19
<1> QED
  BY <1>12, <1>15, <1>16, <1>17, <1>18, <1>19

\* A reference to c is no longer there, or no longer counted, once the calls are s0.
Giving(c, s0) ==
    /\ live' = live /\ attached' = attached /\ phase' = phase /\ work' = work /\ kept' = kept /\ deferred' = deferred
    /\ isolate' = isolate /\ passes' = passes /\ before' = before /\ ub' = ub
    /\ kids' \in [Cells -> Seq(Cells)] /\ handles' \in [Cells -> Nat] /\ Bounded'
    /\ \A x \in Cells : x # c => handles'[x] = handles[x]
    /\ \A x \in Cells : kids[x] = <<>> => kids'[x] = <<>>
    /\ \A p \in Cells : \A i \in DOMAIN kids[p] : kids[p][i] # c => \E j \in DOMAIN kids'[p] : kids'[p][j] = kids[p][i]
    /\ \A p \in Cells : \A j \in DOMAIN kids'[p] : \E i \in DOMAIN kids[p] : kids[p][i] = kids'[p][j]
    /\ phase # "idle" => kids' = kids
    /\ \A op, x : At(s0, op, x) > 0 <=> At(stack, op, x) > 0
    /\ Todo(kids, stack, "dispose") \subseteq Todo(kids', s0, "dispose") \cup {c}
    /\ Todo(kids, stack, "white") \subseteq Todo(kids', s0, "white") \cup {c}
    /\ \A x \in Cells : Count(handles', kids', hdr, s0, x) = Count(handles, kids, hdr, stack, x) - (IF x = c THEN 1 ELSE 0)

\* release of a counted reference, whoever held it: the count drops, the cell is parked, or its finalizer is called.
LEMMA ReleaseStep ==
  ASSUME CollectorInv, NoSaturation, isolate # "gone", phase \notin {"mark", "scan"},
         NEW c \in Cells, c \in live, At(stack, "dispose", c) = 0, Count(handles, kids, hdr, stack, c) > 0, phase = "white" => c \in Acyclic,
         NEW s0 \in Seq(Frames), Stacked(s0, phase, live), Giving(c, s0), Become(Release(On(s0), c))
  PROVE  CollectorInv'
<1>0. /\ HeapTypeOK /\ Bounded /\ Stacked(stack, phase, live) /\ DeadBlank /\ Leaves /\ Colored /\ Enlisted
      /\ ParkedAlone /\ Counts /\ Whole /\ Uncounted /\ Marking /\ Scanning /\ Collecting
  BY DEF CollectorInv, HeapInv
<1>1. /\ live' = live /\ attached' = attached /\ phase' = phase /\ work' = work /\ kept' = kept /\ deferred' = deferred
      /\ isolate' = isolate /\ passes' = passes /\ before' = before /\ ub' = ub
      /\ kids' \in [Cells -> Seq(Cells)] /\ handles' \in [Cells -> Nat] /\ Bounded'
      /\ \A x \in Cells : x # c => handles'[x] = handles[x]
      /\ \A x \in Cells : kids[x] = <<>> => kids'[x] = <<>>
      /\ phase # "idle" => kids' = kids
      /\ \A op, x : At(s0, op, x) > 0 <=> At(stack, op, x) > 0
  BY DEF Giving
<1>2. /\ \A p \in Cells : \A i \in DOMAIN kids[p] : kids[p][i] # c => \E j \in DOMAIN kids'[p] : kids'[p][j] = kids[p][i]
      /\ \A p \in Cells : \A j \in DOMAIN kids'[p] : \E i \in DOMAIN kids[p] : kids[p][i] = kids'[p][j]
  BY DEF Giving
<1>3. /\ Todo(kids, stack, "dispose") \subseteq Todo(kids', s0, "dispose") \cup {c}
      /\ Todo(kids, stack, "white") \subseteq Todo(kids', s0, "white") \cup {c}
  BY DEF Giving
<1>4. \A x \in Cells : Count(handles', kids', hdr, s0, x) = Count(handles, kids, hdr, stack, x) - (IF x = c THEN 1 ELSE 0)
  BY DEF Giving
<1>5. phase \in {"idle", "white", "dispose"} /\ phase \in Phases /\ live \subseteq Cells /\ stack \in Seq(Frames) /\ handles \in [Cells -> Nat]
  BY <1>0, HeapTyped DEF Phases
<1>6. \A op, x : At(s0, op, x) \in Nat /\ At(stack, op, x) \in Nat
  BY <1>5, AtSome
<1>7. hdr[c].rc = Count(handles, kids, hdr, stack, c) /\ hdr[c].rc > 0 /\ hdr[c].rc < RCMax
  <2>1. hdr[c].rc = Count(handles, kids, hdr, stack, c)
    BY <1>0 DEF Counts
  <2>2. Count(handles, kids, hdr, stack, c) < RCMax
    BY <1>0, CountBound
  <2> QED
    BY <2>1, <2>2
<1>8. /\ \A x : At(s0, "gray", x) = 0 /\ At(s0, "scan", x) = 0 /\ At(s0, "black", x) = 0
      /\ \A x : At(s0, "white", x) > 0 => phase = "white" /\ x \notin Acyclic
      /\ \A x : At(s0, "white", x) > 0 => x # c
      /\ At(s0, "dispose", c) = 0
  <2>1. /\ \A x : At(s0, "gray", x) = 0 /\ At(s0, "scan", x) = 0 /\ At(s0, "black", x) = 0
        /\ \A x : At(s0, "white", x) > 0 => x \notin Acyclic
        /\ phase # "white" => \A x : At(s0, "white", x) = 0
    BY <1>5, CallsByPhase
  <2>2. At(s0, "dispose", c) = 0
    BY <1>1, <1>6
  <2> QED
    BY <2>1, <2>2
<1>9. /\ OneCell(c) /\ hdr' \in [Cells -> [rc : 0..RCMax, color : Colors, buffered : BOOLEAN]]
      /\ stack' \in Seq(Frames) /\ Stacked(stack', phase, live)
      /\ \A op, x : op # "dispose" \/ x # c => At(stack', op, x) = At(s0, op, x)
      /\ At(stack', "dispose", c) \in {0, 1}
      /\ At(stack', "dispose", c) = 0 => hdr'[c].rc = hdr[c].rc - 1
      /\ At(stack', "dispose", c) = 1 => hdr'[c].rc = 1 /\ hdr[c].rc = 1 /\ ~hdr'[c].buffered
      /\ c \in Acyclic => hdr'[c].color = hdr[c].color /\ ~hdr'[c].buffered
      /\ c \notin Acyclic => /\ hdr'[c].color \in {"black", "purple"} /\ hdr[c].color \in {"black", "purple"}
                             /\ hdr'[c].color = "purple" => hdr'[c].buffered /\ hdr'[c].rc > 0
                             /\ hdr'[c].buffered => hdr'[c].color = "purple" \/ (hdr'[c].color = "black" /\ hdr'[c].rc = 0)
                             /\ At(stack', "dispose", c) = 0 => c \in Range(cand') \cup lost'
      /\ hdr'[c].rc = 0 => hdr'[c].buffered \/ c \in Acyclic \/ At(stack', "dispose", c) > 0
      /\ cand' \in Seq(Cells) /\ Range(cand) \subseteq Range(cand') /\ Range(cand') = Buffered' /\ IsInjective(cand')
      /\ c \in Acyclic => cand' = cand /\ hdr'[c].rc > 0
      /\ lost \subseteq lost' \cup {c} /\ lost' \subseteq live \ Acyclic
  BY <1>1, <1>7, <1>8, ReleaseOutcome
<1>10. \A x \in Cells : x # c => hdr'[x] = hdr[x]
  BY <1>9 DEF OneCell
<1>11. \A x : x # c \/ At(stack', "dispose", c) = 0 =>
          \A op : At(stack', op, x) = At(s0, op, x)
  BY <1>8, <1>9
<1>12. \A op, x : op # "dispose" \/ x # c => (At(stack', op, x) > 0 <=> At(stack, op, x) > 0)
  BY <1>1, <1>9
<1>13. \A q \in Cells : \A j \in DOMAIN kids'[q] : j \in Nat \ {0} /\ kids'[q][j] \in Cells
  <2> TAKE q \in Cells
  <2>1. kids'[q] \in Seq(Cells)
    BY <1>1
  <2> QED
    BY <2>1, LenProperties, ElementOfSeq
<1>14. \A q \in Cells : \A j \in DOMAIN kids'[q] : Out(kids', hdr', stack', q, j) <=> Out(kids', hdr, s0, q, j)
  <2> TAKE q \in Cells
  <2> TAKE j \in DOMAIN kids'[q]
  <2>1. hdr'[q].color \in {"gray", "white"} <=> hdr[q].color \in {"gray", "white"}
    BY <1>9, <1>10
  <2>2. \A op : op # "dispose" => At(stack', op, q) = At(s0, op, q)
    BY <1>9
  <2>3. Visited(stack', "dispose", q, j) <=> Visited(s0, "dispose", q, j)
    <3>1. CASE q # c
      BY <3>1, <1>11 DEF Visited
    <3>2. CASE q = c
      <4>1. j \in Nat \ {0}
        BY <1>13
      <4> QED
        BY <3>2, <4>1, <1>8, <1>9 DEF Visited
    <3> QED
      BY <3>1, <3>2
  <2> QED
    BY <2>1, <2>2, <2>3 DEF Out, Visited, Ahead
<1>15. HeapTypeOK'
  <2>1. /\ cand' \in Seq(Cells) /\ lost' \subseteq Cells /\ stack' \in Seq(Frames)
        /\ hdr' \in [Cells -> [rc : 0..RCMax, color : Colors, buffered : BOOLEAN]]
    BY <1>5, <1>9
  <2> QED
    BY <2>1, <1>0, <1>1 DEF HeapTypeOK, Frames, Ops
<1>16. (Stacked(stack, phase, live) /\ DeadBlank /\ Leaves)'
  <2>1. (Stacked(stack, phase, live))'
    BY <1>1, <1>9
  <2>2. DeadBlank'
    BY <1>0, <1>1, <1>10 DEF DeadBlank
  <2>3. Leaves'
    <3>1. \A x \in Acyclic : x \in Cells
      BY HeapAssumption
    <3> QED
      BY <3>1, <1>0, <1>1, <1>9, <1>10 DEF Leaves
  <2> QED
    BY <2>1, <2>2, <2>3
<1>17. \A op \in Ops : \A x \in Cells : x # c => (At(stack', op, x) > 0 <=> At(stack, op, x) > 0)
  BY <1>12
<1>18. Colored'
  <2>1. c \notin Acyclic => hdr'[c].color \in WorkColors
    BY <1>5, <1>9 DEF WorkColors
  <2>2. At(stack', "gray", c) = 0 /\ At(stack', "black", c) = 0 /\ At(stack', "white", c) = 0 /\ At(stack', "scan", c) = 0
    <3>1. At(s0, "white", c) = 0
      BY <1>6, <1>8
    <3>2. \A op : op # "dispose" => At(stack', op, c) = At(s0, op, c)
      BY <1>9
    <3> QED
      BY <3>1, <3>2, <1>8
  <2> QED
    BY <2>1, <2>2, <1>0, <1>9, <1>17, ColoredStep, SMTT(60)
<1>19. Gray' = Gray /\ White' = White
  <2>1. /\ Gray' = (Gray \ {c}) \cup (IF hdr'[c].color = "gray" THEN {c} ELSE {})
        /\ White' = (White \ {c}) \cup (IF hdr'[c].color = "white" THEN {c} ELSE {})
    BY <1>0, <1>9, Painted
  <2>2. hdr'[c].color \in {"gray", "white"} <=> hdr[c].color \in {"gray", "white"}
    BY <1>9
  <2>3. hdr[c].color \notin {"gray", "white"}
    BY <1>0, <1>9 DEF Leaves
  <2>4. c \notin Gray /\ c \notin White /\ hdr'[c].color \notin {"gray", "white"}
    BY <2>2, <2>3 DEF Gray, White
  <2> QED
    BY <2>1, <2>4
<1>20. Enlisted'
  <2>1. phase = "white" => cand = <<>> /\ cand' = cand /\ Buffered = {}
    BY <1>0, <1>9 DEF Enlisted
  <2>2. phase = "white" => Buffered' = {}
    <3>1. \A q : q = <<>> => Range(q) = {}
      BY DEF Range
    <3> QED
      BY <2>1, <3>1, <1>9
  <2>3. Slotted' = cand'
    BY <1>1, <1>5 DEF Slotted
  <2>4. phase = "idle" => work' = <<>>
    BY <1>0, <1>1 DEF Enlisted
  <2>5. \A x \in live : hdr'[x].buffered => At(stack', "dispose", x) = 0 /\ At(stack', "white", x) = 0
    <3> TAKE x \in live
    <3> HAVE hdr'[x].buffered
    <3>1. CASE x = c
      BY <3>1, <1>6, <1>8, <1>9
    <3>2. CASE x # c
      <4>1. hdr[x].buffered
        BY <3>2, <1>5, <1>10
      <4>2. At(stack, "dispose", x) = 0 /\ At(stack, "white", x) = 0
        BY <4>1, <1>0 DEF Enlisted
      <4> QED
        BY <3>2, <4>2, <1>1, <1>6, <1>11
    <3> QED
      BY <3>1, <3>2
  <2> QED
    BY <2>1, <2>2, <2>3, <2>4, <2>5, <1>1, <1>5, <1>9 DEF Enlisted
<1>21. Purples'
  <2>1. Purples
    BY DEF CollectorInv, RootsInv
  <2>2. Parked' = Parked
    BY <1>1 DEF Parked
  <2>3. hdr'[c].rc = 0 => hdr'[c].buffered \/ At(stack', "dispose", c) > 0
    BY <1>9
  <2>4. c \notin Acyclic => /\ hdr'[c].color = "purple" => hdr'[c].buffered /\ hdr'[c].rc > 0
                            /\ hdr'[c].buffered => hdr'[c].color = "purple" \/ (hdr'[c].color = "black" /\ hdr'[c].rc = 0)
    BY <1>9
  <2> QED
    BY <2>1, <2>2, <2>3, <2>4, <1>0, <1>9, <1>17, PurplesStep
<1>22. ParkedAlone'
  <2>1. ~Untouched(kids, handles, stack, c)
    BY <1>0, CountSource DEF Untouched
  <2>2. \A x \in Cells : x # c /\ Untouched(kids, handles, stack, x) => Untouched(kids', handles', stack', x)
    <3> SUFFICES ASSUME NEW x \in Cells, x # c, Untouched(kids, handles, stack, x) PROVE Untouched(kids', handles', stack', x)
      OBVIOUS
    <3>1. handles'[x] = 0
      BY <1>1 DEF Untouched
    <3>2. \A op \in Ops : At(stack', op, x) = 0
      BY <1>1, <1>6, <1>11 DEF Untouched
    <3>3. \A p \in Cells : \A j \in DOMAIN kids'[p] : kids'[p][j] # x
      BY <1>2 DEF Untouched
    <3> QED
      BY <3>1, <3>2, <3>3 DEF Untouched
  <2>3. Parked' = Parked
    BY <1>1 DEF Parked
  <2> QED
    BY <2>1, <2>2, <2>3, <1>0, <1>9, ParkedStep
<1>23. Counts'
  <2>0. \A x : Refs(kids', hdr', stack', x) = Refs(kids', hdr, s0, x)
    BY <1>1, <1>14, CountEqual, SMTT(60)
  <2> SUFFICES ASSUME NEW x \in Cells
               PROVE  IF x \notin live \/ At(stack', "dispose", x) > 0 THEN Count(handles', kids', hdr, s0, x) = 0
                      ELSE hdr'[x].rc = Count(handles', kids', hdr, s0, x)
    BY <2>0, <1>1 DEF Counts, Count
  <2>1. IF x \notin live \/ At(stack, "dispose", x) > 0 THEN Count(handles, kids, hdr, stack, x) = 0
        ELSE hdr[x].rc = Count(handles, kids, hdr, stack, x)
    BY <1>0 DEF Counts
  <2>2. Count(handles, kids, hdr, stack, x) \in Nat
    BY <1>0, <1>5, HeapTyped, CountType
  <2>3. CASE x = c
    BY <2>2, <2>3, <1>4, <1>7, <1>9
  <2>4. CASE x # c
    <3>1. At(stack', "dispose", x) > 0 <=> At(stack, "dispose", x) > 0
      BY <2>4, <1>12
    <3> QED
      BY <2>1, <2>2, <2>4, <3>1, <1>4, <1>10
  <2> QED
    BY <2>3, <2>4
<1>24. (Whole /\ Uncounted)'
  <2>1. c \notin White
    BY <1>0, <1>9 DEF Leaves, White
  <2>2. At(stack', "white", c) = 0
    BY <1>6, <1>8, <1>9
  <2>3. \A x \in Cells : At(stack', "white", x) > 0 => x # c /\ At(stack, "white", x) > 0
    BY <2>2, <1>12
  <2>4. White \subseteq Cells
    BY <1>5 DEF White
  <2>5. Uncounted'
    BY <2>1, <2>3, <2>4, <1>0, <1>10, <1>19 DEF Uncounted
  <2>6. Whole'
    BY <1>1 DEF Whole
  <2> QED
    BY <2>5, <2>6
<1>25. (Marking /\ Scanning)'
  BY <1>1 DEF Marking, Scanning
<1>26. Collecting'
  <2> SUFFICES ASSUME phase = "white" PROVE Collecting'
    BY <1>1 DEF Collecting
  <2> DEFINE S == Range(work) \cup Todo(kids, stack, "white")
             T == Range(work) \cup Todo(kids', stack', "white")
             Y == {x \in Cells : At(stack, "white", x) > 0}
  <2>1. Range(work) \subseteq live \ Acyclic /\ Covered(kids, White, S) /\ OrderedRoots(kids, work, Y)
    BY <1>0 DEF Collecting
  <2>2. c \notin White
    BY <1>0 DEF Leaves, White
  <2>3. Todo(kids', stack', "white") = Todo(kids', s0, "white")
    BY <1>9 DEF Todo, Ahead
  <2>4. \A x \in White : x \in S => x \in T
    BY <2>2, <2>3, <1>3
  <2>5. {x \in Cells : At(stack', "white", x) > 0} = Y
    BY <1>12
  <2> HIDE DEF S, T
  <2>6. Covered(kids, White, T)
    BY <2>1, <2>4, CoverStep
  <2>7. kids' = kids /\ Covered(kids', White', T)
    BY <2>6, <1>1, <1>19
  <2> QED
    BY <2>1, <2>5, <2>7, <1>1 DEF Collecting, T
<1>27. Enrolled'
  <2>1. Covered(kids, Settled, Sources)
    BY DEF CollectorInv, RootsInv, Enrolled
  <2>2. \A x : x \in Settled' <=> x \in Settled /\ ~(x = c /\ At(stack', "dispose", c) = 1)
    <3> TAKE x
    <3>1. CASE x # c
      <4>1. /\ At(stack', "dispose", x) = 0 <=> At(stack, "dispose", x) = 0
            /\ At(stack', "white", x) = 0 <=> At(stack, "white", x) = 0
        BY <3>1, <1>1, <1>6, <1>11
      <4>2. x \in live => hdr'[x] = hdr[x]
        BY <3>1, <1>5, <1>10
      <4> QED
        BY <3>1, <4>1, <4>2, <1>1 DEF Settled
    <3>2. CASE x = c
      <4>1. At(stack', "white", c) = 0 /\ At(stack, "white", c) = 0
        BY <1>1, <1>6, <1>8, <1>9
      <4>2. c \notin Acyclic => phase # "white"
        OBVIOUS
      <4> QED
        BY <3>2, <4>1, <4>2, <1>1, <1>9 DEF Settled
    <3> QED
      BY <3>1, <3>2
  <2>3. Todo(kids', s0, "dispose") \subseteq Todo(kids', stack', "dispose")
    <3> SUFFICES ASSUME NEW q \in Cells, NEW j \in DOMAIN kids'[q], Ahead(s0, "dispose", q, j) PROVE Ahead(stack', "dispose", q, j)
      BY DEF Todo
    <3>1. q # c
      BY <1>8 DEF Ahead
    <3> QED
      BY <3>1, <1>11 DEF Ahead
  <2>4. Sources \subseteq Sources' \cup {c}
    <3>1. \A x \in Cells : x # c /\ handles[x] > 0 => handles'[x] > 0
      BY <1>1
    <3>2. phase # "mark" /\ Parked' = Parked
      BY <1>1 DEF Parked
    <3> QED
      BY <2>3, <3>1, <3>2, <1>3, <1>9 DEF Sources
  <2>5. c \in Settled' => c \in Sources'
    BY <2>2, <1>9 DEF Settled, Sources
  <2>6. At(stack', "dispose", c) = 1 => \A j \in DOMAIN kids'[c] : kids'[c][j] \in Sources'
    <3> SUFFICES ASSUME At(stack', "dispose", c) = 1, NEW j \in DOMAIN kids'[c] PROVE kids'[c][j] \in Todo(kids', stack', "dispose")
      BY DEF Sources
    <3>1. j \in Nat \ {0} /\ kids'[c][j] \in Cells
      BY <1>13
    <3>2. Ahead(stack', "dispose", c, j)
      BY <3>1 DEF Ahead
    <3> QED
      BY <3>1, <3>2 DEF Todo
  <2> DEFINE Z == Settled
             Z2 == Settled'
             S == Sources
             T == Sources'
  <2>7. Z2 \subseteq Z /\ \A x \in Z2 : x \in S => x \in T
    BY <2>2, <2>4, <2>5
  <2>8. \A p \in Z : \A i \in DOMAIN kids[p] : kids[p][i] \in Z2 =>
           kids[p][i] \in T \/ (p \in Z2 /\ \E j \in DOMAIN kids'[p] : kids'[p][j] = kids[p][i])
    <3> SUFFICES ASSUME NEW p \in Z, NEW i \in DOMAIN kids[p], kids[p][i] \in Z2, kids[p][i] \notin T
                 PROVE  p \in Z2 /\ \E j \in DOMAIN kids'[p] : kids'[p][j] = kids[p][i]
      OBVIOUS
    <3>1. kids[p][i] # c /\ p \in Cells
      BY <2>5, <1>5 DEF Settled
    <3>2. \E j \in DOMAIN kids'[p] : kids'[p][j] = kids[p][i]
      BY <3>1, <1>2
    <3>3. ~(p = c /\ At(stack', "dispose", c) = 1)
      BY <3>2, <2>6
    <3> QED
      BY <3>2, <3>3, <2>2
  <2> HIDE DEF Z, Z2, S, T
  <2>9. Covered(kids', Z2, T)
    BY <2>1, <2>7, <2>8, CoverStep, SMTT(60) DEF Z, S
  <2> QED
    BY <2>9 DEF Enrolled, Z2, T
<1>28. Gone' /\ Bounded'
  BY <1>1 DEF Gone
<1> QED
  BY <1>1, <1>15, <1>16, <1>18, <1>20, <1>21, <1>22, <1>23, <1>24, <1>25, <1>26, <1>27, <1>28 DEF CollectorInv, HeapInv, RootsInv

\* A finalizer releases a child, or collect_white an acyclic one.
LEMMA VisitRelease ==
  ASSUME CollectorInv, NoSaturation, VisitChild, Top.op = "dispose" \/ (Top.op = "white" /\ Child \in Acyclic)
  PROVE  CollectorInv'
<1> DEFINE p == Top.cell
           i == Top.next
           c == Child
           s0 == Advanced(stack)
           o == Top.op
<1>0. /\ HeapTypeOK /\ Bounded /\ Stacked(stack, phase, live) /\ Leaves /\ Colored /\ Counts
  BY DEF CollectorInv, HeapInv
<1>1. /\ stack # <<>> /\ o \in OpsOf(phase)
      /\ p \in live /\ p \in Cells /\ p \notin Acyclic /\ i \in DOMAIN kids[p] /\ i \in Nat \ {0}
      /\ c = kids[p][i] /\ c \in live /\ c \in Cells
      /\ At(stack, o, p) = i
      /\ s0 \in Seq(Frames) /\ Stacked(s0, phase, live)
      /\ \A op, x : At(s0, op, x) = IF op = o /\ x = p THEN i + 1 ELSE At(stack, op, x)
      /\ Become(Visit(On(s0), o, c))
      /\ live' = live /\ kids' = kids /\ handles' = handles /\ attached' = attached /\ phase' = phase /\ work' = work
      /\ kept' = kept /\ deferred' = deferred /\ isolate' = isolate /\ passes' = passes /\ before' = before /\ ub' = ub
      /\ isolate # "gone"
  BY VisitContext
<1>2. o = "dispose" \/ (o = "white" /\ c \in Acyclic)
  OBVIOUS
<1> HIDE DEF p, i, c, s0, o
<1>3. Become(Release(On(s0), c))
  BY <1>1, <1>2 DEF Visit, DropLeaf
<1>4. /\ \A op, x : At(stack, op, x) \in Nat
      /\ \A x : At(stack, "gray", x) = 0 /\ At(stack, "scan", x) = 0 /\ At(stack, "black", x) = 0
      /\ o = "dispose" => phase \in {"idle", "dispose"} /\ \A x : At(stack, "white", x) = 0
      /\ o = "white" => phase = "white" /\ At(stack, "dispose", p) = 0
      /\ phase \notin {"mark", "scan"}
  <2>1. stack \in Seq(Frames) /\ phase \in Phases
    BY <1>0, HeapTyped DEF Phases
  <2>2. /\ o = "white" => phase = "white"
        /\ o = "dispose" => phase \in {"idle", "white", "dispose"}
    BY <1>0, <1>1, CallPhase
  <2>3. /\ \A op, x : At(stack, op, x) \in Nat
        /\ phase # "mark" => \A x : At(stack, "gray", x) = 0
        /\ phase # "scan" => \A x : At(stack, "scan", x) = 0 /\ At(stack, "black", x) = 0
        /\ phase # "white" => \A x : At(stack, "white", x) = 0
        /\ phase = "white" => \A x : x \notin Acyclic => At(stack, "dispose", x) = 0
    BY <2>1, <1>0, CallsByPhase
  <2>4. o = "dispose" => phase # "white"
    BY <2>3, <1>1
  <2> QED
    BY <2>2, <2>3, <2>4, <1>1, <1>2
<1>5. \A q \in Cells : \A j \in DOMAIN kids[q] : j \in Nat \ {0} /\ kids[q][j] \in Cells
  BY <1>0, KidsType
<1>6. ~Out(kids, hdr, stack, p, i)
  <2>1. CASE o = "dispose"
    <3>1. hdr[p].color \in {"black", "purple"}
      BY <2>1, <1>0, <1>1, <1>4 DEF Colored, WorkColors
    <3> QED
      BY <2>1, <3>1, <1>1, <1>4 DEF Out, Visited, Ahead
  <2>2. CASE o = "white" /\ c \in Acyclic
    BY <2>2, <1>1, <1>4 DEF Out, Visited, Ahead
  <2> QED
    BY <1>2, <2>1, <2>2
<1>7. Out(kids, hdr, s0, p, i)
  BY <1>1, <1>2 DEF Out, Visited
<1>8. \A q \in Cells : \A j \in DOMAIN kids[q] : q # p \/ j # i => (Out(kids, hdr, s0, q, j) <=> Out(kids, hdr, stack, q, j))
  <2> SUFFICES ASSUME NEW q \in Cells, NEW j \in DOMAIN kids[q], q # p \/ j # i
               PROVE  Out(kids, hdr, s0, q, j) <=> Out(kids, hdr, stack, q, j)
    OBVIOUS
  <2>1. j \in Nat \ {0}
    BY <1>5
  <2>2. \A op : Visited(s0, op, q, j) <=> Visited(stack, op, q, j)
    BY <2>1, <1>1, <1>4 DEF Visited
  <2>3. \A op : Ahead(s0, op, q, j) <=> Ahead(stack, op, q, j)
    BY <2>1, <1>1, <1>4 DEF Ahead
  <2>4. At(s0, "white", q) > 0 <=> At(stack, "white", q) > 0
    BY <1>1, <1>4
  <2> QED
    BY <2>2, <2>3, <2>4 DEF Out
<1>9. At(stack, "dispose", c) = 0 /\ Count(handles, kids, hdr, stack, c) > 0
  <2>1. c \in live /\ At(stack, "dispose", c) = 0 /\ hdr[c].rc > 0 /\ hdr[c].rc = Count(handles, kids, hdr, stack, c)
    BY <1>1, <1>6, CountedTarget
  <2> QED
    BY <2>1
<1>10. \A x \in Cells : Count(handles', kids', hdr, s0, x) = Count(handles, kids, hdr, stack, x) - (IF x = c THEN 1 ELSE 0)
  <2> TAKE x \in Cells
  <2>1. \A y \in Cells : Refs(kids, hdr, s0, y) = Refs(kids, hdr, stack, y) - (IF y = kids[p][i] THEN 1 ELSE 0)
    BY <1>0, <1>1, <1>6, <1>7, <1>8, CountDrop
  <2>2. Refs(kids, hdr, stack, x) \in Nat /\ handles[x] \in Nat
    BY <1>0, HeapTyped, RefsType
  <2> QED
    BY <2>1, <2>2, <1>1 DEF Count
<1>11. \A op : Todo(kids, stack, op) \subseteq Todo(kids, s0, op) \cup {c}
  BY <1>1, <1>4, <1>5 DEF Todo, Ahead
<1>12. Giving(c, s0)
  <2>1. kids \in [Cells -> Seq(Cells)] /\ handles \in [Cells -> Nat]
    BY <1>0, HeapTyped
  <2>2. Bounded'
    BY <1>0, <1>1 DEF Bounded
  <2>3. \A op, x : At(s0, op, x) > 0 <=> At(stack, op, x) > 0
    BY <1>1, <1>4
  <2> QED
    BY <2>1, <2>2, <2>3, <1>1, <1>10, <1>11 DEF Giving
<1> QED
  BY <1>1, <1>2, <1>3, <1>4, <1>9, <1>12, ReleaseStep

\* What a quiet heap looks like: no reference is out of its count.
LEMMA QuietContext ==
  ASSUME CollectorInv, Quiet
  PROVE  /\ phase = "idle" /\ stack = <<>> /\ stack \in Seq(Frames) /\ work = <<>>
         /\ \A op, x : At(stack, op, x) = 0
         /\ \A op, q, j : (~Ahead(stack, op, q, j) /\ ~Visited(stack, op, q, j)) \/ j \notin Nat
         /\ \A op : Todo(kids, stack, op) = {}
         /\ \A x \in live \ Acyclic : hdr[x].color \in {"black", "purple"}
         /\ Gray = {} /\ White = {} /\ Parked = <<>>
         /\ \A q \in Cells : \A j \in DOMAIN kids[q] : ~Out(kids, hdr, stack, q, j)
<1>0. HeapTypeOK /\ Leaves /\ Colored /\ Enlisted /\ DeadBlank
  BY DEF CollectorInv, HeapInv
<1>1. phase = "idle" /\ stack = <<>> /\ stack \in Seq(Frames) /\ work = <<>>
  BY <1>0, HeapTyped DEF Quiet, Enlisted
<1>2. \A op, x : At(stack, op, x) = 0
  BY <1>1, AtEmpty
<1>3. \A op, q, j : ~Ahead(stack, op, q, j)
  BY <1>2 DEF Ahead
<1>4. \A op, q, j : j \in Nat => ~Visited(stack, op, q, j)
  BY <1>2 DEF Visited
<1>5. \A op : Todo(kids, stack, op) = {}
  BY <1>3 DEF Todo
<1>6. \A x \in live \ Acyclic : hdr[x].color \in {"black", "purple"}
  BY <1>0, <1>1 DEF Colored, WorkColors
<1>7. Gray = {} /\ White = {}
  BY <1>0, <1>6 DEF Leaves, Gray, White
<1>8. ASSUME NEW q \in Cells, NEW j \in DOMAIN kids[q] PROVE ~Out(kids, hdr, stack, q, j)
  <2>1. j \in Nat
    BY <1>0, KidsType
  <2>2. hdr[q].color \notin {"gray", "white"}
    <3>1. q \in live /\ q \notin Acyclic
      BY <1>0 DEF DeadBlank, Leaves
    <3> QED
      BY <3>1, <1>6
  <2> QED
    BY <2>1, <2>2, <1>2, <1>3, <1>4 DEF Out
<1>9. Parked = <<>>
  BY <1>1 DEF Parked
<1> QED
  BY <1>1, <1>2, <1>3, <1>4, <1>5, <1>6, <1>7, <1>8, <1>9

\* A handle is dropped.
LEMMA DropStep ==
  ASSUME CollectorInv, NoSaturation, NEW c \in Cells, Drop(c)
  PROVE  CollectorInv'
<1>0. HeapTypeOK /\ Bounded
  BY DEF CollectorInv, HeapInv
<1>1. /\ Quiet /\ isolate # "gone" /\ handles[c] > 0 /\ handles' = [handles EXCEPT ![c] = @ - 1]
      /\ Become(Release(On(stack), c))
      /\ live' = live /\ attached' = attached /\ phase' = phase /\ work' = work /\ kept' = kept /\ deferred' = deferred
      /\ isolate' = isolate /\ passes' = passes /\ before' = before /\ ub' = ub /\ kids' = kids
  BY MachineIs DEF Drop, Held, heap, pass, ending
<1>2. /\ phase = "idle" /\ stack \in Seq(Frames)
      /\ \A op, x : At(stack, op, x) = 0
      /\ \A op : Todo(kids, stack, op) = {}
  BY <1>1, QuietContext
<1>3. c \in live /\ hdr[c].rc > 0 /\ hdr[c].rc = Count(handles, kids, hdr, stack, c)
  BY <1>1, HeldTarget
<1>4. handles \in [Cells -> Nat] /\ kids \in [Cells -> Seq(Cells)]
  BY <1>0, HeapTyped
<1>5. /\ handles' \in [Cells -> Nat] /\ handles'[c] = handles[c] - 1 /\ \A x \in Cells : x # c => handles'[x] = handles[x]
      /\ handles[c] - 1 \in Nat
  BY <1>1, <1>4
<1>6. Bounded'
  <2>1. SumOf(handles') <= MaxHandles
    <3>1. /\ IsFiniteSet(Cells) /\ SumOf(handles) \in Nat /\ SumOf(handles') \in Nat /\ MaxHandles \in Nat
      BY <1>4, <1>5, SumAtLeast, HeapAssumption
    <3>2. SumOf(handles') = SumOf(handles) - handles[c] + handles'[c]
      <4> DEFINE g == handles'
      <4>1. IsFiniteSet(Cells) /\ handles \in [Cells -> Nat] /\ g \in [Cells -> Nat] /\ \A x \in Cells : x # c => g[x] = handles[x]
        BY <1>4, <1>5, <3>1
      <4> HIDE DEF g
      <4>2. SumOf(g) = SumOf(handles) - handles[c] + g[c]
        BY <4>1, SumChange
      <4> QED
        BY <4>2 DEF g
    <3>2a. handles[c] \in Nat
      BY <1>4
    <3> QED
      BY <3>1, <3>2, <3>2a, <1>0, <1>5 DEF Bounded
  <2> QED
    BY <2>1, <1>0, <1>1 DEF Bounded
<1>7. \A x \in Cells : Count(handles', kids', hdr, stack, x) = Count(handles, kids, hdr, stack, x) - (IF x = c THEN 1 ELSE 0)
  <2> TAKE x \in Cells
  <2>1. Refs(kids, hdr, stack, x) \in Nat /\ handles[x] \in Nat
    BY <1>4, RefsType
  <2> QED
    BY <2>1, <1>1, <1>5 DEF Count
<1>8. Giving(c, stack)
  BY <1>1, <1>2, <1>4, <1>5, <1>6, <1>7 DEF Giving
<1>9. Stacked(stack, phase, live)
  BY DEF CollectorInv, HeapInv
<1> QED
  BY <1>1, <1>2, <1>3, <1>8, <1>9, ReleaseStep

(* Between two operations the invariant is a good deal simpler.             *)

Plain(k, c) == {e \in SlotsIn(k) : k[e[1]][e[2]] = c}
Grounds     == {c \in Cells : handles[c] > 0} \cup lost \cup Range(cand)

PlainCounts == \A c \in Cells : IF c \in live THEN hdr[c].rc = handles[c] + Cardinality(Plain(kids, c))
                                ELSE handles[c] + Cardinality(Plain(kids, c)) = 0
PlainColors == \A c \in live \ Acyclic : hdr[c].color \in {"black", "purple"}
PlainRoots ==
    /\ \A c \in live \ Acyclic :
          /\ hdr[c].color = "purple" => hdr[c].buffered /\ hdr[c].rc > 0
          /\ hdr[c].buffered => \/ hdr[c].color = "purple"
                                \/ hdr[c].color = "black" /\ hdr[c].rc = 0
    /\ \A c \in live : hdr[c].rc = 0 => hdr[c].buffered
    /\ Covered(kids, live \ Acyclic, Grounds)
PlainInv ==
    /\ phase = "idle" /\ stack = <<>> /\ work = <<>>
    /\ HeapTypeOK /\ Bounded /\ DeadBlank /\ Leaves
    /\ Range(cand) = Buffered /\ IsInjective(cand)
    /\ PlainCounts /\ PlainColors /\ (isolate # "gone" => PlainRoots)

\* With no call in progress and no working color, every reference is counted.
LEMMA PlainRefs ==
  ASSUME NEW k, NEW h, NEW s, \A p \in Cells : \A i \in DOMAIN k[p] : ~Out(k, h, s, p, i), k \in [Cells -> Seq(Cells)]
  PROVE  \A c : Refs(k, h, s, c) = Cardinality(Plain(k, c))
<1>1. \A c : Counted(k, h, s, c) = Plain(k, c)
  BY SlotsIs DEF Counted, Plain
<1> QED
  BY <1>1 DEF Refs

\* The invariant of a quiet heap is the plain one.
LEMMA QuietPlain ==
  ASSUME CollectorInv, Quiet
  PROVE  PlainInv
<1>0. /\ HeapTypeOK /\ Bounded /\ DeadBlank /\ Leaves /\ Enlisted /\ Counts
  BY DEF CollectorInv, HeapInv
<1>1. /\ phase = "idle" /\ stack = <<>> /\ stack \in Seq(Frames) /\ work = <<>>
      /\ \A op, x : At(stack, op, x) = 0
      /\ \A op : Todo(kids, stack, op) = {}
      /\ \A x \in live \ Acyclic : hdr[x].color \in {"black", "purple"}
      /\ Gray = {} /\ White = {} /\ Parked = <<>>
      /\ \A q \in Cells : \A j \in DOMAIN kids[q] : ~Out(kids, hdr, stack, q, j)
  BY QuietContext
<1>2. Range(cand) = Buffered /\ IsInjective(cand)
  BY <1>0, <1>1 DEF Enlisted, Slotted
<1>3. PlainCounts
  <2>1. \A c : Refs(kids, hdr, stack, c) = Cardinality(Plain(kids, c))
    BY <1>0, <1>1, HeapTyped, PlainRefs
  <2> QED
    BY <2>1, <1>0, <1>1 DEF Counts, Count, PlainCounts
<1>4. ASSUME isolate # "gone" PROVE PlainRoots
  <2>1. Purples /\ Enrolled
    BY <1>4 DEF CollectorInv, RootsInv
  <2>2. Range(Parked) = {}
    BY <1>1 DEF Range
  <2>3. Settled = live \ Acyclic
    BY <1>1 DEF Settled
  <2>4. Sources = Grounds
    BY <1>1, <2>2 DEF Sources, Grounds
  <2>5. Covered(kids, live \ Acyclic, Grounds)
    BY <2>1, <2>3, <2>4 DEF Enrolled
  <2>6. \A c \in live : hdr[c].rc = 0 => hdr[c].buffered
    <3> SUFFICES ASSUME NEW c \in live, hdr[c].rc = 0 PROVE hdr[c].buffered
      OBVIOUS
    <3>1. hdr[c].color \notin {"gray", "white"}
      BY <1>1 DEF Gray, White
    <3>2. ~(At(stack, "white", c) > 0) /\ ~(At(stack, "dispose", c) > 0)
      BY <1>1
    <3> QED
      BY <2>1, <2>2, <3>1, <3>2 DEF Purples
  <2> QED
    BY <2>1, <2>5, <2>6, <1>1 DEF Purples, PlainRoots
<1> QED
  BY <1>0, <1>1, <1>2, <1>3, <1>4 DEF PlainInv, PlainColors

\* The plain invariant is the invariant of a quiet heap.
LEMMA PlainQuiet ==
  ASSUME PlainInv
  PROVE  CollectorInv
<1>0. /\ phase = "idle" /\ stack = <<>> /\ work = <<>>
      /\ HeapTypeOK /\ Bounded /\ DeadBlank /\ Leaves
      /\ Range(cand) = Buffered /\ IsInjective(cand)
      /\ PlainCounts /\ PlainColors /\ (isolate # "gone" => PlainRoots)
  BY DEF PlainInv
<1>1. \A op, x : At(stack, op, x) = 0
  BY <1>0, AtEmpty
<1>2. \A op : Todo(kids, stack, op) = {}
  BY <1>1 DEF Todo, Ahead
<1>3. \A q \in Cells : \A j \in DOMAIN kids[q] : ~Out(kids, hdr, stack, q, j)
  <2> SUFFICES ASSUME NEW q \in Cells, NEW j \in DOMAIN kids[q] PROVE ~Out(kids, hdr, stack, q, j)
    OBVIOUS
  <2>1. j \in Nat
    BY <1>0, KidsType
  <2>2. hdr[q].color \notin {"gray", "white"}
    <3>1. q \in live /\ q \notin Acyclic
      BY <1>0 DEF DeadBlank, Leaves
    <3> QED
      BY <3>1, <1>0 DEF PlainColors
  <2> QED
    BY <2>1, <2>2, <1>1 DEF Out, Visited, Ahead
<1>4. Gray = {} /\ White = {}
  BY <1>0 DEF Leaves, PlainColors, Gray, White
<1>5. Parked = <<>> /\ Range(Parked) = {}
  BY <1>0 DEF Parked, Range
<1>6. Stacked(stack, phase, live)
  BY <1>0, StackedEmpty
<1>7. Colored
  BY <1>0, <1>1 DEF Colored, WorkColors, PlainColors
<1>8. Enlisted
  BY <1>0, <1>1 DEF Enlisted, Slotted
<1>9. ParkedAlone
  BY <1>0, <1>5 DEF ParkedAlone, IsInjective
<1>10. Counts
  <2>1. \A c : Refs(kids, hdr, stack, c) = Cardinality(Plain(kids, c))
    BY <1>0, <1>3, HeapTyped, PlainRefs
  <2> QED
    BY <2>1, <1>0, <1>1 DEF Counts, Count, PlainCounts
<1>11. Whole /\ Uncounted /\ Marking /\ Scanning /\ Collecting
  BY <1>0, <1>1, <1>4 DEF Whole, Uncounted, Marking, Scanning, Collecting
<1>12. ASSUME isolate # "gone" PROVE Purples /\ Enrolled
  <2>1. Settled = live \ Acyclic
    BY <1>0, <1>1 DEF Settled
  <2>2. Sources = Grounds
    BY <1>0, <1>2, <1>5 DEF Sources, Grounds
  <2> QED
    BY <2>1, <2>2, <1>0, <1>12 DEF Purples, Enrolled, PlainRoots
<1> QED
  BY <1>0, <1>6, <1>7, <1>8, <1>9, <1>10, <1>11, <1>12 DEF CollectorInv, HeapInv, RootsInv, Gone

\* PlainQuiet of the next state.
LEMMA PlainNext == PlainInv' => CollectorInv'
<1>1. PlainInv => CollectorInv
  BY PlainQuiet
<1> QED
  BY <1>1, PTL

Edging == [Cells -> Seq(Cells)]

\* A reference is taken out of a cell.
LEMMA CutSlots ==
  ASSUME NEW k \in Edging, NEW p \in Cells, NEW i \in DOMAIN k[p],
         NEW k2 \in Edging, k2[p] = RemoveAt(k[p], i), \A q \in Cells : q # p => k2[q] = k[q]
  PROVE  /\ \A q \in Cells : k[q] = <<>> => k2[q] = <<>>
         /\ \A q \in Cells : \A j \in DOMAIN k[q] : k[q][j] # k[p][i] => \E l \in DOMAIN k2[q] : k2[q][l] = k[q][j]
         /\ \A q \in Cells : \A l \in DOMAIN k2[q] : \E j \in DOMAIN k[q] : k[q][j] = k2[q][l]
         /\ Cardinality(SlotsIn(k)) \in Nat /\ Cardinality(SlotsIn(k2)) = Cardinality(SlotsIn(k)) - 1
         /\ \A x : Cardinality(Plain(k2, x)) = Cardinality(Plain(k, x)) - (IF x = k[p][i] THEN 1 ELSE 0)
<1> DEFINE n == Len(k[p])
           r == RemoveAt(k[p], i)
           To(j) == IF j < i THEN j ELSE j + 1
           f == [e \in SlotsIn(k2) |-> IF e[1] = p THEN <<p, To(e[2])>> ELSE e]
<1>1. /\ k[p] \in Seq(Cells) /\ i \in Nat \ {0} /\ n \in Nat /\ i <= n /\ DOMAIN k[p] = 1..n
      /\ r \in Seq(Cells) /\ DOMAIN r = 1..(n - 1)
      /\ \A j \in 1..(n - 1) : r[j] = k[p][To(j)]
  <2> DEFINE q == k[p]
  <2>1. q \in Seq(Cells) /\ i \in DOMAIN q
    BY DEF Edging
  <2> HIDE DEF q
  <2>1a. /\ i \in Nat \ {0} /\ Len(q) \in Nat /\ i <= Len(q) /\ DOMAIN q = 1..Len(q)
         /\ RemoveAt(q, i) \in Seq(Cells) /\ DOMAIN RemoveAt(q, i) = 1..(Len(q) - 1)
         /\ \A j \in 1..(Len(q) - 1) : RemoveAt(q, i)[j] = IF j < i THEN q[j] ELSE q[j + 1]
    BY <2>1, RemoveOf
  <2>2. /\ i \in Nat \ {0} /\ n \in Nat /\ i <= n /\ DOMAIN k[p] = 1..n
        /\ r \in Seq(Cells) /\ DOMAIN r = 1..(n - 1)
        /\ \A j \in 1..(n - 1) : r[j] = IF j < i THEN k[p][j] ELSE k[p][j + 1]
    BY <2>1a DEF q, r, n
  <2> HIDE DEF r, n
  <2> QED
    BY <2>1, <2>2 DEF q
<1>2. k \in [Cells -> Seq(Cells)] /\ k2 \in [Cells -> Seq(Cells)] /\ k2[p] = r /\ \A q \in Cells : q # p => k2[q] = k[q]
  BY DEF Edging
<1> HIDE DEF r, n
<1>3. \A j \in 1..(n - 1) : To(j) \in 1..n /\ To(j) # i
  BY <1>1
<1>4. \A j, l \in 1..(n - 1) : To(j) = To(l) => j = l
  <2> SUFFICES ASSUME NEW j \in 1..(n - 1), NEW l \in 1..(n - 1), To(j) = To(l) PROVE j = l
    OBVIOUS
  <2>1. i \in Nat /\ n \in Nat /\ j \in Nat /\ l \in Nat
    BY <1>1
  <2> QED
    BY <2>1
<1>5. \A l \in 1..n : l # i => \E j \in 1..(n - 1) : To(j) = l
  <2> SUFFICES ASSUME NEW l \in 1..n, l # i PROVE \E j \in 1..(n - 1) : To(j) = l
    OBVIOUS
  <2>1. CASE l < i
    BY <2>1, <1>1
  <2>2. CASE l > i
    <3>1. l - 1 \in 1..(n - 1) /\ To(l - 1) = l
      BY <2>2, <1>1
    <3> QED
      BY <3>1
  <2> QED
    BY <2>1, <2>2, <1>1
<1> HIDE DEF To
<1>6. /\ IsFiniteSet(SlotsIn(k2)) /\ IsFiniteSet(SlotsIn(k))
      /\ \A q, j : <<q, j>> \in SlotsIn(k2) <=> q \in Cells /\ j \in DOMAIN k2[q]
      /\ \A e \in SlotsIn(k2) : e = <<e[1], e[2]>> /\ e[1] \in Cells /\ e[2] \in DOMAIN k2[e[1]]
      /\ \A q, j : <<q, j>> \in SlotsIn(k) <=> q \in Cells /\ j \in DOMAIN k[q]
      /\ \A e \in SlotsIn(k) : e = <<e[1], e[2]>> /\ e[1] \in Cells /\ e[2] \in DOMAIN k[e[1]]
  BY <1>2, SlotsIs
<1>7. ASSUME NEW e \in SlotsIn(k2)
      PROVE  /\ f[e] \in SlotsIn(k) /\ f[e] # <<p, i>> /\ k[f[e][1]][f[e][2]] = k2[e[1]][e[2]]
             /\ f[e][1] = e[1] /\ e[1] = p => e[2] \in 1..(n - 1) /\ f[e] = <<p, To(e[2])>>
             /\ e[1] # p => f[e] = e
  <2>1. CASE e[1] = p
    <3>1. e[2] \in 1..(n - 1) /\ f[e] = <<p, To(e[2])>>
      BY <2>1, <1>1, <1>2, <1>6
    <3>2. To(e[2]) \in 1..n /\ To(e[2]) # i /\ r[e[2]] = k[p][To(e[2])]
      BY <3>1, <1>1, <1>3
    <3> QED
      BY <2>1, <3>1, <3>2, <1>1, <1>2, <1>6
  <2>2. CASE e[1] # p
    <3>1. f[e] = e /\ e = <<e[1], e[2]>> /\ e[1] \in Cells /\ e[2] \in DOMAIN k[e[1]] /\ k2[e[1]] = k[e[1]]
      BY <2>2, <1>2, <1>6
    <3>2. <<e[1], e[2]>> \in SlotsIn(k)
      BY <3>1, <1>6
    <3>3. e # <<p, i>>
      BY <2>2
    <3> QED
      BY <2>2, <3>1, <3>2, <3>3
  <2> QED
    BY <2>1, <2>2
<1>8. \A d, e \in SlotsIn(k2) : f[d] = f[e] => d = e
  <2> SUFFICES ASSUME NEW d \in SlotsIn(k2), NEW e \in SlotsIn(k2), f[d] = f[e] PROVE d = e
    OBVIOUS
  <2>1. d = <<d[1], d[2]>> /\ e = <<e[1], e[2]>>
    BY <1>6
  <2>2. CASE d[1] = p /\ e[1] = p
    <3>1. To(d[2]) = To(e[2]) /\ d[2] \in 1..(n - 1) /\ e[2] \in 1..(n - 1)
      BY <2>2, <1>6, <1>1, <1>2
    <3> QED
      BY <3>1, <2>1, <2>2, <1>4
  <2>3. CASE d[1] # p /\ e[1] # p
    BY <2>3
  <2>4. CASE (d[1] = p) # (e[1] = p)
    BY <2>4, <2>1
  <2> QED
    BY <2>2, <2>3, <2>4
<1>9. \A d \in SlotsIn(k) : d # <<p, i>> => \E e \in SlotsIn(k2) : f[e] = d
  <2> SUFFICES ASSUME NEW d \in SlotsIn(k), d # <<p, i>> PROVE \E e \in SlotsIn(k2) : f[e] = d
    OBVIOUS
  <2>1. d = <<d[1], d[2]>> /\ d[1] \in Cells /\ d[2] \in DOMAIN k[d[1]]
    BY <1>6
  <2>2. CASE d[1] = p
    <3>1. d[2] \in 1..n /\ d[2] # i
      BY <2>1, <2>2, <1>1
    <3>2. PICK j \in 1..(n - 1) : To(j) = d[2]
      BY <3>1, <1>5
    <3>3. <<p, j>> \in SlotsIn(k2) /\ <<p, j>>[1] = p /\ <<p, j>>[2] = j
      BY <1>1, <1>2, <1>6
    <3> QED
      BY <2>1, <2>2, <3>2, <3>3
  <2>3. CASE d[1] # p
    <3>0. d[1] \in Cells /\ d[2] \in DOMAIN k2[d[1]]
      BY <2>1, <2>3, <1>2
    <3>1. <<d[1], d[2]>> \in SlotsIn(k2)
      BY <3>0, <1>6
    <3> QED
      BY <3>1, <2>1, <2>3
  <2> QED
    BY <2>2, <2>3
<1>10. <<p, i>> \in SlotsIn(k) /\ <<p, i>>[1] = p /\ <<p, i>>[2] = i
  BY <1>6
<1> HIDE DEF f
<1>11. Cardinality(SlotsIn(k)) \in Nat /\ Cardinality(SlotsIn(k2)) = Cardinality(SlotsIn(k)) - 1
  <2> DEFINE A == SlotsIn(k2)
             B == SlotsIn(k) \ {<<p, i>>}
             g == [e \in A |-> f[e]]
  <2>1. /\ IsFiniteSet(A) /\ g = [e \in A |-> g[e]] /\ \A e \in A : g[e] \in B
        /\ \A d, e \in A : g[d] = g[e] => d = e
        /\ \A b \in B : \E e \in A : g[e] = b
    BY <1>6, <1>7, <1>8, <1>9
  <2> HIDE DEF A, B, g
  <2>2. Cardinality(B) = Cardinality(A)
    BY <2>1, CountMoved
  <2>3. Cardinality(SlotsIn(k) \ {<<p, i>>}) = Cardinality(SlotsIn(k)) - 1 /\ Cardinality(SlotsIn(k)) \in Nat
    BY <1>6, <1>10, FS_RemoveElement, FS_CardinalityType
  <2> QED
    BY <2>2, <2>3 DEF A, B
<1>12. ASSUME NEW x
       PROVE  Cardinality(Plain(k2, x)) = Cardinality(Plain(k, x)) - (IF x = k[p][i] THEN 1 ELSE 0)
  <2> DEFINE A == Plain(k2, x)
             B == Plain(k, x) \ {<<p, i>>}
             g == [e \in A |-> f[e]]
  <2>1. /\ g = [e \in A |-> g[e]] /\ \A e \in A : g[e] \in B
        /\ \A d, e \in A : g[d] = g[e] => d = e
    BY <1>7, <1>8 DEF Plain
  <2>2. \A b \in B : \E e \in A : g[e] = b
    <3> SUFFICES ASSUME NEW b \in B PROVE \E e \in A : g[e] = b
      OBVIOUS
    <3>1. PICK e \in SlotsIn(k2) : f[e] = b
      BY <1>9 DEF Plain
    <3>2. e \in A
      BY <3>1, <1>7 DEF Plain
    <3> QED
      BY <3>1, <3>2
  <2>3. IsFiniteSet(A) /\ IsFiniteSet(Plain(k, x))
    <3>1. A \subseteq SlotsIn(k2) /\ Plain(k, x) \subseteq SlotsIn(k)
      BY DEF Plain
    <3> QED
      BY <3>1, <1>6, FS_Subset
  <2> HIDE DEF A, B, g
  <2>4. Cardinality(B) = Cardinality(A)
    BY <2>1, <2>2, <2>3, CountMoved
  <2>5. CASE x = k[p][i]
    <3>1. <<p, i>> \in Plain(k, x)
      BY <2>5, <1>10 DEF Plain
    <3>2. Cardinality(Plain(k, x) \ {<<p, i>>}) = Cardinality(Plain(k, x)) - 1
      BY <3>1, <2>3, FS_RemoveElement
    <3> QED
      BY <3>2, <2>4, <2>5 DEF A, B
  <2>6. CASE x # k[p][i]
    <3>1. Plain(k, x) \ {<<p, i>>} = Plain(k, x)
      BY <2>6, <1>10 DEF Plain
    <3>2. Cardinality(Plain(k, x)) \in Nat
      BY <2>3, FS_CardinalityType
    <3>3. Cardinality(Plain(k2, x)) = Cardinality(Plain(k, x))
      BY <3>1, <2>4 DEF A, B
    <3> QED
      BY <3>2, <3>3, <2>6
  <2> QED
    BY <2>5, <2>6
<1>13. \A q \in Cells : \A j \in DOMAIN k[q] : k[q][j] # k[p][i] => \E l \in DOMAIN k2[q] : k2[q][l] = k[q][j]
  <2> SUFFICES ASSUME NEW q \in Cells, NEW j \in DOMAIN k[q], k[q][j] # k[p][i] PROVE \E l \in DOMAIN k2[q] : k2[q][l] = k[q][j]
    OBVIOUS
  <2>1. CASE q = p
    <3>1. j \in 1..n /\ j # i
      BY <2>1, <1>1
    <3>2. PICK l \in 1..(n - 1) : To(l) = j
      BY <3>1, <1>5
    <3> QED
      BY <2>1, <3>2, <1>1, <1>2
  <2>2. CASE q # p
    BY <2>2, <1>2
  <2> QED
    BY <2>1, <2>2
<1>14. \A q \in Cells : \A l \in DOMAIN k2[q] : \E j \in DOMAIN k[q] : k[q][j] = k2[q][l]
  <2> SUFFICES ASSUME NEW q \in Cells, NEW l \in DOMAIN k2[q] PROVE \E j \in DOMAIN k[q] : k[q][j] = k2[q][l]
    OBVIOUS
  <2>1. CASE q = p
    <3>1. l \in 1..(n - 1)
      BY <2>1, <1>1, <1>2
    <3> QED
      BY <2>1, <3>1, <1>1, <1>2, <1>3
  <2>2. CASE q # p
    BY <2>2, <1>2
  <2> QED
    BY <2>1, <2>2
<1>15. \A q \in Cells : k[q] = <<>> => k2[q] = <<>>
  <2> SUFFICES ASSUME NEW q \in Cells, k[q] = <<>> PROVE k2[q] = <<>>
    OBVIOUS
  <2>1. q # p
    BY <1>1, EmptySeq
  <2> QED
    BY <2>1, <1>2
<1> QED
  BY <1>2, <1>11, <1>12, <1>13, <1>14, <1>15

\* A reference is erased from a cell.
LEMMA EraseStep ==
  ASSUME CollectorInv, NoSaturation, NEW p \in Cells, NEW i \in DOMAIN kids[p], Erase(p, i)
  PROVE  CollectorInv'
<1> DEFINE c == kids[p][i]
<1>0. /\ HeapTypeOK /\ Bounded /\ DeadBlank /\ Leaves
  BY DEF CollectorInv, HeapInv
<1>1. /\ Quiet /\ isolate # "gone" /\ kids' = [kids EXCEPT ![p] = RemoveAt(@, i)]
      /\ Become(Release(On(stack), c))
      /\ live' = live /\ handles' = handles /\ attached' = attached /\ phase' = phase /\ work' = work /\ kept' = kept /\ deferred' = deferred
      /\ isolate' = isolate /\ passes' = passes /\ before' = before /\ ub' = ub
  BY MachineIs DEF Erase, Running, pass, ending
<1>2. /\ phase = "idle" /\ stack \in Seq(Frames)
      /\ \A op, x : At(stack, op, x) = 0
      /\ \A op : Todo(kids, stack, op) = {}
      /\ \A x \in live \ Acyclic : hdr[x].color \in {"black", "purple"}
      /\ \A q \in Cells : \A j \in DOMAIN kids[q] : ~Out(kids, hdr, stack, q, j)
  BY <1>1, QuietContext
<1>3. c \in Cells /\ c \in live /\ At(stack, "dispose", c) = 0 /\ hdr[c].rc > 0 /\ hdr[c].rc = Count(handles, kids, hdr, stack, c)
  BY <1>2, CountedTarget
<1>4. kids \in [Cells -> Seq(Cells)] /\ handles \in [Cells -> Nat]
  BY <1>0, HeapTyped
<1>5. /\ kids' \in [Cells -> Seq(Cells)]
      /\ \A q \in Cells : kids[q] = <<>> => kids'[q] = <<>>
      /\ \A q \in Cells : \A j \in DOMAIN kids[q] : kids[q][j] # c => \E l \in DOMAIN kids'[q] : kids'[q][l] = kids[q][j]
      /\ \A q \in Cells : \A l \in DOMAIN kids'[q] : \E j \in DOMAIN kids[q] : kids[q][j] = kids'[q][l]
      /\ Cardinality(SlotsIn(kids)) \in Nat /\ Cardinality(SlotsIn(kids')) = Cardinality(SlotsIn(kids)) - 1
      /\ \A x : Cardinality(Plain(kids', x)) = Cardinality(Plain(kids, x)) - (IF x = c THEN 1 ELSE 0)
  <2> DEFINE k2 == kids'
  <2>0. RemoveAt(kids[p], i) \in Seq(Cells)
    <3> DEFINE q == kids[p]
    <3>1. q \in Seq(Cells) /\ i \in DOMAIN q
      BY <1>4
    <3> HIDE DEF q
    <3>2. RemoveAt(q, i) \in Seq(Cells)
      BY <3>1, RemoveOf
    <3> QED
      BY <3>2 DEF q
  <2>1. /\ k2 \in [Cells -> Seq(Cells)] /\ k2[p] = RemoveAt(kids[p], i) /\ \A q \in Cells : q # p => k2[q] = kids[q]
    BY <1>1, <1>4, <2>0
  <2>1a. /\ k2 \in Edging /\ kids \in Edging /\ k2[p] = RemoveAt(kids[p], i)
         /\ \A q \in Cells : q # p => k2[q] = kids[q]
    BY <2>1, <1>4 DEF Edging
  <2> HIDE DEF k2
  <2>2. /\ \A q \in Cells : kids[q] = <<>> => k2[q] = <<>>
        /\ \A q \in Cells : \A j \in DOMAIN kids[q] : kids[q][j] # kids[p][i] => \E l \in DOMAIN k2[q] : k2[q][l] = kids[q][j]
        /\ \A q \in Cells : \A l \in DOMAIN k2[q] : \E j \in DOMAIN kids[q] : kids[q][j] = k2[q][l]
    BY <2>1a, CutSlots
  <2>3. /\ Cardinality(SlotsIn(kids)) \in Nat /\ Cardinality(SlotsIn(k2)) = Cardinality(SlotsIn(kids)) - 1
        /\ \A x : Cardinality(Plain(k2, x)) = Cardinality(Plain(kids, x)) - (IF x = kids[p][i] THEN 1 ELSE 0)
    BY <2>1a, CutSlots
  <2> QED
    BY <2>1, <2>2, <2>3 DEF k2
<1> HIDE DEF c
<1>6. Bounded'
  BY <1>0, <1>1, <1>5, HeapAssumption DEF Bounded
<1>7. \A q \in Cells : \A j \in DOMAIN kids'[q] : ~Out(kids', hdr, stack, q, j)
  <2> SUFFICES ASSUME NEW q \in Cells, NEW j \in DOMAIN kids'[q] PROVE ~Out(kids', hdr, stack, q, j)
    OBVIOUS
  <2>1. j \in Nat
    <3>1. kids'[q] \in Seq(Cells)
      BY <1>5
    <3> QED
      BY <3>1, LenProperties
  <2>2. q \in live /\ q \notin Acyclic
    <3>1. kids[q] # <<>>
      BY <1>5, EmptySeq
    <3> QED
      BY <3>1, <1>0 DEF DeadBlank, Leaves
  <2>3. hdr[q].color \notin {"gray", "white"}
    BY <2>2, <1>2
  <2> QED
    BY <2>1, <2>3, <1>2 DEF Out, Visited, Ahead
<1>8. \A x \in Cells : Count(handles', kids', hdr, stack, x) = Count(handles, kids, hdr, stack, x) - (IF x = c THEN 1 ELSE 0)
  <2> TAKE x \in Cells
  <2>1. Refs(kids, hdr, stack, x) = Cardinality(Plain(kids, x)) /\ Refs(kids, hdr, stack, x) \in Nat
    BY <1>2, <1>4, PlainRefs, RefsType
  <2>2. Refs(kids', hdr, stack, x) = Cardinality(Plain(kids', x))
    BY <1>5, <1>7, PlainRefs, SMTT(60)
  <2>3. handles[x] \in Nat /\ handles'[x] = handles[x]
    BY <1>1, <1>4
  <2>4. Cardinality(Plain(kids', x)) = Cardinality(Plain(kids, x)) - (IF x = c THEN 1 ELSE 0)
    BY <1>5
  <2> QED
    BY <2>1, <2>2, <2>3, <2>4 DEF Count
<1>9. Giving(c, stack)
  BY <1>1, <1>2, <1>4, <1>5, <1>6, <1>8 DEF Giving
<1>10. Stacked(stack, phase, live)
  BY DEF CollectorInv, HeapInv
<1> QED
  BY <1>1, <1>2, <1>3, <1>9, <1>10, ReleaseStep

\* A freed cell's header is read, or its slot kept: nothing is written.
LEMMA FreedStep == ASSUME CollectorInv, VisitFreed \/ \E c \in Cells : GrowUnseen(c) PROVE CollectorInv'
<1>1. /\ live' = live /\ kids' = kids /\ hdr' = hdr /\ handles' = handles /\ cand' = cand /\ attached' = attached
      /\ phase' = phase /\ work' = work /\ kept' = kept /\ deferred' = deferred /\ stack' = stack
      /\ isolate' = isolate /\ passes' = passes /\ before' = before /\ lost' = lost /\ ub' \in BOOLEAN
  BY DEF VisitFreed, GrowUnseen, heap, pass, ending
<1>2. /\ HeapTypeOK /\ Bounded /\ Stacked(stack, phase, live) /\ DeadBlank /\ Leaves /\ Colored /\ Enlisted
      /\ ParkedAlone /\ Counts /\ Whole /\ Uncounted /\ Marking /\ Scanning /\ Collecting
      /\ (isolate # "gone" => Purples /\ Enrolled) /\ Gone
  BY DEF CollectorInv, HeapInv, RootsInv
<1>3. HeapTypeOK'
  BY <1>1, <1>2 DEF HeapTypeOK
<1>4. (Bounded /\ Stacked(stack, phase, live) /\ DeadBlank /\ Leaves)'
  BY <1>1, <1>2 DEF Bounded, DeadBlank, Leaves
<1>5. Colored' /\ Enlisted'
  BY <1>1, <1>2 DEF Colored, WorkColors, Enlisted, Slotted, Buffered
<1>6. ParkedAlone'
  BY <1>1, <1>2 DEF ParkedAlone, Parked
<1>7. (Counts /\ Whole /\ Uncounted)'
  BY <1>1, <1>2 DEF Counts, Whole, Uncounted, White
<1>8. Marking' /\ Scanning' /\ Collecting'
  BY <1>1, <1>2 DEF Marking, Scanning, Collecting, Gray, White
<1>9. isolate' # "gone" => Purples' /\ Enrolled'
  BY <1>1, <1>2 DEF Purples, Parked, Enrolled, Settled, Sources, Gray
<1>10. Gone'
  BY <1>1, <1>2 DEF Gone
<1> QED
  BY <1>3, <1>4, <1>5, <1>6, <1>7, <1>8, <1>9, <1>10 DEF CollectorInv, HeapInv, RootsInv

\* The innermost call is done with the cell's children, and frees the cell.
LEMMA FreeContext ==
  ASSUME CollectorInv, Free, NEW c, c = Top.cell, NEW o, o = Top.op
  PROVE  /\ o \in {"white", "dispose"} /\ c \in Cells /\ c \in live /\ phase \in {"idle", "white", "dispose"} /\ isolate # "gone"
         /\ At(stack, o, c) > 0 /\ \A i \in DOMAIN kids[c] : Visited(stack, o, c, i) /\ ~Ahead(stack, o, c, i)
         /\ (o = "white" => phase = "white" /\ c \notin Acyclic) /\ (phase = "white" /\ o = "dispose" => c \in Acyclic)
         /\ stack \in Seq(Frames) /\ stack' \in Seq(Frames) /\ Stacked(stack', phase, live \ {c})
         /\ \A op, x : At(stack, op, x) \in Nat
         /\ \A op, x : At(stack', op, x) = IF op = o /\ x = c THEN 0 ELSE At(stack, op, x)
         /\ \A op \in Ops : At(stack', op, c) = 0
         /\ \A op, x : x # c => At(stack', op, x) = At(stack, op, x)
<1>0. HeapTypeOK /\ Stacked(stack, phase, live)
  BY DEF CollectorInv, HeapInv
<1>1. /\ stack # <<>> /\ ~HasChild /\ ~ub /\ o \in {"white", "dispose"} /\ stack' = Tail(stack)
  BY DEF Free, InCall
<1>2. stack \in Seq(Frames) /\ live \subseteq Cells /\ phase \in Phases
  BY <1>0, HeapTyped DEF Phases
<1>3. /\ Top \in Frames /\ At(stack, o, c) = Top.next /\ o \in OpsOf(phase) /\ c \in live
      /\ o # "dispose" => c \notin Acyclic
  BY <1>0, <1>1, <1>2, TopCall DEF Top
<1>4. c \in Cells /\ Top.next \in Nat \ {0} /\ At(stack, o, c) > 0
  BY <1>2, <1>3 DEF Frames
<1>5. \A i \in DOMAIN kids[c] : Visited(stack, o, c, i) /\ ~Ahead(stack, o, c, i)
  <2>1. DOMAIN kids[c] = 1..Len(kids[c]) /\ Len(kids[c]) \in Nat
    BY <1>0, <1>4, KidsType
  <2>2. Top.next > Len(kids[c])
    BY <2>1, <1>1, <1>4 DEF HasChild, InCall
  <2>3. \A i \in DOMAIN kids[c] : At(stack, o, c) > i
    BY <2>1, <2>2, <1>3, <1>4
  <2> QED
    BY <2>1, <2>3, <1>3, <1>4 DEF Visited, Ahead
<1>6. /\ o = "white" => phase = "white"
      /\ o = "dispose" => phase \in {"idle", "white", "dispose"}
  BY <1>0, <1>3, CallPhase
<1>7. /\ \A op, x : At(stack, op, x) \in Nat /\ (At(stack, op, x) > 0 => x \in live)
      /\ \A op, x : At(stack, op, x) > 0 /\ op # "dispose" => x \notin Acyclic
      /\ phase # "mark" => \A x : At(stack, "gray", x) = 0
      /\ phase # "scan" => \A x : At(stack, "scan", x) = 0 /\ At(stack, "black", x) = 0
      /\ phase # "white" => \A x : At(stack, "white", x) = 0
      /\ phase = "white" => \A x : x \notin Acyclic => At(stack, "dispose", x) = 0
  BY <1>0, <1>2, CallsByPhase
<1>8. phase \in {"idle", "white", "dispose"}
  BY <1>1, <1>6
<1>9. phase = "white" /\ o = "dispose" => c \in Acyclic
  BY <1>4, <1>7
<1>10. \A op, x : At(stack', op, x) = IF op = o /\ x = c THEN 0 ELSE At(stack, op, x)
  <2>1. Apart(stack)
    BY <1>0, StackedApart
  <2>2. \A op, p : At(Tail(stack), op, p) = IF op = Head(stack).op /\ p = Head(stack).cell THEN 0 ELSE At(stack, op, p)
    BY <1>1, <1>2, <2>1, AtTail
  <2> QED
    BY <2>2, <1>1 DEF Top
<1>11. \A op \in Ops : At(stack', op, c) = 0
  <2> SUFFICES ASSUME NEW op \in Ops, op # o PROVE At(stack, op, c) = 0
    BY <1>10
  <2>1. op \in {"gray", "scan", "black"} => At(stack, op, c) = 0
    BY <1>7, <1>8
  <2>2. CASE o = "white"
    BY <2>1, <2>2, <1>3, <1>6, <1>7 DEF Ops
  <2>3. CASE o = "dispose"
    <3>1. At(stack, "white", c) = 0
      <4>1. CASE phase = "white"
        <5>1. ~(At(stack, "white", c) > 0)
          BY <4>1, <2>3, <1>7, <1>9
        <5> QED
          BY <5>1, <1>7
      <4>2. CASE phase # "white"
        BY <4>2, <1>7
      <4> QED
        BY <4>1, <4>2
    <3> QED
      BY <3>1, <2>1, <2>3 DEF Ops
  <2> QED
    BY <2>2, <2>3, <1>1
<1>12. Stacked(stack', phase, live \ {c}) /\ stack' \in Seq(Frames)
  <2>1. \A op, p : At(Tail(stack), op, p) > 0 => p \in live \ {c}
    <3> SUFFICES ASSUME NEW op, NEW p, At(stack', op, p) > 0 PROVE p \in live \ {c}
      BY <1>1
    <3>1. At(stack, op, p) > 0 /\ op \in Ops
      <4>1. At(stack, op, p) > 0
        BY <1>10
      <4>2. op \in OpsOf(phase)
        BY <4>1, <1>0, <1>2, CallsLive
      <4> QED
        BY <4>1, <4>2, <1>2, PhaseOps DEF Phases, Ops
    <3> QED
      BY <3>1, <1>7, <1>11
  <2> QED
    BY <2>1, <1>0, <1>1, <1>2, StackedTail
<1>13. isolate # "gone"
  BY <1>1 DEF CollectorInv, Gone
<1>14. \A op, x : x # c => At(stack', op, x) = At(stack, op, x)
  BY <1>10
<1> QED
  BY <1>1, <1>2, <1>3, <1>4, <1>5, <1>6, <1>7, <1>8, <1>9, <1>10, <1>11, <1>12, <1>13, <1>14

\* A cell is freed.
LEMMA FreeStep == ASSUME CollectorInv, Free PROVE CollectorInv'
<1> DEFINE c == Top.cell
           o == Top.op
<1>0. /\ HeapTypeOK /\ Bounded /\ Stacked(stack, phase, live) /\ DeadBlank /\ Leaves /\ Colored /\ Enlisted
      /\ ParkedAlone /\ Counts /\ Whole /\ Uncounted /\ Marking /\ Scanning /\ Collecting
      /\ Purples /\ Enrolled
  BY DEF CollectorInv, HeapInv, RootsInv, Gone, Free, InCall
<1>1. /\ live' = live \ {c} /\ kids' = [kids EXCEPT ![c] = <<>>] /\ hdr' = [hdr EXCEPT ![c] = Blank]
      /\ lost' = lost \ {c} /\ handles' = handles /\ cand' = cand /\ attached' = attached
      /\ phase' = phase /\ work' = work /\ kept' = kept /\ deferred' = deferred
      /\ isolate' = isolate /\ passes' = passes /\ before' = before /\ ub' = ub
  BY DEF Free, pass, ending
<1>2. /\ o \in {"white", "dispose"} /\ c \in Cells /\ c \in live /\ phase \in {"idle", "white", "dispose"} /\ isolate # "gone"
      /\ At(stack, o, c) > 0 /\ \A i \in DOMAIN kids[c] : Visited(stack, o, c, i) /\ ~Ahead(stack, o, c, i)
      /\ (o = "white" => phase = "white" /\ c \notin Acyclic) /\ (phase = "white" /\ o = "dispose" => c \in Acyclic)
      /\ stack \in Seq(Frames) /\ stack' \in Seq(Frames) /\ Stacked(stack', phase, live \ {c})
      /\ \A op, x : At(stack, op, x) \in Nat
      /\ \A op, x : At(stack', op, x) = IF op = o /\ x = c THEN 0 ELSE At(stack, op, x)
      /\ \A op \in Ops : At(stack', op, c) = 0
      /\ \A op, x : x # c => At(stack', op, x) = At(stack, op, x)
  BY FreeContext, ZenonT(60)
<1> HIDE DEF c, o
<1>3. /\ live \subseteq Cells /\ kids \in [Cells -> Seq(Cells)]
      /\ hdr \in [Cells -> [rc : 0..RCMax, color : Colors, buffered : BOOLEAN]]
      /\ handles \in [Cells -> Nat] /\ lost \subseteq Cells
  BY <1>0, HeapTyped
<1>4. /\ kids' \in [Cells -> Seq(Cells)] /\ kids'[c] = <<>> /\ \A x \in Cells : x # c => kids'[x] = kids[x]
      /\ \A x \in Cells : DOMAIN kids'[x] \subseteq DOMAIN kids[x] /\ \A j \in DOMAIN kids'[x] : x # c /\ kids'[x][j] = kids[x][j]
  <2>1. <<>> \in Seq(Cells) /\ DOMAIN <<>> = {}
    OBVIOUS
  <2> QED
    BY <2>1, <1>1, <1>2, <1>3
<1>5. /\ hdr' \in [Cells -> [rc : 0..RCMax, color : Colors, buffered : BOOLEAN]] /\ hdr'[c] = Blank
      /\ \A x \in Cells : x # c => hdr'[x] = hdr[x]
  <2>1. Blank \in [rc : 0..RCMax, color : Colors, buffered : BOOLEAN]
    BY HeapAssumption DEF Blank, Colors
  <2> QED
    BY <2>1, <1>1, <1>2, <1>3
<1>6. Count(handles, kids, hdr, stack, c) = 0
  <2>1. CASE o = "white"
    <3>1. hdr[c].rc = 0
      BY <2>1, <1>0, <1>2 DEF Uncounted
    <3> QED
      BY <3>1, <1>0, <1>2 DEF Counts
  <2>2. CASE o = "dispose"
    BY <2>2, <1>0, <1>2 DEF Counts
  <2> QED
    BY <2>1, <2>2, <1>2
<1>7. handles[c] = 0
  <2>1. handles[c] <= Count(handles, kids, hdr, stack, c) /\ handles[c] \in Nat
    BY <1>2, <1>3, CountType
  <2> QED
    BY <2>1, <1>6
<1>8. HeapTypeOK'
  <2>1. stack' \in Seq([op : {"gray", "black", "scan", "white", "dispose"}, cell : Cells, next : Nat \ {0}])
    BY <1>2 DEF Frames, Ops
  <2>2. live' \subseteq Cells /\ lost' \subseteq Cells
    BY <1>1, <1>3
  <2> QED
    BY <2>1, <2>2, <1>0, <1>1, <1>4, <1>5 DEF HeapTypeOK
<1>9. Bounded'
  <2>1. SlotsIn(kids') \subseteq SlotsIn(kids)
    BY <1>4 DEF SlotsIn
  <2>2. Cardinality(SlotsIn(kids')) <= Cardinality(SlotsIn(kids)) /\ Cardinality(SlotsIn(kids')) \in Nat /\ Cardinality(SlotsIn(kids)) \in Nat
    BY <2>1, <1>3, SlotsIs, FS_Subset, FS_CardinalityType
  <2> QED
    BY <2>2, <1>0, <1>1, HeapAssumption DEF Bounded
<1>10. DeadBlank'
  BY <1>0, <1>1, <1>2, <1>4, <1>5, <1>7 DEF DeadBlank
<1>11. Leaves'
  <2>1. \A x \in Acyclic : x \in Cells
    BY HeapAssumption
  <2>2. ~Blank.buffered
    BY DEF Blank
  <2>3. \A x \in Acyclic : kids'[x] = <<>> /\ ~hdr'[x].buffered /\ (x \in live' => hdr'[x].color = "green")
    BY <2>1, <2>2, <1>0, <1>1, <1>4, <1>5 DEF Leaves
  <2>4. lost' \subseteq live' \ Acyclic
    BY <1>0, <1>1 DEF Leaves
  <2> QED
    BY <2>3, <2>4 DEF Leaves
<1>12. Colored'
  <2>1. \A x \in live' \ Acyclic : hdr'[x].color \in WorkColors'
    BY <1>0, <1>1, <1>3, <1>5 DEF Colored, WorkColors
  <2>2. ASSUME NEW x \in Cells
        PROVE  /\ At(stack', "gray", x) > 0 => hdr'[x].color = "gray"
               /\ At(stack', "black", x) > 0 => hdr'[x].color = "black"
               /\ At(stack', "white", x) > 0 => hdr'[x].color = "black"
               /\ At(stack', "scan", x) > 0 => hdr'[x].color \in {"white", "black"}
    <3>1. CASE x = c
      BY <3>1, <1>2 DEF Ops
    <3>2. CASE x # c
      BY <3>2, <1>0, <1>2, <1>5 DEF Colored
    <3> QED
      BY <3>1, <3>2
  <2> QED
    BY <2>1, <2>2 DEF Colored
<1>13. c \notin Buffered /\ Buffered' = Buffered
  <2>1. ~hdr[c].buffered
    BY <1>0, <1>2 DEF Enlisted
  <2> QED
    BY <2>1, <1>1, <1>3, <1>5 DEF Buffered
<1>14. Enlisted'
  <2>1. Slotted' = Slotted
    BY <1>1 DEF Slotted
  <2>2. \A x \in live' : x \in Cells /\ x # c /\ x \in live
    BY <1>1, <1>3
  <2>3. \A x \in live' : hdr'[x].buffered => At(stack', "dispose", x) = 0 /\ At(stack', "white", x) = 0
    BY <2>2, <1>0, <1>2, <1>5 DEF Enlisted
  <2> QED
    BY <2>1, <2>3, <1>0, <1>1, <1>13 DEF Enlisted
<1>15. ParkedAlone'
  <2>1. o \in Ops /\ ~Untouched(kids, handles, stack, c)
    BY <1>2 DEF Untouched, Ops
  <2>2. Parked' = Parked
    BY <1>1 DEF Parked
  <2>3. ASSUME NEW x \in Range(Parked')
        PROVE  /\ x \in live' \ Acyclic /\ hdr'[x].color = "black" /\ ~hdr'[x].buffered
               /\ hdr'[x].rc = 0 /\ Untouched(kids', handles', stack', x)
    <3>1. /\ x \in live \ Acyclic /\ hdr[x].color = "black" /\ ~hdr[x].buffered
          /\ hdr[x].rc = 0 /\ Untouched(kids, handles, stack, x)
      BY <2>2, <1>0 DEF ParkedAlone
    <3>2. x # c /\ x \in Cells
      BY <3>1, <2>1, <1>3
    <3>3. Untouched(kids', handles', stack', x)
      BY <3>1, <3>2, <1>1, <1>2, <1>4 DEF Untouched
    <3> QED
      BY <3>1, <3>2, <3>3, <1>1, <1>5
  <2> QED
    BY <2>2, <2>3, <1>0, <1>1, <1>2 DEF ParkedAlone
<1>16. \A x : Refs(kids', hdr', stack', x) = Refs(kids, hdr, stack, x)
  <2>1. \A i \in DOMAIN kids[c] : Out(kids, hdr, stack, c, i)
    <3> SUFFICES ASSUME NEW i \in DOMAIN kids[c] PROVE Out(kids, hdr, stack, c, i)
      OBVIOUS
    <3>1. Visited(stack, o, c, i) /\ At(stack, o, c) > 0
      BY <1>2
    <3>2. CASE o = "dispose"
      BY <3>1, <3>2 DEF Out
    <3>3. CASE o = "white"
      BY <3>1, <3>3 DEF Out
    <3> QED
      BY <3>2, <3>3, <1>2
  <2>2. \A q \in Cells : \A j \in DOMAIN kids[q] : q # c => (Out(kids', hdr', stack', q, j) <=> Out(kids, hdr, stack, q, j))
    <3> SUFFICES ASSUME NEW q \in Cells, NEW j \in DOMAIN kids[q], q # c
                 PROVE  Out(kids', hdr', stack', q, j) <=> Out(kids, hdr, stack, q, j)
      OBVIOUS
    <3>1. kids'[q] = kids[q] /\ hdr'[q] = hdr[q] /\ \A op : At(stack', op, q) = At(stack, op, q)
      BY <1>2, <1>4, <1>5
    <3> QED
      BY <3>1 DEF Out, Visited, Ahead
  <2> QED
    BY <2>1, <2>2, <1>0, <1>2, <1>4, CountCleared
<1>17. Counts'
  <2> SUFFICES ASSUME NEW x \in Cells
               PROVE  IF x \notin live' \/ At(stack', "dispose", x) > 0 THEN Count(handles', kids', hdr', stack', x) = 0
                      ELSE hdr'[x].rc = Count(handles', kids', hdr', stack', x)
    BY DEF Counts
  <2>1. Count(handles', kids', hdr', stack', x) = Count(handles, kids, hdr, stack, x)
    BY <1>1, <1>16 DEF Count
  <2>2. CASE x = c
    BY <2>1, <2>2, <1>1, <1>6
  <2>3. CASE x # c
    <3>1. At(stack', "dispose", x) = At(stack, "dispose", x) /\ (x \in live' <=> x \in live) /\ hdr'[x] = hdr[x]
      BY <2>3, <1>1, <1>2, <1>5
    <3> QED
      BY <2>1, <3>1, <1>0 DEF Counts
  <2> QED
    BY <2>2, <2>3
<1>18. c \notin White
  <2>1. o = "white" => hdr[c].color = "black"
    BY <1>0, <1>2 DEF Colored
  <2>2. phase # "white" => hdr[c].color # "white"
    BY <1>0, <1>2 DEF Colored, WorkColors, Leaves
  <2>3. c \in Acyclic => hdr[c].color # "white"
    BY <1>0, <1>2 DEF Leaves
  <2> QED
    BY <2>1, <2>2, <2>3, <1>2 DEF White
<1>19. White' = White
  BY <1>1, <1>3, <1>5, <1>18 DEF White
<1>20. (Whole /\ Uncounted)'
  <2>1. Uncounted'
    <3>1. \A x \in White' : hdr'[x].rc = 0
      BY <1>0, <1>3, <1>5, <1>18, <1>19 DEF Uncounted, White
    <3>2. \A x \in Cells : At(stack', "white", x) > 0 => hdr'[x].rc = 0
      <4> SUFFICES ASSUME NEW x \in Cells, At(stack', "white", x) > 0 PROVE hdr'[x].rc = 0
        OBVIOUS
      <4>1. x # c
        BY <1>2 DEF Ops
      <4> QED
        BY <4>1, <1>0, <1>2, <1>5 DEF Uncounted
    <3> QED
      BY <3>1, <3>2 DEF Uncounted
  <2> QED
    BY <2>1, <1>1, <1>2 DEF Whole
<1>21. (Marking /\ Scanning)'
  BY <1>1, <1>2 DEF Marking, Scanning
<1>22. \A op : Todo(kids, stack, op) \subseteq Todo(kids', stack', op) \cup {x \in Cells : op # o /\ At(stack, op, c) > 0}
  <2> SUFFICES ASSUME NEW op, NEW q \in Cells, NEW i \in DOMAIN kids[q], Ahead(stack, op, q, i), op = o \/ ~(At(stack, op, c) > 0)
               PROVE  q # c /\ i \in DOMAIN kids'[q] /\ kids'[q][i] = kids[q][i] /\ Ahead(stack', op, q, i)
    BY DEF Todo
  <2>1. q # c
    BY <1>2 DEF Ahead
  <2> QED
    BY <2>1, <1>2, <1>4 DEF Ahead
<1>23. \A op \in {"white", "dispose"} : Todo(kids, stack, op) \subseteq Todo(kids', stack', op)
  <2> SUFFICES ASSUME NEW op \in {"white", "dispose"}, op # o PROVE At(stack, op, c) = 0
    BY <1>2, <1>22
  <2>1. op \in Ops /\ At(stack', op, c) = 0
    BY <1>2 DEF Ops
  <2> QED
    BY <2>1, <1>2
<1>24. Collecting'
  <2> SUFFICES ASSUME phase = "white" PROVE Collecting'
    BY <1>1 DEF Collecting
  <2> DEFINE S == Range(work) \cup Todo(kids, stack, "white")
             T == Range(work) \cup Todo(kids', stack', "white")
             Y == {x \in Cells : At(stack, "white", x) > 0}
             Y2 == {x \in Cells : At(stack', "white", x) > 0}
  <2>1. Range(work) \subseteq live \ Acyclic /\ Covered(kids, White, S) /\ OrderedRoots(kids, work, Y)
    BY <1>0 DEF Collecting
  <2>2. c \notin Range(work)
    <3>1. CASE o = "dispose"
      BY <3>1, <2>1, <1>2
    <3>2. CASE o = "white"
      <4> SUFFICES ASSUME c \in Range(work) PROVE FALSE
        OBVIOUS
      <4>1. PICK j \in DOMAIN work : work[j] = c
        BY DEF Range
      <4>2. PICK Z \in SUBSET Cells : Y \subseteq Z /\ work[j] \notin Z
        BY <2>1 DEF OrderedRoots
      <4>3. c \in Y
        BY <3>2, <1>2
      <4> QED
        BY <4>1, <4>2, <4>3
    <3> QED
      BY <3>1, <3>2, <1>2
  <2>3. Y2 \subseteq Y
    BY <1>2
  <2>4. S \subseteq T
    BY <1>23
  <2>5. \A p \in White : p # c /\ p \in Cells /\ kids'[p] = kids[p]
    BY <1>3, <1>4, <1>18 DEF White
  <2> HIDE DEF S, T, Y, Y2
  <2>6. Covered(kids', White, T)
    BY <2>1, <2>4, <2>5, CoverStep
  <2>7. OrderedRoots(kids', work, Y2)
    <3> SUFFICES ASSUME NEW j \in DOMAIN work
                 PROVE  \E Z \in SUBSET Cells : ClosedIn(kids', Z) /\ Y2 \subseteq Z /\ work[j] \notin Z /\ \A i \in 1..(j - 1) : work[i] \in Z
      BY DEF OrderedRoots
    <3>1. PICK Z \in SUBSET Cells : ClosedIn(kids, Z) /\ Y \subseteq Z /\ work[j] \notin Z /\ \A i \in 1..(j - 1) : work[i] \in Z
      BY <2>1 DEF OrderedRoots
    <3>2. ClosedIn(kids', Z)
      BY <3>1, <1>4 DEF ClosedIn
    <3> QED
      BY <3>1, <3>2, <2>3
  <2>8. Range(work) \subseteq live' \ Acyclic
    BY <2>1, <2>2, <1>1
  <2> QED
    BY <2>6, <2>7, <2>8, <1>1, <1>19 DEF Collecting, T, Y2
<1>25. Purples'
  <2>1. Parked' = Parked
    BY <1>1 DEF Parked
  <2>2. \A x \in live' : x \in live /\ hdr'[x] = hdr[x] /\ \A op : At(stack', op, x) = At(stack, op, x)
    BY <1>1, <1>2, <1>3, <1>5
  <2> QED
    BY <2>1, <2>2, <1>0, <1>1 DEF Purples
<1>26. Enrolled'
  <2> DEFINE Z == Settled
             S == Sources
             T == Sources'
  <2>1. Covered(kids, Z, S)
    BY <1>0 DEF Enrolled
  <2>2. c \notin Z
    BY <1>2 DEF Settled
  <2>3. Settled' = Z
    <3>1. \A x \in live' : x \in live /\ hdr'[x] = hdr[x] /\ \A op : At(stack', op, x) = At(stack, op, x)
      BY <1>1, <1>2, <1>3, <1>5
    <3> QED
      BY <3>1, <2>2, <1>1 DEF Settled
  <2>4. S \subseteq T \cup {c}
    <3>1. Parked' = Parked /\ phase # "mark"
      BY <1>1, <1>2 DEF Parked
    <3> QED
      BY <3>1, <1>1, <1>23 DEF Sources
  <2>5. \A p \in Z : p # c /\ p \in Cells /\ kids'[p] = kids[p]
    BY <2>2, <1>3, <1>4 DEF Settled
  <2> HIDE DEF Z, S, T
  <2>6. Covered(kids', Z, T)
    BY <2>1, <2>2, <2>4, <2>5, CoverStep
  <2> QED
    BY <2>3, <2>6 DEF Enrolled, T
<1>27. Gone'
  BY <1>1, <1>2 DEF Gone
<1>28. Stacked(stack', phase', live')
  BY <1>1, <1>2
<1> QED
  BY <1>8, <1>9, <1>10, <1>11, <1>12, <1>14, <1>15, <1>17, <1>20, <1>21, <1>24, <1>25, <1>26, <1>27, <1>28
  DEF CollectorInv, HeapInv, RootsInv

\* A child is visited.
LEMMA VisitStep == ASSUME CollectorInv, NoSaturation, VisitChild PROVE CollectorInv'
<1> DEFINE p == Top.cell
           i == Top.next
           c == Child
<1>1. /\ Top.op \in Ops /\ stack # <<>> /\ c \in Cells
      /\ Become(Visit(On(Advanced(stack)), Top.op, c))
  <2>1. p = Top.cell /\ i = Top.next /\ c = Child
    OBVIOUS
  <2> HIDE DEF p, i, c
  <2> QED
    BY <2>1, VisitContext
<1>2. HeapTypeOK
  BY DEF CollectorInv, HeapInv
<1>3. CASE Top.op \in {"gray", "black"} /\ c \in Acyclic
  <2>1. Become(On(Advanced(stack)))
    BY <1>1, <1>3 DEF Visit
  <2>2. hdr' = hdr /\ stack' = Advanced(stack) /\ Unlisted
    BY <2>1, MachBecome DEF On, Unlisted
  <2>3. p = Top.cell /\ i = Top.next /\ c = Child
    OBVIOUS
  <2> HIDE DEF p, i, c
  <2> QED
    BY <2>2, <2>3, <1>3, SkipChild
<1>4. CASE Top.op = "gray" /\ c \notin Acyclic
  <2>1. p = Top.cell /\ i = Top.next /\ c = Child
    OBVIOUS
  <2> HIDE DEF p, i, c
  <2> QED
    BY <2>1, <1>4, VisitGray
<1>5. CASE Top.op = "black" /\ c \notin Acyclic
  <2>1. p = Top.cell /\ i = Top.next /\ c = Child
    OBVIOUS
  <2> HIDE DEF p, i, c
  <2> QED
    BY <2>1, <1>5, VisitBlack
<1>6. CASE Top.op = "scan"
  BY <1>6, ScanVisit
<1>7. CASE Top.op = "white" /\ c \notin Acyclic
  BY <1>7, WhiteVisit
<1>8. CASE Top.op = "dispose" \/ (Top.op = "white" /\ c \in Acyclic)
  BY <1>8, VisitRelease
<1> QED
  BY <1>1, <1>3, <1>4, <1>5, <1>6, <1>7, <1>8 DEF Ops

\* A call in progress takes a step.
LEMMA CallsStep == ASSUME CollectorInv, NoSaturation, CallStep PROVE CollectorInv'
BY VisitStep, FreedStep, ReturnStep, FreeStep DEF CallStep

\* The collector, or a finalizer, takes a step.
LEMMA CollectorsStep == ASSUME CollectorInv, NoSaturation, CollectorStep PROVE CollectorInv'
BY CallsStep, ProcessRootStep, NextPhaseStep, EndPassStep DEF CollectorStep

(* The operations of the program, on a quiet heap.                          *)

\* What a quiet heap's counts say.
LEMMA PlainFacts ==
  ASSUME PlainInv
  PROVE  /\ \A c \in Cells : Cardinality(Plain(kids, c)) \in Nat /\ handles[c] \in Nat
         /\ \A p \in Cells : \A i \in DOMAIN kids[p] : kids[p][i] \in live /\ Cardinality(Plain(kids, kids[p][i])) > 0
         /\ \A c \in Cells : handles[c] > 0 => c \in live
         /\ \A c \in live : hdr[c].rc = 0 => (handles[c] = 0 /\ \A p \in Cells : \A i \in DOMAIN kids[p] : kids[p][i] # c)
<1>0. HeapTypeOK /\ PlainCounts
  BY DEF PlainInv
<1>1. kids \in [Cells -> Seq(Cells)] /\ handles \in [Cells -> Nat] /\ live \subseteq Cells
  BY <1>0, HeapTyped
<1>2. \A c : IsFiniteSet(Plain(kids, c)) /\ Cardinality(Plain(kids, c)) \in Nat
  <2> TAKE c
  <2>1. Plain(kids, c) \subseteq SlotsIn(kids)
    BY DEF Plain
  <2> QED
    BY <2>1, <1>1, SlotsIs, FS_Subset, FS_CardinalityType
<1>3. ASSUME NEW p \in Cells, NEW i \in DOMAIN kids[p]
      PROVE  kids[p][i] \in Cells /\ Cardinality(Plain(kids, kids[p][i])) > 0
  <2>1. <<p, i>> \in SlotsIn(kids) /\ <<p, i>>[1] = p /\ <<p, i>>[2] = i
    BY <1>1, SlotsIs
  <2>2. <<p, i>> \in Plain(kids, kids[p][i])
    BY <2>1 DEF Plain
  <2> DEFINE A == Plain(kids, kids[p][i])
  <2>3. IsFiniteSet(A) /\ Cardinality(A) \in Nat /\ A # {}
    BY <2>2, <1>2
  <2> HIDE DEF A
  <2>4. Cardinality(A) # 0
    BY <2>3, FS_EmptySet
  <2> QED
    BY <2>3, <2>4, <1>0, KidsType DEF A
<1>4. \A c \in Cells : handles[c] \in Nat
  BY <1>1
<1>5. \A p \in Cells : \A i \in DOMAIN kids[p] : kids[p][i] \in live
  <2> SUFFICES ASSUME NEW p \in Cells, NEW i \in DOMAIN kids[p], kids[p][i] \notin live PROVE FALSE
    OBVIOUS
  <2> DEFINE c == kids[p][i]
  <2>1. c \in Cells /\ Cardinality(Plain(kids, c)) > 0 /\ c \notin live
    BY <1>3
  <2> HIDE DEF c
  <2>2. handles[c] + Cardinality(Plain(kids, c)) = 0
    BY <2>1, <1>0 DEF PlainCounts
  <2>3. handles[c] \in Nat /\ Cardinality(Plain(kids, c)) \in Nat
    BY <2>1, <1>2, <1>4
  <2> QED
    BY <2>1, <2>2, <2>3
<1>6. \A c \in Cells : handles[c] > 0 => c \in live
  BY <1>0, <1>2, <1>4 DEF PlainCounts
<1>7. ASSUME NEW c \in live, hdr[c].rc = 0
      PROVE  handles[c] = 0 /\ \A p \in Cells : \A i \in DOMAIN kids[p] : kids[p][i] # c
  <2>1. handles[c] + Cardinality(Plain(kids, c)) = 0
    BY <1>0, <1>1, <1>7 DEF PlainCounts
  <2>2. handles[c] = 0 /\ Cardinality(Plain(kids, c)) = 0
    BY <2>1, <1>1, <1>2, <1>4
  <2> QED
    BY <2>2, <1>3
<1> QED
  BY <1>2, <1>3, <1>4, <1>5, <1>6, <1>7

\* Nothing saturates.
LEMMA PlainBound ==
  ASSUME PlainInv, NoSaturation, NEW c \in live
  PROVE  hdr[c].rc < RCMax /\ hdr[c].rc \in Nat
<1>0. HeapTypeOK /\ PlainCounts /\ Bounded
  BY DEF PlainInv
<1>1. kids \in [Cells -> Seq(Cells)] /\ handles \in [Cells -> Nat] /\ c \in Cells
  BY <1>0, HeapTyped
<1>2. Plain(kids, c) \subseteq SlotsIn(kids)
  BY DEF Plain
<1>3. /\ Cardinality(Plain(kids, c)) <= Cardinality(SlotsIn(kids))
      /\ Cardinality(Plain(kids, c)) \in Nat /\ Cardinality(SlotsIn(kids)) \in Nat
  BY <1>1, <1>2, SlotsIs, FS_Subset, FS_CardinalityType
<1>4. SumOf(handles) \in Nat /\ handles[c] <= SumOf(handles) /\ handles[c] \in Nat
  BY <1>1, SumAtLeast, HeapAssumption
<1>5. hdr[c].rc = handles[c] + Cardinality(Plain(kids, c))
  BY <1>0, <1>1 DEF PlainCounts
<1> QED
  BY <1>0, <1>3, <1>4, <1>5, HeapAssumption DEF Bounded, NoSaturation

\* What the program can reach is referenced, and live.
LEMMA ReachedIs ==
  ASSUME PlainInv, NEW c \in Reachable
  PROVE  c \in Cells /\ c \in live /\ hdr[c].rc > 0
<1>0. HeapTypeOK
  BY DEF PlainInv
<1>1. kids \in [Cells -> Seq(Cells)] /\ live \subseteq Cells
  BY <1>0, HeapTyped
<1>2. c \in Cells /\ \A Z \in SUBSET Cells : {x \in Cells : handles[x] > 0} \subseteq Z /\ Closed(Z) => c \in Z
  BY DEF Reachable, ReachableFrom
<1>3. \A p \in Cells : Range(kids[p]) = {kids[p][i] : i \in DOMAIN kids[p]}
  BY DEF Range
<1>4. handles[c] > 0 \/ \E p \in Cells : \E i \in DOMAIN kids[p] : kids[p][i] = c
  <2> SUFFICES ASSUME ~(handles[c] > 0), \A p \in Cells : \A i \in DOMAIN kids[p] : kids[p][i] # c PROVE FALSE
    OBVIOUS
  <2> DEFINE Z == Cells \ {c}
  <2>1. {x \in Cells : handles[x] > 0} \subseteq Z
    OBVIOUS
  <2>2. Closed(Z)
    <3> SUFFICES ASSUME NEW x \in Z, NEW y \in Range(kids[x]) PROVE y \in Z
      BY DEF Closed, Successors
    <3>1. PICK i \in DOMAIN kids[x] : y = kids[x][i]
      BY DEF Range
    <3>2. y # c /\ y \in Cells
      BY <3>1, <1>0, KidsType
    <3> QED
      BY <3>2
  <2> QED
    BY <2>1, <2>2, <1>2
<1>5. c \in live
  BY <1>4, <1>2, PlainFacts
<1>6. hdr[c].rc # 0
  BY <1>4, <1>5, PlainFacts
<1>7. hdr[c].rc \in Nat
  BY <1>0, <1>2, HeaderType
<1> QED
  BY <1>2, <1>5, <1>6, <1>7

\* A cell is allocated.
LEMMA NewStep == ASSUME PlainInv, NEW c \in Cells, New(c) PROVE PlainInv'
<1>0. /\ phase = "idle" /\ stack = <<>> /\ work = <<>>
      /\ HeapTypeOK /\ Bounded /\ DeadBlank /\ Leaves
      /\ Range(cand) = Buffered /\ IsInjective(cand)
      /\ PlainCounts /\ PlainColors /\ (isolate # "gone" => PlainRoots)
  BY DEF PlainInv
<1>1. /\ c \notin live /\ SumOf(handles) < MaxHandles
      /\ live' = live \cup {c} /\ hdr' = [hdr EXCEPT ![c] = Newborn(c)]
      /\ handles' = [handles EXCEPT ![c] = 1]
      /\ kids' = kids /\ cand' = cand /\ attached' = attached /\ phase' = phase /\ work' = work /\ kept' = kept
      /\ deferred' = deferred /\ stack' = stack /\ isolate' = isolate /\ passes' = passes /\ before' = before
      /\ ub' = ub /\ lost' = lost
  BY DEF New, pass, ending
<1>2. /\ live \subseteq Cells /\ kids \in [Cells -> Seq(Cells)] /\ handles \in [Cells -> Nat]
      /\ hdr \in [Cells -> [rc : 0..RCMax, color : Colors, buffered : BOOLEAN]]
  BY <1>0, HeapTyped
<1>3. /\ Newborn(c) \in [rc : 0..RCMax, color : Colors, buffered : BOOLEAN]
      /\ Newborn(c).rc = 1 /\ ~Newborn(c).buffered
      /\ c \in Acyclic => Newborn(c).color = "green"
      /\ c \notin Acyclic => Newborn(c).color = "black"
  <2>1. 1 \in 0..RCMax
    BY HeapAssumption
  <2> QED
    BY <2>1 DEF Newborn, Colors
<1>4. /\ hdr' \in [Cells -> [rc : 0..RCMax, color : Colors, buffered : BOOLEAN]] /\ hdr'[c] = Newborn(c)
      /\ \A x \in Cells : x # c => hdr'[x] = hdr[x]
      /\ handles' \in [Cells -> Nat] /\ handles'[c] = 1 /\ \A x \in Cells : x # c => handles'[x] = handles[x]
  BY <1>1, <1>2, <1>3
<1>5. handles[c] = 0 /\ Cardinality(Plain(kids, c)) = 0
  <2>1. handles[c] + Cardinality(Plain(kids, c)) = 0
    BY <1>0, <1>1 DEF PlainCounts
  <2> QED
    BY <2>1, PlainFacts
<1>6. HeapTypeOK'
  BY <1>0, <1>1, <1>4 DEF HeapTypeOK
<1>7. Bounded'
  <2> DEFINE g == handles'
  <2>1. g \in [Cells -> Nat] /\ g[c] = 1 /\ (\A x \in Cells : x # c => g[x] = handles[x]) /\ IsFiniteSet(Cells) /\ handles \in [Cells -> Nat]
    BY <1>2, <1>4, HeapAssumption
  <2> HIDE DEF g
  <2>2. SumOf(handles) \in Nat /\ SumOf(g) = SumOf(handles) - handles[c] + g[c]
    BY <2>1, SumChange
  <2>3. SumOf(g) <= MaxHandles
    BY <2>1, <2>2, <1>1, <1>5, HeapAssumption
  <2> QED
    BY <2>3, <1>0, <1>1 DEF Bounded, g
<1>8. DeadBlank'
  BY <1>0, <1>1, <1>4 DEF DeadBlank
<1>9. Leaves'
  BY <1>0, <1>1, <1>3, <1>4, HeapAssumption DEF Leaves
<1>10. Buffered' = Buffered
  BY <1>1, <1>2, <1>3, <1>4 DEF Buffered
<1>11. PlainCounts'
  <2> SUFFICES ASSUME NEW x \in Cells
               PROVE  IF x \in live' THEN hdr'[x].rc = handles'[x] + Cardinality(Plain(kids, x))
                      ELSE handles'[x] + Cardinality(Plain(kids, x)) = 0
    BY <1>1 DEF PlainCounts
  <2>1. CASE x = c
    BY <2>1, <1>1, <1>3, <1>4, <1>5
  <2>2. CASE x # c
    BY <2>2, <1>0, <1>1, <1>4 DEF PlainCounts
  <2> QED
    BY <2>1, <2>2
<1>12. PlainColors'
  BY <1>0, <1>1, <1>2, <1>3, <1>4 DEF PlainColors
<1>13. ASSUME isolate # "gone" PROVE PlainRoots'
  <2>1. PlainRoots
    BY <1>0, <1>13
  <2> DEFINE Z == live \ Acyclic
             S == Grounds
             T == Grounds'
  <2>2. Covered(kids, Z, S)
    BY <2>1 DEF PlainRoots
  <2>3. S \subseteq T /\ c \in T
    BY <1>1, <1>4, <1>5 DEF Grounds
  <2> HIDE DEF Z, S, T
  <2>4. Covered(kids, Z \cup {c}, T)
    BY <2>2, <2>3, CoverAdd
  <2>5. Covered(kids, Z, T)
    BY <2>2, <2>3, CoverStep
  <2>6. live' \ Acyclic = Z \/ live' \ Acyclic = Z \cup {c}
    BY <1>1 DEF Z
  <2>7. Covered(kids', live' \ Acyclic, Grounds')
    BY <2>4, <2>5, <2>6, <1>1 DEF T
  <2>8. \A x \in live' : (x \in live /\ hdr'[x] = hdr[x]) \/ (x = c /\ hdr'[x].rc = 1 /\ ~hdr'[x].buffered /\ hdr'[x].color # "purple")
    BY <1>1, <1>2, <1>3, <1>4
  <2> QED
    BY <2>1, <2>7, <2>8 DEF PlainRoots
<1> QED
  BY <1>0, <1>1, <1>6, <1>7, <1>8, <1>9, <1>10, <1>11, <1>12, <1>13 DEF PlainInv

\* What retaining a cell leaves alone.
Taking(c) ==
    /\ live' = live /\ attached' = attached /\ phase' = phase /\ work' = work /\ kept' = kept /\ deferred' = deferred
    /\ isolate' = isolate /\ passes' = passes /\ before' = before /\ ub' = ub
    /\ kids' \in [Cells -> Seq(Cells)] /\ handles' \in [Cells -> Nat] /\ Bounded'
    /\ \A x \in Cells : handles[x] > 0 => handles'[x] > 0
    /\ \A x \in Cells : x \notin live => handles'[x] = handles[x] /\ kids'[x] = kids[x]
    /\ \A x \in Acyclic : kids'[x] = kids[x]
    /\ \A p \in Cells : \A i \in DOMAIN kids[p] : i \in DOMAIN kids'[p] /\ kids'[p][i] = kids[p][i]
    /\ \A x \in Cells : handles'[x] + Cardinality(Plain(kids', x)) = handles[x] + Cardinality(Plain(kids, x)) + (IF x = c THEN 1 ELSE 0)

\* A cell has one more reference.
LEMMA RetainStep ==
  ASSUME PlainInv, NoSaturation, NEW c \in live, hdr[c].rc > 0, Become(Retain(Machine, c)), Taking(c)
  PROVE  PlainInv'
<1>0. /\ phase = "idle" /\ stack = <<>> /\ work = <<>>
      /\ HeapTypeOK /\ Bounded /\ DeadBlank /\ Leaves
      /\ Range(cand) = Buffered /\ IsInjective(cand)
      /\ PlainCounts /\ PlainColors /\ (isolate # "gone" => PlainRoots)
  BY DEF PlainInv
<1>1. /\ live' = live /\ attached' = attached /\ phase' = phase /\ work' = work /\ kept' = kept /\ deferred' = deferred
      /\ isolate' = isolate /\ passes' = passes /\ before' = before /\ ub' = ub
      /\ kids' \in [Cells -> Seq(Cells)] /\ handles' \in [Cells -> Nat] /\ Bounded'
      /\ \A x \in Cells : handles[x] > 0 => handles'[x] > 0
      /\ \A x \in Cells : x \notin live => handles'[x] = handles[x] /\ kids'[x] = kids[x]
      /\ \A x \in Acyclic : kids'[x] = kids[x]
      /\ \A p \in Cells : \A i \in DOMAIN kids[p] : i \in DOMAIN kids'[p] /\ kids'[p][i] = kids[p][i]
  BY DEF Taking
<1>2. \A x \in Cells : handles'[x] + Cardinality(Plain(kids', x)) = handles[x] + Cardinality(Plain(kids, x)) + (IF x = c THEN 1 ELSE 0)
  BY DEF Taking
<1>3. live \subseteq Cells /\ c \in Cells
  BY <1>0, HeapTyped
<1>4. hdr[c].rc < RCMax /\ hdr[c].rc \in Nat
  BY PlainBound
<1>5. Effect(stack, c, "none", hdr[c].rc + 1, hdr[c].color, hdr[c].buffered) /\ Unlisted
  BY <1>0, <1>3, <1>4, RetainTable
<1>6. stack' = stack /\ cand' = cand /\ lost' = lost
  BY <1>5 DEF Effect, Unlisted
<1>7. /\ hdr' \in [Cells -> [rc : 0..RCMax, color : Colors, buffered : BOOLEAN]]
      /\ \A x \in Cells : x # c => hdr'[x] = hdr[x]
      /\ hdr'[c].rc = hdr[c].rc + 1 /\ hdr'[c].color = hdr[c].color /\ (hdr'[c].buffered <=> hdr[c].buffered)
  <2> DEFINE r == hdr[c].rc + 1
             k == hdr[c].color
             b == hdr[c].buffered
  <2>1. r \in 0..RCMax /\ k \in Colors /\ b \in BOOLEAN
    <3>1. k \in Colors /\ b \in BOOLEAN
      BY <1>0, <1>3, HeaderType
    <3>2. r \in 0..RCMax
      BY <1>4, HeapAssumption
    <3> QED
      BY <3>1, <3>2
  <2>2. hdr' = Put(hdr, c, r, k, b)
    BY <1>5 DEF Effect
  <2> HIDE DEF r, k, b
  <2>3. /\ hdr' \in [Cells -> [rc : 0..RCMax, color : Colors, buffered : BOOLEAN]]
        /\ \A x \in Cells : x # c => hdr'[x] = hdr[x]
        /\ hdr'[c].rc = r /\ hdr'[c].color = k /\ (hdr'[c].buffered <=> b)
    BY <2>1, <2>2, <1>0, <1>3, PutFields
  <2> QED
    BY <2>3 DEF r, k, b
<1>8. HeapTypeOK'
  BY <1>0, <1>1, <1>6, <1>7 DEF HeapTypeOK
<1>9. \A x \in Cells : hdr'[x].color = hdr[x].color /\ (hdr'[x].buffered <=> hdr[x].buffered)
  BY <1>7
<1>10. DeadBlank' /\ Buffered' = Buffered
  <2>1. DeadBlank'
    BY <1>0, <1>1, <1>7 DEF DeadBlank
  <2>2. Buffered' = Buffered
    BY <1>1, <1>3, <1>9 DEF Buffered
  <2> QED
    BY <2>1, <2>2
<1>11. Leaves'
  BY <1>0, <1>1, <1>6, <1>9, HeapAssumption DEF Leaves
<1>12. PlainCounts'
  <2> SUFFICES ASSUME NEW x \in Cells
               PROVE  IF x \in live THEN hdr'[x].rc = handles'[x] + Cardinality(Plain(kids', x))
                      ELSE handles'[x] + Cardinality(Plain(kids', x)) = 0
    BY <1>1 DEF PlainCounts
  <2>1. IF x \in live THEN hdr[x].rc = handles[x] + Cardinality(Plain(kids, x))
        ELSE handles[x] + Cardinality(Plain(kids, x)) = 0
    BY <1>0 DEF PlainCounts
  <2>2. Cardinality(Plain(kids, x)) \in Nat /\ handles[x] \in Nat
    BY PlainFacts
  <2>3. CASE x = c
    BY <2>1, <2>2, <2>3, <1>2, <1>7
  <2>4. CASE x # c
    BY <2>1, <2>2, <2>4, <1>2, <1>7
  <2> QED
    BY <2>3, <2>4
<1>13. PlainColors'
  BY <1>0, <1>1, <1>3, <1>9 DEF PlainColors
<1>14. ASSUME isolate # "gone" PROVE PlainRoots'
  <2>1. PlainRoots
    BY <1>0, <1>14
  <2> DEFINE Z == live \ Acyclic
             S == Grounds
             T == Grounds'
  <2>2. Covered(kids, Z, S) /\ Z \subseteq Cells
    BY <2>1, <1>3 DEF PlainRoots
  <2>3. S \subseteq T
    BY <1>1, <1>6 DEF Grounds
  <2> HIDE DEF Z, S, T
  <2>4. \A p \in Z : \A i \in DOMAIN kids[p] : kids[p][i] \in Z => \E j \in DOMAIN kids'[p] : kids'[p][j] = kids[p][i]
    BY <2>2, <1>1
  <2>5. Covered(kids', Z, T)
    BY <2>2, <2>3, <2>4, CoverStep
  <2>6. Covered(kids', live' \ Acyclic, Grounds')
    BY <2>5, <1>1 DEF Z, T
  <2>7. \A x \in live : x # c => hdr'[x] = hdr[x]
    BY <1>3, <1>7
  <2>8. hdr'[c].rc > 0
    BY <1>4, <1>7
  <2>9. c \notin Acyclic => /\ hdr'[c].color = "purple" => hdr'[c].buffered /\ hdr'[c].rc > 0
                            /\ hdr'[c].buffered => hdr'[c].color = "purple"
    BY <2>1, <2>8, <1>9, <1>3 DEF PlainRoots
  <2> QED
    BY <2>1, <2>6, <2>7, <2>8, <2>9, <1>1 DEF PlainRoots
<1> QED
  BY <1>0, <1>1, <1>6, <1>8, <1>10, <1>11, <1>12, <1>13, <1>14 DEF PlainInv

\* A reference is copied into a handle.
LEMMA HoldStep == ASSUME PlainInv, NoSaturation, NEW c \in Cells, Hold(c) PROVE PlainInv'
<1>0. HeapTypeOK /\ Bounded
  BY DEF PlainInv
<1>1. /\ c \in Reachable /\ SumOf(handles) < MaxHandles /\ Become(Retain(Machine, c))
      /\ handles' = [handles EXCEPT ![c] = @ + 1]
      /\ live' = live /\ kids' = kids /\ attached' = attached /\ phase' = phase /\ work' = work /\ kept' = kept
      /\ deferred' = deferred /\ isolate' = isolate /\ passes' = passes /\ before' = before /\ ub' = ub
  BY DEF Hold, heap, pass, ending
<1>2. c \in live /\ hdr[c].rc > 0
  BY <1>1, ReachedIs
<1>3. kids \in [Cells -> Seq(Cells)] /\ handles \in [Cells -> Nat] /\ handles[c] \in Nat
  BY <1>0, HeapTyped
<1>4. handles' \in [Cells -> Nat] /\ handles'[c] = handles[c] + 1 /\ \A x \in Cells : x # c => handles'[x] = handles[x]
  BY <1>1, <1>3
<1>5. Bounded'
  <2> DEFINE g == handles'
  <2>1. g \in [Cells -> Nat] /\ g[c] = handles[c] + 1 /\ (\A x \in Cells : x # c => g[x] = handles[x]) /\ IsFiniteSet(Cells) /\ handles \in [Cells -> Nat]
    BY <1>3, <1>4, HeapAssumption
  <2> HIDE DEF g
  <2>2. SumOf(handles) \in Nat /\ SumOf(g) = SumOf(handles) - handles[c] + g[c]
    BY <2>1, SumChange
  <2>3. SumOf(g) <= MaxHandles
    BY <2>1, <2>2, <1>1, <1>3, HeapAssumption
  <2> QED
    BY <2>3, <1>0, <1>1 DEF Bounded, g
<1>6. \A x \in Cells : handles'[x] + Cardinality(Plain(kids', x)) = handles[x] + Cardinality(Plain(kids, x)) + (IF x = c THEN 1 ELSE 0)
  <2> TAKE x \in Cells
  <2>1. Cardinality(Plain(kids, x)) \in Nat /\ handles[x] \in Nat /\ kids' = kids
    BY <1>1, PlainFacts
  <2> QED
    BY <2>1, <1>4
<1>7. \A x \in Cells : handles[x] > 0 => handles'[x] > 0
  <2> SUFFICES ASSUME NEW x \in Cells, handles[x] > 0 PROVE handles'[x] > 0
    OBVIOUS
  <2>1. CASE x = c
    BY <2>1, <1>3, <1>4
  <2>2. CASE x # c
    BY <2>2, <1>4
  <2> QED
    BY <2>1, <2>2
<1>8. Taking(c)
  BY <1>1, <1>2, <1>3, <1>4, <1>5, <1>6, <1>7 DEF Taking
<1> QED
  BY <1>1, <1>2, <1>8, RetainStep

\* A reference is added to a cell.
LEMMA AddSlot ==
  ASSUME NEW k \in Edging, NEW p \in Cells, NEW c \in Cells, NEW k2 \in Edging, k2[p] = Append(k[p], c), \A q \in Cells : q # p => k2[q] = k[q]
  PROVE  /\ \A q \in Cells : \A i \in DOMAIN k[q] : i \in DOMAIN k2[q] /\ k2[q][i] = k[q][i]
         /\ Cardinality(SlotsIn(k)) \in Nat /\ Cardinality(SlotsIn(k2)) = Cardinality(SlotsIn(k)) + 1
         /\ \A x : Cardinality(Plain(k, x)) \in Nat
         /\ \A x : Cardinality(Plain(k2, x)) = Cardinality(Plain(k, x)) + (IF x = c THEN 1 ELSE 0)
<1> DEFINE n == Len(k[p])
           e == <<p, n + 1>>
<1>1. k \in [Cells -> Seq(Cells)] /\ k2 \in [Cells -> Seq(Cells)] /\ k[p] \in Seq(Cells)
  BY DEF Edging
<1>2. /\ DOMAIN k[p] = 1..n /\ n \in Nat /\ DOMAIN k2[p] = 1..(n + 1)
      /\ (\A j \in 1..n : k2[p][j] = k[p][j]) /\ k2[p][n + 1] = c
  <2> DEFINE q == k[p]
  <2>1. q \in Seq(Cells)
    BY <1>1
  <2> HIDE DEF q
  <2>2. /\ DOMAIN q = 1..Len(q) /\ Len(q) \in Nat /\ DOMAIN Append(q, c) = 1..(Len(q) + 1)
        /\ (\A j \in DOMAIN q : Append(q, c)[j] = q[j]) /\ Append(q, c)[Len(q) + 1] = c
    BY <2>1, AppendOf
  <2> QED
    BY <2>2 DEF q, n
<1> HIDE DEF n
<1>3. \A q \in Cells : \A i \in DOMAIN k[q] : i \in DOMAIN k2[q] /\ k2[q][i] = k[q][i]
  <2> SUFFICES ASSUME NEW q \in Cells, NEW i \in DOMAIN k[q] PROVE i \in DOMAIN k2[q] /\ k2[q][i] = k[q][i]
    OBVIOUS
  <2>1. CASE q = p
    <3>1. i \in 1..n /\ i \in 1..(n + 1)
      BY <2>1, <1>2
    <3> QED
      BY <3>1, <2>1, <1>2
  <2>2. CASE q # p
    <3>1. k2[q] = k[q]
      BY <2>2
    <3> QED
      BY <3>1
  <2> QED
    BY <2>1, <2>2
<1>4. /\ IsFiniteSet(SlotsIn(k)) /\ IsFiniteSet(SlotsIn(k2))
      /\ \A q, i : <<q, i>> \in SlotsIn(k) <=> q \in Cells /\ i \in DOMAIN k[q]
      /\ \A d \in SlotsIn(k) : d = <<d[1], d[2]>> /\ d[1] \in Cells /\ d[2] \in DOMAIN k[d[1]]
      /\ \A q, i : <<q, i>> \in SlotsIn(k2) <=> q \in Cells /\ i \in DOMAIN k2[q]
      /\ \A d \in SlotsIn(k2) : d = <<d[1], d[2]>> /\ d[1] \in Cells /\ d[2] \in DOMAIN k2[d[1]]
  BY <1>1, SlotsIs
<1>5. e \notin SlotsIn(k) /\ e \in SlotsIn(k2) /\ e[1] = p /\ e[2] = n + 1
  BY <1>2, <1>4
<1>6. \A d \in SlotsIn(k) : d \in SlotsIn(k2) /\ d # e /\ k2[d[1]][d[2]] = k[d[1]][d[2]]
  <2> SUFFICES ASSUME NEW d \in SlotsIn(k) PROVE d \in SlotsIn(k2) /\ d # e /\ k2[d[1]][d[2]] = k[d[1]][d[2]]
    OBVIOUS
  <2>1. d = <<d[1], d[2]>> /\ d[1] \in Cells /\ d[2] \in DOMAIN k2[d[1]] /\ k2[d[1]][d[2]] = k[d[1]][d[2]]
    BY <1>3, <1>4
  <2>2. <<d[1], d[2]>> \in SlotsIn(k2)
    BY <2>1, <1>4
  <2> QED
    BY <2>1, <2>2, <1>5
<1>7. \A d \in SlotsIn(k2) : d # e => d \in SlotsIn(k)
  <2> SUFFICES ASSUME NEW d \in SlotsIn(k2), d # e PROVE d \in SlotsIn(k)
    OBVIOUS
  <2>1. d = <<d[1], d[2]>> /\ d[1] \in Cells /\ d[2] \in DOMAIN k2[d[1]]
    BY <1>4
  <2>2. d[2] \in DOMAIN k[d[1]]
    BY <2>1, <1>2
  <2>3. <<d[1], d[2]>> \in SlotsIn(k)
    BY <2>1, <2>2, <1>4
  <2> QED
    BY <2>1, <2>3
<1>8. SlotsIn(k2) = SlotsIn(k) \cup {e}
  BY <1>5, <1>6, <1>7
<1>9. Cardinality(SlotsIn(k)) \in Nat /\ Cardinality(SlotsIn(k2)) = Cardinality(SlotsIn(k)) + 1
  BY <1>4, <1>5, <1>8, FS_AddElement, FS_CardinalityType, SMTT(60)
<1>10. ASSUME NEW x
       PROVE  Cardinality(Plain(k, x)) \in Nat /\ Cardinality(Plain(k2, x)) = Cardinality(Plain(k, x)) + (IF x = c THEN 1 ELSE 0)
  <2>1. Plain(k, x) \subseteq SlotsIn(k)
    BY DEF Plain
  <2>2. IsFiniteSet(Plain(k, x)) /\ Cardinality(Plain(k, x)) \in Nat /\ e \notin Plain(k, x)
    BY <2>1, <1>4, <1>5, FS_Subset, FS_CardinalityType
  <2>3. CASE x = c
    <3>1. Plain(k2, x) = Plain(k, x) \cup {e}
      BY <2>3, <1>2, <1>5, <1>6, <1>7 DEF Plain
    <3>2. Cardinality(Plain(k, x) \cup {e}) = Cardinality(Plain(k, x)) + 1
      BY <2>2, FS_AddElement
    <3> QED
      BY <3>1, <3>2, <2>2, <2>3
  <2>4. CASE x # c
    <3>1. Plain(k2, x) = Plain(k, x)
      BY <2>4, <1>2, <1>5, <1>6, <1>7 DEF Plain
    <3> QED
      BY <3>1, <2>2, <2>4
  <2> QED
    BY <2>3, <2>4
<1> QED
  BY <1>3, <1>9, <1>10

\* A reference is stored in a cell.
LEMMA StoreStep == ASSUME PlainInv, NoSaturation, NEW p \in Cells, NEW c \in Cells, Store(p, c) PROVE PlainInv'
<1>0. HeapTypeOK /\ Bounded
  BY DEF PlainInv
<1>1. /\ handles[p] > 0 /\ handles[c] > 0 /\ p \notin Acyclic /\ Edges < MaxEdges /\ Become(Retain(Machine, c))
      /\ kids' = [kids EXCEPT ![p] = Append(@, c)]
      /\ live' = live /\ handles' = handles /\ attached' = attached /\ phase' = phase /\ work' = work /\ kept' = kept
      /\ deferred' = deferred /\ isolate' = isolate /\ passes' = passes /\ before' = before /\ ub' = ub
  BY DEF Store, Held, pass, ending
<1>2. c \in live /\ p \in live /\ hdr[c].rc # 0
  BY <1>1, PlainFacts
<1>3. kids \in [Cells -> Seq(Cells)] /\ handles \in [Cells -> Nat] /\ hdr[c].rc > 0
  BY <1>0, <1>2, HeapTyped, HeaderType
<1>4. /\ kids' \in [Cells -> Seq(Cells)] /\ kids'[p] = Append(kids[p], c) /\ \A q \in Cells : q # p => kids'[q] = kids[q]
  <2>1. Append(kids[p], c) \in Seq(Cells)
    BY <1>3
  <2> QED
    BY <2>1, <1>1, <1>3
<1>5. /\ \A q \in Cells : \A i \in DOMAIN kids[q] : i \in DOMAIN kids'[q] /\ kids'[q][i] = kids[q][i]
      /\ Cardinality(SlotsIn(kids)) \in Nat /\ Cardinality(SlotsIn(kids')) = Cardinality(SlotsIn(kids)) + 1
      /\ \A x : Cardinality(Plain(kids, x)) \in Nat
      /\ \A x : Cardinality(Plain(kids', x)) = Cardinality(Plain(kids, x)) + (IF x = c THEN 1 ELSE 0)
  <2> DEFINE k2 == kids'
  <2>1. kids \in Edging /\ k2 \in Edging /\ k2[p] = Append(kids[p], c) /\ \A q \in Cells : q # p => k2[q] = kids[q]
    BY <1>3, <1>4 DEF Edging
  <2> HIDE DEF k2
  <2>2. /\ \A q \in Cells : \A i \in DOMAIN kids[q] : i \in DOMAIN k2[q] /\ k2[q][i] = kids[q][i]
        /\ Cardinality(SlotsIn(kids)) \in Nat /\ Cardinality(SlotsIn(k2)) = Cardinality(SlotsIn(kids)) + 1
    BY <2>1, AddSlot
  <2>3. /\ \A x : Cardinality(Plain(kids, x)) \in Nat
        /\ \A x : Cardinality(Plain(k2, x)) = Cardinality(Plain(kids, x)) + (IF x = c THEN 1 ELSE 0)
    BY <2>1, AddSlot
  <2> QED
    BY <2>2, <2>3 DEF k2
<1>6. Bounded'
  <2>1. Edges = Cardinality(SlotsIn(kids))
    BY DEF Edges, Slots, SlotsIn
  <2> QED
    BY <2>1, <1>0, <1>1, <1>5, HeapAssumption DEF Bounded
<1>7. \A x \in Cells : handles'[x] + Cardinality(Plain(kids', x)) = handles[x] + Cardinality(Plain(kids, x)) + (IF x = c THEN 1 ELSE 0)
  <2> TAKE x \in Cells
  <2>1. Cardinality(Plain(kids, x)) \in Nat /\ handles[x] \in Nat /\ handles'[x] = handles[x]
    BY <1>1, <1>3, <1>5
  <2>2. Cardinality(Plain(kids', x)) = Cardinality(Plain(kids, x)) + (IF x = c THEN 1 ELSE 0)
    BY <1>5
  <2> QED
    BY <2>1, <2>2
<1>8. \A x \in Acyclic : x \in Cells /\ x # p
  BY <1>1, HeapAssumption
<1>9. Taking(c)
  BY <1>1, <1>2, <1>3, <1>4, <1>5, <1>6, <1>7, <1>8 DEF Taking
<1> QED
  BY <1>1, <1>2, <1>3, <1>9, RetainStep

\* The collector is installed or removed, and the Isolate begins its teardown.
LEMMA AttachStep == ASSUME PlainInv, Attach \/ Close PROVE PlainInv'
<1>1. /\ live' = live /\ kids' = kids /\ hdr' = hdr /\ handles' = handles /\ cand' = cand /\ attached' \in BOOLEAN
      /\ phase' = phase /\ work' = work /\ kept' = kept /\ deferred' = deferred /\ stack' = stack
      /\ isolate # "gone" /\ isolate' \in {"open", "closing"} /\ passes' = passes /\ before' = before /\ lost' = lost /\ ub' = ub
  BY DEF PlainInv, HeapTypeOK, Attach, Close, Running, heap, pass, ending
<1>2. /\ phase = "idle" /\ stack = <<>> /\ work = <<>>
      /\ HeapTypeOK /\ Bounded /\ DeadBlank /\ Leaves
      /\ Range(cand) = Buffered /\ IsInjective(cand)
      /\ PlainCounts /\ PlainColors /\ PlainRoots
  BY <1>1 DEF PlainInv
<1>3. HeapTypeOK'
  BY <1>1, <1>2 DEF HeapTypeOK
<1>4. (Bounded /\ DeadBlank /\ Leaves /\ PlainCounts /\ PlainColors)' /\ Buffered' = Buffered
  BY <1>1, <1>2 DEF Bounded, DeadBlank, Leaves, PlainCounts, PlainColors, Buffered
<1>5. PlainRoots'
  BY <1>1, <1>2 DEF PlainRoots, Grounds
<1> QED
  BY <1>1, <1>2, <1>3, <1>4, <1>5 DEF PlainInv

\* ~CycleCollector: what had a slot has no flag any more.
LEMMA DestroyStep == ASSUME PlainInv, Destroy PROVE PlainInv'
<1>1. /\ hdr' = [c \in Cells |-> [hdr[c] EXCEPT !.buffered = @ /\ c \notin Range(cand)]] /\ cand' = <<>>
      /\ isolate' = "gone" /\ attached' = FALSE
      /\ live' = live /\ kids' = kids /\ handles' = handles
      /\ phase' = phase /\ work' = work /\ kept' = kept /\ deferred' = deferred /\ stack' = stack
      /\ passes' = passes /\ before' = before /\ lost' = lost /\ ub' = ub
  BY DEF Destroy, heap, pass
<1>2. /\ phase = "idle" /\ stack = <<>> /\ work = <<>>
      /\ HeapTypeOK /\ Bounded /\ DeadBlank /\ Leaves
      /\ Range(cand) = Buffered /\ IsInjective(cand)
      /\ PlainCounts /\ PlainColors
  BY DEF PlainInv
<1>3. hdr \in [Cells -> [rc : 0..RCMax, color : Colors, buffered : BOOLEAN]] /\ live \subseteq Cells
  BY <1>2, HeapTyped
<1>4. /\ hdr' \in [Cells -> [rc : 0..RCMax, color : Colors, buffered : BOOLEAN]]
      /\ \A x \in Cells : /\ hdr'[x].rc = hdr[x].rc /\ hdr'[x].color = hdr[x].color
                          /\ hdr'[x].buffered <=> (hdr[x].buffered /\ x \notin Range(cand))
  <2>1. ASSUME NEW x \in Cells
        PROVE  /\ hdr'[x] \in [rc : 0..RCMax, color : Colors, buffered : BOOLEAN]
               /\ hdr'[x].rc = hdr[x].rc /\ hdr'[x].color = hdr[x].color
               /\ hdr'[x].buffered <=> (hdr[x].buffered /\ x \notin Range(cand))
    <3> DEFINE y == (hdr[x].buffered /\ x \notin Range(cand))
    <3>1. hdr'[x] = [hdr[x] EXCEPT !.buffered = y]
      BY <1>1
    <3>2. hdr[x] \in [rc : 0..RCMax, color : Colors, buffered : BOOLEAN]
      BY <1>3
    <3>3. y \in BOOLEAN
      BY <3>2
    <3> HIDE DEF y
    <3>4. /\ hdr'[x] \in [rc : 0..RCMax, color : Colors, buffered : BOOLEAN]
          /\ hdr'[x].rc = hdr[x].rc /\ hdr'[x].color = hdr[x].color
          /\ (hdr'[x].buffered <=> y)
      BY <3>1, <3>2, <3>3
    <3> QED
      BY <3>4 DEF y
  <2> QED
    BY <2>1, <1>1
<1>5. HeapTypeOK'
  <2>1. <<>> \in Seq(Cells)
    OBVIOUS
  <2> QED
    BY <2>1, <1>1, <1>2, <1>4 DEF HeapTypeOK
<1>6. Buffered' = {} /\ Range(<<>>) = {}
  BY <1>1, <1>2, <1>3, <1>4 DEF Buffered, Range
<1>7. Bounded' /\ PlainCounts' /\ PlainColors'
  BY <1>1, <1>2, <1>3, <1>4 DEF Bounded, PlainCounts, PlainColors
<1>8. DeadBlank'
  <2> SUFFICES ASSUME NEW x \in Cells \ live PROVE hdr'[x] = Blank
    BY <1>1, <1>2 DEF DeadBlank
  <2>1. hdr[x] = Blank
    BY <1>2 DEF DeadBlank
  <2>2. hdr'[x].rc = 0 /\ hdr'[x].color = "black" /\ ~hdr'[x].buffered /\ hdr'[x] \in [rc : 0..RCMax, color : Colors, buffered : BOOLEAN]
    BY <2>1, <1>4 DEF Blank
  <2> QED
    BY <2>2 DEF Blank
<1>9. Leaves'
  BY <1>1, <1>2, <1>4, HeapAssumption DEF Leaves
<1>10. IsInjective(<<>>)
  BY DEF IsInjective
<1> QED
  BY <1>1, <1>2, <1>5, <1>6, <1>7, <1>8, <1>9, <1>10 DEF PlainInv

\* A collection begins: the candidates are its roots.
LEMMA BeginPassStep ==
  ASSUME PlainInv, Collect \/ StablePass
  PROVE  CollectorInv'
<1>1. /\ phase' = "mark" /\ work' = cand /\ cand' = <<>> /\ kept' = <<>> /\ deferred' = <<>>
      /\ live' = live /\ kids' = kids /\ hdr' = hdr /\ handles' = handles /\ attached' = attached /\ stack' = stack
      /\ isolate' = isolate /\ ub' = ub /\ lost' = lost /\ isolate # "gone"
      /\ passes' \in 0..StablePasses /\ before' \in Nat
  <2>1. /\ cand \in Seq(Cells) /\ passes \in 0..StablePasses /\ before \in Nat
    BY DEF PlainInv, HeapTypeOK
  <2>2. CASE Collect
    BY <2>1, <2>2 DEF Collect, BeginPass, Running, heap, ending
  <2>3. CASE StablePass
    <3>1. passes < StablePasses /\ passes' = passes + 1 /\ before' = Len(cand) /\ isolate = "closing"
      BY <2>3 DEF StablePass, GoesOn, RootsDropped
    <3>2. passes' \in 0..StablePasses
      BY <2>1, <3>1, HeapAssumption
    <3>3. before' \in Nat
      BY <2>1, <3>1, LenProperties
    <3> QED
      BY <2>3, <3>1, <3>2, <3>3 DEF StablePass, BeginPass, heap
  <2> QED
    BY <2>2, <2>3
<1>2. /\ phase = "idle" /\ stack = <<>> /\ work = <<>>
      /\ HeapTypeOK /\ Bounded /\ DeadBlank /\ Leaves
      /\ Range(cand) = Buffered /\ IsInjective(cand)
      /\ PlainCounts /\ PlainColors /\ PlainRoots
  BY <1>1 DEF PlainInv
<1>3. /\ live \subseteq Cells /\ kids \in [Cells -> Seq(Cells)] /\ cand \in Seq(Cells)
      /\ hdr \in [Cells -> [rc : 0..RCMax, color : Colors, buffered : BOOLEAN]]
  BY <1>2, HeapTyped
<1>4. HeapTypeOK'
  <2>1. <<>> \in Seq(Cells)
    OBVIOUS
  <2> QED
    BY <2>1, <1>1, <1>2, <1>3 DEF HeapTypeOK
<1>5. \A op, x : At(stack, op, x) = 0
  BY <1>2, AtEmpty
<1>6. \A op : Todo(kids, stack, op) = {}
  BY <1>5 DEF Todo, Ahead
<1>7. \A q \in Cells : \A j \in DOMAIN kids[q] : ~Out(kids, hdr, stack, q, j)
  <2> SUFFICES ASSUME NEW q \in Cells, NEW j \in DOMAIN kids[q] PROVE ~Out(kids, hdr, stack, q, j)
    OBVIOUS
  <2>1. j \in Nat
    BY <1>2, KidsType
  <2>2. hdr[q].color \notin {"gray", "white"}
    <3>1. q \in live /\ q \notin Acyclic
      BY <1>2 DEF DeadBlank, Leaves
    <3> QED
      BY <3>1, <1>2 DEF PlainColors
  <2> QED
    BY <2>1, <2>2, <1>5 DEF Out, Visited, Ahead
<1>8. Gray' = {} /\ White' = {} /\ Buffered' = Buffered
  BY <1>1, <1>2 DEF Leaves, PlainColors, Gray, White, Buffered
<1>9. Range(<<>>) = {} /\ IsInjective(<<>>) /\ Parked' = <<>>
  BY <1>1 DEF Range, IsInjective, Parked
<1>10. Stacked(stack', phase', live')
  BY <1>1, <1>2, StackedEmpty
<1>11. (Bounded /\ DeadBlank /\ Leaves)'
  BY <1>1, <1>2 DEF Bounded, DeadBlank, Leaves
<1>12. Colored'
  <2>1. \A c \in live' \ Acyclic : hdr'[c].color \in WorkColors'
    BY <1>1, <1>2 DEF PlainColors, WorkColors
  <2> QED
    BY <2>1, <1>1, <1>5 DEF Colored
<1>13. Enlisted'
  <2>1. Slotted' = cand
    BY <1>1 DEF Slotted
  <2> QED
    BY <2>1, <1>1, <1>2, <1>5, <1>8 DEF Enlisted
<1>14. ParkedAlone'
  <2>1. \A c \in Range(cand) : hdr[c].color = "black" => Untouched(kids, handles, stack, c)
    <3> SUFFICES ASSUME NEW c \in Range(cand), hdr[c].color = "black" PROVE Untouched(kids, handles, stack, c)
      OBVIOUS
    <3>1. c \in live /\ hdr[c].buffered
      BY <1>2 DEF Buffered
    <3>2. c \notin Acyclic
      BY <3>1, <1>2 DEF Leaves
    <3>3. hdr[c].rc = 0
      BY <3>1, <3>2, <1>2 DEF PlainRoots
    <3>4. handles[c] = 0 /\ \A p \in Cells : \A i \in DOMAIN kids[p] : kids[p][i] # c
      BY <3>1, <3>3, PlainFacts
    <3> QED
      BY <3>4, <1>5 DEF Untouched
  <2> QED
    BY <2>1, <1>1, <1>9 DEF ParkedAlone
<1>15. Counts'
  <2>1. \A c : Refs(kids, hdr, stack, c) = Cardinality(Plain(kids, c))
    BY <1>3, <1>7, PlainRefs
  <2> QED
    BY <2>1, <1>1, <1>2, <1>5 DEF Counts, Count, PlainCounts
<1>16. Whole'
  BY <1>1, PlainFacts DEF Whole
<1>17. Uncounted'
  BY <1>1, <1>5, <1>8 DEF Uncounted
<1>18. Marking'
  <2>1. Covered(kids', {}, Range(kept'))
    BY CoverOfNone
  <2>2. OrderedRoots(kids', kept', {})
    BY <1>1 DEF OrderedRoots
  <2> QED
    BY <2>1, <2>2, <1>1, <1>8, <1>9 DEF Marking
<1>19. (Scanning /\ Collecting)'
  BY <1>1 DEF Scanning, Collecting
<1>20. Purples'
  BY <1>1, <1>2 DEF Purples, PlainRoots
<1>21. Enrolled'
  <2>1. Settled' = live \ Acyclic
    BY <1>1, <1>5 DEF Settled
  <2>2. Sources' = Grounds
    BY <1>1, <1>6, <1>8, <1>9 DEF Sources, Grounds
  <2> QED
    BY <2>1, <2>2, <1>1, <1>2 DEF Enrolled, PlainRoots
<1>22. Gone'
  BY <1>1 DEF Gone
<1> QED
  BY <1>4, <1>10, <1>11, <1>12, <1>13, <1>14, <1>15, <1>16, <1>17, <1>18, <1>19, <1>20, <1>21, <1>22
  DEF CollectorInv, HeapInv, RootsInv

\* An empty heap.
LEMMA HeapStart == ASSUME HeapInit PROVE PlainInv
<1>1. /\ live = {} /\ kids = [c \in Cells |-> <<>>] /\ hdr = [c \in Cells |-> Blank] /\ handles = [c \in Cells |-> 0]
      /\ cand = <<>> /\ attached = TRUE
      /\ phase = "idle" /\ work = <<>> /\ kept = <<>> /\ deferred = <<>>
      /\ stack = <<>> /\ isolate = "open" /\ passes = 0 /\ before = 0 /\ ub = FALSE /\ lost = {}
  BY DEF HeapInit
<1>2. HeapTypeOK
  <2>1. Blank \in [rc : 0..RCMax, color : Colors, buffered : BOOLEAN]
    BY HeapAssumption DEF Blank, Colors
  <2>2. <<>> \in Seq(Cells) /\ <<>> \in Seq(Frames) /\ 0 \in 0..StablePasses
    BY HeapAssumption
  <2> QED
    BY <2>1, <2>2, <1>1 DEF HeapTypeOK, Frames, Ops
<1>3. \A p \in Cells : kids[p] = <<>> /\ DOMAIN kids[p] = {}
  BY <1>1
<1>4. SlotsIn(kids) = {} /\ \A c : Plain(kids, c) = {}
  BY <1>3 DEF SlotsIn, Plain
<1>5. Bounded
  <2>1. Units(handles) = {}
    BY <1>1 DEF Units
  <2>2. SumOf(handles) = 0 /\ Cardinality(SlotsIn(kids)) = 0
    BY <2>1, <1>4, FS_EmptySet DEF SumOf
  <2> QED
    BY <2>2, HeapAssumption DEF Bounded
<1>6. DeadBlank /\ Leaves
  BY <1>1, HeapAssumption DEF DeadBlank, Leaves, Blank
<1>7. Range(cand) = Buffered /\ IsInjective(cand)
  BY <1>1 DEF Range, Buffered, IsInjective
<1>8. PlainCounts
  <2>1. \A c : Cardinality(Plain(kids, c)) = 0
    BY <1>4, FS_EmptySet
  <2> QED
    BY <2>1, <1>1 DEF PlainCounts
<1>9. PlainColors
  BY <1>1 DEF PlainColors
<1>10. PlainRoots
  <2>1. live \ Acyclic = {}
    BY <1>1
  <2>2. Covered(kids, {}, Grounds)
    BY CoverOfNone
  <2> QED
    BY <2>1, <2>2, <1>1 DEF PlainRoots
<1> QED
  BY <1>1, <1>2, <1>5, <1>6, <1>7, <1>8, <1>9, <1>10 DEF PlainInv

(* A cell moves: the references to c become references to d.                *)
Mv(c, d, x) == IF x = c THEN d ELSE x

\* The references follow a cell that moves.
Relocated(k, k2, c, d) ==
    /\ c # d /\ k2[c] = <<>> /\ k[d] = <<>>
    /\ \A p \in Cells : \A i \in DOMAIN k[p] : k[p][i] # d
    /\ \A p \in Cells : p # d =>
          DOMAIN k2[Mv(c, d, p)] = DOMAIN k[p] /\ \A i \in DOMAIN k[p] : k2[Mv(c, d, p)][i] = Mv(c, d, k[p][i])

\* A move keeps the number of slots, and of the references to each cell.
LEMMA MovedSlots ==
  ASSUME NEW k \in Edging, NEW k2 \in Edging, NEW c \in Cells, NEW d \in Cells, Relocated(k, k2, c, d)
  PROVE  /\ Cardinality(SlotsIn(k2)) = Cardinality(SlotsIn(k))
         /\ \A x : x # c /\ x # d => Cardinality(Plain(k2, x)) = Cardinality(Plain(k, x))
         /\ Cardinality(Plain(k2, d)) = Cardinality(Plain(k, c))
         /\ Cardinality(Plain(k2, c)) = 0
<1> DEFINE f == [e \in SlotsIn(k) |-> <<Mv(c, d, e[1]), e[2]>>]
<1>1. k \in [Cells -> Seq(Cells)] /\ k2 \in [Cells -> Seq(Cells)]
  BY DEF Edging
<1>2. /\ c # d /\ DOMAIN k2[c] = {} /\ DOMAIN k[d] = {}
      /\ \A p \in Cells : \A i \in DOMAIN k[p] : k[p][i] # d
      /\ \A p \in Cells : p # d =>
            DOMAIN k2[Mv(c, d, p)] = DOMAIN k[p] /\ \A i \in DOMAIN k[p] : k2[Mv(c, d, p)][i] = Mv(c, d, k[p][i])
  BY DEF Relocated
<1>3. /\ IsFiniteSet(SlotsIn(k)) /\ IsFiniteSet(SlotsIn(k2))
      /\ \A q, i : <<q, i>> \in SlotsIn(k) <=> q \in Cells /\ i \in DOMAIN k[q]
      /\ \A e \in SlotsIn(k) : e = <<e[1], e[2]>> /\ e[1] \in Cells /\ e[2] \in DOMAIN k[e[1]]
      /\ \A q, i : <<q, i>> \in SlotsIn(k2) <=> q \in Cells /\ i \in DOMAIN k2[q]
      /\ \A e \in SlotsIn(k2) : e = <<e[1], e[2]>> /\ e[1] \in Cells /\ e[2] \in DOMAIN k2[e[1]]
  BY <1>1, SlotsIs
<1>4. ASSUME NEW e \in SlotsIn(k)
      PROVE  /\ f[e] \in SlotsIn(k2) /\ e[1] # d /\ f[e][1] = Mv(c, d, e[1]) /\ f[e][2] = e[2]
             /\ k2[f[e][1]][f[e][2]] = Mv(c, d, k[e[1]][e[2]]) /\ k[e[1]][e[2]] # d
  <2>1. e[1] \in Cells /\ e[2] \in DOMAIN k[e[1]] /\ e[1] # d
    BY <1>2, <1>3
  <2>2. Mv(c, d, e[1]) \in Cells
    BY <2>1 DEF Mv
  <2>3. e[2] \in DOMAIN k2[Mv(c, d, e[1])] /\ k2[Mv(c, d, e[1])][e[2]] = Mv(c, d, k[e[1]][e[2]]) /\ k[e[1]][e[2]] # d
    BY <2>1, <1>2
  <2>4. <<Mv(c, d, e[1]), e[2]>> \in SlotsIn(k2)
    BY <2>2, <2>3, <1>3
  <2>5. f[e] = <<Mv(c, d, e[1]), e[2]>>
    OBVIOUS
  <2> QED
    BY <2>1, <2>3, <2>4, <2>5
<1>5. \A e, g \in SlotsIn(k) : f[e] = f[g] => e = g
  <2> SUFFICES ASSUME NEW e \in SlotsIn(k), NEW g \in SlotsIn(k), f[e] = f[g] PROVE e = g
    OBVIOUS
  <2>1. Mv(c, d, e[1]) = Mv(c, d, g[1]) /\ e[2] = g[2] /\ e[1] # d /\ g[1] # d
    BY <1>4
  <2>2. e[1] = g[1]
    BY <2>1 DEF Mv
  <2>3. e = <<e[1], e[2]>> /\ g = <<g[1], g[2]>>
    BY <1>3
  <2> QED
    BY <2>1, <2>2, <2>3
<1>6. \A b \in SlotsIn(k2) : \E e \in SlotsIn(k) : f[e] = b
  <2> SUFFICES ASSUME NEW b \in SlotsIn(k2) PROVE \E e \in SlotsIn(k) : f[e] = b
    OBVIOUS
  <2>1. b = <<b[1], b[2]>> /\ b[1] \in Cells /\ b[2] \in DOMAIN k2[b[1]] /\ b[1] # c
    BY <1>2, <1>3
  <2>2. PICK p : p = IF b[1] = d THEN c ELSE b[1]
    OBVIOUS
  <2>3. p \in Cells /\ p # d /\ Mv(c, d, p) = b[1]
    BY <2>1, <2>2, <1>2 DEF Mv
  <2>4. b[2] \in DOMAIN k[p]
    BY <2>1, <2>3, <1>2
  <2>5. <<p, b[2]>> \in SlotsIn(k)
    BY <2>3, <2>4, <1>3
  <2>6. f[<<p, b[2]>>] = <<b[1], b[2]>>
    BY <2>3, <2>5
  <2> QED
    BY <2>1, <2>5, <2>6
<1> HIDE DEF f
<1>7. Cardinality(SlotsIn(k2)) = Cardinality(SlotsIn(k))
  <2> DEFINE A == SlotsIn(k)
             B == SlotsIn(k2)
             g == [e \in A |-> f[e]]
  <2>1. /\ IsFiniteSet(A) /\ g = [e \in A |-> g[e]] /\ \A e \in A : g[e] \in B
        /\ \A a, e \in A : g[a] = g[e] => a = e
        /\ \A b \in B : \E e \in A : g[e] = b
    BY <1>3, <1>4, <1>5, <1>6
  <2> HIDE DEF A, B, g
  <2>2. Cardinality(B) = Cardinality(A)
    BY <2>1, CountMoved
  <2> QED
    BY <2>2 DEF A, B
<1>8. ASSUME NEW x, x # d PROVE Cardinality(Plain(k2, Mv(c, d, x))) = Cardinality(Plain(k, x))
  <2> DEFINE A == Plain(k, x)
             B == Plain(k2, Mv(c, d, x))
             g == [e \in A |-> f[e]]
  <2>1. A \subseteq SlotsIn(k) /\ IsFiniteSet(A)
    <3>1. A \subseteq SlotsIn(k)
      BY DEF Plain
    <3> QED
      BY <3>1, <1>3, FS_Subset
  <2>2. g = [e \in A |-> g[e]] /\ (\A e \in A : g[e] \in B) /\ \A a, e \in A : g[a] = g[e] => a = e
    BY <2>1, <1>4, <1>5 DEF Plain
  <2>3. \A b \in B : \E e \in A : g[e] = b
    <3> SUFFICES ASSUME NEW b \in B PROVE \E e \in A : g[e] = b
      OBVIOUS
    <3>1. PICK e \in SlotsIn(k) : f[e] = b
      BY <1>6 DEF Plain
    <3>2. Mv(c, d, k[e[1]][e[2]]) = Mv(c, d, x) /\ k[e[1]][e[2]] # d
      BY <3>1, <1>4 DEF Plain
    <3>3. k[e[1]][e[2]] = x
      BY <3>2, <1>8 DEF Mv
    <3>4. e \in A
      BY <3>3 DEF Plain
    <3> QED
      BY <3>1, <3>4
  <2> HIDE DEF A, B, g
  <2>4. Cardinality(B) = Cardinality(A)
    BY <2>1, <2>2, <2>3, CountMoved
  <2> QED
    BY <2>4 DEF A, B
<1>9. \A x : x # c /\ x # d => Cardinality(Plain(k2, x)) = Cardinality(Plain(k, x))
  BY <1>8 DEF Mv
<1>10. Cardinality(Plain(k2, d)) = Cardinality(Plain(k, c))
  BY <1>2, <1>8 DEF Mv
<1>11. Cardinality(Plain(k2, c)) = 0
  <2>1. Plain(k2, c) = {}
    <3> SUFFICES ASSUME NEW b \in SlotsIn(k2), k2[b[1]][b[2]] = c PROVE FALSE
      BY DEF Plain
    <3>1. PICK e \in SlotsIn(k) : f[e] = b
      BY <1>6
    <3>2. Mv(c, d, k[e[1]][e[2]]) = c
      BY <3>1, <1>4
    <3> QED
      BY <3>2, <1>2 DEF Mv
  <2> QED
    BY <2>1, FS_EmptySet
<1> QED
  BY <1>7, <1>9, <1>10, <1>11

\* What hangs off a source still does.
LEMMA MovedCover ==
  ASSUME NEW k \in Edging, NEW k2 \in Edging, NEW c \in Cells, NEW d \in Cells, Relocated(k, k2, c, d),
         NEW Z, Z \subseteq Cells \ {d}, NEW S, Covered(k, Z, S),
         NEW Z2, Z2 = {Mv(c, d, x) : x \in Z}, NEW S2, \A x \in Z : x \in S => Mv(c, d, x) \in S2
  PROVE  Covered(k2, Z2, S2)
<1> SUFFICES ASSUME NEW X \in SUBSET Z2, X # {}, X \cap S2 = {}
             PROVE  \E p \in Z2 \ X : \E i \in DOMAIN k2[p] : k2[p][i] \in X
  BY DEF Covered
<1> DEFINE Y == {x \in Z : Mv(c, d, x) \in X}
<1>1. Y \in SUBSET Z /\ Y # {} /\ Y \cap S = {}
  OBVIOUS
<1>2. PICK p \in Z \ Y : \E i \in DOMAIN k[p] : k[p][i] \in Y
  BY <1>1 DEF Covered
<1>3. PICK i \in DOMAIN k[p] : k[p][i] \in Y
  BY <1>2
<1>4. Mv(c, d, p) \in Z2 \ X /\ p \in Cells /\ p # d
  BY <1>2
<1>5. i \in DOMAIN k2[Mv(c, d, p)] /\ k2[Mv(c, d, p)][i] = Mv(c, d, k[p][i])
  BY <1>3, <1>4 DEF Relocated
<1>6. k2[Mv(c, d, p)][i] \in X
  BY <1>3, <1>5
<1> QED
  BY <1>4, <1>5, <1>6

\* The candidate's slot follows it.
LEMMA RepointedIs ==
  ASSUME NEW q \in Seq(Cells), IsInjective(q), NEW c \in Range(q), NEW d \in Cells, d \notin Range(q)
  PROVE  Repointed(q, c, d) \in Seq(Cells) /\ Range(Repointed(q, c, d)) = (Range(q) \ {c}) \cup {d} /\ IsInjective(Repointed(q, c, d))
<1> DEFINE slots == {i \in DOMAIN q : q[i] = c}
<1>1. PICK j \in DOMAIN q : q[j] = c
  BY DEF Range
<1>2. slots = {j}
  BY <1>1 DEF IsInjective
<1>3. Len(q) \in Nat /\ DOMAIN q = 1..Len(q) /\ j \in Nat /\ j \in 1..Len(q)
  BY <1>1, LenProperties
<1>4. Max(slots) = j
  BY <1>2, <1>3 DEF Max
<1>5. Repointed(q, c, d) = [q EXCEPT ![j] = d]
  BY <1>2, <1>4 DEF Repointed
<1> HIDE DEF slots
<1> DEFINE r == [q EXCEPT ![j] = d]
<1>6. r \in Seq(Cells) /\ Len(r) = Len(q) /\ \A i \in 1..Len(q) : r[i] = IF i = j THEN d ELSE q[i]
  BY <1>3, ExceptSeq
<1>7. DOMAIN r = 1..Len(q)
  BY <1>3
<1> HIDE DEF r
<1>8. \A i \in 1..Len(q) : q[i] \in Range(q) /\ q[i] # d /\ (i # j => q[i] # c)
  BY <1>1, <1>3 DEF Range, IsInjective
<1>9. IsInjective(r)
  <2> SUFFICES ASSUME NEW a \in 1..Len(q), NEW b \in 1..Len(q), r[a] = r[b] PROVE a = b
    BY <1>7 DEF IsInjective
  <2>1. CASE a = j \/ b = j
    BY <2>1, <1>6, <1>8
  <2>2. CASE a # j /\ b # j
    <3>1. q[a] = q[b]
      BY <2>2, <1>6
    <3> QED
      BY <3>1, <1>3 DEF IsInjective
  <2> QED
    BY <2>1, <2>2
<1>10. Range(r) \subseteq (Range(q) \ {c}) \cup {d}
  BY <1>6, <1>7, <1>8 DEF Range
<1>11. (Range(q) \ {c}) \cup {d} \subseteq Range(r)
  <2>1. d \in Range(r)
    BY <1>3, <1>6, <1>7 DEF Range
  <2>2. ASSUME NEW x \in Range(q), x # c PROVE x \in Range(r)
    <3>1. PICK i \in 1..Len(q) : q[i] = x
      BY <1>3 DEF Range
    <3>2. i # j
      BY <3>1, <2>2, <1>1
    <3> QED
      BY <3>1, <3>2, <1>6, <1>7 DEF Range
  <2> QED
    BY <2>1, <2>2
<1> QED
  BY <1>5, <1>6, <1>9, <1>10, <1>11 DEF r

\* A cell that is uniquely owned moves.
LEMMA GrowStep == ASSUME PlainInv, NEW c \in Cells, NEW d \in Cells, Grow(c, d) PROVE PlainInv'
<1> DEFINE M(x) == Mv(c, d, x)
<1>0. /\ phase = "idle" /\ stack = <<>> /\ work = <<>>
      /\ HeapTypeOK /\ Bounded /\ DeadBlank /\ Leaves
      /\ Range(cand) = Buffered /\ IsInjective(cand)
      /\ PlainCounts /\ PlainColors
  BY DEF PlainInv
<1>4. c \in live /\ c # d
  <2>1. c \in Reachable /\ d \notin live /\ live \subseteq Cells
    BY <1>0 DEF Grow, HeapTypeOK
  <2> QED
    BY <2>1, ReachedIs
<1>1. /\ isolate # "gone" /\ c \in Reachable /\ d \notin live /\ (c \in Acyclic <=> d \in Acyclic)
      /\ live' = (live \ {c}) \cup {d}
      /\ kids' = [x \in Cells |-> CASE x = c -> <<>>
                                    [] x = d -> [i \in DOMAIN kids[c] |-> M(kids[c][i])]
                                    [] OTHER -> [i \in DOMAIN kids[x] |-> M(kids[x][i])]]
      /\ hdr' = [hdr EXCEPT ![d] = hdr[c], ![c] = Blank]
      /\ handles' = [handles EXCEPT ![d] = handles[c], ![c] = 0]
      /\ cand' = IF hdr[c].buffered THEN Repointed(cand, c, d) ELSE cand
      /\ lost' = {M(x) : x \in lost}
      /\ attached' = attached /\ phase' = phase /\ work' = work /\ kept' = kept /\ deferred' = deferred /\ stack' = stack
      /\ isolate' = isolate /\ passes' = passes /\ before' = before /\ ub' = ub
  BY DEF Grow, Running, pass, ending, Mv
<1>2. PlainRoots
  BY <1>1 DEF PlainInv
<1>3. /\ live \subseteq Cells /\ kids \in [Cells -> Seq(Cells)] /\ handles \in [Cells -> Nat] /\ cand \in Seq(Cells)
      /\ hdr \in [Cells -> [rc : 0..RCMax, color : Colors, buffered : BOOLEAN]] /\ lost \subseteq live \ Acyclic
  BY <1>0, HeapTyped DEF Leaves
<1>5. kids[d] = <<>> /\ handles[d] = 0 /\ hdr[d] = Blank
  BY <1>0, <1>1 DEF DeadBlank
<1>6. \A p \in Cells : \A i \in DOMAIN kids[p] : kids[p][i] \in Cells /\ kids[p][i] \in live /\ kids[p][i] # d
  BY <1>1, <1>3, PlainFacts
<1>7. /\ \A x \in live : M(x) \in live' /\ M(x) # c /\ (M(x) \in Acyclic <=> x \in Acyclic)
      /\ \A x, y \in live : M(x) = M(y) => x = y
      /\ \A y \in live' : \E x \in live : M(x) = y
      /\ \A x \in Cells : M(x) \in Cells
  <2>1. \A x \in live : M(x) \in live' /\ M(x) # c /\ (M(x) \in Acyclic <=> x \in Acyclic)
    BY <1>1, <1>4 DEF Mv
  <2>2. \A x, y \in live : M(x) = M(y) => x = y
    BY <1>1 DEF Mv
  <2>3. \A y \in live' : \E x \in live : M(x) = y
    <3> SUFFICES ASSUME NEW y \in live' PROVE \E x \in live : M(x) = y
      OBVIOUS
    <3>1. CASE y = d
      <4>1. M(c) = d
        BY DEF Mv
      <4> QED
        BY <3>1, <4>1, <1>4
    <3>2. CASE y # d
      <4>1. y \in live /\ y # c
        BY <3>2, <1>1
      <4>2. M(y) = y
        BY <4>1 DEF Mv
      <4> QED
        BY <4>1, <4>2
    <3> QED
      BY <3>1, <3>2
  <2>4. \A x \in Cells : M(x) \in Cells
    BY DEF Mv
  <2> QED
    BY <2>1, <2>2, <2>3, <2>4
<1> HIDE DEF M
<1>8. /\ kids' \in [Cells -> Seq(Cells)] /\ kids'[c] = <<>>
      /\ \A p \in Cells : p # d => DOMAIN kids'[M(p)] = DOMAIN kids[p] /\ \A i \in DOMAIN kids[p] : kids'[M(p)][i] = M(kids[p][i])
      /\ \A p \in Cells : p \notin live' => kids'[p] = <<>>
  <2>1. ASSUME NEW p \in Cells
        PROVE  [i \in DOMAIN kids[p] |-> M(kids[p][i])] \in Seq(Cells)
    <3>1. DOMAIN kids[p] = 1..Len(kids[p]) /\ Len(kids[p]) \in Nat
      BY <1>0, KidsType
    <3> DEFINE n == Len(kids[p])
               f == [i \in 1..n |-> M(kids[p][i])]
    <3>2. f \in [1..n -> Cells] /\ n \in Nat
      BY <3>1, <1>6, <1>7
    <3> HIDE DEF f, n
    <3>3. f \in Seq(Cells)
      BY <3>2, FunctionIsSeq
    <3> QED
      BY <3>1, <3>3 DEF f, n
  <2>2. /\ kids'[c] = <<>> /\ kids'[d] = [i \in DOMAIN kids[c] |-> M(kids[c][i])]
        /\ \A x \in Cells : x # c /\ x # d => kids'[x] = [i \in DOMAIN kids[x] |-> M(kids[x][i])]
    BY <1>1, <1>4
  <2>3. \A x \in Cells : kids'[x] \in Seq(Cells)
    <3> SUFFICES ASSUME NEW x \in Cells PROVE kids'[x] \in Seq(Cells)
      OBVIOUS
    <3>1. <<>> \in Seq(Cells)
      OBVIOUS
    <3> QED
      BY <2>1, <2>2, <3>1
  <2>4. kids' \in [Cells -> Seq(Cells)]
    <3>1. kids' = [x \in Cells |-> kids'[x]]
      BY <1>1
    <3> QED
      BY <2>3, <3>1
  <2>5. ASSUME NEW p \in Cells, p # d
        PROVE  kids'[M(p)] = [i \in DOMAIN kids[p] |-> M(kids[p][i])]
    <3>1. CASE p = c
      <4>1. M(p) = d
        BY <3>1 DEF M, Mv
      <4> QED
        BY <3>1, <4>1, <2>2
    <3>2. CASE p # c
      <4>1. M(p) = p
        BY <3>2 DEF M, Mv
      <4> QED
        BY <3>2, <4>1, <2>2, <2>5
    <3> QED
      BY <3>1, <3>2
  <2>6. ASSUME NEW p \in Cells, p \notin live' PROVE kids'[p] = <<>>
    <3>1. CASE p = c
      BY <3>1, <2>2
    <3>2. CASE p # c
      <4>1. p \notin live /\ p # d
        BY <3>2, <2>6, <1>1
      <4>2. kids[p] = <<>>
        BY <4>1, <1>0 DEF DeadBlank
      <4>3. kids'[p] \in Seq(Cells) /\ kids'[p] = [i \in DOMAIN kids[p] |-> M(kids[p][i])]
        BY <4>1, <3>2, <2>2, <2>3
      <4>4. DOMAIN kids'[p] = {} /\ DOMAIN kids[p] = {}
        BY <4>2, <4>3
      <4>5. Len(kids'[p]) = 0
        <5>1. Len(kids'[p]) \in Nat /\ DOMAIN kids'[p] = 1..Len(kids'[p])
          BY <4>3, LenProperties
        <5>2. ~(Len(kids'[p]) > 0)
          <6> SUFFICES ASSUME Len(kids'[p]) > 0 PROVE FALSE
            OBVIOUS
          <6>1. 1 \in 1..Len(kids'[p])
            BY <5>1
          <6> QED
            BY <6>1, <5>1, <4>4
        <5> QED
          BY <5>1, <5>2
      <4> QED
        BY <4>3, <4>5, EmptySeq
    <3> QED
      BY <3>1, <3>2
  <2>7. ASSUME NEW p \in Cells, p # d
        PROVE  DOMAIN kids'[M(p)] = DOMAIN kids[p] /\ \A i \in DOMAIN kids[p] : kids'[M(p)][i] = M(kids[p][i])
    BY <2>5, <2>7
  <2>8. \A p \in Cells : p # d => DOMAIN kids'[M(p)] = DOMAIN kids[p] /\ \A i \in DOMAIN kids[p] : kids'[M(p)][i] = M(kids[p][i])
    BY <2>7
  <2> QED
    BY <2>2, <2>4, <2>6, <2>8
<1>9. /\ hdr' \in [Cells -> [rc : 0..RCMax, color : Colors, buffered : BOOLEAN]]
      /\ handles' \in [Cells -> Nat]
      /\ hdr'[d] = hdr[c] /\ hdr'[c] = Blank /\ \A x \in Cells : x # c /\ x # d => hdr'[x] = hdr[x]
      /\ handles'[d] = handles[c] /\ handles'[c] = 0 /\ \A x \in Cells : x # c /\ x # d => handles'[x] = handles[x]
      /\ \A x \in live : hdr'[M(x)] = hdr[x] /\ handles'[M(x)] = handles[x]
  <2>1. Blank \in [rc : 0..RCMax, color : Colors, buffered : BOOLEAN]
    BY HeapAssumption DEF Blank, Colors
  <2>2. /\ hdr' \in [Cells -> [rc : 0..RCMax, color : Colors, buffered : BOOLEAN]]
        /\ hdr'[d] = hdr[c] /\ hdr'[c] = Blank /\ \A x \in Cells : x # c /\ x # d => hdr'[x] = hdr[x]
    BY <2>1, <1>1, <1>3, <1>4
  <2>3. /\ handles' \in [Cells -> Nat]
        /\ handles'[d] = handles[c] /\ handles'[c] = 0 /\ \A x \in Cells : x # c /\ x # d => handles'[x] = handles[x]
    BY <1>1, <1>3, <1>4
  <2>4. \A x \in live : hdr'[M(x)] = hdr[x] /\ handles'[M(x)] = handles[x]
    BY <2>2, <2>3, <1>1, <1>3 DEF M, Mv
  <2> QED
    BY <2>2, <2>3, <2>4
<1>10. /\ cand' \in Seq(Cells) /\ Range(cand') = Buffered' /\ IsInjective(cand')
       /\ \A x \in Range(cand) : M(x) \in Range(cand')
  <2>1. d \notin Range(cand) /\ (hdr[c].buffered <=> c \in Range(cand))
    BY <1>0, <1>1, <1>4 DEF Buffered
  <2>2. Buffered' = IF hdr[c].buffered THEN (Buffered \ {c}) \cup {d} ELSE Buffered
    BY <1>1, <1>3, <1>4, <1>9 DEF Buffered
  <2>3. CASE hdr[c].buffered
    <3>1. cand' \in Seq(Cells) /\ Range(cand') = (Range(cand) \ {c}) \cup {d} /\ IsInjective(cand')
      BY <2>1, <2>3, <1>0, <1>1, <1>3, RepointedIs
    <3> QED
      BY <3>1, <2>2, <2>3, <1>0 DEF M, Mv
  <2>4. CASE ~hdr[c].buffered
    BY <2>1, <2>2, <2>4, <1>0, <1>1, <1>3 DEF M, Mv
  <2> QED
    BY <2>3, <2>4
<1>11. Leaves'
  <2>1. \A x \in Acyclic : x \in Cells
    BY HeapAssumption
  <2>2. ASSUME NEW x \in Acyclic PROVE kids'[x] = <<>> /\ ~hdr'[x].buffered /\ (x \in live' => hdr'[x].color = "green")
    <3>1. CASE x \in live'
      <4>1. PICK y \in live : M(y) = x
        BY <3>1, <1>7
      <4>2. y \in Acyclic /\ hdr'[x] = hdr[y] /\ y \in Cells /\ y # d
        BY <4>1, <1>1, <1>3, <1>7, <1>9
      <4>3. ~hdr[y].buffered /\ hdr[y].color = "green" /\ kids[y] = <<>>
        BY <4>1, <4>2, <1>0 DEF Leaves
      <4>4. DOMAIN kids'[x] = {} /\ kids'[x] \in Seq(Cells)
        BY <4>1, <4>2, <4>3, <2>1, <1>8
      <4>5. kids'[x] = <<>>
        <5>1. Len(kids'[x]) \in Nat /\ DOMAIN kids'[x] = 1..Len(kids'[x])
          BY <4>4, LenProperties
        <5>2. ~(Len(kids'[x]) > 0)
          <6> SUFFICES ASSUME Len(kids'[x]) > 0 PROVE FALSE
            OBVIOUS
          <6>1. 1 \in 1..Len(kids'[x])
            BY <5>1
          <6> QED
            BY <6>1, <5>1, <4>4
        <5> QED
          BY <5>1, <5>2, <4>4, EmptySeq
      <4> QED
        BY <4>2, <4>3, <4>5
    <3>2. CASE x \notin live'
      <4>1. hdr'[x] = Blank
        BY <3>2, <2>1, <1>0, <1>1, <1>9 DEF DeadBlank
      <4> QED
        BY <3>2, <4>1, <2>1, <1>8 DEF Blank
    <3> QED
      BY <3>1, <3>2
  <2>3. lost' \subseteq live' \ Acyclic
    BY <1>1, <1>3, <1>7
  <2> QED
    BY <2>2, <2>3 DEF Leaves
<1>12. HeapTypeOK'
  <2>1. live' \subseteq Cells /\ lost' \subseteq Cells
    BY <1>1, <1>3, <1>7
  <2> QED
    BY <2>1, <1>0, <1>1, <1>8, <1>9, <1>10 DEF HeapTypeOK
<1>13. DeadBlank'
  <2>1. ASSUME NEW x \in Cells, x \notin live' PROVE handles'[x] = 0 /\ hdr'[x] = Blank
    <3>1. CASE x = c
      BY <3>1, <1>9
    <3>2. CASE x # c
      <4>1. x \notin live /\ x # d
        BY <3>2, <2>1, <1>1
      <4> QED
        BY <3>2, <4>1, <1>0, <1>9 DEF DeadBlank
    <3> QED
      BY <3>1, <3>2
  <2> QED
    BY <2>1, <1>8 DEF DeadBlank
<1>14. Relocated(kids, kids', c, d) /\ kids \in Edging /\ kids' \in Edging
  BY <1>3, <1>4, <1>5, <1>6, <1>8 DEF Relocated, Edging, M
<1>15. /\ Cardinality(SlotsIn(kids')) = Cardinality(SlotsIn(kids))
       /\ \A x : x # c /\ x # d => Cardinality(Plain(kids', x)) = Cardinality(Plain(kids, x))
       /\ Cardinality(Plain(kids', d)) = Cardinality(Plain(kids, c))
       /\ Cardinality(Plain(kids', c)) = 0
  <2> DEFINE k2 == kids'
  <2>1. Relocated(kids, k2, c, d) /\ kids \in Edging /\ k2 \in Edging
    BY <1>14
  <2> HIDE DEF k2
  <2>2. /\ Cardinality(SlotsIn(k2)) = Cardinality(SlotsIn(kids))
        /\ \A x : x # c /\ x # d => Cardinality(Plain(k2, x)) = Cardinality(Plain(kids, x))
        /\ Cardinality(Plain(k2, d)) = Cardinality(Plain(kids, c))
        /\ Cardinality(Plain(k2, c)) = 0
    BY <2>1, MovedSlots
  <2> QED
    BY <2>2 DEF k2
<1>16. Bounded'
  <2> DEFINE g == handles'
             h == [handles EXCEPT ![d] = handles[c]]
  <2>1. /\ h \in [Cells -> Nat] /\ h[d] = handles[c] /\ h[c] = handles[c] /\ \A x \in Cells : x # d => h[x] = handles[x]
        /\ g \in [Cells -> Nat] /\ g[c] = 0 /\ \A x \in Cells : x # c => g[x] = h[x]
        /\ IsFiniteSet(Cells) /\ handles \in [Cells -> Nat] /\ handles[c] \in Nat
    BY <1>3, <1>4, <1>9, HeapAssumption
  <2> HIDE DEF g, h
  <2>2. SumOf(handles) \in Nat /\ SumOf(h) = SumOf(handles) - handles[d] + h[d]
    BY <2>1, SumChange
  <2>3. SumOf(h) \in Nat /\ SumOf(g) = SumOf(h) - h[c] + g[c]
    BY <2>1, SumChange
  <2>4. SumOf(g) = SumOf(handles)
    BY <2>1, <2>2, <2>3, <1>5
  <2> QED
    BY <2>4, <1>0, <1>15 DEF Bounded, g
<1>17. PlainCounts'
  <2> SUFFICES ASSUME NEW x \in Cells
               PROVE  IF x \in live' THEN hdr'[x].rc = handles'[x] + Cardinality(Plain(kids', x))
                      ELSE handles'[x] + Cardinality(Plain(kids', x)) = 0
    BY DEF PlainCounts
  <2>1. \A y \in Cells : IF y \in live THEN hdr[y].rc = handles[y] + Cardinality(Plain(kids, y))
                         ELSE handles[y] + Cardinality(Plain(kids, y)) = 0
    BY <1>0 DEF PlainCounts
  <2>2. CASE x = c
    BY <2>2, <1>1, <1>4, <1>9, <1>15
  <2>3. CASE x = d
    BY <2>1, <2>3, <1>1, <1>4, <1>9, <1>15
  <2>4. CASE x # c /\ x # d
    BY <2>1, <2>4, <1>1, <1>9, <1>15
  <2> QED
    BY <2>2, <2>3, <2>4
<1>18. \A y \in live' \ Acyclic : \E x \in live \ Acyclic : M(x) = y /\ hdr'[y] = hdr[x]
  BY <1>7, <1>9
<1>19. PlainColors'
  BY <1>0, <1>18 DEF PlainColors
<1>20. PlainRoots'
  <2> DEFINE Z == live \ Acyclic
             S == Grounds
             T == Grounds'
             k2 == kids'
             Z2 == {Mv(c, d, x) : x \in Z}
  <2>1. Covered(kids, Z, S) /\ Z \subseteq Cells \ {d}
    BY <1>1, <1>2, <1>3 DEF PlainRoots
  <2>2. live' \ Acyclic = Z2
    <3>1. live' \ Acyclic \subseteq Z2
      BY <1>18 DEF M
    <3>2. Z2 \subseteq live' \ Acyclic
      BY <1>7 DEF M
    <3> QED
      BY <3>1, <3>2
  <2>3. \A x \in Z : x \in S => Mv(c, d, x) \in T
    <3> SUFFICES ASSUME NEW x \in Z, x \in S PROVE M(x) \in T
      BY DEF M
    <3>1. CASE handles[x] > 0
      <4>1. M(x) \in Cells /\ handles'[M(x)] > 0
        BY <3>1, <1>3, <1>7, <1>9
      <4> QED
        BY <4>1 DEF Grounds
    <3>2. CASE x \in lost
      <4>1. M(x) \in lost'
        BY <3>2, <1>1
      <4> QED
        BY <4>1 DEF Grounds
    <3>3. CASE x \in Range(cand)
      <4>1. M(x) \in Range(cand')
        BY <3>3, <1>10
      <4> QED
        BY <4>1 DEF Grounds
    <3> QED
      BY <3>1, <3>2, <3>3 DEF Grounds
  <2>4. Relocated(kids, k2, c, d) /\ kids \in Edging /\ k2 \in Edging
    BY <1>14
  <2>5. PICK Y : Y = Z2
    OBVIOUS
  <2> HIDE DEF Z, S, T, k2, Z2
  <2>6. Y = {Mv(c, d, x) : x \in Z}
    BY <2>5 DEF Z2
  <2>7. Covered(k2, Y, T)
    BY <2>1, <2>3, <2>4, <2>6, MovedCover
  <2>8. Covered(kids', live' \ Acyclic, Grounds')
    BY <2>2, <2>5, <2>7 DEF T, k2
  <2>9. \A y \in live' : \E x \in live : hdr'[y] = hdr[x]
    BY <1>7, <1>9
  <2> QED
    BY <2>8, <2>9, <1>2, <1>18 DEF PlainRoots
<1> QED
  BY <1>0, <1>1, <1>10, <1>11, <1>12, <1>13, <1>16, <1>17, <1>19, <1>20 DEF PlainInv

\* A step of the program keeps the invariant.
LEMMA MutatorStep == ASSUME CollectorInv, NoSaturation, Mutator PROVE CollectorInv'
<1>1. ASSUME NEW c \in Cells, New(c) PROVE CollectorInv'
  <2>1. PlainInv
    BY <1>1, QuietPlain DEF New, Running
  <2> QED
    BY <1>1, <2>1, NewStep, PlainNext
<1>2. ASSUME NEW c \in Cells, Hold(c) PROVE CollectorInv'
  <2>1. PlainInv
    BY <1>2, QuietPlain DEF Hold, Running
  <2> QED
    BY <1>2, <2>1, HoldStep, PlainNext
<1>3. ASSUME NEW c \in Cells, Drop(c) PROVE CollectorInv'
  BY <1>3, DropStep
<1>4. ASSUME NEW p \in Cells, NEW c \in Cells, Store(p, c) PROVE CollectorInv'
  <2>1. PlainInv
    BY <1>4, QuietPlain DEF Store, Running
  <2> QED
    BY <1>4, <2>1, StoreStep, PlainNext
<1>5. ASSUME NEW p \in Cells, NEW c \in Cells, Grow(p, c) PROVE CollectorInv'
  <2>1. PlainInv
    BY <1>5, QuietPlain DEF Grow, Running
  <2> QED
    BY <1>5, <2>1, GrowStep, PlainNext
<1>6. ASSUME NEW p \in Cells, NEW i \in DOMAIN kids[p], Erase(p, i) PROVE CollectorInv'
  BY <1>6, EraseStep
<1>7. ASSUME Collect PROVE CollectorInv'
  <2>1. PlainInv
    BY <1>7, QuietPlain DEF Collect, Running
  <2> QED
    BY <1>7, <2>1, BeginPassStep
<1>8. ASSUME Attach PROVE CollectorInv'
  <2>1. PlainInv
    BY <1>8, QuietPlain DEF Attach, Running
  <2> QED
    BY <1>8, <2>1, AttachStep, PlainNext
<1> QED
  BY <1>1, <1>2, <1>3, <1>4, <1>5, <1>6, <1>7, <1>8, FreedStep DEF Mutator

\* So does every step of the teardown.
LEMMA TeardownStep == ASSUME CollectorInv, Close \/ StablePass \/ Destroy PROVE CollectorInv'
<1>1. Quiet
  BY DEF Close, StablePass, Destroy, RootsDropped, Running
<1>2. PlainInv
  BY <1>1, QuietPlain
<1> QED
  BY <1>2, AttachStep, BeginPassStep, DestroyStep, PlainNext

\* A step that changes nothing.
LEMMA IdleStep == ASSUME CollectorInv, UNCHANGED heapVars PROVE CollectorInv'
<1>1. /\ live' = live /\ kids' = kids /\ hdr' = hdr /\ handles' = handles /\ cand' = cand /\ attached' = attached
      /\ phase' = phase /\ work' = work /\ kept' = kept /\ deferred' = deferred /\ stack' = stack
      /\ isolate' = isolate /\ passes' = passes /\ before' = before /\ lost' = lost /\ ub' = ub
  BY DEF heapVars, heap, pass, ending
<1>2. /\ HeapTypeOK /\ Bounded /\ Stacked(stack, phase, live) /\ DeadBlank /\ Leaves /\ Colored /\ Enlisted
      /\ ParkedAlone /\ Counts /\ Whole /\ Uncounted /\ Marking /\ Scanning /\ Collecting
      /\ (isolate # "gone" => Purples /\ Enrolled) /\ Gone
  BY DEF CollectorInv, HeapInv, RootsInv
<1>3. HeapTypeOK'
  BY <1>1, <1>2 DEF HeapTypeOK
<1>4. (Bounded /\ Stacked(stack, phase, live) /\ DeadBlank /\ Leaves)'
  BY <1>1, <1>2 DEF Bounded, DeadBlank, Leaves
<1>5. Colored' /\ Enlisted'
  BY <1>1, <1>2 DEF Colored, WorkColors, Enlisted, Slotted, Buffered
<1>6. ParkedAlone'
  BY <1>1, <1>2 DEF ParkedAlone, Parked
<1>7. (Counts /\ Whole /\ Uncounted)'
  BY <1>1, <1>2 DEF Counts, Whole, Uncounted, White
<1>8. Marking' /\ Scanning' /\ Collecting'
  BY <1>1, <1>2 DEF Marking, Scanning, Collecting, Gray, White
<1>9. isolate' # "gone" => Purples' /\ Enrolled'
  BY <1>1, <1>2 DEF Purples, Parked, Enrolled, Settled, Sources, Gray
<1>10. Gone'
  BY <1>1, <1>2 DEF Gone
<1> QED
  BY <1>3, <1>4, <1>5, <1>6, <1>7, <1>8, <1>9, <1>10 DEF CollectorInv, HeapInv, RootsInv

\* The invariant holds at the start, and every step keeps it.
LEMMA HeapStep == ASSUME CollectorInv, NoSaturation, [HeapNext]_heapVars PROVE CollectorInv'
BY CollectorsStep, MutatorStep, TeardownStep, IdleStep DEF HeapNext

\* In every state of the heap the invariant holds: trial deletion takes out of
\* a count the references of the cells it has colored, and nothing else.
THEOREM HeapInvariant == ASSUME NoSaturation PROVE HeapSpec => []CollectorInv
<1>1. HeapInit => CollectorInv
  BY HeapStart, PlainQuiet
<1>2. CollectorInv /\ [HeapNext]_heapVars => CollectorInv'
  BY HeapStep
<1> QED
  BY <1>1, <1>2, PTL DEF HeapSpec

\* What can be reached from S holds S and everything its members refer to.
LEMMA ReachedFrom ==
  ASSUME HeapTypeOK, NEW S
  PROVE  /\ ReachableFrom(S) \subseteq Cells
         /\ \A c \in Cells : c \in S => c \in ReachableFrom(S)
         /\ \A p \in ReachableFrom(S) : \A i \in DOMAIN kids[p] : kids[p][i] \in ReachableFrom(S)
<1>1. ReachableFrom(S) \subseteq Cells
  BY DEF ReachableFrom
<1>2. \A c \in Cells : c \in S => c \in ReachableFrom(S)
  BY DEF ReachableFrom
<1>3. ASSUME NEW p \in ReachableFrom(S), NEW i \in DOMAIN kids[p]
      PROVE  kids[p][i] \in ReachableFrom(S)
  <2>1. p \in Cells /\ kids[p][i] \in Cells
    BY <1>1, KidsType
  <2> SUFFICES ASSUME NEW Z \in SUBSET Cells, S \subseteq Z, Closed(Z)
               PROVE  kids[p][i] \in Z
    BY <2>1 DEF ReachableFrom
  <2>2. p \in Z
    BY DEF ReachableFrom
  <2>3. kids[p][i] \in Range(kids[p])
    BY DEF Range
  <2> QED
    BY <2>2, <2>3 DEF Closed, Successors
<1> QED
  BY <1>1, <1>2, <1>3

\* A set that holds S and what its members refer to holds all that can be
\* reached from S.
LEMMA ReachedWithin ==
  ASSUME NEW S, NEW Z \in SUBSET Cells, S \subseteq Z, ClosedIn(kids, Z)
  PROVE  ReachableFrom(S) \subseteq Z
<1>1. Closed(Z)
  <2> SUFFICES ASSUME NEW x \in Z, NEW y \in Range(kids[x]) PROVE y \in Z
    BY DEF Closed, Successors
  <2>1. PICK i \in DOMAIN kids[x] : y = kids[x][i]
    BY DEF Range
  <2> QED
    BY <2>1 DEF ClosedIn
<1> QED
  BY <1>1 DEF ReachableFrom

\* A cell whose count stands for a reference is live, no call is freeing it,
\* and no phase takes it for garbage.
Spared == {c \in live : hdr[c].color # "white" /\ At(stack, "white", c) = 0 /\ At(stack, "dispose", c) = 0}

\* What is counted is spared.
LEMMA CountedSpared ==
  ASSUME CollectorInv, NEW c \in Cells, Count(handles, kids, hdr, stack, c) > 0
  PROVE  c \in Spared
<1>0. /\ HeapTypeOK /\ Counts /\ Uncounted /\ Stacked(stack, phase, live)
  BY DEF CollectorInv, HeapInv
<1>1. Count(handles, kids, hdr, stack, c) # 0
  OBVIOUS
<1>2. c \in live /\ ~(At(stack, "dispose", c) > 0) /\ hdr[c].rc = Count(handles, kids, hdr, stack, c)
  BY <1>0, <1>1 DEF Counts
<1>3. \A op : At(stack, op, c) \in Nat
  BY <1>0, HeapTyped, NoOtherCalls
<1>4. ~(At(stack, "white", c) > 0) /\ hdr[c].color # "white"
  BY <1>0, <1>1, <1>2 DEF Uncounted, White
<1>5. At(stack, "white", c) = 0 /\ At(stack, "dispose", c) = 0
  BY <1>2, <1>3, <1>4
<1> QED
  BY <1>2, <1>4, <1>5 DEF Spared

\* Once the marking and the scanning are over, what a spared cell refers to is
\* counted, hence spared.
LEMMA SparedClosed ==
  ASSUME CollectorInv, phase \notin {"mark", "scan"}
  PROVE  ClosedIn(kids, Spared)
<1>0. /\ HeapTypeOK /\ Leaves /\ Colored /\ Stacked(stack, phase, live)
  BY DEF CollectorInv, HeapInv
<1>1. /\ stack \in Seq(Frames) /\ phase \in {"idle", "white", "dispose"} /\ live \subseteq Cells
      /\ kids \in [Cells -> Seq(Cells)] /\ handles \in [Cells -> Nat]
  BY <1>0, HeapTyped
<1>2. \A p : At(stack, "black", p) = 0
  BY <1>0, <1>1, NoOtherCalls, PhaseOps
<1> SUFFICES ASSUME NEW p \in Spared, NEW i \in DOMAIN kids[p] PROVE kids[p][i] \in Spared
  BY DEF ClosedIn
<1>3. /\ p \in live /\ p \in Cells /\ hdr[p].color # "white" /\ At(stack, "white", p) = 0 /\ At(stack, "dispose", p) = 0
  BY <1>1 DEF Spared
<1>4. p \notin Acyclic
  BY <1>0 DEF Leaves
<1>5. hdr[p].color \notin {"gray", "white"}
  BY <1>0, <1>1, <1>3, <1>4 DEF Colored, WorkColors
<1>6. i \in Nat \ {0} /\ kids[p][i] \in Cells
  BY <1>0, <1>3, KidsType
<1>7. ~Out(kids, hdr, stack, p, i)
  BY <1>2, <1>3, <1>5, <1>6 DEF Out, Visited, Ahead
<1>8. Count(handles, kids, hdr, stack, kids[p][i]) > 0
  BY <1>1, <1>3, <1>6, <1>7, CountOne
<1> QED
  BY <1>6, <1>8, CountedSpared

\* A cell the program can reach is live.
LEMMA ReachedLive == ASSUME CollectorInv PROVE Reachable \subseteq live
<1>0. HeapTypeOK /\ Whole
  BY DEF CollectorInv, HeapInv
<1>1. live \subseteq Cells /\ kids \in [Cells -> Seq(Cells)] /\ handles \in [Cells -> Nat]
  BY <1>0, HeapTyped
<1>2. {c \in Cells : handles[c] > 0} \subseteq Spared
  <2> SUFFICES ASSUME NEW c \in Cells, handles[c] > 0 PROVE c \in Spared
    OBVIOUS
  <2>1. Count(handles, kids, hdr, stack, c) > 0
    BY <1>1, CountOne
  <2> QED
    BY <2>1, CountedSpared
<1>3. Spared \subseteq live
  BY DEF Spared
<1>4. CASE phase \in {"mark", "scan"}
  <2>1. ClosedIn(kids, live)
    BY <1>0, <1>1, <1>4 DEF Whole, ClosedIn
  <2>2. {c \in Cells : handles[c] > 0} \subseteq live
    BY <1>2, <1>3
  <2> QED
    BY <2>1, <2>2, <1>1, ReachedWithin DEF Reachable
<1>5. CASE phase \notin {"mark", "scan"}
  <2>1. ClosedIn(kids, Spared) /\ Spared \in SUBSET Cells
    BY <1>1, <1>3, <1>5, SparedClosed
  <2>2. ReachableFrom({c \in Cells : handles[c] > 0}) \subseteq Spared
    BY <2>1, <1>2, ReachedWithin
  <2> QED
    BY <2>2, <1>3 DEF Reachable
<1> QED
  BY <1>4, <1>5

\* In a quiet heap every count is the number of references.
LEMMA QuietCounts == ASSUME CollectorInv PROVE CountsExact
<1> SUFFICES ASSUME Quiet, NEW c \in live PROVE hdr[c].rc = References(c)
  BY DEF CountsExact
<1>1. PlainInv
  BY QuietPlain
<1>2. PlainCounts /\ live \subseteq Cells
  BY <1>1, HeapTyped DEF PlainInv
<1>3. Slots = SlotsIn(kids)
  BY DEF Slots, SlotsIn
<1>4. References(c) = handles[c] + Cardinality(Plain(kids, c))
  BY <1>3 DEF References, Plain
<1> QED
  BY <1>2, <1>4 DEF PlainCounts

\* A sequence without repetition is as long as its range is large.
LEMMA InjectiveCount ==
  ASSUME NEW q \in Seq(Cells), IsInjective(q)
  PROVE  Cardinality(Range(q)) = Len(q)
<1>1. Len(q) \in Nat /\ DOMAIN q = 1..Len(q) /\ q = [i \in 1..Len(q) |-> q[i]]
  BY LenProperties
<1>2. \A i, j \in 1..Len(q) : q[i] = q[j] => i = j
  BY <1>1 DEF IsInjective
<1>3. IsFiniteSet(1..Len(q)) /\ Cardinality(1..Len(q)) = Len(q)
  <2>1. 1 \in Int /\ Len(q) \in Int
    BY <1>1
  <2>2. IsFiniteSet(1..Len(q)) /\ Cardinality(1..Len(q)) = IF 1 > Len(q) THEN 0 ELSE Len(q) - 1 + 1
    BY <2>1, FS_Interval
  <2> QED
    BY <2>2, <1>1
<1>4. Cardinality({q[i] : i \in 1..Len(q)}) = Cardinality(1..Len(q))
  BY <1>1, <1>2, <1>3, ImageCount
<1>5. Range(q) = {q[i] : i \in 1..Len(q)}
  BY <1>1 DEF Range
<1> QED
  BY <1>3, <1>4, <1>5

\* The roots that are left are live, and the candidates are the buffered cells.
LEMMA RootsLive == ASSUME CollectorInv PROVE CandidatesExact
<1>0. HeapTypeOK /\ Enlisted /\ Scanning /\ Collecting /\ ParkedAlone
  BY DEF CollectorInv, HeapInv
<1>1. Range(work) \subseteq live
  <2>1. CASE phase = "mark"
    BY <2>1, <1>0 DEF Enlisted, Slotted, Buffered
  <2>2. CASE phase = "scan"
    BY <2>2, <1>0 DEF Scanning
  <2>3. CASE phase = "white"
    BY <2>3, <1>0 DEF Collecting
  <2>4. CASE phase = "dispose"
    BY <2>4, <1>0 DEF ParkedAlone, Parked
  <2>5. CASE phase = "idle"
    <3>1. work = <<>>
      BY <2>5, <1>0 DEF Enlisted
    <3> QED
      BY <3>1 DEF Range
  <2> QED
    BY <2>1, <2>2, <2>3, <2>4, <2>5, <1>0, HeapTyped
<1>2. ASSUME Quiet
      PROVE  Range(cand) = {c \in live : hdr[c].buffered} /\ Cardinality(Range(cand)) = Len(cand)
  <2>1. Range(cand) = Buffered /\ IsInjective(cand) /\ cand \in Seq(Cells)
    BY <1>2, QuietPlain, HeapTyped DEF PlainInv
  <2>2. Cardinality(Range(cand)) = Len(cand)
    BY <2>1, InjectiveCount
  <2> QED
    BY <2>1, <2>2 DEF Buffered
<1>3. ASSUME Quiet, isolate # "gone", NEW c \in live
      PROVE  /\ hdr[c].color \in {"green", "black", "purple"}
             /\ hdr[c].color = "purple" => hdr[c].buffered /\ hdr[c].rc > 0
             /\ hdr[c].rc = 0 => hdr[c].buffered
  <2>1. PlainColors /\ PlainRoots /\ Leaves
    BY <1>3, QuietPlain DEF PlainInv
  <2>2. CASE c \in Acyclic
    BY <2>1, <2>2 DEF Leaves, PlainRoots
  <2>3. CASE c \notin Acyclic
    BY <2>1, <2>3 DEF PlainColors, PlainRoots
  <2> QED
    BY <2>2, <2>3
<1> QED
  BY <1>1, <1>2, <1>3 DEF CandidatesExact

\* Every live cell can be reached from a handle or from a candidate.
LEMMA NoneForgotten == ASSUME CollectorInv PROVE GarbageEnrolled
<1> SUFFICES ASSUME Quiet, isolate # "gone" PROVE live \subseteq Reachable \cup ReachableFrom(Range(cand) \cup lost)
  BY DEF GarbageEnrolled
<1> DEFINE H == {c \in Cells : handles[c] > 0}
           E == Range(cand) \cup lost
           A == ReachableFrom(H) \cup ReachableFrom(E)
           Z == live \ Acyclic
           X == Z \ A
<1>0. PlainInv
  BY QuietPlain
<1>1. HeapTypeOK /\ PlainRoots /\ PlainCounts /\ Leaves /\ DeadBlank
  BY <1>0 DEF PlainInv
<1>2. live \subseteq Cells /\ kids \in [Cells -> Seq(Cells)]
  BY <1>1, HeapTyped
<1>3. \A c \in Cells : c \in Grounds => c \in A
  BY <1>1, ReachedFrom DEF Grounds
<1>4. \A p \in A : \A i \in DOMAIN kids[p] : kids[p][i] \in A
  BY <1>1, ReachedFrom
<1>5. X = {}
  <2> SUFFICES ASSUME X # {} PROVE FALSE
    OBVIOUS
  <2>1. Covered(kids, Z, Grounds) /\ X \in SUBSET Z
    BY <1>1 DEF PlainRoots
  <2>2. X \cap Grounds # {} \/ \E p \in Z \ X : \E i \in DOMAIN kids[p] : kids[p][i] \in X
    BY <2>1 DEF Covered
  <2>3. X \cap Grounds = {}
    BY <1>2, <1>3
  <2>4. PICK p \in Z \ X : \E i \in DOMAIN kids[p] : kids[p][i] \in X
    BY <2>2, <2>3
  <2>5. p \in A
    BY <2>4
  <2> QED
    BY <2>4, <2>5, <1>4
<1>6. ASSUME NEW c \in live, c \in Acyclic PROVE c \in A
  <2>1. hdr[c].rc # 0 /\ c \in Cells
    BY <1>1, <1>2, <1>6 DEF PlainRoots, Leaves
  <2>2. handles[c] + Cardinality(Plain(kids, c)) # 0
    BY <2>1, <1>1 DEF PlainCounts
  <2>3. CASE handles[c] > 0
    BY <2>1, <2>3, <1>1, ReachedFrom
  <2>4. CASE Plain(kids, c) # {}
    <3>1. PICK e \in SlotsIn(kids) : kids[e[1]][e[2]] = c
      BY <2>4 DEF Plain
    <3>2. e[1] \in Cells /\ e[2] \in DOMAIN kids[e[1]]
      BY <1>2, SlotsIs
    <3>3. e[1] \in live /\ e[1] \notin Acyclic
      BY <3>2, <1>1 DEF Leaves, DeadBlank
    <3>4. e[1] \in A
      BY <3>3, <1>5
    <3> QED
      BY <3>1, <3>2, <3>4, <1>4
  <2>5. CASE Plain(kids, c) = {} /\ ~(handles[c] > 0)
    <3>1. Cardinality(Plain(kids, c)) = 0
      BY <2>5, FS_EmptySet
    <3>2. handles[c] \in Nat
      BY <2>1, <1>1, HeapTyped
    <3> QED
      BY <3>1, <3>2, <2>2, <2>5
  <2> QED
    BY <2>3, <2>4, <2>5
<1>7. ASSUME NEW c \in live PROVE c \in A
  BY <1>5, <1>6, <1>7
<1> QED
  BY <1>7 DEF Reachable

\* The variables of the heap keep their types: no count wraps around, no call
\* works on anything but a cell.
THEOREM HeapTypeCorrect == ASSUME NoSaturation PROVE HeapSpec => []HeapTypeOK
<1>1. CollectorInv => HeapTypeOK
  BY DEF CollectorInv, HeapInv
<1> QED
  BY <1>1, HeapInvariant, PTL

\* ReachableAlive: no step of the collector, nor of a cascade of finalizers,
\* frees a cell the program can still reach.
THEOREM ReachableAliveHolds == ASSUME NoSaturation PROVE HeapSpec => []ReachableAlive
<1>1. CollectorInv => ReachableAlive
  BY ReachedLive DEF ReachableAlive
<1> QED
  BY <1>1, HeapInvariant, PTL

\* CountsExact: between two operations every refcount is the number of the
\* references there are, whatever the collections so far have subtracted.
THEOREM CountsExactHolds == ASSUME NoSaturation PROVE HeapSpec => []CountsExact
<1>1. CollectorInv => CountsExact
  BY QuietCounts
<1> QED
  BY <1>1, HeapInvariant, PTL

\* CandidatesExact: a buffered cell has one slot and no slot outlives its cell,
\* in a collection that is under way too.
THEOREM CandidatesExactHolds == ASSUME NoSaturation PROVE HeapSpec => []CandidatesExact
<1>1. CollectorInv => CandidatesExact
  BY RootsLive
<1> QED
  BY <1>1, HeapInvariant, PTL

\* GarbageEnrolled: every cell that can no longer be reached hangs off a
\* candidate, or off a cell whose last decrement no collector recorded.
THEOREM GarbageEnrolledHolds == ASSUME NoSaturation PROVE HeapSpec => []GarbageEnrolled
<1>1. CollectorInv => GarbageEnrolled
  BY NoneForgotten
<1> QED
  BY <1>1, HeapInvariant, PTL

-----------------------------------------------------------------------------
(* Dispatch.                                                               *)

\* What a method is: code for a signature of a script or of the runtime.
Method ==
  {m \in [sig : Seq(Classes), va : BOOLEAN, code : 0..MaxDefs] :
     /\ m.va => m.sig # <<>>
     /\ \E s \in Signatures \cup Range(Natives) : Same(m, s)}

-----------------------------------------------------------------------------
(* The order on classes.                                                    *)

\* Subtyping is a partial order in which the ancestors of a class are a chain.
LEMMA ClassOrder ==
  /\ \A c \in Classes : IsA(c, c)
  /\ \A c, d, e \in Classes : IsA(c, d) /\ IsA(d, e) => IsA(c, e)
  /\ \A c, d \in Classes : IsA(c, d) /\ IsA(d, c) => c = d
  /\ \A c, d, e \in Classes : IsA(c, d) /\ IsA(c, e) => Comparable(d, e)
  BY ClassAssumption DEF IsA, Comparable

\* The fields of a method.
LEMMA MethodFacts ==
  ASSUME NEW m \in Method
  PROVE  /\ m.sig \in Seq(Classes) /\ m.va \in BOOLEAN /\ Fixed(m) \in Nat
         /\ \A i \in Nat \ {0} : i <= Fixed(m) \/ m.va => Eff(m, i) \in Classes
         /\ \A i \in Nat \ {0} : i > Fixed(m) => Eff(m, i) = Eff(m, Fixed(m) + 1)
         /\ \A argc \in Nat : AppliesAt(m, argc) =>
                Fixed(m) <= argc /\ \A i \in 1..argc : Eff(m, i) \in Classes
<1>1. m.sig \in Seq(Classes) /\ m.va \in BOOLEAN /\ (m.va => m.sig # <<>>)
  BY DEF Method
<1>2. Len(m.sig) \in Nat /\ (m.va => Len(m.sig) \in Nat \ {0})
  BY <1>1
<1>3. \A i \in 1..Len(m.sig) : m.sig[i] \in Classes
  BY <1>1
<1>4. Fixed(m) \in Nat /\ Fixed(m) <= Len(m.sig) /\ (m.va => Fixed(m) + 1 = Len(m.sig))
  BY <1>1, <1>2 DEF Fixed
<1>5. Last(m.sig) = m.sig[Len(m.sig)]
  BY DEF Last
<1>6. \A i \in Nat \ {0} : i <= Fixed(m) \/ m.va => Eff(m, i) \in Classes
  BY <1>2, <1>3, <1>4, <1>5 DEF Eff
<1>7. \A i \in Nat \ {0} : i > Fixed(m) => Eff(m, i) = Eff(m, Fixed(m) + 1)
  BY <1>4, <1>5 DEF Eff
<1>8. \A argc \in Nat : AppliesAt(m, argc) =>
          Fixed(m) <= argc /\ \A i \in 1..argc : Eff(m, i) \in Classes
  BY <1>4, <1>6 DEF AppliesAt
<1> QED
  BY <1>1, <1>4, <1>6, <1>7, <1>8

\* Everything a resolution asks of a method is in its shape.
LEMMA ShapeSuffices ==
  ASSUME NEW m, NEW mm, Same(m, mm)
  PROVE  /\ Fixed(m) = Fixed(mm)
         /\ \A args : Applicable(m, args) <=> Applicable(mm, args)
         /\ \A n, nn, argc : Same(n, nn) => (MoreSpecific(m, n, argc) <=> MoreSpecific(mm, nn, argc))
<1>1. m.sig = mm.sig /\ m.va = mm.va
  BY DEF Same
<1>2. Fixed(m) = Fixed(mm)
  BY <1>1 DEF Fixed
<1>3. \A i : Eff(m, i) = Eff(mm, i)
  BY <1>1, <1>2 DEF Eff
<1>4. \A args : Applicable(m, args) <=> Applicable(mm, args)
  BY <1>1, <1>2, <1>3 DEF Applicable, AppliesAt
<1>5. ASSUME NEW n, NEW nn, NEW argc, Same(n, nn)
      PROVE  MoreSpecific(m, n, argc) <=> MoreSpecific(mm, nn, argc)
  <2>1. n.sig = nn.sig /\ n.va = nn.va
    BY <1>5 DEF Same
  <2>2. Fixed(n) = Fixed(nn)
    BY <2>1 DEF Fixed
  <2>3. \A i : Eff(n, i) = Eff(nn, i)
    BY <2>1, <2>2 DEF Eff
  <2>4. /\ PointwiseLe(m, n, argc) <=> PointwiseLe(mm, nn, argc)
        /\ PointwiseLe(n, m, argc) <=> PointwiseLe(nn, mm, argc)
    BY <1>3, <2>3 DEF PointwiseLe
  <2> QED
    BY <1>1, <1>2, <2>1, <2>2, <2>4 DEF MoreSpecific
<1> QED
  BY <1>2, <1>4, <1>5

-----------------------------------------------------------------------------
(* Full resolution.                                                         *)

\* The pass: its best method after each one, and what it returns.
LEMMA ResolvePass ==
  ASSUME NEW ms, Len(ms) \in Nat, NEW args
  PROVE  \E f \in [0..Len(ms) -> 0..Len(ms)] :
             /\ f[0] = 0 /\ \A k \in 1..Len(ms) : f[k] = Better(ms, args, f[k - 1], k)
             /\ FullResolve(ms, args) = f[Len(ms)]
<1> DEFINE n == Len(ms)
           g == [p \in (1..n) \X (0..n) |-> Better(ms, args, p[2], p[1])]
           Def(f) == [k \in 0..n |-> IF k = 0 THEN 0 ELSE Better(ms, args, f[k - 1], k)]
           best == CHOOSE f : f = Def(f)
<1>1. \A v \in 0..n, k \in 1..n : Better(ms, args, v, k) \in 0..n /\ g[<<k, v>>] = Better(ms, args, v, k)
  BY DEF Better
<1>3. \E f \in [0..n -> 0..n] : Pass(f, 0, g, n)
  <2>1. n \in Nat /\ 0 \in 0..n
    OBVIOUS
  <2> DEFINE V == 0..n
  <2>2. DOMAIN g = (1..n) \X V /\ (\A k \in 1..n, v \in V : g[<<k, v>>] \in V) /\ 0 \in V
    BY <1>1, <2>1
  <2> HIDE DEF g, n, V
  <2>3. \E f \in [0..n -> V] : Pass(f, 0, g, n)
    BY <2>1, <2>2, PassExists
  <2> QED
    BY <2>3 DEF V
<1>4. PICK f \in [0..n -> 0..n] : f[0] = 0 /\ \A k \in 1..n : f[k] = Better(ms, args, f[k - 1], k)
  <2>1. PICK f \in [0..n -> 0..n] : f[0] = 0 /\ \A k \in 1..n : f[k] = g[<<k, f[k - 1]>>]
    BY <1>3 DEF Pass
  <2>2. \A k \in 1..n : f[k - 1] \in 0..n
    OBVIOUS
  <2> QED
    BY <1>1, <2>1, <2>2
<1>5. f = Def(f)
  <2>1. \A k \in 0..n : k # 0 => k \in 1..n
    OBVIOUS
  <2>2. \A k \in 0..n : f[k] = IF k = 0 THEN 0 ELSE Better(ms, args, f[k - 1], k)
    BY <1>4, <2>1
  <2> QED
    BY <2>2
<1>6. best = Def(best)
  <2> HIDE DEF Def
  <2> QED
    BY <1>5
<1>7. best[0] = 0 /\ \A k \in 1..n : best[k] = Better(ms, args, best[k - 1], k)
  <2>1. ASSUME NEW h, h = Def(h)
        PROVE  h[0] = 0 /\ \A k \in 1..n : h[k] = Better(ms, args, h[k - 1], k)
    <3>1. \A k \in 0..n : h[k] = IF k = 0 THEN 0 ELSE Better(ms, args, h[k - 1], k)
      BY <2>1
    <3> QED
      BY <3>1
  <2> HIDE DEF best, Def
  <2> QED
    BY <1>6, <2>1
<1>8. FullResolve(ms, args) = best[n]
  BY DEF FullResolve
<1>9. \A k \in 0..n : f[k] = best[k]
  <2>1. f[0] = best[0]
    BY <1>4, <1>7
  <2>2. \A k \in 0..(n - 1) : f[k] = best[k] => f[k + 1] = best[k + 1]
    <3> HIDE DEF best
    <3> SUFFICES ASSUME NEW k \in 0..(n - 1), f[k] = best[k] PROVE f[k + 1] = best[k + 1]
      OBVIOUS
    <3>1. k + 1 \in 1..n /\ (k + 1) - 1 = k
      OBVIOUS
    <3> QED
      BY <3>1, <1>4, <1>7
  <2> HIDE DEF best, n
  <2> QED
    BY <2>1, <2>2, PassUnique DEF n
<1>10. n \in 0..n
  OBVIOUS
<1> HIDE DEF best
<1> QED
  BY <1>4, <1>8, <1>9, <1>10

\* What is returned applies, and when nothing is returned nothing applies.
LEMMA ResolveFinds ==
  ASSUME NEW ms, Len(ms) \in Nat, NEW args
  PROVE  /\ FullResolve(ms, args) \in 0..Len(ms)
         /\ FullResolve(ms, args) > 0 => Applicable(ms[FullResolve(ms, args)], args)
         /\ FullResolve(ms, args) = 0 => \A i \in 1..Len(ms) : ~Applicable(ms[i], args)
<1> DEFINE n == Len(ms)
<1>1. PICK f \in [0..n -> 0..n] : /\ f[0] = 0 /\ \A k \in 1..n : f[k] = Better(ms, args, f[k - 1], k)
                                  /\ FullResolve(ms, args) = f[n]
  BY ResolvePass
<1> DEFINE S == {k \in 0..n : /\ f[k] > 0 => Applicable(ms[f[k]], args)
                              /\ f[k] = 0 => \A i \in 1..k : ~Applicable(ms[i], args)}
<1>2. 0 \in S
  BY <1>1
<1>3. \A k \in 0..(n - 1) : k \in S => k + 1 \in S
  <2> SUFFICES ASSUME NEW k \in 0..(n - 1), k \in S PROVE k + 1 \in S
    OBVIOUS
  <2>1. k + 1 \in 1..n /\ k + 1 \in 0..n /\ (k + 1) - 1 = k /\ f[k] \in 0..n
    OBVIOUS
  <2>2. f[k + 1] = Better(ms, args, f[k], k + 1)
    BY <1>1, <2>1
  <2>3. CASE Applicable(ms[k + 1], args) /\ (f[k] = 0 \/ MoreSpecific(ms[k + 1], ms[f[k]], Len(args)))
    BY <2>1, <2>2, <2>3 DEF Better
  <2>4. CASE ~(Applicable(ms[k + 1], args) /\ (f[k] = 0 \/ MoreSpecific(ms[k + 1], ms[f[k]], Len(args))))
    <3>1. f[k + 1] = f[k] /\ (f[k] = 0 => ~Applicable(ms[k + 1], args))
      BY <2>2, <2>4 DEF Better
    <3>2. \A i \in 1..(k + 1) : i \in 1..k \/ i = k + 1
      OBVIOUS
    <3> QED
      BY <2>1, <3>1, <3>2
  <2> QED
    BY <2>3, <2>4
<1>4. n \in S
  <2>1. n \in Nat /\ n \in 0..n
    OBVIOUS
  <2> HIDE DEF S, n
  <2> QED
    BY <1>2, <1>3, <2>1, UpTo
<1> QED
  BY <1>1, <1>4

\* The code of the methods plays no part.
LEMMA ResolveShape ==
  ASSUME NEW ms, NEW ns, Len(ms) \in Nat, Len(ns) = Len(ms),
         \A k \in 1..Len(ms) : Same(ms[k], ns[k]), NEW args
  PROVE  FullResolve(ms, args) = FullResolve(ns, args)
<1> DEFINE n == Len(ms)
<1>1. PICK f \in [0..n -> 0..n] : /\ f[0] = 0 /\ \A k \in 1..n : f[k] = Better(ms, args, f[k - 1], k)
                                  /\ FullResolve(ms, args) = f[n]
  BY ResolvePass
<1>2. PICK h \in [0..n -> 0..n] : /\ h[0] = 0 /\ \A k \in 1..n : h[k] = Better(ns, args, h[k - 1], k)
                                  /\ FullResolve(ns, args) = h[n]
  <2>1. \E h \in [0..Len(ns) -> 0..Len(ns)] :
            /\ h[0] = 0 /\ \A k \in 1..Len(ns) : h[k] = Better(ns, args, h[k - 1], k)
            /\ FullResolve(ns, args) = h[Len(ns)]
    BY ResolvePass
  <2> QED
    BY <2>1
<1>3. \A k \in 1..n, b \in 0..n : Better(ms, args, b, k) = Better(ns, args, b, k)
  <2> SUFFICES ASSUME NEW k \in 1..n, NEW b \in 0..n
               PROVE  Better(ms, args, b, k) = Better(ns, args, b, k)
    OBVIOUS
  <2>1. Applicable(ms[k], args) <=> Applicable(ns[k], args)
    BY ShapeSuffices
  <2>2. b # 0 => (MoreSpecific(ms[k], ms[b], Len(args)) <=> MoreSpecific(ns[k], ns[b], Len(args)))
    <3>1. b # 0 => b \in 1..n
      OBVIOUS
    <3> QED
      BY <3>1, ShapeSuffices
  <2> QED
    BY <2>1, <2>2 DEF Better
<1>4. \A k \in 0..(n - 1) : f[k] = h[k] => f[k + 1] = h[k + 1]
  <2> SUFFICES ASSUME NEW k \in 0..(n - 1), f[k] = h[k] PROVE f[k + 1] = h[k + 1]
    OBVIOUS
  <2>1. k + 1 \in 1..n /\ (k + 1) - 1 = k /\ f[k] \in 0..n
    OBVIOUS
  <2> QED
    BY <2>1, <1>1, <1>2, <1>3
<1>5. \A k \in 0..n : f[k] = h[k]
  <2>1. n \in Nat /\ f[0] = h[0]
    BY <1>1, <1>2
  <2> HIDE DEF n
  <2> QED
    BY <1>4, <2>1, PassUnique
<1> QED
  BY <1>1, <1>2, <1>5

\* A method more is a step more.
LEMMA ResolveAppend ==
  ASSUME NEW S, NEW ms \in Seq(S), NEW new \in S, NEW args
  PROVE  FullResolve(Append(ms, new), args) =
             Better(Append(ms, new), args, FullResolve(ms, args), Len(ms) + 1)
<1> DEFINE n == Len(ms)
           ns == Append(ms, new)
<1>1. n \in Nat /\ Len(ns) = n + 1 /\ \A k \in 1..n : ns[k] = ms[k]
  OBVIOUS
<1> HIDE DEF ns
<1>2. PICK f \in [0..n -> 0..n] : /\ f[0] = 0 /\ \A k \in 1..n : f[k] = Better(ms, args, f[k - 1], k)
                                  /\ FullResolve(ms, args) = f[n]
  BY <1>1, ResolvePass
<1>3. PICK h \in [0..(n + 1) -> 0..(n + 1)] :
          /\ h[0] = 0 /\ \A k \in 1..(n + 1) : h[k] = Better(ns, args, h[k - 1], k)
          /\ FullResolve(ns, args) = h[n + 1]
  <2>1. Len(ns) \in Nat
    BY <1>1
  <2>2. \E h \in [0..Len(ns) -> 0..Len(ns)] :
            /\ h[0] = 0 /\ \A k \in 1..Len(ns) : h[k] = Better(ns, args, h[k - 1], k)
            /\ FullResolve(ns, args) = h[Len(ns)]
    BY <2>1, ResolvePass, Zenon
  <2> QED
    BY <1>1, <2>2
<1>4. \A k \in 1..n, b \in 0..n : Better(ms, args, b, k) = Better(ns, args, b, k)
  <2>1. \A b \in 0..n : b = 0 \/ b \in 1..n
    OBVIOUS
  <2> QED
    BY <1>1, <2>1 DEF Better
<1>5. \A k \in 0..(n - 1) : f[k] = h[k] => f[k + 1] = h[k + 1]
  <2> SUFFICES ASSUME NEW k \in 0..(n - 1), f[k] = h[k] PROVE f[k + 1] = h[k + 1]
    OBVIOUS
  <2>1. k + 1 \in 1..n /\ k + 1 \in 1..(n + 1) /\ (k + 1) - 1 = k /\ f[k] \in 0..n
    BY <1>1
  <2> QED
    BY <2>1, <1>2, <1>3, <1>4
<1>6. \A k \in 0..n : f[k] = h[k]
  <2>1. n \in Nat /\ f[0] = h[0]
    BY <1>1, <1>2, <1>3
  <2> HIDE DEF n
  <2> QED
    BY <1>5, <2>1, PassUnique
<1>7. n + 1 \in 1..(n + 1) /\ (n + 1) - 1 = n /\ n \in 0..n
  BY <1>1
<1> QED
  BY <1>2, <1>3, <1>6, <1>7 DEF ns

-----------------------------------------------------------------------------
(* Retraction.                                                              *)

\* No signature is registered twice.
Distinct(ms) == \A i, j \in 1..Len(ms) : Same(ms[i], ms[j]) => i = j

Without(ms, r) == \A i \in 1..Len(ms) : ~Same(ms[i], r)

ComesFrom(ns, ms) == \A i \in 1..Len(ns) : \E j \in 1..Len(ms) : ns[i] = ms[j]

\* remove_method leaves methods that were there, each once, and none of the
\* signature it removes.
LEMMA RemoveFacts ==
  ASSUME NEW ms \in Seq(Method), NEW r
  PROVE  /\ RemoveFrom(ms, r) \in Seq(Method) /\ ComesFrom(RemoveFrom(ms, r), ms)
         /\ Distinct(ms) => Distinct(RemoveFrom(ms, r)) /\ Without(RemoveFrom(ms, r), r)
<1> DEFINE n == Len(ms)
           A == {i \in 1..n : Same(ms[i], r)}
           ns == RemoveFrom(ms, r)
<1>1. n \in Nat /\ ms \in [1..n -> Method]
  OBVIOUS
<1>2. CASE A = {}
  <2>1. ns = ms
    BY <1>2 DEF RemoveFrom
  <2>2. Without(ms, r)
    BY <1>2 DEF Without
  <2> QED
    BY <2>1, <2>2 DEF ComesFrom
<1>3. CASE A # {}
  <2>1. PICK a \in A : a = Min(A)
    <3>1. A \in SUBSET Nat
      BY <1>1
    <3> HIDE DEF A
    <3> QED
      BY <1>3, <3>1, MinLeast
  <2>2. a \in 1..n /\ Same(ms[a], r) /\ n - 1 \in Nat
    BY <1>1, <2>1
  <2>3. ns = EraseAt(ms, a)
    BY <1>3, <2>1 DEF RemoveFrom
  <2> DEFINE src == [k \in 1..(n - 1) |-> IF k = a THEN n ELSE k]
  <2>4. Last(ms) = ms[n]
    BY DEF Last
  <2>5. ns = [k \in 1..(n - 1) |-> ms[src[k]]]
    BY <2>3, <2>4 DEF EraseAt
  <2>6. \A k \in 1..(n - 1) : src[k] \in 1..n /\ src[k] # a
    <3> HIDE DEF n, A, ns
    <3> SUFFICES ASSUME NEW k \in 1..(n - 1) PROVE src[k] \in 1..n /\ src[k] # a
      OBVIOUS
    <3>1. src[k] = IF k = a THEN n ELSE k
      OBVIOUS
    <3>2. k \in 1..n /\ n \in 1..n /\ k # n
      BY <1>1
    <3> QED
      BY <2>2, <3>1, <3>2
  <2>7. \A j, k \in 1..(n - 1) : src[j] = src[k] => j = k
    BY <1>1, <2>2, SMTT(60)
  <2>8. ns \in [1..(n - 1) -> Method]
    BY <1>1, <2>5, <2>6
  <2>9. ns \in Seq(Method) /\ Len(ns) = n - 1
    <3> HIDE DEF ns
    <3> QED
      BY <2>2, <2>8, FunctionIsSeq
  <2> HIDE DEF src, ns, A
  <2>10. \A k \in 1..(n - 1) : ns[k] = ms[src[k]]
    BY <2>5
  <2>11. ComesFrom(ns, ms)
    BY <2>6, <2>9, <2>10 DEF ComesFrom
  <2>12. ASSUME Distinct(ms) PROVE Distinct(ns) /\ Without(ns, r)
    <3>1. \A j, k \in 1..(n - 1) : Same(ns[j], ns[k]) => j = k
      BY <2>6, <2>7, <2>10, <2>12, SMTT(60) DEF Distinct
    <3>2. ASSUME NEW k \in 1..(n - 1), Same(ns[k], r) PROVE FALSE
      <4>1. Same(ms[src[k]], ms[a])
        BY <2>2, <2>10, <3>2 DEF Same
      <4> QED
        BY <2>2, <2>6, <2>12, <4>1 DEF Distinct
    <3> QED
      BY <2>9, <3>1, <3>2 DEF Distinct, Without
  <2> QED
    BY <2>9, <2>11, <2>12 DEF ns
<1> QED
  BY <1>2, <1>3

\* The pass over the journal, from its end.
LEMMA RetractPass ==
  ASSUME NEW m, methods \in Seq(Method), Len(journal[m]) \in Nat
  PROVE  LET n == Len(journal[m])
         IN  \E f \in [0..n -> Seq(Method)] :
                /\ f[0] = methods
                /\ \A k \in 1..n : f[k] = RemoveFrom(f[k - 1], journal[m][n + 1 - k])
                /\ Retracted(m) = f[n]
<1> DEFINE n == Len(journal[m])
           V == Seq(Method)
           R(v, k) == RemoveFrom(v, journal[m][n + 1 - k])
           g == [p \in (1..n) \X V |-> R(p[2], p[1])]
           Def(f) == [k \in 0..n |-> IF k = 0 THEN methods ELSE R(f[k - 1], k)]
           left == CHOOSE f : f = Def(f)
<1>1. \A v \in V, k \in 1..n : R(v, k) \in V /\ g[<<k, v>>] = R(v, k)
  BY RemoveFacts
<1>2. \E f \in [0..n -> V] : Pass(f, methods, g, n)
  <2>1. n \in Nat /\ DOMAIN g = (1..n) \X V /\ (\A k \in 1..n, v \in V : g[<<k, v>>] \in V) /\ methods \in V
    <3> HIDE DEF R
    <3> QED
      BY <1>1
  <2> HIDE DEF g, n, V
  <2> QED
    BY <2>1, PassExists
<1>3. PICK f \in [0..n -> V] : f[0] = methods /\ \A k \in 1..n : f[k] = R(f[k - 1], k)
  <2>1. PICK f \in [0..n -> V] : f[0] = methods /\ \A k \in 1..n : f[k] = g[<<k, f[k - 1]>>]
    BY <1>2 DEF Pass
  <2>2. \A k \in 1..n : f[k - 1] \in V
    OBVIOUS
  <2> HIDE DEF R, g, V
  <2> QED
    BY <1>1, <2>1, <2>2
<1> HIDE DEF R
<1>4. f = Def(f)
  <2>1. \A k \in 0..n : k # 0 => k \in 1..n
    OBVIOUS
  <2>2. \A k \in 0..n : f[k] = IF k = 0 THEN methods ELSE R(f[k - 1], k)
    BY <1>3, <2>1
  <2> QED
    BY <2>2
<1>5. left = Def(left)
  <2> HIDE DEF Def
  <2> QED
    BY <1>4
<1>6. left[0] = methods /\ \A k \in 1..n : left[k] = R(left[k - 1], k)
  <2>1. ASSUME NEW h, h = Def(h)
        PROVE  h[0] = methods /\ \A k \in 1..n : h[k] = R(h[k - 1], k)
    <3>1. \A k \in 0..n : h[k] = IF k = 0 THEN methods ELSE R(h[k - 1], k)
      BY <2>1
    <3> QED
      BY <3>1
  <2> HIDE DEF left, Def
  <2> QED
    BY <1>5, <2>1
<1>7. Retracted(m) = left[n]
  BY DEF Retracted, R
<1>8. \A k \in 0..n : f[k] = left[k]
  <2>1. n \in Nat /\ f[0] = left[0]
    BY <1>3, <1>6
  <2>2. \A k \in 0..(n - 1) : f[k] = left[k] => f[k + 1] = left[k + 1]
    <3> HIDE DEF left
    <3> SUFFICES ASSUME NEW k \in 0..(n - 1), f[k] = left[k] PROVE f[k + 1] = left[k + 1]
      OBVIOUS
    <3>1. k + 1 \in 1..n /\ (k + 1) - 1 = k
      OBVIOUS
    <3> QED
      BY <3>1, <1>3, <1>6
  <2> HIDE DEF left, n
  <2> QED
    BY <2>1, <2>2, PassUnique, ZenonT(60)
<1>9. n \in 0..n
  OBVIOUS
<1> HIDE DEF left
<1> QED
  BY <1>3, <1>7, <1>8, <1>9 DEF R

\* What a retraction leaves was there, and is nothing the isolate registered.
LEMMA RetractFacts ==
  ASSUME NEW m, methods \in Seq(Method), Distinct(methods), Len(journal[m]) \in Nat
  PROVE  /\ Retracted(m) \in Seq(Method) /\ Distinct(Retracted(m)) /\ ComesFrom(Retracted(m), methods)
         /\ \A j \in 1..Len(journal[m]) : Without(Retracted(m), journal[m][j])
<1> DEFINE n == Len(journal[m])
<1>1. PICK f \in [0..n -> Seq(Method)] :
          /\ f[0] = methods
          /\ \A k \in 1..n : f[k] = RemoveFrom(f[k - 1], journal[m][n + 1 - k])
          /\ Retracted(m) = f[n]
  BY RetractPass
<1> DEFINE Good(ms, k) == /\ Distinct(ms) /\ ComesFrom(ms, methods)
                          /\ \A j \in (n + 1 - k)..n : Without(ms, journal[m][j])
           S == {k \in 0..n : Good(f[k], k)}
<1>2. 0 \in S
  <2>1. ComesFrom(methods, methods) /\ \A j \in (n + 1 - 0)..n : FALSE
    BY DEF ComesFrom
  <2> QED
    BY <1>1, <2>1
<1>3. \A k \in 0..(n - 1) : k \in S => k + 1 \in S
  <2> SUFFICES ASSUME NEW k \in 0..(n - 1), Good(f[k], k) PROVE Good(f[k + 1], k + 1)
    <3>1. n \in Nat
      OBVIOUS
    <3>2. \A k \in 0..(n - 1) : k + 1 \in 0..n
      BY <3>1
    <3> HIDE DEF Good, n
    <3> QED
      BY <3>2
  <2> DEFINE r == journal[m][n + 1 - (k + 1)]
  <2>0. n \in Nat
    OBVIOUS
  <2>1. k + 1 \in 1..n /\ (k + 1) - 1 = k /\ f[k] \in Seq(Method) /\ n + 1 - (k + 1) \in 1..n
    <3> HIDE DEF n
    <3> QED
      BY <2>0
  <2>2. f[k + 1] = RemoveFrom(f[k], r)
    BY <1>1, <2>1
  <2>3. Distinct(f[k + 1]) /\ Without(f[k + 1], r) /\ ComesFrom(f[k + 1], f[k])
    BY <2>1, <2>2, RemoveFacts
  <2>4. ComesFrom(f[k + 1], methods)
    BY <2>3 DEF ComesFrom
  <2>5. \A j \in (n + 1 - (k + 1))..n : j = n + 1 - (k + 1) \/ j \in (n + 1 - k)..n
    <3> HIDE DEF n
    <3> QED
      BY <2>0
  <2>6. \A q : Without(f[k], q) => Without(f[k + 1], q)
    BY <2>3 DEF Without, ComesFrom
  <2> QED
    BY <2>3, <2>4, <2>5, <2>6
<1>4. Good(f[n], n)
  <2>1. n \in Nat /\ n \in 0..n
    OBVIOUS
  <2> HIDE DEF n, S
  <2>2. n \in S
    BY <1>2, <1>3, <2>1, UpTo
  <2> QED
    BY <2>2 DEF S
<1>5. n + 1 - n = 1 /\ n \in 0..n
  OBVIOUS
<1> QED
  BY <1>1, <1>4, <1>5

-----------------------------------------------------------------------------
(* The invariant.                                                           *)

Typed ==
  /\ methods \in Seq(Method) /\ Distinct(methods)
  /\ mask \in Masks /\ defs \in 0..MaxDefs
  /\ epoch \in Nat /\ memoEpoch \in 0..epoch
  /\ memo \in [Keys -> -1..Len(methods)]
  /\ workerThreads = Cardinality({w \in Workers : life[w] = "live"})
  /\ life \in [Isolates -> {"off", "live", "ended"}]
  /\ journal \in [Mains -> Seq(Method)]
  /\ ic \in [Isolates -> [key : Seq(Classes), code : 0..MaxDefs, epoch : 0..epoch]]
  /\ pc \in [Isolates -> {"idle", "memo", "full"}]
  /\ call \in [Isolates -> [args : Seq(Classes), site : BOOLEAN]]

\* The memo holds what a resolution would compute.
MemoExact == memoEpoch = epoch => \A a \in Keys : memo[a] # Unset => memo[a] = FullResolve(methods, a)

\* Only the main thread is in the memo, in one call at a time.
MemoOwned ==
  /\ \A i \in Isolates : pc[i] = "memo" => i \in Mains /\ call[i].args \in Keys
  /\ \A i, j \in Mains : pc[i] # "idle" /\ pc[j] # "idle" => i = j

MethodsLive == \A i \in 1..Len(methods) : methods[i] \in Registered

\* What site i would call on a hit is registered for the signature that a
\* resolution selects.
SiteLive(i) ==
  ic[i].key # <<>> /\ ic[i].epoch = epoch =>
      LET r == FullResolve(methods, ic[i].key)
      IN  r > 0 /\ [methods[r] EXCEPT !.code = ic[i].code] \in Registered

SitesLive == \A i \in Isolates : SiteLive(i)

IInv == Typed /\ MemoExact /\ MemoOwned /\ MethodsLive /\ SitesLive

-----------------------------------------------------------------------------
(* Methods and registrations.                                               *)

\* Methods of one signature differ in their code.
LEMMA WithCode ==
  ASSUME NEW m \in Method, NEW n \in Method, Same(m, n), NEW c
  PROVE  [m EXCEPT !.code = c] = [n EXCEPT !.code = c]
  BY DEF Method, Same

\* Its own code changes nothing.
LEMMA OwnCode == ASSUME NEW m \in Method PROVE [m EXCEPT !.code = m.code] = m
  BY DEF Method

\* What a definition makes is a method.
LEMMA NewMethod ==
  ASSUME NEW s \in Signatures, Typed, defs < MaxDefs
  PROVE  /\ [sig |-> s.sig, va |-> s.va, code |-> defs + 1] \in Method
         /\ defs + 1 \in 0..MaxDefs
<1>1. s \in [sig : Seq(Classes), va : BOOLEAN] /\ (s.va => s.sig # <<>>)
  BY MethodAssumption
<1>2. defs + 1 \in 0..MaxDefs
  BY CallAssumption DEF Typed
<1>3. Same([sig |-> s.sig, va |-> s.va, code |-> defs + 1], s)
  BY DEF Same
<1> QED
  BY <1>1, <1>2, <1>3 DEF Method

\* The native methods are distinct ones.
LEMMA NativeMethods ==
  /\ Natives \in Seq(Method) /\ Distinct(Natives)
  /\ \A i \in 1..Len(Natives) : Natives[i] \in Range(Natives)
<1>1. Natives \in Seq([sig : Seq(Classes), va : BOOLEAN, code : {0}])
  BY MethodAssumption
<1>2. Len(Natives) \in Nat /\ DOMAIN Natives = 1..Len(Natives)
  BY <1>1
<1>3. \A i \in 1..Len(Natives) : Natives[i] \in Range(Natives)
  BY <1>2 DEF Range
<1>4. \A i \in 1..Len(Natives) : Natives[i] \in Method
  <2> SUFFICES ASSUME NEW i \in 1..Len(Natives) PROVE Natives[i] \in Method
    OBVIOUS
  <2> DEFINE S == [sig : Seq(Classes), va : BOOLEAN, code : {0}]
  <2>1. Natives[i] \in S
    <3>1. Natives \in Seq(S)
      BY <1>1
    <3> HIDE DEF S
    <3> QED
      BY <3>1
  <2>2. Natives[i].va => Natives[i].sig # <<>>
    BY <1>3, MethodAssumption
  <2>3. 0 \in 0..MaxDefs
    BY CallAssumption
  <2>4. Natives[i] \in Signatures \cup Range(Natives) /\ Same(Natives[i], Natives[i])
    BY <1>3 DEF Same
  <2> QED
    BY <2>1, <2>2, <2>3, <2>4 DEF Method
<1>5. Natives = [i \in 1..Len(Natives) |-> Natives[i]]
  BY <1>1
<1>6. Natives \in [1..Len(Natives) -> Method]
  BY <1>4, <1>5
<1>7. Natives \in Seq(Method)
  BY <1>2, <1>6, FunctionIsSeq
<1>8. Distinct(Natives)
  BY <1>2, MethodAssumption DEF Distinct, Same
<1> QED
  BY <1>3, <1>7, <1>8

\* A registration adds to what is registered.
LEMMA RegisteredMore ==
  ASSUME Typed, NEW m \in Mains, NEW r \in Method,
         journal' = [journal EXCEPT ![m] = Append(@, r)]
  PROVE  Registered \subseteq Registered' /\ r \in Registered'
<1>1. \A k \in Mains : journal[k] \in Seq(Method) /\ journal'[k] = IF k = m THEN Append(journal[k], r) ELSE journal[k]
  BY DEF Typed
<1>2. \A k \in Mains : Range(journal[k]) \subseteq Range(journal'[k])
  <2> SUFFICES ASSUME NEW k \in Mains, k = m PROVE Range(journal[k]) \subseteq Range(Append(journal[k], r))
    BY <1>1
  <2>1. DOMAIN journal[k] = 1..Len(journal[k]) /\ Len(journal[k]) \in Nat
    BY <1>1
  <2>2. /\ DOMAIN Append(journal[k], r) = 1..(Len(journal[k]) + 1)
        /\ \A x \in 1..Len(journal[k]) : Append(journal[k], r)[x] = journal[k][x]
    BY <1>1
  <2> QED
    BY <2>1, <2>2 DEF Range
<1>3. r \in Range(journal'[m])
  <2>1. Len(journal[m]) + 1 \in DOMAIN journal'[m] /\ journal'[m][Len(journal[m]) + 1] = r
    <3>1. journal'[m] = Append(journal[m], r) /\ journal[m] \in Seq(Method)
      BY <1>1
    <3> QED
      BY <3>1
  <2> QED
    BY <2>1 DEF Range
<1> QED
  BY <1>2, <1>3 DEF Registered

\* What is left when an isolate's journal is dropped.
LEMMA RegisteredLess ==
  ASSUME Typed, NEW m \in Mains, journal' = [journal EXCEPT ![m] = <<>>],
         NEW x \in Registered, x \notin Range(journal[m])
  PROVE  x \in Registered'
<1>1. \A k \in Mains : k # m => journal'[k] = journal[k]
  BY DEF Typed
<1>2. CASE x \in Range(Natives)
  BY <1>2 DEF Registered
<1>3. CASE x \notin Range(Natives)
  <2>1. PICK k \in Mains : x \in Range(journal[k])
    BY <1>3 DEF Registered
  <2>2. k # m
    BY <2>1
  <2> QED
    BY <1>1, <2>1, <2>2 DEF Registered
<1> QED
  BY <1>2, <1>3

-----------------------------------------------------------------------------
(* Initially.                                                               *)

\* Initially.
LEMMA InitIInv == Init => IInv
<1> SUFFICES ASSUME Init PROVE IInv
  OBVIOUS
<1>1. Typed
  <2>1. methods = Natives /\ methods \in Seq(Method) /\ Distinct(methods) /\ Len(methods) \in Nat
    BY NativeMethods DEF Init
  <2>2. mask \in Masks /\ defs \in 0..MaxDefs /\ epoch \in Nat /\ memoEpoch \in 0..epoch
    BY <2>1, CallAssumption DEF Init
  <2>3. memo \in [Keys -> -1..Len(methods)]
    BY <2>1 DEF Init, EmptyMemo, Unset
  <2>4. workerThreads = Cardinality({w \in Workers : life[w] = "live"})
    <3>1. {w \in Workers : life[w] = "live"} = {}
      BY DEF Init, Isolates
    <3> QED
      BY <3>1, FS_EmptySet DEF Init
  <2>5. life \in [Isolates -> {"off", "live", "ended"}] /\ journal \in [Mains -> Seq(Method)]
    BY DEF Init
  <2>6. <<>> \in Seq(Classes) /\ 0 \in 0..MaxDefs /\ 0 \in 0..epoch
    BY <2>2, CallAssumption
  <2>7. ic \in [Isolates -> [key : Seq(Classes), code : 0..MaxDefs, epoch : 0..epoch]]
    BY <2>6 DEF Init, Cold
  <2>8. pc \in [Isolates -> {"idle", "memo", "full"}] /\ call \in [Isolates -> [args : Seq(Classes), site : BOOLEAN]]
    BY <2>6 DEF Init
  <2> QED
    BY <2>1, <2>2, <2>3, <2>4, <2>5, <2>7, <2>8 DEF Typed
<1>2. MemoExact
  BY DEF Init, MemoExact, EmptyMemo
<1>3. MemoOwned
  BY DEF Init, MemoOwned, Isolates
<1>4. MethodsLive
  BY NativeMethods DEF Init, MethodsLive, Registered
<1>5. SitesLive
  BY DEF Init, SitesLive, SiteLive, Cold
<1> QED
  BY <1>1, <1>2, <1>3, <1>4, <1>5 DEF IInv

-----------------------------------------------------------------------------
(* Steps.                                                                   *)

\* The number of workers follows the life of each.
LEMMA WorkerCount ==
  ASSUME Typed, NEW i \in Isolates, NEW l, life' = [life EXCEPT ![i] = l]
  PROVE  /\ Cardinality({w \in Workers : life[w] = "live"}) \in Nat
         /\ life[i] # "live" /\ l = "live" =>
                Cardinality({w \in Workers : life'[w] = "live"}) = workerThreads + (IF i \in Workers THEN 1 ELSE 0)
         /\ life[i] = "live" /\ l # "live" =>
                Cardinality({w \in Workers : life'[w] = "live"}) = workerThreads - (IF i \in Workers THEN 1 ELSE 0)
<1> DEFINE L == {w \in Workers : life[w] = "live"}
           M == {w \in Workers : life'[w] = "live"}
           b == i \in Workers
<1>1. IsFiniteSet(L)
  BY CallAssumption, FS_Subset
<1>2. Cardinality(L) \in Nat /\ workerThreads = Cardinality(L)
  BY <1>1, FS_CardinalityType DEF Typed
<1>3. \A w \in Workers : life'[w] = IF w = i THEN l ELSE life[w]
  BY DEF Typed, Isolates
<1>4. ASSUME life[i] # "live", l = "live"
      PROVE  Cardinality(M) = workerThreads + (IF i \in Workers THEN 1 ELSE 0)
  <2>1. i \notin L /\ M = IF b THEN L \cup {i} ELSE L
    BY <1>3, <1>4
  <2> HIDE DEF L, M
  <2> QED
    BY <1>1, <1>2, <2>1, OneMore
<1>5. ASSUME life[i] = "live", l # "live"
      PROVE  Cardinality(M) = workerThreads - (IF i \in Workers THEN 1 ELSE 0)
  <2>1. (b => i \in L) /\ M = IF b THEN L \ {i} ELSE L
    BY <1>3, <1>5
  <2> HIDE DEF L, M
  <2> QED
    BY <1>1, <1>2, <2>1, OneLess
<1> QED
  BY <1>2, <1>4, <1>5

\* A call starts.
LEMMA StartStep ==
  ASSUME IInv, NEW i \in Isolates, Start(i)
  PROVE  IInv'
<1> USE DEF Start, generic, table, calls
<1>1. Typed'
  <2>1. workerThreads' = Cardinality({w \in Workers : life'[w] = "live"})
    BY WorkerCount DEF IInv
  <2>2. life' \in [Isolates -> {"off", "live", "ended"}]
    BY DEF IInv, Typed
  <2> QED
    BY <2>1, <2>2 DEF IInv, Typed
<1>2. MemoExact' /\ MemoOwned'
  BY DEF IInv, MemoExact, MemoOwned
<1>3. MethodsLive' /\ SitesLive'
  BY DEF IInv, MethodsLive, SitesLive, SiteLive, Registered
<1> QED
  BY <1>1, <1>2, <1>3 DEF IInv

\* A cache that was emptied calls nothing.
LEMMA ColdSite ==
  ASSUME IInv, NEW i \in Isolates, ic' = [ic EXCEPT ![i] = Cold]
  PROVE  /\ ic' \in [Isolates -> [key : Seq(Classes), code : 0..MaxDefs, epoch : 0..epoch]]
         /\ \A j \in Isolates : ic'[j].key # <<>> => j # i /\ ic'[j] = ic[j]
<1>1. ic \in [Isolates -> [key : Seq(Classes), code : 0..MaxDefs, epoch : 0..epoch]] /\ epoch \in Nat
  BY DEF IInv, Typed
<1>2. Cold \in [key : Seq(Classes), code : 0..MaxDefs, epoch : 0..epoch] /\ Cold.key = <<>>
  BY <1>1, CallAssumption DEF Cold
<1> QED
  BY <1>1, <1>2

\* A worker ends.
LEMMA WorkerEndsStep ==
  ASSUME IInv, NEW w \in Workers, WorkerEnds(w)
  PROVE  IInv'
<1> USE DEF WorkerEnds, generic, table
<1>0. w \in Isolates
  BY DEF Isolates
<1>1. Typed'
  <2>1. workerThreads' = Cardinality({x \in Workers : life'[x] = "live"})
    <3>1. Typed /\ life[w] = "live" /\ "ended" # "live" /\ life' = [life EXCEPT ![w] = "ended"]
      BY DEF IInv
    <3>2. Cardinality({x \in Workers : life'[x] = "live"}) = workerThreads - (IF w \in Workers THEN 1 ELSE 0)
      BY <1>0, <3>1, WorkerCount
    <3> QED
      BY <3>2
  <2>2. life' \in [Isolates -> {"off", "live", "ended"}]
    BY DEF IInv, Typed
  <2>3. ic' \in [Isolates -> [key : Seq(Classes), code : 0..MaxDefs, epoch : 0..epoch]]
    BY <1>0, ColdSite
  <2> QED
    BY <2>1, <2>2, <2>3 DEF IInv, Typed
<1>2. MemoExact' /\ MemoOwned'
  BY DEF IInv, MemoExact, MemoOwned
<1>3. MethodsLive' /\ SitesLive'
  <2>1. Registered' = Registered /\ MethodsLive'
    BY DEF IInv, MethodsLive, Registered
  <2>2. \A j \in Isolates : ic'[j].key # <<>> => j # w /\ ic'[j] = ic[j]
    BY <1>0, ColdSite
  <2>3. \A j \in Isolates : SiteLive(j)'
    BY <2>1, <2>2 DEF IInv, SitesLive, SiteLive
  <2> QED
    BY <2>1, <2>3 DEF SitesLive
<1> QED
  BY <1>1, <1>2, <1>3 DEF IInv

\* The method set changes: what was cached is stale.
LEMMA ChangedSet ==
  ASSUME IInv, MethodSetChanged, Len(methods') \in Nat
  PROVE  /\ epoch' \in Nat /\ memoEpoch' \in 0..epoch' /\ epoch \in 0..epoch'
         /\ memo' \in [Keys -> -1..Len(methods')]
         /\ MemoExact'
         /\ \A i \in Isolates : ic[i].epoch # epoch'
<1>1. epoch \in Nat /\ memoEpoch \in 0..epoch /\ \A i \in Isolates : ic[i].epoch \in 0..epoch
  BY DEF IInv, Typed
<1>2. epoch' = epoch + 1 /\ memoEpoch' = memoEpoch /\ memo' = EmptyMemo
  BY DEF MethodSetChanged
<1>3. memo' \in [Keys -> -1..Len(methods')] /\ \A a \in Keys : memo'[a] = Unset
  BY <1>2 DEF EmptyMemo, Unset
<1>4. MemoExact'
  BY <1>3 DEF MemoExact, Keys
<1> QED
  BY <1>1, <1>2, <1>3, <1>4

\* Call sites keep their types as epochs grow.
LEMMA SitesOfOldEpochs ==
  ASSUME NEW e \in Nat, NEW f \in 0..e,
         NEW t \in [Isolates -> [key : Seq(Classes), code : 0..MaxDefs, epoch : 0..f]]
  PROVE  t \in [Isolates -> [key : Seq(Classes), code : 0..MaxDefs, epoch : 0..e]]
<1>1. 0..f \subseteq 0..e
  OBVIOUS
<1>2. \A i \in Isolates : t[i] \in [key : Seq(Classes), code : 0..MaxDefs, epoch : 0..e]
  BY <1>1
<1> QED
  BY <1>2

\* A definition.
LEMMA DefineStep ==
  ASSUME IInv, NEW m \in Mains, NEW s \in Signatures, NEW rm \in Masks, Define(m, s, rm)
  PROVE  IInv'
<1> DEFINE new == [sig |-> s.sig, va |-> s.va, code |-> defs + 1]
<1>1. /\ defs < MaxDefs /\ defs' = defs + 1 /\ mask' = rm
      /\ \A i \in 1..Len(methods) : ~Same(methods[i], new)
      /\ methods' = Append(methods, new)
      /\ MethodSetChanged
      /\ journal' = [journal EXCEPT ![m] = Append(@, new)]
      /\ UNCHANGED <<workerThreads, life, ic, pc, call>>
  BY DEF Define, calls
<1>2. new \in Method /\ defs + 1 \in 0..MaxDefs
  BY <1>1, NewMethod DEF IInv
<1> HIDE DEF new
<1>3. /\ methods \in Seq(Method) /\ Len(methods) \in Nat /\ methods' \in Seq(Method)
      /\ Len(methods') = Len(methods) + 1 /\ methods'[Len(methods) + 1] = new
      /\ \A i \in 1..Len(methods) : methods'[i] = methods[i]
  BY <1>1, <1>2 DEF IInv, Typed
<1>4. \A i \in 1..Len(methods') : i \in 1..Len(methods) \/ i = Len(methods) + 1
  BY <1>3
<1>5. Distinct(methods')
  <2>1. \A i \in 1..Len(methods) : ~Same(methods[i], new) /\ ~Same(new, methods[i])
    BY <1>1 DEF Same
  <2> QED
    BY <1>3, <1>4, <2>1 DEF IInv, Typed, Distinct
<1>6. Len(methods') \in Nat
  BY <1>3
<1>7. Typed'
  <2>1. journal' \in [Mains -> Seq(Method)]
    <3>1. journal \in [Mains -> Seq(Method)] /\ Append(journal[m], new) \in Seq(Method)
      BY <1>2 DEF IInv, Typed
    <3> QED
      BY <1>1, <3>1
  <2>2. ic' \in [Isolates -> [key : Seq(Classes), code : 0..MaxDefs, epoch : 0..epoch']]
    BY <1>1, <1>6, ChangedSet, SitesOfOldEpochs DEF IInv, Typed
  <2> QED
    BY <1>1, <1>2, <1>3, <1>5, <1>6, <2>1, <2>2, ChangedSet DEF IInv, Typed
<1>8. MemoExact' /\ MemoOwned'
  BY <1>1, <1>6, ChangedSet DEF IInv, MemoOwned
<1>9. MethodsLive'
  <2>1. Registered \subseteq Registered' /\ new \in Registered'
    BY <1>1, <1>2, RegisteredMore DEF IInv
  <2> QED
    BY <1>3, <1>4, <2>1 DEF IInv, MethodsLive
<1>10. SitesLive'
  <2>1. \A i \in Isolates : ic'[i].epoch # epoch'
    BY <1>1, <1>6, ChangedSet
  <2> QED
    BY <2>1 DEF SitesLive, SiteLive
<1> QED
  BY <1>7, <1>8, <1>9, <1>10 DEF IInv

\* Redefinition leaves the signatures as they are.
LEMMA RedefineStep ==
  ASSUME IInv, NEW m \in Mains, NEW s \in Signatures, NEW rm \in Masks, Redefine(m, s, rm)
  PROVE  /\ IInv'
         /\ Len(methods') = Len(methods) /\ \A i \in 1..Len(methods) : Same(methods[i], methods'[i])
<1> DEFINE new == [sig |-> s.sig, va |-> s.va, code |-> defs + 1]
<1>1. /\ defs < MaxDefs /\ defs' = defs + 1
      /\ journal' = [journal EXCEPT ![m] = Append(@, new)]
      /\ UNCHANGED <<mask, epoch, memo, memoEpoch, workerThreads, life, ic, pc, call>>
  BY DEF Redefine, table, calls
<1>2. PICK i \in 1..Len(methods) : Same(methods[i], new) /\ methods' = [methods EXCEPT ![i].code = new.code]
  BY DEF Redefine
<1>3. new \in Method /\ defs + 1 \in 0..MaxDefs /\ Len(methods) \in Nat /\ methods \in Seq(Method)
  <2>1. new \in Method /\ defs + 1 \in 0..MaxDefs
    BY <1>1, NewMethod DEF IInv
  <2>2. methods \in Seq(Method) /\ Len(methods) \in Nat
    BY DEF IInv, Typed
  <2> QED
    BY <2>1, <2>2
<1>4. [methods[i] EXCEPT !.code = new.code] = new
  <2>1. methods[i] \in Method
    BY <1>3
  <2>2. [methods[i] EXCEPT !.code = new.code] = [new EXCEPT !.code = new.code]
    BY <1>2, <1>3, <2>1, WithCode
  <2> HIDE DEF new
  <2> QED
    BY <1>3, <2>2, OwnCode
<1> HIDE DEF new
<1>5. methods' = [methods EXCEPT ![i] = new]
  BY <1>2, <1>4
<1>6. /\ methods' \in Seq(Method) /\ Len(methods') = Len(methods) /\ methods'[i] = new
      /\ \A k \in 1..Len(methods) : k # i => methods'[k] = methods[k]
  BY <1>3, <1>5
<1>7. \A k \in 1..Len(methods) : Same(methods[k], methods'[k])
  BY <1>2, <1>6 DEF Same
<1>8. \A a : FullResolve(methods, a) = FullResolve(methods', a)
  BY <1>3, <1>6, <1>7, ResolveShape
<1>9. Typed'
  <2>1. Distinct(methods')
    BY <1>6, <1>7 DEF IInv, Typed, Distinct, Same
  <2>2. journal' \in [Mains -> Seq(Method)]
    <3>1. journal \in [Mains -> Seq(Method)] /\ Append(journal[m], new) \in Seq(Method)
      BY <1>3 DEF IInv, Typed
    <3> QED
      BY <1>1, <3>1
  <2> QED
    BY <1>1, <1>3, <1>6, <2>1, <2>2 DEF IInv, Typed
<1>10. MemoExact' /\ MemoOwned'
  BY <1>1, <1>8 DEF IInv, MemoExact, MemoOwned
<1>11. Registered \subseteq Registered' /\ new \in Registered'
  BY <1>1, <1>3, RegisteredMore DEF IInv
<1>12. MethodsLive'
  BY <1>6, <1>11 DEF IInv, MethodsLive
<1>13. SitesLive'
  <2> SUFFICES ASSUME NEW j \in Isolates, ic[j].key # <<>>, ic[j].epoch = epoch
               PROVE  LET r == FullResolve(methods', ic[j].key)
                      IN  r > 0 /\ [methods'[r] EXCEPT !.code = ic[j].code] \in Registered'
    BY <1>1 DEF SitesLive, SiteLive
  <2> DEFINE r == FullResolve(methods, ic[j].key)
  <2>1. r > 0 /\ [methods[r] EXCEPT !.code = ic[j].code] \in Registered
    BY DEF IInv, SitesLive, SiteLive
  <2>2. r \in 1..Len(methods)
    BY <1>3, <2>1, ResolveFinds
  <2>3. methods[r] \in Method /\ methods'[r] \in Method /\ Same(methods[r], methods'[r])
    BY <1>3, <1>6, <1>7, <2>2
  <2>4. [methods[r] EXCEPT !.code = ic[j].code] = [methods'[r] EXCEPT !.code = ic[j].code]
    BY <2>3 DEF Method, Same
  <2> HIDE DEF r
  <2> QED
    BY <1>8, <1>11, <2>1, <2>4 DEF r
<1> QED
  BY <1>6, <1>7, <1>9, <1>10, <1>12, <1>13 DEF IInv

\* An ending isolate takes its registrations with it: those of the methods
\* that stay have signatures it did not register.
LEMMA MainEndsStep ==
  ASSUME IInv, NEW m \in Mains, MainEnds(m)
  PROVE  IInv'
<1>0. m \in Isolates /\ m \notin Workers
  BY CallAssumption DEF Isolates
<1>1. /\ methods' = Retracted(m) /\ journal' = [journal EXCEPT ![m] = <<>>]
      /\ life' = [life EXCEPT ![m] = "ended"] /\ ic' = [ic EXCEPT ![m] = Cold]
      /\ UNCHANGED <<mask, workerThreads, pc, call, defs>>
      /\ methods' = methods => UNCHANGED <<epoch, memo, memoEpoch>>
      /\ methods' # methods => MethodSetChanged
  BY DEF MainEnds, table
<1>2. /\ methods' \in Seq(Method) /\ Distinct(methods') /\ ComesFrom(methods', methods)
      /\ \A j \in 1..Len(journal[m]) : Without(methods', journal[m][j])
  <2>1. methods \in Seq(Method) /\ Distinct(methods) /\ Len(journal[m]) \in Nat
    BY DEF IInv, Typed
  <2> QED
    BY <1>1, <2>1, RetractFacts
<1>3. Len(methods') \in Nat
  BY <1>2
<1>4. ASSUME NEW i \in 1..Len(methods'), NEW x \in Registered, Same(methods'[i], x)
      PROVE  x \in Registered'
  <2>1. \A j \in 1..Len(journal[m]) : journal[m][j] # x
    BY <1>2, <1>4 DEF Without
  <2>2. DOMAIN journal[m] = 1..Len(journal[m])
    BY DEF IInv, Typed
  <2>3. x \notin Range(journal[m])
    BY <2>1, <2>2 DEF Range
  <2> QED
    BY <1>1, <2>3, RegisteredLess DEF IInv
<1>5. MethodsLive'
  <2> SUFFICES ASSUME NEW i \in 1..Len(methods') PROVE methods'[i] \in Registered'
    BY DEF MethodsLive
  <2>1. methods'[i] \in Registered
    BY <1>2 DEF ComesFrom, IInv, MethodsLive
  <2>2. Same(methods'[i], methods'[i])
    BY DEF Same
  <2> QED
    BY <1>4, <2>1, <2>2
<1>6. /\ life' \in [Isolates -> {"off", "live", "ended"}] /\ journal' \in [Mains -> Seq(Method)]
      /\ workerThreads' = Cardinality({w \in Workers : life'[w] = "live"})
  <2>1. {w \in Workers : life'[w] = "live"} = {w \in Workers : life[w] = "live"}
    BY <1>0, <1>1 DEF IInv, Typed, Isolates
  <2>2. <<>> \in Seq(Method) /\ "ended" \in {"off", "live", "ended"}
    OBVIOUS
  <2>3. journal' \in [Mains -> Seq(Method)]
    BY <1>1, <2>2 DEF IInv, Typed
  <2>4. life' \in [Isolates -> {"off", "live", "ended"}]
    BY <1>1, <2>2 DEF IInv, Typed
  <2> QED
    BY <1>1, <2>1, <2>3, <2>4 DEF IInv, Typed
<1>7. MemoOwned'
  BY <1>1 DEF IInv, MemoOwned
<1>8. CASE methods' = methods
  <2>1. Typed' /\ MemoExact'
    BY <1>0, <1>1, <1>2, <1>6, <1>8, ColdSite DEF IInv, Typed, MemoExact
  <2>2. ASSUME NEW i \in Isolates PROVE SiteLive(i)'
    <3> SUFFICES ASSUME ic'[i].key # <<>>, ic'[i].epoch = epoch
                 PROVE  LET r == FullResolve(methods, ic'[i].key)
                        IN  r > 0 /\ [methods[r] EXCEPT !.code = ic'[i].code] \in Registered'
      BY <1>1, <1>8 DEF SiteLive
    <3>1. ic'[i] = ic[i]
      BY <1>0, <1>1, ColdSite
    <3> DEFINE r == FullResolve(methods, ic[i].key)
               d == [methods[r] EXCEPT !.code = ic[i].code]
    <3>2. r > 0 /\ d \in Registered
      BY <3>1 DEF IInv, SitesLive, SiteLive
    <3>3. r \in 1..Len(methods)
      BY <1>3, <1>8, <3>2, ResolveFinds
    <3>4. methods[r] \in Method
      BY <1>2, <1>8, <3>3
    <3>5. Same(methods[r], d)
      BY <3>4 DEF Method, Same
    <3> HIDE DEF r, d
    <3>6. d \in Registered'
      BY <1>4, <1>8, <3>2, <3>3, <3>5
    <3> QED
      BY <3>1, <3>2, <3>6 DEF r, d
  <2> QED
    BY <1>5, <1>7, <2>1, <2>2 DEF IInv, SitesLive
<1>9. CASE methods' # methods
  <2>1. ic' \in [Isolates -> [key : Seq(Classes), code : 0..MaxDefs, epoch : 0..epoch']]
    <3>1. ic' \in [Isolates -> [key : Seq(Classes), code : 0..MaxDefs, epoch : 0..epoch]]
      BY <1>0, <1>1, ColdSite
    <3> QED
      BY <1>1, <1>3, <1>9, <3>1, ChangedSet, SitesOfOldEpochs
  <2>2. Typed' /\ MemoExact'
    BY <1>1, <1>2, <1>3, <1>6, <1>9, <2>1, ChangedSet DEF IInv, Typed
  <2>3. \A i \in Isolates : ic'[i].key # <<>> => ic'[i].epoch # epoch'
    BY <1>0, <1>1, <1>3, <1>9, ChangedSet, ColdSite
  <2> QED
    BY <1>5, <1>7, <2>2, <2>3 DEF IInv, SitesLive, SiteLive
<1> QED
  BY <1>8, <1>9

\* A call goes to the memo only when no worker is live, so never in one.
LEMMA BeginStep ==
  ASSUME IInv, NEW i \in Isolates, NEW args \in CallArgs, NEW site \in BOOLEAN, Begin(i, args, site)
  PROVE  IInv'
<1>1. /\ life[i] = "live" /\ (i \in Mains => MainIdle)
      /\ call' = [call EXCEPT ![i] = [args |-> args, site |-> site]]
      /\ pc' = [pc EXCEPT ![i] = IF MemoOK(Len(args)) THEN "memo" ELSE "full"]
      /\ UNCHANGED <<methods, mask, epoch, memo, memoEpoch, workerThreads, life, journal, ic, defs>>
  BY DEF Begin, generic, table
<1>2. /\ pc \in [Isolates -> {"idle", "memo", "full"}]
      /\ call \in [Isolates -> [args : Seq(Classes), site : BOOLEAN]]
      /\ args \in Seq(Classes)
  BY CallAssumption DEF IInv, Typed
<1>3. Typed' /\ MemoExact'
  BY <1>1, <1>2 DEF IInv, Typed, MemoExact
<1>4. MemoOK(Len(args)) => i \in Mains /\ args \in Keys
  <2>1. ASSUME workerThreads = 0 PROVE i \notin Workers
    <3>1. Cardinality({w \in Workers : life[w] = "live"}) = 0
      BY <2>1 DEF IInv, Typed
    <3>2. IsFiniteSet({w \in Workers : life[w] = "live"})
      BY CallAssumption, FS_Subset
    <3>3. {w \in Workers : life[w] = "live"} = {}
      BY <3>1, <3>2, FS_EmptySet
    <3> QED
      BY <1>1, <3>3
  <2> QED
    BY <2>1 DEF MemoOK, Keys, Isolates
<1>5. MemoOwned'
  <2>1. \A j \in Isolates : pc'[j] = "memo" => j \in Mains /\ call'[j].args \in Keys
    BY <1>1, <1>2, <1>4 DEF IInv, MemoOwned
  <2>2. \A j, k \in Mains : pc'[j] # "idle" /\ pc'[k] # "idle" => j = k
    <3>1. CASE i \in Mains
      <4>1. \A j \in Mains : j # i => pc'[j] = "idle"
        BY <1>1, <1>2, <3>1 DEF MainIdle, Isolates
      <4> QED
        BY <4>1
    <3>2. CASE i \notin Mains
      <4>1. \A j \in Mains : pc'[j] = pc[j]
        BY <1>1, <1>2, <3>2 DEF Isolates
      <4> QED
        BY <4>1 DEF IInv, MemoOwned
    <3> QED
      BY <3>1, <3>2
  <2> QED
    BY <2>1, <2>2 DEF MemoOwned
<1>6. MethodsLive' /\ SitesLive'
  BY <1>1 DEF IInv, MethodsLive, SitesLive, SiteLive, Registered
<1> QED
  BY <1>3, <1>5, <1>6 DEF IInv

\* A call that ends leaves in its cache what full resolution found.
LEMMA FinishStep ==
  ASSUME IInv, NEW i \in Isolates, NEW found, found = FullResolve(methods, call[i].args), Finish(i, found),
         UNCHANGED <<methods, mask, epoch, workerThreads, life, journal, defs>>
  PROVE  /\ MemoOwned' /\ MethodsLive' /\ SitesLive'
         /\ memoEpoch' \in 0..epoch /\ memo' \in [Keys -> -1..Len(methods)] => Typed'
<1>1. methods \in Seq(Method) /\ Len(methods) \in Nat /\ epoch \in Nat
  BY DEF IInv, Typed
<1>2. /\ pc \in [Isolates -> {"idle", "memo", "full"}] /\ call \in [Isolates -> [args : Seq(Classes), site : BOOLEAN]]
      /\ ic \in [Isolates -> [key : Seq(Classes), code : 0..MaxDefs, epoch : 0..epoch]]
  BY DEF IInv, Typed
<1>3. /\ pc' = [pc EXCEPT ![i] = "idle"] /\ call' = [call EXCEPT ![i] = [args |-> <<>>, site |-> FALSE]]
  BY DEF Finish
<1> DEFINE entry == [key |-> call[i].args, code |-> methods[found].code, epoch |-> epoch]
<1>4. ic' = ic \/ (found > 0 /\ ic' = [ic EXCEPT ![i] = entry])
  BY DEF Finish
<1>5. found > 0 => found \in 1..Len(methods) /\ methods[found] \in Method
  <2>1. found \in 0..Len(methods)
    BY <1>1, ResolveFinds
  <2> QED
    BY <1>1, <2>1
<1>6. ic' \in [Isolates -> [key : Seq(Classes), code : 0..MaxDefs, epoch : 0..epoch]]
  <2>1. found > 0 => entry \in [key : Seq(Classes), code : 0..MaxDefs, epoch : 0..epoch]
    <3>1. found > 0 => methods[found].code \in 0..MaxDefs
      BY <1>5 DEF Method
    <3>2. call[i].args \in Seq(Classes) /\ epoch \in 0..epoch
      BY <1>1, <1>2
    <3> QED
      BY <3>1, <3>2
  <2> HIDE DEF entry
  <2> QED
    BY <1>2, <1>4, <2>1
<1>7. MemoOwned'
  BY <1>2, <1>3 DEF IInv, MemoOwned, Isolates
<1>8. Registered' = Registered /\ MethodsLive'
  BY DEF IInv, MethodsLive, Registered
<1>9. SitesLive'
  <2> SUFFICES ASSUME NEW j \in Isolates, ic'[j].key # <<>>, ic'[j].epoch = epoch
               PROVE  LET r == FullResolve(methods, ic'[j].key)
                      IN  r > 0 /\ [methods[r] EXCEPT !.code = ic'[j].code] \in Registered
    BY <1>8 DEF SitesLive, SiteLive
  <2>1. CASE ic'[j] = ic[j]
    BY <2>1 DEF IInv, SitesLive, SiteLive
  <2>2. CASE ic'[j] # ic[j]
    <3>1. j = i /\ found > 0 /\ ic'[j] = entry
      BY <1>2, <1>4, <2>2
    <3>2. [methods[found] EXCEPT !.code = methods[found].code] = methods[found]
      BY <1>5, <3>1, OwnCode
    <3>3. methods[found] \in Registered
      BY <1>5, <3>1 DEF IInv, MethodsLive
    <3>4. ic'[j].key = call[i].args /\ ic'[j].code = methods[found].code
      BY <3>1
    <3> QED
      BY <3>1, <3>2, <3>3, <3>4
  <2> QED
    BY <2>1, <2>2
<1>10. memoEpoch' \in 0..epoch /\ memo' \in [Keys -> -1..Len(methods)] => Typed'
  <2>1. pc' \in [Isolates -> {"idle", "memo", "full"}]
    BY <1>2, <1>3
  <2>2. call' \in [Isolates -> [args : Seq(Classes), site : BOOLEAN]]
    <3>1. [args |-> <<>>, site |-> FALSE] \in [args : Seq(Classes), site : BOOLEAN]
      OBVIOUS
    <3> QED
      BY <1>2, <1>3, <3>1
  <2> QED
    BY <1>6, <2>1, <2>2 DEF IInv, Typed
<1> QED
  BY <1>7, <1>8, <1>9, <1>10

\* An answer from the memo.
LEMMA ResolveMemoStep ==
  ASSUME IInv, NEW i \in Isolates, ResolveMemo(i)
  PROVE  IInv'
<1> DEFINE a == call[i].args
           valid == IF memoEpoch = epoch THEN memo ELSE EmptyMemo
           found == IF valid[a] # Unset THEN valid[a] ELSE FullResolve(methods, a)
<1>1. /\ pc[i] = "memo" /\ memo' = [valid EXCEPT ![a] = found] /\ memoEpoch' = epoch
      /\ Finish(i, found)
      /\ UNCHANGED <<methods, mask, epoch, workerThreads, life, journal, defs>>
  BY DEF ResolveMemo, generic
<1>2. a \in Keys
  BY <1>1 DEF IInv, MemoOwned
<1>3. /\ valid \in [Keys -> -1..Len(methods)]
      /\ \A k \in Keys : valid[k] # Unset => valid[k] = FullResolve(methods, k)
  <2>1. Len(methods) \in Nat
    BY DEF IInv, Typed
  <2> QED
    BY <2>1 DEF IInv, Typed, MemoExact, EmptyMemo, Unset
<1> HIDE DEF valid
<1>4. found = FullResolve(methods, a)
  BY <1>2, <1>3
<1>5. found \in -1..Len(methods)
  <2>1. Len(methods) \in Nat
    BY DEF IInv, Typed
  <2>2. FullResolve(methods, a) \in 0..Len(methods)
    BY <2>1, ResolveFinds
  <2> QED
    BY <1>4, <2>1, <2>2
<1> HIDE DEF found
<1>6. memo' \in [Keys -> -1..Len(methods)]
  BY <1>1, <1>3, <1>5
<1>7. \A k \in Keys : memo'[k] # Unset => memo'[k] = FullResolve(methods, k)
  BY <1>1, <1>3, <1>4
<1>8. memoEpoch' \in 0..epoch
  BY <1>1 DEF IInv, Typed
<1>9. Typed' /\ MemoOwned' /\ MethodsLive' /\ SitesLive'
  BY <1>1, <1>4, <1>6, <1>8, FinishStep
<1>10. MemoExact'
  BY <1>1, <1>7 DEF MemoExact
<1> QED
  BY <1>9, <1>10 DEF IInv

\* A full resolution.
LEMMA ResolveFullyStep ==
  ASSUME IInv, NEW i \in Isolates, ResolveFully(i)
  PROVE  IInv'
<1>1. /\ Finish(i, FullResolve(methods, call[i].args))
      /\ UNCHANGED <<methods, mask, epoch, memo, memoEpoch, workerThreads, life, journal, defs>>
  BY DEF ResolveFully, generic, table
<1>2. memoEpoch' \in 0..epoch /\ memo' \in [Keys -> -1..Len(methods)]
  BY <1>1 DEF IInv, Typed
<1>3. Typed' /\ MemoOwned' /\ MethodsLive' /\ SitesLive'
  BY <1>1, <1>2, FinishStep
<1>4. MemoExact'
  BY <1>1 DEF IInv, MemoExact
<1> QED
  BY <1>3, <1>4 DEF IInv

\* Every step.
LEMMA NextIInv == IInv /\ [Next]_vars => IInv'
<1> SUFFICES ASSUME IInv, [Next]_vars PROVE IInv'
  OBVIOUS
<1>1. CASE UNCHANGED vars
  <2>1. /\ UNCHANGED <<methods, mask, epoch, memo, memoEpoch, workerThreads>>
        /\ UNCHANGED <<life, journal, ic, pc, call, defs>>
    BY <1>1 DEF vars, generic, table, calls
  <2>2. Typed' /\ MemoExact' /\ MemoOwned'
    BY <2>1 DEF IInv, Typed, MemoExact, MemoOwned
  <2>3. MethodsLive' /\ SitesLive'
    BY <2>1 DEF IInv, MethodsLive, SitesLive, SiteLive, Registered
  <2> QED
    BY <2>2, <2>3 DEF IInv
<1>2. ASSUME NEW i \in Isolates, Start(i) PROVE IInv'
  BY <1>2, StartStep
<1>3. ASSUME NEW w \in Workers, WorkerEnds(w) PROVE IInv'
  BY <1>3, WorkerEndsStep
<1>4. ASSUME NEW m \in Mains, NEW s \in Signatures, NEW rm \in Masks, Redefine(m, s, rm) PROVE IInv'
  BY <1>4, RedefineStep
<1>5. ASSUME NEW m \in Mains, NEW s \in Signatures, NEW rm \in Masks, Define(m, s, rm) PROVE IInv'
  BY <1>5, DefineStep
<1>6. ASSUME NEW m \in Mains, MainEnds(m) PROVE IInv'
  BY <1>6, MainEndsStep
<1>7. ASSUME NEW i \in Isolates, NEW args \in CallArgs, NEW site \in BOOLEAN, Begin(i, args, site) PROVE IInv'
  BY <1>7, BeginStep
<1>8. ASSUME NEW i \in Isolates, ResolveMemo(i) PROVE IInv'
  BY <1>8, ResolveMemoStep
<1>9. ASSUME NEW i \in Isolates, ResolveFully(i) PROVE IInv'
  BY <1>9, ResolveFullyStep
<1> QED
  BY <1>1, <1>2, <1>3, <1>4, <1>5, <1>6, <1>7, <1>8, <1>9 DEF Next

\* The indexes in the memo are indexes of methods, the epoch it was filled in
\* is not ahead of that of the method set, and the thread count is of workers.
THEOREM TypeCorrect == Spec => []TypeOK
<1>1. IInv => TypeOK
  <2> SUFFICES ASSUME IInv PROVE TypeOK
    OBVIOUS
  <2>1. \A i \in 1..Len(methods) : methods[i].code \in 0..MaxDefs
    <3>1. \A i \in 1..Len(methods) : methods[i] \in Method
      BY DEF IInv, Typed
    <3> QED
      BY <3>1 DEF Method
  <2>2. workerThreads \in 0..Cardinality(Workers)
    <3> DEFINE L == {w \in Workers : life[w] = "live"}
    <3>1. L \subseteq Workers /\ IsFiniteSet(Workers)
      BY CallAssumption
    <3> HIDE DEF L
    <3>2. Cardinality(L) \in Nat /\ Cardinality(Workers) \in Nat /\ Cardinality(L) <= Cardinality(Workers)
      BY <3>1, FS_Subset, FS_CardinalityType
    <3> QED
      BY <3>2 DEF IInv, Typed, L
  <2>3. \A i \in Isolates : ic[i].epoch \in 0..epoch
    BY DEF IInv, Typed
  <2> QED
    BY <2>1, <2>2, <2>3 DEF TypeOK, IInv, Typed
<1> QED
  BY InitIInv, NextIInv, <1>1, PTL DEF Spec

\* Whatever isolates define, redefine and retract, a method's code is a native
\* or a closure that a live journal keeps, and so is what a warm cache calls.
THEOREM CallsLiveCodeHolds == Spec => []CallsLiveCode
<1>1. IInv => CallsLiveCode
  BY DEF IInv, MethodsLive, SitesLive, SiteLive, CallsLiveCode
<1> QED
  BY InitIInv, NextIInv, <1>1, PTL DEF Spec

\* A valid entry of the memo is what full resolution computes, and only one
\* call, of the main thread, is in the memo.
THEOREM MemoSafeHolds == Spec => []MemoSafe
<1>1. IInv => MemoSafe
  <2> SUFFICES ASSUME IInv PROVE MemoSafe
    OBVIOUS
  <2>1. \A w \in Workers : pc[w] # "memo"
    BY CallAssumption DEF IInv, MemoOwned, Isolates
  <2>2. Cardinality({i \in Isolates : pc[i] = "memo"}) <= 1
    <3> DEFINE S == {i \in Isolates : pc[i] = "memo"}
    <3>1. \A i, j \in S : i = j
      BY DEF IInv, MemoOwned
    <3>2. S = {} \/ \E x : S = {x}
      <4> HIDE DEF S
      <4> QED
        BY <3>1
    <3> HIDE DEF S
    <3>3. Cardinality(S) <= 1
      <4>1. CASE S = {}
        BY <4>1, FS_EmptySet
      <4>2. ASSUME NEW x, S = {x} PROVE Cardinality(S) = 1
        BY <4>2, FS_Singleton
      <4> QED
        BY <3>2, <4>1, <4>2
    <3> QED
      BY <3>3 DEF S
  <2> QED
    BY <2>1, <2>2 DEF IInv, MemoExact, MemoSafe
<1> QED
  BY InitIInv, NextIInv, <1>1, PTL DEF Spec

-----------------------------------------------------------------------------
(* Ambiguity.                                                               *)

\* At an arity, the order on methods is transitive.
LEMMA SpecificTransitive ==
  ASSUME NEW argc \in Nat, NEW x \in Method, NEW y \in Method, NEW z \in Method,
         AppliesAt(x, argc), AppliesAt(y, argc), AppliesAt(z, argc),
         MoreSpecific(x, y, argc), MoreSpecific(y, z, argc)
  PROVE  MoreSpecific(x, z, argc)
<1>1. ASSUME NEW p \in {x, y, z}, NEW q \in {x, y, z}, NEW r \in {x, y, z},
             PointwiseLe(p, q, argc), PointwiseLe(q, r, argc)
      PROVE  PointwiseLe(p, r, argc)
  <2>1. p \in Method /\ q \in Method /\ r \in Method /\ AppliesAt(p, argc) /\ AppliesAt(q, argc) /\ AppliesAt(r, argc)
    OBVIOUS
  <2>2. \A i \in 1..argc : Eff(p, i) \in Classes /\ Eff(q, i) \in Classes /\ Eff(r, i) \in Classes
    BY <2>1, MethodFacts
  <2> QED
    BY <1>1, <2>2, ClassOrder DEF PointwiseLe
<1>2. PointwiseLe(x, y, argc) /\ PointwiseLe(y, z, argc)
  BY DEF MoreSpecific
<1>3. PointwiseLe(x, z, argc)
  BY <1>1, <1>2
<1>4. CASE ~PointwiseLe(z, x, argc)
  BY <1>3, <1>4 DEF MoreSpecific
<1>5. CASE PointwiseLe(z, x, argc)
  <2>1. PointwiseLe(y, x, argc) /\ PointwiseLe(z, y, argc)
    BY <1>1, <1>2, <1>5
  <2>2. /\ IF x.va # y.va THEN ~x.va ELSE Fixed(x) > Fixed(y)
        /\ IF y.va # z.va THEN ~y.va ELSE Fixed(y) > Fixed(z)
    BY <2>1 DEF MoreSpecific
  <2>3. Fixed(x) \in Nat /\ Fixed(y) \in Nat /\ Fixed(z) \in Nat /\ x.va \in BOOLEAN /\ y.va \in BOOLEAN /\ z.va \in BOOLEAN
    BY MethodFacts
  <2>4. IF x.va # z.va THEN ~x.va ELSE Fixed(x) > Fixed(z)
    BY <2>2, <2>3
  <2> QED
    BY <1>3, <1>5, <2>4 DEF MoreSpecific
<1> QED
  BY <1>4, <1>5

\* Two methods of the same classes at an arity, one of them fixed: one wins.
LEMMA TieBroken ==
  ASSUME NEW argc \in Nat, NEW m \in Method, NEW n \in Method, ~Same(m, n), ~(m.va /\ n.va),
         AppliesAt(m, argc), AppliesAt(n, argc), PointwiseLe(m, n, argc), PointwiseLe(n, m, argc)
  PROVE  MoreSpecific(m, n, argc) \/ MoreSpecific(n, m, argc)
<1>1. m.va \in BOOLEAN /\ n.va \in BOOLEAN /\ Fixed(m) \in Nat /\ Fixed(n) \in Nat
  BY MethodFacts
<1>2. CASE m.va # n.va
  BY <1>1, <1>2 DEF MoreSpecific
<1>4. CASE ~m.va /\ ~n.va
  <2>1. m.sig \in Seq(Classes) /\ n.sig \in Seq(Classes) /\ Len(m.sig) = argc /\ Len(n.sig) = argc
    BY <1>4, MethodFacts DEF AppliesAt, Fixed
  <2>2. \A i \in 1..argc : Eff(m, i) = m.sig[i] /\ Eff(n, i) = n.sig[i]
    BY <1>4, <2>1 DEF Eff, Fixed
  <2>3. \A i \in 1..argc : m.sig[i] \in Classes /\ n.sig[i] \in Classes
    BY <2>1
  <2>4. \A i \in 1..argc : m.sig[i] = n.sig[i]
    BY <2>2, <2>3, ClassOrder DEF PointwiseLe
  <2>5. m.sig = n.sig
    BY <2>1, <2>4
  <2> QED
    BY <1>1, <1>4, <2>5, Zenon DEF Same
<1> QED
  BY <1>1, <1>2, <1>4

\* At the arity of a call, a method applies to it or not by its classes.
LEMMA AppliedOrder ==
  ASSUME NEW args \in Seq(Classes), NEW m \in Method, NEW n \in Method, Applicable(m, args), Applicable(n, args)
  PROVE  \A i \in 1..Len(args) :
            /\ args[i] \in Classes /\ Eff(m, i) \in Classes /\ Eff(n, i) \in Classes
            /\ IsA(args[i], Eff(m, i)) /\ IsA(args[i], Eff(n, i)) /\ Comparable(Eff(m, i), Eff(n, i))
<1>1. AppliesAt(m, Len(args)) /\ AppliesAt(n, Len(args)) /\ Len(args) \in Nat
  BY DEF Applicable
<1>2. \A i \in 1..Len(args) : Eff(m, i) \in Classes /\ Eff(n, i) \in Classes /\ args[i] \in Classes
  BY <1>1, MethodFacts
<1> QED
  BY <1>2, ClassOrder DEF Applicable

\* Two methods that apply to a call and are incomparable there, one of them
\* fixed, are in conflict; what disambiguates them applies and is below both.
LEMMA ConflictFound ==
  ASSUME NEW args \in Seq(Classes), NEW m \in Method, NEW n \in Method,
         Applicable(m, args), Applicable(n, args), ~m.va \/ ~n.va,
         ~PointwiseLe(m, n, Len(args)), ~PointwiseLe(n, m, Len(args))
  PROVE  /\ Conflict(m, n)
         /\ \A d : Disambiguates(d, m, n) =>
               Applicable(d, args) /\ PointwiseLe(d, m, Len(args)) /\ PointwiseLe(d, n, Len(args))
<1> DEFINE argc == Len(args)
<1>1. argc \in Nat /\ AppliesAt(m, argc) /\ AppliesAt(n, argc)
  BY DEF Applicable
<1>2. Fixed(m) \in Nat /\ Fixed(n) \in Nat /\ m.va \in BOOLEAN /\ n.va \in BOOLEAN
  BY MethodFacts
<1>3. AritiesOverlap(m, n) /\ CompareArity(m, n) = argc
  <2>1. /\ Fixed(m) <= argc /\ Fixed(n) <= argc
        /\ ~m.va => Fixed(m) = argc
        /\ ~n.va => Fixed(n) = argc
    BY <1>1, <1>2 DEF AppliesAt
  <2>2. argc \in {Fixed(m), Fixed(n)} /\ \A x \in {Fixed(m), Fixed(n)} : x <= argc
    BY <1>2, <2>1
  <2>3. Max({Fixed(m), Fixed(n)}) = argc
    BY <1>2, <2>2, LargerOf
  <2>4. CompareArity(m, n) = argc
    BY <1>2, <1>1, <2>3 DEF CompareArity
  <2>5. AritiesOverlap(m, n)
    BY <1>2, <2>1 DEF AritiesOverlap
  <2> QED
    BY <2>4, <2>5
<1>4. \A i \in 1..argc : /\ args[i] \in Classes /\ Eff(m, i) \in Classes /\ Eff(n, i) \in Classes
                          /\ IsA(args[i], Eff(m, i)) /\ IsA(args[i], Eff(n, i)) /\ Comparable(Eff(m, i), Eff(n, i))
  BY AppliedOrder
<1>5. Conflict(m, n)
  BY <1>3, <1>4 DEF Conflict
<1>6. ASSUME NEW d, Disambiguates(d, m, n)
      PROVE  Applicable(d, args) /\ PointwiseLe(d, m, argc) /\ PointwiseLe(d, n, argc)
  <2>1. AppliesAt(d, argc) /\ \A i \in 1..argc : Eff(d, i) = Meet(Eff(m, i), Eff(n, i))
    BY <1>3, <1>6 DEF Disambiguates
  <2>2. \A i \in 1..argc : /\ IsA(Eff(d, i), Eff(m, i)) /\ IsA(Eff(d, i), Eff(n, i))
                            /\ IsA(args[i], Eff(d, i))
    BY <1>4, <2>1, ClassOrder DEF Meet, Comparable
  <2> QED
    BY <2>1, <2>2 DEF Applicable, PointwiseLe
<1> QED
  BY <1>5, <1>6

\* What the result of a resolution owes another method that applies.
Beats(m, n, argc) == MoreSpecific(m, n, argc) \/ Undecided(m, n, argc)

\* A new method that beats the best one beats what the best one does, unless
\* they conflict and nothing below both was found.
LEMMA NewBestBeats ==
  ASSUME NEW argc \in Nat, NEW new \in Method, NEW m \in Method, NEW e \in Method, ~Same(new, e),
         AppliesAt(new, argc), AppliesAt(m, argc), AppliesAt(e, argc),
         MoreSpecific(new, m, argc), Beats(m, e, argc),
         PointwiseLe(new, e, argc) \/ PointwiseLe(e, new, argc) \/ (new.va /\ e.va)
  PROVE  Beats(new, e, argc)
<1>1. CASE MoreSpecific(m, e, argc)
  BY <1>1, SpecificTransitive DEF Beats
<1>2. CASE Undecided(m, e, argc) /\ ~MoreSpecific(m, e, argc)
  <2>1. m.va /\ e.va /\ ~MoreSpecific(e, m, argc)
    BY <1>2 DEF Undecided
  <2>2. ~MoreSpecific(e, new, argc)
    BY <2>1, SpecificTransitive
  <2>3. CASE new.va
    BY <2>1, <2>2, <2>3 DEF Beats, Undecided
  <2>4. CASE ~new.va
    <3>1. PointwiseLe(new, e, argc) \/ PointwiseLe(e, new, argc)
      BY <2>4
    <3>2. CASE PointwiseLe(new, e, argc) /\ ~PointwiseLe(e, new, argc)
      BY <3>2 DEF Beats, MoreSpecific
    <3>3. CASE PointwiseLe(e, new, argc)
      BY <2>2, <2>4, <3>3, TieBroken DEF Beats, MoreSpecific
    <3> QED
      BY <3>1, <3>2, <3>3
  <2> QED
    BY <2>3, <2>4
<1> QED
  BY <1>1, <1>2 DEF Beats

\* What is below a method that the best one beats is not below the best one.
LEMMA BestIsMinimal ==
  ASSUME NEW argc \in Nat, NEW m \in Method, NEW d \in Method, NEW e \in Method,
         AppliesAt(m, argc), AppliesAt(d, argc), AppliesAt(e, argc),
         d = m \/ Beats(m, d, argc), PointwiseLe(d, m, argc), PointwiseLe(d, e, argc)
  PROVE  PointwiseLe(m, d, argc) /\ PointwiseLe(m, e, argc)
<1>1. PointwiseLe(m, d, argc)
  BY DEF Beats, Undecided, MoreSpecific
<1>2. \A j \in 1..argc : Eff(m, j) \in Classes /\ Eff(d, j) \in Classes /\ Eff(e, j) \in Classes
  BY MethodFacts
<1>3. PointwiseLe(m, e, argc)
  BY <1>1, <1>2, ClassOrder DEF PointwiseLe
<1> QED
  BY <1>1, <1>3

\* An accepted definition leaves every call with a method that is more
\* specific than the others, two variadic ones left undecided.
LEMMA AcceptedKeepsOrder ==
  ASSUME NEW ms \in Seq(Method), NEW new \in Method,
         \A i \in 1..Len(ms) : ~Same(ms[i], new), Unambiguous(ms, new), Ordered(ms)
  PROVE  Ordered(Append(ms, new))
<1> DEFINE n == Len(ms)
           ns == Append(ms, new)
<1>1. /\ n \in Nat /\ Len(ns) = n + 1 /\ ns[n + 1] = new
      /\ \A i \in 1..n : ns[i] = ms[i] /\ ms[i] \in Method
  OBVIOUS
<1>2. \A args : FullResolve(ns, args) = Better(ns, args, FullResolve(ms, args), n + 1)
  BY ResolveAppend
<1> HIDE DEF ns
<1> SUFFICES ASSUME NEW a \in ArgTuples, NEW i \in 1..(n + 1), Applicable(ns[i], a), i # FullResolve(ns, a)
             PROVE  Beats(ns[FullResolve(ns, a)], ns[i], Len(a))
  BY <1>1 DEF Ordered, ns, Beats
<1>3. a \in Seq(Classes) /\ Len(a) \in Nat
  BY CallAssumption
<1> DEFINE r == FullResolve(ms, a)
<1>4. /\ r \in 0..n
      /\ r > 0 => r \in 1..n /\ Applicable(ms[r], a) /\ ns[r] = ms[r] /\ ms[r] \in Method
      /\ r = 0 => \A k \in 1..n : ~Applicable(ms[k], a)
  <2>1. /\ r \in 0..n /\ (r > 0 => Applicable(ms[r], a))
        /\ r = 0 => \A k \in 1..n : ~Applicable(ms[k], a)
    BY <1>1, ResolveFinds
  <2> HIDE DEF r, n
  <2> QED
    BY <1>1, <2>1
<1>5. \A k \in 1..n : Applicable(ms[k], a) /\ k # r => Beats(ms[r], ms[k], Len(a))
  BY DEF Ordered, Beats
<1>6. FullResolve(ns, a) = IF Applicable(new, a) /\ (r = 0 \/ MoreSpecific(new, ns[r], Len(a))) THEN n + 1 ELSE r
  BY <1>1, <1>2 DEF Better
<1>7. i = n + 1 \/ (i \in 1..n /\ ns[i] = ms[i])
  BY <1>1
<1>13. \A k \in 1..n : ~Same(ms[k], new) /\ ~Same(new, ms[k])
  BY DEF Same
<1>14. \A k \in 1..n : Conflict(new, ms[k]) =>
           \E d : Disambiguates(d, new, ms[k]) /\ (d = new \/ \E j \in 1..n : d = ms[j])
  BY DEF Unambiguous, Range
<1> HIDE DEF r, n
<1>8. CASE ~Applicable(new, a)
  <2>1. i \in 1..n /\ ns[i] = ms[i] /\ i # r /\ FullResolve(ns, a) = r
    BY <1>1, <1>6, <1>7, <1>8
  <2>2. r > 0
    BY <1>4, <2>1
  <2> QED
    BY <1>4, <1>5, <2>1, <2>2
<1>9. CASE Applicable(new, a) /\ r = 0
  <2>1. FullResolve(ns, a) = n + 1
    BY <1>6, <1>9
  <2>2. i \in 1..n /\ ns[i] = ms[i]
    BY <1>7, <2>1
  <2> QED
    BY <1>4, <1>9, <2>2
<1>10. CASE Applicable(new, a) /\ r # 0
  <2>1. r > 0 /\ r \in 1..n /\ Applicable(ms[r], a) /\ ns[r] = ms[r] /\ ms[r] \in Method
    BY <1>1, <1>4, <1>10
  <2> DEFINE m == ms[r]
             L == Len(a)
  <2>2. m \in Method /\ Applicable(m, a) /\ AppliesAt(m, L) /\ AppliesAt(new, L) /\ ~Same(m, new) /\ ~Same(new, m)
    BY <1>10, <1>13, <2>1 DEF Applicable
  \* Where new and an older method that applies are incomparable, m is not
  \* above new: what disambiguates them would be below m.
  <2>3. ASSUME NEW k \in 1..n, Applicable(ms[k], a), ~(new.va /\ ms[k].va),
               ~PointwiseLe(new, ms[k], L), ~PointwiseLe(ms[k], new, L)
        PROVE  \E d \in Method : /\ AppliesAt(d, L) /\ PointwiseLe(d, new, L) /\ PointwiseLe(d, ms[k], L)
                                 /\ d = m \/ Beats(m, d, L)
    <3>1. ms[k] \in Method
      BY <1>1
    <3>2. /\ Conflict(new, ms[k])
          /\ \A d : Disambiguates(d, new, ms[k]) =>
                Applicable(d, a) /\ PointwiseLe(d, new, L) /\ PointwiseLe(d, ms[k], L)
      BY <1>3, <1>10, <2>3, <3>1, ConflictFound
    <3>3. PICK d : Disambiguates(d, new, ms[k]) /\ (d = new \/ \E j \in 1..n : d = ms[j])
      BY <1>14, <3>2
    <3>4. Applicable(d, a) /\ PointwiseLe(d, new, L) /\ PointwiseLe(d, ms[k], L)
      BY <3>2, <3>3
    <3>5. PICK j \in 1..n : d = ms[j]
      BY <2>3, <3>3, <3>4
    <3>6. d \in Method /\ AppliesAt(d, L) /\ (d = m \/ Beats(m, d, L))
      BY <1>1, <1>5, <3>4, <3>5 DEF Applicable
    <3> QED
      BY <3>4, <3>6
  <2> HIDE DEF m, L
  <2>4. CASE MoreSpecific(new, m, L)
    <3>1. FullResolve(ns, a) = n + 1 /\ ns[n + 1] = new
      BY <1>1, <1>6, <1>10, <2>1, <2>4 DEF m, L
    <3>2. i \in 1..n /\ ns[i] = ms[i] /\ Applicable(ms[i], a)
      BY <1>7, <3>1
    <3> DEFINE e == ms[i]
    <3>3. e \in Method /\ AppliesAt(e, L) /\ ~Same(new, e) /\ (i = r => e = m) /\ (i # r => Beats(m, e, L))
      BY <1>1, <1>5, <1>13, <3>2 DEF Applicable, m, L
    <3>4. PointwiseLe(new, e, L) \/ PointwiseLe(e, new, L) \/ (new.va /\ e.va)
      <4> SUFFICES ASSUME ~PointwiseLe(new, e, L), ~PointwiseLe(e, new, L), ~(new.va /\ e.va) PROVE FALSE
        OBVIOUS
      <4>1. PICK d \in Method : /\ AppliesAt(d, L) /\ PointwiseLe(d, new, L) /\ PointwiseLe(d, e, L)
                                /\ d = m \/ Beats(m, d, L)
        BY <2>3, <3>2
      <4>2. PointwiseLe(new, m, L)
        BY <2>4 DEF MoreSpecific
      <4>3. L \in Nat /\ \A j \in 1..L : /\ Eff(m, j) \in Classes /\ Eff(d, j) \in Classes
                                          /\ Eff(new, j) \in Classes /\ Eff(e, j) \in Classes
        <5>1. L \in Nat
          BY <1>3 DEF L
        <5> HIDE DEF e
        <5> QED
          BY <2>2, <3>3, <4>1, <5>1, MethodFacts
      <4>4. PointwiseLe(d, m, L)
        <5> HIDE DEF e
        <5> QED
          BY <4>1, <4>2, <4>3, ClassOrder DEF PointwiseLe
      <4>5. PointwiseLe(m, d, L) /\ PointwiseLe(m, e, L)
        <5> HIDE DEF e
        <5> QED
          BY <2>2, <3>3, <4>1, <4>3, <4>4, BestIsMinimal
      <4>6. PointwiseLe(new, e, L)
        <5> HIDE DEF e
        <5> QED
          BY <4>2, <4>3, <4>5, ClassOrder DEF PointwiseLe
      <4> QED
        BY <4>6
    <3>5. Beats(new, e, L)
      <4>1. CASE i = r
        BY <2>4, <3>3, <4>1 DEF Beats
      <4>2. CASE i # r
        <5>1. L \in Nat /\ Beats(m, e, L)
          BY <1>3, <3>3, <4>2 DEF L
        <5> HIDE DEF e
        <5> QED
          BY <2>2, <2>4, <3>3, <3>4, <5>1, NewBestBeats
      <4> QED
        BY <4>1, <4>2
    <3> QED
      BY <3>1, <3>2, <3>5 DEF L
  <2>5. CASE ~MoreSpecific(new, m, L)
    <3>1. FullResolve(ns, a) = r
      BY <1>6, <2>1, <2>5 DEF m, L
    <3>2. CASE i \in 1..n
      <4>1. ns[i] = ms[i] /\ i # r
        BY <1>1, <3>1, <3>2
      <4> QED
        BY <1>5, <2>1, <3>1, <3>2, <4>1
    <3>3. CASE i = n + 1
      <4>1. ns[i] = new /\ L \in Nat
        BY <1>1, <1>3, <3>3 DEF L
      <4>2. new.va \in BOOLEAN /\ m.va \in BOOLEAN
        BY <2>2, MethodFacts
      <4>3. CASE new.va /\ m.va
        BY <2>1, <2>5, <3>1, <4>1, <4>3 DEF Beats, Undecided, m, L
      <4>4. CASE ~(new.va /\ m.va)
        <5>1. PointwiseLe(m, new, L)
          <6>1. CASE PointwiseLe(new, m, L)
            BY <2>5, <6>1 DEF MoreSpecific
          <6>2. CASE ~PointwiseLe(new, m, L) /\ ~PointwiseLe(m, new, L)
            <7>1. PICK d \in Method : /\ AppliesAt(d, L) /\ PointwiseLe(d, new, L) /\ PointwiseLe(d, m, L)
                                      /\ d = m \/ Beats(m, d, L)
              <8>1. r \in 1..n /\ Applicable(ms[r], a) /\ m = ms[r]
                BY <2>1 DEF m
              <8> QED
                BY <2>3, <4>4, <6>2, <8>1
            <7> QED
              BY <2>2, <4>1, <7>1, BestIsMinimal
          <6> QED
            BY <6>1, <6>2
        <5>2. MoreSpecific(m, new, L)
          BY <2>2, <2>5, <4>1, <4>4, <5>1, TieBroken DEF MoreSpecific
        <5> QED
          BY <2>1, <3>1, <4>1, <5>2 DEF Beats, m, L
      <4> QED
        BY <4>3, <4>4
    <3> QED
      BY <1>7, <3>2, <3>3
  <2> QED
    BY <2>4, <2>5
<1> QED
  BY <1>8, <1>9, <1>10

\* A definition in place changes no signature.
LEMMA SameShapesKeepOrder ==
  ASSUME NEW ms, NEW ns, Len(ms) \in Nat, Len(ns) = Len(ms),
         \A i \in 1..Len(ms) : Same(ms[i], ns[i]), Ordered(ms)
  PROVE  Ordered(ns)
<1> SUFFICES ASSUME NEW a \in ArgTuples, NEW i \in 1..Len(ms), Applicable(ns[i], a), i # FullResolve(ns, a)
             PROVE  Beats(ns[FullResolve(ns, a)], ns[i], Len(a))
  BY DEF Ordered, Beats
<1> DEFINE r == FullResolve(ms, a)
<1>1. FullResolve(ns, a) = r
  BY ResolveShape
<1>2. r \in 0..Len(ms) /\ (r = 0 => \A k \in 1..Len(ms) : ~Applicable(ms[k], a))
  BY ResolveFinds
<1>3. Applicable(ms[i], a)
  BY ShapeSuffices
<1> HIDE DEF r
<1>4. r \in 1..Len(ms)
  BY <1>2, <1>3
<1>5. Beats(ms[r], ms[i], Len(a))
  BY <1>1, <1>3 DEF Ordered, Beats, r
<1>6. Same(ms[r], ns[r]) /\ Same(ms[i], ns[i])
  BY <1>4
<1>7. Beats(ns[r], ns[i], Len(a))
  BY <1>5, <1>6, ShapeSuffices DEF Beats, Undecided, Same
<1> QED
  BY <1>1, <1>7

\* A definition that add_method accepts leaves no call ambiguous but between
\* variadic methods, if there was none.
THEOREM DefinitionKeepsOrderHolds == Spec => DefinitionKeepsOrder
<1>1. IInv /\ [Next]_vars => [defs' # defs /\ Ordered(methods) => Ordered(methods')]_vars
  <2> SUFFICES ASSUME IInv, [Next]_vars, defs' # defs, Ordered(methods) PROVE Ordered(methods')
    OBVIOUS
  <2>1. methods \in Seq(Method) /\ Len(methods) \in Nat
    BY DEF IInv, Typed
  <2>2. PICK m \in Mains, s \in Signatures, rm \in Masks : Redefine(m, s, rm) \/ Define(m, s, rm)
    BY DEF Next, vars, Start, WorkerEnds, MainEnds, Begin, ResolveMemo, ResolveFully
  <2>3. CASE Redefine(m, s, rm)
    <3>1. Len(methods') = Len(methods) /\ \A i \in 1..Len(methods) : Same(methods[i], methods'[i])
      BY <2>3, RedefineStep
    <3> QED
      BY <2>1, <3>1, SameShapesKeepOrder
  <2>4. CASE Define(m, s, rm)
    <3> DEFINE new == [sig |-> s.sig, va |-> s.va, code |-> defs + 1]
    <3>1. /\ defs < MaxDefs /\ methods' = Append(methods, new) /\ Unambiguous(methods, new)
          /\ \A i \in 1..Len(methods) : ~Same(methods[i], new)
      BY <2>4 DEF Define
    <3>2. new \in Method
      BY <3>1, NewMethod DEF IInv
    <3> HIDE DEF new
    <3> QED
      BY <2>1, <3>1, <3>2, AcceptedKeepsOrder
  <2> QED
    BY <2>2, <2>3, <2>4
<1> QED
  BY InitIInv, NextIInv, <1>1, PTL DEF Spec, DefinitionKeepsOrder
=============================================================================
