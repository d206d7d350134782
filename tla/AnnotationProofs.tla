-------------------------- MODULE AnnotationProofs --------------------------
(***************************************************************************)
(* Proofs about AnnotationLayer and AnnotationView, for every duration, any *)
(* layers and texts and any depth of the undo stack.                        *)
(*                                                                          *)
(* First what each operation of a layer returns, then what each edit keeps  *)
(* and what takes it back, then what undo and redo of a whole document keep *)
(* whatever its order, and what they give back.  The invariant says what a  *)
(* command is for: the commands on the two stacks lead one by one from each *)
(* remembered document to the next, and back.                               *)
(***************************************************************************)
EXTENDS AnnotationView, DataLemmas, SequenceTheorems, TLAPS

Document == Seq(Layer)

Ordered(d) == \A l \in DOMAIN d : InOrder(d[l])

Gapless(d) == \A l \in DOMAIN d : Chained(d[l])

Run(es) == es # <<>> /\ es[1].start = 0 /\ \A i \in 1..(Len(es) - 1) : es[i].end = es[i + 1].start

Rising(es) == \A i, j \in 1..Len(es) : i < j => es[i].start < es[j].start

\* Command c leads from the document `before` to `after`, and back.
Leads(c, before, after) ==
    /\ Undoable(c, after) /\ Undone(c, after) = before
    /\ Redoable(c, before) /\ Redone(c, before) = after
    /\ Saved(c, before) = c

\* The command c of a stack leads from the document in place to the one promised.
Linked(c, here, there, back) == IF back THEN Leads(c, there, here) ELSE Leads(c, here, there)

\* The commands on top of the stack cs lead through the documents ds, one by one.
FromTop(s, i) == s[Len(s) - i]

Chain(cs, ds, here, back) ==
    /\ Len(ds) <= Len(cs)
    /\ \A i \in 0..(Len(ds) - 1) :
           Linked(FromTop(cs, i), IF i = 0 THEN here ELSE FromTop(ds, i - 1), FromTop(ds, i), back)

IInv ==
    /\ TypeOK
    /\ Chain(undo, past, layers, TRUE)
    /\ Chain(redo, future, layers, FALSE)
    /\ Gapless(layers) /\ (~astray => Ordered(layers))
    /\ \A i \in 1..Len(past) : Ordered(past[i])
    /\ \A i \in 1..Len(future) : Ordered(future[i])
    /\ astray => past = <<>> /\ future = <<>>

-----------------------------------------------------------------------------
(* Sequences.                                                               *)

\* Inserting shifts what comes after.
LEMMA InsertAtFact ==
  ASSUME NEW S, NEW s \in Seq(S), NEW e \in S, NEW i \in 1..(Len(s) + 1)
  PROVE  /\ InsertAt(s, i, e) \in Seq(S)
         /\ Len(InsertAt(s, i, e)) = Len(s) + 1
         /\ \A j \in 1..(Len(s) + 1) :
               InsertAt(s, i, e)[j] = IF j < i THEN s[j] ELSE IF j = i THEN e ELSE s[j - 1]
<1> DEFINE left  == SubSeq(s, 1, i - 1)
           right == SubSeq(s, i, Len(s))
           front == left \o <<e>>
<1>1. Len(s) \in Nat /\ s \in [1..Len(s) -> S]
  BY LenProperties
<1>2. left \in Seq(S) /\ Len(left) = i - 1 /\ \A j \in 1..(i - 1) : left[j] = s[j]
  <2>1. \A j \in 1..(i - 1) : s[j] \in S
    BY <1>1
  <2>2. /\ left \in Seq(S)
        /\ Len(left) = IF 1 <= i - 1 THEN (i - 1) - 1 + 1 ELSE 0
        /\ \A j \in 1..((i - 1) - 1 + 1) : left[j] = s[1 + j - 1]
    BY <2>1, <1>1, SubSeqProperties
  <2> QED
    BY <2>2, <1>1
<1>3. right \in Seq(S) /\ Len(right) = Len(s) - i + 1 /\ \A j \in 1..(Len(s) - i + 1) : right[j] = s[i + j - 1]
  <2>1. \A j \in i..Len(s) : s[j] \in S
    BY <1>1
  <2>2. /\ right \in Seq(S)
        /\ Len(right) = IF i <= Len(s) THEN Len(s) - i + 1 ELSE 0
        /\ \A j \in 1..(Len(s) - i + 1) : right[j] = s[i + j - 1]
    BY <2>1, <1>1, SubSeqProperties
  <2> QED
    BY <2>2, <1>1
<1>4. <<e>> \in Seq(S) /\ Len(<<e>>) = 1 /\ <<e>>[1] = e
  OBVIOUS
<1> HIDE DEF left, right
<1>5. front \in Seq(S) /\ Len(front) = i /\ \A j \in 1..i : front[j] = IF j < i THEN s[j] ELSE e
  <2>1. /\ front \in Seq(S) /\ Len(front) = (i - 1) + 1
        /\ \A j \in 1..((i - 1) + 1) : front[j] = IF j <= i - 1 THEN left[j] ELSE <<e>>[j - (i - 1)]
    BY <1>2, <1>4, ConcatProperties
  <2> QED
    BY <2>1, <1>1, <1>2, <1>4
<1> HIDE DEF front
<1>6. /\ front \o right \in Seq(S) /\ Len(front \o right) = i + (Len(s) - i + 1)
      /\ \A j \in 1..(i + (Len(s) - i + 1)) :
            (front \o right)[j] = IF j <= i THEN front[j] ELSE right[j - i]
  BY <1>3, <1>5, ConcatProperties
<1>7. InsertAt(s, i, e) = front \o right
  BY DEF InsertAt, front, left, right
<1>8. i + (Len(s) - i + 1) = Len(s) + 1
  BY <1>1
<1>9. \A j \in 1..(Len(s) + 1) :
          (front \o right)[j] = IF j < i THEN s[j] ELSE IF j = i THEN e ELSE s[j - 1]
  BY <1>1, <1>3, <1>5, <1>6, <1>8, SMTT(30)
<1> QED
  BY <1>6, <1>7, <1>8, <1>9

\* Removing closes the gap.
LEMMA RemoveAtFact ==
  ASSUME NEW S, NEW s \in Seq(S), NEW i \in 1..Len(s)
  PROVE  /\ RemoveAt(s, i) \in Seq(S)
         /\ Len(RemoveAt(s, i)) = Len(s) - 1
         /\ \A j \in 1..(Len(s) - 1) :
               RemoveAt(s, i)[j] = IF j < i THEN s[j] ELSE s[j + 1]
<1> DEFINE left  == SubSeq(s, 1, i - 1)
           right == SubSeq(s, i + 1, Len(s))
<1>1. Len(s) \in Nat /\ s \in [1..Len(s) -> S]
  BY LenProperties
<1>2. left \in Seq(S) /\ Len(left) = i - 1 /\ \A j \in 1..(i - 1) : left[j] = s[j]
  <2>1. \A j \in 1..(i - 1) : s[j] \in S
    BY <1>1
  <2>2. /\ left \in Seq(S)
        /\ Len(left) = IF 1 <= i - 1 THEN (i - 1) - 1 + 1 ELSE 0
        /\ \A j \in 1..((i - 1) - 1 + 1) : left[j] = s[1 + j - 1]
    BY <2>1, <1>1, SubSeqProperties
  <2> QED
    BY <2>2, <1>1
<1>3. right \in Seq(S) /\ Len(right) = Len(s) - i /\ \A j \in 1..(Len(s) - i) : right[j] = s[i + j]
  <2>1. \A j \in (i + 1)..Len(s) : s[j] \in S
    BY <1>1
  <2>2. /\ right \in Seq(S)
        /\ Len(right) = IF i + 1 <= Len(s) THEN Len(s) - (i + 1) + 1 ELSE 0
        /\ \A j \in 1..(Len(s) - (i + 1) + 1) : right[j] = s[(i + 1) + j - 1]
    BY <2>1, <1>1, SubSeqProperties
  <2>3. ASSUME NEW j \in 1..(Len(s) - i) PROVE right[j] = s[i + j]
    <3>1. j \in 1..(Len(s) - (i + 1) + 1) /\ (i + 1) + j - 1 = i + j
      BY <1>1
    <3> QED
      BY <2>2, <3>1
  <2>4. Len(right) = Len(s) - i
    <3>1. CASE i + 1 <= Len(s)
      BY <2>2, <3>1, <1>1
    <3>2. CASE ~(i + 1 <= Len(s))
      <4>1. i = Len(s)
        <5>1. i \in Int /\ i <= Len(s)
          BY <1>1
        <5>2. Len(s) \in Int
          BY <1>1
        <5>3. Len(s) <= i
          BY <3>2, <5>1, <5>2
        <5> QED
          BY <5>1, <5>2, <5>3
      <4> QED
        BY <2>2, <3>2, <4>1, <1>1
    <3> QED
      BY <3>1, <3>2
  <2> QED
    BY <2>2, <2>3, <2>4
<1> HIDE DEF left, right
<1>4. /\ left \o right \in Seq(S) /\ Len(left \o right) = Len(s) - 1
      /\ \A j \in 1..(Len(s) - 1) :
            (left \o right)[j] = IF j <= i - 1 THEN left[j] ELSE right[j - (i - 1)]
  <2>1. /\ left \o right \in Seq(S) /\ Len(left \o right) = Len(left) + Len(right)
        /\ \A j \in 1..(Len(left) + Len(right)) :
              (left \o right)[j] = IF j <= Len(left) THEN left[j] ELSE right[j - Len(left)]
    BY <1>2, <1>3, ConcatProperties
  <2>2. Len(left) + Len(right) = Len(s) - 1
    BY <1>1, <1>2, <1>3
  <2> QED
    BY <2>1, <2>2, <1>2
<1>5. RemoveAt(s, i) = left \o right
  BY DEF RemoveAt, left, right
<1>6. \A j \in 1..(Len(s) - 1) : (left \o right)[j] = IF j < i THEN s[j] ELSE s[j + 1]
  <2> TAKE j \in 1..(Len(s) - 1)
  <2>1. CASE j < i
    BY <2>1, <1>1, <1>2, <1>4
  <2>2. CASE ~(j < i)
    <3>1. j - (i - 1) \in 1..(Len(s) - i) /\ i + (j - (i - 1)) = j + 1 /\ ~(j <= i - 1)
      BY <2>2, <1>1
    <3> QED
      BY <2>2, <3>1, <1>3, <1>4
  <2> QED
    BY <2>1, <2>2
<1> QED
  BY <1>1, <1>4, <1>5, <1>6

\* Taking out what was inserted, and putting back what was taken out.
LEMMA RemoveInserted ==
  ASSUME NEW S, NEW s \in Seq(S), NEW e \in S, NEW i \in 1..(Len(s) + 1)
  PROVE  RemoveAt(InsertAt(s, i, e), i) = s
<1> DEFINE u == InsertAt(s, i, e)
<1>1. /\ u \in Seq(S) /\ Len(u) = Len(s) + 1
      /\ \A j \in 1..(Len(s) + 1) : u[j] = IF j < i THEN s[j] ELSE IF j = i THEN e ELSE s[j - 1]
  <2>1. u \in Seq(S) /\ Len(u) = Len(s) + 1
    BY InsertAtFact
  <2>2. ASSUME NEW j \in 1..(Len(s) + 1)
        PROVE  u[j] = IF j < i THEN s[j] ELSE IF j = i THEN e ELSE s[j - 1]
    BY ONLY InsertAtFact, s \in Seq(S), e \in S, i \in 1..(Len(s) + 1), j \in 1..(Len(s) + 1), SMTT(30)
  <2> QED
    BY <2>1, <2>2
<1> HIDE DEF u
<1>2. Len(s) \in Nat
  BY LenProperties
<1>3. /\ RemoveAt(u, i) \in Seq(S) /\ Len(RemoveAt(u, i)) = Len(u) - 1
      /\ \A j \in 1..(Len(u) - 1) : RemoveAt(u, i)[j] = IF j < i THEN u[j] ELSE u[j + 1]
  BY <1>1, RemoveAtFact
<1>4. ASSUME NEW j \in 1..Len(s) PROVE RemoveAt(u, i)[j] = s[j]
  <2>1. j \in 1..(Len(u) - 1) /\ j \in 1..(Len(s) + 1) /\ j + 1 \in 1..(Len(s) + 1) /\ (j + 1) - 1 = j
    BY <1>1, <1>2
  <2>2. CASE j < i
    BY <2>1, <2>2, <1>1, <1>3
  <2>3. CASE ~(j < i)
    BY <2>1, <2>3, <1>1, <1>3
  <2> QED
    BY <2>2, <2>3
<1>5. RemoveAt(u, i) = s
  BY <1>1, <1>2, <1>3, <1>4, SeqEqual
<1> QED
  BY <1>5 DEF u

\* Removing an event and inserting another in its place replaces it.
LEMMA InsertRemoved ==
  ASSUME NEW S, NEW s \in Seq(S), NEW e \in S, NEW i \in 1..Len(s)
  PROVE  InsertAt(RemoveAt(s, i), i, e) = [s EXCEPT ![i] = e]
<1> DEFINE u == RemoveAt(s, i)
<1>1. /\ u \in Seq(S) /\ Len(u) = Len(s) - 1
      /\ \A j \in 1..(Len(s) - 1) : u[j] = IF j < i THEN s[j] ELSE s[j + 1]
  BY RemoveAtFact
<1> HIDE DEF u
<1>2. Len(s) \in Nat
  BY LenProperties
<1>3. /\ InsertAt(u, i, e) \in Seq(S) /\ Len(InsertAt(u, i, e)) = Len(u) + 1
      /\ \A j \in 1..(Len(u) + 1) :
            InsertAt(u, i, e)[j] = IF j < i THEN u[j] ELSE IF j = i THEN e ELSE u[j - 1]
  <2>1. i \in 1..(Len(u) + 1) /\ u \in Seq(S)
    BY <1>1, <1>2
  <2>2. InsertAt(u, i, e) \in Seq(S) /\ Len(InsertAt(u, i, e)) = Len(u) + 1
    BY <2>1, InsertAtFact
  <2>3. ASSUME NEW j \in 1..(Len(u) + 1)
        PROVE  InsertAt(u, i, e)[j] = IF j < i THEN u[j] ELSE IF j = i THEN e ELSE u[j - 1]
    BY <2>1, InsertAtFact
  <2> QED
    BY <2>2, <2>3
<1>4. /\ [s EXCEPT ![i] = e] \in Seq(S) /\ Len([s EXCEPT ![i] = e]) = Len(s)
      /\ \A j \in 1..Len(s) : [s EXCEPT ![i] = e][j] = IF j = i THEN e ELSE s[j]
  BY ExceptSeq
<1>5. \A j \in 1..Len(s) : InsertAt(u, i, e)[j] = [s EXCEPT ![i] = e][j]
  BY <1>1, <1>2, <1>3, <1>4
<1>6. InsertAt(u, i, e) = [s EXCEPT ![i] = e]
  BY <1>1, <1>2, <1>3, <1>4, <1>5, SeqEqual
<1> QED
  BY <1>6 DEF u

-----------------------------------------------------------------------------
(* Events and searches.                                                     *)

\* What the elements of a sequence of events are.
LEMMA EventsFact ==
  ASSUME NEW es \in Seq(Event)
  PROVE  /\ Len(es) \in Nat /\ DOMAIN es = 1..Len(es)
         /\ \A i \in 1..Len(es) :
               /\ es[i] \in Event
               /\ es[i].start \in Times /\ es[i].end \in Times /\ es[i].text \in Seq(Words)
               /\ es[i].start \in Nat /\ es[i].end \in Nat
<1>1. Len(es) \in Nat /\ es \in [1..Len(es) -> Event] /\ DOMAIN es = 1..Len(es)
  BY LenProperties
<1>2. \A i \in 1..Len(es) : es[i] \in Event
  BY <1>1
<1>3. \A x \in Times : x \in Nat
  BY DurationAssumption DEF Times
<1>4. \A ev \in Event : ev.start \in Times /\ ev.end \in Times /\ ev.text \in Seq(Words)
  BY DEF Event
<1> QED
  BY <1>1, <1>2, <1>3, <1>4

\* Changing one field of an event.
LEMMA EventExcept ==
  ASSUME NEW ev \in Event, NEW x
  PROVE  /\ ev = [start |-> ev.start, end |-> ev.end, text |-> ev.text]
         /\ [ev EXCEPT !.start = x] = [start |-> x, end |-> ev.end, text |-> ev.text]
         /\ [ev EXCEPT !.end = x] = [start |-> ev.start, end |-> x, text |-> ev.text]
         /\ [ev EXCEPT !.text = x] = [start |-> ev.start, end |-> ev.end, text |-> x]
BY DEF Event

\* The binary search ends between two neighbours: the first is before, if there
\* is one, and the second is not.  On a layer out of order that is all it says.
LEMMA LowerBoundFact ==
  ASSUME NEW before, NEW n \in Nat, Len(before) = n
  PROVE  LET r == LowerBound(before)
         IN  r \in 1..(n + 1) /\ (r > 1 => before[r - 1]) /\ (r <= n => ~before[r])
<1> DEFINE V == {r \in (1..(n + 1)) \X (1..(n + 1)) : r[1] <= r[2]}
           g == [p \in (1..n) \X V |-> Halved(before, p[2])]
           Def(h) == [k \in 0..n |-> IF k = 0 THEN <<1, n + 1>> ELSE Halved(before, h[k - 1])]
           s == CHOOSE h : h = Def(h)
           Good(r) == /\ r \in V
                      /\ (r[1] > 1 => before[r[1] - 1]) /\ (r[2] <= n => ~before[r[2]])
<1>1. ASSUME NEW r \in V
      PROVE  /\ Halved(before, r) \in V
             /\ Good(r) => Good(Halved(before, r))
             /\ r[1] # r[2] => Halved(before, r)[2] - Halved(before, r)[1] < r[2] - r[1]
             /\ r[1] = r[2] => Halved(before, r) = r
  <2> DEFINE lo == r[1]
             hi == r[2]
             m  == (lo + hi) \div 2
  <2>1. lo \in 1..(n + 1) /\ hi \in 1..(n + 1) /\ lo <= hi /\ r = <<lo, hi>>
    OBVIOUS
  <2> HIDE DEF lo, hi
  <2>2. CASE lo = hi
    <3>1. Halved(before, r) = r
      BY <2>2 DEF Halved, lo, hi
    <3> QED
      BY <3>1, <2>2 DEF lo, hi
  <2>3. CASE lo # hi
    <3>1. m \in Nat /\ lo <= m /\ m < hi
      BY <2>1, <2>3
    <3>2. Halved(before, r) = IF before[m] THEN <<m + 1, hi>> ELSE <<lo, m>>
      BY <2>3, <2>1 DEF Halved, lo, hi
    <3> HIDE DEF m
    <3>3. CASE before[m]
      <4>1. Halved(before, r) = <<m + 1, hi>> /\ m + 1 \in 1..(n + 1) /\ m + 1 <= hi /\ (m + 1) - 1 = m
        BY <3>1, <3>2, <3>3, <2>1
      <4>2. hi - (m + 1) < hi - lo
        BY <3>1, <2>1
      <4> QED
        BY <4>1, <4>2, <3>3, <2>1, <2>3 DEF lo, hi
    <3>4. CASE ~before[m]
      <4>1. Halved(before, r) = <<lo, m>> /\ m \in 1..(n + 1) /\ lo <= m
        BY <3>1, <3>2, <3>4, <2>1
      <4>2. m - lo < hi - lo
        BY <3>1, <2>1
      <4> QED
        BY <4>1, <4>2, <3>4, <2>1, <2>3 DEF lo, hi
    <3> QED
      BY <3>3, <3>4
  <2> QED
    BY <2>2, <2>3
<1>2. <<1, n + 1>> \in V /\ Good(<<1, n + 1>>)
  OBVIOUS
<1>3. PICK f \in [0..n -> V] : f[0] = <<1, n + 1>> /\ \A k \in 1..n : f[k] = Halved(before, f[k - 1])
  <2>1. DOMAIN g = (1..n) \X V /\ \A k \in 1..n, v \in V : g[<<k, v>>] = Halved(before, v)
    OBVIOUS
  <2> HIDE DEF g, V, Good
  <2>2. \A k \in 1..n, v \in V : g[<<k, v>>] \in V
    <3> TAKE k \in 1..n, v \in V
    <3>1. Halved(before, v) \in V
      BY <1>1
    <3>2. g[<<k, v>>] = Halved(before, v)
      BY <2>1
    <3> QED
      BY <3>1, <3>2
  <2>3. PICK f \in [0..n -> V] : Pass(f, <<1, n + 1>>, g, n)
    BY <1>2, <2>1, <2>2, PassExists
  <2>4. \A k \in 1..n : k - 1 \in 0..n
    OBVIOUS
  <2> QED
    BY <2>1, <2>3, <2>4 DEF Pass
<1> HIDE DEF V, Good, g
<1>4. f = Def(f)
  <2>1. \A k \in 0..n : f[k] = IF k = 0 THEN <<1, n + 1>> ELSE Halved(before, f[k - 1])
    <3>1. \A k \in 0..n : k # 0 => k \in 1..n
      OBVIOUS
    <3> QED
      BY <1>3, <3>1
  <2> QED
    BY <2>1, <1>3
<1>5. s = Def(s)
  <2> HIDE DEF Def
  <2> QED
    BY <1>4
<1>6. LowerBound(before) = s[n][1]
  BY DEF LowerBound
<1>7. s[0] = <<1, n + 1>> /\ \A k \in 1..n : s[k] = Halved(before, s[k - 1])
  <2>1. ASSUME NEW h, h = Def(h)
        PROVE  h[0] = <<1, n + 1>> /\ \A k \in 1..n : h[k] = Halved(before, h[k - 1])
    <3>1. \A k \in 0..n : h[k] = IF k = 0 THEN <<1, n + 1>> ELSE Halved(before, h[k - 1])
      BY <2>1
    <3> QED
      BY <3>1
  <2> HIDE DEF s, Def
  <2> QED
    BY <1>5, <2>1
<1> HIDE DEF s, Def
<1> DEFINE T == {k \in 0..n : Good(s[k]) /\ s[k][2] - s[k][1] <= n - k}
<1>8. 0 \in T
  BY <1>2, <1>7
<1>9. \A k \in 0..(n - 1) : k \in T => k + 1 \in T
  <2> SUFFICES ASSUME NEW k \in 0..(n - 1), k \in T PROVE k + 1 \in T
    OBVIOUS
  <2>1. k + 1 \in 1..n /\ k + 1 \in 0..n /\ (k + 1) - 1 = k
    OBVIOUS
  <2> DEFINE r == s[k]
             q == s[k + 1]
  <2>2. q = Halved(before, r)
    BY <1>7, <2>1
  <2>3. Good(r) /\ r \in V /\ r[2] - r[1] <= n - k
    BY DEF Good
  <2> HIDE DEF r, q
  <2>4. /\ q \in V /\ Good(q)
        /\ r[1] # r[2] => q[2] - q[1] < r[2] - r[1]
        /\ r[1] = r[2] => q = r
    BY <1>1, <2>2, <2>3
  <2>5. r[1] \in Int /\ r[2] \in Int /\ q[1] \in Int /\ q[2] \in Int
    BY <2>3, <2>4 DEF V
  <2>6. q[2] - q[1] <= n - (k + 1)
    <3>1. CASE r[1] = r[2]
      BY <3>1, <2>4, <2>5
    <3>2. CASE r[1] # r[2]
      <4> DEFINE a == q[2] - q[1]
                 b == r[2] - r[1]
      <4>1. a \in Int /\ b \in Int
        BY <2>5
      <4>2. a < b /\ b <= n - k
        BY <3>2, <2>3, <2>4
      <4> HIDE DEF a, b
      <4>3. a <= n - (k + 1)
        BY <4>1, <4>2
      <4> QED
        BY <4>3 DEF a
    <3> QED
      BY <3>1, <3>2
  <2> QED
    BY <2>1, <2>4, <2>6 DEF q
<1>10. n \in T
  <2>1. n \in 0..n
    OBVIOUS
  <2> HIDE DEF T
  <2> QED
    BY <1>8, <1>9, <2>1, UpTo
<1> DEFINE r == s[n]
<1>11. Good(r) /\ r[2] - r[1] <= n - n
  BY <1>10
<1> HIDE DEF r
<1>12. r[1] \in 1..(n + 1) /\ r[2] = r[1] /\ (r[1] > 1 => before[r[1] - 1]) /\ (r[2] <= n => ~before[r[2]])
  BY <1>11 DEF Good, V
<1> QED
  BY <1>6, <1>12 DEF r

\* Where looking for a start ends on any layer.
LEMMA FirstFromFact ==
  ASSUME NEW es \in Seq(Event), NEW t \in Nat
  PROVE  /\ FirstFrom(es, t) \in 1..(Len(es) + 1)
         /\ FirstFrom(es, t) > 1 => es[FirstFrom(es, t) - 1].start < t
         /\ FirstFrom(es, t) <= Len(es) => es[FirstFrom(es, t)].start >= t
<1> DEFINE n == Len(es)
           before == [i \in 1..n |-> es[i].start < t]
           r == LowerBound(before)
<1>1. n \in Nat /\ \A i \in 1..n : es[i].start \in Nat
  BY EventsFact
<1>2. Len(before) = n /\ \A i \in 1..n : before[i] = (es[i].start < t)
  BY <1>1
<1> HIDE DEF before
<1>3. r \in 1..(n + 1) /\ (r > 1 => before[r - 1]) /\ (r <= n => ~before[r])
  BY <1>1, <1>2, LowerBoundFact
<1> HIDE DEF r, n
<1>4. r > 1 => r - 1 \in 1..n
  BY <1>1, <1>3
<1>5. r <= n => r \in 1..n
  BY <1>1, <1>3
<1>6. r > 1 => es[r - 1].start < t
  BY <1>2, <1>3, <1>4
<1>7. r <= n => es[r].start >= t
  <2>1. r <= n => ~(es[r].start < t)
    BY <1>2, <1>3, <1>5, Zenon
  <2> QED
    BY <2>1, <1>1, <1>5
<1> QED
  BY <1>3, <1>6, <1>7 DEF r, before, n, FirstFrom

\* On a layer in order it is the first event that starts at t or later.
LEMMA FirstFromRising ==
  ASSUME NEW es \in Seq(Event), NEW t \in Nat, Rising(es)
  PROVE  \A j \in 1..(FirstFrom(es, t) - 1) : es[j].start < t
<1> DEFINE f == FirstFrom(es, t)
<1>1. Len(es) \in Nat /\ \A j \in 1..Len(es) : es[j].start \in Nat
  BY EventsFact
<1>2. f \in 1..(Len(es) + 1) /\ (f > 1 => es[f - 1].start < t)
  BY FirstFromFact
<1> HIDE DEF f
<1> SUFFICES ASSUME NEW j \in 1..(f - 1) PROVE es[j].start < t
  BY DEF f
<1>3. j \in 1..Len(es) /\ f - 1 \in 1..Len(es) /\ f > 1 /\ (j = f - 1 \/ j < f - 1)
  BY <1>1, <1>2
<1>4. j < f - 1 => es[j].start < es[f - 1].start
  BY <1>3 DEF Rising
<1> QED
  BY <1>1, <1>2, <1>3, <1>4

\* ... and there is only one such place.
LEMMA FirstFromIs ==
  ASSUME NEW es \in Seq(Event), NEW t \in Nat, NEW i \in 1..(Len(es) + 1), Rising(es),
         \A j \in 1..(i - 1) : es[j].start < t,
         i <= Len(es) => es[i].start >= t
  PROVE  FirstFrom(es, t) = i
<1> DEFINE f == FirstFrom(es, t)
<1>1. Len(es) \in Nat /\ \A j \in 1..Len(es) : es[j].start \in Nat
  BY EventsFact
<1>2. /\ f \in 1..(Len(es) + 1) /\ \A j \in 1..(f - 1) : es[j].start < t
      /\ f <= Len(es) => es[f].start >= t
  BY FirstFromFact, FirstFromRising
<1> HIDE DEF f
<1>3. ~(f < i)
  <2> SUFFICES ASSUME f < i PROVE FALSE
    OBVIOUS
  <2>1. f \in 1..(i - 1) /\ f \in 1..Len(es)
    BY <1>1, <1>2
  <2> QED
    BY <2>1, <1>1, <1>2
<1>4. ~(i < f)
  <2> SUFFICES ASSUME i < f PROVE FALSE
    OBVIOUS
  <2>1. i \in 1..(f - 1) /\ i \in 1..Len(es)
    BY <1>1, <1>2
  <2> QED
    BY <2>1, <1>1, <1>2
<1> QED
  BY <1>1, <1>2, <1>3, <1>4 DEF f

\* The same about the ends: where looking for one ends on any layer.
LEMMA FirstEndingFact ==
  ASSUME NEW es \in Seq(Event), NEW t \in Nat
  PROVE  /\ FirstEnding(es, t) \in 1..(Len(es) + 1)
         /\ FirstEnding(es, t) > 1 => es[FirstEnding(es, t) - 1].end < t
         /\ FirstEnding(es, t) <= Len(es) => es[FirstEnding(es, t)].end >= t
<1> DEFINE n == Len(es)
           before == [i \in 1..n |-> es[i].end < t]
           r == LowerBound(before)
<1>1. n \in Nat /\ \A i \in 1..n : es[i].end \in Nat
  BY EventsFact
<1>2. Len(before) = n /\ \A i \in 1..n : before[i] = (es[i].end < t)
  BY <1>1
<1> HIDE DEF before
<1>3. r \in 1..(n + 1) /\ (r > 1 => before[r - 1]) /\ (r <= n => ~before[r])
  BY <1>1, <1>2, LowerBoundFact
<1> HIDE DEF r, n
<1>4. r > 1 => r - 1 \in 1..n
  BY <1>1, <1>3
<1>5. r <= n => r \in 1..n
  BY <1>1, <1>3
<1>6. r > 1 => es[r - 1].end < t
  BY <1>2, <1>3, <1>4
<1>7. r <= n => es[r].end >= t
  <2>1. r <= n => ~(es[r].end < t)
    BY <1>2, <1>3, <1>5, Zenon
  <2> QED
    BY <2>1, <1>1, <1>5
<1> QED
  BY <1>3, <1>6, <1>7 DEF r, before, n, FirstEnding

\* Where the ends rise, an event that ends at t or later, with the ones before
\* it ending earlier, is the one found.
LEMMA FirstEndingIs ==
  ASSUME NEW es \in Seq(Event), NEW t \in Nat, NEW i \in 1..Len(es),
         \A j, k \in 1..Len(es) : j < k => es[j].end < es[k].end,
         \A j \in 1..(i - 1) : es[j].end < t,
         es[i].end >= t
  PROVE  FirstEnding(es, t) = i
<1> DEFINE f == FirstEnding(es, t)
<1>1. Len(es) \in Nat /\ \A j \in 1..Len(es) : es[j].end \in Nat
  BY EventsFact
<1>2. /\ f \in 1..(Len(es) + 1) /\ (f > 1 => es[f - 1].end < t)
      /\ f <= Len(es) => es[f].end >= t
  BY FirstEndingFact
<1> HIDE DEF f
<1>3. ~(f < i)
  <2> SUFFICES ASSUME f < i PROVE FALSE
    OBVIOUS
  <2>1. f \in 1..(i - 1) /\ f \in 1..Len(es)
    BY <1>1, <1>2
  <2> QED
    BY <2>1, <1>1, <1>2
<1>4. ~(i < f)
  <2> SUFFICES ASSUME i < f PROVE FALSE
    OBVIOUS
  <2>1. f - 1 \in 1..Len(es) /\ f > 1 /\ (i = f - 1 \/ i < f - 1)
    BY <1>1, <1>2
  <2>2. i < f - 1 => es[i].end < es[f - 1].end
    BY <2>1
  <2> QED
    BY <2>1, <2>2, <1>1, <1>2
<1> QED
  BY <1>1, <1>2, <1>3, <1>4 DEF f

\* An interval that can be split is found, and t is inside it.
LEMMA FindIndexFact ==
  ASSUME NEW es \in Seq(Event), NEW t \in Nat, FindIndex(es, t) > 0
  PROVE  /\ FindIndex(es, t) \in 1..Len(es)
         /\ es[FindIndex(es, t)].start <= t /\ t <= es[FindIndex(es, t)].end
BY FirstEndingFact, EventsFact, SMTT(30) DEF FindIndex

-----------------------------------------------------------------------------
(* Cutting and merging intervals.                                           *)

\* What an interval layer holds once an anchor cuts its k-th interval at t.
LEMMA SplitFact ==
  ASSUME NEW es \in Seq(Event), NEW k \in 1..Len(es), NEW t \in Times
  PROVE  /\ Split(es, k, t) \in Seq(Event)
         /\ Len(Split(es, k, t)) = Len(es) + 1
         /\ \A j \in 1..(Len(es) + 1) :
               Split(es, k, t)[j] =
                   IF j < k THEN es[j]
                   ELSE IF j = k THEN [start |-> es[k].start, end |-> t, text |-> es[k].text]
                   ELSE IF j = k + 1 THEN [start |-> t, end |-> es[k].end, text |-> <<>>]
                   ELSE es[j - 1]
<1> DEFINE cut == [es[k] EXCEPT !.end = t]
           new == [start |-> t, end |-> es[k].end, text |-> <<>>]
           us  == [es EXCEPT ![k] = cut]
<1>1. /\ Len(es) \in Nat /\ es[k] \in Event /\ es[k].start \in Times /\ es[k].end \in Times
      /\ es[k].text \in Seq(Words)
  BY EventsFact
<1>2. <<>> \in Seq(Words)
  BY EmptySeq
<1>3. new \in Event
  BY <1>1, <1>2 DEF Event
<1>4. cut = [start |-> es[k].start, end |-> t, text |-> es[k].text] /\ cut \in Event
  BY <1>1, EventExcept DEF Event
<1> HIDE DEF cut
<1>5. us \in Seq(Event) /\ Len(us) = Len(es) /\ \A j \in 1..Len(es) : us[j] = IF j = k THEN cut ELSE es[j]
  BY <1>4, ExceptSeq
<1> HIDE DEF us, new
<1>6. /\ InsertAt(us, k + 1, new) \in Seq(Event) /\ Len(InsertAt(us, k + 1, new)) = Len(us) + 1
      /\ \A j \in 1..(Len(us) + 1) :
            InsertAt(us, k + 1, new)[j] = IF j < k + 1 THEN us[j] ELSE IF j = k + 1 THEN new ELSE us[j - 1]
  <2>1. k + 1 \in 1..(Len(us) + 1)
    BY <1>1, <1>5
  <2> DEFINE i == k + 1
  <2>2. i \in 1..(Len(us) + 1)
    BY <2>1
  <2> HIDE DEF i
  <2>3. /\ InsertAt(us, i, new) \in Seq(Event) /\ Len(InsertAt(us, i, new)) = Len(us) + 1
        /\ \A j \in 1..(Len(us) + 1) :
              InsertAt(us, i, new)[j] = IF j < i THEN us[j] ELSE IF j = i THEN new ELSE us[j - 1]
    <3>1. us \in Seq(Event)
      BY <1>5
    <3> QED
      BY ONLY <2>2, <3>1, <1>3, InsertAtFact
  <2> QED
    BY <2>3 DEF i
<1>7. Split(es, k, t) = InsertAt(us, k + 1, new)
  BY DEF Split, us, cut, new
<1>8. ASSUME NEW j \in 1..(Len(es) + 1)
      PROVE InsertAt(us, k + 1, new)[j] =
                IF j < k THEN es[j] ELSE IF j = k THEN cut ELSE IF j = k + 1 THEN new ELSE es[j - 1]
  <2>1. CASE j < k + 1
    BY <2>1, <1>1, <1>5, <1>6
  <2>2. CASE j = k + 1
    BY <2>2, <1>1, <1>5, <1>6
  <2>3. CASE j > k + 1
    <3>1. j - 1 \in 1..Len(es) /\ j - 1 # k
      BY <2>3, <1>1
    <3> QED
      BY <2>3, <3>1, <1>1, <1>5, <1>6, SMTT(30)
  <2> QED
    BY <2>1, <2>2, <2>3
<1> QED
  BY <1>4, <1>5, <1>6, <1>7, <1>8 DEF new

\* What an interval layer holds once the k-th interval is merged into the one before it.
LEMMA MergeFact ==
  ASSUME NEW es \in Seq(Event), NEW k \in 2..Len(es)
  PROVE  /\ Merge(es, k) \in Seq(Event)
         /\ Len(Merge(es, k)) = Len(es) - 1
         /\ \A j \in 1..(Len(es) - 1) :
               Merge(es, k)[j] =
                   IF j < k - 1 THEN es[j]
                   ELSE IF j = k - 1 THEN [start |-> es[k - 1].start, end |-> es[k].end,
                                           text |-> es[k - 1].text \o es[k].text]
                   ELSE es[j + 1]
<1> DEFINE new == [start |-> es[k - 1].start, end |-> es[k].end, text |-> es[k - 1].text \o es[k].text]
           us  == [es EXCEPT ![k - 1] = new]
<1>1. /\ Len(es) \in Nat /\ k - 1 \in 1..Len(es) /\ k \in 1..Len(es)
  BY EventsFact
<1>2. /\ es[k - 1].start \in Times /\ es[k].end \in Times
      /\ es[k - 1].text \in Seq(Words) /\ es[k].text \in Seq(Words)
  BY <1>1, EventsFact
<1>3. new \in Event
  <2>1. es[k - 1].text \o es[k].text \in Seq(Words)
    BY <1>2, ConcatProperties
  <2> QED
    BY <1>2, <2>1 DEF Event
<1> HIDE DEF new
<1>4. us \in Seq(Event) /\ Len(us) = Len(es) /\ \A j \in 1..Len(es) : us[j] = IF j = k - 1 THEN new ELSE es[j]
  BY <1>1, <1>3, ExceptSeq
<1> HIDE DEF us
<1>5. /\ RemoveAt(us, k) \in Seq(Event) /\ Len(RemoveAt(us, k)) = Len(us) - 1
      /\ \A j \in 1..(Len(us) - 1) : RemoveAt(us, k)[j] = IF j < k THEN us[j] ELSE us[j + 1]
  BY <1>1, <1>4, RemoveAtFact
<1>6. Merge(es, k) = RemoveAt(us, k)
  BY DEF Merge, us, new
<1>7. ASSUME NEW j \in 1..(Len(es) - 1)
      PROVE RemoveAt(us, k)[j] = IF j < k - 1 THEN es[j] ELSE IF j = k - 1 THEN new ELSE es[j + 1]
  <2>1. CASE j < k
    BY <2>1, <1>1, <1>4, <1>5
  <2>2. CASE ~(j < k)
    <3>1. j + 1 \in 1..Len(es) /\ j + 1 # k - 1 /\ j # k - 1 /\ ~(j < k - 1)
      BY <2>2, <1>1
    <3> QED
      BY <2>2, <3>1, <1>4, <1>5
  <2> QED
    BY <2>1, <2>2
<1> QED
  BY <1>4, <1>5, <1>6, <1>7 DEF new

\* No interval of a covered layer begins before an earlier one ends ...
LEMMA TilesApart ==
  ASSUME NEW es \in Seq(Event), Tiles(es), NEW i \in 1..Len(es), NEW j \in 1..Len(es), i < j
  PROVE  es[i].end <= es[j].start
<1>1. /\ Len(es) \in Nat /\ \A m \in 1..Len(es) : es[m].start \in Nat /\ es[m].end \in Nat
      /\ DOMAIN es = 1..Len(es)
  BY EventsFact
<1>2. i \in 1..(Len(es) - 1) /\ i + 1 \in 1..Len(es)
  BY <1>1
<1>3. es[i].end = es[i + 1].start
  BY <1>2 DEF Tiles
<1>4. CASE j = i + 1
  BY <1>1, <1>3, <1>4
<1>5. CASE i + 1 < j
  <2>1. es[i + 1].start < es[j].start
    BY <1>1, <1>2, <1>5 DEF Tiles
  <2>2. es[i + 1].start \in Nat /\ es[j].start \in Nat
    BY <1>1, <1>2
  <2> QED
    BY <1>3, <2>1, <2>2
<1> QED
  BY <1>1, <1>2, <1>4, <1>5

\* ... and that, with no gap between the bounds, is enough.
LEMMA TilesIf ==
  ASSUME NEW es \in Seq(Event), Len(es) > 0,
         es[1].start = 0, es[Len(es)].end = Duration,
         \A i \in 1..Len(es) : es[i].start < es[i].end,
         \A i \in 1..(Len(es) - 1) : es[i].end = es[i + 1].start,
         \A i \in 1..Len(es) : \A j \in 1..Len(es) : i < j => es[i].end <= es[j].start
  PROVE  Tiles(es)
<1>1. /\ Len(es) \in Nat /\ \A m \in 1..Len(es) : es[m].start \in Nat /\ es[m].end \in Nat
      /\ DOMAIN es = 1..Len(es)
  BY EventsFact
<1>2. es # <<>>
  BY EmptySeq
<1>3. ASSUME NEW i \in 1..Len(es), NEW j \in 1..Len(es), i < j
      PROVE  es[i].start < es[j].start /\ es[i].end < es[j].end
  <2>1. /\ es[i].start < es[i].end /\ es[i].end <= es[j].start /\ es[j].start < es[j].end
        /\ es[i].start \in Nat /\ es[i].end \in Nat /\ es[j].start \in Nat /\ es[j].end \in Nat
    BY <1>1, <1>3
  <2> QED
    BY <2>1
<1> QED
  BY <1>1, <1>2, <1>3 DEF Tiles

\* Cutting an interval strictly inside leaves the layer covered and in order.
LEMMA SplitTiles ==
  ASSUME NEW es \in Seq(Event), Tiles(es), NEW k \in 1..Len(es), NEW t \in Times,
         es[k].start < t, t < es[k].end
  PROVE  Tiles(Split(es, k, t))
<1> DEFINE u == Split(es, k, t)
           n == Len(es)
<1>1. /\ n \in Nat /\ k \in Nat /\ t \in Nat /\ k <= n
      /\ \A i \in 1..n : es[i].start \in Nat /\ es[i].end \in Nat
  BY EventsFact, DurationAssumption DEF Times
<1>2. /\ u \in Seq(Event) /\ Len(u) = n + 1
      /\ \A j \in 1..(n + 1) :
            /\ u[j].start = IF j <= k THEN es[j].start ELSE IF j = k + 1 THEN t ELSE es[j - 1].start
            /\ u[j].end = IF j < k THEN es[j].end ELSE IF j = k THEN t ELSE es[j - 1].end
  <2>1. /\ u \in Seq(Event) /\ Len(u) = n + 1
        /\ \A j \in 1..(n + 1) :
              u[j] = IF j < k THEN es[j]
                     ELSE IF j = k THEN [start |-> es[k].start, end |-> t, text |-> es[k].text]
                     ELSE IF j = k + 1 THEN [start |-> t, end |-> es[k].end, text |-> <<>>]
                     ELSE es[j - 1]
    BY SplitFact
  <2> HIDE DEF u
  <2>2. ASSUME NEW j \in 1..(n + 1)
        PROVE  /\ u[j].start = IF j <= k THEN es[j].start ELSE IF j = k + 1 THEN t ELSE es[j - 1].start
               /\ u[j].end = IF j < k THEN es[j].end ELSE IF j = k THEN t ELSE es[j - 1].end
    <3>1. CASE j < k
      BY <2>1, <3>1, <1>1
    <3>2. CASE j = k
      BY <2>1, <3>2, <1>1
    <3>3. CASE j = k + 1
      <4>1. j - 1 = k /\ ~(j < k) /\ j # k /\ ~(j <= k)
        BY <3>3, <1>1
      <4> QED
        BY <2>1, <3>3, <4>1
    <3>4. CASE j > k + 1
      <4>1. ~(j < k) /\ j # k /\ ~(j <= k) /\ j # k + 1
        BY <3>4, <1>1
      <4> QED
        BY <2>1, <4>1
    <3> QED
      BY <3>1, <3>2, <3>3, <3>4, <1>1
  <2> QED
    BY <2>1, <2>2
<1> HIDE DEF u
<1>3. /\ es[1].start = 0 /\ es[n].end = Duration
      /\ \A i \in 1..n : es[i].start < es[i].end
      /\ \A i \in 1..(n - 1) : es[i].end = es[i + 1].start
  BY EventsFact DEF Tiles
<1>4. \A i, j \in 1..n : i < j => es[i].end <= es[j].start
  BY TilesApart
<1> HIDE DEF n
<1>5. u[1].start = 0
  BY <1>1, <1>2, <1>3
<1>6. u[n + 1].end = Duration
  <2>1. n + 1 \in 1..(n + 1) /\ ~(n + 1 < k) /\ n + 1 # k /\ (n + 1) - 1 = n
    BY <1>1
  <2>2. u[n + 1].end = es[n].end
    BY <1>2, <2>1
  <2> QED
    BY <2>2, <1>3
<1>7. ASSUME NEW i \in 1..(n + 1) PROVE u[i].start < u[i].end
  <2>1. CASE i < k
    <3>1. i \in 1..n /\ i <= k
      BY <2>1, <1>1
    <3>2. u[i].start = es[i].start /\ u[i].end = es[i].end
      BY <2>1, <3>1, <1>2
    <3> QED
      BY <3>1, <3>2, <1>3
  <2>2. CASE i = k
    BY <2>2, <1>1, <1>2
  <2>3. CASE i = k + 1
    BY <2>3, <1>1, <1>2
  <2>4. CASE i > k + 1
    <3>1. i - 1 \in 1..n
      BY <2>4, <1>1
    <3>2. u[i].start = es[i - 1].start /\ u[i].end = es[i - 1].end
      BY <2>4, <1>1, <1>2
    <3> QED
      BY <3>1, <3>2, <1>3
  <2> QED
    BY <2>1, <2>2, <2>3, <2>4, <1>1
<1>8. ASSUME NEW i \in 1..n PROVE u[i].end = u[i + 1].start
  <2>1. i \in 1..(n + 1) /\ i + 1 \in 1..(n + 1)
    BY <1>1
  <2>2. CASE i = k
    BY <2>1, <2>2, <1>1, <1>2
  <2>3. CASE i < k
    <3>1. i \in 1..(n - 1) /\ i + 1 <= k
      BY <2>3, <1>1
    <3> QED
      BY <3>1, <2>1, <2>3, <1>1, <1>2, <1>3
  <2>4. CASE i > k
    <3>1. i - 1 \in 1..(n - 1) /\ (i - 1) + 1 = i /\ (i + 1) - 1 = i
      BY <2>4, <1>1
    <3>2. es[i - 1].end = es[i].start
      BY <3>1, <1>3
    <3> QED
      BY ONLY <3>1, <3>2, <2>1, <2>4, <1>1, <1>2, k \in 1..n, SMTT(60)
  <2> QED
    BY <2>2, <2>3, <2>4, <1>1
<1>9. ASSUME NEW i \in 1..(n + 1), NEW j \in 1..(n + 1), i < j
      PROVE  u[i].end <= u[j].start
  <2>1. CASE j <= k
    <3>1. i \in 1..n /\ j \in 1..n /\ i < k
      BY <2>1, <1>9, <1>1
    <3> QED
      BY <3>1, <2>1, <1>9, <1>2, <1>4
  <2>2. CASE j = k + 1
    <3>1. i = k \/ (i < k /\ i \in 1..n)
      BY <2>2, <1>9, <1>1
    <3>2. CASE i = k
      BY <3>2, <2>2, <1>1, <1>2
    <3>3. CASE i < k /\ i \in 1..n
      <4>1. u[i].end = es[i].end /\ u[j].start = t /\ es[i].end <= es[k].start
        BY <3>3, <2>2, <1>1, <1>2, <1>4
      <4> QED
        BY <4>1, <3>3, <1>1
    <3> QED
      BY <3>1, <3>2, <3>3
  <2>3. CASE j > k + 1
    <3>1. j - 1 \in 1..n /\ k < j - 1 /\ u[j].start = es[j - 1].start
      BY <2>3, <1>1, <1>2
    <3>2. CASE i < k
      <4>1. i \in 1..n /\ i < j - 1
        BY <3>1, <3>2, <1>1
      <4> QED
        BY <4>1, <3>1, <3>2, <1>2, <1>4
    <3>3. CASE i = k
      <4>1. u[i].end = t /\ es[k].end <= es[j - 1].start
        <5>1. k \in 1..n
          BY <1>1
        <5>2. es[k].end <= es[j - 1].start
          BY <5>1, <3>1, <1>4
        <5> QED
          BY <5>2, <3>3, <1>1, <1>2
      <4> QED
        BY <4>1, <3>1, <1>1
    <3>4. CASE i > k
      <4>1. i - 1 \in 1..n /\ i - 1 < j - 1 /\ u[i].end = es[i - 1].end
        BY <3>4, <1>9, <1>1, <1>2
      <4> QED
        BY <4>1, <3>1, <1>4
    <3> QED
      BY <3>2, <3>3, <3>4, <1>1
  <2> QED
    BY <2>1, <2>2, <2>3, <1>1
<1>10. Tiles(u)
  <2>1. (n + 1) - 1 = n /\ n + 1 > 0
    BY <1>1
  <2> QED
    BY <2>1, <1>2, <1>5, <1>6, <1>7, <1>8, <1>9, TilesIf
<1> QED
  BY <1>10 DEF u

\* Merging two intervals leaves the layer covered and in order.
LEMMA MergeTiles ==
  ASSUME NEW es \in Seq(Event), Tiles(es), NEW k \in 2..Len(es)
  PROVE  Tiles(Merge(es, k))
<1> DEFINE u == Merge(es, k)
           n == Len(es)
<1>1. /\ n \in Nat /\ k \in Nat /\ 2 <= k /\ k <= n
      /\ \A i \in 1..n : es[i].start \in Nat /\ es[i].end \in Nat
  BY EventsFact
<1>2. /\ u \in Seq(Event) /\ Len(u) = n - 1
      /\ \A j \in 1..(n - 1) :
            /\ u[j].start = IF j < k THEN es[j].start ELSE es[j + 1].start
            /\ u[j].end = IF j < k - 1 THEN es[j].end ELSE es[j + 1].end
  <2>1. /\ u \in Seq(Event) /\ Len(u) = n - 1
        /\ \A j \in 1..(n - 1) :
              u[j] = IF j < k - 1 THEN es[j]
                     ELSE IF j = k - 1 THEN [start |-> es[k - 1].start, end |-> es[k].end,
                                             text |-> es[k - 1].text \o es[k].text]
                     ELSE es[j + 1]
    BY MergeFact
  <2> HIDE DEF u
  <2>2. ASSUME NEW j \in 1..(n - 1)
        PROVE  /\ u[j].start = IF j < k THEN es[j].start ELSE es[j + 1].start
               /\ u[j].end = IF j < k - 1 THEN es[j].end ELSE es[j + 1].end
    <3>1. CASE j < k - 1
      <4>1. j < k
        BY <3>1, <1>1
      <4> QED
        BY <2>1, <3>1, <4>1
    <3>2. CASE j = k - 1
      <4>1. j + 1 = k /\ j < k /\ ~(j < k - 1)
        BY <3>2, <1>1
      <4> QED
        BY <2>1, <3>2, <4>1
    <3>3. CASE j > k - 1
      <4>1. ~(j < k - 1) /\ j # k - 1 /\ ~(j < k)
        BY <3>3, <1>1
      <4> QED
        BY <2>1, <4>1
    <3> QED
      BY <3>1, <3>2, <3>3, <1>1
  <2> QED
    BY <2>1, <2>2
<1> HIDE DEF u
<1>3. /\ es[1].start = 0 /\ es[n].end = Duration
      /\ \A i \in 1..n : es[i].start < es[i].end
      /\ \A i \in 1..(n - 1) : es[i].end = es[i + 1].start
  BY EventsFact DEF Tiles
<1>4. \A i, j \in 1..n : i < j => es[i].end <= es[j].start
  BY TilesApart
<1> HIDE DEF n
<1>5. u[1].start = 0
  BY <1>1, <1>2, <1>3
<1>6. u[n - 1].end = Duration
  <2>1. n - 1 \in 1..(n - 1) /\ ~(n - 1 < k - 1) /\ (n - 1) + 1 = n
    BY <1>1
  <2> QED
    BY <2>1, <1>2, <1>3
<1>7. ASSUME NEW i \in 1..(n - 1) PROVE u[i].start < u[i].end
  <2>1. i \in 1..n /\ i + 1 \in 1..n /\ i < i + 1
    BY <1>1
  <2>2. /\ es[i].start < es[i].end /\ es[i + 1].start < es[i + 1].end /\ es[i].end <= es[i + 1].start
        /\ es[i].start \in Nat /\ es[i].end \in Nat /\ es[i + 1].start \in Nat /\ es[i + 1].end \in Nat
    BY <2>1, <1>1, <1>3, <1>4
  <2>3. /\ u[i].start = es[i].start \/ (u[i].start = es[i + 1].start /\ u[i].end = es[i + 1].end)
        /\ u[i].end = es[i].end \/ u[i].end = es[i + 1].end
    BY <1>1, <1>2
  <2> QED
    BY <2>2, <2>3
<1>8. ASSUME NEW i \in 1..((n - 1) - 1) PROVE u[i].end = u[i + 1].start
  <2>1. i \in 1..(n - 1) /\ i + 1 \in 1..(n - 1)
    BY <1>1
  <2>2. CASE i < k - 1
    <3>1. i + 1 < k
      BY <2>2, <1>1
    <3> QED
      BY <2>1, <2>2, <3>1, <1>2, <1>3
  <2>3. CASE ~(i < k - 1)
    <3>1. ~(i + 1 < k)
      BY <2>3, <1>1
    <3>2. u[i].end = es[i + 1].end /\ u[i + 1].start = es[(i + 1) + 1].start
      BY <2>1, <2>3, <3>1, <1>2
    <3>3. es[i + 1].end = es[(i + 1) + 1].start
      BY <2>1, <1>3
    <3> QED
      BY <3>2, <3>3
  <2> QED
    BY <2>2, <2>3
<1>9. ASSUME NEW i \in 1..(n - 1), NEW j \in 1..(n - 1), i < j
      PROVE  u[i].end <= u[j].start
  <2>1. i \in 1..n /\ j \in 1..n /\ i + 1 \in 1..n /\ j + 1 \in 1..n /\ i + 1 < j + 1 /\ i < j + 1
    BY <1>1, <1>9
  <2>2. CASE i < k - 1
    <3>1. u[i].end = es[i].end
      BY <2>2, <1>2
    <3>2. u[j].start = es[j].start \/ u[j].start = es[j + 1].start
      BY <1>2
    <3> QED
      BY <3>1, <3>2, <2>1, <1>4, <1>9
  <2>3. CASE ~(i < k - 1)
    <3>1. ~(j < k)
      BY <2>3, <1>1, <1>9
    <3>2. u[i].end = es[i + 1].end /\ u[j].start = es[j + 1].start
      BY <2>3, <3>1, <1>2
    <3> QED
      BY <3>2, <2>1, <1>4
  <2> QED
    BY <2>2, <2>3
<1>10. Tiles(u)
  <2>1. n - 1 > 0
    BY <1>1
  <2> QED
    BY <2>1, <1>2, <1>5, <1>6, <1>7, <1>8, <1>9, TilesIf
<1> QED
  BY <1>10 DEF u

-----------------------------------------------------------------------------
(* Moving a bound.                                                          *)

\* What an interval layer holds once the end of its k-th interval is moved.
LEMMA MoveEndFact ==
  ASSUME NEW es \in Seq(Event), NEW k \in 1..Len(es), NEW to \in Times
  PROVE  /\ MoveEnd(es, k, to) \in Seq(Event)
         /\ Len(MoveEnd(es, k, to)) = Len(es)
         /\ \A j \in 1..Len(es) :
               MoveEnd(es, k, to)[j] =
                   IF j = k THEN [start |-> es[j].start, end |-> to, text |-> es[j].text]
                   ELSE IF j = k + 1 THEN [start |-> to, end |-> es[j].end, text |-> es[j].text]
                   ELSE es[j]
<1> DEFINE u == MoveEnd(es, k, to)
<1>1. /\ Len(es) \in Nat /\ DOMAIN es = 1..Len(es)
      /\ \A j \in 1..Len(es) :
            /\ es[j] \in Event
            /\ es[j].start \in Times /\ es[j].end \in Times /\ es[j].text \in Seq(Words)
  BY EventsFact
<1>2. u = [j \in 1..Len(es) |-> IF j = k THEN [es[j] EXCEPT !.end = to]
                                ELSE IF j = k + 1 THEN [es[j] EXCEPT !.start = to] ELSE es[j]]
  BY <1>1 DEF MoveEnd
<1> HIDE DEF u
<1>3. ASSUME NEW j \in 1..Len(es)
      PROVE  /\ u[j] = IF j = k THEN [start |-> es[j].start, end |-> to, text |-> es[j].text]
                       ELSE IF j = k + 1 THEN [start |-> to, end |-> es[j].end, text |-> es[j].text]
                       ELSE es[j]
             /\ u[j] \in Event
  <2>1. es[j] \in Event
    BY <1>1
  <2>2. /\ [es[j] EXCEPT !.start = to] = [start |-> to, end |-> es[j].end, text |-> es[j].text]
        /\ [es[j] EXCEPT !.end = to] = [start |-> es[j].start, end |-> to, text |-> es[j].text]
    BY <2>1, EventExcept
  <2>3. u[j] = IF j = k THEN [start |-> es[j].start, end |-> to, text |-> es[j].text]
               ELSE IF j = k + 1 THEN [start |-> to, end |-> es[j].end, text |-> es[j].text]
               ELSE es[j]
    BY <1>2, <2>2
  <2>4. /\ [start |-> es[j].start, end |-> to, text |-> es[j].text] \in Event
        /\ [start |-> to, end |-> es[j].end, text |-> es[j].text] \in Event
    BY <1>1 DEF Event
  <2> QED
    BY <2>1, <2>3, <2>4
<1>4. u \in [1..Len(es) -> Event]
  BY <1>2, <1>3
<1>5. u \in Seq(Event) /\ Len(u) = Len(es)
  BY <1>1, <1>4, FunctionIsSeq
<1> QED
  BY <1>3, <1>5 DEF u

\* An anchor moved between its neighbours leaves the layer covered and in order.
LEMMA MoveEndTiles ==
  ASSUME NEW es \in Seq(Event), Tiles(es), NEW k \in 1..(Len(es) - 1), NEW to \in Times,
         es[k].start < to, to < es[k + 1].end
  PROVE  Tiles(MoveEnd(es, k, to))
<1> DEFINE u == MoveEnd(es, k, to)
           n == Len(es)
<1>1. /\ n \in Nat /\ k \in 1..n /\ k + 1 \in 1..n /\ k # k + 1 /\ to \in Nat
      /\ \A i \in 1..n : es[i].start \in Nat /\ es[i].end \in Nat
  BY EventsFact, DurationAssumption DEF Times
<1>2. /\ u \in Seq(Event) /\ Len(u) = n
      /\ \A j \in 1..n :
            /\ u[j].start = IF j = k + 1 THEN to ELSE es[j].start
            /\ u[j].end = IF j = k THEN to ELSE es[j].end
  <2>1. /\ u \in Seq(Event) /\ Len(u) = Len(es)
        /\ \A j \in 1..Len(es) :
              u[j] = IF j = k THEN [start |-> es[j].start, end |-> to, text |-> es[j].text]
                     ELSE IF j = k + 1 THEN [start |-> to, end |-> es[j].end, text |-> es[j].text]
                     ELSE es[j]
    BY <1>1, MoveEndFact
  <2> HIDE DEF u
  <2>2. ASSUME NEW j \in 1..n
        PROVE  /\ u[j].start = IF j = k + 1 THEN to ELSE es[j].start
               /\ u[j].end = IF j = k THEN to ELSE es[j].end
    <3>1. CASE j = k
      <4>1. u[j] = [start |-> es[j].start, end |-> to, text |-> es[j].text] /\ j # k + 1
        BY <2>1, <3>1, <1>1
      <4> QED
        BY <4>1, <3>1
    <3>2. CASE j = k + 1
      <4>1. u[j] = [start |-> to, end |-> es[j].end, text |-> es[j].text] /\ j # k
        BY <2>1, <3>2, <1>1
      <4> QED
        BY <4>1, <3>2
    <3>3. CASE j # k /\ j # k + 1
      BY <2>1, <3>3
    <3> QED
      BY <3>1, <3>2, <3>3
  <2> QED
    BY <2>1, <2>2
<1> HIDE DEF u
<1>3. /\ es[1].start = 0 /\ es[n].end = Duration
      /\ \A i \in 1..n : es[i].start < es[i].end
      /\ \A i \in 1..(n - 1) : es[i].end = es[i + 1].start
  BY EventsFact DEF Tiles
<1>4. \A i, j \in 1..n : i < j => es[i].end <= es[j].start
  BY TilesApart
<1> HIDE DEF n
<1>5. u[1].start = 0 /\ u[n].end = Duration
  <2>1. 1 \in 1..n /\ n \in 1..n /\ 1 # k + 1 /\ n # k
    BY <1>1
  <2> QED
    BY <2>1, <1>2, <1>3
<1>6. ASSUME NEW i \in 1..n PROVE u[i].start < u[i].end
  <2>1. CASE i = k
    BY <2>1, <1>1, <1>2
  <2>2. CASE i = k + 1
    BY <2>2, <1>1, <1>2
  <2>3. CASE i # k /\ i # k + 1
    BY <2>3, <1>2, <1>3
  <2> QED
    BY <2>1, <2>2, <2>3
<1>7. ASSUME NEW i \in 1..(n - 1) PROVE u[i].end = u[i + 1].start
  <2>1. i \in 1..n /\ i + 1 \in 1..n /\ (i = k <=> i + 1 = k + 1)
    BY <1>1
  <2> QED
    BY <2>1, <1>2, <1>3
<1>8. ASSUME NEW i \in 1..n, NEW j \in 1..n, i < j
      PROVE  u[i].end <= u[j].start
  <2>1. CASE i = k /\ j = k + 1
    BY <2>1, <1>1, <1>2
  <2>2. CASE i = k /\ j # k + 1
    <3>1. k + 1 < j
      BY <2>2, <1>1, <1>8
    <3>2. u[i].end = to /\ u[j].start = es[j].start /\ es[k + 1].end <= es[j].start
      BY <2>2, <3>1, <1>1, <1>2, <1>4
    <3> QED
      BY <3>2, <1>1
  <2>3. CASE i # k /\ j = k + 1
    <3>1. i < k
      BY <2>3, <1>1, <1>8
    <3>2. u[i].end = es[i].end /\ u[j].start = to /\ es[i].end <= es[k].start
      BY <2>3, <3>1, <1>1, <1>2, <1>4
    <3> QED
      BY <3>2, <1>1
  <2>4. CASE i # k /\ j # k + 1
    BY <2>4, <1>2, <1>4, <1>8
  <2> QED
    BY <2>1, <2>2, <2>3, <2>4
<1>9. Tiles(u)
  <2>1. n > 0
    BY <1>1
  <2> QED
    BY <2>1, <1>2, <1>5, <1>6, <1>7, <1>8, TilesIf
<1> QED
  BY <1>9 DEF u

-----------------------------------------------------------------------------
(* Inverses.                                                                *)

\* The same of the other bound.
LEMMA MoveStartFact ==
  ASSUME NEW es \in Seq(Event), NEW k \in 1..Len(es), NEW to \in Times
  PROVE  /\ MoveStart(es, k, to) \in Seq(Event)
         /\ Len(MoveStart(es, k, to)) = Len(es)
         /\ \A j \in 1..Len(es) :
               MoveStart(es, k, to)[j] =
                   IF j = k THEN [start |-> to, end |-> es[j].end, text |-> es[j].text]
                   ELSE IF j = k - 1 THEN [start |-> es[j].start, end |-> to, text |-> es[j].text]
                   ELSE es[j]
<1> DEFINE u == MoveStart(es, k, to)
<1>1. /\ Len(es) \in Nat /\ DOMAIN es = 1..Len(es)
      /\ \A j \in 1..Len(es) :
            /\ es[j] \in Event
            /\ es[j].start \in Times /\ es[j].end \in Times /\ es[j].text \in Seq(Words)
  BY EventsFact
<1>2. u = [j \in 1..Len(es) |-> IF j = k THEN [es[j] EXCEPT !.start = to]
                                ELSE IF j = k - 1 THEN [es[j] EXCEPT !.end = to] ELSE es[j]]
  BY <1>1 DEF MoveStart
<1> HIDE DEF u
<1>3. ASSUME NEW j \in 1..Len(es)
      PROVE  /\ u[j] = IF j = k THEN [start |-> to, end |-> es[j].end, text |-> es[j].text]
                       ELSE IF j = k - 1 THEN [start |-> es[j].start, end |-> to, text |-> es[j].text]
                       ELSE es[j]
             /\ u[j] \in Event
  <2>1. es[j] \in Event
    BY <1>1
  <2>2. /\ [es[j] EXCEPT !.start = to] = [start |-> to, end |-> es[j].end, text |-> es[j].text]
        /\ [es[j] EXCEPT !.end = to] = [start |-> es[j].start, end |-> to, text |-> es[j].text]
    BY <2>1, EventExcept
  <2>3. u[j] = IF j = k THEN [start |-> to, end |-> es[j].end, text |-> es[j].text]
               ELSE IF j = k - 1 THEN [start |-> es[j].start, end |-> to, text |-> es[j].text]
               ELSE es[j]
    BY <1>2, <2>2
  <2>4. /\ [start |-> es[j].start, end |-> to, text |-> es[j].text] \in Event
        /\ [start |-> to, end |-> es[j].end, text |-> es[j].text] \in Event
    BY <1>1 DEF Event
  <2> QED
    BY <2>1, <2>3, <2>4
<1>4. u \in [1..Len(es) -> Event]
  BY <1>2, <1>3
<1>5. u \in Seq(Event) /\ Len(u) = Len(es)
  BY <1>1, <1>4, FunctionIsSeq
<1> QED
  BY <1>3, <1>5 DEF u

-----------------------------------------------------------------------------
(* Intervals without a gap, in order or not.                                *)

\* The first starts at 0 and each goes on where the one before it stopped.
LEMMA RunIf ==
  ASSUME NEW es \in Seq(Event), Len(es) > 0, es[1].start = 0,
         \A i \in 1..(Len(es) - 1) : es[i].end = es[i + 1].start
  PROVE  Run(es)
<1>1. es # <<>>
  BY EmptySeq
<1> QED
  BY <1>1 DEF Run

\* ... and conversely.
LEMMA RunFact ==
  ASSUME NEW es \in Seq(Event), Run(es)
  PROVE  /\ Len(es) \in Nat /\ Len(es) > 0 /\ es[1].start = 0
         /\ \A i \in 1..(Len(es) - 1) : es[i].end = es[i + 1].start
<1>1. Len(es) \in Nat /\ (Len(es) = 0 => es = <<>>)
  BY LenProperties, EmptySeq
<1> QED
  BY <1>1 DEF Run

\* Cutting an interval leaves no gap.
LEMMA SplitRun ==
  ASSUME NEW es \in Seq(Event), Run(es), NEW k \in 1..Len(es), NEW t \in Times
  PROVE  Run(Split(es, k, t))
<1> DEFINE u == Split(es, k, t)
           n == Len(es)
<1>1. n \in Nat /\ n > 0 /\ es[1].start = 0 /\ \A i \in 1..(n - 1) : es[i].end = es[i + 1].start
  BY RunFact
<1>2. /\ u \in Seq(Event) /\ Len(u) = n + 1
      /\ \A j \in 1..(n + 1) :
            u[j] = IF j < k THEN es[j]
                   ELSE IF j = k THEN [start |-> es[k].start, end |-> t, text |-> es[k].text]
                   ELSE IF j = k + 1 THEN [start |-> t, end |-> es[k].end, text |-> <<>>]
                   ELSE es[j - 1]
  BY SplitFact
<1> HIDE DEF u, n
<1>3. k \in 1..n
  BY DEF n
<1>4. u[1].start = 0
  <2>1. 1 \in 1..(n + 1) /\ (1 < k \/ 1 = k)
    BY <1>1, <1>3
  <2>2. CASE 1 < k
    BY <2>1, <2>2, <1>1, <1>2
  <2>3. CASE 1 = k
    <3>1. u[1] = [start |-> es[k].start, end |-> t, text |-> es[k].text] /\ es[k].start = 0
      BY <2>1, <2>3, <1>1, <1>2
    <3> QED
      BY <3>1
  <2> QED
    BY <2>1, <2>2, <2>3
<1>5. ASSUME NEW i \in 1..n PROVE u[i].end = u[i + 1].start
  <2>1. i \in 1..(n + 1) /\ i + 1 \in 1..(n + 1)
    BY <1>1
  <2>2. CASE i = k
    <3>1. ~(i < k) /\ ~(i + 1 < k) /\ i + 1 # k /\ i + 1 = k + 1
      BY <2>2, <1>1
    <3>2. /\ u[i] = [start |-> es[k].start, end |-> t, text |-> es[k].text]
          /\ u[i + 1] = [start |-> t, end |-> es[k].end, text |-> <<>>]
      BY <3>1, <2>1, <2>2, <1>2
    <3> QED
      BY <3>2
  <2>3. CASE i < k
    <3>1. u[i] = es[i] /\ i \in 1..(n - 1) /\ (i + 1 = k \/ i + 1 < k)
      <4>1. i \in 1..(n - 1) /\ (i + 1 = k \/ i + 1 < k)
        BY <2>3, <1>1, <1>3
      <4>2. u[i] = es[i]
        BY <2>1, <2>3, <1>2
      <4> QED
        BY <4>1, <4>2
    <3>2. u[i + 1].start = es[i + 1].start
      <4>1. CASE i + 1 < k
        BY <4>1, <2>1, <1>2
      <4>2. CASE i + 1 = k
        <5>1. u[i + 1] = [start |-> es[k].start, end |-> t, text |-> es[k].text]
          BY <4>2, <2>1, <1>2, <1>1
        <5> QED
          BY <5>1, <4>2
      <4> QED
        BY <3>1, <4>1, <4>2
    <3> QED
      BY <3>1, <3>2, <1>1
  <2>4. CASE i > k
    <3>1. /\ i - 1 \in 1..(n - 1) /\ (i - 1) + 1 = i /\ (i + 1) - 1 = i /\ i - 1 \in 1..n
          /\ ~(i < k) /\ i # k /\ ~(i + 1 < k) /\ i + 1 # k /\ i + 1 # k + 1
      BY <2>4, <1>1, <1>3
    <3>2. u[i + 1] = es[i]
      BY <3>1, <2>1, <1>2
    <3>3. u[i].end = es[i - 1].end
      <4>1. CASE i = k + 1
        <5>1. u[i] = [start |-> t, end |-> es[k].end, text |-> <<>>] /\ i - 1 = k
          BY <4>1, <3>1, <2>1, <1>2, <1>3
        <5> QED
          BY <5>1
      <4>2. CASE i # k + 1
        BY <4>2, <3>1, <2>1, <1>2
      <4> QED
        BY <4>1, <4>2
    <3>4. es[i - 1].end = es[i].start
      <4>1. es[i - 1].end = es[(i - 1) + 1].start
        BY <3>1, <1>1
      <4> QED
        BY <4>1, <3>1
    <3> QED
      BY <3>2, <3>3, <3>4
  <2> QED
    BY <2>2, <2>3, <2>4, <1>1, <1>3
<1>6. Len(u) > 0 /\ \A i \in 1..(Len(u) - 1) : u[i].end = u[i + 1].start
  <2>1. Len(u) - 1 = n /\ Len(u) > 0
    BY <1>1, <1>2
  <2> QED
    BY <2>1, <1>5
<1>7. Run(u)
  BY <1>2, <1>4, <1>6, RunIf
<1> QED
  BY <1>7 DEF u

\* Neither does merging two that follow one another.
LEMMA MergeRun ==
  ASSUME NEW es \in Seq(Event), Run(es), NEW k \in 2..Len(es)
  PROVE  Run(Merge(es, k))
<1> DEFINE u == Merge(es, k)
           n == Len(es)
<1>1. n \in Nat /\ n > 0 /\ es[1].start = 0 /\ \A i \in 1..(n - 1) : es[i].end = es[i + 1].start
  BY RunFact
<1>2. /\ u \in Seq(Event) /\ Len(u) = n - 1
      /\ \A j \in 1..(n - 1) :
            u[j] = IF j < k - 1 THEN es[j]
                   ELSE IF j = k - 1 THEN [start |-> es[k - 1].start, end |-> es[k].end,
                                           text |-> es[k - 1].text \o es[k].text]
                   ELSE es[j + 1]
  BY MergeFact
<1> DEFINE both == es[k - 1].text \o es[k].text
<1> HIDE DEF u, n, both
<1>3. k \in 2..n /\ k - 1 \in 1..(n - 1)
  BY <1>1 DEF n
<1>4. \A j \in 1..(n - 1) :
          /\ j < k - 1 => u[j] = es[j]
          /\ j = k - 1 => u[j] = [start |-> es[k - 1].start, end |-> es[k].end, text |-> both]
          /\ j > k - 1 => u[j] = es[j + 1]
  <2> TAKE j \in 1..(n - 1)
  <2>1. u[j] = IF j < k - 1 THEN es[j]
               ELSE IF j = k - 1 THEN [start |-> es[k - 1].start, end |-> es[k].end, text |-> both]
               ELSE es[j + 1]
    BY <1>2 DEF both
  <2>2. j \in Int /\ k - 1 \in Int
    BY <1>3
  <2> QED
    BY <2>1, <2>2
<1>5. u[1].start = 0
  <2>1. 1 \in 1..(n - 1) /\ (1 < k - 1 \/ 1 = k - 1)
    BY <1>1, <1>3
  <2> QED
    BY <2>1, <1>1, <1>4
<1>6. ASSUME NEW i \in 1..(n - 2) PROVE u[i].end = u[i + 1].start
  <2>1. i \in 1..(n - 1) /\ i + 1 \in 1..(n - 1) /\ (i + 1) + 1 \in 1..n
    BY <1>1
  <2>2. CASE i < k - 1
    <3>1. u[i] = es[i] /\ es[i].end = es[i + 1].start
      BY <2>1, <2>2, <1>1, <1>4
    <3>2. i + 1 < k - 1 \/ i + 1 = k - 1
      BY <2>2, <1>3
    <3>3. u[i + 1].start = es[i + 1].start
      BY <3>2, <2>1, <1>4
    <3> QED
      BY <3>1, <3>3
  <2>3. CASE i >= k - 1
    <3>1. i + 1 > k - 1 /\ (i = k - 1 \/ i > k - 1)
      BY <2>3, <1>3
    <3>2. u[i + 1] = es[(i + 1) + 1] /\ es[i + 1].end = es[(i + 1) + 1].start
      BY <3>1, <2>1, <1>1, <1>4
    <3>3. i = k - 1 => i + 1 = k
      BY <1>3
    <3>4. u[i].end = es[i + 1].end
      BY <3>1, <3>3, <2>1, <1>4
    <3> QED
      BY <3>2, <3>4
  <2> QED
    BY <2>2, <2>3, <1>3
<1>7. Len(u) > 0 /\ \A i \in 1..(Len(u) - 1) : u[i].end = u[i + 1].start
  <2>1. Len(u) - 1 = n - 2 /\ Len(u) > 0
    BY <1>1, <1>2, <1>3
  <2> QED
    BY <2>1, <1>6
<1>8. Run(u)
  BY <1>2, <1>5, <1>7, RunIf
<1> QED
  BY <1>8 DEF u

\* Neither does moving an anchor, wherever it goes.
LEMMA MoveEndRun ==
  ASSUME NEW es \in Seq(Event), Run(es), NEW k \in 1..Len(es), NEW to \in Times
  PROVE  Run(MoveEnd(es, k, to))
<1> DEFINE u == MoveEnd(es, k, to)
           n == Len(es)
<1>1. n \in Nat /\ n > 0 /\ es[1].start = 0 /\ \A i \in 1..(n - 1) : es[i].end = es[i + 1].start
  BY RunFact
<1>2. /\ u \in Seq(Event) /\ Len(u) = n
      /\ \A j \in 1..n :
            u[j] = IF j = k THEN [start |-> es[j].start, end |-> to, text |-> es[j].text]
                   ELSE IF j = k + 1 THEN [start |-> to, end |-> es[j].end, text |-> es[j].text]
                   ELSE es[j]
  BY MoveEndFact
<1> HIDE DEF u, n
<1>3. k \in 1..n
  BY DEF n
<1>4. \A j \in 1..n : /\ u[j].start = IF j = k + 1 THEN to ELSE es[j].start
                      /\ u[j].end = IF j = k THEN to ELSE es[j].end
  <2> TAKE j \in 1..n
  <2>1. ~(j = k /\ j = k + 1)
    BY <1>1, <1>3
  <2> QED
    BY <2>1, <1>2
<1>5. u[1].start = 0
  <2>1. 1 \in 1..n /\ 1 # k + 1
    BY <1>1, <1>3
  <2> QED
    BY <2>1, <1>1, <1>4
<1>6. \A i \in 1..(n - 1) : u[i].end = u[i + 1].start
  <2> TAKE i \in 1..(n - 1)
  <2>1. i \in 1..n /\ i + 1 \in 1..n /\ (i = k <=> i + 1 = k + 1)
    BY <1>1, <1>3
  <2> QED
    BY <2>1, <1>1, <1>4
<1>7. Run(u)
  BY <1>1, <1>2, <1>5, <1>6, RunIf
<1> QED
  BY <1>7 DEF u

\* ... by its other bound, which is not the beginning.
LEMMA MoveStartRun ==
  ASSUME NEW es \in Seq(Event), Run(es), NEW k \in 2..Len(es), NEW to \in Times
  PROVE  Run(MoveStart(es, k, to))
<1> DEFINE u == MoveStart(es, k, to)
           n == Len(es)
<1>1. n \in Nat /\ n > 0 /\ es[1].start = 0 /\ \A i \in 1..(n - 1) : es[i].end = es[i + 1].start
  BY RunFact
<1>8. k \in 1..Len(es)
  BY <1>1
<1>2. /\ u \in Seq(Event) /\ Len(u) = n
      /\ \A j \in 1..n :
            u[j] = IF j = k THEN [start |-> to, end |-> es[j].end, text |-> es[j].text]
                   ELSE IF j = k - 1 THEN [start |-> es[j].start, end |-> to, text |-> es[j].text]
                   ELSE es[j]
  BY <1>8, MoveStartFact
<1> HIDE DEF u, n
<1>3. k \in 2..n
  BY DEF n
<1>4. \A j \in 1..n : /\ u[j].start = IF j = k THEN to ELSE es[j].start
                      /\ u[j].end = IF j = k - 1 THEN to ELSE es[j].end
  <2> TAKE j \in 1..n
  <2>1. ~(j = k /\ j = k - 1)
    BY <1>1, <1>3
  <2> QED
    BY <2>1, <1>2
<1>5. u[1].start = 0
  <2>1. 1 \in 1..n /\ 1 # k
    BY <1>1, <1>3
  <2> QED
    BY <2>1, <1>1, <1>4
<1>6. \A i \in 1..(n - 1) : u[i].end = u[i + 1].start
  <2> TAKE i \in 1..(n - 1)
  <2>1. i \in 1..n /\ i + 1 \in 1..n /\ (i = k - 1 <=> i + 1 = k)
    BY <1>1, <1>3
  <2> QED
    BY <2>1, <1>1, <1>4
<1>7. Run(u)
  BY <1>1, <1>2, <1>5, <1>6, RunIf
<1> QED
  BY <1>7 DEF u

\* A layer whose events still are a run is chained as it was.
LEMMA ChainedIf ==
  ASSUME NEW ly, NEW x, x.instants = ly.instants, ~ly.instants => (Run(ly.events) => Run(x.events))
  PROVE  Chained(ly) => Chained(x)
BY DEF Chained, Run

\* A layer in order is chained.
LEMMA OrderChained ==
  ASSUME NEW ly, InOrder(ly)
  PROVE  Chained(ly)
BY DEF InOrder, Tiles, Chained

-----------------------------------------------------------------------------
(* What takes a change of the events back.                                  *)

\* Merging the two halves of an interval gives it back, its text too.
LEMMA MergeOfSplit ==
  ASSUME NEW es \in Seq(Event), NEW k \in 1..Len(es), NEW t \in Times
  PROVE  Merge(Split(es, k, t), k + 1) = es
<1> DEFINE u == Split(es, k, t)
           v == Merge(u, k + 1)
           n == Len(es)
<1>1. n \in Nat /\ k \in Nat /\ 1 <= k /\ k <= n
  BY EventsFact
<1>2. /\ u \in Seq(Event) /\ Len(u) = n + 1
      /\ \A j \in 1..(n + 1) :
            u[j] = IF j < k THEN es[j]
                   ELSE IF j = k THEN [start |-> es[k].start, end |-> t, text |-> es[k].text]
                   ELSE IF j = k + 1 THEN [start |-> t, end |-> es[k].end, text |-> <<>>]
                   ELSE es[j - 1]
  BY SplitFact
<1> HIDE DEF u
<1>3. /\ v \in Seq(Event) /\ Len(v) = n
      /\ \A j \in 1..n :
            v[j] = IF j < k THEN u[j]
                   ELSE IF j = k THEN [start |-> u[k].start, end |-> u[k + 1].end,
                                       text |-> u[k].text \o u[k + 1].text]
                   ELSE u[j + 1]
  <2> DEFINE m == k + 1
  <2>1. m \in 2..Len(u) /\ m - 1 = k /\ Len(u) - 1 = n
    BY <1>1, <1>2
  <2> HIDE DEF m
  <2>2. u \in Seq(Event)
    BY <1>2
  <2>3. /\ Merge(u, m) \in Seq(Event) /\ Len(Merge(u, m)) = Len(u) - 1
        /\ \A j \in 1..(Len(u) - 1) :
              Merge(u, m)[j] =
                  IF j < m - 1 THEN u[j]
                  ELSE IF j = m - 1 THEN [start |-> u[m - 1].start, end |-> u[m].end,
                                          text |-> u[m - 1].text \o u[m].text]
                  ELSE u[j + 1]
    BY ONLY <2>1, <2>2, MergeFact
  <2>4. /\ Merge(u, m) \in Seq(Event) /\ Len(Merge(u, m)) = n
        /\ \A j \in 1..n :
              Merge(u, m)[j] = IF j < k THEN u[j]
                  ELSE IF j = k THEN [start |-> u[k].start, end |-> u[m].end,
                                      text |-> u[k].text \o u[m].text]
                  ELSE u[j + 1]
    BY ONLY <2>1, <2>3
  <2> QED
    BY <2>4 DEF m
<1> HIDE DEF v
<1>4. ASSUME NEW j \in 1..n PROVE v[j] = es[j]
  <2>1. CASE j < k
    BY <2>1, <1>1, <1>2, <1>3
  <2>2. CASE j = k
    <3>1. k \in 1..(n + 1) /\ k + 1 \in 1..(n + 1) /\ ~(k < k) /\ ~(k + 1 < k) /\ k + 1 # k
      BY <1>1
    <3>2. /\ u[k] = [start |-> es[k].start, end |-> t, text |-> es[k].text]
          /\ u[k + 1] = [start |-> t, end |-> es[k].end, text |-> <<>>]
      BY <3>1, <1>2
    <3>3. es[k] \in Event /\ es[k].text \in Seq(Words)
      BY EventsFact
    <3>4. es[k].text \o <<>> = es[k].text
      BY <3>3, ConcatEmptySeq
    <3>5. v[k] = [start |-> es[k].start, end |-> es[k].end, text |-> es[k].text \o <<>>]
      BY <3>1, <3>2, <2>2, <1>3
    <3> QED
      BY <2>2, <3>3, <3>4, <3>5, EventExcept
  <2>3. CASE j > k
    <3>1. j + 1 \in 1..(n + 1) /\ ~(j + 1 < k) /\ j + 1 # k /\ j + 1 # k + 1 /\ (j + 1) - 1 = j
      BY <2>3, <1>1
    <3>2. u[j + 1] = es[j]
      <4>1. \A i \in 1..(n + 1) : ~(i < k) /\ i # k /\ i # k + 1 => u[i] = es[i - 1]
        BY <1>2
      <4> DEFINE i == j + 1
      <4>2. i \in 1..(n + 1) /\ ~(i < k) /\ i # k /\ i # k + 1 /\ i - 1 = j
        BY <3>1
      <4> HIDE DEF i
      <4>3. u[i] = es[j]
        BY ONLY <4>1, <4>2
      <4> QED
        BY <4>3 DEF i
    <3>3. ~(j < k) /\ j # k
      BY <2>3, <1>1
    <3> QED
      BY <3>2, <3>3, <1>3
  <2> QED
    BY <2>1, <2>2, <2>3, <1>1
<1>5. v = es
  BY <1>3, <1>4, SeqEqual
<1> QED
  BY <1>5 DEF v, u

\* Cutting a merged interval again restores everything but the two texts.
LEMMA SplitOfMerge ==
  ASSUME NEW es \in Seq(Event), NEW k \in 2..Len(es), NEW t \in Times,
         es[k - 1].end = t, es[k].start = t
  PROVE  LET v == Split(Merge(es, k), k - 1, t)
         IN  /\ v \in Seq(Event) /\ Len(v) = Len(es)
             /\ \A j \in 1..Len(es) :
                   /\ j # k - 1 /\ j # k => v[j] = es[j]
                   /\ v[j].start = es[j].start /\ v[j].end = es[j].end
<1> DEFINE u == Merge(es, k)
           v == Split(u, k - 1, t)
           n == Len(es)
<1>1. n \in Nat /\ k \in Nat /\ 2 <= k /\ k <= n
  BY EventsFact
<1>2. /\ u \in Seq(Event) /\ Len(u) = n - 1
      /\ \A j \in 1..(n - 1) :
            u[j] = IF j < k - 1 THEN es[j]
                   ELSE IF j = k - 1 THEN [start |-> es[k - 1].start, end |-> es[k].end,
                                           text |-> es[k - 1].text \o es[k].text]
                   ELSE es[j + 1]
  BY MergeFact
<1> HIDE DEF u
<1>3. /\ v \in Seq(Event) /\ Len(v) = n
      /\ \A j \in 1..n :
            v[j] = IF j < k - 1 THEN u[j]
                   ELSE IF j = k - 1 THEN [start |-> u[k - 1].start, end |-> t, text |-> u[k - 1].text]
                   ELSE IF j = k THEN [start |-> t, end |-> u[k - 1].end, text |-> <<>>]
                   ELSE u[j - 1]
  <2> DEFINE m == k - 1
  <2>1. m \in 1..Len(u) /\ m + 1 = k /\ Len(u) + 1 = n
    BY <1>1, <1>2
  <2> HIDE DEF m
  <2>2. u \in Seq(Event)
    BY <1>2
  <2>3. /\ Split(u, m, t) \in Seq(Event) /\ Len(Split(u, m, t)) = Len(u) + 1
        /\ \A j \in 1..(Len(u) + 1) :
              Split(u, m, t)[j] =
                  IF j < m THEN u[j]
                  ELSE IF j = m THEN [start |-> u[m].start, end |-> t, text |-> u[m].text]
                  ELSE IF j = m + 1 THEN [start |-> t, end |-> u[m].end, text |-> <<>>]
                  ELSE u[j - 1]
    BY ONLY <2>1, <2>2, SplitFact, t \in Times
  <2> QED
    BY <2>1, <2>3 DEF m
<1> HIDE DEF v
<1>4. ASSUME NEW j \in 1..n
      PROVE  /\ j # k - 1 /\ j # k => v[j] = es[j]
             /\ v[j].start = es[j].start /\ v[j].end = es[j].end
  <2>0. /\ k - 1 \in 1..(n - 1) /\ ~(k - 1 < k - 1) /\ ~(k < k - 1) /\ k # k - 1
        /\ u[k - 1] = [start |-> es[k - 1].start, end |-> es[k].end,
                       text |-> es[k - 1].text \o es[k].text]
    <3>1. k - 1 \in 1..(n - 1) /\ ~(k - 1 < k - 1) /\ ~(k < k - 1) /\ k # k - 1
      BY <1>1
    <3> QED
      BY <3>1, <1>2
  <2>1. CASE j < k - 1
    <3>1. j \in 1..(n - 1) /\ j # k - 1 /\ j # k
      BY <2>1, <1>1
    <3>2. v[j] = u[j] /\ u[j] = es[j]
      BY <2>1, <3>1, <1>2, <1>3
    <3> QED
      BY <3>1, <3>2
  <2>2. CASE j = k - 1
    <3>1. v[j] = [start |-> u[k - 1].start, end |-> t, text |-> u[k - 1].text]
      BY <2>0, <2>2, <1>3
    <3> QED
      BY <3>1, <2>0, <2>2
  <2>3. CASE j = k
    <3>1. v[j] = [start |-> t, end |-> u[k - 1].end, text |-> <<>>]
      BY <2>0, <2>3, <1>3
    <3> QED
      BY <3>1, <2>0, <2>3
  <2>4. CASE j > k
    <3>1. /\ j - 1 \in 1..(n - 1) /\ ~(j - 1 < k - 1) /\ j - 1 # k - 1 /\ (j - 1) + 1 = j
          /\ ~(j < k - 1) /\ j # k - 1 /\ j # k
      BY <2>4, <1>1
    <3>2. u[j - 1] = es[j]
      BY <3>1, <1>2
    <3>3. v[j] = u[j - 1]
      BY <3>1, <1>3
    <3> QED
      BY <3>2, <3>3
  <2> QED
    BY <2>1, <2>2, <2>3, <2>4, <1>1
<1> QED
  BY <1>3, <1>4 DEF v, u

\* A bound that is moved back.
LEMMA MoveEndBack ==
  ASSUME NEW es \in Seq(Event), NEW k \in 1..(Len(es) - 1), NEW to \in Times, NEW from \in Times,
         es[k].end = from, es[k + 1].start = from
  PROVE  MoveEnd(MoveEnd(es, k, to), k, from) = es
<1> DEFINE u == MoveEnd(es, k, to)
           v == MoveEnd(u, k, from)
<1>1. /\ Len(es) \in Nat /\ k \in 1..Len(es) /\ k + 1 \in 1..Len(es) /\ k # k + 1
      /\ \A j \in 1..Len(es) : es[j] \in Event
  BY EventsFact
<1>2. /\ u \in Seq(Event) /\ Len(u) = Len(es)
      /\ \A j \in 1..Len(es) :
            u[j] = IF j = k THEN [start |-> es[j].start, end |-> to, text |-> es[j].text]
                   ELSE IF j = k + 1 THEN [start |-> to, end |-> es[j].end, text |-> es[j].text]
                   ELSE es[j]
  BY <1>1, MoveEndFact
<1> HIDE DEF u
<1>3. /\ v \in Seq(Event) /\ Len(v) = Len(u)
      /\ \A j \in 1..Len(u) :
            v[j] = IF j = k THEN [start |-> u[j].start, end |-> from, text |-> u[j].text]
                   ELSE IF j = k + 1 THEN [start |-> from, end |-> u[j].end, text |-> u[j].text]
                   ELSE u[j]
  <2>1. u \in Seq(Event) /\ k \in 1..Len(u)
    BY <1>1, <1>2
  <2>2. v \in Seq(Event) /\ Len(v) = Len(u)
    BY <2>1, MoveEndFact
  <2>3. \A j \in 1..Len(u) :
            v[j] = IF j = k THEN [start |-> u[j].start, end |-> from, text |-> u[j].text]
                   ELSE IF j = k + 1 THEN [start |-> from, end |-> u[j].end, text |-> u[j].text]
                   ELSE u[j]
    BY <2>1, MoveEndFact, ZenonT(60)
  <2> QED
    BY <2>2, <2>3
<1> HIDE DEF v
<1>4. ASSUME NEW j \in 1..Len(es) PROVE v[j] = es[j]
  <2>1. es[j] = [start |-> es[j].start, end |-> es[j].end, text |-> es[j].text]
    BY <1>1, EventExcept
  <2>2. CASE j = k
    <3>1. u[j] = [start |-> es[j].start, end |-> to, text |-> es[j].text]
      BY <2>2, <1>2
    <3>2. v[j] = [start |-> u[j].start, end |-> from, text |-> u[j].text]
      BY <2>2, <1>2, <1>3
    <3> QED
      BY <3>1, <3>2, <2>1, <2>2
  <2>3. CASE j = k + 1
    <3>1. u[j] = [start |-> to, end |-> es[j].end, text |-> es[j].text]
      BY <2>3, <1>1, <1>2
    <3>2. v[j] = [start |-> from, end |-> u[j].end, text |-> u[j].text]
      BY <2>3, <1>1, <1>2, <1>3
    <3> QED
      BY <3>1, <3>2, <2>1, <2>3
  <2>4. CASE j # k /\ j # k + 1
    BY <2>4, <1>2, <1>3
  <2> QED
    BY <2>2, <2>3, <2>4
<1>5. v = es
  BY <1>2, <1>3, <1>4, SeqEqual
<1> QED
  BY <1>5 DEF v, u

-----------------------------------------------------------------------------
(* Texts, and instants.                                                     *)

\* An operation that leaves the bounds alone keeps the order.
LEMMA SameBounds ==
  ASSUME NEW es \in Seq(Event), NEW us \in Seq(Event), Len(us) = Len(es),
         \A j \in 1..Len(es) : us[j].start = es[j].start /\ us[j].end = es[j].end
  PROVE  (Tiles(es) => Tiles(us)) /\ (Instants(es) => Instants(us))
<1>1. DOMAIN us = DOMAIN es /\ DOMAIN es = 1..Len(es) /\ Len(es) \in Nat
  BY EventsFact
<1>2. us = <<>> <=> es = <<>>
  BY EmptySeq
<1>3. ASSUME Instants(es) PROVE Instants(us)
  BY <1>1, <1>3 DEF Instants
<1>4. ASSUME Tiles(es) PROVE Tiles(us)
  <2>1. Len(es) > 0
    BY <1>1, <1>4, EmptySeq DEF Tiles
  <2>2. /\ es[1].start = 0 /\ es[Len(es)].end = Duration
        /\ \A i \in 1..Len(es) : es[i].start < es[i].end
        /\ \A i \in 1..(Len(es) - 1) : es[i].end = es[i + 1].start
    BY <1>1, <1>4 DEF Tiles
  <2>3. \A i \in 1..Len(es) : \A j \in 1..Len(es) : i < j => es[i].end <= es[j].start
    BY <1>4, TilesApart
  <2>4. us[1].start = 0 /\ us[Len(es)].end = Duration
    BY <1>1, <2>1, <2>2
  <2>5. \A i \in 1..(Len(es) - 1) : i \in 1..Len(es) /\ i + 1 \in 1..Len(es)
    BY <1>1
  <2>6. \A i \in 1..(Len(es) - 1) : us[i].end = us[i + 1].start
    BY <2>2, <2>5
  <2>7. \A i \in 1..Len(es) : us[i].start < us[i].end
    BY <2>2
  <2>8. \A i \in 1..Len(es) : \A j \in 1..Len(es) : i < j => us[i].end <= us[j].start
    BY <2>3
  <2> QED
    BY <2>1, <2>4, <2>6, <2>7, <2>8, TilesIf
<1> QED
  BY <1>3, <1>4

\* A new instant, between its neighbours.
LEMMA AddInstantFact ==
  ASSUME NEW es \in Seq(Event), Instants(es), NEW t \in Times,
         \A i \in 1..Len(es) : es[i].start # t
  PROVE  LET u == AddInstant(es, t)
             k == FirstFrom(es, t)
         IN  /\ u \in Seq(Event) /\ Len(u) = Len(es) + 1 /\ Instants(u)
             /\ k \in 1..(Len(es) + 1) /\ u[k].start = t /\ FirstFrom(u, t) = k
             /\ RemoveAt(u, k) = es
<1> DEFINE k   == FirstFrom(es, t)
           new == [start |-> t, end |-> t, text |-> <<>>]
           u   == InsertAt(es, k, new)
           n   == Len(es)
<1>1. /\ n \in Nat /\ t \in Nat /\ DOMAIN es = 1..n
      /\ \A j \in 1..n : es[j].start \in Nat
  BY EventsFact, DurationAssumption DEF Times
<1>2. /\ k \in 1..(n + 1) /\ \A j \in 1..(k - 1) : es[j].start < t
      /\ k <= n => es[k].start >= t
  <2>1. Rising(es)
    BY <1>1 DEF Instants, Rising
  <2> QED
    BY <1>1, <2>1, FirstFromFact, FirstFromRising
<1>3. new \in Event
  BY EmptySeq DEF Event
<1>4. new.start = t /\ new.end = t
  OBVIOUS
<1> HIDE DEF k, new
<1>5. /\ u \in Seq(Event) /\ Len(u) = n + 1
      /\ \A j \in 1..(n + 1) : u[j] = IF j < k THEN es[j] ELSE IF j = k THEN new ELSE es[j - 1]
  BY ONLY <1>2, <1>3, es \in Seq(Event), InsertAtFact
<1>6. RemoveAt(u, k) = es
  BY ONLY <1>2, <1>3, es \in Seq(Event), RemoveInserted
<1> HIDE DEF u
<1>7. DOMAIN u = 1..(n + 1)
  BY <1>5, EventsFact
<1>8. /\ \A j \in 1..n : es[j].start = es[j].end
      /\ \A i, j \in 1..n : i < j => es[i].start < es[j].start
  BY <1>1 DEF Instants
<1>9. \A j \in 1..n : j >= k => es[j].start > t
  <2> SUFFICES ASSUME NEW j \in 1..n, j >= k PROVE es[j].start > t
    OBVIOUS
  <2>1. k \in 1..n /\ es[k].start >= t /\ es[k].start # t
    BY <1>1, <1>2
  <2>2. j = k \/ es[k].start < es[j].start
    BY <2>1, <1>1, <1>8
  <2> QED
    BY <2>1, <2>2, <1>1
<1> HIDE DEF n
<1>10. ASSUME NEW i \in 1..(n + 1) PROVE u[i].start = u[i].end
  <2>1. CASE i < k
    BY <2>1, <1>1, <1>2, <1>5, <1>8
  <2>2. CASE i = k
    BY <2>2, <1>2, <1>4, <1>5
  <2>3. CASE i > k
    <3>1. i - 1 \in 1..n /\ ~(i < k) /\ i # k
      BY <2>3, <1>1, <1>2
    <3> QED
      BY <3>1, <1>5, <1>8
  <2> QED
    BY <2>1, <2>2, <2>3, <1>1, <1>2
<1>11. \A j \in 1..(n + 1) :
           /\ j < k => j \in 1..n /\ u[j].start = es[j].start /\ es[j].start < t
           /\ j = k => u[j].start = t
           /\ j > k => j - 1 \in 1..n /\ u[j].start = es[j - 1].start /\ es[j - 1].start > t
  <2> TAKE j \in 1..(n + 1)
  <2>1. j < k => j \in 1..n /\ u[j].start = es[j].start /\ es[j].start < t
    BY <1>1, <1>2, <1>5
  <2>2. j = k => u[j].start = t
    BY <1>2, <1>4, <1>5
  <2>3. ASSUME j > k PROVE j - 1 \in 1..n /\ u[j].start = es[j - 1].start /\ es[j - 1].start > t
    <3>1. j - 1 \in 1..n /\ ~(j < k) /\ j # k /\ j - 1 >= k
      BY <2>3, <1>1, <1>2
    <3> QED
      BY <3>1, <1>5, <1>9
  <2> QED
    BY <2>1, <2>2, <2>3
<1>12. ASSUME NEW i \in 1..(n + 1), NEW j \in 1..(n + 1), i < j PROVE u[i].start < u[j].start
  <2>1. CASE j < k
    <3>1. i < k
      BY <2>1, <1>1, <1>2, <1>12
    <3> QED
      BY <2>1, <3>1, <1>8, <1>11, <1>12
  <2>2. CASE j = k
    <3>1. i < k
      BY <2>2, <1>12
    <3> QED
      BY <2>2, <3>1, <1>1, <1>11
  <2>3. CASE j > k
    <3>1. j - 1 \in 1..n /\ u[j].start = es[j - 1].start /\ es[j - 1].start > t
      BY <2>3, <1>11
    <3>2. CASE i < k
      <4>1. i \in 1..n /\ u[i].start = es[i].start /\ es[i].start < t
        BY <3>2, <1>11
      <4> QED
        BY <3>1, <4>1, <1>1
    <3>3. CASE i = k
      BY <3>1, <3>3, <1>1, <1>11
    <3>4. CASE i > k
      <4>1. i - 1 \in 1..n /\ u[i].start = es[i - 1].start /\ i - 1 < j - 1
        BY <3>4, <1>1, <1>11, <1>12
      <4> QED
        BY <3>1, <4>1, <1>8
    <3> QED
      BY <3>2, <3>3, <3>4, <1>1, <1>2
  <2> QED
    BY <2>1, <2>2, <2>3, <1>1, <1>2
<1>13. Instants(u)
  BY <1>7, <1>10, <1>12 DEF Instants
<1>14. FirstFrom(u, t) = k
  <2>1. k \in 1..(Len(u) + 1) /\ (k <= Len(u) => u[k].start >= t)
    BY <1>1, <1>2, <1>5, <1>11
  <2>2. \A j \in 1..(k - 1) : u[j].start < t
    BY <1>1, <1>2, <1>11
  <2>3. u \in Seq(Event) /\ t \in Nat
    BY <1>1, <1>5
  <2>4. Rising(u)
    BY <1>5, <1>7, <1>13 DEF Instants, Rising
  <2> QED
    BY ONLY <2>1, <2>2, <2>3, <2>4, FirstFromIs
<1>15. u[k].start = t
  BY <1>2, <1>11
<1> QED
  BY <1>2, <1>5, <1>6, <1>13, <1>14, <1>15 DEF AddInstant, u, k, new, n

\* The instant at t is taken out.
LEMMA RemoveInstantFact ==
  ASSUME NEW es \in Seq(Event), Instants(es), NEW t \in Times,
         FirstFrom(es, t) <= Len(es), es[FirstFrom(es, t)].start = t
  PROVE  LET k == FirstFrom(es, t)
             u == RemoveAt(es, k)
         IN  /\ k \in 1..Len(es) /\ u \in Seq(Event) /\ Len(u) = Len(es) - 1 /\ Instants(u)
             /\ FirstFrom(u, t) = k
             /\ \A j \in 1..Len(u) : u[j].start # t
<1> DEFINE k == FirstFrom(es, t)
           u == RemoveAt(es, k)
           n == Len(es)
<1>1. /\ n \in Nat /\ t \in Nat /\ DOMAIN es = 1..n
      /\ \A j \in 1..n : es[j].start \in Nat
  BY EventsFact, DurationAssumption DEF Times
<1>2. k \in 1..n /\ es[k].start = t
  BY <1>1, FirstFromFact
<1> HIDE DEF k
<1>3. /\ u \in Seq(Event) /\ Len(u) = n - 1
      /\ \A j \in 1..(n - 1) : u[j] = IF j < k THEN es[j] ELSE es[j + 1]
  BY ONLY <1>2, es \in Seq(Event), RemoveAtFact
<1> HIDE DEF u
<1>4. DOMAIN u = 1..(n - 1)
  BY <1>3, EventsFact
<1>5. /\ \A j \in 1..n : es[j].start = es[j].end
      /\ \A i, j \in 1..n : i < j => es[i].start < es[j].start
  BY <1>1 DEF Instants
<1> HIDE DEF n
<1> DEFINE from(j) == IF j < k THEN j ELSE j + 1
<1>6. \A j \in 1..(n - 1) : from(j) \in 1..n /\ u[j] = es[from(j)] /\ from(j) # k
  <2> TAKE j \in 1..(n - 1)
  <2>1. j \in 1..n /\ j + 1 \in 1..n /\ (~(j < k) => j + 1 # k)
    BY <1>1, <1>2
  <2> QED
    BY <2>1, <1>2, <1>3
<1>7. \A i, j \in 1..(n - 1) : i < j => from(i) < from(j)
  BY <1>1, <1>2
<1> HIDE DEF from
<1>8. Instants(u)
  BY <1>4, <1>5, <1>6, <1>7 DEF Instants
<1>9. \A j \in 1..(n - 1) : u[j].start # t
  <2> TAKE j \in 1..(n - 1)
  <2>1. from(j) \in 1..n /\ u[j] = es[from(j)] /\ from(j) # k
    BY <1>6
  <2>2. from(j) < k \/ k < from(j)
    BY <2>1, <1>1, <1>2
  <2>3. es[from(j)].start < t \/ t < es[from(j)].start
    BY <2>1, <2>2, <1>2, <1>5
  <2> QED
    BY <2>1, <2>3, <1>1
<1>10. FirstFrom(u, t) = k
  <2>1. k \in 1..(Len(u) + 1)
    BY <1>1, <1>2, <1>3
  <2>2. \A j \in 1..(k - 1) : u[j].start < t
    <3> TAKE j \in 1..(k - 1)
    <3>1. j \in 1..(n - 1) /\ j < k /\ j \in 1..n
      BY <1>1, <1>2
    <3> QED
      BY <3>1, <1>2, <1>3, <1>5
  <2>3. k <= Len(u) => u[k].start >= t
    <3> SUFFICES ASSUME k <= n - 1 PROVE u[k].start >= t
      BY <1>3
    <3>1. k \in 1..(n - 1) /\ k + 1 \in 1..n /\ ~(k < k) /\ k < k + 1
      BY <1>1, <1>2
    <3>2. u[k] = es[k + 1] /\ es[k].start < es[k + 1].start
      BY <3>1, <1>2, <1>3, <1>5
    <3> QED
      BY <3>1, <3>2, <1>1, <1>2
  <2>4. u \in Seq(Event) /\ t \in Nat
    BY <1>1, <1>3
  <2>5. Rising(u)
    BY <1>3, <1>4, <1>8 DEF Instants, Rising
  <2> QED
    BY ONLY <2>1, <2>2, <2>3, <2>4, <2>5, FirstFromIs
<1> QED
  BY <1>2, <1>3, <1>8, <1>9, <1>10 DEF u, k, n

-----------------------------------------------------------------------------
(* Layers.                                                                  *)

\* The fields of a layer.
LEMMA LayerFact ==
  ASSUME NEW ly \in Layer
  PROVE  /\ ly.label \in Labels /\ ly.instants \in BOOLEAN /\ ly.events \in Seq(Event)
         /\ ly = [label |-> ly.label, instants |-> ly.instants, events |-> ly.events]
BY DEF Layer

\* Replacing the events of a layer.
LEMMA WithEvents ==
  ASSUME NEW ly \in Layer, NEW us \in Seq(Event)
  PROVE  LET x == [ly EXCEPT !.events = us]
         IN  /\ x \in Layer /\ x.label = ly.label /\ x.instants = ly.instants /\ x.events = us
             /\ [x EXCEPT !.events = ly.events] = ly
BY DEF Layer

\* Two results that agree with a layer outside its events.
LEMMA WithEventsTwice ==
  ASSUME NEW ly \in Layer, NEW us \in Seq(Event), NEW vs \in Seq(Event)
  PROVE  [[ly EXCEPT !.events = us] EXCEPT !.events = vs] = [ly EXCEPT !.events = vs]
BY DEF Layer

\* A new layer is in order.
LEMMA NewLayerFact ==
  ASSUME NEW label \in Labels, NEW instants \in BOOLEAN
  PROVE  LET ly == NewLayer(label, instants)
         IN  ly \in Layer /\ InOrder(ly) /\ ly.label = label /\ ly.instants = instants
<1> DEFINE ly == NewLayer(label, instants)
           whole == <<[start |-> 0, end |-> Duration, text |-> <<>>]>>
<1>1. whole \in Seq(Event) /\ Len(whole) = 1 /\ whole[1] = [start |-> 0, end |-> Duration, text |-> <<>>]
  <2>1. [start |-> 0, end |-> Duration, text |-> <<>>] \in Event
    BY EmptySeq, DurationAssumption DEF Event, Times
  <2> HIDE DEF whole
  <2> QED
    BY <2>1 DEF whole
<1> HIDE DEF whole
<1>2. Tiles(whole)
  <2>1. whole[1].start = 0 /\ whole[1].end = Duration
    BY <1>1
  <2>2. \A i \in 1..1 : \A j \in 1..1 : ~(i < j)
    OBVIOUS
  <2>3. \A i \in 1..1 : i = 1
    OBVIOUS
  <2>4. \A i \in 1..(1 - 1) : FALSE
    OBVIOUS
  <2>5. /\ Len(whole) > 0 /\ \A i \in 1..1 : whole[i].start < whole[i].end
    BY <1>1, <2>1, <2>3, DurationAssumption
  <2> QED
    BY <1>1, <2>1, <2>2, <2>4, <2>5, TilesIf
<1>3. <<>> \in Seq(Event) /\ Instants(<<>>)
  BY EmptySeq DEF Instants
<1>4. ly = [label |-> label, instants |-> instants, events |-> IF instants THEN <<>> ELSE whole]
  BY DEF NewLayer, whole
<1> HIDE DEF ly
<1>5. CASE instants
  <2>1. ly = [label |-> label, instants |-> instants, events |-> <<>>]
    BY <1>4, <1>5, Zenon
  <2>2. ly \in Layer /\ ly.label = label /\ ly.instants = instants /\ ly.events = <<>>
    BY <1>3, <2>1 DEF Layer
  <2>3. Instants(ly.events) /\ ly.instants
    BY <1>3, <1>5, <2>2, Zenon
  <2>4. InOrder(ly)
    BY <2>3, Zenon DEF InOrder
  <2> QED
    BY <2>2, <2>4, Zenon DEF ly
<1>6. CASE ~instants
  <2>1. ly = [label |-> label, instants |-> instants, events |-> whole]
    BY <1>4, <1>6, Zenon
  <2>2. ly \in Layer /\ ly.label = label /\ ly.instants = instants /\ ly.events = whole
    BY <1>1, <2>1 DEF Layer
  <2>3. Tiles(ly.events) /\ ~ly.instants
    BY <1>2, <1>6, <2>2, Zenon
  <2>4. InOrder(ly)
    BY <2>3, Zenon DEF InOrder
  <2> QED
    BY <2>2, <2>4, Zenon DEF ly
<1> QED
  BY <1>5, <1>6 DEF ly

\* An anchor that can be added leaves a layer, and the layer can be had back.
LEMMA AddAnchorKeeps ==
  ASSUME NEW ly \in Layer, InOrder(ly), NEW t \in Times, CanAdd(ly, t),
         ly.instants => \A i \in 1..Len(ly.events) : ly.events[i].start # t
  PROVE  LET x == AddAnchor(ly, t)
         IN  x \in Layer /\ InOrder(x) /\ x.instants = ly.instants /\ RemoveAnchor(x, t) = ly
<1> DEFINE es == ly.events
           x  == AddAnchor(ly, t)
<1>1. es \in Seq(Event) /\ t \in Nat /\ ly.instants \in BOOLEAN
  BY LayerFact, DurationAssumption DEF Times
<1>2. CASE ly.instants
  <2> DEFINE u == AddInstant(es, t)
             k == FirstFrom(es, t)
  <2>1. /\ u \in Seq(Event) /\ Len(u) = Len(es) + 1 /\ Instants(u)
        /\ k \in 1..(Len(es) + 1) /\ u[k].start = t /\ FirstFrom(u, t) = k
        /\ RemoveAt(u, k) = es
    BY <1>1, <1>2, AddInstantFact DEF InOrder
  <2>2. x = [ly EXCEPT !.events = u]
    BY <1>2 DEF AddAnchor
  <2> HIDE DEF u, k, es, x
  <2>3. x \in Layer /\ x.instants = ly.instants /\ x.events = u /\ [x EXCEPT !.events = ly.events] = ly
    BY <2>1, <2>2, WithEvents
  <2>4. CanRemove(x, t)
    BY <2>1, <2>3, <1>1, <1>2, EventsFact DEF CanRemove
  <2>5. RemoveAnchor(x, t) = [x EXCEPT !.events = RemoveAt(u, k)]
    BY <2>1, <2>3, <2>4, <1>2 DEF RemoveAnchor
  <2> QED
    BY <2>1, <2>3, <2>5, <1>2 DEF InOrder, es, x
<1>3. CASE ~ly.instants
  <2> DEFINE k == FindIndex(es, t)
             u == Split(es, k, t)
  <2>1. Tiles(es) /\ k > 0 /\ es[k].start # t /\ es[k].end # t
    BY <1>3 DEF InOrder, CanAdd
  <2>2. k \in 1..Len(es) /\ es[k].start <= t /\ t <= es[k].end
    BY <1>1, <2>1, FindIndexFact
  <2> HIDE DEF k
  <2>3. /\ Len(es) \in Nat /\ es[k].start \in Nat /\ es[k].end \in Nat
        /\ \A j \in 1..Len(es) : es[j].start \in Nat
    BY <1>1, <2>2, EventsFact
  <2>4. es[k].start < t /\ t < es[k].end
    BY <1>1, <2>1, <2>2, <2>3
  <2>5. u \in Seq(Event) /\ Tiles(u)
    BY <1>1, <2>1, <2>2, <2>4, SplitFact, SplitTiles
  <2>6. /\ Len(u) = Len(es) + 1
        /\ \A j \in 1..(Len(es) + 1) :
              u[j] = IF j < k THEN es[j]
                     ELSE IF j = k THEN [start |-> es[k].start, end |-> t, text |-> es[k].text]
                     ELSE IF j = k + 1 THEN [start |-> t, end |-> es[k].end, text |-> <<>>]
                     ELSE es[j - 1]
    <3>1. es \in Seq(Event) /\ k \in 1..Len(es) /\ t \in Times
      BY <1>1, <2>2
    <3> HIDE DEF es
    <3> QED
      BY ONLY <3>1, SplitFact, ZenonT(60) DEF u
  <2>7. Merge(u, k + 1) = es
    BY <1>1, <2>2, MergeOfSplit
  <2>8. x = [ly EXCEPT !.events = u]
    BY <1>3 DEF AddAnchor, k
  <2> HIDE DEF u, x
  <2>9. x \in Layer /\ x.instants = ly.instants /\ x.events = u /\ [x EXCEPT !.events = ly.events] = ly
    BY <2>5, <2>8, WithEvents
  <2> HIDE DEF es
  <2>10. /\ k + 1 \in 1..(Len(u) + 1) /\ k + 1 <= Len(u) /\ k \in 1..Len(u) /\ (k + 1) - 1 = k /\ k + 1 > 1
         /\ u[k].end = t /\ u[k + 1].start = t
    <3>1. /\ k + 1 \in 1..(Len(es) + 1) /\ k \in 1..(Len(es) + 1) /\ ~(k < k) /\ ~(k + 1 < k) /\ k + 1 # k
          /\ (k + 1) - 1 = k /\ k + 1 > 1 /\ k + 1 \in 1..((Len(es) + 1) + 1) /\ k + 1 <= Len(es) + 1
      BY <2>2, <2>3
    <3>2. /\ u[k] = [start |-> es[k].start, end |-> t, text |-> es[k].text]
          /\ u[k + 1] = [start |-> t, end |-> es[k].end, text |-> <<>>]
      BY <3>1, <2>6
    <3> QED
      BY <3>1, <3>2, <2>6
  <2>11. \A j \in 1..((k + 1) - 1) : u[j].start < t
    <3> TAKE j \in 1..((k + 1) - 1)
    <3>1. j \in 1..Len(es) /\ j \in 1..(Len(es) + 1) /\ (j < k \/ j = k)
      BY <2>2, <2>3
    <3>2. CASE j = k
      <4>1. u[j] = [start |-> es[k].start, end |-> t, text |-> es[k].text]
        BY <3>1, <3>2, <2>6
      <4> QED
        BY <4>1, <2>4
    <3>3. CASE j < k
      <4>1. u[j] = es[j]
        BY <3>1, <3>3, <2>6
      <4>2. es[j].start < es[k].start
        BY <3>1, <3>3, <1>1, <2>1, <2>2, EventsFact DEF Tiles
      <4> QED
        BY <4>1, <4>2, <3>1, <2>3, <2>4, <1>1
    <3> QED
      BY <3>1, <3>2, <3>3
  <2>12. FirstFrom(u, t) = k + 1
    <3> DEFINE m == k + 1
    <3>1. m \in 1..(Len(u) + 1) /\ \A j \in 1..(m - 1) : u[j].start < t
      BY <2>10, <2>11
    <3>2. m <= Len(u) => u[m].start >= t
      BY <2>10, <1>1
    <3> HIDE DEF m
    <3>3. Rising(u)
      BY <2>5, EventsFact DEF Tiles, Rising
    <3>4. FirstFrom(u, t) = m
      BY <3>1, <3>2, <3>3, <2>5, <1>1, FirstFromIs
    <3> QED
      BY <3>4 DEF m
  <2>13. CanRemove(x, t)
    BY <2>9, <2>10, <2>12 DEF CanRemove
  <2>14. RemoveAnchor(x, t) = [x EXCEPT !.events = Merge(u, k + 1)]
    BY <2>9, <2>12, <2>13, <1>3 DEF RemoveAnchor
  <2> QED
    BY <2>5, <2>7, <2>9, <2>14, <1>3 DEF InOrder, es, x
<1> QED
  BY <1>1, <1>2, <1>3

\* The anchor at t that can be removed: the event that starts there.
LEMMA RemovableFact ==
  ASSUME NEW ly \in Layer, NEW t \in Times, CanRemove(ly, t)
  PROVE  LET es == ly.events
             k  == FirstFrom(es, t)
         IN  /\ k \in 1..Len(es) /\ es[k].start = t
             /\ ~ly.instants => k \in 2..Len(es) /\ es[k - 1].end = t
<1> DEFINE es == ly.events
           k  == FirstFrom(es, t)
<1>1. es \in Seq(Event) /\ t \in Nat
  BY LayerFact, DurationAssumption DEF Times
<1>2. k \in 1..(Len(es) + 1) /\ Len(es) \in Nat
  BY <1>1, FirstFromFact, EventsFact
<1>3. k <= Len(es) /\ es[k].start = t /\ (ly.instants \/ (k > 1 /\ es[k - 1].end = t))
  BY DEF CanRemove
<1> QED
  BY <1>2, <1>3

\* Removing an anchor leaves a layer in order.
LEMMA RemoveAnchorKeeps ==
  ASSUME NEW ly \in Layer, InOrder(ly), NEW t \in Times
  PROVE  LET x == RemoveAnchor(ly, t)
         IN  x \in Layer /\ InOrder(x) /\ x.instants = ly.instants
<1> DEFINE es == ly.events
           k  == FirstFrom(es, t)
           x  == RemoveAnchor(ly, t)
<1>1. es \in Seq(Event)
  BY LayerFact
<1>2. CASE ~CanRemove(ly, t)
  BY <1>2 DEF RemoveAnchor
<1>3. CASE CanRemove(ly, t) /\ ly.instants
  <2>1. k \in 1..Len(es) /\ es[k].start = t /\ k <= Len(es)
    BY <1>3, RemovableFact
  <2>2. RemoveAt(es, k) \in Seq(Event) /\ Instants(RemoveAt(es, k))
    BY <1>1, <1>3, <2>1, RemoveInstantFact DEF InOrder
  <2>3. x = [ly EXCEPT !.events = RemoveAt(es, k)]
    BY <1>3 DEF RemoveAnchor
  <2> HIDE DEF x, k, es
  <2>4. x \in Layer /\ x.instants = ly.instants /\ x.events = RemoveAt(es, k)
    BY <2>2, <2>3, WithEvents
  <2> QED
    BY <1>3, <2>2, <2>4 DEF InOrder, x
<1>4. CASE CanRemove(ly, t) /\ ~ly.instants
  <2>1. k \in 2..Len(es)
    BY <1>4, RemovableFact
  <2>2. Merge(es, k) \in Seq(Event) /\ Tiles(Merge(es, k))
    BY <1>1, <1>4, <2>1, MergeFact, MergeTiles DEF InOrder
  <2>3. x = [ly EXCEPT !.events = Merge(es, k)]
    BY <1>4 DEF RemoveAnchor
  <2> HIDE DEF x, k, es
  <2>4. x \in Layer /\ x.instants = ly.instants /\ x.events = Merge(es, k)
    BY <2>2, <2>3, WithEvents
  <2> QED
    BY <1>4, <2>2, <2>4 DEF InOrder, x
<1> QED
  BY <1>2, <1>3, <1>4

\* Adding an anchor changes the events of a layer and nothing else.
LEMMA AddAnchorType ==
  ASSUME NEW ly \in Layer, NEW t \in Times, CanAdd(ly, t)
  PROVE  /\ AddAnchor(ly, t) \in Layer /\ AddAnchor(ly, t).instants = ly.instants
         /\ Chained(ly) => Chained(AddAnchor(ly, t))
<1> DEFINE es  == ly.events
           new == [start |-> t, end |-> t, text |-> <<>>]
<1>1. es \in Seq(Event) /\ t \in Nat
  BY LayerFact, DurationAssumption DEF Times
<1>2. CASE ly.instants
  <2>1. new \in Event
    BY EmptySeq DEF Event
  <2>2. FirstFrom(es, t) \in 1..(Len(es) + 1)
    BY <1>1, FirstFromFact
  <2>3. AddInstant(es, t) \in Seq(Event)
    BY <1>1, <2>1, <2>2, InsertAtFact DEF AddInstant
  <2> DEFINE x  == AddAnchor(ly, t)
             us == AddInstant(es, t)
  <2>4. x = [ly EXCEPT !.events = us]
    BY <1>2 DEF AddAnchor
  <2> HIDE DEF x, us
  <2>5. us \in Seq(Event)
    BY <2>3 DEF us
  <2>6. x \in Layer /\ x.instants = ly.instants
    BY <2>4, <2>5, WithEvents
  <2>7. Chained(ly) => Chained(x)
    BY <2>6, <1>2, ChainedIf
  <2> QED
    BY <2>6, <2>7 DEF x
<1>3. CASE ~ly.instants
  <2>1. FindIndex(es, t) > 0
    BY <1>3 DEF CanAdd
  <2>2. FindIndex(es, t) \in 1..Len(es)
    BY <1>1, <2>1, FindIndexFact
  <2>3. Split(es, FindIndex(es, t), t) \in Seq(Event) /\ (Run(es) => Run(Split(es, FindIndex(es, t), t)))
    BY <1>1, <2>2, SplitFact, SplitRun
  <2> DEFINE x  == AddAnchor(ly, t)
             us == Split(es, FindIndex(es, t), t)
  <2>4. x = [ly EXCEPT !.events = us]
    BY <1>3 DEF AddAnchor
  <2> HIDE DEF x, us
  <2>5. us \in Seq(Event)
    BY <2>3 DEF us
  <2>6. x \in Layer /\ x.instants = ly.instants /\ x.events = us
    BY <2>4, <2>5, WithEvents
  <2>7. Chained(ly) => Chained(x)
    BY <2>3, <2>6, ChainedIf DEF us
  <2> QED
    BY <2>6, <2>7 DEF x
<1> QED
  BY <1>2, <1>3, LayerFact

\* The same of removing one.
LEMMA RemoveAnchorType ==
  ASSUME NEW ly \in Layer, NEW t \in Times
  PROVE  /\ RemoveAnchor(ly, t) \in Layer /\ RemoveAnchor(ly, t).instants = ly.instants
         /\ Chained(ly) => Chained(RemoveAnchor(ly, t))
<1> DEFINE es == ly.events
           k  == FirstFrom(es, t)
<1>1. es \in Seq(Event)
  BY LayerFact
<1>2. CASE ~CanRemove(ly, t)
  BY <1>2 DEF RemoveAnchor
<1>3. CASE CanRemove(ly, t) /\ ly.instants
  <2>1. k \in 1..Len(es)
    BY <1>3, RemovableFact
  <2>2. RemoveAt(es, k) \in Seq(Event)
    BY <1>1, <2>1, RemoveAtFact
  <2> DEFINE x  == RemoveAnchor(ly, t)
             us == RemoveAt(es, k)
  <2>3. x = [ly EXCEPT !.events = us]
    BY <1>3 DEF RemoveAnchor
  <2> HIDE DEF x, us
  <2>4. us \in Seq(Event)
    BY <2>2 DEF us
  <2>5. x \in Layer /\ x.instants = ly.instants
    BY <2>3, <2>4, WithEvents
  <2>6. Chained(ly) => Chained(x)
    BY <2>5, <1>3, ChainedIf
  <2> QED
    BY <2>5, <2>6 DEF x
<1>4. CASE CanRemove(ly, t) /\ ~ly.instants
  <2>1. k \in 2..Len(es)
    BY <1>4, RemovableFact
  <2>2. Merge(es, k) \in Seq(Event) /\ (Run(es) => Run(Merge(es, k)))
    BY <1>1, <2>1, MergeFact, MergeRun
  <2> DEFINE x  == RemoveAnchor(ly, t)
             us == Merge(es, k)
  <2>3. x = [ly EXCEPT !.events = us]
    BY <1>4 DEF RemoveAnchor
  <2> HIDE DEF x, us
  <2>4. us \in Seq(Event)
    BY <2>2 DEF us
  <2>5. x \in Layer /\ x.instants = ly.instants /\ x.events = us
    BY <2>3, <2>4, WithEvents
  <2>6. Chained(ly) => Chained(x)
    BY <2>2, <2>5, ChainedIf DEF us
  <2> QED
    BY <2>5, <2>6 DEF x
<1> QED
  BY <1>2, <1>3, <1>4, LayerFact

\* What the eraser hits is a bound of an event.
LEMMA HitTime ==
  ASSUME NEW ly \in Layer, NEW cursor, NEW reach, NEW t \in Hit(ly, cursor, reach)
  PROVE  t \in Times
<1> DEFINE es    == ly.events
           under == {i \in Painted(es) : IF ly.instants THEN Near(es[i].start, cursor, reach)
                                          ELSE es[i].start <= cursor /\ cursor <= es[i].end}
           e     == es[Min(under)]
<1>1. t \in {e.start, e.end} /\ under # {}
  BY DEF Hit
<1>2. under \in SUBSET (1..Len(es)) /\ Len(es) \in Nat
  BY LayerFact, EventsFact DEF Painted
<1> HIDE DEF under
<1>3. Min(under) \in 1..Len(es)
  <2>1. under \in SUBSET Nat
    BY <1>2
  <2> QED
    BY <1>1, <1>2, <2>1, MinLeast
<1>4. e.start \in Times /\ e.end \in Times
  BY <1>3, LayerFact, EventsFact
<1> QED
  BY <1>1, <1>4

\* Removing what the eraser hits is removing an anchor, or nothing.
LEMMA RemoveHitType ==
  ASSUME NEW ly \in Layer, NEW cursor, NEW reach
  PROVE  /\ RemoveHit(ly, cursor, reach) \in Layer /\ RemoveHit(ly, cursor, reach).instants = ly.instants
         /\ Chained(ly) => Chained(RemoveHit(ly, cursor, reach))
         /\ InOrder(ly) => InOrder(RemoveHit(ly, cursor, reach))
<1>1. CASE Hit(ly, cursor, reach) = {}
  BY <1>1 DEF RemoveHit
<1>2. CASE Hit(ly, cursor, reach) # {}
  <2> DEFINE t == CHOOSE u \in Hit(ly, cursor, reach) : TRUE
  <2>1. t \in Hit(ly, cursor, reach)
    BY <1>2
  <2>2. RemoveHit(ly, cursor, reach) = RemoveAnchor(ly, t)
    BY <1>2 DEF RemoveHit
  <2> HIDE DEF t
  <2>3. t \in Times
    BY <2>1, HitTime
  <2> QED
    BY <2>2, <2>3, RemoveAnchorType, RemoveAnchorKeeps
<1> QED
  BY <1>1, <1>2

-----------------------------------------------------------------------------
(* The edits of one layer: what each keeps, and what takes it back.         *)

\* The instant at t is the only event that starts there.
LEMMA OneInstantAt ==
  ASSUME NEW es \in Seq(Event), Instants(es), NEW t \in Times, NEW k \in 1..Len(es), es[k].start = t
  PROVE  StartingAt(es, t) = {k} /\ Min(StartingAt(es, t)) = k
<1>1. /\ Len(es) \in Nat /\ DOMAIN es = 1..Len(es) /\ \A j \in 1..Len(es) : es[j].start \in Nat
  BY EventsFact
<1>2. ASSUME NEW j \in StartingAt(es, t) PROVE j = k
  <2>1. j \in 1..Len(es) /\ es[j].start = t
    BY <1>1 DEF StartingAt
  <2>2. ~(j < k) /\ ~(k < j)
    BY <1>1, <2>1 DEF Instants
  <2> QED
    BY <2>1, <2>2, <1>1
<1>3. k \in StartingAt(es, t)
  BY <1>1 DEF StartingAt
<1>4. StartingAt(es, t) = {k}
  BY <1>2, <1>3
<1>5. Min({k}) = k
  <2>1. {k} \in SUBSET Nat /\ k \in {k} /\ \A x \in {k} : k <= x
    BY <1>1
  <2> QED
    BY <2>1, MinUnique
<1> QED
  BY <1>4, <1>5

\* The interval that ends at t is the only one.
LEMMA OneEndAt ==
  ASSUME NEW es \in Seq(Event), Tiles(es), NEW t \in Times, NEW k \in 1..Len(es), es[k].end = t
  PROVE  EndingAt(es, t) = {k} /\ Min(EndingAt(es, t)) = k
<1>1. /\ Len(es) \in Nat /\ DOMAIN es = 1..Len(es) /\ \A j \in 1..Len(es) : es[j].end \in Nat
  BY EventsFact
<1>2. ASSUME NEW j \in EndingAt(es, t) PROVE j = k
  <2>1. j \in 1..Len(es) /\ es[j].end = t
    BY <1>1 DEF EndingAt
  <2>2. ~(j < k) /\ ~(k < j)
    BY <1>1, <2>1 DEF Tiles
  <2> QED
    BY <2>1, <2>2, <1>1
<1>3. k \in EndingAt(es, t)
  BY <1>1 DEF EndingAt
<1>4. EndingAt(es, t) = {k}
  BY <1>2, <1>3
<1>5. Min({k}) = k
  <2>1. {k} \in SUBSET Nat /\ k \in {k} /\ \A x \in {k} : k <= x
    BY <1>1
  <2> QED
    BY <2>1, MinUnique
<1> QED
  BY <1>4, <1>5

\* Undoing the removal of an instant: it is put back where it was, with its text.
LEMMA InstantRestored ==
  ASSUME NEW ly \in Layer, InOrder(ly), ly.instants, NEW t \in Times, CanRemove(ly, t)
  PROVE  LET es == ly.events
             rm == RemoveAnchor(ly, t)
             k  == Min(StartingAt(es, t))
         IN  /\ k \in 1..Len(es) /\ es[k].text \in Seq(Words)
             /\ CanAdd(rm, t)
             /\ SetTextAt(AddAnchor(rm, t), t, es[k].text) = ly
<1> DEFINE es   == ly.events
           k    == FirstFrom(es, t)
           u    == RemoveAt(es, k)
           rm   == RemoveAnchor(ly, t)
           new  == [start |-> t, end |-> t, text |-> <<>>]
           v    == [es EXCEPT ![k] = new]
           back == AddAnchor(rm, t)
<1>1. es \in Seq(Event) /\ Instants(es) /\ t \in Nat /\ new \in Event
  <2>1. es \in Seq(Event) /\ t \in Nat
    BY LayerFact, DurationAssumption DEF Times
  <2>2. Instants(es)
    BY DEF InOrder
  <2>3. new \in Event
    BY EmptySeq DEF Event
  <2> QED
    BY <2>1, <2>2, <2>3
<1>2. k \in 1..Len(es) /\ es[k].start = t /\ k <= Len(es)
  BY RemovableFact
<1>3. /\ Len(es) \in Nat /\ DOMAIN es = 1..Len(es) /\ es[k].text \in Seq(Words) /\ es[k] \in Event
      /\ es[k].end = t
      /\ es[k] = [start |-> t, end |-> t, text |-> es[k].text]
  <2> HIDE DEF k, es
  <2>1. Len(es) \in Nat /\ DOMAIN es = 1..Len(es) /\ es[k].text \in Seq(Words) /\ es[k] \in Event
    BY <1>1, <1>2, EventsFact
  <2>2. es[k].end = t
    BY <1>1, <1>2, <2>1 DEF Instants
  <2>3. es[k] = [start |-> es[k].start, end |-> es[k].end, text |-> es[k].text]
    BY <2>1, EventExcept
  <2> QED
    BY <2>1, <2>2, <2>3, <1>2
<1>4. Min(StartingAt(es, t)) = k
  BY <1>1, <1>2, OneInstantAt
<1>5. u \in Seq(Event) /\ FirstFrom(u, t) = k /\ InsertAt(u, k, new) = v
  <2>1. u \in Seq(Event) /\ FirstFrom(u, t) = k
    BY <1>1, <1>2, RemoveInstantFact
  <2> HIDE DEF k, es, new
  <2>2. InsertAt(u, k, new) = v
    BY <1>1, <1>2, InsertRemoved
  <2> QED
    BY <2>1, <2>2
<1>6. rm = [ly EXCEPT !.events = u]
  BY DEF RemoveAnchor
<1> HIDE DEF rm, u
<1>7. rm \in Layer /\ rm.instants /\ rm.events = u
  BY <1>5, <1>6, WithEvents
<1>8. CanAdd(rm, t)
  BY <1>7 DEF CanAdd
<1>9. AddInstant(u, t) = v
  BY <1>5 DEF AddInstant
<1>10. v \in Seq(Event) /\ Len(v) = Len(es) /\ v[k] = new
       /\ \A j \in 1..Len(es) : j # k => v[j] = es[j]
  BY <1>1, <1>2, <1>3, ExceptSeq
<1>11. back = [rm EXCEPT !.events = v]
  BY <1>7, <1>9 DEF AddAnchor
<1> HIDE DEF new
<1>12. new.start = t /\ new.end = t /\ new.text = <<>>
  BY DEF new
<1> HIDE DEF v, back, es, k
<1>13. back \in Layer /\ back.events = v
  BY <1>7, <1>10, <1>11, WithEvents
<1>14. Instants(v)
  <2>1. \A j \in 1..Len(es) : v[j].start = es[j].start /\ v[j].end = es[j].end
    BY <1>2, <1>3, <1>10, <1>12
  <2> QED
    BY <1>1, <1>10, <2>1, SameBounds
<1>15. StartingAt(v, t) = {k} /\ Min(StartingAt(v, t)) = k
  BY <1>2, <1>10, <1>12, <1>14, OneInstantAt
<1>16. [v EXCEPT ![k].text = es[k].text] = es
  <2> DEFINE w == [v EXCEPT ![k].text = es[k].text]
  <2>1. DOMAIN v = 1..Len(es) /\ v = [j \in 1..Len(es) |-> v[j]] /\ es = [j \in 1..Len(es) |-> es[j]]
    BY <1>1, <1>3, <1>10, EventsFact
  <2>2. w = [j \in 1..Len(es) |-> IF j = k THEN [v[k] EXCEPT !.text = es[k].text] ELSE v[j]]
    BY <2>1
  <2>3. [v[k] EXCEPT !.text = es[k].text] = es[k]
    <3>1. v[k] \in Event /\ v[k].start = t /\ v[k].end = t
      BY <1>1, <1>10, <1>12
    <3>2. [v[k] EXCEPT !.text = es[k].text] = [start |-> v[k].start, end |-> v[k].end, text |-> es[k].text]
      BY <3>1, EventExcept
    <3> QED
      BY <3>1, <3>2, <1>3
  <2>4. \A j \in 1..Len(es) : (IF j = k THEN [v[k] EXCEPT !.text = es[k].text] ELSE v[j]) = es[j]
    BY <2>3, <1>10
  <2> QED
    BY <2>1, <2>2, <2>4
<1>17. SetTextAt(back, t, es[k].text) = [back EXCEPT !.events[k].text = es[k].text]
  BY <1>13, <1>15 DEF SetTextAt, SetText
<1>18. [back EXCEPT !.events[k].text = es[k].text] = [back EXCEPT !.events = es]
  BY <1>13, <1>16 DEF Layer
<1>19. [back EXCEPT !.events = es] = ly
  <2>1. back = [[ly EXCEPT !.events = u] EXCEPT !.events = v]
    BY <1>6, <1>11
  <2>2. back = [ly EXCEPT !.events = v]
    BY <2>1, <1>5, <1>10, WithEventsTwice
  <2> QED
    BY <2>2, <1>10, WithEvents DEF es
<1>20. SetTextAt(back, t, es[k].text) = ly
  BY <1>17, <1>18, <1>19
<1> QED
  BY <1>2, <1>3, <1>4, <1>8, <1>20 DEF es, back, rm

\* The anchor between the intervals p and p + 1 splits what merging them gave.
LEMMA MergedAt ==
  ASSUME NEW es \in Seq(Event), Tiles(es), NEW p \in 1..(Len(es) - 1), NEW t \in Times, es[p].end = t
  PROVE  LET u == Merge(es, p + 1)
         IN  FindIndex(u, t) = p /\ u[p].start # t /\ u[p].end # t
<1> DEFINE u == Merge(es, p + 1)
           n == Len(es)
<1>1. /\ n \in Nat /\ p \in 1..n /\ p + 1 \in 2..n /\ p + 1 \in 1..n /\ (p + 1) - 1 = p /\ t \in Nat /\ p > 0
      /\ p < p + 1 /\ p \in 1..(n - 1)
  BY EventsFact, DurationAssumption DEF Times
<1>2. /\ u \in Seq(Event) /\ Len(u) = n - 1
      /\ \A j \in 1..(n - 1) :
            u[j] = IF j < (p + 1) - 1 THEN es[j]
                   ELSE IF j = (p + 1) - 1
                   THEN [start |-> es[(p + 1) - 1].start, end |-> es[p + 1].end,
                         text |-> es[(p + 1) - 1].text \o es[p + 1].text]
                   ELSE es[j + 1]
  BY <1>1, MergeFact
<1> HIDE DEF u
<1>3. u[p].start = es[p].start /\ u[p].end = es[p + 1].end
  <2>1. ~(p < (p + 1) - 1) /\ p = (p + 1) - 1
    BY <1>1
  <2>2. u[p] = [start |-> es[(p + 1) - 1].start, end |-> es[p + 1].end,
                text |-> es[(p + 1) - 1].text \o es[p + 1].text]
    BY <1>1, <1>2, <2>1
  <2> QED
    BY <2>2, <1>1
<1>4. /\ es[p].start \in Nat /\ es[p + 1].end \in Nat /\ es[p].start < t /\ t < es[p + 1].end
  <2>1. es[p].start \in Nat /\ es[p].end \in Nat /\ es[p + 1].end \in Nat
    BY <1>1, EventsFact
  <2>2. es[p].start < es[p].end /\ es[p].end < es[p + 1].end
    BY <1>1, EventsFact DEF Tiles
  <2> QED
    BY <2>1, <2>2
<1>5. \A j \in 1..(p - 1) : u[j].end < t
  <2> TAKE j \in 1..(p - 1)
  <2>1. j \in 1..n /\ j \in 1..(n - 1) /\ j < p /\ j < (p + 1) - 1
    BY <1>1
  <2>2. u[j] = es[j]
    BY <1>2, <2>1
  <2>3. es[j].end < es[p].end
    BY <1>1, <2>1, EventsFact DEF Tiles
  <2> QED
    BY <2>2, <2>3
<1>6. p \in 1..Len(u) /\ p <= Len(u) /\ \A i, j \in 1..Len(u) : i < j => u[i].end < u[j].end
  <2>1. Tiles(u)
    BY MergeTiles, <1>1 DEF u
  <2> QED
    BY <1>1, <1>2, <2>1, EventsFact DEF Tiles
<1>7. u[p].end >= t
  BY <1>3, <1>4, <1>1
<1>8. FirstEnding(u, t) = p
  BY <1>1, <1>2, <1>5, <1>6, <1>7, FirstEndingIs
<1>9. u[p].start <= t
  BY <1>3, <1>4, <1>1
<1>10. FindIndex(u, t) = p
  BY <1>6, <1>8, <1>9 DEF FindIndex
<1> QED
  BY <1>10, <1>3, <1>4, <1>1 DEF u

\* Undoing the removal of an anchor between intervals: the interval is cut
\* again, and each side gets its text back.
LEMMA AnchorRestored ==
  ASSUME NEW ly \in Layer, InOrder(ly), ~ly.instants, NEW t \in Times, CanRemove(ly, t)
  PROVE  LET es == ly.events
             rm == RemoveAnchor(ly, t)
             p  == Min(EndingAt(es, t))
         IN  /\ p \in 1..Len(es) /\ es[p].text \in Seq(Words) /\ es[p + 1].text \in Seq(Words)
             /\ CanAdd(rm, t)
             /\ RestoreTexts(AddAnchor(rm, t), t, es[p].text, es[p + 1].text) = ly
<1> DEFINE es   == ly.events
           k    == FirstFrom(es, t)
           p    == k - 1
           u    == Merge(es, k)
           rm   == RemoveAnchor(ly, t)
           v    == Split(u, p, t)
           back == AddAnchor(rm, t)
<1>1. es \in Seq(Event) /\ Tiles(es)
  <2>1. es \in Seq(Event)
    BY LayerFact
  <2>2. Tiles(es)
    BY DEF InOrder
  <2> QED
    BY <2>1, <2>2
<1>2. k \in 2..Len(es) /\ es[k].start = t /\ es[k - 1].end = t
  BY RemovableFact
<1>3. rm = [ly EXCEPT !.events = u]
  BY DEF RemoveAnchor
<1> HIDE DEF rm, k
<1>4. /\ Len(es) \in Nat /\ DOMAIN es = 1..Len(es)
      /\ p \in 1..(Len(es) - 1) /\ p \in 1..Len(es) /\ p + 1 = k /\ k \in 1..Len(es) /\ p # k
  BY <1>1, <1>2, EventsFact
<1>5. u \in Seq(Event)
  BY <1>1, <1>2, MergeFact
<1>6. v \in Seq(Event) /\ Len(v) = Len(es)
      /\ \A j \in 1..Len(es) :
            /\ j # k - 1 /\ j # k => v[j] = es[j]
            /\ v[j].start = es[j].start /\ v[j].end = es[j].end
  BY <1>1, <1>2, SplitOfMerge
<1> HIDE DEF u, v
<1> HIDE DEF p, es
<1>7. FindIndex(u, t) = p /\ u[p].start # t /\ u[p].end # t
  <2>1. es[p].end = t /\ u = Merge(es, p + 1)
    BY <1>2, <1>4 DEF p, u
  <2> QED
    BY <1>1, <1>4, <2>1, MergedAt
<1>8. rm \in Layer /\ ~rm.instants /\ rm.events = u
  BY <1>3, <1>5, WithEvents DEF es
<1>9. CanAdd(rm, t)
  BY <1>4, <1>7, <1>8 DEF CanAdd
<1>10. back = [rm EXCEPT !.events = v]
  BY <1>7, <1>8 DEF AddAnchor, v
<1> HIDE DEF back
<1>11. back \in Layer /\ back.events = v
  BY <1>6, <1>8, <1>10, WithEvents
<1>12. Tiles(v)
  BY <1>1, <1>6, SameBounds
<1>13. Min(EndingAt(es, t)) = p
  BY <1>1, <1>2, <1>4, OneEndAt DEF p
<1>14. EndingAt(v, t) = {p} /\ Min(EndingAt(v, t)) = p
  <2>1. v[p].end = t
    BY <1>2, <1>4, <1>6 DEF p
  <2> QED
    BY <2>1, <1>4, <1>6, <1>12, OneEndAt
<1> DEFINE w == [i \in DOMAIN v |->
                   IF i = p THEN [v[i] EXCEPT !.text = es[p].text]
                   ELSE IF i = p + 1 /\ v[i].start = t THEN [v[i] EXCEPT !.text = es[p + 1].text]
                   ELSE v[i]]
<1>15. w = es
  <2>1. DOMAIN v = 1..Len(es) /\ es = [j \in 1..Len(es) |-> es[j]]
    BY <1>1, <1>4, <1>6, EventsFact
  <2>2. ASSUME NEW j \in 1..Len(es) PROVE w[j] = es[j]
    <3>1. v[j] \in Event /\ es[j] \in Event
      BY <1>1, <1>6, EventsFact
    <3>2. /\ [v[j] EXCEPT !.text = es[j].text] = [start |-> v[j].start, end |-> v[j].end, text |-> es[j].text]
          /\ es[j] = [start |-> es[j].start, end |-> es[j].end, text |-> es[j].text]
      BY <3>1, EventExcept
    <3>3. v[j].start = es[j].start /\ v[j].end = es[j].end
      BY <1>6
    <3>4. [v[j] EXCEPT !.text = es[j].text] = es[j]
      BY <3>2, <3>3
    <3>5. CASE j = p
      BY <2>1, <3>4, <3>5
    <3>6. CASE j = k
      <4>1. v[j].start = t /\ j # p /\ j = p + 1
        BY <3>3, <3>6, <1>2, <1>4
      <4> QED
        BY <2>1, <3>4, <4>1
    <3>7. CASE j # p /\ j # k
      <4>1. v[j] = es[j] /\ j # p /\ j # p + 1
        BY <3>7, <1>4, <1>6 DEF p
      <4> QED
        BY <2>1, <4>1
    <3> QED
      BY <3>5, <3>6, <3>7
  <2>3. w = [j \in 1..Len(es) |-> w[j]]
    BY <2>1
  <2> HIDE DEF w
  <2> QED
    BY <2>1, <2>2, <2>3
<1>16. RestoreTexts(back, t, es[p].text, es[p + 1].text) = [back EXCEPT !.events = w]
  BY <1>11, <1>14 DEF RestoreTexts
<1> HIDE DEF w
<1>17. [back EXCEPT !.events = es] = ly
  <2>1. back = [[ly EXCEPT !.events = u] EXCEPT !.events = v]
    BY <1>3, <1>10
  <2>2. back = [ly EXCEPT !.events = v]
    BY <2>1, <1>5, <1>6, WithEventsTwice
  <2> QED
    BY <2>2, <1>6, WithEvents DEF es
<1>18. RestoreTexts(back, t, es[p].text, es[p + 1].text) = ly
  BY <1>15, <1>16, <1>17
<1>19. es[p].text \in Seq(Words) /\ es[p + 1].text \in Seq(Words)
  BY <1>1, <1>4, EventsFact
<1> QED
  BY <1>4, <1>9, <1>13, <1>18, <1>19 DEF es, back, rm

\* The anchor at t, strictly inside the recording, is the end of one interval
\* and the start of the next, and of nothing else.
LEMMA OneAnchorAt ==
  ASSUME NEW es \in Seq(Event), Tiles(es), NEW t \in Times, t # 0, t # Duration, At(es, t) # {}
  PROVE  LET k == Min(EndingAt(es, t))
         IN  /\ EndingAt(es, t) # {} /\ k \in 1..(Len(es) - 1)
             /\ es[k].end = t /\ es[k + 1].start = t /\ es[k].start < t
             /\ At(es, t) = {k, k + 1} /\ Min(At(es, t)) = k
<1>1. /\ Len(es) \in Nat /\ DOMAIN es = 1..Len(es) /\ t \in Nat
      /\ \A j \in 1..Len(es) : es[j].start \in Nat /\ es[j].end \in Nat
  BY EventsFact, DurationAssumption DEF Times
<1>2. /\ Len(es) > 0 /\ es[1].start = 0 /\ es[Len(es)].end = Duration
      /\ \A i \in 1..Len(es) : es[i].start < es[i].end
      /\ \A i \in 1..(Len(es) - 1) : es[i].end = es[i + 1].start
      /\ \A i, j \in 1..Len(es) : i < j => es[i].start < es[j].start /\ es[i].end < es[j].end
  <2>1. es # <<>>
    BY DEF Tiles
  <2>2. Len(es) > 0
    BY <2>1, <1>1, EmptySeq
  <2> QED
    BY <2>2, <1>1 DEF Tiles
<1>3. PICK i \in 1..Len(es) : es[i].start = t \/ es[i].end = t
  BY <1>1 DEF At
<1>4. \E m \in 1..(Len(es) - 1) : es[m].end = t
  <2>1. CASE es[i].end = t
    <3>1. i # Len(es)
      BY <2>1, <1>2
    <3>2. i \in 1..(Len(es) - 1)
      BY ONLY <3>1, Len(es) \in Nat, i \in 1..Len(es)
    <3> QED
      BY <3>2, <2>1
  <2>2. CASE es[i].start = t
    <3>1. i # 1
      BY <2>2, <1>2
    <3>2. i - 1 \in 1..(Len(es) - 1) /\ (i - 1) + 1 = i
      BY <3>1, <1>1
    <3>3. es[i - 1].end = es[(i - 1) + 1].start
      BY <3>2, <1>2
    <3>4. es[i - 1].end = t
      BY <3>2, <3>3, <2>2
    <3> QED
      BY <3>2, <3>4
  <2> QED
    BY <1>3, <2>1, <2>2
<1>5. PICK k \in 1..(Len(es) - 1) : es[k].end = t
  BY <1>4
<1>6. k \in 1..Len(es) /\ k + 1 \in 1..Len(es) /\ k < k + 1 /\ k \in Nat /\ k + 1 \in Nat
  BY <1>1
<1>7. Min(EndingAt(es, t)) = k /\ EndingAt(es, t) # {}
  BY <1>5, <1>6, OneEndAt
<1>8. es[k + 1].start = t /\ es[k].start < t
  BY <1>2, <1>5, <1>6
<1>9. ASSUME NEW j \in At(es, t) PROVE j = k \/ j = k + 1
  <2>1. j \in 1..Len(es) /\ (es[j].start = t \/ es[j].end = t)
    BY <1>1 DEF At
  <2>2. es[j].end = t => ~(j < k) /\ ~(k < j)
    BY <1>2, <1>5, <1>6, <1>1, <2>1
  <2>3. es[j].start = t => ~(j < k + 1) /\ ~(k + 1 < j)
    BY <1>2, <1>8, <1>6, <1>1, <2>1
  <2> QED
    BY <2>1, <2>2, <2>3, <1>6
<1>10. k \in At(es, t) /\ k + 1 \in At(es, t)
  BY <1>1, <1>5, <1>6, <1>8 DEF At
<1>11. At(es, t) = {k, k + 1}
  BY <1>9, <1>10
<1>12. Min(At(es, t)) = k
  <2>1. At(es, t) \in SUBSET Nat /\ k \in At(es, t) /\ \A x \in At(es, t) : k <= x
    BY <1>6, <1>11
  <2> QED
    BY <2>1, MinUnique
<1> QED
  BY <1>5, <1>7, <1>8, <1>11, <1>12

\* It is the one the mouse grabs.
LEMMA GrabbedAnchor ==
  ASSUME NEW es \in Seq(Event), Tiles(es), NEW t \in Times, t # 0, t # Duration, At(es, t) # {}
  PROVE  Grabbed(es, t) # {} /\ Min(Grabbed(es, t)) = Min(EndingAt(es, t))
<1> DEFINE k == Min(EndingAt(es, t))
<1>1. /\ k \in 1..(Len(es) - 1) /\ es[k].end = t /\ es[k + 1].start = t
      /\ At(es, t) = {k, k + 1}
  BY OneAnchorAt
<1> HIDE DEF k
<1>2. /\ Len(es) \in Nat /\ DOMAIN es = 1..Len(es) /\ t \in Nat /\ Duration \in Nat
      /\ \A j \in 1..Len(es) : es[j].start \in Nat /\ es[j].end \in Nat
  BY EventsFact, DurationAssumption DEF Times
<1>3. /\ es[Len(es)].end = Duration
      /\ \A i \in 1..Len(es) : es[i].start < es[i].end
      /\ \A i, j \in 1..Len(es) : i < j => es[i].start < es[j].start /\ es[i].end < es[j].end
  BY <1>2 DEF Tiles
<1>4. k \in 1..Len(es) /\ k + 1 \in 1..Len(es) /\ k < Len(es) /\ Len(es) \in 1..Len(es) /\ k < k + 1
  BY <1>1, <1>2
<1>5. t < Duration
  <2>1. es[k].end < es[Len(es)].end
    BY <1>3, <1>4
  <2> QED
    BY <2>1, <1>1, <1>3
<1>6. k \in Painted(es)
  <2>1. ASSUME NEW j \in 1..k PROVE es[j].start < Duration
    <3>1. j \in 1..Len(es) /\ (j = k \/ j < k)
      BY <1>2, <1>4
    <3>2. es[j].start < es[j].end /\ (j < k => es[j].end < es[k].end)
      BY <3>1, <1>3, <1>4
    <3>3. es[j].start \in Nat /\ es[j].end \in Nat /\ es[k].end = t
      BY <3>1, <1>1, <1>2
    <3> QED
      BY <3>1, <3>2, <3>3, <1>2, <1>5
  <2> QED
    BY <2>1, <1>2, <1>4 DEF Painted
<1>7. k \in Grabbed(es, t)
  BY <1>1, <1>6 DEF Grabbed
<1>8. Grabbed(es, t) \subseteq At(es, t)
  BY DEF Grabbed, At, Painted
<1>9. Grabbed(es, t) \in SUBSET Nat /\ \A x \in Grabbed(es, t) : k <= x
  BY <1>1, <1>2, <1>4, <1>8
<1>10. Min(Grabbed(es, t)) = k
  BY <1>7, <1>9, MinUnique
<1> QED
  BY <1>7, <1>10 DEF k

\* An anchor dragged between its neighbours leaves the layer in order, and
\* MoveAnchor, by which the other layers and redo do it, gives the same.
LEMMA DragKeeps ==
  ASSUME NEW ly \in Layer, InOrder(ly), ~ly.instants, NEW from \in Times, NEW to \in Times,
         from # 0, from # Duration, At(ly.events, from) # {},
         \A i \in DOMAIN ly.events :
             /\ ly.events[i].end = from => ly.events[i].start < to
             /\ ly.events[i].start = from => to < ly.events[i].end
  PROVE  LET k == Min(EndingAt(ly.events, from))
             x == Drag(ly, from, to)
         IN  /\ k \in 1..(Len(ly.events) - 1)
             /\ ly.events[k].end = from /\ ly.events[k + 1].start = from
             /\ ly.events[k].start < to /\ to < ly.events[k + 1].end
             /\ x \in Layer /\ InOrder(x) /\ ~x.instants
             /\ x.events = MoveEnd(ly.events, k, to)
             /\ [x EXCEPT !.events = ly.events] = ly
             /\ MoveAnchor(ly, from, to) = x
<1> DEFINE es == ly.events
           k  == Min(EndingAt(es, from))
           us == MoveEnd(es, k, to)
           x  == Drag(ly, from, to)
<1>1. es \in Seq(Event) /\ Tiles(es)
  <2>1. es \in Seq(Event)
    BY LayerFact
  <2>2. Tiles(es)
    BY DEF InOrder
  <2> QED
    BY <2>1, <2>2
<1>2. /\ EndingAt(es, from) # {} /\ k \in 1..(Len(es) - 1)
      /\ es[k].end = from /\ es[k + 1].start = from /\ es[k].start < from
      /\ Min(At(es, from)) = k
  BY <1>1, OneAnchorAt
<1>3. x = [ly EXCEPT !.events = us]
  BY <1>1, <1>2, GrabbedAnchor DEF Drag
<1> HIDE DEF k, x
<1>4. /\ Len(es) \in Nat /\ DOMAIN es = 1..Len(es) /\ k \in 1..Len(es) /\ k + 1 \in 1..Len(es)
      /\ es[k].start \in Nat
  BY <1>1, <1>2, EventsFact
<1>5. es[k].start < to /\ to < es[k + 1].end
  BY <1>2, <1>4
<1>6. us \in Seq(Event) /\ Tiles(us)
  BY <1>1, <1>2, <1>4, <1>5, MoveEndFact, MoveEndTiles
<1> HIDE DEF us
<1>7. /\ x \in Layer /\ x.instants = ly.instants /\ x.events = us
      /\ [x EXCEPT !.events = ly.events] = ly
  BY <1>3, <1>6, WithEvents
<1>8. InOrder(x) /\ ~x.instants
  <2>1. ~x.instants /\ Tiles(x.events)
    BY <1>6, <1>7
  <2> QED
    BY <2>1, Zenon DEF InOrder
<1>9. MoveAnchor(ly, from, to) = x
  <2>1. es[k].start # from
    BY <1>2, <1>4
  <2>2. MoveAnchor(ly, from, to) = [ly EXCEPT !.events = us]
    BY <1>2, <2>1 DEF MoveAnchor, us
  <2> QED
    BY <2>2, <1>3
<1> QED
  BY <1>2, <1>5, <1>7, <1>8, <1>9 DEF k, us, x

\* The anchor is the same for the mouse and for MoveAnchor.
LEMMA DragIsMove ==
  ASSUME NEW ly \in Layer, InOrder(ly), ~ly.instants, NEW from \in Times, NEW to \in Times,
         from # 0, from # Duration, At(ly.events, from) # {}
  PROVE  MoveAnchor(ly, from, to) = Drag(ly, from, to)
<1> DEFINE es == ly.events
           k  == Min(EndingAt(es, from))
<1>1. es \in Seq(Event) /\ Tiles(es)
  <2>1. es \in Seq(Event)
    BY LayerFact
  <2>2. Tiles(es)
    BY DEF InOrder
  <2> QED
    BY <2>1, <2>2
<1>2. /\ es[k].start < from /\ k \in 1..(Len(es) - 1) /\ Min(At(es, from)) = k
      /\ es[k].end = from /\ Min(Grabbed(es, from)) = k
  BY <1>1, OneAnchorAt, GrabbedAnchor
<1> HIDE DEF k
<1>3. es[k].start # from
  <2>1. es[k].start \in Nat
    BY <1>1, <1>2, EventsFact
  <2> QED
    BY <1>2, <2>1
<1>4. MoveAnchor(ly, from, to) = [ly EXCEPT !.events = MoveEnd(es, k, to)]
  BY <1>2, <1>3 DEF MoveAnchor
<1> QED
  BY <1>2, <1>4 DEF Drag

\* Undoing a drag.
LEMMA DragBack ==
  ASSUME NEW ly \in Layer, InOrder(ly), ~ly.instants, NEW from \in Times, NEW to \in Times,
         from # 0, from # Duration, At(ly.events, from) # {},
         \A i \in DOMAIN ly.events :
             /\ ly.events[i].end = from => ly.events[i].start < to
             /\ ly.events[i].start = from => to < ly.events[i].end
  PROVE  MoveAnchor(Drag(ly, from, to), to, from) = ly
<1> DEFINE es == ly.events
           k  == Min(EndingAt(es, from))
           us == MoveEnd(es, k, to)
           x  == Drag(ly, from, to)
           m  == Min(EndingAt(us, to))
<1>1. es \in Seq(Event) /\ Tiles(es)
  <2>1. es \in Seq(Event)
    BY LayerFact
  <2>2. Tiles(es)
    BY DEF InOrder
  <2> QED
    BY <2>1, <2>2
<1>2. /\ k \in 1..(Len(es) - 1)
      /\ es[k].end = from /\ es[k + 1].start = from
      /\ es[k].start < to /\ to < es[k + 1].end
      /\ x \in Layer /\ InOrder(x) /\ ~x.instants
      /\ x.events = us
      /\ [x EXCEPT !.events = ly.events] = ly
  <2>1. /\ k \in 1..(Len(es) - 1)
        /\ es[k].end = from /\ es[k + 1].start = from
        /\ es[k].start < to /\ to < es[k + 1].end
    BY DragKeeps
  <2>2. x \in Layer /\ x.events = us /\ [x EXCEPT !.events = ly.events] = ly
    <3>1. us \in Seq(Event)
      <4>1. k \in 1..Len(es) /\ Len(es) \in Nat
        BY <2>1, <1>1, EventsFact
      <4> HIDE DEF k, es
      <4> QED
        BY <1>1, <4>1, MoveEndFact
    <3>2. x = [ly EXCEPT !.events = us]
      BY <2>1, <1>1, GrabbedAnchor DEF Drag
    <3> HIDE DEF x, us
    <3> QED
      BY <3>1, <3>2, WithEvents
  <2>3. InOrder(x)
    BY DragKeeps
  <2>4. ~x.instants
    BY DragKeeps
  <2> QED
    BY <2>1, <2>2, <2>3, <2>4
<1> HIDE DEF k, x, es
<1>3. /\ Len(es) \in Nat /\ DOMAIN es = 1..Len(es) /\ k \in 1..Len(es) /\ k + 1 \in 1..Len(es)
      /\ k # k + 1 /\ k < k + 1
      /\ es[k].start \in Nat /\ es[k + 1].end \in Nat /\ es[k + 1].end <= Duration
      /\ from \in Nat /\ to \in Nat /\ Duration \in Nat
  <2>1. /\ Len(es) \in Nat /\ DOMAIN es = 1..Len(es)
        /\ \A j \in 1..Len(es) : es[j].start \in Nat /\ es[j].end \in Nat
        /\ from \in Nat /\ to \in Nat /\ Duration \in Nat
    BY <1>1, EventsFact, DurationAssumption DEF Times
  <2>2. k \in 1..Len(es) /\ k + 1 \in 1..Len(es) /\ k # k + 1 /\ k < k + 1 /\ Len(es) \in 1..Len(es)
    BY <2>1, <1>2
  <2>3. es[k + 1].end <= Duration
    <3> DEFINE n == Len(es)
               e == es[k + 1].end
    <3>6. n \in Nat /\ Duration \in Nat
      BY <2>1
    <3>1. k + 1 = n \/ k + 1 < n
      BY ONLY <3>6, <2>2
    <3>2. k + 1 < n => e < es[n].end
      BY <2>1, <2>2, <1>1 DEF Tiles
    <3>3. es[n].end = Duration
      BY <1>1 DEF Tiles
    <3>4. e \in Nat /\ (k + 1 = n => e = es[n].end)
      <4>1. \A j \in 1..n : es[j].end \in Nat
        BY <2>1
      <4> QED
        BY ONLY <4>1, <2>2
    <3> HIDE DEF n, e
    <3>5. e <= Duration
      BY ONLY <3>1, <3>2, <3>3, <3>4, <3>6
    <3> QED
      BY <3>5 DEF e
  <2> QED
    BY <2>1, <2>2, <2>3
<1>4. to # 0 /\ to # Duration
  BY <1>2, <1>3
<1>5. /\ us \in Seq(Event) /\ Len(us) = Len(es)
      /\ us[k].start = es[k].start /\ us[k].end = to
      /\ us[k + 1].start = to /\ us[k + 1].end = es[k + 1].end
  <2>1. /\ us \in Seq(Event) /\ Len(us) = Len(es)
        /\ \A j \in 1..Len(es) :
               us[j] = IF j = k THEN [start |-> es[j].start, end |-> to, text |-> es[j].text]
                       ELSE IF j = k + 1 THEN [start |-> to, end |-> es[j].end, text |-> es[j].text]
                       ELSE es[j]
    BY <1>1, <1>3, MoveEndFact, ZenonT(30)
  <2> HIDE DEF us
  <2>2. /\ us[k] = [start |-> es[k].start, end |-> to, text |-> es[k].text]
        /\ us[k + 1] = [start |-> to, end |-> es[k + 1].end, text |-> es[k + 1].text]
    BY <2>1, <1>3
  <2> QED
    BY <2>1, <2>2
<1>6. Tiles(us)
  <2>1. Tiles(x.events)
    BY <1>2, Zenon DEF InOrder
  <2> QED
    BY <2>1, <1>2
<1>7. MoveEnd(us, k, from) = es
  BY <1>1, <1>2, MoveEndBack
<1> HIDE DEF us
<1>8. At(us, to) # {}
  <2>1. k \in DOMAIN us
    BY <1>3, <1>5, EventsFact
  <2> QED
    BY <2>1, <1>4, <1>5 DEF At
<1>9. /\ m \in 1..(Len(us) - 1) /\ us[m].end = to /\ us[m].start < to
      /\ At(us, to) = {m, m + 1} /\ Min(At(us, to)) = m
  BY <1>4, <1>5, <1>6, <1>8, OneAnchorAt
<1>10. m = k
  BY <1>3, <1>5, <1>6, OneEndAt
<1> HIDE DEF m
<1>11. us[k].start # to
  BY <1>3, <1>5, <1>9, <1>10
<1>12. MoveAnchor(x, to, from) = [x EXCEPT !.events = MoveEnd(us, k, from)]
  BY <1>2, <1>8, <1>9, <1>10, <1>11 DEF MoveAnchor
<1> QED
  BY <1>2, <1>7, <1>12 DEF x, es

\* A layer whose events are mapped one by one, their bounds left alone.
LEMMA Retexted ==
  ASSUME NEW ly \in Layer, NEW us, DOMAIN us = DOMAIN ly.events,
         us = [k \in DOMAIN ly.events |-> us[k]],
         \A k \in DOMAIN ly.events :
             /\ us[k] \in Event
             /\ us[k].start = ly.events[k].start /\ us[k].end = ly.events[k].end
  PROVE  LET x == [ly EXCEPT !.events = us]
         IN  /\ x \in Layer /\ x.instants = ly.instants /\ x.events = us
             /\ us \in Seq(Event) /\ Len(us) = Len(ly.events)
             /\ (InOrder(ly) => InOrder(x)) /\ (Chained(ly) => Chained(x))
             /\ [x EXCEPT !.events = ly.events] = ly
<1> DEFINE es == ly.events
           x  == [ly EXCEPT !.events = us]
<1>1. es \in Seq(Event) /\ DOMAIN es = 1..Len(es) /\ Len(es) \in Nat
  BY LayerFact, EventsFact
<1>2. us \in [1..Len(es) -> Event]
  BY <1>1
<1>3. us \in Seq(Event) /\ Len(us) = Len(es)
  BY <1>1, <1>2, FunctionIsSeq
<1>4. \A j \in 1..Len(es) : us[j].start = es[j].start /\ us[j].end = es[j].end
  BY <1>1
<1>5. (Tiles(es) => Tiles(us)) /\ (Instants(es) => Instants(us))
  BY <1>1, <1>3, <1>4, SameBounds
<1>9. x = [ly EXCEPT !.events = us]
  OBVIOUS
<1> HIDE DEF x
<1>6. x \in Layer /\ x.instants = ly.instants /\ x.events = us /\ [x EXCEPT !.events = ly.events] = ly
  <2>1. us \in Seq(Event)
    BY <1>3
  <2>2. LET y == [ly EXCEPT !.events = us]
        IN  /\ y \in Layer /\ y.label = ly.label /\ y.instants = ly.instants /\ y.events = us
            /\ [y EXCEPT !.events = ly.events] = ly
    BY ONLY <2>1, ly \in Layer, WithEvents
  <2> QED
    BY ONLY <2>2, <1>9
<1>7. ASSUME InOrder(ly) PROVE InOrder(x)
  <2>1. ly.instants \in BOOLEAN
    BY LayerFact
  <2>2. CASE ly.instants
    <3>1. Instants(es)
      BY <1>7, <2>2, Zenon DEF InOrder
    <3>2. x.instants /\ Instants(x.events)
      BY <3>1, <1>5, <1>6, <2>2
    <3> QED
      BY <3>2, Zenon DEF InOrder
  <2>3. CASE ~ly.instants
    <3>1. Tiles(es)
      BY <1>7, <2>3, Zenon DEF InOrder
    <3>2. ~x.instants /\ Tiles(x.events)
      BY <3>1, <1>5, <1>6, <2>3
    <3> QED
      BY <3>2, Zenon DEF InOrder
  <2> QED
    BY <2>2, <2>3
<1>8. InOrder(ly) => InOrder(x)
  BY <1>7
<1>10. Chained(ly) => Chained(x)
  <2>1. Run(es) => Run(us)
    <3> SUFFICES ASSUME Run(es) PROVE Run(us)
      OBVIOUS
    <3>1. /\ Len(es) > 0 /\ es[1].start = 0
          /\ \A i \in 1..(Len(es) - 1) : es[i].end = es[i + 1].start
      BY <1>1, RunFact
    <3>2. 1 \in 1..Len(es) /\ \A i \in 1..(Len(es) - 1) : i \in 1..Len(es) /\ i + 1 \in 1..Len(es)
      BY <1>1, <3>1
    <3>3. us[1].start = 0 /\ Len(us) > 0 /\ \A i \in 1..(Len(us) - 1) : us[i].end = us[i + 1].start
      BY <1>3, <1>4, <3>1, <3>2
    <3> QED
      BY <1>3, <3>3, RunIf
  <2> QED
    BY <1>6, <2>1, ChainedIf
<1> QED
  BY <1>3, <1>6, <1>8, <1>10, Zenon DEF x

\* Setting a text keeps the layer in order and is taken back by setting the old one.
LEMMA SetTextFact ==
  ASSUME NEW ly \in Layer, NEW k \in 1..Len(ly.events), NEW text \in Seq(Words)
  PROVE  LET x == SetText(ly, k, text)
         IN  /\ x \in Layer /\ x.instants = ly.instants
             /\ Len(x.events) = Len(ly.events)
             /\ (InOrder(ly) => InOrder(x)) /\ (Chained(ly) => Chained(x))
             /\ SetText(x, k, ly.events[k].text) = ly
<1> DEFINE es == ly.events
           us == [es EXCEPT ![k].text = text]
           x  == SetText(ly, k, text)
<1>1. /\ es \in Seq(Event) /\ DOMAIN es = 1..Len(es) /\ Len(es) \in Nat
      /\ es = [j \in 1..Len(es) |-> es[j]]
      /\ \A j \in 1..Len(es) : es[j] \in Event /\ es[j].text \in Seq(Words)
                                /\ es[j].start \in Times /\ es[j].end \in Times
  BY LayerFact, EventsFact
<1> DEFINE new == [start |-> es[k].start, end |-> es[k].end, text |-> text]
<1>2. /\ us = [j \in 1..Len(es) |-> IF j = k THEN new ELSE es[j]]
      /\ new \in Event
  <2>1. [es[k] EXCEPT !.text = text] = new
    BY <1>1, EventExcept
  <2>2. us = [j \in 1..Len(es) |-> IF j = k THEN [es[k] EXCEPT !.text = text] ELSE es[j]]
    BY <1>1
  <2>3. new \in Event
    BY <1>1 DEF Event
  <2> QED
    BY <2>1, <2>2, <2>3
<1>3. x = [ly EXCEPT !.events = us]
  BY DEF SetText, Layer
<1> HIDE DEF x, us
<1>4. DOMAIN us = DOMAIN es /\ us = [j \in DOMAIN es |-> us[j]]
  BY <1>1, <1>2
<1>5. \A j \in DOMAIN es : us[j] \in Event /\ us[j].start = es[j].start /\ us[j].end = es[j].end
  BY <1>1, <1>2
<1>6. /\ x \in Layer /\ x.instants = ly.instants /\ x.events = us
      /\ us \in Seq(Event) /\ Len(us) = Len(es)
      /\ (InOrder(ly) => InOrder(x)) /\ (Chained(ly) => Chained(x))
      /\ [x EXCEPT !.events = es] = ly
  BY <1>3, <1>4, <1>5, Retexted, ZenonT(30)
<1>7. [us EXCEPT ![k].text = es[k].text] = es
  <2>1. us[k] = new /\ DOMAIN us = 1..Len(es)
    BY <1>1, <1>2, <1>4
  <2>2. [new EXCEPT !.text = es[k].text] = [start |-> new.start, end |-> new.end, text |-> es[k].text]
    BY <1>2, EventExcept
  <2>3. es[k] = [start |-> es[k].start, end |-> es[k].end, text |-> es[k].text]
    BY <1>1, EventExcept
  <2>4. [new EXCEPT !.text = es[k].text] = es[k]
    BY <2>2, <2>3
  <2> HIDE DEF new
  <2>5. [us EXCEPT ![k].text = es[k].text]
            = [j \in 1..Len(es) |-> IF j = k THEN [new EXCEPT !.text = es[k].text] ELSE us[j]]
    BY <2>1, <1>4
  <2>6. \A j \in 1..Len(es) : (IF j = k THEN [new EXCEPT !.text = es[k].text] ELSE us[j]) = es[j]
    BY <2>4, <1>2
  <2> QED
    BY <2>5, <2>6, <1>1
<1>8. SetText(x, k, es[k].text) = [x EXCEPT !.events = es]
  BY <1>6, <1>7 DEF SetText, Layer
<1> QED
  BY <1>6, <1>8, Zenon DEF x

\* Looking an event up by its own start finds it.
LEMMA FoundByStart ==
  ASSUME NEW ly \in Layer, InOrder(ly), NEW k \in 1..Len(ly.events)
  PROVE  FirstFrom(ly.events, ly.events[k].start) = k
<1> DEFINE es == ly.events
           t  == es[k].start
<1>1. /\ es \in Seq(Event) /\ DOMAIN es = 1..Len(es) /\ Len(es) \in Nat
      /\ \A j \in 1..Len(es) : es[j].start \in Nat
      /\ k \in 1..Len(es)
  BY LayerFact, EventsFact
<1>2. \A i, j \in 1..Len(es) : i < j => es[i].start < es[j].start
  <2>1. ly.instants \in BOOLEAN
    BY LayerFact
  <2>2. CASE ly.instants
    <3>1. Instants(es)
      BY <2>2, Zenon DEF InOrder
    <3> QED
      BY <3>1, <1>1 DEF Instants
  <2>3. CASE ~ly.instants
    <3>1. Tiles(es)
      BY <2>3, Zenon DEF InOrder
    <3> QED
      BY <3>1, <1>1 DEF Tiles
  <2> QED
    BY <2>1, <2>2, <2>3
<1> HIDE DEF es
<1>3. t \in Nat /\ k \in 1..(Len(es) + 1) /\ es[k].start >= t
  BY <1>1
<1>4. \A j \in 1..(k - 1) : es[j].start < t
  <2> TAKE j \in 1..(k - 1)
  <2>1. j \in 1..Len(es) /\ j < k /\ k \in 1..Len(es)
    BY <1>1
  <2> QED
    BY <2>1, <1>2
<1> HIDE DEF t
<1>5. FirstFrom(es, t) = k
  <2>1. Rising(es)
    BY <1>2 DEF Rising
  <2> QED
    BY <1>1, <1>3, <1>4, <2>1, FirstFromIs
<1> QED
  BY <1>5 DEF es, t

\* A bound that is moved with the neighbour's leaves a layer, without a gap if
\* it had none; the first start is not moved.
LEMMA MovedType ==
  ASSUME NEW ly \in Layer, NEW k \in 1..Len(ly.events), NEW to \in Times, NEW x,
         \/ x = [ly EXCEPT !.events = MoveEnd(ly.events, k, to)]
         \/ ly.events[k].start # 0 /\ x = [ly EXCEPT !.events = MoveStart(ly.events, k, to)]
  PROVE  x \in Layer /\ x.instants = ly.instants /\ (Chained(ly) => Chained(x))
<1> DEFINE es == ly.events
<1>1. es \in Seq(Event) /\ Len(es) \in Nat
  BY LayerFact, EventsFact
<1>2. CASE x = [ly EXCEPT !.events = MoveEnd(es, k, to)]
  <2> DEFINE us == MoveEnd(es, k, to)
  <2>1. us \in Seq(Event) /\ (Run(es) => Run(us))
    BY <1>1, MoveEndFact, MoveEndRun
  <2>2. x = [ly EXCEPT !.events = us]
    BY <1>2
  <2> HIDE DEF us
  <2>3. x \in Layer /\ x.instants = ly.instants /\ x.events = us
    BY <2>1, <2>2, WithEvents
  <2> QED
    BY <2>1, <2>3, ChainedIf
<1>3. CASE es[k].start # 0 /\ x = [ly EXCEPT !.events = MoveStart(es, k, to)]
  <2> DEFINE us == MoveStart(es, k, to)
  <2>1. us \in Seq(Event)
    BY <1>1, MoveStartFact
  <2>2. Run(es) => Run(us)
    <3>1. Run(es) => k # 1
      BY <1>3 DEF Run
    <3>2. k # 1 => k \in 2..Len(es)
      BY <1>1
    <3> QED
      BY <1>1, <3>1, <3>2, MoveStartRun
  <2>3. x = [ly EXCEPT !.events = us]
    BY <1>3
  <2> HIDE DEF us
  <2>4. x \in Layer /\ x.instants = ly.instants /\ x.events = us
    BY <2>1, <2>3, WithEvents
  <2> QED
    BY <2>2, <2>4, ChainedIf
<1> QED
  BY <1>2, <1>3

\* Moving an anchor yields a layer, in order or not.
LEMMA MoveAnchorType ==
  ASSUME NEW ly \in Layer, NEW from \in Times, NEW to \in Times
  PROVE  /\ MoveAnchor(ly, from, to) \in Layer /\ MoveAnchor(ly, from, to).instants = ly.instants
         /\ Chained(ly) => Chained(MoveAnchor(ly, from, to))
<1> DEFINE es == ly.events
           k  == Min(At(es, from))
           x  == MoveAnchor(ly, from, to)
<1>1. /\ es \in Seq(Event) /\ DOMAIN es = 1..Len(es) /\ Len(es) \in Nat
      /\ \A j \in 1..Len(es) : es[j] \in Event /\ es[j].start \in Times /\ es[j].end \in Times
                                /\ es[j].text \in Seq(Words)
  BY LayerFact, EventsFact
<1>2. CASE At(es, from) = {}
  BY <1>2 DEF MoveAnchor
<1>3. CASE At(es, from) # {}
  <2>1. At(es, from) \in SUBSET Nat /\ At(es, from) \subseteq 1..Len(es)
    BY <1>1 DEF At
  <2>2. k \in 1..Len(es)
    BY <1>3, <2>1, MinLeast
  <2>3. x = [ly EXCEPT !.events = IF @[k].start = from /\ from # 0
                                  THEN MoveStart(@, k, to) ELSE MoveEnd(@, k, to)]
    BY <1>3 DEF MoveAnchor
  <2>4. \/ es[k].start # 0 /\ x = [ly EXCEPT !.events = MoveStart(es, k, to)]
        \/ x = [ly EXCEPT !.events = MoveEnd(es, k, to)]
    BY <2>3
  <2> HIDE DEF x, k
  <2> QED
    BY <2>2, <2>4, MovedType DEF x
<1> QED
  BY <1>2, <1>3 DEF x

\* Dragging one does, wherever it is dropped.
LEMMA DragType ==
  ASSUME NEW ly \in Layer, NEW from \in Times, NEW to \in Times, from # 0, Grabbed(ly.events, from) # {}
  PROVE  /\ Drag(ly, from, to) \in Layer /\ Drag(ly, from, to).instants = ly.instants
         /\ Chained(ly) => Chained(Drag(ly, from, to))
<1> DEFINE es == ly.events
           k  == Min(Grabbed(es, from))
           x  == Drag(ly, from, to)
<1>1. es \in Seq(Event) /\ DOMAIN es = 1..Len(es) /\ Len(es) \in Nat
  BY LayerFact, EventsFact
<1>2. Grabbed(es, from) \in SUBSET Nat /\ Grabbed(es, from) \subseteq 1..Len(es)
  BY <1>1 DEF Grabbed, Painted
<1>3. k \in Grabbed(es, from)
  BY <1>2, MinLeast
<1>4. k \in 1..Len(es) /\ (es[k].end # from => es[k].start = from)
  BY <1>2, <1>3 DEF Grabbed
<1>5. \/ es[k].start # 0 /\ x = [ly EXCEPT !.events = MoveStart(es, k, to)]
      \/ x = [ly EXCEPT !.events = MoveEnd(es, k, to)]
  BY <1>4 DEF Drag
<1> HIDE DEF x, k
<1> QED
  BY <1>4, <1>5, MovedType DEF x

\* Setting the text of the event that starts at t, if there is one, yields a layer.
LEMMA SetTextAtType ==
  ASSUME NEW ly \in Layer, NEW t \in Times, NEW text \in Seq(Words)
  PROVE  SetTextAt(ly, t, text) \in Layer /\ (Chained(ly) => Chained(SetTextAt(ly, t, text)))
<1> DEFINE es == ly.events
<1>1. es \in Seq(Event) /\ DOMAIN es = 1..Len(es) /\ Len(es) \in Nat
  BY LayerFact, EventsFact
<1>2. CASE StartingAt(es, t) = {}
  BY <1>2 DEF SetTextAt
<1>3. CASE StartingAt(es, t) # {}
  <2>1. StartingAt(es, t) \in SUBSET Nat /\ StartingAt(es, t) \subseteq 1..Len(es)
    BY <1>1 DEF StartingAt
  <2>2. Min(StartingAt(es, t)) \in 1..Len(es)
    BY <1>3, <2>1, MinLeast
  <2>3. SetTextAt(ly, t, text) = SetText(ly, Min(StartingAt(es, t)), text)
    BY <1>3 DEF SetTextAt
  <2> QED
    BY <2>2, <2>3, SetTextFact
<1> QED
  BY <1>2, <1>3

\* Giving the texts on both sides of an anchor back yields a layer.
LEMMA RestoreTextsType ==
  ASSUME NEW ly \in Layer, NEW t \in Times, NEW left \in Seq(Words), NEW right \in Seq(Words)
  PROVE  /\ RestoreTexts(ly, t, left, right) \in Layer
         /\ Chained(ly) => Chained(RestoreTexts(ly, t, left, right))
<1> DEFINE es == ly.events
           k  == Min(EndingAt(es, t))
           us == [i \in DOMAIN es |->
                     IF i = k THEN [es[i] EXCEPT !.text = left]
                     ELSE IF i = k + 1 /\ es[i].start = t THEN [es[i] EXCEPT !.text = right] ELSE es[i]]
           x  == RestoreTexts(ly, t, left, right)
<1>1. /\ es \in Seq(Event) /\ DOMAIN es = 1..Len(es) /\ Len(es) \in Nat
      /\ \A j \in 1..Len(es) : es[j] \in Event /\ es[j].start \in Times /\ es[j].end \in Times
                                /\ es[j].text \in Seq(Words)
  BY LayerFact, EventsFact
<1>2. CASE EndingAt(es, t) = {}
  BY <1>2 DEF RestoreTexts
<1>3. CASE EndingAt(es, t) # {}
  <2>1. x = [ly EXCEPT !.events = us]
    BY <1>3 DEF RestoreTexts
  <2> HIDE DEF k
  <2>2. ASSUME NEW i \in 1..Len(es)
        PROVE  /\ [es[i] EXCEPT !.text = left] = [start |-> es[i].start, end |-> es[i].end, text |-> left]
               /\ [es[i] EXCEPT !.text = right] = [start |-> es[i].start, end |-> es[i].end, text |-> right]
    BY <1>1, EventExcept
  <2>3. ASSUME NEW i \in DOMAIN es
        PROVE  us[i] \in Event /\ us[i].start = es[i].start /\ us[i].end = es[i].end
    <3>1. us[i] \in {es[i], [start |-> es[i].start, end |-> es[i].end, text |-> left],
                     [start |-> es[i].start, end |-> es[i].end, text |-> right]}
      BY <1>1, <2>2
    <3> HIDE DEF us
    <3> QED
      BY <3>1, <1>1 DEF Event
  <2>4. DOMAIN us = DOMAIN es /\ us = [i \in DOMAIN es |-> us[i]]
    OBVIOUS
  <2> HIDE DEF us, x
  <2>5. x \in Layer /\ (Chained(ly) => Chained(x))
    BY <2>1, <2>3, <2>4, Retexted
  <2> QED
    BY <2>5 DEF x
<1> QED
  BY <1>2, <1>3

\* Clearing the texts of a layer keeps it in order.
LEMMA ClearTextsKeeps ==
  ASSUME NEW ly \in Layer
  PROVE  /\ ClearTexts(ly) \in Layer /\ (InOrder(ly) => InOrder(ClearTexts(ly)))
         /\ Chained(ly) => Chained(ClearTexts(ly))
<1> DEFINE es == ly.events
           us == [i \in DOMAIN es |-> [es[i] EXCEPT !.text = <<>>]]
           x  == ClearTexts(ly)
<1>1. /\ es \in Seq(Event) /\ DOMAIN es = 1..Len(es)
      /\ \A j \in 1..Len(es) : es[j] \in Event /\ es[j].start \in Times /\ es[j].end \in Times
  BY LayerFact, EventsFact
<1>2. x = [ly EXCEPT !.events = us]
  BY DEF ClearTexts
<1>3. ASSUME NEW j \in DOMAIN es
      PROVE  us[j] \in Event /\ us[j].start = es[j].start /\ us[j].end = es[j].end
  <2>1. us[j] = [start |-> es[j].start, end |-> es[j].end, text |-> <<>>]
    BY <1>1, EventExcept
  <2> HIDE DEF us
  <2> QED
    BY <1>1, <2>1, EmptySeq DEF Event
<1>4. DOMAIN us = DOMAIN es /\ us = [j \in DOMAIN es |-> us[j]]
  OBVIOUS
<1> HIDE DEF us, x
<1>5. x \in Layer /\ (InOrder(ly) => InOrder(x)) /\ (Chained(ly) => Chained(x))
  BY <1>2, <1>3, <1>4, Retexted
<1> QED
  BY <1>5 DEF x

-----------------------------------------------------------------------------
(* Stacks.                                                                  *)

\* Counting from the top: what is added is first, and the rest moves down by one.
LEMMA TopOfAppend ==
  ASSUME NEW S, NEW s \in Seq(S), NEW x \in S
  PROVE  /\ Append(s, x) \in Seq(S) /\ Len(Append(s, x)) = Len(s) + 1
         /\ FromTop(Append(s, x), 0) = x
         /\ \A i \in 0..(Len(s) - 1) : FromTop(Append(s, x), i + 1) = FromTop(s, i)
<1> DEFINE u == Append(s, x)
<1>1. /\ Len(s) \in Nat /\ u \in Seq(S) /\ Len(u) = Len(s) + 1
      /\ \A j \in 1..Len(s) : u[j] = s[j]
      /\ u[Len(s) + 1] = x
  BY AppendProperties, LenProperties
<1> HIDE DEF u
<1>2. FromTop(u, 0) = x
  BY <1>1 DEF FromTop
<1>3. ASSUME NEW i \in 0..(Len(s) - 1) PROVE FromTop(u, i + 1) = FromTop(s, i)
  <2>1. Len(s) - i \in 1..Len(s) /\ Len(u) - (i + 1) = Len(s) - i
    BY <1>1
  <2> QED
    BY <1>1, <2>1 DEF FromTop
<1> QED
  BY <1>1, <1>2, <1>3 DEF u

\* Losing the oldest changes nothing counted from the top.
LEMMA TopOfTail ==
  ASSUME NEW S, NEW s \in Seq(S), Len(s) > 0
  PROVE  /\ Tail(s) \in Seq(S) /\ Len(Tail(s)) = Len(s) - 1
         /\ \A i \in 0..(Len(s) - 2) : FromTop(Tail(s), i) = FromTop(s, i)
<1> DEFINE u == Tail(s)
<1>1. /\ Len(s) \in Nat /\ u \in Seq(S) /\ Len(u) = Len(s) - 1
      /\ \A j \in 1..Len(u) : u[j] = s[j + 1]
  <2>1. s # <<>>
    BY EmptySeq
  <2> QED
    BY <2>1, HeadTailProperties, LenProperties
<1> HIDE DEF u
<1>2. ASSUME NEW i \in 0..(Len(s) - 2) PROVE FromTop(u, i) = FromTop(s, i)
  <2>1. Len(u) - i \in 1..Len(u) /\ (Len(u) - i) + 1 = Len(s) - i
    BY <1>1
  <2> QED
    BY <1>1, <2>1 DEF FromTop
<1> QED
  BY <1>1, <1>2 DEF u

\* Taking the top away moves the rest up by one.
LEMMA TopOfFront ==
  ASSUME NEW S, NEW s \in Seq(S), s # <<>>
  PROVE  /\ Len(s) \in Nat /\ Len(s) > 0 /\ Last(s) = FromTop(s, 0) /\ Last(s) \in S /\ Last(s) = s[Len(s)]
         /\ Front(s) \in Seq(S) /\ Len(Front(s)) = Len(s) - 1
         /\ \A i \in 0..(Len(s) - 2) : FromTop(Front(s), i) = FromTop(s, i + 1)
         /\ \A j \in 1..(Len(s) - 1) : Front(s)[j] = s[j]
<1> DEFINE u == Front(s)
<1>1. Len(s) \in Nat /\ Len(s) > 0 /\ Len(s) \in 1..Len(s) /\ Len(s) - 0 = Len(s)
  BY EmptySeq, LenProperties
<1>2. Last(s) = FromTop(s, 0) /\ Last(s) = s[Len(s)]
  BY <1>1 DEF Last, FromTop
<1>3. Last(s) \in S
  BY <1>1, <1>2, ElementOfSeq
<1>4. /\ u \in Seq(S) /\ Len(u) = Len(s) - 1 /\ \A j \in 1..(Len(s) - 1) : u[j] = s[j]
  <2>1. u = SubSeq(s, 1, Len(s) - 1)
    BY DEF Front
  <2>2. 1 \in 1..(Len(s) + 1) /\ Len(s) - 1 \in 0..Len(s)
    BY <1>1
  <2> HIDE DEF u
  <2>3. /\ u \in Seq(S)
        /\ Len(u) = IF 1 <= Len(s) - 1 THEN (Len(s) - 1) - 1 + 1 ELSE 0
        /\ \A j \in 1..((Len(s) - 1) - 1 + 1) : u[j] = s[1 + j - 1]
    BY <2>1, <2>2, SubSeqProperties
  <2>4. Len(u) = Len(s) - 1
    <3>1. (IF 1 <= Len(s) - 1 THEN (Len(s) - 1) - 1 + 1 ELSE 0) = Len(s) - 1
      BY <1>1
    <3> QED
      BY <2>3, <3>1
  <2>5. ASSUME NEW j \in 1..(Len(s) - 1) PROVE u[j] = s[j]
    <3>1. j \in 1..((Len(s) - 1) - 1 + 1) /\ 1 + j - 1 = j
      BY <1>1
    <3> QED
      BY <2>3, <3>1
  <2> QED
    BY <2>3, <2>4, <2>5
<1> HIDE DEF u
<1>5. ASSUME NEW i \in 0..(Len(s) - 2) PROVE FromTop(u, i) = FromTop(s, i + 1)
  <2>1. Len(u) - i \in 1..(Len(s) - 1) /\ Len(u) - i = Len(s) - (i + 1)
    BY <1>1, <1>4
  <2> QED
    BY <1>4, <2>1 DEF FromTop
<1> QED
  BY <1>1, <1>2, <1>3, <1>4, <1>5 DEF u

\* No documents make a chain.
LEMMA ChainNone ==
  ASSUME NEW C, NEW cs \in Seq(C), NEW here, NEW back
  PROVE  Chain(cs, <<>>, here, back)
<1>1. Len(<<>>) = 0 /\ Len(cs) \in Nat
  BY EmptySeq, LenProperties
<1>2. \A i \in 0..(0 - 1) : FALSE
  OBVIOUS
<1> QED
  BY <1>1, <1>2 DEF Chain

\* Running the command on top leads to the next document of the chain.
LEMMA ChainPop ==
  ASSUME NEW C, NEW D, NEW cs \in Seq(C), NEW ds \in Seq(D), NEW here, NEW back,
         Chain(cs, ds, here, back), ds # <<>>
  PROVE  /\ cs # <<>> /\ Linked(Last(cs), here, Last(ds), back)
         /\ Chain(Front(cs), Front(ds), Last(ds), back)
<1>1. Len(cs) \in Nat /\ Len(ds) \in Nat /\ Len(ds) <= Len(cs) /\ Len(ds) > 0
  BY EmptySeq, LenProperties DEF Chain
<1>2. cs # <<>>
  BY <1>1, EmptySeq
<1>3. /\ Last(ds) = FromTop(ds, 0) /\ Len(Front(ds)) = Len(ds) - 1
      /\ \A i \in 0..(Len(ds) - 2) : FromTop(Front(ds), i) = FromTop(ds, i + 1)
  BY TopOfFront
<1>4. /\ Last(cs) = FromTop(cs, 0) /\ Len(Front(cs)) = Len(cs) - 1
      /\ \A i \in 0..(Len(cs) - 2) : FromTop(Front(cs), i) = FromTop(cs, i + 1)
  BY <1>2, TopOfFront
<1>5. \A i \in 0..(Len(ds) - 1) :
         Linked(FromTop(cs, i), IF i = 0 THEN here ELSE FromTop(ds, i - 1), FromTop(ds, i), back)
  BY DEF Chain
<1>6. Linked(Last(cs), here, Last(ds), back)
  <2>1. 0 \in 0..(Len(ds) - 1)
    BY <1>1
  <2> QED
    BY <1>3, <1>4, <1>5, <2>1
<1> DEFINE cf == Front(cs)
           df == Front(ds)
<1>7. ASSUME NEW i \in 0..(Len(df) - 1)
      PROVE  Linked(FromTop(cf, i), IF i = 0 THEN Last(ds) ELSE FromTop(df, i - 1), FromTop(df, i), back)
  <2>1. i + 1 \in 0..(Len(ds) - 1) /\ i \in 0..(Len(ds) - 2) /\ i \in 0..(Len(cs) - 2) /\ i + 1 # 0
        /\ (i + 1) - 1 = i /\ (i # 0 => i - 1 \in 0..(Len(ds) - 2) /\ (i - 1) + 1 = i)
    BY <1>1, <1>3
  <2>2. FromTop(cf, i) = FromTop(cs, i + 1) /\ FromTop(df, i) = FromTop(ds, i + 1)
    BY <1>3, <1>4, <2>1
  <2>3. (IF i = 0 THEN Last(ds) ELSE FromTop(df, i - 1)) = FromTop(ds, i)
    <3>1. CASE i = 0
      BY <3>1, <1>3
    <3>2. CASE i # 0
      <4>1. FromTop(df, i - 1) = FromTop(ds, (i - 1) + 1)
        BY <1>3, <2>1, <3>2
      <4> QED
        BY <4>1, <2>1, <3>2
    <3> QED
      BY <3>1, <3>2
  <2>4. Linked(FromTop(cs, i + 1), FromTop(ds, i), FromTop(ds, i + 1), back)
    <3> DEFINE m == i + 1
    <3>1. m \in 0..(Len(ds) - 1) /\ m # 0 /\ m - 1 = i
      BY <2>1
    <3> HIDE DEF m
    <3>2. Linked(FromTop(cs, m), FromTop(ds, m - 1), FromTop(ds, m), back)
      BY <1>5, <3>1
    <3> QED
      BY <3>1, <3>2 DEF m
  <2> QED
    BY <2>2, <2>3, <2>4
<1>8. Chain(cf, df, Last(ds), back)
  <2>1. Len(df) <= Len(cf)
    BY <1>1, <1>3, <1>4
  <2> QED
    BY <2>1, <1>7 DEF Chain
<1> QED
  BY <1>2, <1>6, <1>8

\* A command that leads back to the document in place makes the chain longer.
LEMMA ChainPush ==
  ASSUME NEW C, NEW D, NEW cs \in Seq(C), NEW ds \in Seq(D), NEW here \in D, NEW back,
         Chain(cs, ds, here, back), NEW c \in C, NEW there, Linked(c, there, here, back)
  PROVE  Chain(Append(cs, c), Append(ds, here), there, back)
<1> DEFINE ca == Append(cs, c)
           da == Append(ds, here)
<1>1. Len(cs) \in Nat /\ Len(ds) \in Nat /\ Len(ds) <= Len(cs)
  BY LenProperties DEF Chain
<1>2. /\ Len(ca) = Len(cs) + 1 /\ FromTop(ca, 0) = c
      /\ \A i \in 0..(Len(cs) - 1) : FromTop(ca, i + 1) = FromTop(cs, i)
  BY TopOfAppend
<1>3. /\ Len(da) = Len(ds) + 1 /\ FromTop(da, 0) = here
      /\ \A i \in 0..(Len(ds) - 1) : FromTop(da, i + 1) = FromTop(ds, i)
  BY TopOfAppend
<1>4. \A i \in 0..(Len(ds) - 1) :
         Linked(FromTop(cs, i), IF i = 0 THEN here ELSE FromTop(ds, i - 1), FromTop(ds, i), back)
  BY DEF Chain
<1> HIDE DEF ca, da
<1>5. ASSUME NEW i \in 0..(Len(da) - 1)
      PROVE  Linked(FromTop(ca, i), IF i = 0 THEN there ELSE FromTop(da, i - 1), FromTop(da, i), back)
  <2>1. CASE i = 0
    BY <2>1, <1>2, <1>3
  <2>2. CASE i # 0
    <3> DEFINE m == i - 1
    <3>1. m \in 0..(Len(ds) - 1) /\ m \in 0..(Len(cs) - 1) /\ m + 1 = i
          /\ (m # 0 => m - 1 \in 0..(Len(ds) - 1) /\ (m - 1) + 1 = m)
      BY <2>2, <1>1, <1>3
    <3> HIDE DEF m
    <3>2. FromTop(ca, i) = FromTop(cs, m) /\ FromTop(da, i) = FromTop(ds, m)
      BY <1>2, <1>3, <3>1
    <3>3. FromTop(da, m) = IF m = 0 THEN here ELSE FromTop(ds, m - 1)
      <4>1. CASE m = 0
        BY <4>1, <1>3
      <4>2. CASE m # 0
        <5>1. FromTop(da, (m - 1) + 1) = FromTop(ds, m - 1)
          BY <4>2, <3>1, <1>3
        <5> QED
          BY <5>1, <4>2, <3>1
      <4> QED
        BY <4>1, <4>2
    <3>4. Linked(FromTop(cs, m), FromTop(da, m), FromTop(ds, m), back)
      BY <1>4, <3>1, <3>3
    <3> QED
      BY <2>2, <3>2, <3>4 DEF m
  <2> QED
    BY <2>1, <2>2
<1> QED
  BY <1>1, <1>2, <1>3, <1>5 DEF Chain, ca, da

\* The oldest command may go, with its document or when it had none.
LEMMA ChainTrim ==
  ASSUME NEW C, NEW D, NEW cs \in Seq(C), NEW ds \in Seq(D), NEW here, NEW back,
         Chain(cs, ds, here, back)
  PROVE  /\ Len(ds) > 0 => Chain(Tail(cs), Tail(ds), here, back)
         /\ Len(ds) < Len(cs) => Chain(Tail(cs), ds, here, back)
<1>1. Len(cs) \in Nat /\ Len(ds) \in Nat /\ Len(ds) <= Len(cs)
  BY LenProperties DEF Chain
<1>2. \A i \in 0..(Len(ds) - 1) :
         Linked(FromTop(cs, i), IF i = 0 THEN here ELSE FromTop(ds, i - 1), FromTop(ds, i), back)
  BY DEF Chain
<1>3. ASSUME Len(ds) > 0 PROVE Chain(Tail(cs), Tail(ds), here, back)
  <2> DEFINE ct == Tail(cs)
             dt == Tail(ds)
  <2>1. /\ Len(ct) = Len(cs) - 1 /\ \A i \in 0..(Len(cs) - 2) : FromTop(ct, i) = FromTop(cs, i)
        /\ Len(dt) = Len(ds) - 1 /\ \A i \in 0..(Len(ds) - 2) : FromTop(dt, i) = FromTop(ds, i)
    BY <1>1, <1>3, TopOfTail
  <2> HIDE DEF ct, dt
  <2>2. ASSUME NEW i \in 0..(Len(dt) - 1)
        PROVE  Linked(FromTop(ct, i), IF i = 0 THEN here ELSE FromTop(dt, i - 1), FromTop(dt, i), back)
    <3>1. i \in 0..(Len(ds) - 1) /\ i \in 0..(Len(ds) - 2) /\ i \in 0..(Len(cs) - 2)
          /\ (i # 0 => i - 1 \in 0..(Len(ds) - 2))
      BY <1>1, <2>1
    <3>2. FromTop(ct, i) = FromTop(cs, i) /\ FromTop(dt, i) = FromTop(ds, i)
          /\ (i # 0 => FromTop(dt, i - 1) = FromTop(ds, i - 1))
      BY <2>1, <3>1
    <3>3. Linked(FromTop(cs, i), IF i = 0 THEN here ELSE FromTop(ds, i - 1), FromTop(ds, i), back)
      BY <1>2, <3>1
    <3>4. CASE i = 0
      BY <3>2, <3>3, <3>4
    <3>5. CASE i # 0
      BY <3>2, <3>3, <3>5
    <3> QED
      BY <3>4, <3>5
  <2> QED
    BY <1>1, <2>1, <2>2 DEF Chain, ct, dt
<1>4. ASSUME Len(ds) < Len(cs) PROVE Chain(Tail(cs), ds, here, back)
  <2> DEFINE ct == Tail(cs)
  <2>1. Len(ct) = Len(cs) - 1 /\ \A i \in 0..(Len(cs) - 2) : FromTop(ct, i) = FromTop(cs, i)
    BY <1>1, <1>4, TopOfTail
  <2> HIDE DEF ct
  <2>2. ASSUME NEW i \in 0..(Len(ds) - 1)
        PROVE  Linked(FromTop(ct, i), IF i = 0 THEN here ELSE FromTop(ds, i - 1), FromTop(ds, i), back)
    <3>1. i \in 0..(Len(cs) - 2)
      BY <1>1, <1>4
    <3> QED
      BY <1>2, <2>1, <3>1
  <2> QED
    BY <1>1, <1>4, <2>1, <2>2 DEF Chain, ct
<1> QED
  BY <1>3, <1>4

\* What push_undo keeps on a stack.
LEMMA PushedFact ==
  ASSUME NEW S, NEW s \in Seq(S), NEW x \in S
  PROVE  /\ Pushed(s, x) \in Seq(S) /\ Pushed(s, x) # <<>>
         /\ \A j \in 1..Len(Pushed(s, x)) : Pushed(s, x)[j] = x \/ \E i \in 1..Len(s) : Pushed(s, x)[j] = s[i]
<1> DEFINE r == IF Len(s) >= MaxStack THEN Tail(s) ELSE s
           u == Append(r, x)
<1>1. Len(s) \in Nat /\ MaxStack \in Nat /\ MaxStack > 0
  BY LenProperties, ViewAssumption
<1>2. r \in Seq(S) /\ \A j \in 1..Len(r) : \E i \in 1..Len(s) : r[j] = s[i]
  <2>1. CASE Len(s) >= MaxStack
    <3>1. s # <<>>
      BY <2>1, <1>1, EmptySeq
    <3>2. Tail(s) \in Seq(S) /\ Len(Tail(s)) = Len(s) - 1 /\ \A j \in 1..Len(Tail(s)) : Tail(s)[j] = s[j + 1]
      BY <3>1, HeadTailProperties
    <3>3. r = Tail(s)
      BY <2>1
    <3> HIDE DEF r
    <3>4. ASSUME NEW j \in 1..Len(r) PROVE \E i \in 1..Len(s) : r[j] = s[i]
      <4>1. j + 1 \in 1..Len(s) /\ r[j] = s[j + 1]
        BY <1>1, <3>2, <3>3
      <4> QED
        BY <4>1
    <3> QED
      BY <3>2, <3>3, <3>4
  <2>2. CASE ~(Len(s) >= MaxStack)
    BY <2>2
  <2> QED
    BY <2>1, <2>2
<1> HIDE DEF r
<1>3. /\ u \in Seq(S) /\ u # <<>> /\ Len(u) = Len(r) + 1 /\ Len(r) \in Nat
      /\ \A j \in 1..Len(r) : u[j] = r[j]
      /\ u[Len(r) + 1] = x
  BY <1>2, AppendProperties, LenProperties
<1> HIDE DEF u
<1>4. ASSUME NEW j \in 1..Len(u) PROVE u[j] = x \/ \E i \in 1..Len(s) : u[j] = s[i]
  <2>1. j = Len(r) + 1 \/ j \in 1..Len(r)
    BY <1>3
  <2> QED
    BY <2>1, <1>2, <1>3
<1>5. Pushed(s, x) = u
  BY DEF Pushed, u, r
<1> QED
  BY <1>3, <1>4, <1>5

\* Recording a command keeps the chain, whichever of the two stacks is full.
LEMMA ChainPushed ==
  ASSUME NEW C, NEW D, NEW cs \in Seq(C), NEW ds \in Seq(D), NEW here \in D, NEW back,
         Chain(cs, ds, here, back), NEW c \in C, NEW there, Linked(c, there, here, back)
  PROVE  Chain(Pushed(cs, c), Pushed(ds, here), there, back)
<1>1. /\ Len(cs) \in Nat /\ Len(ds) \in Nat /\ Len(ds) <= Len(cs)
      /\ MaxStack \in Nat /\ MaxStack > 0
  BY LenProperties, ViewAssumption DEF Chain
<1>2. CASE Len(cs) < MaxStack
  <2>1. Pushed(cs, c) = Append(cs, c) /\ Pushed(ds, here) = Append(ds, here)
    BY <1>1, <1>2 DEF Pushed
  <2> QED
    BY <2>1, ChainPush
<1>3. CASE Len(cs) >= MaxStack /\ Len(ds) >= MaxStack
  <2>1. Pushed(cs, c) = Append(Tail(cs), c) /\ Pushed(ds, here) = Append(Tail(ds), here)
    BY <1>3 DEF Pushed
  <2>2. Len(cs) > 0 /\ Len(ds) > 0
    BY <1>1, <1>3
  <2>3. Tail(cs) \in Seq(C) /\ Tail(ds) \in Seq(D)
    BY <2>2, TopOfTail
  <2>4. Chain(Tail(cs), Tail(ds), here, back)
    BY <2>2, ChainTrim
  <2> QED
    BY <2>1, <2>3, <2>4, ChainPush
<1>4. CASE Len(cs) >= MaxStack /\ Len(ds) < MaxStack
  <2>1. Pushed(cs, c) = Append(Tail(cs), c) /\ Pushed(ds, here) = Append(ds, here)
    BY <1>1, <1>4 DEF Pushed
  <2>2. Len(cs) > 0 /\ Len(ds) < Len(cs)
    BY <1>1, <1>4
  <2>3. Tail(cs) \in Seq(C)
    BY <2>2, TopOfTail
  <2>4. Chain(Tail(cs), ds, here, back)
    BY <2>2, ChainTrim
  <2> QED
    BY <2>1, <2>3, <2>4, ChainPush
<1> QED
  BY <1>1, <1>2, <1>3, <1>4

-----------------------------------------------------------------------------
(* Documents.                                                               *)

\* A document whose layer l is replaced.
LEMMA DocAt ==
  ASSUME NEW d \in Document, NEW l \in 1..Len(d), NEW x \in Layer
  PROVE  LET e == [d EXCEPT ![l] = x]
         IN  /\ e \in Document /\ Len(e) = Len(d) /\ DOMAIN e = 1..Len(d) /\ e[l] = x
             /\ \A j \in 1..Len(d) : j # l => e[j] = d[j]
<1>1. Len(d) \in Nat /\ DOMAIN d = 1..Len(d) /\ d \in [1..Len(d) -> Layer] /\ d \in Seq(Layer)
  BY LenProperties DEF Document
<1> DEFINE e == [d EXCEPT ![l] = x]
<1>2. e \in Seq(Layer) /\ Len(e) = Len(d) /\ \A j \in 1..Len(d) : e[j] = IF j = l THEN x ELSE d[j]
  <2>1. e \in [1..Len(d) -> Layer] /\ \A j \in 1..Len(d) : e[j] = IF j = l THEN x ELSE d[j]
    BY <1>1
  <2> HIDE DEF e
  <2>2. e \in Seq(Layer) /\ Len(e) = Len(d)
    BY <2>1, <1>1, FunctionIsSeq
  <2> QED
    BY <2>1, <2>2
<1>3. DOMAIN e = 1..Len(d)
  BY <1>1
<1> HIDE DEF e
<1> QED
  BY <1>2, <1>3 DEF Document, e

\* Putting layer l back where only that one differs.
LEMMA DocBack ==
  ASSUME NEW d \in Document, NEW e \in Document, Len(e) = Len(d), NEW l \in 1..Len(d),
         \A j \in 1..Len(d) : j # l => e[j] = d[j]
  PROVE  [e EXCEPT ![l] = d[l]] = d
<1> DEFINE u == [e EXCEPT ![l] = d[l]]
<1>1. d[l] \in Layer /\ d \in Seq(Layer) /\ l \in 1..Len(e)
  BY LenProperties, ElementOfSeq DEF Document
<1>2. u \in Document /\ Len(u) = Len(d) /\ u[l] = d[l] /\ \A j \in 1..Len(d) : j # l => u[j] = e[j]
  BY <1>1, DocAt
<1> HIDE DEF u
<1>3. \A j \in 1..Len(u) : u[j] = d[j]
  BY <1>2
<1>4. u = d
  BY <1>1, <1>2, <1>3, SeqEqual DEF Document
<1> QED
  BY <1>4 DEF u

\* It is a document, without gaps if the new layer has none.
LEMMA DocPut ==
  ASSUME NEW d \in Document, NEW l \in 1..Len(d), NEW x \in Layer
  PROVE  /\ [d EXCEPT ![l] = x] \in Document
         /\ Gapless(d) /\ Chained(x) => Gapless([d EXCEPT ![l] = x])
<1> DEFINE e == [d EXCEPT ![l] = x]
<1>1. /\ e \in Document /\ DOMAIN e = 1..Len(d) /\ e[l] = x
      /\ \A j \in 1..Len(d) : j # l => e[j] = d[j]
  BY DocAt
<1>2. DOMAIN d = 1..Len(d)
  BY LenProperties DEF Document
<1> HIDE DEF e
<1>3. ASSUME Gapless(d), Chained(x), NEW j \in 1..Len(d)  PROVE Chained(e[j])
  <2>1. CASE j = l
    BY <1>1, <1>3, <2>1
  <2>2. CASE j # l
    BY <1>1, <1>2, <1>3, <2>2 DEF Gapless
  <2> QED
    BY <2>1, <2>2
<1>4. Gapless(d) /\ Chained(x) => Gapless(e)
  BY <1>1, <1>3 DEF Gapless
<1> QED
  BY <1>1, <1>4 DEF e

\* A layer of a document.
LEMMA DocSame ==
  ASSUME NEW d \in Document, NEW l \in 1..Len(d)
  PROVE  d[l] \in Layer /\ DOMAIN d = 1..Len(d) /\ Len(d) \in Nat
BY LenProperties, ElementOfSeq DEF Document

\* An addAnchor command takes back the anchor and puts it again.
LEMMA AddAnchorLeads ==
  ASSUME NEW after \in Document, NEW l \in 1..Len(after), NEW ly \in Layer, InOrder(ly),
         NEW t \in Times, CanAdd(ly, t),
         ly.instants => \A i \in 1..Len(ly.events) : ly.events[i].start # t,
         after[l] = AddAnchor(ly, t)
  PROVE  Leads([op |-> "addAnchor", l |-> l, t |-> t], [after EXCEPT ![l] = ly], after)
<1> DEFINE c == [op |-> "addAnchor", l |-> l, t |-> t]
           before == [after EXCEPT ![l] = ly]
<1>1. c.op = "addAnchor" /\ c.l = l /\ c.t = t
  OBVIOUS
<1>2. /\ before \in Document /\ Len(before) = Len(after) /\ before[l] = ly
      /\ \A j \in 1..Len(after) : j # l => before[j] = after[j]
      /\ Len(after) \in Nat
  BY DocAt, DocSame
<1>3. RemoveAnchor(after[l], t) = ly
  BY AddAnchorKeeps
<1> HIDE DEF c
<1>4. Undone(c, after) = before
  <2>1. Undone(c, after) = [after EXCEPT ![c.l] = RemoveAnchor(@, c.t)]
    BY <1>1 DEF Undone
  <2> QED
    BY <1>1, <1>3, <2>1
<1> HIDE DEF before
<1>5. Redone(c, before) = after
  <2>1. Redone(c, before) = [before EXCEPT ![c.l] = AddAnchor(@, c.t)]
    BY <1>1 DEF Redone
  <2>2. Redone(c, before) = [before EXCEPT ![l] = after[l]]
    BY <1>1, <1>2, <2>1
  <2>3. l \in 1..Len(before)
    BY <1>2
  <2> QED
    BY <1>2, <2>2, DocBack
<1>6. Undoable(c, after)
  BY <1>1, <1>2 DEF Undoable, LayerExists
<1>7. Redoable(c, before)
  BY <1>1, <1>2 DEF Redoable, LayerExists
<1>8. Saved(c, before) = c
  BY <1>1 DEF Saved
<1> QED
  BY <1>4, <1>5, <1>6, <1>7, <1>8 DEF Leads, c, before

\* What removeAnchor saves puts the layer back as it was.
LEMMA RestoredFact ==
  ASSUME NEW ly \in Layer, InOrder(ly), NEW t \in Times, CanRemove(ly, t),
         NEW c, c.t = t, c.instant = ly.instants, c.left = LeftText(ly, t), c.right = RightText(ly, t)
  PROVE  /\ CanAdd(RemoveAnchor(ly, t), t)
         /\ Restored(c, RemoveAnchor(ly, t)) = ly
         /\ LeftText(ly, t) \in Seq(Words) /\ RightText(ly, t) \in Seq(Words)
<1> DEFINE es == ly.events
           rm == RemoveAnchor(ly, t)
<1>1. ly.instants \in BOOLEAN
  BY LayerFact
<1>2. CASE ly.instants
  <2> DEFINE k == Min(StartingAt(es, t))
  <2>1. k \in 1..Len(es) /\ es[k].text \in Seq(Words)
    BY <1>2, InstantRestored
  <2>2. CanAdd(rm, t)
    BY <1>2, InstantRestored
  <2>3. SetTextAt(AddAnchor(rm, t), t, es[k].text) = ly
    BY <1>2, InstantRestored
  <2>4. LeftText(ly, t) = es[k].text /\ RightText(ly, t) = <<>>
    BY <1>2 DEF LeftText, RightText
  <2>5. Restored(c, rm) = SetTextAt(AddAnchor(rm, t), t, es[k].text)
    BY <1>2, <2>4 DEF Restored
  <2> QED
    BY <2>1, <2>2, <2>3, <2>4, <2>5, EmptySeq
<1>3. CASE ~ly.instants
  <2> DEFINE p == Min(EndingAt(es, t))
  <2>1. p \in 1..Len(es) /\ es[p].text \in Seq(Words) /\ es[p + 1].text \in Seq(Words)
    BY <1>3, AnchorRestored
  <2>2. CanAdd(rm, t)
    BY <1>3, AnchorRestored
  <2>3. RestoreTexts(AddAnchor(rm, t), t, es[p].text, es[p + 1].text) = ly
    BY <1>3, AnchorRestored
  <2>4. LeftText(ly, t) = es[p].text /\ RightText(ly, t) = es[p + 1].text
    BY <1>3 DEF LeftText, RightText
  <2>5. Restored(c, rm) = RestoreTexts(AddAnchor(rm, t), t, es[p].text, es[p + 1].text)
    BY <1>3, <2>4 DEF Restored
  <2> QED
    BY <2>1, <2>2, <2>3, <2>4, <2>5
<1> QED
  BY <1>1, <1>2, <1>3

\* The texts on both sides of an anchor that can be removed, in order or not.
LEMMA TextsType ==
  ASSUME NEW ly \in Layer, NEW t \in Times, CanRemove(ly, t)
  PROVE  LeftText(ly, t) \in Seq(Words) /\ RightText(ly, t) \in Seq(Words)
<1> DEFINE es == ly.events
           k  == FirstFrom(es, t)
<1>1. ly.instants \in BOOLEAN /\ es \in Seq(Event)
  BY LayerFact
<1>2. Len(es) \in Nat /\ DOMAIN es = 1..Len(es) /\ \A i \in 1..Len(es) : es[i].text \in Seq(Words)
  BY <1>1, EventsFact
<1>3. /\ k <= Len(es) /\ es[k].start = t
      /\ ly.instants \/ (k > 1 /\ es[k - 1].end = t)
  BY DEF CanRemove
<1>4. k \in 1..Len(es)
  <2>1. k \in 1..(Len(es) + 1)
    BY <1>1, FirstFromFact DEF Times
  <2> HIDE DEF k
  <2> QED
    BY <1>2, <1>3, <2>1
<1> HIDE DEF k
<1>5. CASE ly.instants
  <2> DEFINE S == StartingAt(es, t)
  <2>1. k \in S /\ S \subseteq 1..Len(es) /\ S \in SUBSET Nat
    BY <1>2, <1>3, <1>4 DEF StartingAt
  <2>2. LeftText(ly, t) = es[Min(S)].text /\ RightText(ly, t) = <<>>
    BY <1>5 DEF LeftText, RightText
  <2> HIDE DEF S
  <2>3. Min(S) \in 1..Len(es)
    BY <2>1, MinLeast
  <2> QED
    BY <1>2, <2>2, <2>3, EmptySeq
<1>6. CASE ~ly.instants
  <2> DEFINE S == EndingAt(es, t)
  <2>1. k - 1 \in 1..Len(es) /\ es[k - 1].end = t
    BY <1>2, <1>3, <1>4, <1>6
  <2>2. k - 1 \in S /\ S \subseteq 1..Len(es) /\ S \in SUBSET Nat
    BY <1>2, <2>1 DEF EndingAt
  <2>3. LeftText(ly, t) = es[Min(S)].text /\ RightText(ly, t) = es[Min(S) + 1].text
    BY <1>6 DEF LeftText, RightText
  <2> HIDE DEF S
  <2>4. Min(S) \in 1..Len(es) /\ Min(S) <= k - 1
    BY <2>2, MinLeast
  <2>5. Min(S) + 1 \in 1..Len(es)
    BY <1>2, <1>4, <2>4
  <2> QED
    BY <1>2, <2>3, <2>4, <2>5
<1> QED
  BY <1>1, <1>5, <1>6

\* A removeAnchor command puts the anchor and its texts back and removes it again.
LEMMA RemoveAnchorLeads ==
  ASSUME NEW after \in Document, NEW l \in 1..Len(after), NEW ly \in Layer, InOrder(ly),
         NEW t \in Times, CanRemove(ly, t), after[l] = RemoveAnchor(ly, t)
  PROVE  Leads([op |-> "removeAnchor", l |-> l, t |-> t, instant |-> ly.instants,
                left |-> LeftText(ly, t), right |-> RightText(ly, t)],
               [after EXCEPT ![l] = ly], after)
<1> DEFINE c == [op |-> "removeAnchor", l |-> l, t |-> t, instant |-> ly.instants,
                 left |-> LeftText(ly, t), right |-> RightText(ly, t)]
           before == [after EXCEPT ![l] = ly]
<1>1. /\ c.op = "removeAnchor" /\ c.l = l /\ c.t = t /\ c.instant = ly.instants
      /\ c.left = LeftText(ly, t) /\ c.right = RightText(ly, t)
  OBVIOUS
<1>2. /\ before \in Document /\ Len(before) = Len(after) /\ before[l] = ly
      /\ \A j \in 1..Len(after) : j # l => before[j] = after[j]
      /\ Len(after) \in Nat
  BY DocAt, DocSame
<1> HIDE DEF c
<1>3. CanAdd(after[l], t) /\ Restored(c, after[l]) = ly
  BY <1>1, RestoredFact
<1>4. Undone(c, after) = before
  <2>1. Undone(c, after) = [after EXCEPT ![c.l] = Restored(c, @)]
    BY <1>1 DEF Undone
  <2> QED
    BY <1>1, <1>3, <2>1
<1> HIDE DEF before
<1>5. Redone(c, before) = after
  <2>1. Redone(c, before) = [before EXCEPT ![c.l] = RemoveAnchor(@, c.t)]
    BY <1>1 DEF Redone
  <2>2. Redone(c, before) = [before EXCEPT ![l] = after[l]]
    BY <1>1, <1>2, <2>1
  <2>3. l \in 1..Len(before)
    BY <1>2
  <2> QED
    BY <1>2, <2>2, DocBack
<1>6. Undoable(c, after)
  BY <1>1, <1>2, <1>3 DEF Undoable, LayerExists
<1>7. Redoable(c, before)
  BY <1>1, <1>2 DEF Redoable, LayerExists
<1>8. Saved(c, before) = c
  BY <1>1 DEF Saved
<1> QED
  BY <1>4, <1>5, <1>6, <1>7, <1>8 DEF Leads, c, before

\* A move command takes the anchor back and forth.
LEMMA MoveLeads ==
  ASSUME NEW after \in Document, NEW l \in 1..Len(after), NEW ly \in Layer,
         NEW from, NEW to,
         after[l] = MoveAnchor(ly, from, to), MoveAnchor(after[l], to, from) = ly
  PROVE  Leads([op |-> "move", l |-> l, from |-> from, to |-> to], [after EXCEPT ![l] = ly], after)
<1> DEFINE c == [op |-> "move", l |-> l, from |-> from, to |-> to]
           before == [after EXCEPT ![l] = ly]
<1>1. c.op = "move" /\ c.l = l /\ c.from = from /\ c.to = to
  OBVIOUS
<1>2. /\ before \in Document /\ Len(before) = Len(after) /\ before[l] = ly
      /\ \A j \in 1..Len(after) : j # l => before[j] = after[j]
      /\ Len(after) \in Nat
  BY DocAt, DocSame
<1> HIDE DEF c
<1>4. Undone(c, after) = before
  <2>1. Undone(c, after) = [after EXCEPT ![c.l] = MoveAnchor(@, c.to, c.from)]
    BY <1>1 DEF Undone
  <2> QED
    BY <1>1, <2>1
<1> HIDE DEF before
<1>5. Redone(c, before) = after
  <2>1. Redone(c, before) = [before EXCEPT ![c.l] = MoveAnchor(@, c.from, c.to)]
    BY <1>1 DEF Redone
  <2>2. Redone(c, before) = [before EXCEPT ![l] = after[l]]
    BY <1>1, <1>2, <2>1
  <2>3. l \in 1..Len(before)
    BY <1>2
  <2> QED
    BY <1>2, <2>2, DocBack
<1>6. Undoable(c, after)
  BY <1>1, <1>2 DEF Undoable, LayerExists
<1>7. Redoable(c, before)
  BY <1>1, <1>2 DEF Redoable, LayerExists
<1>8. Saved(c, before) = c
  BY <1>1 DEF Saved
<1> QED
  BY <1>4, <1>5, <1>6, <1>7, <1>8 DEF Leads, c, before

\* A text command sets the old text and the new one again.
LEMMA TextLeads ==
  ASSUME NEW before \in Document, NEW l \in 1..Len(before), NEW k \in 1..Len(before[l].events),
         NEW text \in Seq(Words)
  PROVE  Leads([op |-> "text", l |-> l, e |-> k, old |-> before[l].events[k].text, new |-> text],
               before, [before EXCEPT ![l] = SetText(before[l], k, text)])
<1> DEFINE c == [op |-> "text", l |-> l, e |-> k, old |-> before[l].events[k].text, new |-> text]
           x == SetText(before[l], k, text)
           after == [before EXCEPT ![l] = x]
<1>1. c.op = "text" /\ c.l = l /\ c.e = k /\ c.old = before[l].events[k].text /\ c.new = text
  OBVIOUS
<1>2. before[l] \in Layer
  BY DocSame
<1>3. x \in Layer /\ Len(x.events) = Len(before[l].events) /\ SetText(x, k, before[l].events[k].text) = before[l]
  BY <1>2, SetTextFact
<1> HIDE DEF c, x
<1>4. /\ after \in Document /\ Len(after) = Len(before) /\ after[l] = x
      /\ \A j \in 1..Len(before) : j # l => after[j] = before[j]
      /\ Len(before) \in Nat
  BY <1>3, DocAt, DocSame
<1>5. Redone(c, before) = after
  <2>1. Redone(c, before) = [before EXCEPT ![c.l] = SetText(@, c.e, c.new)]
    BY <1>1 DEF Redone
  <2> QED
    BY <1>1, <2>1 DEF x
<1> HIDE DEF after
<1>6. Undone(c, after) = before
  <2>1. Undone(c, after) = [after EXCEPT ![c.l] = SetText(@, c.e, c.old)]
    BY <1>1 DEF Undone
  <2>2. Undone(c, after) = [after EXCEPT ![l] = before[l]]
    BY <1>1, <1>3, <1>4, <2>1
  <2> QED
    BY <1>4, <2>2, DocBack
<1>7. k <= Len(before[l].events)
  <2>1. Len(before[l].events) \in Nat
    BY <1>2, LayerFact, EventsFact
  <2> QED
    BY <2>1
<1>8. Undoable(c, after)
  BY <1>1, <1>3, <1>4, <1>7 DEF Undoable, LayerExists
<1>9. Redoable(c, before)
  BY <1>1, <1>4, <1>7 DEF Redoable, LayerExists
<1>10. Saved(c, before) = c
  BY <1>1 DEF Saved
<1> QED
  BY <1>5, <1>6, <1>8, <1>9, <1>10 DEF Leads, c, after, x

\* A rename command sets the old label and the new one again.
LEMMA RenameLeads ==
  ASSUME NEW before \in Document, NEW l \in 1..Len(before), NEW label \in Labels
  PROVE  Leads([op |-> "rename", l |-> l, old |-> before[l].label, new |-> label],
               before, [before EXCEPT ![l].label = label])
<1> DEFINE c == [op |-> "rename", l |-> l, old |-> before[l].label, new |-> label]
           x == [before[l] EXCEPT !.label = label]
           after == [before EXCEPT ![l] = x]
<1>1. c.op = "rename" /\ c.l = l /\ c.old = before[l].label /\ c.new = label
  OBVIOUS
<1>2. before[l] \in Layer
  BY DocSame
<1>3. x \in Layer /\ [x EXCEPT !.label = before[l].label] = before[l]
  BY <1>2 DEF Layer
<1> HIDE DEF c, x
<1>4. /\ after \in Document /\ Len(after) = Len(before) /\ after[l] = x
      /\ \A j \in 1..Len(before) : j # l => after[j] = before[j]
      /\ Len(before) \in Nat
  BY <1>3, DocAt, DocSame
<1>5. after = [before EXCEPT ![l].label = label]
  BY DEF x
<1>6. Redone(c, before) = after
  <2>1. Redone(c, before) = [before EXCEPT ![c.l].label = c.new]
    BY <1>1 DEF Redone
  <2> QED
    BY <1>1, <1>5, <2>1
<1> HIDE DEF after
<1>7. Undone(c, after) = before
  <2>1. Undone(c, after) = [after EXCEPT ![c.l].label = c.old]
    BY <1>1 DEF Undone
  <2>2. Undone(c, after) = [after EXCEPT ![l] = [x EXCEPT !.label = before[l].label]]
    BY <1>1, <1>4, <2>1
  <2>3. Undone(c, after) = [after EXCEPT ![l] = before[l]]
    BY <1>3, <2>2
  <2> QED
    BY <1>4, <2>3, DocBack
<1>8. Undoable(c, after)
  BY <1>1, <1>4 DEF Undoable, LayerExists
<1>9. Redoable(c, before)
  BY <1>1, <1>4 DEF Redoable, LayerExists
<1>10. Saved(c, before) = c
  BY <1>1 DEF Saved
<1>11. Leads(c, before, after)
  BY <1>6, <1>7, <1>8, <1>9, <1>10 DEF Leads
<1> QED
  BY <1>5, <1>11 DEF c

\* Inserting one past the end is appending.
LEMMA AppendIsInsert ==
  ASSUME NEW S, NEW s \in Seq(S), NEW x \in S
  PROVE  Append(s, x) = InsertAt(s, Len(s) + 1, x)
<1> DEFINE u == InsertAt(s, Len(s) + 1, x)
           v == Append(s, x)
<1>1. Len(s) \in Nat /\ Len(s) + 1 \in 1..(Len(s) + 1)
  BY LenProperties
<1>2. /\ u \in Seq(S) /\ Len(u) = Len(s) + 1
      /\ \A j \in 1..(Len(s) + 1) :
            u[j] = IF j < Len(s) + 1 THEN s[j] ELSE IF j = Len(s) + 1 THEN x ELSE s[j - 1]
  <2> DEFINE m == Len(s) + 1
             z == InsertAt(s, m, x)
  <2>1. m \in 1..(Len(s) + 1)
    BY <1>1
  <2> HIDE DEF m
  <2>2. z \in Seq(S) /\ Len(z) = Len(s) + 1
    BY <2>1, InsertAtFact
  <2>3. ASSUME NEW j \in 1..(Len(s) + 1)
        PROVE  z[j] = IF j < m THEN s[j] ELSE IF j = m THEN x ELSE s[j - 1]
    BY <2>1, InsertAtFact
  <2> HIDE DEF z
  <2>4. u = z
    BY DEF z, m
  <2> HIDE DEF u
  <2> QED
    BY <2>2, <2>3, <2>4 DEF m
<1>3. /\ v \in Seq(S) /\ Len(v) = Len(s) + 1 /\ \A j \in 1..Len(s) : v[j] = s[j]
      /\ v[Len(s) + 1] = x
  BY AppendProperties
<1> HIDE DEF u, v
<1>4. ASSUME NEW j \in 1..(Len(s) + 1) PROVE v[j] = u[j]
  <2>1. CASE j = Len(s) + 1
    BY <1>1, <1>2, <1>3, <2>1
  <2>2. CASE j # Len(s) + 1
    <3>1. j \in 1..Len(s) /\ j < Len(s) + 1
      BY <1>1, <2>2
    <3> QED
      BY <1>2, <1>3, <3>1
  <2> QED
    BY <2>1, <2>2
<1>5. v = u
  <2>1. \A j \in 1..Len(v) : v[j] = u[j]
    BY <1>3, <1>4
  <2> QED
    BY <1>2, <1>3, <2>1, SeqEqual
<1> QED
  BY <1>5 DEF u, v

\* A layer that is created, wherever, leaves the others alone.
LEMMA InsertedFact ==
  ASSUME NEW d \in Document, NEW l \in Nat \ {0}, NEW ly \in Layer
  PROVE  /\ Inserted(d, l, ly) \in Document
         /\ Len(Inserted(d, l, ly)) = Len(d) + 1
         /\ Ordered(d) /\ InOrder(ly) => Ordered(Inserted(d, l, ly))
         /\ Gapless(d) /\ Chained(ly) => Gapless(Inserted(d, l, ly))
         /\ l <= Len(d) + 1 => /\ Inserted(d, l, ly) = InsertAt(d, l, ly)
                               /\ RemoveAt(Inserted(d, l, ly), l) = d
<1> DEFINE n == Len(d)
           m == IF l > n THEN n + 1 ELSE l
           u == Inserted(d, l, ly)
<1>1. n \in Nat /\ d \in Seq(Layer) /\ DOMAIN d = 1..n
  BY DocSame, LenProperties DEF Document
<1>2. m \in 1..(n + 1) /\ (l <= n + 1 => m = l)
  BY <1>1
<1>3. u = InsertAt(d, m, ly)
  <2>1. CASE l > n
    <3>1. u = Append(d, ly) /\ m = n + 1
      BY <2>1 DEF Inserted
    <3> QED
      BY <3>1, <1>1, AppendIsInsert
  <2>2. CASE ~(l > n)
    BY <2>2 DEF Inserted
  <2> QED
    BY <2>1, <2>2
<1> HIDE DEF m
<1>4. /\ u \in Seq(Layer) /\ Len(u) = n + 1
      /\ \A j \in 1..(n + 1) : u[j] = IF j < m THEN d[j] ELSE IF j = m THEN ly ELSE d[j - 1]
  BY <1>1, <1>2, <1>3, InsertAtFact
<1>5. RemoveAt(InsertAt(d, m, ly), m) = d
  BY <1>1, <1>2, RemoveInserted
<1>6. DOMAIN u = 1..(n + 1)
  BY <1>4, LenProperties
<1> HIDE DEF u
<1>7. \A j \in 1..(n + 1) : u[j] = ly \/ \E i \in 1..n : u[j] = d[i]
  <2> SUFFICES ASSUME NEW j \in 1..(n + 1) PROVE u[j] = ly \/ \E i \in 1..n : u[j] = d[i]
    OBVIOUS
  <2>3. CASE j < m
    <3>1. u[j] = d[j] /\ j \in 1..n
      BY <1>1, <1>2, <1>4, <2>3
    <3> QED
      BY <3>1
  <2>4. CASE j = m
    BY <1>2, <1>4, <2>4
  <2>5. CASE j > m
    <3>1. j - 1 \in 1..n
      BY <1>1, <1>2, <2>5
    <3>2. u[j] = d[j - 1]
      BY <1>2, <1>4, <2>5
    <3> QED
      BY <3>1, <3>2
  <2> QED
    BY <1>2, <2>3, <2>4, <2>5
<1>8. Ordered(d) /\ InOrder(ly) => Ordered(u)
  BY <1>1, <1>6, <1>7, Zenon DEF Ordered
<1>9. Gapless(d) /\ Chained(ly) => Gapless(u)
  BY <1>1, <1>6, <1>7, Zenon DEF Gapless
<1> QED
  BY <1>2, <1>3, <1>4, <1>5, <1>8, <1>9 DEF Document, u

\* A layer that is removed leaves the others alone.
LEMMA RemovedFact ==
  ASSUME NEW d \in Document, NEW l \in 1..Len(d)
  PROVE  /\ RemoveAt(d, l) \in Document /\ Len(RemoveAt(d, l)) = Len(d) - 1
         /\ Ordered(d) => Ordered(RemoveAt(d, l))
         /\ Gapless(d) => Gapless(RemoveAt(d, l))
<1> DEFINE n == Len(d)
           u == RemoveAt(d, l)
<1>1. n \in Nat /\ d \in Seq(Layer) /\ DOMAIN d = 1..n
  BY DocSame, LenProperties, SMTT(30) DEF Document
<1>2. /\ u \in Seq(Layer) /\ Len(u) = n - 1
      /\ \A j \in 1..(n - 1) : u[j] = IF j < l THEN d[j] ELSE d[j + 1]
  BY <1>1, RemoveAtFact
<1> HIDE DEF u
<1>3. DOMAIN u = 1..(n - 1)
  BY <1>2, LenProperties
<1>4. \A j \in 1..(n - 1) : \E i \in 1..n : u[j] = d[i]
  <2> TAKE j \in 1..(n - 1)
  <2>3. j \in 1..n /\ j + 1 \in 1..n
    BY <1>1
  <2>4. u[j] = d[j] \/ u[j] = d[j + 1]
    BY <1>2
  <2> QED
    BY <2>3, <2>4
<1>5. Ordered(d) => Ordered(u)
  BY <1>1, <1>3, <1>4, Zenon DEF Ordered
<1>6. Gapless(d) => Gapless(u)
  BY <1>1, <1>3, <1>4, Zenon DEF Gapless
<1> QED
  BY <1>2, <1>5, <1>6 DEF Document, u

\* A layer with another label is the same layer.
LEMMA Relabelled ==
  ASSUME NEW ly \in Layer, NEW label \in Labels
  PROVE  LET x == [ly EXCEPT !.label = label]
         IN  x \in Layer /\ (InOrder(ly) => InOrder(x)) /\ (Chained(ly) => Chained(x))
<1> DEFINE x == [ly EXCEPT !.label = label]
<1>1. x \in Layer /\ x.instants = ly.instants /\ x.events = ly.events
  BY DEF Layer
<1> HIDE DEF x
<1>2. (InOrder(ly) => InOrder(x)) /\ (Chained(ly) => Chained(x))
  BY <1>1 DEF InOrder, Chained
<1> QED
  BY <1>1, <1>2 DEF x

\* Removing layer l forgets whatever was there.
LEMMA RemoveReplaced ==
  ASSUME NEW d \in Document, NEW l \in 1..Len(d), NEW x \in Layer
  PROVE  RemoveAt([d EXCEPT ![l] = x], l) = RemoveAt(d, l)
<1> DEFINE n == Len(d)
           e == [d EXCEPT ![l] = x]
           u == RemoveAt(d, l)
           v == RemoveAt(e, l)
<1>1. n \in Nat /\ d \in Seq(Layer) /\ DOMAIN d = 1..n
  BY DocSame, LenProperties DEF Document
<1>2. e \in Seq(Layer) /\ Len(e) = n /\ \A j \in 1..n : j # l => e[j] = d[j]
  BY DocAt, SMTT(30) DEF Document
<1>3. /\ u \in Seq(Layer) /\ Len(u) = n - 1
      /\ \A j \in 1..(n - 1) : u[j] = IF j < l THEN d[j] ELSE d[j + 1]
  BY <1>1, RemoveAtFact
<1> HIDE DEF e
<1>4. /\ v \in Seq(Layer) /\ Len(v) = n - 1
      /\ \A j \in 1..(n - 1) : v[j] = IF j < l THEN e[j] ELSE e[j + 1]
  <2>1. l \in 1..Len(e)
    BY <1>2
  <2> QED
    BY <1>2, <2>1, RemoveAtFact
<1> HIDE DEF u, v
<1>5. ASSUME NEW j \in 1..(n - 1) PROVE v[j] = u[j]
  <2>1. j \in 1..n /\ j + 1 \in 1..n
    BY <1>1
  <2>2. CASE j < l
    BY <1>2, <1>3, <1>4, <2>1, <2>2
  <2>3. CASE ~(j < l)
    <3>1. j + 1 # l
      BY <2>3, <1>1
    <3>2. v[j] = e[j + 1] /\ u[j] = d[j + 1]
      BY <1>3, <1>4, <2>3
    <3> QED
      BY <1>2, <2>1, <3>1, <3>2
  <2> QED
    BY <2>2, <2>3
<1>6. v = u
  <2>1. \A j \in 1..Len(v) : v[j] = u[j]
    BY <1>4, <1>5
  <2> QED
    BY <1>3, <1>4, <2>1, SeqEqual
<1> QED
  BY <1>6 DEF u, v, e

\* An addLayer command removes the layer it created and creates it again.
LEMMA AddLayerLeads ==
  ASSUME NEW before \in Document, NEW l \in 1..(Len(before) + 1),
         NEW label \in Labels, NEW instants \in BOOLEAN
  PROVE  LET c == [op |-> "addLayer", l |-> l, label |-> label, instants |-> instants]
         IN  /\ Leads(c, before, Redone(c, before))
             /\ Redone(c, before) = Inserted(before, l, NewLayer(label, instants))
<1> DEFINE c == [op |-> "addLayer", l |-> l, label |-> label, instants |-> instants]
           ly == NewLayer(label, instants)
           after == Inserted(before, l, ly)
<1>1. c.op = "addLayer" /\ c.l = l /\ c.label = label /\ c.instants = instants
  OBVIOUS
<1>2. ly \in Layer
  BY NewLayerFact
<1>3. Len(before) \in Nat /\ l \in Nat \ {0} /\ l <= Len(before) + 1
  BY DocSame, LenProperties DEF Document
<1> HIDE DEF c, ly
<1>4. after \in Document /\ Len(after) = Len(before) + 1 /\ RemoveAt(after, l) = before
  BY <1>2, <1>3, InsertedFact
<1>5. Redone(c, before) = after
  BY <1>1 DEF Redone, ly
<1> HIDE DEF after
<1>6. Undone(c, after) = before
  BY <1>1, <1>4 DEF Undone
<1>7. Undoable(c, after)
  BY <1>1, <1>3, <1>4 DEF Undoable, LayerExists
<1>8. Redoable(c, before)
  BY <1>1 DEF Redoable
<1>9. Saved(c, before) = c
  BY <1>1 DEF Saved
<1>10. Leads(c, before, after)
  BY <1>5, <1>6, <1>7, <1>8, <1>9 DEF Leads
<1> QED
  BY <1>5, <1>10 DEF c, after, ly

\* A removeLayer command puts an empty layer back and removes it again: that is
\* the document it promises, with the layer new.
LEMMA RemoveLayerLeads ==
  ASSUME NEW d \in Document, NEW l \in 1..Len(d)
  PROVE  LET c == [op |-> "removeLayer", l |-> l, label |-> d[l].label, instants |-> d[l].instants]
         IN  /\ Leads(c, [d EXCEPT ![l] = NewLayer(c.label, c.instants)], Redone(c, d))
             /\ Redone(c, d) = RemoveAt(d, l)
<1> DEFINE c == [op |-> "removeLayer", l |-> l, label |-> d[l].label, instants |-> d[l].instants]
           ly == NewLayer(c.label, c.instants)
           before == [d EXCEPT ![l] = ly]
           after == RemoveAt(d, l)
<1>1. /\ c.op = "removeLayer" /\ c.l = l /\ c.label = d[l].label /\ c.instants = d[l].instants
      /\ c = [op |-> "removeLayer", l |-> l, label |-> c.label, instants |-> c.instants]
  OBVIOUS
<1>2. /\ d[l] \in Layer /\ DOMAIN d = 1..Len(d) /\ Len(d) \in Nat /\ d \in Seq(Layer)
      /\ l \in Nat \ {0}
  BY DocSame DEF Document
<1>3. d[l].label \in Labels /\ d[l].instants \in BOOLEAN
  BY <1>2, LayerFact
<1> HIDE DEF c
<1>4. ly \in Layer /\ ly.label = c.label /\ ly.instants = c.instants
  BY <1>1, <1>3, NewLayerFact
<1> HIDE DEF ly
<1>5. /\ before \in Document /\ Len(before) = Len(d) /\ before[l] = ly
  BY <1>4, DocAt
<1>6. after \in Document /\ Len(after) = Len(d) - 1
  BY RemovedFact
<1>7. Redone(c, d) = after
  BY <1>1 DEF Redone
<1>8. Redone(c, before) = after
  <2>1. Redone(c, before) = RemoveAt(before, l)
    BY <1>1 DEF Redone
  <2> QED
    BY <1>4, <2>1, RemoveReplaced
<1>9. Undone(c, after) = before
  <2>1. Undone(c, after) = Inserted(after, l, ly)
    BY <1>1 DEF Undone, ly
  <2>2. l <= Len(after) + 1
    BY <1>2, <1>6
  <2> HIDE DEF after
  <2>3. Inserted(after, l, ly) = InsertAt(after, l, ly)
    BY <1>2, <1>4, <1>6, <2>2, InsertedFact
  <2>4. InsertAt(RemoveAt(d, l), l, ly) = before
    BY <1>2, <1>4, InsertRemoved
  <2> QED
    BY <2>1, <2>3, <2>4 DEF after
<1> HIDE DEF after, before
<1>10. Undoable(c, after)
  BY <1>1 DEF Undoable
<1>11. Redoable(c, before)
  BY <1>1, <1>2, <1>5 DEF Redoable, LayerExists
<1>12. Saved(c, before) = c
  <2>1. Saved(c, before) = [c EXCEPT !.label = c.label, !.instants = c.instants]
    BY <1>1, <1>4, <1>5 DEF Saved
  <2> QED
    BY <2>1, <1>1
<1>13. Leads(c, before, after)
  BY <1>8, <1>9, <1>10, <1>11, <1>12 DEF Leads
<1> QED
  BY <1>7, <1>13 DEF c, before, after, ly

-----------------------------------------------------------------------------
(* Types.                                                                   *)

\* What each command stores.
LEMMA CommandFact ==
  ASSUME NEW c \in Command
  PROVE  /\ c.l \in Nat \ {0}
         /\ c.op \in {"addLayer", "removeLayer", "addAnchor", "removeAnchor", "move", "text", "rename"}
         /\ c.op \in {"addLayer", "removeLayer"} =>
               /\ c.label \in Labels /\ c.instants \in BOOLEAN
               /\ c = [op |-> c.op, l |-> c.l, label |-> c.label, instants |-> c.instants]
         /\ c.op = "addAnchor" => c.t \in Times
         /\ c.op = "removeAnchor" => /\ c.t \in Times /\ c.instant \in BOOLEAN
                                     /\ c.left \in Seq(Words) /\ c.right \in Seq(Words)
         /\ c.op = "move" => c.from \in Times /\ c.to \in Times
         /\ c.op = "text" => c.e \in Nat \ {0} /\ c.old \in Seq(Words) /\ c.new \in Seq(Words)
         /\ c.op = "rename" => c.old \in Labels /\ c.new \in Labels
<1>1. CASE c \in [op : {"addLayer", "removeLayer"}, l : Nat \ {0}, label : Labels, instants : BOOLEAN]
  BY <1>1
<1>2. CASE c \in [op : {"addAnchor"}, l : Nat \ {0}, t : Times]
  BY <1>2
<1>3. CASE c \in [op : {"removeAnchor"}, l : Nat \ {0}, t : Times, instant : BOOLEAN,
                  left : Seq(Words), right : Seq(Words)]
  BY <1>3
<1>4. CASE c \in [op : {"move"}, l : Nat \ {0}, from : Times, to : Times]
  BY <1>4
<1>5. CASE c \in [op : {"text"}, l : Nat \ {0}, e : Nat \ {0}, old : Seq(Words), new : Seq(Words)]
  BY <1>5
<1>6. CASE c \in [op : {"rename"}, l : Nat \ {0}, old : Labels, new : Labels]
  BY <1>6
<1> QED
  BY <1>1, <1>2, <1>3, <1>4, <1>5, <1>6 DEF Command

\* Undoing a command that can be undone gives a document, without a gap if it had none.
LEMMA UndoneType ==
  ASSUME NEW c \in Command, NEW d \in Document, Gapless(d), Undoable(c, d)
  PROVE  Undone(c, d) \in Document /\ Gapless(Undone(c, d))
<1> USE CommandFact
<1>1. Len(d) \in Nat
  BY DocSame, LenProperties DEF Document
<1>2. CASE c.op = "removeLayer"
  <2>1. Undone(c, d) = Inserted(d, c.l, NewLayer(c.label, c.instants))
    BY <1>2 DEF Undone
  <2>2. NewLayer(c.label, c.instants) \in Layer /\ Chained(NewLayer(c.label, c.instants))
    BY <1>2, NewLayerFact, OrderChained
  <2> QED
    BY <2>1, <2>2, InsertedFact
<1>3. ASSUME c.op # "removeLayer" PROVE c.l \in 1..Len(d) /\ d[c.l] \in Layer /\ Chained(d[c.l])
  <2>1. LayerExists(c, d)
    BY <1>3 DEF Undoable
  <2>2. c.l \in 1..Len(d)
    BY <1>1, <2>1 DEF LayerExists
  <2> QED
    BY <2>2, DocSame DEF Gapless
<1>4. CASE c.op = "addLayer"
  <2>1. Undone(c, d) = RemoveAt(d, c.l)
    BY <1>4 DEF Undone
  <2> QED
    BY <1>3, <1>4, <2>1, RemovedFact
<1>5. CASE c.op = "addAnchor"
  <2>1. Undone(c, d) = [d EXCEPT ![c.l] = RemoveAnchor(d[c.l], c.t)]
    BY <1>5 DEF Undone
  <2>2. RemoveAnchor(d[c.l], c.t) \in Layer /\ Chained(RemoveAnchor(d[c.l], c.t))
    BY <1>3, <1>5, RemoveAnchorType
  <2> DEFINE x == RemoveAnchor(d[c.l], c.t)
             l == c.l
  <2> HIDE DEF x, l
  <2>8. l \in 1..Len(d) /\ x \in Layer /\ Chained(x)
    BY <1>3, <1>5, <2>2 DEF x, l
  <2>9. [d EXCEPT ![l] = x] \in Document /\ Gapless([d EXCEPT ![l] = x])
    BY ONLY <2>8, DocPut, d \in Document, Gapless(d)
  <2> QED
    BY <1>5, <2>1, <2>9 DEF x, l
<1>6. CASE c.op = "removeAnchor"
  <2>1. Undone(c, d) = [d EXCEPT ![c.l] = Restored(c, d[c.l])]
    BY <1>6 DEF Undone
  <2>2. CanAdd(d[c.l], c.t)
    BY <1>6 DEF Undoable
  <2>3. AddAnchor(d[c.l], c.t) \in Layer /\ Chained(AddAnchor(d[c.l], c.t))
    BY <1>3, <1>6, <2>2, AddAnchorType
  <2>4. Restored(c, d[c.l]) \in Layer /\ Chained(Restored(c, d[c.l]))
    <3>1. CASE c.instant
      <4>1. Restored(c, d[c.l]) = SetTextAt(AddAnchor(d[c.l], c.t), c.t, c.left)
        BY <3>1 DEF Restored
      <4> QED
        BY <1>6, <2>3, <4>1, SetTextAtType
    <3>2. CASE ~c.instant
      <4>1. Restored(c, d[c.l]) = RestoreTexts(AddAnchor(d[c.l], c.t), c.t, c.left, c.right)
        BY <3>2 DEF Restored
      <4> QED
        BY <1>6, <2>3, <4>1, RestoreTextsType
    <3> QED
      BY <3>1, <3>2
  <2> DEFINE x == Restored(c, d[c.l])
             l == c.l
  <2> HIDE DEF x, l
  <2>8. l \in 1..Len(d) /\ x \in Layer /\ Chained(x)
    BY <1>3, <1>6, <2>4 DEF x, l
  <2>9. [d EXCEPT ![l] = x] \in Document /\ Gapless([d EXCEPT ![l] = x])
    BY ONLY <2>8, DocPut, d \in Document, Gapless(d)
  <2> QED
    BY <1>6, <2>1, <2>9 DEF x, l
<1>7. CASE c.op = "move"
  <2>1. Undone(c, d) = [d EXCEPT ![c.l] = MoveAnchor(d[c.l], c.to, c.from)]
    BY <1>7 DEF Undone
  <2>2. MoveAnchor(d[c.l], c.to, c.from) \in Layer /\ Chained(MoveAnchor(d[c.l], c.to, c.from))
    BY <1>3, <1>7, MoveAnchorType
  <2> DEFINE x == MoveAnchor(d[c.l], c.to, c.from)
             l == c.l
  <2> HIDE DEF x, l
  <2>8. l \in 1..Len(d) /\ x \in Layer /\ Chained(x)
    BY <1>3, <1>7, <2>2 DEF x, l
  <2>9. [d EXCEPT ![l] = x] \in Document /\ Gapless([d EXCEPT ![l] = x])
    BY ONLY <2>8, DocPut, d \in Document, Gapless(d)
  <2> QED
    BY <1>7, <2>1, <2>9 DEF x, l
<1>8. CASE c.op = "text"
  <2>1. Undone(c, d) = [d EXCEPT ![c.l] = SetText(d[c.l], c.e, c.old)]
    BY <1>8 DEF Undone
  <2>2. c.e <= Len(d[c.l].events) /\ Len(d[c.l].events) \in Nat
    BY <1>3, <1>8, LayerFact, EventsFact DEF Undoable
  <2>3. SetText(d[c.l], c.e, c.old) \in Layer /\ Chained(SetText(d[c.l], c.e, c.old))
    BY <1>3, <1>8, <2>2, SetTextFact
  <2> DEFINE x == SetText(d[c.l], c.e, c.old)
             l == c.l
  <2> HIDE DEF x, l
  <2>8. l \in 1..Len(d) /\ x \in Layer /\ Chained(x)
    BY <1>3, <1>8, <2>3 DEF x, l
  <2>9. [d EXCEPT ![l] = x] \in Document /\ Gapless([d EXCEPT ![l] = x])
    BY ONLY <2>8, DocPut, d \in Document, Gapless(d)
  <2> QED
    BY <1>8, <2>1, <2>9 DEF x, l
<1>9. CASE c.op = "rename"
  <2>1. Undone(c, d) = [d EXCEPT ![c.l] = [d[c.l] EXCEPT !.label = c.old]]
    BY <1>9 DEF Undone
  <2>2. [d[c.l] EXCEPT !.label = c.old] \in Layer /\ Chained([d[c.l] EXCEPT !.label = c.old])
    BY <1>3, <1>9, Relabelled
  <2> DEFINE x == [d[c.l] EXCEPT !.label = c.old]
             l == c.l
  <2> HIDE DEF x, l
  <2>8. l \in 1..Len(d) /\ x \in Layer /\ Chained(x)
    BY <1>3, <1>9, <2>2 DEF x, l
  <2>9. [d EXCEPT ![l] = x] \in Document /\ Gapless([d EXCEPT ![l] = x])
    BY ONLY <2>8, DocPut, d \in Document, Gapless(d)
  <2> QED
    BY <1>9, <2>1, <2>9 DEF x, l
<1> QED
  BY <1>2, <1>4, <1>5, <1>6, <1>7, <1>8, <1>9

\* The same of redoing one; and what the command saves on the way is a command.
LEMMA RedoneType ==
  ASSUME NEW c \in Command, NEW d \in Document, Gapless(d), Redoable(c, d)
  PROVE  /\ Redone(c, d) \in Document /\ Gapless(Redone(c, d))
         /\ Saved(c, d) \in Command
<1> USE CommandFact
<1>1. Len(d) \in Nat
  BY DocSame, LenProperties DEF Document
<1>2. CASE c.op = "addLayer"
  <2>1. Redone(c, d) = Inserted(d, c.l, NewLayer(c.label, c.instants))
    BY <1>2 DEF Redone
  <2>2. NewLayer(c.label, c.instants) \in Layer /\ Chained(NewLayer(c.label, c.instants))
    BY <1>2, NewLayerFact, OrderChained
  <2>3. Saved(c, d) = c
    BY <1>2 DEF Saved
  <2> QED
    BY <2>1, <2>2, <2>3, InsertedFact
<1>3. ASSUME c.op # "addLayer" PROVE c.l \in 1..Len(d) /\ d[c.l] \in Layer /\ Chained(d[c.l])
  <2>1. LayerExists(c, d)
    BY <1>3 DEF Redoable
  <2>2. c.l \in 1..Len(d)
    BY <1>1, <2>1 DEF LayerExists
  <2> QED
    BY <2>2, DocSame DEF Gapless
<1>4. CASE c.op = "removeLayer"
  <2>1. Redone(c, d) = RemoveAt(d, c.l)
    BY <1>4 DEF Redone
  <2>3. d[c.l].label \in Labels /\ d[c.l].instants \in BOOLEAN
    BY <1>3, <1>4, LayerFact
  <2>4. Saved(c, d) \in Command
    <3> DEFINE R == [op : {"addLayer", "removeLayer"}, l : Nat \ {0}, label : Labels, instants : BOOLEAN]
    <3>1. c \in R
      BY <1>4 DEF Command
    <3>2. Saved(c, d) = [c EXCEPT !.label = d[c.l].label, !.instants = d[c.l].instants]
      BY <1>4 DEF Saved
    <3> DEFINE p == d[c.l].label
               q == d[c.l].instants
    <3>3. p \in Labels /\ q \in BOOLEAN
      BY <2>3
    <3> HIDE DEF p, q
    <3>4. [c EXCEPT !.label = p, !.instants = q] \in R
      BY ONLY <3>1, <3>3
    <3>5. Saved(c, d) \in R
      BY <3>2, <3>4, Zenon DEF p, q
    <3> QED
      BY <3>5 DEF Command
  <2> QED
    BY <1>3, <1>4, <2>1, <2>4, RemovedFact
<1>10. ASSUME c.op # "removeLayer" PROVE Saved(c, d) \in Command
  BY <1>10 DEF Saved
<1>5. CASE c.op = "addAnchor"
  <2>1. Redone(c, d) = [d EXCEPT ![c.l] = AddAnchor(d[c.l], c.t)]
    BY <1>5 DEF Redone
  <2>2. CanAdd(d[c.l], c.t)
    BY <1>5 DEF Redoable
  <2>3. AddAnchor(d[c.l], c.t) \in Layer /\ Chained(AddAnchor(d[c.l], c.t))
    BY <1>3, <1>5, <2>2, AddAnchorType
  <2> DEFINE x == AddAnchor(d[c.l], c.t)
             l == c.l
  <2> HIDE DEF x, l
  <2>8. l \in 1..Len(d) /\ x \in Layer /\ Chained(x)
    BY <1>3, <1>5, <2>3 DEF x, l
  <2>9. [d EXCEPT ![l] = x] \in Document /\ Gapless([d EXCEPT ![l] = x])
    BY ONLY <2>8, DocPut, d \in Document, Gapless(d)
  <2> QED
    BY <1>5, <1>10, <2>1, <2>9 DEF x, l
<1>6. CASE c.op = "removeAnchor"
  <2>1. Redone(c, d) = [d EXCEPT ![c.l] = RemoveAnchor(d[c.l], c.t)]
    BY <1>6 DEF Redone
  <2>2. RemoveAnchor(d[c.l], c.t) \in Layer /\ Chained(RemoveAnchor(d[c.l], c.t))
    BY <1>3, <1>6, RemoveAnchorType
  <2> DEFINE x == RemoveAnchor(d[c.l], c.t)
             l == c.l
  <2> HIDE DEF x, l
  <2>8. l \in 1..Len(d) /\ x \in Layer /\ Chained(x)
    BY <1>3, <1>6, <2>2 DEF x, l
  <2>9. [d EXCEPT ![l] = x] \in Document /\ Gapless([d EXCEPT ![l] = x])
    BY ONLY <2>8, DocPut, d \in Document, Gapless(d)
  <2> QED
    BY <1>6, <1>10, <2>1, <2>9 DEF x, l
<1>7. CASE c.op = "move"
  <2>1. Redone(c, d) = [d EXCEPT ![c.l] = MoveAnchor(d[c.l], c.from, c.to)]
    BY <1>7 DEF Redone
  <2>2. MoveAnchor(d[c.l], c.from, c.to) \in Layer /\ Chained(MoveAnchor(d[c.l], c.from, c.to))
    BY <1>3, <1>7, MoveAnchorType
  <2> DEFINE x == MoveAnchor(d[c.l], c.from, c.to)
             l == c.l
  <2> HIDE DEF x, l
  <2>8. l \in 1..Len(d) /\ x \in Layer /\ Chained(x)
    BY <1>3, <1>7, <2>2 DEF x, l
  <2>9. [d EXCEPT ![l] = x] \in Document /\ Gapless([d EXCEPT ![l] = x])
    BY ONLY <2>8, DocPut, d \in Document, Gapless(d)
  <2> QED
    BY <1>7, <1>10, <2>1, <2>9 DEF x, l
<1>8. CASE c.op = "text"
  <2>1. Redone(c, d) = [d EXCEPT ![c.l] = SetText(d[c.l], c.e, c.new)]
    BY <1>8 DEF Redone
  <2>2. c.e <= Len(d[c.l].events) /\ Len(d[c.l].events) \in Nat
    BY <1>3, <1>8, LayerFact, EventsFact DEF Redoable
  <2>3. SetText(d[c.l], c.e, c.new) \in Layer /\ Chained(SetText(d[c.l], c.e, c.new))
    BY <1>3, <1>8, <2>2, SetTextFact
  <2> DEFINE x == SetText(d[c.l], c.e, c.new)
             l == c.l
  <2> HIDE DEF x, l
  <2>8. l \in 1..Len(d) /\ x \in Layer /\ Chained(x)
    BY <1>3, <1>8, <2>3 DEF x, l
  <2>9. [d EXCEPT ![l] = x] \in Document /\ Gapless([d EXCEPT ![l] = x])
    BY ONLY <2>8, DocPut, d \in Document, Gapless(d)
  <2> QED
    BY <1>8, <1>10, <2>1, <2>9 DEF x, l
<1>9. CASE c.op = "rename"
  <2>1. Redone(c, d) = [d EXCEPT ![c.l] = [d[c.l] EXCEPT !.label = c.new]]
    BY <1>9 DEF Redone
  <2>2. [d[c.l] EXCEPT !.label = c.new] \in Layer /\ Chained([d[c.l] EXCEPT !.label = c.new])
    BY <1>3, <1>9, Relabelled
  <2> DEFINE x == [d[c.l] EXCEPT !.label = c.new]
             l == c.l
  <2> HIDE DEF x, l
  <2>8. l \in 1..Len(d) /\ x \in Layer /\ Chained(x)
    BY <1>3, <1>9, <2>2 DEF x, l
  <2>9. [d EXCEPT ![l] = x] \in Document /\ Gapless([d EXCEPT ![l] = x])
    BY ONLY <2>8, DocPut, d \in Document, Gapless(d)
  <2> QED
    BY <1>9, <1>10, <2>1, <2>9 DEF x, l
<1> QED
  BY <1>2, <1>4, <1>5, <1>6, <1>7, <1>8, <1>9

Widget == [at : Nat \ {0}, shares : BOOLEAN]

\* A widget put in or taken away leaves a sequence of widgets.
LEMMA WidgetsType ==
  ASSUME NEW ws \in Seq(Widget), NEW l \in Nat \ {0}
  PROVE  WithWidget(ws, l) \in Seq(Widget) /\ WithoutWidget(ws, l) \in Seq(Widget)
<1> DEFINE later == {v \in DOMAIN ws : ws[v].at >= l}
           showing == {v \in DOMAIN ws : ws[v].at = l}
           place == IF later = {} THEN Len(ws) + 1 ELSE Min(later)
           new == [at |-> l, shares |-> FALSE]
<1>1. Len(ws) \in Nat /\ DOMAIN ws = 1..Len(ws)
  BY LenProperties
<1>2. new \in Widget
  BY DEF Widget
<1>3. place \in 1..(Len(ws) + 1)
  <2>1. CASE later = {}
    BY <1>1, <2>1
  <2>2. CASE later # {}
    <3>1. later \in SUBSET Nat /\ later \subseteq 1..Len(ws)
      BY <1>1
    <3> HIDE DEF later
    <3>2. Min(later) \in 1..Len(ws)
      BY <2>2, <3>1, MinLeast
    <3> QED
      BY <1>1, <2>2, <3>2
  <2> QED
    BY <2>1, <2>2
<1>4. WithWidget(ws, l) = InsertAt(ws, place, new)
  BY DEF WithWidget
<1>5. WithWidget(ws, l) \in Seq(Widget)
  <2> HIDE DEF place, new
  <2> QED
    BY <1>2, <1>3, <1>4, InsertAtFact
<1>6. CASE showing = {}
  <2>1. WithoutWidget(ws, l) = ws
    BY <1>6 DEF WithoutWidget
  <2> QED
    BY <1>5, <2>1
<1>7. CASE showing # {}
  <2>1. WithoutWidget(ws, l) = RemoveAt(ws, Min(showing))
    BY <1>7 DEF WithoutWidget
  <2>2. showing \in SUBSET Nat /\ showing \subseteq 1..Len(ws)
    BY <1>1
  <2> HIDE DEF showing
  <2>3. Min(showing) \in 1..Len(ws)
    BY <1>7, <2>2, MinLeast
  <2> QED
    BY <1>5, <2>1, <2>3, RemoveAtFact
<1> QED
  BY <1>6, <1>7

-----------------------------------------------------------------------------
(* The invariant, step by step.                                             *)

\* The parts of the invariant, in the forms the lemmas use.
LEMMA InvFact ==
  ASSUME IInv
  PROVE  /\ layers \in Document /\ widgets \in Seq(Widget) /\ DOMAIN layers = 1..Len(layers)
         /\ undo \in Seq(Command) /\ redo \in Seq(Command) /\ edits \in 0..MaxEdits
         /\ past \in Seq(Document) /\ future \in Seq(Document)
         /\ Chain(undo, past, layers, TRUE) /\ Chain(redo, future, layers, FALSE)
         /\ Gapless(layers) /\ (~astray => Ordered(layers))
         /\ \A i \in 1..Len(past) : Ordered(past[i])
         /\ \A i \in 1..Len(future) : Ordered(future[i])
         /\ strays \in 0..MaxStrays /\ strays \in Nat
<1>1. layers \in Document /\ strays \in 0..MaxStrays /\ strays \in Nat
  BY ViewAssumption DEF IInv, TypeOK, Document
<1>2. DOMAIN layers = 1..Len(layers)
  BY <1>1, LenProperties DEF Document
<1> QED
  BY <1>1, <1>2 DEF IInv, TypeOK, Document, Widget

\* How often something went astray.
LEMMA StraysFact ==
  ASSUME IInv, NEW stray \in BOOLEAN, Strays(stray)
  PROVE  strays' \in 0..MaxStrays /\ (astray' <=> astray \/ stray)
<1>1. strays \in 0..MaxStrays /\ MaxStrays \in Nat
  BY InvFact, ViewAssumption
<1>2. CASE stray
  BY <1>1, <1>2 DEF Strays, astray
<1>3. CASE ~stray
  BY <1>1, <1>3 DEF Strays, astray
<1> QED
  BY <1>2, <1>3

\* A document without gaps, when nothing is promised any more.
LEMMA UnpromisedKeeps ==
  ASSUME IInv, layers' \in Document, Gapless(layers'), ~astray' => Ordered(layers'),
         widgets' \in Seq(Widget), undo' \in Seq(Command), redo' \in Seq(Command),
         edits' \in 0..MaxEdits, strays' \in 0..MaxStrays, past' = <<>>, future' = <<>>
  PROVE  IInv'
<1>1. /\ past' \in Seq(Document) /\ future' \in Seq(Document)
      /\ \A i \in 1..Len(past') : Ordered(past'[i])
      /\ \A i \in 1..Len(future') : Ordered(future'[i])
  BY EmptySeq
<1>2. Chain(undo', past', layers', TRUE) /\ Chain(redo', future', layers', FALSE)
  BY ChainNone
<1>3. TypeOK'
  BY <1>1 DEF TypeOK, Document, Widget
<1> QED
  BY <1>1, <1>2, <1>3 DEF IInv

\* Recording a command: unless something goes astray it has to lead from
\* `before` to the new document.
LEMMA RecordKeeps ==
  ASSUME IInv, NEW c \in Command, NEW before, NEW stray \in BOOLEAN,
         layers' \in Document, Gapless(layers'), widgets' \in Seq(Widget),
         ~astray /\ ~stray => /\ before \in Document /\ Ordered(before)
                              /\ Ordered(layers') /\ Leads(c, before, layers'),
         Record(c, before, stray), Edited
  PROVE  IInv'
<1>1. /\ layers \in Document /\ undo \in Seq(Command) /\ past \in Seq(Document)
      /\ Chain(undo, past, layers, TRUE) /\ \A i \in 1..Len(past) : Ordered(past[i])
      /\ edits \in 0..MaxEdits
  BY InvFact
<1>2. /\ undo' = Pushed(undo, c) /\ redo' = <<>> /\ future' = <<>> /\ Strays(stray)
      /\ past' = IF astray' THEN <<>> ELSE IF before = layers THEN Pushed(past, layers) ELSE <<before>>
  BY DEF Record
<1>3. edits' \in 0..MaxEdits
  BY <1>1, ViewAssumption DEF Edited
<1>4. undo' \in Seq(Command) /\ redo' \in Seq(Command)
  BY <1>1, <1>2, PushedFact, EmptySeq
<1>5. strays' \in 0..MaxStrays /\ (astray' <=> astray \/ stray)
  BY <1>2, StraysFact
<1>6. CASE astray \/ stray
  <2>1. past' = <<>>
    BY <1>2, <1>5, <1>6
  <2> QED
    BY <1>2, <1>3, <1>4, <1>5, <1>6, <2>1, UnpromisedKeeps
<1>7. CASE ~(astray \/ stray)
  <2>1. /\ before \in Document /\ Ordered(before) /\ Ordered(layers') /\ Leads(c, before, layers')
        /\ past' = IF before = layers THEN Pushed(past, layers) ELSE <<before>>
    BY <1>2, <1>5, <1>7
  <2>2. Linked(c, layers', before, TRUE)
    BY <2>1 DEF Linked
  <2>3. /\ past' \in Seq(Document) /\ Chain(undo', past', layers', TRUE)
        /\ \A i \in 1..Len(past') : Ordered(past'[i])
    <3>1. CASE before = layers
      <4>1. past' = Pushed(past, layers)
        BY <2>1, <3>1
      <4>2. /\ past' \in Seq(Document)
            /\ \A j \in 1..Len(past') : past'[j] = layers \/ \E i \in 1..Len(past) : past'[j] = past[i]
        <5> DEFINE s == Pushed(past, layers)
        <5>1. /\ s \in Seq(Document)
              /\ \A j \in 1..Len(s) : s[j] = layers \/ \E i \in 1..Len(past) : s[j] = past[i]
          BY <1>1, PushedFact
        <5>2. past' = s
          BY <4>1
        <5> HIDE DEF s
        <5> QED
          BY ONLY <5>1, <5>2, Zenon
      <4>3. Chain(undo', past', layers', TRUE)
        BY <1>1, <1>2, <2>2, <3>1, <4>1, ChainPushed
      <4>4. \A j \in 1..Len(past') : Ordered(past'[j])
        BY <1>1, <2>1, <3>1, <4>2
      <4> QED
        BY <4>2, <4>3, <4>4
    <3>2. CASE before # layers
      <4>1. past' = <<before>>
        BY <2>1, <3>2
      <4>2. /\ <<>> \in Seq(Document) /\ Pushed(<<>>, before) = <<before>>
        <5>1. Len(<<>>) = 0 /\ ~(0 >= MaxStack)
          BY ViewAssumption
        <5>2. Append(<<>>, before) = <<before>>
          OBVIOUS
        <5> QED
          BY <5>1, <5>2, EmptySeq DEF Pushed
      <4>3. Chain(undo, <<>>, before, TRUE)
        BY <1>1, ChainNone
      <4>4. Chain(undo', past', layers', TRUE)
        BY <1>1, <1>2, <2>1, <2>2, <4>1, <4>2, <4>3, ChainPushed
      <4>5. past' \in Seq(Document) /\ \A j \in 1..Len(past') : Ordered(past'[j])
        <5>1. <<before>> \in Seq(Document) /\ \A j \in 1..Len(<<before>>) : <<before>>[j] = before
          BY <2>1
        <5> QED
          BY <2>1, <4>1, <5>1
      <4> QED
        BY <4>4, <4>5
    <3> QED
      BY <3>1, <3>2
  <2>4. /\ future' \in Seq(Document) /\ \A i \in 1..Len(future') : Ordered(future'[i])
    BY <1>2, EmptySeq
  <2>5. Chain(redo', future', layers', FALSE)
    BY <1>2, <1>4, ChainNone
  <2>6. TypeOK'
    BY <1>3, <1>4, <1>5, <2>3, <2>4 DEF TypeOK, Document, Widget
  <2> QED
    BY <1>5, <1>7, <2>1, <2>3, <2>4, <2>5, <2>6 DEF IInv
<1> QED
  BY <1>6, <1>7

\* An edit that is not recorded ends the promises.
LEMMA UnrecordedKeeps ==
  ASSUME IInv, layers' \in Document, Gapless(layers'), ~astray => Ordered(layers'),
         Unrecorded, Edited, widgets' \in Seq(Widget)
  PROVE  IInv'
<1>1. /\ undo \in Seq(Command) /\ redo \in Seq(Command) /\ edits \in 0..MaxEdits
      /\ strays \in 0..MaxStrays
  BY InvFact
<1>2. past' = <<>> /\ future' = <<>> /\ undo' = undo /\ redo' = redo /\ strays' = strays
  BY DEF Unrecorded
<1>3. edits' \in 0..MaxEdits
  BY <1>1, ViewAssumption DEF Edited
<1>4. astray' = astray
  BY <1>2 DEF astray
<1> QED
  BY <1>1, <1>2, <1>3, <1>4, UnpromisedKeeps

\* The layer a widget shows.
LEMMA ShownFact ==
  ASSUME IInv, Shown, NEW v \in DOMAIN widgets
  PROVE  LET l == widgets[v].at
         IN  /\ l \in 1..Len(layers) /\ l \in Nat \ {0} /\ layers[l] \in Layer
             /\ Chained(layers[l]) /\ (~astray => InOrder(layers[l]))
<1> DEFINE l == widgets[v].at
<1>1. layers \in Document /\ widgets \in Seq(Widget) /\ Gapless(layers) /\ (~astray => Ordered(layers))
  BY InvFact
<1>2. widgets[v] \in Widget
  BY <1>1, LenProperties, ElementOfSeq
<1>3. l \in Nat \ {0}
  BY <1>2 DEF Widget
<1>4. Len(layers) \in Nat /\ DOMAIN layers = 1..Len(layers)
  BY <1>1, LenProperties DEF Document
<1>5. l \in 1..Len(layers)
  BY <1>3, <1>4 DEF Shown
<1>6. layers[l] \in Layer
  BY <1>1, <1>5, DocSame
<1>7. Chained(layers[l]) /\ (~astray => InOrder(layers[l]))
  BY <1>1, <1>4, <1>5 DEF Ordered, Gapless
<1> QED
  BY <1>3, <1>5, <1>6, <1>7

\* Every layer of the document is as the invariant says.
LEMMA EachLayer ==
  ASSUME IInv, NEW j \in DOMAIN layers
  PROVE  layers[j] \in Layer /\ Chained(layers[j]) /\ (~astray => InOrder(layers[j])) /\ j \in 1..Len(layers)
<1>1. /\ layers \in Document /\ DOMAIN layers = 1..Len(layers)
      /\ Gapless(layers) /\ (~astray => Ordered(layers))
  BY InvFact
<1> QED
  BY <1>1, DocSame DEF Ordered, Gapless

\* A document changed layer by layer.
LEMMA DocPointwise ==
  ASSUME NEW d \in Document, NEW e, DOMAIN e = DOMAIN d, e = [j \in DOMAIN d |-> e[j]],
         \A j \in DOMAIN d : e[j] \in Layer
  PROVE  /\ e \in Document /\ Len(e) = Len(d)
         /\ (\A j \in DOMAIN d : Chained(e[j])) => Gapless(e)
         /\ (\A j \in DOMAIN d : InOrder(e[j])) => Ordered(e)
<1>1. Len(d) \in Nat /\ DOMAIN d = 1..Len(d)
  BY LenProperties DEF Document
<1>2. e \in [1..Len(d) -> Layer]
  BY <1>1
<1>3. e \in Seq(Layer) /\ Len(e) = Len(d)
  BY <1>1, <1>2, FunctionIsSeq
<1> QED
  BY <1>3 DEF Document, Ordered, Gapless

\* A document in order with one layer replaced by one in order.
LEMMA OrderedAt ==
  ASSUME NEW d \in Document, Ordered(d), NEW l \in 1..Len(d), NEW x \in Layer, InOrder(x)
  PROVE  [d EXCEPT ![l] = x] \in Document /\ Ordered([d EXCEPT ![l] = x])
<1> DEFINE e == [d EXCEPT ![l] = x]
<1>1. /\ e \in Document /\ DOMAIN e = 1..Len(d) /\ e[l] = x
      /\ \A j \in 1..Len(d) : j # l => e[j] = d[j]
  BY DocAt
<1> HIDE DEF e
<1>2. DOMAIN d = 1..Len(d)
  BY DocSame
<1>3. Ordered(e)
  BY <1>1, <1>2 DEF Ordered
<1> QED
  BY <1>1, <1>3 DEF e

\* The document with one layer edited.
LEMMA EditedAt ==
  ASSUME IInv, NEW l \in 1..Len(layers), NEW x \in Layer, Chained(x), ~astray => InOrder(x),
         layers' = [layers EXCEPT ![l] = x]
  PROVE  layers' \in Document /\ Gapless(layers') /\ (~astray => Ordered(layers'))
<1>1. layers \in Document /\ Gapless(layers) /\ (~astray => Ordered(layers))
  BY InvFact
<1> DEFINE e == [layers EXCEPT ![l] = x]
<1>2. e \in Document /\ Gapless(e)
  BY <1>1, DocPut
<1>3. ~astray => Ordered(e)
  BY <1>1, OrderedAt
<1> HIDE DEF e
<1>4. layers' = e
  BY DEF e
<1> QED
  BY <1>2, <1>3, <1>4

\* An anchor created on a layer and on those that share its anchors.
LEMMA CreateAnchorKeeps ==
  ASSUME IInv, Shown, NEW v \in DOMAIN widgets, NEW t \in Times, CreateAnchor(v, t)
  PROVE  IInv'
<1> DEFINE l == widgets[v].at
           c == [op |-> "addAnchor", l |-> l, t |-> t]
           before == [layers' EXCEPT ![l] = layers[l]]
<1>1. layers \in Document /\ widgets \in Seq(Widget) /\ DOMAIN layers = 1..Len(layers)
  BY InvFact
<1>2. l \in 1..Len(layers) /\ l \in Nat \ {0} /\ layers[l] \in Layer /\ (~astray => InOrder(layers[l]))
  BY ShownFact
<1>3. /\ CanCreate(layers[l], t)
      /\ layers' = [j \in DOMAIN layers |->
               IF j \in {l} \cup Peers(v) /\ CanCreate(layers[j], t)
               THEN AddAnchor(layers[j], t) ELSE layers[j]]
      /\ Record(c, before, FALSE) /\ Edited /\ widgets' = widgets
  BY DEF CreateAnchor
<1>4. ASSUME NEW ly \in Layer, CanCreate(ly, t)
      PROVE  CanAdd(ly, t) /\ \A i \in 1..Len(ly.events) : ly.events[i].start # t
  <2>1. DOMAIN ly.events = 1..Len(ly.events)
    BY LayerFact, EventsFact
  <2> QED
    BY <1>4, <2>1 DEF CanCreate, Bounds
<1>5. ASSUME NEW j \in DOMAIN layers
      PROVE  layers'[j] \in Layer /\ Chained(layers'[j]) /\ (~astray => InOrder(layers'[j]))
  <2>1. layers[j] \in Layer /\ Chained(layers[j]) /\ (~astray => InOrder(layers[j]))
    BY EachLayer
  <2>2. CASE layers'[j] = layers[j]
    BY <2>1, <2>2
  <2>3. CASE layers'[j] = AddAnchor(layers[j], t) /\ CanCreate(layers[j], t)
    <3>1. CanAdd(layers[j], t) /\ \A i \in 1..Len(layers[j].events) : layers[j].events[i].start # t
      BY <1>4, <2>1, <2>3
    <3>2. AddAnchor(layers[j], t) \in Layer /\ Chained(AddAnchor(layers[j], t))
      BY <2>1, <3>1, AddAnchorType
    <3>3. ~astray => InOrder(AddAnchor(layers[j], t))
      BY <2>1, <3>1, AddAnchorKeeps
    <3> QED
      BY <2>3, <3>2, <3>3
  <2> QED
    BY <1>3, <2>2, <2>3
<1>6. layers' \in Document /\ Gapless(layers') /\ (~astray => Ordered(layers')) /\ Len(layers') = Len(layers)
  <2>1. DOMAIN layers' = DOMAIN layers /\ layers' = [j \in DOMAIN layers |-> layers'[j]]
    BY <1>3
  <2> QED
    BY <1>1, <1>5, <2>1, DocPointwise
<1>7. layers'[l] = AddAnchor(layers[l], t)
  BY <1>1, <1>2, <1>3
<1>8. ~astray => before \in Document /\ Ordered(before)
  BY <1>2, <1>6, OrderedAt
<1>9. ~astray => Leads(c, before, layers')
  <2>1. CanAdd(layers[l], t) /\ \A i \in 1..Len(layers[l].events) : layers[l].events[i].start # t
    BY <1>2, <1>3, <1>4
  <2> HIDE DEF l
  <2> QED
    BY <1>2, <1>6, <1>7, <2>1, AddAnchorLeads
<1>10. c \in Command
  BY <1>2 DEF Command
<1> HIDE DEF c, before
<1> QED
  BY <1>1, <1>3, <1>6, <1>8, <1>9, <1>10, RecordKeeps

\* An anchor deleted from them.
LEMMA DeleteAnchorKeeps ==
  ASSUME IInv, Shown, NEW v \in DOMAIN widgets, NEW t \in Times, NEW reach, DeleteAnchor(v, t, reach)
  PROVE  IInv'
<1> DEFINE l == widgets[v].at
           c == [op |-> "removeAnchor", l |-> l, t |-> t, instant |-> layers[l].instants,
                 left |-> LeftText(layers[l], t), right |-> RightText(layers[l], t)]
           before == [layers' EXCEPT ![l] = layers[l]]
<1>1. layers \in Document /\ widgets \in Seq(Widget) /\ DOMAIN layers = 1..Len(layers)
  BY InvFact
<1>2. l \in 1..Len(layers) /\ l \in Nat \ {0} /\ layers[l] \in Layer /\ (~astray => InOrder(layers[l]))
  BY ShownFact
<1>3. /\ CanRemove(layers[l], t)
      /\ layers' = [j \in DOMAIN layers |->
               IF j = l THEN RemoveAnchor(layers[j], t)
               ELSE IF j \in Peers(v) THEN RemoveHit(layers[j], t, reach) ELSE layers[j]]
      /\ Record(c, before, FALSE) /\ Edited /\ widgets' = widgets
  BY DEF DeleteAnchor
<1>5. ASSUME NEW j \in DOMAIN layers
      PROVE  layers'[j] \in Layer /\ Chained(layers'[j]) /\ (~astray => InOrder(layers'[j]))
  <2>1. layers[j] \in Layer /\ Chained(layers[j]) /\ (~astray => InOrder(layers[j]))
    BY EachLayer
  <2>2. CASE layers'[j] = layers[j]
    BY <2>1, <2>2
  <2>3. CASE layers'[j] = RemoveAnchor(layers[j], t)
    <3>1. RemoveAnchor(layers[j], t) \in Layer /\ Chained(RemoveAnchor(layers[j], t))
      BY <2>1, RemoveAnchorType
    <3>2. ~astray => InOrder(RemoveAnchor(layers[j], t))
      BY <2>1, RemoveAnchorKeeps
    <3> QED
      BY <2>3, <3>1, <3>2
  <2>4. CASE layers'[j] = RemoveHit(layers[j], t, reach)
    BY <2>1, <2>4, RemoveHitType
  <2> QED
    BY <1>3, <2>2, <2>3, <2>4
<1>6. layers' \in Document /\ Gapless(layers') /\ (~astray => Ordered(layers')) /\ Len(layers') = Len(layers)
  <2>1. DOMAIN layers' = DOMAIN layers /\ layers' = [j \in DOMAIN layers |-> layers'[j]]
    BY <1>3
  <2> QED
    BY <1>1, <1>5, <2>1, DocPointwise
<1>7. layers'[l] = RemoveAnchor(layers[l], t)
  BY <1>1, <1>2, <1>3
<1>8. ~astray => before \in Document /\ Ordered(before)
  BY <1>2, <1>6, OrderedAt
<1>9. ~astray => Leads(c, before, layers')
  <2> HIDE DEF l
  <2> QED
    BY <1>2, <1>3, <1>6, <1>7, RemoveAnchorLeads
<1>10. c \in Command
  <2>1. LeftText(layers[l], t) \in Seq(Words) /\ RightText(layers[l], t) \in Seq(Words)
    BY <1>2, <1>3, TextsType
  <2>2. layers[l].instants \in BOOLEAN
    BY <1>2, LayerFact
  <2> QED
    BY <1>2, <2>1, <2>2 DEF Command
<1> HIDE DEF c, before
<1> QED
  BY <1>1, <1>3, <1>6, <1>8, <1>9, <1>10, RecordKeeps

\* An anchor dragged on a layer, and moved on those that share its anchors.
LEMMA DragAnchorKeeps ==
  ASSUME IInv, Shown, NEW v \in DOMAIN widgets,
         NEW from \in Times, NEW to \in Times, DragAnchor(v, from, to)
  PROVE  IInv'
<1> DEFINE l == widgets[v].at
           c == [op |-> "move", l |-> l, from |-> from, to |-> to]
           before == [layers' EXCEPT ![l] = layers[l]]
           stray == \E j \in {l} \cup Peers(v) : ~StaysBetween(layers[j], from, to)
<1>1. layers \in Document /\ widgets \in Seq(Widget) /\ DOMAIN layers = 1..Len(layers)
  BY InvFact
<1>2. l \in 1..Len(layers) /\ l \in Nat \ {0} /\ layers[l] \in Layer /\ (~astray => InOrder(layers[l]))
  BY ShownFact
<1>3. /\ from # 0 /\ from # Duration /\ Grabbed(layers[l].events, from) # {}
      /\ layers' = [j \in DOMAIN layers |->
               IF j = l THEN Drag(layers[l], from, to)
               ELSE IF j \in Peers(v) THEN MoveAnchor(layers[j], from, to) ELSE layers[j]]
      /\ Record(c, before, stray) /\ Edited /\ widgets' = widgets
  BY DEF DragAnchor
<1>4. ASSUME NEW ly \in Layer, InOrder(ly), StaysBetween(ly, from, to)
      PROVE  /\ MoveAnchor(ly, from, to) \in Layer /\ InOrder(MoveAnchor(ly, from, to))
             /\ At(ly.events, from) # {} =>
                   /\ Drag(ly, from, to) = MoveAnchor(ly, from, to)
                   /\ MoveAnchor(Drag(ly, from, to), to, from) = ly
  <2>1. /\ ~ly.instants
        /\ \A i \in DOMAIN ly.events :
              /\ ly.events[i].end = from => ly.events[i].start < to
              /\ ly.events[i].start = from => to < ly.events[i].end
    BY <1>4 DEF StaysBetween
  <2>2. CASE At(ly.events, from) = {}
    <3>1. MoveAnchor(ly, from, to) = ly
      BY <2>2 DEF MoveAnchor
    <3> QED
      BY <2>2, <3>1, <1>4
  <2>3. CASE At(ly.events, from) # {}
    <3> DEFINE x == Drag(ly, from, to)
    <3>1. x \in Layer
      BY <1>3, <1>4, <2>1, <2>3, DragKeeps
    <3>2. InOrder(x)
      BY <1>3, <1>4, <2>1, <2>3, DragKeeps
    <3>3. MoveAnchor(ly, from, to) = x
      BY <1>3, <1>4, <2>1, <2>3, DragIsMove
    <3>4. MoveAnchor(x, to, from) = ly
      BY <1>3, <1>4, <2>1, <2>3, DragBack
    <3> QED
      BY <3>1, <3>2, <3>3, <3>4
  <2> QED
    BY <2>2, <2>3
<1>5. ASSUME NEW j \in DOMAIN layers  PROVE layers'[j] \in Layer /\ Chained(layers'[j])
  <2>1. layers[j] \in Layer /\ Chained(layers[j])
    BY EachLayer
  <2>2. CASE j = l
    <3>1. layers'[j] = Drag(layers[j], from, to)
      BY <1>3, <2>2
    <3> QED
      BY <1>3, <2>1, <2>2, <3>1, DragType
  <2>3. CASE j # l
    <3>1. layers'[j] = layers[j] \/ layers'[j] = MoveAnchor(layers[j], from, to)
      BY <1>3, <2>3
    <3> QED
      BY <2>1, <3>1, MoveAnchorType
  <2> QED
    BY <2>2, <2>3
<1>6. layers' \in Document /\ Gapless(layers') /\ Len(layers') = Len(layers)
  <2>1. DOMAIN layers' = DOMAIN layers /\ layers' = [j \in DOMAIN layers |-> layers'[j]]
    BY <1>3
  <2> QED
    BY <1>1, <1>5, <2>1, DocPointwise
<1>7. layers'[l] = Drag(layers[l], from, to)
  BY <1>1, <1>2, <1>3
<1>8. At(layers[l].events, from) # {}
  BY <1>3 DEF Grabbed, Painted, At
<1>9. ASSUME ~astray, ~stray
      PROVE  before \in Document /\ Ordered(before) /\ Ordered(layers') /\ Leads(c, before, layers')
  <2>1. \A j \in {l} \cup Peers(v) : StaysBetween(layers[j], from, to)
    BY <1>9
  <2>2. layers'[l] = MoveAnchor(layers[l], from, to) /\ MoveAnchor(layers'[l], to, from) = layers[l]
    BY <1>2, <1>4, <1>7, <1>8, <1>9, <2>1
  <2>3. ASSUME NEW j \in DOMAIN layers  PROVE InOrder(layers'[j])
    <3>1. layers[j] \in Layer /\ InOrder(layers[j])
      BY <1>9, EachLayer
    <3>2. CASE j = l
      BY <1>4, <2>1, <2>2, <3>1, <3>2
    <3>3. CASE j # l
      <4>1. CASE j \in Peers(v)
        BY <1>3, <1>4, <2>1, <3>1, <3>3, <4>1
      <4>2. CASE j \notin Peers(v)
        BY <1>3, <3>1, <3>3, <4>2
      <4> QED
        BY <4>1, <4>2
    <3> QED
      BY <3>2, <3>3
  <2>4. Ordered(layers')
    <3>1. DOMAIN layers' = DOMAIN layers
      BY <1>3
    <3> QED
      BY <2>3, <3>1 DEF Ordered
  <2>5. before \in Document /\ Ordered(before)
    BY <1>2, <1>6, <1>9, <2>4, OrderedAt
  <2>6. Leads(c, before, layers')
    <3> HIDE DEF l
    <3> QED
      BY <1>2, <1>6, <2>2, MoveLeads
  <2> QED
    BY <2>4, <2>5, <2>6
<1>10. c \in Command
  BY <1>2 DEF Command
<1>11. stray \in BOOLEAN
  OBVIOUS
<1> HIDE DEF c, before, stray
<1> QED
  BY <1>1, <1>3, <1>6, <1>9, <1>10, <1>11, RecordKeeps

\* A text that is edited: the event is found again by its start.
LEMMA CommitEditKeeps ==
  ASSUME IInv, Shown, NEW v \in DOMAIN widgets,
         NEW k \in Painted(layers[widgets[v].at].events), NEW text \in Texts, CommitEdit(v, k, text)
  PROVE  IInv'
<1> DEFINE l == widgets[v].at
           es == layers[l].events
           e == FirstFrom(es, es[k].start)
           c == [op |-> "text", l |-> l, e |-> e, old |-> es[k].text, new |-> text]
           x == SetText(layers[l], e, text)
<1>1. layers \in Document /\ widgets \in Seq(Widget)
  BY InvFact
<1>2. /\ l \in 1..Len(layers) /\ l \in Nat \ {0} /\ layers[l] \in Layer
      /\ Chained(layers[l]) /\ (~astray => InOrder(layers[l]))
  BY ShownFact
<1>3. /\ es \in Seq(Event) /\ k \in 1..Len(es) /\ es[k].text \in Seq(Words) /\ es[k].start \in Times
      /\ text \in Seq(Words)
  <2>1. k \in DOMAIN es
    BY DEF Painted
  <2> QED
    BY <1>2, <2>1, LayerFact, EventsFact, ViewAssumption
<1>4. ~astray => e = k
  BY <1>2, <1>3, FoundByStart
<1>5. /\ layers' = [layers EXCEPT ![l] = x] /\ e <= Len(es)
      /\ Record(c, layers, FALSE) /\ Edited /\ widgets' = widgets
  BY DEF CommitEdit
<1>6. e \in 1..Len(es) /\ e \in Nat \ {0}
  <2>1. e \in 1..(Len(es) + 1) /\ Len(es) \in Nat
    BY <1>3, FirstFromFact, EventsFact
  <2> HIDE DEF e
  <2> QED
    BY <1>5, <2>1
<1> HIDE DEF e
<1>7. x \in Layer /\ Chained(x) /\ (~astray => InOrder(x))
  BY <1>2, <1>3, <1>6, SetTextFact
<1>8. ~astray => Leads(c, layers, layers')
  BY <1>1, <1>2, <1>3, <1>4, <1>5, TextLeads
<1>9. c \in Command
  BY <1>2, <1>3, <1>6 DEF Command
<1> HIDE DEF c, x
<1>10. layers' \in Document /\ Gapless(layers') /\ (~astray => Ordered(layers'))
  BY <1>2, <1>5, <1>7, EditedAt
<1> QED
  BY <1>1, <1>5, <1>8, <1>9, <1>10, InvFact, RecordKeeps

\* A layer that is created.
LEMMA CreateLayerKeeps ==
  ASSUME IInv, NEW l \in 1..(Len(layers) + 1), NEW label \in Labels, NEW instants \in BOOLEAN,
         CreateLayer(l, label, instants)
  PROVE  IInv'
<1> DEFINE c == [op |-> "addLayer", l |-> l, label |-> label, instants |-> instants]
<1>1. /\ layers \in Document /\ Gapless(layers) /\ (~astray => Ordered(layers))
      /\ widgets \in Seq(Widget) /\ l \in Nat \ {0}
  <2>1. layers \in Document /\ Gapless(layers) /\ (~astray => Ordered(layers)) /\ widgets \in Seq(Widget)
    BY InvFact
  <2>2. Len(layers) \in Nat
    BY <2>1, LenProperties DEF Document
  <2> QED
    BY <2>1, <2>2
<1>2. /\ layers' = Redone(c, layers) /\ widgets' = WithWidget(widgets, l)
      /\ Record(c, layers, FALSE) /\ Edited
  BY DEF CreateLayer
<1>3. /\ NewLayer(label, instants) \in Layer /\ InOrder(NewLayer(label, instants))
      /\ Chained(NewLayer(label, instants))
  BY NewLayerFact, OrderChained
<1>4. Leads(c, layers, layers') /\ layers' = Inserted(layers, l, NewLayer(label, instants))
  BY <1>1, <1>2, AddLayerLeads
<1>5. layers' \in Document /\ Gapless(layers') /\ (~astray => Ordered(layers'))
  BY <1>1, <1>3, <1>4, InsertedFact
<1>6. widgets' \in Seq(Widget)
  BY <1>1, <1>2, WidgetsType
<1>7. c \in Command
  BY <1>1 DEF Command
<1> HIDE DEF c
<1> QED
  BY <1>1, <1>2, <1>4, <1>5, <1>6, <1>7, RecordKeeps

\* A layer that is removed.
LEMMA RemoveLayerKeeps ==
  ASSUME IInv, Shown, NEW v \in DOMAIN widgets, RemoveLayer(v)
  PROVE  IInv'
<1> DEFINE l == widgets[v].at
           c == [op |-> "removeLayer", l |-> l, label |-> layers[l].label, instants |-> layers[l].instants]
           ly == NewLayer(c.label, c.instants)
           before == [layers EXCEPT ![l] = ly]
<1>1. layers \in Document /\ Gapless(layers) /\ (~astray => Ordered(layers)) /\ widgets \in Seq(Widget)
  BY InvFact
<1>2. l \in 1..Len(layers) /\ l \in Nat \ {0} /\ layers[l] \in Layer
  BY ShownFact
<1>3. /\ layers' = Redone(c, layers) /\ widgets' = WithoutWidget(widgets, l)
      /\ Record(c, before, FALSE) /\ Edited
  BY DEF RemoveLayer
<1>4. layers[l].label \in Labels /\ layers[l].instants \in BOOLEAN
  BY <1>2, LayerFact
<1>5. Leads(c, before, layers') /\ layers' = RemoveAt(layers, l)
  <2>1. Leads(c, before, Redone(c, layers)) /\ Redone(c, layers) = RemoveAt(layers, l)
    BY <1>1, <1>2, RemoveLayerLeads
  <2> QED
    BY <2>1, <1>3
<1>6. layers' \in Document /\ Gapless(layers') /\ (~astray => Ordered(layers'))
  BY <1>1, <1>2, <1>5, RemovedFact
<1>7. ly \in Layer /\ InOrder(ly)
  BY <1>4, NewLayerFact
<1>8. c \in Command
  BY <1>2, <1>4 DEF Command
<1> HIDE DEF ly
<1>9. ~astray => before \in Document /\ Ordered(before)
  BY <1>1, <1>2, <1>7, OrderedAt
<1>10. widgets' \in Seq(Widget)
  BY <1>1, <1>2, <1>3, WidgetsType
<1> HIDE DEF c, before
<1> QED
  BY <1>3, <1>5, <1>6, <1>8, <1>9, <1>10, RecordKeeps

\* A layer that is renamed.
LEMMA RenameLayerKeeps ==
  ASSUME IInv, Shown, NEW v \in DOMAIN widgets, NEW label \in Labels, RenameLayer(v, label)
  PROVE  IInv'
<1> DEFINE l == widgets[v].at
           c == [op |-> "rename", l |-> l, old |-> layers[l].label, new |-> label]
           x == [layers[l] EXCEPT !.label = label]
<1>1. layers \in Document /\ (~astray => Ordered(layers)) /\ widgets \in Seq(Widget)
  BY InvFact
<1>2. /\ l \in 1..Len(layers) /\ l \in Nat \ {0} /\ layers[l] \in Layer
      /\ Chained(layers[l]) /\ (~astray => InOrder(layers[l]))
  BY ShownFact
<1>3. /\ layers' = Redone(c, layers) /\ Record(c, layers, FALSE) /\ Edited /\ widgets' = widgets
  BY DEF RenameLayer
<1>4. Leads(c, layers, layers') /\ layers' = [layers EXCEPT ![l] = x]
  <2>1. Leads(c, layers, [layers EXCEPT ![l].label = label])
    BY <1>1, <1>2, RenameLeads
  <2>2. Redone(c, layers) = [layers EXCEPT ![l].label = label]
    BY DEF Redone
  <2>3. layers' = [layers EXCEPT ![l].label = label]
    BY <1>3, <2>2
  <2> QED
    BY <2>1, <2>3
<1>5. x \in Layer /\ Chained(x) /\ (~astray => InOrder(x))
  BY <1>2, Relabelled
<1>7. c \in Command
  BY <1>2, LayerFact DEF Command
<1> HIDE DEF c, x
<1>8. layers' \in Document /\ Gapless(layers') /\ (~astray => Ordered(layers'))
  BY <1>2, <1>4, <1>5, EditedAt
<1> QED
  BY <1>1, <1>3, <1>4, <1>7, <1>8, RecordKeeps

\* A layer that is duplicated.
LEMMA DuplicateLayerKeeps ==
  ASSUME IInv, Shown, NEW v \in DOMAIN widgets, NEW l \in 1..(Len(layers) + 1),
         DuplicateLayer(v, l)
  PROVE  IInv'
<1>1. layers \in Document /\ Gapless(layers) /\ (~astray => Ordered(layers)) /\ widgets \in Seq(Widget)
  BY InvFact
<1>2. l \in Nat \ {0}
  <2>1. Len(layers) \in Nat
    BY <1>1, LenProperties DEF Document
  <2> QED
    BY <2>1
<1> DEFINE ly == layers[widgets[v].at]
<1>3. ly \in Layer /\ Chained(ly) /\ (~astray => InOrder(ly))
  BY ShownFact
<1>4. layers' = Inserted(layers, l, ly) /\ widgets' = WithWidget(widgets, l) /\ Unrecorded /\ Edited
  BY DEF DuplicateLayer
<1>5. layers' \in Document /\ Gapless(layers') /\ (~astray => Ordered(layers'))
  BY <1>1, <1>2, <1>3, <1>4, InsertedFact
<1>6. widgets' \in Seq(Widget)
  BY <1>1, <1>2, <1>4, WidgetsType
<1> QED
  BY <1>4, <1>5, <1>6, UnrecordedKeeps

\* The texts of a layer that are cleared.
LEMMA ClearLayerKeeps ==
  ASSUME IInv, Shown, NEW v \in DOMAIN widgets, ClearLayer(v)
  PROVE  IInv'
<1> DEFINE l == widgets[v].at
           x == ClearTexts(layers[l])
<1>2. l \in 1..Len(layers) /\ layers[l] \in Layer /\ Chained(layers[l]) /\ (~astray => InOrder(layers[l]))
  BY ShownFact
<1>3. layers' = [layers EXCEPT ![l] = x] /\ widgets' = widgets /\ Unrecorded /\ Edited
  BY DEF ClearLayer
<1>4. x \in Layer /\ Chained(x) /\ (~astray => InOrder(x))
  BY <1>2, ClearTextsKeeps
<1> HIDE DEF x
<1>5. layers' \in Document /\ Gapless(layers') /\ (~astray => Ordered(layers'))
  BY <1>2, <1>3, <1>4, EditedAt
<1> QED
  BY <1>3, <1>5, InvFact, UnrecordedKeeps

\* One text that is replaced.
LEMMA ReplaceTextKeeps ==
  ASSUME IInv, NEW l \in DOMAIN layers, NEW k \in DOMAIN layers[l].events, NEW text \in Texts,
         ReplaceText(l, k, text)
  PROVE  IInv'
<1> DEFINE x == SetText(layers[l], k, text)
<1>2. l \in 1..Len(layers) /\ layers[l] \in Layer /\ Chained(layers[l]) /\ (~astray => InOrder(layers[l]))
  BY EachLayer
<1>3. k \in 1..Len(layers[l].events) /\ text \in Seq(Words)
  BY <1>2, LayerFact, EventsFact, ViewAssumption
<1>4. layers' = [layers EXCEPT ![l] = x] /\ widgets' = widgets /\ Unrecorded /\ Edited
  BY DEF ReplaceText
<1>5. x \in Layer /\ Chained(x) /\ (~astray => InOrder(x))
  BY <1>2, <1>3, SetTextFact
<1> HIDE DEF x
<1>6. layers' \in Document /\ Gapless(layers') /\ (~astray => Ordered(layers'))
  BY <1>2, <1>4, <1>5, EditedAt
<1> QED
  BY <1>4, <1>6, InvFact, UnrecordedKeeps

\* All the texts that match, on one layer or several.
LEMMA ReplaceTextsKeeps ==
  ASSUME IInv, NEW on, NEW needle, NEW text \in Texts, ReplaceTexts(on, needle, text)
  PROVE  IInv'
<1>1. layers \in Document /\ widgets \in Seq(Widget)
  BY InvFact
<1> DEFINE Us(ly) == [k \in DOMAIN ly.events |->
                          IF ly.events[k].text = needle THEN [ly.events[k] EXCEPT !.text = text]
                          ELSE ly.events[k]]
<1>2. /\ layers' = [l \in DOMAIN layers |-> IF l \notin on THEN layers[l]
                       ELSE [layers[l] EXCEPT !.events = Us(layers[l])]]
      /\ widgets' = widgets /\ Unrecorded /\ Edited
  BY DEF ReplaceTexts
<1>3. ASSUME NEW ly \in Layer
      PROVE  LET x == [ly EXCEPT !.events = Us(ly)]
             IN  x \in Layer /\ (Chained(ly) => Chained(x)) /\ (InOrder(ly) => InOrder(x))
  <2> DEFINE us == Us(ly)
             x  == [ly EXCEPT !.events = us]
  <2>1. /\ ly.events \in Seq(Event) /\ DOMAIN ly.events = 1..Len(ly.events) /\ text \in Seq(Words)
        /\ \A k \in 1..Len(ly.events) : /\ ly.events[k] \in Event
                                       /\ ly.events[k].start \in Times /\ ly.events[k].end \in Times
    BY LayerFact, EventsFact, ViewAssumption
  <2>2. ASSUME NEW k \in DOMAIN ly.events
        PROVE  us[k] \in Event /\ us[k].start = ly.events[k].start /\ us[k].end = ly.events[k].end
    <3> DEFINE ev == ly.events[k]
    <3>1. ev \in Event /\ ev.start \in Times /\ ev.end \in Times
      BY <2>1
    <3>2. us[k] = ev \/ us[k] = [ev EXCEPT !.text = text]
      OBVIOUS
    <3> HIDE DEF us, ev
    <3>3. [ev EXCEPT !.text = text] = [start |-> ev.start, end |-> ev.end, text |-> text]
      BY <3>1, EventExcept
    <3>4. [start |-> ev.start, end |-> ev.end, text |-> text] \in Event
      BY <2>1, <3>1 DEF Event
    <3> QED
      BY <3>1, <3>2, <3>3, <3>4 DEF ev
  <2>3. DOMAIN us = DOMAIN ly.events /\ us = [k \in DOMAIN ly.events |-> us[k]]
    OBVIOUS
  <2> HIDE DEF us
  <2>4. x \in Layer /\ (Chained(ly) => Chained(x)) /\ (InOrder(ly) => InOrder(x))
    BY <2>2, <2>3, Retexted
  <2> QED
    BY <2>4 DEF us
<1> HIDE DEF Us
<1>4. ASSUME NEW j \in DOMAIN layers
      PROVE  layers'[j] \in Layer /\ Chained(layers'[j]) /\ (~astray => InOrder(layers'[j]))
  <2>1. layers[j] \in Layer /\ Chained(layers[j]) /\ (~astray => InOrder(layers[j]))
    BY EachLayer
  <2>2. layers'[j] = layers[j] \/ layers'[j] = [layers[j] EXCEPT !.events = Us(layers[j])]
    BY <1>2
  <2> QED
    BY <1>3, <2>1, <2>2
<1>5. layers' \in Document /\ Gapless(layers') /\ (~astray => Ordered(layers'))
  <2>1. DOMAIN layers' = DOMAIN layers /\ layers' = [j \in DOMAIN layers |-> layers'[j]]
    BY <1>2
  <2> QED
    BY <1>1, <1>4, <2>1, DocPointwise
<1> QED
  BY <1>1, <1>2, <1>5, UnrecordedKeeps

\* Sharing or not sharing the anchors.
LEMMA ToggleSharingKeeps ==
  ASSUME IInv, NEW shared \in BOOLEAN, ToggleSharing(shared)
  PROVE  IInv'
<1>1. widgets \in Seq(Widget)
  BY InvFact
<1>2. /\ widgets' = [v \in DOMAIN widgets |-> [widgets[v] EXCEPT !.shares = shared]]
      /\ UNCHANGED <<layers, undo, redo, edits, past, future, strays>>
  BY DEF ToggleSharing
<1>3. widgets' \in Seq(Widget)
  <2>1. Len(widgets) \in Nat /\ DOMAIN widgets = 1..Len(widgets) /\ \A v \in 1..Len(widgets) : widgets[v] \in Widget
    BY <1>1, LenProperties, ElementOfSeq
  <2>2. \A w \in Widget : [w EXCEPT !.shares = shared] \in Widget
    BY DEF Widget
  <2>3. widgets' \in [1..Len(widgets) -> Widget]
    BY <1>2, <2>1, <2>2
  <2> QED
    BY <2>1, <2>3, FunctionIsSeq
<1>4. TypeOK'
  BY <1>2, <1>3 DEF IInv, TypeOK, Widget
<1> QED
  BY <1>2, <1>4 DEF IInv, astray

\* Undoing: the document promised, and the way back to the one that is left.
LEMMA UndoLastKeeps ==
  ASSUME IInv, UndoLast
  PROVE  IInv' /\ (past # <<>> => layers' = Last(past))
<1> DEFINE c == Last(undo)
<1>1. /\ layers \in Document /\ widgets \in Seq(Widget)
      /\ Gapless(layers) /\ (~astray => Ordered(layers))
      /\ undo \in Seq(Command) /\ redo \in Seq(Command) /\ edits \in 0..MaxEdits
      /\ past \in Seq(Document) /\ future \in Seq(Document)
      /\ Chain(undo, past, layers, TRUE) /\ Chain(redo, future, layers, FALSE)
      /\ \A i \in 1..Len(past) : Ordered(past[i])
      /\ \A i \in 1..Len(future) : Ordered(future[i])
      /\ (astray => past = <<>> /\ future = <<>>)
  BY InvFact DEF IInv
<1>2. /\ undo # <<>> /\ Undoable(c, layers) /\ layers' = Undone(c, layers)
      /\ widgets' = CASE c.op = "addLayer"    -> WithoutWidget(widgets, c.l)
                      [] c.op = "removeLayer" -> WithWidget(widgets, c.l)
                      [] OTHER                -> widgets
      /\ undo' = Front(undo) /\ redo' = Append(redo, c)
      /\ past' = Behind(past) /\ future' = Ahead(past, future)
      /\ Strays(past = <<>>) /\ edits' = edits
  BY DEF UndoLast
<1>3. c \in Command /\ undo' \in Seq(Command)
  BY <1>1, <1>2, TopOfFront
<1>4. redo' \in Seq(Command)
  BY <1>1, <1>2, <1>3, AppendProperties
<1>5. widgets' \in Seq(Widget)
  <2>1. \/ widgets' = WithoutWidget(widgets, c.l)
        \/ widgets' = WithWidget(widgets, c.l)
        \/ widgets' = widgets
    BY <1>2
  <2>2. c.l \in Nat \ {0}
    BY <1>3, CommandFact
  <2> QED
    BY <1>1, <2>1, <2>2, WidgetsType
<1>6. layers' \in Document /\ Gapless(layers')
  BY <1>1, <1>2, <1>3, UndoneType
<1>9. strays' \in 0..MaxStrays /\ (astray' <=> astray \/ past = <<>>)
  BY <1>2, StraysFact
<1> HIDE DEF c
<1>7. CASE past = <<>>
  <2>1. past' = <<>> /\ future' = <<>> /\ astray' /\ edits' \in 0..MaxEdits
    BY <1>1, <1>2, <1>7, <1>9 DEF Behind, Ahead
  <2>2. IInv'
    BY <1>3, <1>4, <1>5, <1>6, <1>9, <2>1, UnpromisedKeeps
  <2> QED
    BY <1>7, <2>2
<1>8. CASE past # <<>>
  <2>1. past' = Front(past) /\ future' = Append(future, layers)
    BY <1>2, <1>8 DEF Behind, Ahead
  <2>12. ~astray /\ ~astray' /\ Ordered(layers)
    BY <1>1, <1>8, <1>9
  <2>2. /\ Linked(c, layers, Last(past), TRUE)
        /\ Chain(Front(undo), Front(past), Last(past), TRUE)
    BY <1>1, <1>8, ChainPop DEF c
  <2>3. Leads(c, Last(past), layers)
    BY <2>2 DEF Linked
  <2>4. layers' = Last(past)
    BY <1>2, <2>3 DEF Leads
  <2>5. /\ Len(past) \in Nat /\ Len(past) \in 1..Len(past) /\ Last(past) = past[Len(past)]
        /\ past' \in Seq(Document) /\ Len(past') = Len(past) - 1
        /\ \A j \in 1..(Len(past) - 1) : past'[j] = past[j]
    <3> DEFINE f == Front(past)
    <3>1. /\ Len(past) \in Nat /\ Len(past) > 0 /\ Last(past) = past[Len(past)]
          /\ f \in Seq(Document) /\ Len(f) = Len(past) - 1
          /\ \A j \in 1..(Len(past) - 1) : f[j] = past[j]
      BY <1>1, <1>8, TopOfFront
    <3>2. past' = f
      BY <2>1
    <3> HIDE DEF f
    <3>3. Len(past) \in 1..Len(past)
      BY <3>1
    <3> QED
      BY ONLY <3>1, <3>2, <3>3, Zenon
  <2>6. Ordered(layers') /\ \A i \in 1..Len(past') : Ordered(past'[i])
    <3>1. Ordered(layers')
      BY <1>1, <2>4, <2>5
    <3>2. \A i \in 1..Len(past') : i \in 1..(Len(past) - 1) /\ i \in 1..Len(past)
      BY <2>5
    <3> QED
      BY <1>1, <2>5, <3>1, <3>2
  <2>7. /\ future' \in Seq(Document) /\ Len(future') = Len(future) + 1 /\ Len(future) \in Nat
        /\ \A j \in 1..Len(future) : future'[j] = future[j]
        /\ future'[Len(future) + 1] = layers
    BY <1>1, <2>1, AppendProperties, LenProperties
  <2>8. \A i \in 1..Len(future') : Ordered(future'[i])
    <3>1. \A i \in 1..Len(future') : i \in 1..Len(future) \/ i = Len(future) + 1
      BY <2>7
    <3> QED
      BY <1>1, <2>7, <2>12, <3>1
  <2>9. Chain(undo', past', layers', TRUE)
    BY <1>2, <2>1, <2>2, <2>4
  <2>10. Chain(redo', future', layers', FALSE)
    <3>1. Linked(c, layers', layers, FALSE)
      BY <2>3, <2>4 DEF Linked
    <3>2. Chain(Append(redo, c), Append(future, layers), layers', FALSE)
      BY ONLY <1>1, <1>3, <3>1, ChainPush
    <3> QED
      BY <1>2, <2>1, <3>2
  <2>11. TypeOK'
    BY <1>1, <1>2, <1>3, <1>4, <1>5, <1>6, <1>9, <2>1, <2>5, <2>7 DEF TypeOK, Document, Widget
  <2> QED
    BY <1>6, <2>1, <2>4, <2>6, <2>8, <2>9, <2>10, <2>11, <2>12 DEF IInv
<1> QED
  BY <1>7, <1>8

\* Redoing, the other way.
LEMMA RedoLastKeeps ==
  ASSUME IInv, RedoLast
  PROVE  IInv' /\ (future # <<>> => layers' = Last(future))
<1> DEFINE c == Last(redo)
<1>1. /\ layers \in Document /\ widgets \in Seq(Widget)
      /\ Gapless(layers) /\ (~astray => Ordered(layers))
      /\ undo \in Seq(Command) /\ redo \in Seq(Command) /\ edits \in 0..MaxEdits
      /\ past \in Seq(Document) /\ future \in Seq(Document)
      /\ Chain(undo, past, layers, TRUE) /\ Chain(redo, future, layers, FALSE)
      /\ \A i \in 1..Len(past) : Ordered(past[i])
      /\ \A i \in 1..Len(future) : Ordered(future[i])
      /\ (astray => past = <<>> /\ future = <<>>)
  BY InvFact DEF IInv
<1>2. /\ redo # <<>> /\ Redoable(c, layers) /\ layers' = Redone(c, layers)
      /\ widgets' = CASE c.op = "addLayer"    -> WithWidget(widgets, c.l)
                      [] c.op = "removeLayer" -> WithoutWidget(widgets, c.l)
                      [] OTHER                -> widgets
      /\ redo' = Front(redo) /\ undo' = Append(undo, Saved(c, layers))
      /\ future' = Behind(future) /\ past' = Ahead(future, past)
      /\ Strays(future = <<>>) /\ edits' = edits
  BY DEF RedoLast
<1>3. c \in Command /\ redo' \in Seq(Command)
  BY <1>1, <1>2, TopOfFront
<1>4. layers' \in Document /\ Gapless(layers') /\ Saved(c, layers) \in Command
  BY <1>1, <1>2, <1>3, RedoneType
<1>5. undo' \in Seq(Command)
  BY <1>1, <1>2, <1>4, AppendProperties
<1>6. widgets' \in Seq(Widget)
  <2>1. \/ widgets' = WithoutWidget(widgets, c.l)
        \/ widgets' = WithWidget(widgets, c.l)
        \/ widgets' = widgets
    BY <1>2
  <2>2. c.l \in Nat \ {0}
    BY <1>3, CommandFact
  <2> QED
    BY <1>1, <2>1, <2>2, WidgetsType
<1>9. strays' \in 0..MaxStrays /\ (astray' <=> astray \/ future = <<>>)
  BY <1>2, StraysFact
<1> HIDE DEF c
<1>7. CASE future = <<>>
  <2>1. past' = <<>> /\ future' = <<>> /\ astray' /\ edits' \in 0..MaxEdits
    BY <1>1, <1>2, <1>7, <1>9 DEF Behind, Ahead
  <2>2. IInv'
    BY <1>3, <1>4, <1>5, <1>6, <1>9, <2>1, UnpromisedKeeps
  <2> QED
    BY <1>7, <2>2
<1>8. CASE future # <<>>
  <2>1. future' = Front(future) /\ past' = Append(past, layers)
    BY <1>2, <1>8 DEF Behind, Ahead
  <2>12. ~astray /\ ~astray' /\ Ordered(layers)
    BY <1>1, <1>8, <1>9
  <2>2. /\ Linked(c, layers, Last(future), FALSE)
        /\ Chain(Front(redo), Front(future), Last(future), FALSE)
    BY <1>1, <1>8, ChainPop DEF c
  <2>3. Leads(c, layers, Last(future))
    BY <2>2 DEF Linked
  <2>4. layers' = Last(future) /\ Saved(c, layers) = c
    BY <1>2, <2>3 DEF Leads
  <2>5. /\ Len(future) \in Nat /\ Len(future) \in 1..Len(future) /\ Last(future) = future[Len(future)]
        /\ future' \in Seq(Document) /\ Len(future') = Len(future) - 1
        /\ \A j \in 1..(Len(future) - 1) : future'[j] = future[j]
    <3> DEFINE f == Front(future)
    <3>1. /\ Len(future) \in Nat /\ Len(future) > 0 /\ Last(future) = future[Len(future)]
          /\ f \in Seq(Document) /\ Len(f) = Len(future) - 1
          /\ \A j \in 1..(Len(future) - 1) : f[j] = future[j]
      BY <1>1, <1>8, TopOfFront
    <3>2. future' = f
      BY <2>1
    <3> HIDE DEF f
    <3>3. Len(future) \in 1..Len(future)
      BY <3>1
    <3> QED
      BY ONLY <3>1, <3>2, <3>3, Zenon
  <2>6. Ordered(layers') /\ \A i \in 1..Len(future') : Ordered(future'[i])
    <3>1. Ordered(layers')
      BY <1>1, <2>4, <2>5
    <3>2. \A i \in 1..Len(future') : i \in 1..(Len(future) - 1) /\ i \in 1..Len(future)
      BY <2>5
    <3> QED
      BY <1>1, <2>5, <3>1, <3>2
  <2>7. /\ past' \in Seq(Document) /\ Len(past') = Len(past) + 1 /\ Len(past) \in Nat
        /\ \A j \in 1..Len(past) : past'[j] = past[j]
        /\ past'[Len(past) + 1] = layers
    BY <1>1, <2>1, AppendProperties, LenProperties
  <2>8. \A i \in 1..Len(past') : Ordered(past'[i])
    <3>1. \A i \in 1..Len(past') : i \in 1..Len(past) \/ i = Len(past) + 1
      BY <2>7
    <3> QED
      BY <1>1, <2>7, <2>12, <3>1
  <2>9. Chain(redo', future', layers', FALSE)
    BY <1>2, <2>1, <2>2, <2>4
  <2>10. Chain(undo', past', layers', TRUE)
    <3>1. Linked(c, layers', layers, TRUE)
      BY <2>3, <2>4 DEF Linked
    <3>2. Chain(Append(undo, c), Append(past, layers), layers', TRUE)
      BY ONLY <1>1, <1>3, <3>1, ChainPush
    <3> QED
      BY <1>2, <2>1, <2>4, <3>2
  <2>11. TypeOK'
    BY <1>1, <1>2, <1>3, <1>4, <1>5, <1>6, <1>9, <2>1, <2>5, <2>7 DEF TypeOK, Document, Widget
  <2> QED
    BY <1>4, <2>1, <2>4, <2>6, <2>8, <2>9, <2>10, <2>11, <2>12 DEF IInv
<1> QED
  BY <1>7, <1>8

-----------------------------------------------------------------------------
(* The theorems.                                                            *)

\* A document that is opened, before any command.
LEMMA InitInv == Init => IInv
<1> SUFFICES ASSUME Init PROVE IInv
  OBVIOUS
<1>1. /\ layers \in Documents /\ widgets = Fresh(Len(layers))
      /\ undo = <<>> /\ redo = <<>> /\ edits = 0 /\ past = <<>> /\ future = <<>> /\ strays = 0
  BY DEF Init
<1>2. layers \in Document /\ Ordered(layers) /\ Gapless(layers)
  <2>1. layers \in Document /\ Ordered(layers)
    BY <1>1, ViewAssumption DEF Document, Ordered
  <2> QED
    BY <2>1, OrderChained DEF Ordered, Gapless
<1>3. widgets \in Seq(Widget)
  <2>1. Len(layers) \in Nat
    BY <1>2, LenProperties DEF Document
  <2>2. widgets \in [1..Len(layers) -> Widget]
    BY <1>1, <2>1 DEF Fresh, Widget
  <2> QED
    BY <2>1, <2>2, FunctionIsSeq
<1>4. /\ undo \in Seq(Command) /\ redo \in Seq(Command)
      /\ past \in Seq(Document) /\ future \in Seq(Document) /\ Len(past) = 0 /\ Len(future) = 0
  BY <1>1, EmptySeq
<1>5. Chain(undo, past, layers, TRUE) /\ Chain(redo, future, layers, FALSE)
  BY <1>1, <1>4, ChainNone
<1>6. TypeOK
  <2>1. edits \in 0..MaxEdits /\ strays \in 0..MaxStrays
    <3>1. MaxEdits \in Nat /\ MaxStrays \in Nat
      BY ViewAssumption
    <3>2. 0 \in 0..MaxEdits /\ 0 \in 0..MaxStrays
      BY <3>1
    <3> QED
      BY <1>1, <3>2, Zenon
  <2> QED
    BY <1>2, <1>3, <1>4, <2>1 DEF TypeOK, Document, Widget
<1>7. /\ \A i \in 1..Len(past) : Ordered(past[i])
      /\ \A i \in 1..Len(future) : Ordered(future[i])
      /\ ~astray
  BY <1>1, <1>4 DEF astray
<1> QED
  BY <1>1, <1>2, <1>5, <1>6, <1>7 DEF IInv

\* The step is one of these, and what it does to the promises is a step of the history.
LEMMA NextInv ==
  ASSUME IInv, [Next]_vars
  PROVE  IInv'
<1>1. CASE UNCHANGED vars
  BY <1>1 DEF vars, IInv, TypeOK, astray
<1>2. CASE Next
  <2>0. Shown /\ 0..Duration \subseteq Times /\ Duration \in Nat
    BY <1>2, DurationAssumption DEF Next, Times
  <2>1. ASSUME NEW v \in DOMAIN widgets, NEW t \in 0..Duration, CreateAnchor(v, t) PROVE IInv'
    BY <2>0, <2>1, CreateAnchorKeeps
  <2>2. ASSUME NEW v \in DOMAIN widgets, NEW cursor, NEW reach,
               NEW t \in Hit(layers[widgets[v].at], cursor, reach), DeleteAnchor(v, t, reach)
        PROVE  IInv'
    <3>1. layers[widgets[v].at] \in Layer
      BY <2>0, ShownFact
    <3>2. t \in Times
      BY <3>1, HitTime
    <3> QED
      BY <2>0, <2>2, <3>2, DeleteAnchorKeeps
  <2>3. ASSUME NEW v \in DOMAIN widgets, NEW from \in Times, NEW to \in Times, DragAnchor(v, from, to)
        PROVE  IInv'
    BY <2>0, <2>3, DragAnchorKeeps
  <2>4. ASSUME NEW v \in DOMAIN widgets, NEW k \in Painted(layers[widgets[v].at].events),
               NEW text \in Texts, CommitEdit(v, k, text)
        PROVE  IInv'
    BY <2>0, <2>4, CommitEditKeeps
  <2>5. ASSUME NEW v \in DOMAIN widgets, RemoveLayer(v) PROVE IInv'
    BY <2>0, <2>5, RemoveLayerKeeps
  <2>6. ASSUME NEW v \in DOMAIN widgets, NEW label \in Labels, RenameLayer(v, label) PROVE IInv'
    BY <2>0, <2>6, RenameLayerKeeps
  <2>7. ASSUME NEW v \in DOMAIN widgets, NEW l \in 1..(Len(layers) + 1), DuplicateLayer(v, l) PROVE IInv'
    BY <2>0, <2>7, DuplicateLayerKeeps
  <2>8. ASSUME NEW v \in DOMAIN widgets, ClearLayer(v) PROVE IInv'
    BY <2>0, <2>8, ClearLayerKeeps
  <2>9. ASSUME NEW l \in 1..(Len(layers) + 1), NEW label \in Labels, NEW instants \in BOOLEAN,
               CreateLayer(l, label, instants)
        PROVE  IInv'
    BY <2>0, <2>9, CreateLayerKeeps
  <2>10. ASSUME NEW l \in DOMAIN layers, NEW k \in DOMAIN layers[l].events, NEW text \in Texts,
                ReplaceText(l, k, text)
         PROVE  IInv'
    BY <2>0, <2>10, ReplaceTextKeeps
  <2>11. ASSUME NEW on, NEW needle, NEW text \in Texts, ReplaceTexts(on, needle, text) PROVE IInv'
    BY <2>0, <2>11, ReplaceTextsKeeps
  <2>12. ASSUME NEW shared \in BOOLEAN, ToggleSharing(shared) PROVE IInv'
    BY <2>12, ToggleSharingKeeps
  <2>13. ASSUME UndoLast PROVE IInv'
    BY <2>0, <2>13, UndoLastKeeps
  <2>14. ASSUME RedoLast PROVE IInv'
    BY <2>0, <2>14, RedoLastKeeps
  <2> QED
    BY <1>2, <2>1, <2>2, <2>3, <2>4, <2>5, <2>6, <2>7, <2>8, <2>9, <2>10, <2>11, <2>12, <2>13, <2>14 DEF Next
<1> QED
  BY <1>1, <1>2

\* What the invariant says of the properties.
LEMMA InvImplies == IInv => WellFormed /\ UndoSafe
<1> SUFFICES ASSUME IInv PROVE WellFormed /\ UndoSafe
  OBVIOUS
<1>1. WellFormed
  BY DEF IInv, WellFormed, Ordered, Gapless
<1>2. ASSUME past # <<>> PROVE Undoable(Last(undo), layers)
  <2>1. Linked(Last(undo), layers, Last(past), TRUE)
    BY <1>2, InvFact, ChainPop
  <2> QED
    BY <2>1 DEF Linked, Leads
<1>3. ASSUME future # <<>> PROVE Redoable(Last(redo), layers)
  <2>1. Linked(Last(redo), layers, Last(future), FALSE)
    BY <1>3, InvFact, ChainPop
  <2> QED
    BY <2>1 DEF Linked, Leads
<1> QED
  BY <1>1, <1>2, <1>3 DEF UndoSafe

\* An edit, whatever it records, is an edit of the history or ends its promises.
LEMMA EditIsHistory ==
  ASSUME NEW c, NEW before, NEW stray, Record(c, before, stray) \/ Unrecorded, Edited
  PROVE  History!Next
<1>0. edits' = edits + 1
  BY DEF Edited
<1>1. CASE Unrecorded
  <2>1. Len(past') <= 1 /\ future' = <<>>
    BY <1>1, EmptySeq DEF Unrecorded
  <2> QED
    BY <1>0, <2>1 DEF History!Forget, History!Next
<1>2. CASE Record(c, before, stray)
  <2>1. /\ future' = <<>>
        /\ past' = IF astray' THEN <<>> ELSE IF before = layers THEN Pushed(past, layers) ELSE <<before>>
    BY <1>2 DEF Record
  <2>2. CASE past' = Pushed(past, layers)
    BY <1>0, <2>1, <2>2 DEF Pushed, History!Edit, History!Next
  <2>3. CASE past' = <<>> \/ past' = <<before>>
    <3>1. Len(past') <= 1
      <4>1. CASE past' = <<>>
        BY <4>1, EmptySeq
      <4>2. CASE past' = <<before>>
        BY <4>2
      <4> QED
        BY <2>3, <4>1, <4>2
    <3> QED
      BY <1>0, <2>1, <3>1 DEF History!Forget, History!Next
  <2> QED
    BY <2>1, <2>2, <2>3
<1> QED
  BY <1>1, <1>2

\* Every step of the view is a step of the history.
LEMMA NextHistory ==
  ASSUME IInv, [Next]_vars
  PROVE  [History!Next]_<<layers, edits, past, future>>
<1>1. CASE UNCHANGED vars
  BY <1>1 DEF vars
<1>2. CASE Next
  <2>0. Shown
    BY <1>2 DEF Next
  <2>1. ASSUME NEW v, NEW t, CreateAnchor(v, t) PROVE History!Next
    <3>1. Edited /\ \E c, before, stray : Record(c, before, stray)
      BY <2>1 DEF CreateAnchor
    <3> QED
      BY <3>1, EditIsHistory
  <2>2. ASSUME NEW v, NEW t, NEW reach, DeleteAnchor(v, t, reach) PROVE History!Next
    <3>1. Edited /\ \E c, before, stray : Record(c, before, stray)
      BY <2>2 DEF DeleteAnchor
    <3> QED
      BY <3>1, EditIsHistory
  <2>3. ASSUME NEW v, NEW from, NEW to, DragAnchor(v, from, to) PROVE History!Next
    <3>1. Edited /\ \E c, before, stray : Record(c, before, stray)
      BY <2>3 DEF DragAnchor
    <3> QED
      BY <3>1, EditIsHistory
  <2>4. ASSUME NEW v, NEW k, NEW text, CommitEdit(v, k, text) PROVE History!Next
    <3>1. Edited /\ \E c, before, stray : Record(c, before, stray)
      BY <2>4 DEF CommitEdit
    <3> QED
      BY <3>1, EditIsHistory
  <2>5. ASSUME NEW v, RemoveLayer(v) PROVE History!Next
    <3>1. Edited /\ \E c, before, stray : Record(c, before, stray)
      BY <2>5 DEF RemoveLayer
    <3> QED
      BY <3>1, EditIsHistory
  <2>6. ASSUME NEW v, NEW label, RenameLayer(v, label) PROVE History!Next
    <3>1. Edited /\ \E c, before, stray : Record(c, before, stray)
      BY <2>6 DEF RenameLayer
    <3> QED
      BY <3>1, EditIsHistory
  <2>7. ASSUME NEW l, NEW label, NEW instants, CreateLayer(l, label, instants) PROVE History!Next
    <3>1. Edited /\ \E c, before, stray : Record(c, before, stray)
      BY <2>7 DEF CreateLayer
    <3> QED
      BY <3>1, EditIsHistory
  <2>8. ASSUME Unrecorded, Edited PROVE History!Next
    BY <2>8, EditIsHistory
  <2>9. ASSUME NEW v, NEW l, DuplicateLayer(v, l) PROVE History!Next
    BY <2>8, <2>9 DEF DuplicateLayer
  <2>10. ASSUME NEW v, ClearLayer(v) PROVE History!Next
    BY <2>8, <2>10 DEF ClearLayer
  <2>11. ASSUME NEW l, NEW k, NEW text, ReplaceText(l, k, text) PROVE History!Next
    BY <2>8, <2>11 DEF ReplaceText
  <2>12. ASSUME NEW on, NEW needle, NEW text, ReplaceTexts(on, needle, text) PROVE History!Next
    BY <2>8, <2>12 DEF ReplaceTexts
  <2>13. ASSUME NEW shared, ToggleSharing(shared) PROVE UNCHANGED <<layers, edits, past, future>>
    BY <2>13 DEF ToggleSharing
  <2>14. ASSUME UndoLast PROVE History!Next
    <3>1. past' = Behind(past) /\ future' = Ahead(past, future) /\ edits' = edits
      BY <2>14 DEF UndoLast
    <3>2. CASE past = <<>>
      <4>1. past' = <<>> /\ future' = <<>>
        BY <3>1, <3>2 DEF Behind, Ahead
      <4> QED
        BY <3>1, <3>2, <4>1 DEF History!Unpromised, History!Next
    <3>3. CASE past # <<>>
      <4>1. past' = Front(past) /\ future' = Append(future, layers)
        BY <3>1, <3>3 DEF Behind, Ahead
      <4>2. layers' = Last(past)
        BY <2>14, <3>3, UndoLastKeeps
      <4> QED
        BY <3>1, <3>3, <4>1, <4>2 DEF History!Undo, History!Next, History!Last, History!Front, Last, Front
    <3> QED
      BY <3>2, <3>3
  <2>15. ASSUME RedoLast PROVE History!Next
    <3>1. future' = Behind(future) /\ past' = Ahead(future, past) /\ edits' = edits
      BY <2>15 DEF RedoLast
    <3>2. CASE future = <<>>
      <4>1. past' = <<>> /\ future' = <<>>
        BY <3>1, <3>2 DEF Behind, Ahead
      <4> QED
        BY <3>1, <3>2, <4>1 DEF History!Unpromised, History!Next
    <3>3. CASE future # <<>>
      <4>1. future' = Front(future) /\ past' = Append(past, layers)
        BY <3>1, <3>3 DEF Behind, Ahead
      <4>2. layers' = Last(future)
        BY <2>15, <3>3, RedoLastKeeps
      <4> QED
        BY <3>1, <3>3, <4>1, <4>2 DEF History!Redo, History!Next, History!Last, History!Front, Last, Front
    <3> QED
      BY <3>2, <3>3
  <2> QED
    BY <1>2, <2>1, <2>2, <2>3, <2>4, <2>5, <2>6, <2>7, <2>9, <2>10, <2>11, <2>12, <2>13, <2>14, <2>15 DEF Next
<1> QED
  BY <1>1, <1>2

\* The invariant holds throughout.
LEMMA InvHolds == Spec => []IInv
<1>1. IInv /\ [Next]_vars => IInv'
  BY NextInv
<1> QED
  BY <1>1, InitInv, PTL DEF Spec

\* The document, the widgets, the stacks and the commands on them are what
\* their types say, whatever is edited, undone and redone, and wherever an
\* anchor is dropped (annotation_commands.hpp).
THEOREM TypeCorrect == Spec => []TypeOK
<1>1. IInv => TypeOK
  BY DEF IInv
<1> QED
  BY <1>1, InvHolds, PTL

\* Through any editing, undoing and redoing, the intervals of a layer follow one
\* another without a gap from the beginning, wherever an anchor is dropped; and
\* until the first edit or undo that goes astray they cover the recording
\* without overlap, and the instants of a layer are in order and distinct
\* (annotation_data.hpp:35, 74).
THEOREM LayersInOrder == Spec => []WellFormed
<1>1. IInv => WellFormed
  BY InvImplies
<1> QED
  BY <1>1, InvHolds, PTL

\* A command that undo or redo runs on the document it has to restore finds the
\* layer and the event it names in place, and nothing is thrown.
THEOREM UndoIsSafe == Spec => []UndoSafe
<1>1. IInv => UndoSafe
  BY InvImplies
<1> QED
  BY <1>1, InvHolds, PTL

\* Undo gives back exactly the document each edit promised, one edit at a time
\* and as deep as the stack, and redo exactly the one after it: the view
\* implements UndoHistory (command.hpp).
THEOREM UndoRestores == Spec => IsHistory
<1>1. Init => History!Init
  BY DEF Init, History!Init
<1>2. IInv /\ [Next]_vars => [History!Next]_<<layers, edits, past, future>>
  BY NextHistory
<1> QED
  BY <1>1, <1>2, InvHolds, PTL DEF Spec, IsHistory, History!Spec
=============================================================================
