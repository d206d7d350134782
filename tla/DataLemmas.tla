----------------------------- MODULE DataLemmas -----------------------------
(***************************************************************************)
(* What the proofs need of Min, on the sets of naturals the models take it  *)
(* of, of the sizes of finite sets, of the operators of Counting, of passes *)
(* over a sequence, and of a sequence that grows or shrinks by an element.  *)
(***************************************************************************)
EXTENDS Counting, SequencesExt, FiniteSetsExt, FiniteSetTheorems, SequenceTheorems, WellFoundedInduction, TLAPS

\* A non-empty set of naturals has a least element, and Min returns it.
LEMMA MinLeast ==
  ASSUME NEW S \in SUBSET Nat, S # {}
  PROVE  Min(S) \in S /\ \A x \in S : Min(S) <= x
<1>1. PICK m \in S : \A y \in S : ~ (<<y, m>> \in OpToRel(<, Nat))
  BY NatLessThanWellFounded, WFMin, Zenon
<1>2. \A y \in S : m <= y
  <2> TAKE y \in S
  <2>1. y < m => <<y, m>> \in OpToRel(<, Nat)
    BY DEF OpToRel
  <2>2. ~ (y < m)
    BY <1>1, <2>1, Zenon
  <2> QED
    BY <2>2
<1> QED
  BY <1>2 DEF Min

\* ... and nothing else is one.
LEMMA MinUnique ==
  ASSUME NEW S \in SUBSET Nat, NEW m \in S, \A x \in S : m <= x
  PROVE  Min(S) = m
<1>1. Min(S) \in S /\ \A x \in S : Min(S) <= x
  BY MinLeast
<1>2. Min(S) <= m /\ m <= Min(S)
  BY <1>1
<1>3. Min(S) \in Nat /\ m \in Nat
  BY <1>1
<1> QED
  BY <1>2, <1>3

\* A function that takes no value twice has as many values as arguments.
LEMMA ImageCount ==
  ASSUME NEW S, IsFiniteSet(S), NEW f, f = [x \in S |-> f[x]], \A x, y \in S : f[x] = f[y] => x = y
  PROVE  IsFiniteSet({f[x] : x \in S}) /\ Cardinality({f[x] : x \in S}) = Cardinality(S)
<1> DEFINE T == {f[x] : x \in S}
<1>1. f \in Bijection(S, T)
  BY DEF Bijection, Injection, Surjection, IsInjective
<1> QED
  BY <1>1, FS_Bijection DEF ExistsBijection

\* Sets that share nothing add up.
LEMMA ApartCount ==
  ASSUME NEW S, NEW T, IsFiniteSet(S), IsFiniteSet(T), S \cap T = {}
  PROVE  IsFiniteSet(S \cup T) /\ Cardinality(S \cup T) = Cardinality(S) + Cardinality(T)
<1>1. Cardinality(S) \in Nat /\ Cardinality(T) \in Nat
  BY FS_CardinalityType
<1> QED
  BY <1>1, FS_Union, FS_EmptySet

\* An element more, or not.
LEMMA OneMore ==
  ASSUME NEW S, IsFiniteSet(S), NEW x, x \notin S, NEW T, NEW b \in BOOLEAN,
         T = IF b THEN S \cup {x} ELSE S
  PROVE  Cardinality(T) = Cardinality(S) + IF b THEN 1 ELSE 0
<1>1. Cardinality(S) \in Nat
  BY FS_CardinalityType
<1> QED
  BY <1>1, FS_AddElement

\* An element less, or not.
LEMMA OneLess ==
  ASSUME NEW S, IsFiniteSet(S), NEW x, NEW T, NEW b \in BOOLEAN, b => x \in S,
         T = IF b THEN S \ {x} ELSE S
  PROVE  Cardinality(T) = Cardinality(S) - IF b THEN 1 ELSE 0
<1>1. Cardinality(S) \in Nat
  BY FS_CardinalityType
<1> QED
  BY <1>1, FS_RemoveElement

\* The numbers up to n are n.
LEMMA CountUpTo ==
  ASSUME NEW n \in Nat
  PROVE  IsFiniteSet(1..n) /\ Cardinality(1..n) = n
<1>1. 1 \in Int /\ n \in Int
  OBVIOUS
<1>2. IsFiniteSet(1..n) /\ Cardinality(1..n) = IF 1 > n THEN 0 ELSE n - 1 + 1
  BY <1>1, FS_Interval
<1> QED
  BY <1>2

\* Comparing two sets that differ in an element or two.
LEMMA CountSubset ==
  ASSUME NEW B, IsFiniteSet(B), NEW A, A \subseteq B
  PROVE  Cardinality(A) \in Nat /\ Cardinality(B) \in Nat /\ Cardinality(A) <= Cardinality(B)
  BY FS_Subset, FS_CardinalityType

\* All but one, in a set,
LEMMA CountButOne ==
  ASSUME NEW B, IsFiniteSet(B), NEW A, NEW x, A \subseteq B \cup {x}
  PROVE  Cardinality(A) \in Nat /\ Cardinality(B) \in Nat /\ Cardinality(A) <= Cardinality(B) + 1
<1>1. IsFiniteSet(B \cup {x}) /\ Cardinality(B \cup {x}) = IF x \in B THEN Cardinality(B) ELSE Cardinality(B) + 1
  BY FS_AddElement
<1>2. Cardinality(A) \in Nat /\ Cardinality(A) <= Cardinality(B \cup {x})
  BY <1>1, CountSubset
<1>3. Cardinality(B) \in Nat
  BY FS_CardinalityType
<1> QED
  BY <1>1, <1>2, <1>3

\* ... with one more,
LEMMA CountWithOne ==
  ASSUME NEW B, IsFiniteSet(B), NEW A, NEW x \in B, x \notin A, A \subseteq B
  PROVE  Cardinality(A) \in Nat /\ Cardinality(B) \in Nat /\ Cardinality(A) + 1 <= Cardinality(B)
<1>1. IsFiniteSet(A) /\ Cardinality(A) \in Nat /\ Cardinality(B) \in Nat
  BY FS_Subset, FS_CardinalityType
<1>2. Cardinality(A \cup {x}) = Cardinality(A) + 1
  BY <1>1, FS_AddElement
<1>3. A \cup {x} \subseteq B
  OBVIOUS
<1>4. Cardinality(A \cup {x}) <= Cardinality(B)
  BY <1>3, CountSubset
<1> QED
  BY <1>1, <1>2, <1>4

\* ... or one for another.
LEMMA CountSwap ==
  ASSUME NEW B, IsFiniteSet(B), NEW A, NEW x, NEW y \in B, y \notin A, A \ {x} \subseteq B
  PROVE  Cardinality(A) \in Nat /\ Cardinality(B) \in Nat /\ Cardinality(A) <= Cardinality(B)
<1>1. IsFiniteSet(B \ {y}) /\ Cardinality(B \ {y}) = Cardinality(B) - 1
  BY FS_RemoveElement
<1>2. A \subseteq (B \ {y}) \cup {x}
  OBVIOUS
<1>3. Cardinality(A) \in Nat /\ Cardinality(A) <= Cardinality(B \ {y}) + 1
  BY <1>1, <1>2, CountButOne
<1>4. Cardinality(B) \in Nat
  BY FS_CardinalityType
<1> QED
  BY <1>1, <1>3, <1>4

-----------------------------------------------------------------------------
(* Sums.                                                                    *)

\* The units of one value.
LEMMA UnitsOfOne ==
  ASSUME NEW x, NEW n \in Nat
  PROVE  IsFiniteSet({x} \X (1..n)) /\ Cardinality({x} \X (1..n)) = n
<1>1. IsFiniteSet({x}) /\ Cardinality({x}) = 1
  BY FS_Singleton
<1>2. IsFiniteSet(1..n) /\ Cardinality(1..n) = n
  BY CountUpTo
<1>3. IsFiniteSet({x} \X (1..n)) /\ Cardinality({x} \X (1..n)) = Cardinality({x}) * Cardinality(1..n)
  BY <1>1, <1>2, FS_Product
<1> QED
  BY <1>1, <1>2, <1>3

\* A sum of finitely many naturals is one.
LEMMA SumType ==
  ASSUME NEW D, IsFiniteSet(D), NEW f \in [D -> Nat]
  PROVE  IsFiniteSet(Units(f)) /\ SumOf(f) \in Nat
<1> DEFINE u == [x \in D |-> {x} \X (1..f[x])]
           U == {u[x] : x \in D}
<1>1. IsFiniteSet(U)
  <2>1. u \in Surjection(D, U)
    BY DEF Surjection
  <2> QED
    BY <2>1, FS_Surjection
<1>2. \A T \in U : IsFiniteSet(T)
  <2> SUFFICES ASSUME NEW x \in D PROVE IsFiniteSet(u[x])
    OBVIOUS
  <2>1. f[x] \in Nat
    OBVIOUS
  <2> QED
    BY <2>1, UnitsOfOne
<1>3. Units(f) = UNION U
  BY DEF Units
<1>4. IsFiniteSet(Units(f))
  BY <1>1, <1>2, <1>3, FS_UNION
<1> QED
  BY <1>4, FS_CardinalityType DEF SumOf

\* The units of the values but one.
LEMMA UnitsBut ==
  ASSUME NEW D, IsFiniteSet(D), NEW f \in [D -> Nat], NEW d \in D,
         NEW R, R = UNION {{x} \X (1..f[x]) : x \in D \ {d}}
  PROVE  IsFiniteSet(R) /\ Cardinality(R) \in Nat /\ SumOf(f) = Cardinality(R) + f[d]
<1> DEFINE u == {d} \X (1..f[d])
<1>1. f[d] \in Nat /\ DOMAIN f = D
  OBVIOUS
<1>2. IsFiniteSet(u) /\ Cardinality(u) = f[d]
  BY <1>1, UnitsOfOne
<1>3. R \cap u = {}
  OBVIOUS
<1>4. Units(f) = R \cup u
  <2>1. Units(f) = UNION {{x} \X (1..f[x]) : x \in D}
    BY <1>1 DEF Units
  <2>2. {{x} \X (1..f[x]) : x \in D} = {{x} \X (1..f[x]) : x \in D \ {d}} \cup {u}
    BY Zenon
  <2>3. ASSUME NEW A, NEW B, A = B \cup {u} PROVE UNION A = (UNION B) \cup u
    BY <2>3
  <2> HIDE DEF u
  <2> QED
    BY <2>1, <2>2, <2>3
<1>5. IsFiniteSet(R)
  BY <1>4, SumType, FS_Subset
<1>6. Cardinality(R) \in Nat
  BY <1>5, FS_CardinalityType
<1> HIDE DEF u
<1>7. Cardinality(R \cup u) = Cardinality(R) + Cardinality(u)
  BY <1>2, <1>3, <1>5, ApartCount
<1> QED
  BY <1>2, <1>4, <1>5, <1>6, <1>7 DEF SumOf

\* A value that changes changes the sum by as much.
LEMMA SumChange ==
  ASSUME NEW D, IsFiniteSet(D), NEW f \in [D -> Nat], NEW g \in [D -> Nat], NEW d \in D,
         \A x \in D : x # d => g[x] = f[x]
  PROVE  /\ SumOf(f) \in Nat /\ SumOf(g) \in Nat
         /\ SumOf(g) = SumOf(f) - f[d] + g[d]
<1> DEFINE R == UNION {{x} \X (1..f[x]) : x \in D \ {d}}
           Q == UNION {{x} \X (1..g[x]) : x \in D \ {d}}
<1>1. Q = R
  <2>1. \A x \in D \ {d} : {x} \X (1..g[x]) = {x} \X (1..f[x])
    OBVIOUS
  <2>2. {{x} \X (1..f[x]) : x \in D \ {d}} = {{x} \X (1..g[x]) : x \in D \ {d}}
    BY <2>1, Zenon
  <2> QED
    BY <2>2
<1>2. Cardinality(R) \in Nat /\ SumOf(f) = Cardinality(R) + f[d]
  BY UnitsBut
<1>3. SumOf(g) = Cardinality(Q) + g[d]
  BY UnitsBut
<1> HIDE DEF Q, R
<1>4. f[d] \in Nat /\ g[d] \in Nat
  OBVIOUS
<1> QED
  BY <1>1, <1>2, <1>3, <1>4

\* No value is above the sum.
LEMMA SumAtLeast ==
  ASSUME NEW D, IsFiniteSet(D), NEW f \in [D -> Nat], NEW d \in D
  PROVE  SumOf(f) \in Nat /\ f[d] <= SumOf(f)
<1> DEFINE R == UNION {{x} \X (1..f[x]) : x \in D \ {d}}
<1>1. Cardinality(R) \in Nat /\ SumOf(f) = Cardinality(R) + f[d]
  BY UnitsBut
<1> HIDE DEF R
<1>2. f[d] \in Nat
  OBVIOUS
<1> QED
  BY <1>1, <1>2

\* A sum of zeros and ones counts the ones.
LEMMA SumOfOnes ==
  ASSUME NEW D, IsFiniteSet(D), NEW f \in [D -> Nat], \A x \in D : f[x] \in {0, 1}
  PROVE  SumOf(f) = Cardinality({x \in D : f[x] = 1})
<1> DEFINE O == {x \in D : f[x] = 1}
           u == [x \in O |-> <<x, 1>>]
<1>1. IsFiniteSet(O)
  BY FS_Subset
<1>2. Cardinality({u[x] : x \in O}) = Cardinality(O)
  <2>1. \A x, y \in O : u[x] = u[y] => x = y
    OBVIOUS
  <2>2. u = [x \in O |-> u[x]]
    OBVIOUS
  <2> HIDE DEF O, u
  <2> QED
    BY <2>1, <2>2, <1>1, ImageCount
<1>3. Units(f) = {u[x] : x \in O}
  <2>1. ASSUME NEW x \in D PROVE {x} \X (1..f[x]) = IF f[x] = 1 THEN {<<x, 1>>} ELSE {}
    <3>1. CASE f[x] = 1
      <4>1. 1..f[x] = {1}
        BY <3>1
      <4> QED
        BY <4>1, <3>1
    <3>2. CASE f[x] = 0
      <4>1. 1..f[x] = {}
        BY <3>2
      <4> QED
        BY <4>1, <3>2
    <3> QED
      BY <3>1, <3>2
  <2>2. ASSUME NEW p PROVE p \in Units(f) <=> \E x \in D : p \in {x} \X (1..f[x])
    BY DEF Units
  <2>3. ASSUME NEW p PROVE p \in {u[x] : x \in O} <=> \E x \in D : f[x] = 1 /\ p = <<x, 1>>
    OBVIOUS
  <2>4. ASSUME NEW p PROVE p \in Units(f) <=> p \in {u[x] : x \in O}
    <3>1. ASSUME NEW x \in D PROVE p \in {x} \X (1..f[x]) <=> f[x] = 1 /\ p = <<x, 1>>
      BY <2>1
    <3> QED
      BY <2>2, <2>3, <3>1, Zenon
  <2> HIDE DEF O, u
  <2> QED
    BY <2>4
<1> QED
  BY <1>2, <1>3 DEF SumOf

-----------------------------------------------------------------------------
(* Occurrences in a sequence.                                               *)

\* They are finitely many, and none in the empty sequence.
LEMMA OccurrencesType ==
  ASSUME NEW S, NEW s \in Seq(S), NEW x
  PROVE  IsFiniteSet({i \in DOMAIN s : s[i] = x}) /\ Occurrences(s, x) \in Nat
<1>1. DOMAIN s = 1..Len(s) /\ Len(s) \in Nat
  BY LenProperties
<1>2. IsFiniteSet(1..Len(s))
  BY <1>1, CountUpTo
<1>3. {i \in DOMAIN s : s[i] = x} \in SUBSET (1..Len(s))
  BY <1>1
<1>4. IsFiniteSet({i \in DOMAIN s : s[i] = x})
  BY <1>2, <1>3, FS_Subset
<1> QED
  BY <1>4, FS_CardinalityType DEF Occurrences

\* Nothing occurs in the empty sequence.
LEMMA OccurrencesNone == ASSUME NEW x PROVE Occurrences(<<>>, x) = 0
<1>1. {i \in DOMAIN <<>> : <<>>[i] = x} = {}
  OBVIOUS
<1> QED
  BY <1>1, FS_EmptySet DEF Occurrences

\* The occurrences in two sequences add up.
LEMMA OccurrencesConcat ==
  ASSUME NEW S, NEW s \in Seq(S), NEW u \in Seq(S), NEW x
  PROVE  Occurrences(s \o u, x) = Occurrences(s, x) + Occurrences(u, x)
<1> DEFINE n == Len(s)
           A == {i \in DOMAIN s : s[i] = x}
           B == {i \in DOMAIN u : u[i] = x}
           C == {i \in DOMAIN (s \o u) : (s \o u)[i] = x}
           f == [i \in B |-> n + i]
           M == {f[i] : i \in B}
<1>1. /\ n \in Nat /\ Len(u) \in Nat
      /\ DOMAIN s = 1..n /\ DOMAIN u = 1..Len(u) /\ DOMAIN (s \o u) = 1..(n + Len(u))
      /\ \A i \in 1..(n + Len(u)) : (s \o u)[i] = IF i <= n THEN s[i] ELSE u[i - n]
  BY ConcatProperties, LenProperties
<1>2. IsFiniteSet(A) /\ IsFiniteSet(B)
  BY OccurrencesType
<1>3. IsFiniteSet(M) /\ Cardinality(M) = Cardinality(B)
  <2>1. \A i, j \in B : f[i] = f[j] => i = j
    BY <1>1
  <2>2. f = [i \in B |-> f[i]]
    OBVIOUS
  <2> HIDE DEF B, f
  <2> QED
    BY <2>1, <2>2, <1>2, ImageCount
<1>4. C = A \cup M
  <2>1. ASSUME NEW i \in C PROVE i \in A \cup M
    <3>1. i \in 1..(n + Len(u)) /\ (s \o u)[i] = x
      BY <1>1
    <3>2. CASE i <= n
      BY <3>1, <3>2, <1>1
    <3>3. CASE ~(i <= n)
      <4>1. i - n \in 1..Len(u) /\ n + (i - n) = i
        BY <3>1, <3>3, <1>1
      <4>2. i - n \in B
        BY <4>1, <3>1, <3>3, <1>1
      <4>3. f[i - n] = i
        BY <4>1, <4>2
      <4> QED
        BY <4>2, <4>3
    <3> QED
      BY <3>2, <3>3
  <2>2. ASSUME NEW i \in A PROVE i \in C
    <3>1. i \in 1..n /\ s[i] = x
      BY <1>1
    <3>2. i \in 1..(n + Len(u)) /\ i <= n
      BY <3>1, <1>1
    <3> QED
      BY <3>1, <3>2, <1>1
  <2>3. ASSUME NEW i \in B PROVE f[i] \in C
    <3>1. i \in 1..Len(u) /\ u[i] = x /\ f[i] = n + i
      BY <1>1
    <3>2. n + i \in 1..(n + Len(u)) /\ ~(n + i <= n) /\ (n + i) - n = i
      BY <3>1, <1>1
    <3>3. (s \o u)[n + i] = x
      BY <3>1, <3>2, <1>1
    <3> QED
      BY <3>1, <3>2, <3>3, <1>1
  <2> QED
    BY <2>1, <2>2, <2>3
<1>5. A \cap M = {}
  <2> SUFFICES ASSUME NEW i \in B, f[i] \in A PROVE FALSE
    OBVIOUS
  <2>1. i \in 1..Len(u) /\ f[i] = n + i /\ f[i] \in 1..n
    BY <1>1
  <2> QED
    BY <2>1, <1>1
<1> HIDE DEF A, M, B, C, f
<1>6. Cardinality(A \cup M) = Cardinality(A) + Cardinality(M)
  BY <1>2, <1>3, <1>5, ApartCount
<1> QED
  BY <1>3, <1>4, <1>6 DEF Occurrences, A, B, C

\* One value alone.
LEMMA OccurrencesOne ==
  ASSUME NEW y, NEW x
  PROVE  Occurrences(<<y>>, x) = IF y = x THEN 1 ELSE 0
<1>1. DOMAIN <<y>> = {1} /\ <<y>>[1] = y
  OBVIOUS
<1>2. {i \in DOMAIN <<y>> : <<y>>[i] = x} = IF y = x THEN {1} ELSE {}
  BY <1>1
<1> QED
  BY <1>2, FS_EmptySet, FS_Singleton DEF Occurrences

\* One value at the end, or at the front.
LEMMA OccurrencesAppend ==
  ASSUME NEW S, NEW s \in Seq(S), NEW y \in S, NEW x
  PROVE  Occurrences(Append(s, y), x) = Occurrences(s, x) + IF y = x THEN 1 ELSE 0
<1>1. Append(s, y) = s \o <<y>> /\ <<y>> \in Seq(S)
  BY AppendIsConcat
<1>2. Occurrences(s \o <<y>>, x) = Occurrences(s, x) + Occurrences(<<y>>, x)
  BY <1>1, OccurrencesConcat
<1> QED
  BY <1>1, <1>2, OccurrencesOne

\* What occurs in a sequence is its head and what occurs in its tail.
LEMMA OccurrencesTail ==
  ASSUME NEW S, NEW s \in Seq(S), s # <<>>, NEW x
  PROVE  Occurrences(s, x) = (IF Head(s) = x THEN 1 ELSE 0) + Occurrences(Tail(s), x)
<1>1. Head(s) \in S /\ Tail(s) \in Seq(S) /\ <<Head(s)>> \in Seq(S)
  BY HeadTailProperties
<1>2. s = <<Head(s)>> \o Tail(s)
  OBVIOUS
<1>3. Occurrences(<<Head(s)>> \o Tail(s), x) = Occurrences(<<Head(s)>>, x) + Occurrences(Tail(s), x)
  BY <1>1, OccurrencesConcat
<1> QED
  BY <1>2, <1>3, OccurrencesOne

\* A function on 1..n is a sequence of length n.
LEMMA FunctionIsSeq ==
  ASSUME NEW S, NEW n \in Nat, NEW f \in [1..n -> S]
  PROVE  f \in Seq(S) /\ Len(f) = n
<1>1. f \in Seq(S)
  BY SeqDef
<1>2. Len(f) \in Nat /\ DOMAIN f = 1..Len(f) /\ DOMAIN f = 1..n
  BY <1>1, LenProperties
<1>3. ~(Len(f) < n)
  <2> SUFFICES ASSUME Len(f) < n PROVE FALSE
    OBVIOUS
  <2>1. n \in 1..n /\ n \notin 1..Len(f)
    BY <1>2
  <2> QED
    BY <2>1, <1>2
<1>4. ~(n < Len(f))
  <2> SUFFICES ASSUME n < Len(f) PROVE FALSE
    OBVIOUS
  <2>1. Len(f) \in 1..Len(f) /\ Len(f) \notin 1..n
    BY <1>2
  <2> QED
    BY <2>1, <1>2
<1> QED
  BY <1>1, <1>2, <1>3, <1>4

-----------------------------------------------------------------------------
(* Passes over the numbers up to n.                                         *)

\* Counting up from 0 reaches every number.
LEMMA UpTo ==
  ASSUME NEW n \in Nat, NEW S, 0 \in S, \A k \in 0..(n - 1) : k \in S => k + 1 \in S
  PROVE  \A k \in 0..n : k \in S
<1> DEFINE T == {k \in 0..n : k \notin S}
<1>1. SUFFICES ASSUME T # {} PROVE FALSE
  OBVIOUS
<1>2. PICK m \in T : \A k \in T : m <= k
  <2>1. T \in SUBSET Nat
    OBVIOUS
  <2> HIDE DEF T
  <2> QED
    BY <1>1, <2>1, MinLeast
<1>3. m \in 0..n /\ m \notin S /\ m # 0
  OBVIOUS
<1>4. m - 1 \in 0..(n - 1) /\ m - 1 \in 0..n /\ ~(m <= m - 1) /\ (m - 1) + 1 = m
  BY <1>3
<1>5. m - 1 \in S
  BY <1>2, <1>4
<1> QED
  BY <1>3, <1>4, <1>5

\* f goes through the steps of g from b.
Pass(f, b, g, n) == f[0] = b /\ \A k \in 1..n : f[k] = g[<<k, f[k - 1]>>]

\* A pass that goes on from step to step has a value at each.
LEMMA PassExists ==
  ASSUME NEW n \in Nat, NEW V, NEW b \in V, NEW g, DOMAIN g = (1..n) \X V,
         \A k \in 1..n, v \in V : g[<<k, v>>] \in V
  PROVE  \E f \in [0..n -> V] : Pass(f, b, g, n)
<1> DEFINE S == {k \in 0..n : \E f \in [0..k -> V] : Pass(f, b, g, k)}
<1>1. 0 \in S
  <2> DEFINE h == [j \in 0..0 |-> b]
  <2>1. h \in [0..0 -> V] /\ h[0] = b /\ \A j \in 1..0 : FALSE
    OBVIOUS
  <2>2. Pass(h, b, g, 0)
    BY <2>1 DEF Pass
  <2> HIDE DEF h
  <2> QED
    BY <2>1, <2>2
<1>2. \A k \in 0..(n - 1) : k \in S => k + 1 \in S
  <2>1. SUFFICES ASSUME NEW k \in 0..(n - 1), NEW f \in [0..k -> V], Pass(f, b, g, k)
                 PROVE  \E h \in [0..(k + 1) -> V] : Pass(h, b, g, k + 1)
    <3>1. \A k \in 0..(n - 1) : k + 1 \in 0..n
      OBVIOUS
    <3> QED
      BY <3>1
  <2> DEFINE v == g[<<k + 1, f[k]>>]
             h == [j \in 0..(k + 1) |-> IF j = k + 1 THEN v ELSE f[j]]
  <2>2. k + 1 \in 1..n /\ k \in 0..k
    OBVIOUS
  <2>3. v \in V
    BY <2>2
  <2>4. \A j \in 0..k : h[j] = f[j]
    OBVIOUS
  <2>5. h[k + 1] = v /\ h \in [0..(k + 1) -> V]
    BY <2>3
  <2>6. \A j \in 1..(k + 1) : h[j] = g[<<j, h[j - 1]>>]
    <3> SUFFICES ASSUME NEW j \in 1..(k + 1) PROVE h[j] = g[<<j, h[j - 1]>>]
      OBVIOUS
    <3>1. CASE j = k + 1
      <4>1. j - 1 = k
        BY <3>1
      <4> QED
        BY <3>1, <4>1, <2>2, <2>4, <2>5
    <3>2. CASE j # k + 1
      <4>1. j \in 1..k /\ j \in 0..k /\ j - 1 \in 0..k
        BY <3>2
      <4> QED
        BY <4>1, <2>1, <2>4 DEF Pass
    <3> QED
      BY <3>1, <3>2
  <2>7. h[0] = b
    BY <2>1, <2>4 DEF Pass
  <2>8. Pass(h, b, g, k + 1)
    BY <2>6, <2>7 DEF Pass
  <2> HIDE DEF h
  <2> QED
    BY <2>5, <2>8
<1>3. n \in S
  <2> HIDE DEF S
  <2> QED
    BY <1>1, <1>2, UpTo
<1> QED
  BY <1>3

\* ... which the steps determine.
LEMMA PassUnique ==
  ASSUME NEW n \in Nat, NEW f, NEW h, f[0] = h[0],
         \A k \in 0..(n - 1) : f[k] = h[k] => f[k + 1] = h[k + 1]
  PROVE  \A k \in 0..n : f[k] = h[k]
<1> DEFINE S == {k \in 0..n : f[k] = h[k]}
<1>1. 0 \in S /\ \A k \in 0..(n - 1) : k \in S => k + 1 \in S
  OBVIOUS
<1>2. \A k \in 0..n : k \in S
  <2> HIDE DEF S
  <2> QED
    BY <1>1, UpTo
<1> QED
  BY <1>2

\* The rest of a sequence.
LEMMA TailOf ==
  ASSUME NEW S, NEW q \in Seq(S), q # <<>>
  PROVE  /\ Tail(q) \in Seq(S) /\ Head(q) = q[1] /\ 1 \in DOMAIN q /\ Head(q) \in S
         /\ DOMAIN q = 1..Len(q) /\ DOMAIN Tail(q) = 1..(Len(q) - 1) /\ Len(q) \in Nat \ {0}
         /\ \A j \in DOMAIN Tail(q) : Tail(q)[j] = q[j + 1]
         /\ Range(q) = Range(Tail(q)) \cup {Head(q)}
         /\ IsInjective(q) => IsInjective(Tail(q)) /\ Head(q) \notin Range(Tail(q))
<1>1. Len(q) \in Nat \ {0} /\ DOMAIN q = 1..Len(q)
  BY EmptySeq, LenProperties
<1>2. Tail(q) \in Seq(S) /\ Len(Tail(q)) = Len(q) - 1 /\ Head(q) = q[1] /\ Head(q) \in S
  BY HeadTailProperties, <1>1
<1>3. DOMAIN Tail(q) = 1..(Len(q) - 1)
  BY <1>2, LenProperties
<1>4. \A j \in 1..(Len(q) - 1) : Tail(q)[j] = q[j + 1]
  BY <1>1
<1> DEFINE u == Tail(q)
<1> HIDE DEF u
<1>5. DOMAIN u = 1..(Len(q) - 1) /\ \A j \in 1..(Len(q) - 1) : u[j] = q[j + 1]
  BY <1>3, <1>4 DEF u
<1>6. Range(q) = Range(u) \cup {q[1]}
  <2>1. \A j \in DOMAIN q : q[j] \in Range(u) \cup {q[1]}
    <3> TAKE j \in DOMAIN q
    <3>1. CASE j = 1
      BY <3>1
    <3>2. CASE j # 1
      <4>1. j - 1 \in 1..(Len(q) - 1) /\ (j - 1) + 1 = j
        BY <3>2, <1>1
      <4> QED
        BY <4>1, <1>5 DEF Range
    <3> QED
      BY <3>1, <3>2
  <2>2. \A j \in DOMAIN u : u[j] \in Range(q)
    <3> TAKE j \in DOMAIN u
    <3>1. j + 1 \in DOMAIN q
      BY <1>1, <1>5
    <3> QED
      BY <3>1, <1>5 DEF Range
  <2>3. q[1] \in Range(q)
    BY <1>1 DEF Range
  <2> QED
    BY <2>1, <2>2, <2>3 DEF Range
<1>7. IsInjective(q) => IsInjective(u) /\ q[1] \notin Range(u)
  <2> SUFFICES ASSUME IsInjective(q) PROVE IsInjective(u) /\ q[1] \notin Range(u)
    OBVIOUS
  <2>1. \A a, b \in DOMAIN q : q[a] = q[b] => a = b
    BY DEF IsInjective
  <2>2. \A a \in DOMAIN u : a + 1 \in DOMAIN q /\ a + 1 # 1 /\ u[a] = q[a + 1]
    BY <1>1, <1>5
  <2>3. \A a, b \in DOMAIN u : a + 1 = b + 1 => a = b
    BY <1>1, <1>5
  <2>4. \A a, b \in DOMAIN u : u[a] = u[b] => a = b
    BY <2>1, <2>2, <2>3
  <2>5. 1 \in DOMAIN q
    BY <1>1
  <2>6. \A a \in DOMAIN u : u[a] # q[1]
    BY <2>1, <2>2, <2>5
  <2> QED
    BY <2>4, <2>6 DEF IsInjective, Range
<1> QED
  BY <1>1, <1>2, <1>3, <1>4, <1>6, <1>7 DEF u

\* One more element.
LEMMA AppendOf ==
  ASSUME NEW S, NEW q \in Seq(S), NEW e \in S
  PROVE  /\ Append(q, e) \in Seq(S) /\ DOMAIN q = 1..Len(q) /\ Len(q) \in Nat /\ DOMAIN Append(q, e) = 1..(Len(q) + 1)
         /\ \A j \in DOMAIN q : Append(q, e)[j] = q[j]
         /\ Append(q, e)[Len(q) + 1] = e
         /\ Range(Append(q, e)) = Range(q) \cup {e}
         /\ IsInjective(q) /\ e \notin Range(q) => IsInjective(Append(q, e))
<1> DEFINE u == Append(q, e)
<1>1. Len(q) \in Nat /\ DOMAIN q = 1..Len(q)
  BY LenProperties
<1>2. /\ u \in Seq(S) /\ Len(u) = Len(q) + 1
      /\ \A j \in 1..Len(q) : u[j] = q[j]
      /\ u[Len(q) + 1] = e
  BY AppendProperties
<1>3. DOMAIN u = 1..(Len(q) + 1)
  BY <1>2, LenProperties
<1> HIDE DEF u
<1>4. \A j \in 1..(Len(q) + 1) : j \in 1..Len(q) \/ j = Len(q) + 1
  BY <1>1
<1>5. \A j \in 1..Len(q) : j \in 1..(Len(q) + 1) /\ j # Len(q) + 1
  BY <1>1
<1>6. Len(q) + 1 \in 1..(Len(q) + 1)
  BY <1>1
<1>7. Range(u) = Range(q) \cup {e}
  <2>1. \A j \in DOMAIN u : u[j] \in Range(q) \cup {e}
    BY <1>1, <1>2, <1>3, <1>4 DEF Range
  <2>2. \A j \in DOMAIN q : q[j] \in Range(u)
    BY <1>1, <1>2, <1>3, <1>5 DEF Range
  <2>3. e \in Range(u)
    BY <1>2, <1>3, <1>6 DEF Range
  <2> QED
    BY <2>1, <2>2, <2>3 DEF Range
<1>8. IsInjective(q) /\ e \notin Range(q) => IsInjective(u)
  <2> SUFFICES ASSUME IsInjective(q), e \notin Range(q), NEW a \in DOMAIN u, NEW b \in DOMAIN u, u[a] = u[b] PROVE a = b
    BY DEF IsInjective
  <2>1. \A j \in DOMAIN q : q[j] # e
    BY DEF Range
  <2>2. CASE a \in 1..Len(q) /\ b \in 1..Len(q)
    BY <2>2, <1>1, <1>2 DEF IsInjective
  <2>3. CASE a = Len(q) + 1 \/ b = Len(q) + 1
    BY <2>1, <2>3, <1>1, <1>2, <1>3, <1>4
  <2> QED
    BY <2>2, <2>3, <1>3, <1>4
<1> QED
  BY <1>1, <1>2, <1>3, <1>7, <1>8 DEF u

\* What is left of a sequence.
LEMMA RemoveOf ==
  ASSUME NEW S, NEW q \in Seq(S), NEW i \in DOMAIN q
  PROVE  /\ i \in Nat \ {0} /\ Len(q) \in Nat /\ i <= Len(q) /\ DOMAIN q = 1..Len(q)
         /\ RemoveAt(q, i) \in Seq(S) /\ DOMAIN RemoveAt(q, i) = 1..(Len(q) - 1)
         /\ \A j \in 1..(Len(q) - 1) : RemoveAt(q, i)[j] = IF j < i THEN q[j] ELSE q[j + 1]
<1> DEFINE n == Len(q)
           a == SubSeq(q, 1, i - 1)
           b == SubSeq(q, i + 1, n)
<1>1. n \in Nat /\ DOMAIN q = 1..n /\ i \in 1..n
  BY LenProperties
<1>2. a \in Seq(S) /\ Len(a) = i - 1 /\ \A j \in 1..(i - 1) : a[j] = q[j]
  <2>1. 1 \in 1..(n + 1) /\ i - 1 \in (1 - 1)..n
    BY <1>1
  <2>2. a \in Seq(S) /\ Len(a) = (IF 1 <= i - 1 THEN (i - 1) - 1 + 1 ELSE 0) /\ \A j \in 1..((i - 1) - 1 + 1) : a[j] = q[1 + j - 1]
    BY <1>1, <2>1, SubSeqProperties
  <2> HIDE DEF a
  <2> QED
    BY <1>1, <2>2
<1>3. b \in Seq(S) /\ Len(b) = n - i /\ \A j \in 1..(n - i) : b[j] = q[i + j]
  <2>1. i + 1 \in 1..(n + 1) /\ n \in ((i + 1) - 1)..n
    BY <1>1
  <2>2. b \in Seq(S) /\ Len(b) = (IF i + 1 <= n THEN n - (i + 1) + 1 ELSE 0) /\ \A j \in 1..(n - (i + 1) + 1) : b[j] = q[(i + 1) + j - 1]
    BY <1>1, <2>1, SubSeqProperties
  <2> HIDE DEF b
  <2>3. \A j \in 1..(n - i) : j \in 1..(n - (i + 1) + 1) /\ (i + 1) + j - 1 = i + j
    BY <1>1
  <2>4. (IF i + 1 <= n THEN n - (i + 1) + 1 ELSE 0) = n - i
    BY <1>1
  <2> QED
    BY <2>2, <2>3, <2>4
<1>4. RemoveAt(q, i) = a \o b
  BY DEF RemoveAt
<1> HIDE DEF a, b
<1>5. /\ a \o b \in Seq(S) /\ Len(a \o b) = Len(a) + Len(b)
      /\ \A j \in 1..(Len(a) + Len(b)) : (a \o b)[j] = IF j <= Len(a) THEN a[j] ELSE b[j - Len(a)]
  BY <1>2, <1>3, ConcatProperties, Zenon
<1>6. Len(a \o b) = n - 1 /\ \A j \in 1..(n - 1) : (a \o b)[j] = IF j <= i - 1 THEN a[j] ELSE b[j - (i - 1)]
  BY <1>1, <1>2, <1>3, <1>5
<1>7. \A j \in 1..(n - 1) : (a \o b)[j] = IF j < i THEN q[j] ELSE q[j + 1]
  <2> SUFFICES ASSUME NEW j \in 1..(n - 1) PROVE (a \o b)[j] = IF j < i THEN q[j] ELSE q[j + 1]
    OBVIOUS
  <2>1. CASE j < i
    BY <2>1, <1>1, <1>2, <1>6
  <2>2. CASE ~(j < i)
    <3>1. (a \o b)[j] = b[j - (i - 1)] /\ j - (i - 1) \in 1..(n - i) /\ i + (j - (i - 1)) = j + 1
      BY <2>2, <1>1, <1>6
    <3> QED
      BY <2>2, <3>1, <1>3
  <2> QED
    BY <2>1, <2>2
<1>8. DOMAIN (a \o b) = 1..(n - 1)
  BY <1>5, <1>6, LenProperties
<1>9. /\ RemoveAt(q, i) \in Seq(S) /\ DOMAIN RemoveAt(q, i) = 1..(n - 1)
      /\ \A j \in 1..(n - 1) : RemoveAt(q, i)[j] = IF j < i THEN q[j] ELSE q[j + 1]
  BY <1>4, <1>5, <1>7, <1>8
<1>10. i \in Nat \ {0} /\ i <= n
  BY <1>1
<1> QED
  BY <1>1, <1>9, <1>10

\* The larger of two naturals.
LEMMA LargerOf ==
  ASSUME NEW a \in Nat, NEW b \in Nat
  PROVE  Max({a, b}) = IF a >= b THEN a ELSE b
<1> DEFINE c == IF a >= b THEN a ELSE b
           M(x) == x \in {a, b} /\ \A y \in {a, b} : x >= y
<1>1. M(c)
  OBVIOUS
<1>2. \A x : M(x) => x = c
  OBVIOUS
<1>3. Max({a, b}) = CHOOSE x : M(x)
  BY DEF Max
<1> HIDE DEF M, c
<1>4. Max({a, b}) = c
  BY <1>1, <1>2, <1>3
<1> QED
  BY <1>4 DEF c
=============================================================================
