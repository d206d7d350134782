-------------------------- MODULE ParallelProofs --------------------------
(***************************************************************************)
(* Proofs about what runs on several threads inside one call: ThreadPool,   *)
(* then ParallelMap.                                                        *)
(*                                                                          *)
(* ThreadPool, for every number of workers, set of callers and element      *)
(* count: the type invariant, and the two properties the kernels rely on,   *)
(* ExactlyOnce and NoStaleContext.  None is inductive alone.  PoolInv adds  *)
(* that the holder of the caller mutex is the only caller inside a round,   *)
(* that the job slot is its job, that m_pending counts the workers that owe *)
(* a report, that a running worker's locals are the slot's, and that an     *)
(* index has been hit exactly when the participant it belongs to has run.   *)
(*                                                                          *)
(* ParallelMap, for every list, every number of threads and anything f may  *)
(* do: a call ends as a loop would, no cell that is not counted atomically  *)
(* is ever in the hands of two threads, and the count of every cell is the  *)
(* number of its references.  None is inductive.  IInv adds that a worker   *)
(* has dealt with the elements of its chunk up to the one it is at, and     *)
(* left the rest alone; CountsInv counts the references kind by kind.       *)
(***************************************************************************)
EXTENDS ThreadPool, ParallelMap, DataLemmas, FiniteSetTheorems, SequenceTheorems, TLAPS

-----------------------------------------------------------------------------
(* The fork-join pool.                                                      *)

InRound(c) == cpc[c] \in {"own", "join", "asleep"}

MutexInv ==
    \A c \in Callers : cpc[c] \in {"publish", "own", "join", "asleep"} <=> callerMtx = c

SlotInv ==
    \A c \in Callers : InRound(c) =>
        /\ ctx = c /\ jobN = cn[c] /\ chunk = ChunkSize(cn[c])

QuietInv ==
    (\A c \in Callers : ~InRound(c)) => \A w \in Workers : ~Owes(w)

WorkerInv ==
    \A w \in Workers :
        /\ wpc[w] \in {"run", "report"} => seen[w] = round
        /\ wpc[w] = "run" =>
              range[w] = [ctx |-> ctx, lo |-> Low(w, chunk), hi |-> High(w, chunk, jobN)]

StopInv == stop => \A c \in Callers : cpc[c] = "idle"

\* Participant p of c's round has run its range (or its range is empty).
Ran(c, p) == IF p = 0 THEN cpc[c] # "own"
             ELSE seen[p] = round /\ wpc[p] # "run"

HitOnce(c, i) == \E p \in Participants : Ran(c, p) /\ InRange(i, p, ChunkSize(cn[c]), cn[c])

HitsOf(c) ==
    /\ cpc[c] \in {"idle", "lock", "publish"} => hits[c] = [i \in Index |-> 0]
    /\ InRound(c) => hits[c] = [i \in Index |-> IF HitOnce(c, i) THEN 1 ELSE 0]
    /\ cpc[c] = "returned" => hits[c] = [i \in Index |-> IF i < cn[c] THEN 1 ELSE 0]

HitsInv == \A c \in Callers : HitsOf(c)

PoolTypes ==
    /\ callerMtx \in Callers \cup {NoCaller}
    /\ ctx \in Callers \cup {NoCaller}
    /\ jobN \in Nat /\ chunk \in Nat
    /\ round \in Nat /\ pending \in Int /\ stop \in BOOLEAN
    /\ cpc \in [Callers -> {"idle", "lock", "publish", "own", "join", "asleep", "returned"}]
    /\ cn \in [Callers -> Nat]
    /\ wpc \in [Workers -> {"wait", "asleep", "run", "report", "exited"}]
    /\ seen \in [Workers -> Nat]
    /\ range \in [Workers -> [ctx : Callers \cup {NoCaller}, lo : Nat, hi : Nat]]
    /\ hits \in [Callers -> [Index -> Nat]]

\* m_pending counts the workers that have not reported on the published round.
PendingCounts == pending = Cardinality({w \in Workers : Owes(w)})

PoolInv ==
    /\ PoolTypes /\ MutexInv /\ SlotInv /\ QuietInv
    /\ WorkerInv /\ StopInv /\ PendingCounts /\ HitsInv

-----------------------------------------------------------------------------
(* Arithmetic of the ranges.                                                *)

\* Euclidean division.
LEMMA DivMod ==
  ASSUME NEW a \in Nat, NEW b \in Nat \ {0}
  PROVE  a \div b \in Nat /\ a % b \in 0..(b - 1) /\ a = b * (a \div b) + (a % b)
  BY SMT

\* Products of naturals are monotonic.
LEMMA TimesMono ==
  ASSUME NEW a \in Nat, NEW b \in Nat, NEW k \in Nat, a <= b
  PROVE  a * k \in Nat /\ b * k \in Nat /\ a * k <= b * k
  BY SMT

\* The chunks of all the participants together cover the elements.
LEMMA ChunkCovers ==
  ASSUME NEW size \in Nat
  PROVE  ChunkSize(size) \in Nat /\ (NThreads + 1) * ChunkSize(size) >= size
<1> DEFINE k == NThreads + 1
           a == size + NThreads
<1>1. k \in Nat \ {0} /\ a \in Nat
  BY PoolAssumption
<1>2. a \div k \in Nat /\ a % k \in 0..(k - 1) /\ a = k * (a \div k) + (a % k)
  BY <1>1, DivMod
<1>3. ChunkSize(size) = a \div k
  BY DEF ChunkSize
<1>4. k * (a \div k) \in Nat
  BY <1>1, <1>2
<1> QED
  BY <1>2, <1>3, <1>4, PoolAssumption

\* Every index below size belongs to a participant ...
LEMMA Cover ==
  ASSUME NEW size \in Nat, NEW i \in Nat, i < size
  PROVE  \E p \in Participants : InRange(i, p, ChunkSize(size), size)
<1> DEFINE ch == ChunkSize(size)
<1>1. ch \in Nat /\ (NThreads + 1) * ch >= size
  BY ChunkCovers
<1> HIDE DEF ch
<1>2. ch # 0
  BY <1>1, PoolAssumption
<1> DEFINE p == i \div ch
<1>3. p \in Nat /\ i % ch \in 0..(ch - 1) /\ i = ch * p + (i % ch)
  BY <1>1, <1>2, DivMod
<1> HIDE DEF p
<1>4. p * ch \in Nat /\ p * ch <= i /\ i < p * ch + ch
  BY <1>1, <1>3
<1>5. p <= NThreads
  <2> SUFFICES ASSUME NThreads + 1 <= p PROVE FALSE
    BY <1>3, PoolAssumption
  <2>1. (NThreads + 1) * ch <= p * ch
    BY <1>1, <1>3, TimesMono, PoolAssumption
  <2> QED
    BY <2>1, <1>1, <1>4, PoolAssumption
<1>6. InRange(i, p, ch, size)
  BY <1>1, <1>4 DEF InRange, Low, High
<1> QED
  BY <1>3, <1>5, <1>6, PoolAssumption DEF Participants, ch

\* ... and to no other.
LEMMA Disjoint ==
  ASSUME NEW size \in Nat, NEW i \in Nat, NEW p \in Participants, NEW q \in Participants,
         InRange(i, p, ChunkSize(size), size), InRange(i, q, ChunkSize(size), size)
  PROVE  p = q
<1> DEFINE ch == ChunkSize(size)
<1>1. ch \in Nat
  BY ChunkCovers
<1>2. p \in Nat /\ q \in Nat
  BY PoolAssumption DEF Participants
<1>3. InRange(i, p, ch, size) /\ InRange(i, q, ch, size)
  OBVIOUS
<1> HIDE DEF ch
<1>4. p * ch \in Nat /\ q * ch \in Nat
  BY <1>1, <1>2
<1>5. /\ p * ch <= i /\ i < p * ch + ch
      /\ q * ch <= i /\ i < q * ch + ch
  BY <1>1, <1>3, <1>4 DEF InRange, Low, High
<1>6. ASSUME NEW x \in Nat, NEW y \in Nat, x < y PROVE x * ch + ch <= y * ch
  <2>1. (x + 1) * ch <= y * ch
    BY <1>1, <1>6, TimesMono
  <2>2. (x + 1) * ch = x * ch + ch
    BY <1>1
  <2> QED
    BY <2>1, <2>2
<1>7. ~(p < q)
  BY <1>6, <1>5, <1>4, <1>2, <1>1
<1>8. ~(q < p)
  BY <1>6, <1>5, <1>4, <1>2, <1>1
<1> QED
  BY <1>7, <1>8, <1>2

\* Indices are naturals.
LEMMA IndexNat == ASSUME NEW i \in Index PROVE i \in Nat
  BY PoolAssumption DEF Index

\* The bounds of a range are naturals, and below size.
LEMMA RangeNat ==
  ASSUME NEW p \in Nat, NEW ch \in Nat, NEW size \in Nat
  PROVE  Low(p, ch) \in Nat /\ High(p, ch, size) \in Nat /\ High(p, ch, size) <= size
  BY TimesMono DEF Low, High

-----------------------------------------------------------------------------
(* The invariant.                                                           *)

\* The initial state satisfies the invariant.
LEMMA PoolInitInv == PoolInit => PoolInv
<1> SUFFICES ASSUME PoolInit PROVE PoolInv
  OBVIOUS
<1> USE PoolAssumption DEF PoolInit
<1>1. PoolTypes
  <2>1. range \in [Workers -> [ctx : Callers \cup {NoCaller}, lo : Nat, hi : Nat]]
    OBVIOUS
  <2>2. hits \in [Callers -> [Index -> Nat]]
    OBVIOUS
  <2>3. /\ cpc \in [Callers -> {"idle", "lock", "publish", "own", "join", "asleep", "returned"}]
        /\ cn \in [Callers -> Nat]
    OBVIOUS
  <2>4. /\ wpc \in [Workers -> {"wait", "asleep", "run", "report", "exited"}]
        /\ seen \in [Workers -> Nat]
    OBVIOUS
  <2>5. /\ callerMtx \in Callers \cup {NoCaller} /\ ctx \in Callers \cup {NoCaller}
        /\ jobN \in Nat /\ chunk \in Nat /\ round \in Nat /\ pending \in Int
    OBVIOUS
  <2>6. stop \in BOOLEAN
    BY Zenon
  <2> HIDE DEF PoolInit
  <2> QED
    BY <2>1, <2>2, <2>3, <2>4, <2>5, <2>6 DEF PoolTypes
<1>2. MutexInv /\ SlotInv /\ QuietInv /\ WorkerInv /\ StopInv
  BY DEF MutexInv, SlotInv, QuietInv, WorkerInv, StopInv, InRound, Owes
<1>3. PendingCounts
  <2>1. {w \in Workers : Owes(w)} = {}
    BY DEF Owes
  <2> QED
    BY <2>1, FS_EmptySet DEF PendingCounts
<1>4. HitsInv
  BY DEF HitsInv, HitsOf, InRound
<1> QED
  BY <1>1, <1>2, <1>3, <1>4 DEF PoolInv

\* Every step preserves the types.
LEMMA TypesStep == PoolTypes /\ [PoolNext]_poolVars => PoolTypes'
<1> SUFFICES ASSUME PoolTypes, [PoolNext]_poolVars PROVE PoolTypes'
  OBVIOUS
<1> USE PoolAssumption DEF PoolTypes
<1>1. ASSUME NEW c \in Callers, NEW size \in Sizes, CallInline(c, size) PROVE PoolTypes'
  BY <1>1 DEF CallInline, RunTask, job
<1>2. ASSUME NEW c \in Callers, NEW size \in Sizes, CallPool(c, size) PROVE PoolTypes'
  BY <1>2 DEF CallPool, job
<1>3. ASSUME NEW c \in Callers, LockCaller(c) PROVE PoolTypes'
  BY <1>3 DEF LockCaller, job
<1>4. ASSUME NEW c \in Callers, Publish(c) PROVE PoolTypes'
  <2>1. ChunkSize(cn[c]) \in Nat
    BY ChunkCovers
  <2> QED
    BY <1>4, <2>1 DEF Publish, PendingAtStart, NotifyGo
<1>5. ASSUME NEW c \in Callers, RunOwnRange(c) PROVE PoolTypes'
  BY <1>5 DEF RunOwnRange, RunTask, job
<1>6. ASSUME NEW c \in Callers, JoinSleep(c) \/ JoinReturn(c) \/ ReturnKernel(c) PROVE PoolTypes'
  <2>1. CASE JoinSleep(c)
    BY <2>1 DEF JoinSleep, job
  <2>2. CASE JoinReturn(c)
    BY <2>2 DEF JoinReturn, job
  <2>3. CASE ReturnKernel(c)
    BY <2>3 DEF ReturnKernel, job
  <2> QED
    BY <1>6, <2>1, <2>2, <2>3
<1>7. ASSUME NEW w \in Workers, WorkerSleep(w) \/ WorkerExit(w) PROVE PoolTypes'
  BY <1>7 DEF WorkerSleep, WorkerExit, job
<1>8. ASSUME NEW w \in Workers, WorkerTake(w) PROVE PoolTypes'
  <2>1. Low(w, chunk) \in Nat /\ High(w, chunk, jobN) \in Nat
    <3>1. w \in Nat
      BY DEF Workers
    <3> QED
      BY <3>1, RangeNat
  <2> QED
    BY <1>8, <2>1 DEF WorkerTake, job
<1>9. ASSUME NEW w \in Workers, WorkerRun(w) PROVE PoolTypes'
  <2>1. hits' \in [Callers -> [Index -> Nat]]
    <3> DEFINE d == range[w].ctx
               f == [i \in Index |-> IF range[w].lo <= i /\ i < range[w].hi
                                     THEN hits[d][i] + 1 ELSE hits[d][i]]
    <3>1. hits' = [hits EXCEPT ![d] = f]
      BY <1>9 DEF WorkerRun, RunTask
    <3>2. d \in Callers => f \in [Index -> Nat]
      OBVIOUS
    <3> HIDE DEF d, f
    <3> QED
      BY <3>1, <3>2
  <2> QED
    BY <1>9, <2>1 DEF WorkerRun, job
<1>10. ASSUME NEW w \in Workers, WorkerReport(w) PROVE PoolTypes'
  <2>1. cpc' \in [Callers -> {"idle", "lock", "publish", "own", "join", "asleep", "returned"}]
    BY <1>10 DEF WorkerReport, NotifyDone, Sleepers
  <2> QED
    BY <1>10, <2>1 DEF WorkerReport, job
<1>11. CASE SpuriousWakeup
  BY <1>11 DEF SpuriousWakeup, Spurious, job
<1>12. CASE Destroy
  BY <1>12 DEF Destroy, NotifyGo, job
<1>13. CASE UNCHANGED poolVars
  BY <1>13 DEF poolVars, job
<1> QED
  BY <1>1, <1>2, <1>3, <1>4, <1>5, <1>6, <1>7, <1>8, <1>9, <1>10, <1>11, <1>12, <1>13
  DEF PoolNext, CallerStep, WorkerStep

\* The set counted by m_pending is finite.
LEMMA OwingFinite ==
  /\ IsFiniteSet(Workers) /\ Cardinality(Workers) = NThreads
  /\ \A S \in SUBSET Workers : IsFiniteSet(S) /\ Cardinality(S) \in 0..NThreads
<1>1. IsFiniteSet(Workers) /\ Cardinality(Workers) = NThreads
  BY PoolAssumption, FS_Interval DEF Workers
<1>2. ASSUME NEW S \in SUBSET Workers
      PROVE  IsFiniteSet(S) /\ Cardinality(S) \in 0..NThreads
  BY <1>1, FS_Subset, FS_CardinalityType, PoolAssumption
<1> QED
  BY <1>1, <1>2

\* A step that changes nobody's debt keeps the count.
LEMMA PendingKept ==
  ASSUME PendingCounts, pending' = pending, \A w \in Workers : Owes(w)' <=> Owes(w)
  PROVE  PendingCounts'
<1>1. {w \in Workers : Owes(w)}' = {w \in Workers : Owes(w)}
  OBVIOUS
<1> QED
  BY <1>1 DEF PendingCounts

\* A caller that does not move keeps its part of HitsInv when no participant
\* that has elements makes progress on its round.
LEMMA HitsKept ==
  ASSUME NEW d \in Callers, HitsOf(d),
         cpc'[d] = cpc[d], cn'[d] = cn[d], hits'[d] = hits[d],
         InRound(d) => \A p \in Participants, i \in Nat :
            InRange(i, p, ChunkSize(cn[d]), cn[d]) => (Ran(d, p)' <=> Ran(d, p))
  PROVE  HitsOf(d)'
<1>1. InRound(d) => \A i \in Index : HitOnce(d, i)' <=> HitOnce(d, i)
  BY IndexNat DEF HitOnce
<1>2. InRound(d)' <=> InRound(d)
  BY DEF InRound
<1>3. ASSUME InRound(d) PROVE [i \in Index |-> IF HitOnce(d, i) THEN 1 ELSE 0]'
                            = [i \in Index |-> IF HitOnce(d, i) THEN 1 ELSE 0]
  BY <1>1, <1>3
<1> QED
  BY <1>2, <1>3 DEF HitsOf

\* Steps of a caller that leave the round and the workers alone.
LEMMA CallerOnly ==
  ASSUME PoolInv, PoolTypes', NEW c \in Callers,
         UNCHANGED <<job, round, pending, stop, wpc, seen, range>>,
         \A d \in Callers \ {c} : cpc'[d] = cpc[d] /\ cn'[d] = cn[d] /\ hits'[d] = hits[d],
         ~stop, MutexInv', HitsOf(c)',
         InRound(c)' => InRound(c) /\ cn'[c] = cn[c],
         InRound(c) => InRound(c)' \/ \A w \in Workers : ~Owes(w)
  PROVE  PoolInv'
<1> USE DEF PoolInv
<1>1. SlotInv'
  BY DEF SlotInv, InRound, job
<1>2. \A w \in Workers : Owes(w)' <=> Owes(w)
  BY DEF Owes
<1>3. QuietInv'
  <2>1. (\A d \in Callers : ~InRound(d)') => (\A d \in Callers : ~InRound(d))
                                         \/ \A w \in Workers : ~Owes(w)
    BY DEF InRound
  <2> QED
    BY <2>1, <1>2 DEF QuietInv
<1>4. WorkerInv'
  BY DEF WorkerInv, job
<1>5. StopInv' /\ PendingCounts'
  BY <1>2, PendingKept DEF StopInv
<1>6. HitsInv'
  <2>1. ASSUME NEW d \in Callers, d # c PROVE HitsOf(d)'
    BY <2>1, HitsKept DEF HitsInv, Ran
  <2> QED
    BY <2>1 DEF HitsInv
<1> QED
  BY <1>1, <1>3, <1>4, <1>5, <1>6

\* A call that runs inline.
LEMMA CallInlineInv ==
  ASSUME PoolInv, PoolTypes', NEW c \in Callers, NEW size \in Sizes, CallInline(c, size)
  PROVE  PoolInv'
<1> USE DEF PoolInv
<1>1. MutexInv'
  BY DEF CallInline, MutexInv, PoolTypes
<1>2. HitsOf(c)'
  <2>1. hits[c] = [i \in Index |-> 0]
    BY DEF CallInline, HitsInv, HitsOf
  <2>2. hits'[c] = [i \in Index |-> IF 0 <= i /\ i < size THEN 1 ELSE 0]
    BY <2>1 DEF CallInline, RunTask, PoolTypes
  <2>3. cn'[c] = size /\ cpc'[c] = "returned"
    BY DEF CallInline, PoolTypes
  <2>4. hits'[c] = [i \in Index |-> IF i < cn'[c] THEN 1 ELSE 0]
    BY <2>2, <2>3, IndexNat
  <2> QED
    BY <2>3, <2>4 DEF HitsOf, InRound
<1> QED
  BY <1>1, <1>2, CallerOnly DEF CallInline, RunTask, InRound, PoolTypes

\* A call that goes to the pool.
LEMMA CallPoolInv ==
  ASSUME PoolInv, PoolTypes', NEW c \in Callers, NEW size \in Sizes, CallPool(c, size)
  PROVE  PoolInv'
<1> USE DEF PoolInv
<1>1. MutexInv'
  BY DEF CallPool, MutexInv, PoolTypes
<1>2. HitsOf(c)'
  BY DEF CallPool, HitsInv, HitsOf, InRound, PoolTypes
<1> QED
  BY <1>1, <1>2, CallerOnly DEF CallPool, InRound, PoolTypes

\* The caller takes the call mutex.
LEMMA LockCallerInv ==
  ASSUME PoolInv, PoolTypes', NEW c \in Callers, LockCaller(c)
  PROVE  PoolInv'
<1> USE DEF PoolInv
<1>1. MutexInv'
  BY PoolAssumption DEF LockCaller, MutexInv, PoolTypes
<1>2. HitsOf(c)' /\ ~stop
  BY DEF LockCaller, HitsInv, HitsOf, InRound, PoolTypes, StopInv
<1> QED
  BY <1>1, <1>2, CallerOnly DEF LockCaller, InRound, PoolTypes

\* The caller sleeps: workers are still to report.
LEMMA JoinSleepInv ==
  ASSUME PoolInv, PoolTypes', NEW c \in Callers, JoinSleep(c)
  PROVE  PoolInv'
<1> USE DEF PoolInv
<1>1. MutexInv'
  BY DEF JoinSleep, MutexInv, PoolTypes
<1>2. HitsOf(c)'
  <2>1. \A i \in Index : HitOnce(c, i)' <=> HitOnce(c, i)
    BY DEF JoinSleep, HitOnce, Ran, PoolTypes
  <2>2. [i \in Index |-> IF HitOnce(c, i) THEN 1 ELSE 0]'
        = [i \in Index |-> IF HitOnce(c, i) THEN 1 ELSE 0]
    BY <2>1
  <2> QED
    BY <2>2 DEF JoinSleep, HitsInv, HitsOf, InRound, PoolTypes
<1>3. ~stop
  BY DEF JoinSleep, StopInv
<1> QED
  BY <1>1, <1>2, <1>3, CallerOnly DEF JoinSleep, InRound, PoolTypes

\* When m_pending is zero nobody owes a report.
LEMMA NobodyOwes ==
  ASSUME PoolInv, pending = 0 PROVE \A w \in Workers : ~Owes(w)
<1>1. {w \in Workers : Owes(w)} = {}
  BY OwingFinite, FS_EmptySet DEF PoolInv, PendingCounts
<1> QED
  BY <1>1

\* The caller finds them all reported.
LEMMA JoinReturnInv ==
  ASSUME PoolInv, PoolTypes', NEW c \in Callers, JoinReturn(c)
  PROVE  PoolInv'
<1> USE DEF PoolInv
<1>1. \A w \in Workers : ~Owes(w)
  BY NobodyOwes DEF JoinReturn, JoinReady
<1>2. MutexInv'
  BY PoolAssumption DEF JoinReturn, MutexInv, PoolTypes
<1>3. cn[c] \in Nat /\ cpc[c] = "join" /\ cpc'[c] = "returned" /\ cn' = cn /\ hits' = hits
  BY DEF JoinReturn, PoolTypes
<1>4. \A p \in Participants : Ran(c, p)
  BY <1>1, <1>3 DEF Ran, Owes, Participants, Workers
<1>5. \A i \in Index : HitOnce(c, i) <=> i < cn[c]
  <2>1. ASSUME NEW i \in Index, i < cn[c] PROVE HitOnce(c, i)
    BY <2>1, <1>3, <1>4, Cover, IndexNat DEF HitOnce
  <2>2. ASSUME NEW i \in Index, HitOnce(c, i) PROVE i < cn[c]
    <3>1. PICK p \in Participants : InRange(i, p, ChunkSize(cn[c]), cn[c])
      BY <2>2 DEF HitOnce
    <3>2. p \in Nat
      BY PoolAssumption DEF Participants
    <3>3. High(p, ChunkSize(cn[c]), cn[c]) <= cn[c] /\ High(p, ChunkSize(cn[c]), cn[c]) \in Nat
      BY <3>2, <1>3, RangeNat, ChunkCovers
    <3> QED
      BY <3>1, <3>3, <1>3, IndexNat DEF InRange
  <2> QED
    BY <2>1, <2>2
<1>6. hits[c] = [i \in Index |-> IF i < cn[c] THEN 1 ELSE 0]
  <2>1. hits[c] = [i \in Index |-> IF HitOnce(c, i) THEN 1 ELSE 0]
    BY <1>3 DEF HitsInv, HitsOf, InRound
  <2> QED
    BY <2>1, <1>5
<1>7. HitsOf(c)' /\ ~stop
  BY <1>3, <1>6 DEF HitsOf, InRound, StopInv
<1> QED
  BY <1>1, <1>2, <1>7, CallerOnly DEF JoinReturn, InRound, PoolTypes

\* The kernel returns.
LEMMA ReturnInv ==
  ASSUME PoolInv, PoolTypes', NEW c \in Callers, ReturnKernel(c)
  PROVE  PoolInv'
<1> USE DEF PoolInv
<1>1. MutexInv'
  BY DEF ReturnKernel, MutexInv, PoolTypes
<1>2. HitsOf(c)' /\ ~stop
  BY DEF ReturnKernel, HitsInv, HitsOf, InRound, PoolTypes, StopInv
<1> QED
  BY <1>1, <1>2, CallerOnly DEF ReturnKernel, InRound, PoolTypes

\* The caller that holds the mutex is the only one that can be in a round.
LEMMA OneInRound ==
  ASSUME PoolInv, NEW c \in Callers, NEW d \in Callers,
         cpc[c] \in {"publish", "own", "join", "asleep"}, d # c
  PROVE  ~InRound(d) /\ cpc[d] # "publish"
  BY DEF PoolInv, MutexInv, InRound

\* The caller publishes the job to the workers.
LEMMA PublishInv ==
  ASSUME PoolInv, PoolTypes', NEW c \in Callers, Publish(c)
  PROVE  PoolInv'
<1> USE DEF PoolInv
<1>1. /\ cpc[c] = "publish" /\ cpc' = [cpc EXCEPT ![c] = "own"] /\ cpc'[c] = "own"
      /\ \A d \in Callers \ {c} : cpc'[d] = cpc[d] /\ ~InRound(d) /\ ~InRound(d)'
      /\ \A d \in Callers : cn'[d] = cn[d] /\ hits'[d] = hits[d]
  BY OneInRound DEF Publish, PoolTypes, InRound
<1>2. \A w \in Workers : ~Owes(w)
  BY <1>1 DEF QuietInv, InRound
<1>3. \A w \in Workers : /\ seen'[w] = seen[w] /\ seen[w] # round'
                         /\ wpc'[w] \notin {"run", "report"} /\ range'[w] = range[w]
  BY <1>2 DEF Owes, Publish, NotifyGo, PoolTypes
<1>4. MutexInv' /\ SlotInv' /\ QuietInv'
  BY <1>1 DEF Publish, MutexInv, SlotInv, QuietInv, InRound
<1>5. WorkerInv'
  BY <1>3 DEF WorkerInv
<1>6. StopInv'
  BY <1>1 DEF StopInv, Publish
<1>7. PendingCounts'
  <2>1. {w \in Workers : Owes(w)}' = Workers
    BY <1>3 DEF Owes
  <2> QED
    BY <2>1, OwingFinite DEF PendingCounts, Publish, PendingAtStart
<1>8. HitsInv'
  <2>1. ASSUME NEW d \in Callers \ {c} PROVE HitsOf(d)'
    BY <1>1, HitsKept DEF HitsInv
  <2>2. HitsOf(c)'
    <3>1. \A p \in Participants : ~Ran(c, p)'
      BY <1>1, <1>3 DEF Ran, Participants, Workers
    <3>2. \A i \in Index : ~HitOnce(c, i)'
      BY <3>1 DEF HitOnce
    <3>3. hits'[c] = [i \in Index |-> 0]
      BY <1>1 DEF HitsInv, HitsOf
    <3>4. [i \in Index |-> IF HitOnce(c, i) THEN 1 ELSE 0]' = [i \in Index |-> 0]
      BY <3>2
    <3> QED
      BY <1>1, <3>3, <3>4 DEF HitsOf, InRound
  <2> QED
    BY <2>1, <2>2 DEF HitsInv
<1> QED
  BY <1>4, <1>5, <1>6, <1>7, <1>8

\* One participant runs its range: the indices of that range become hit.
LEMMA RangeHit ==
  ASSUME PoolInv, PoolTypes', NEW c \in Callers, InRound(c), InRound(c)', cn' = cn,
         NEW p \in Participants, ~Ran(c, p), Ran(c, p)',
         \A q \in Participants : q # p => (Ran(c, q)' <=> Ran(c, q)),
         RunTask(c, Low(p, ChunkSize(cn[c])), High(p, ChunkSize(cn[c]), cn[c]))
  PROVE  HitsOf(c)'
<1> USE DEF PoolInv
<1> DEFINE In(i, q) == InRange(i, q, ChunkSize(cn[c]), cn[c])
<1>1. hits[c] = [i \in Index |-> IF HitOnce(c, i) THEN 1 ELSE 0] /\ cn[c] \in Nat
  BY DEF HitsInv, HitsOf, PoolTypes
<1>2. \A i \in Index : In(i, p) => ~HitOnce(c, i)
  BY <1>1, Disjoint, IndexNat DEF HitOnce
<1>3. \A i \in Index : HitOnce(c, i)' <=> HitOnce(c, i) \/ In(i, p)
  BY DEF HitOnce
<1>4. hits'[c] = [i \in Index |-> IF In(i, p) THEN hits[c][i] + 1 ELSE hits[c][i]]
  BY DEF RunTask, InRange, PoolTypes
<1>5. hits'[c] = [i \in Index |-> IF HitOnce(c, i)' THEN 1 ELSE 0]
  <2>1. \A i \in Index : (IF In(i, p) THEN hits[c][i] + 1 ELSE hits[c][i])
                         = IF HitOnce(c, i)' THEN 1 ELSE 0
    BY <1>1, <1>2, <1>3
  <2> QED
    BY <1>4, <2>1
<1> QED
  BY <1>5 DEF HitsOf, InRound

\* The caller runs a range of its own.
LEMMA RunOwnRangeInv ==
  ASSUME PoolInv, PoolTypes', NEW c \in Callers, RunOwnRange(c)
  PROVE  PoolInv'
<1> USE DEF PoolInv
<1>1. MutexInv'
  BY DEF RunOwnRange, MutexInv, PoolTypes
<1>2. ~stop /\ cpc[c] = "own" /\ cpc'[c] = "join" /\ cn' = cn /\ cn[c] \in Nat
  BY DEF RunOwnRange, StopInv, PoolTypes
<1>3. HitsOf(c)'
  <2>1. 0 \in Participants
    BY PoolAssumption DEF Participants
  <2>2. ~Ran(c, 0) /\ Ran(c, 0)'
    BY <1>2 DEF Ran
  <2>3. \A q \in Participants : q # 0 => (Ran(c, q)' <=> Ran(c, q))
    BY DEF Ran, RunOwnRange
  <2>4. Low(0, ChunkSize(cn[c])) = 0
    BY ChunkCovers, <1>2 DEF Low
  <2>5. High(0, ChunkSize(cn[c]), cn[c]) = IF ChunkSize(cn[c]) < cn[c] THEN ChunkSize(cn[c]) ELSE cn[c]
    BY <2>4, ChunkCovers, <1>2 DEF High
  <2>6. RunTask(c, Low(0, ChunkSize(cn[c])), High(0, ChunkSize(cn[c]), cn[c]))
    BY <2>4, <2>5 DEF RunOwnRange
  <2> QED
    BY <2>1, <2>2, <2>3, <2>6, <1>2, RangeHit DEF InRound
<1> QED
  BY <1>1, <1>2, <1>3, CallerOnly DEF RunOwnRange, RunTask, InRound, PoolTypes

-----------------------------------------------------------------------------
(* The workers.                                                             *)

\* Steps that only move threads in and out of wait sets, or end a worker.
LEMMA WaitSetInv ==
  ASSUME PoolInv, PoolTypes', UNCHANGED <<callerMtx, job, round, pending, cn, seen, range, hits>>,
         \A w \in Workers : wpc[w] = wpc'[w] \/ {wpc[w], wpc'[w]} \cap {"run", "report"} = {},
         \A c \in Callers : cpc[c] = cpc'[c] \/ {cpc[c], cpc'[c]} \subseteq {"join", "asleep"},
         StopInv'
  PROVE  PoolInv'
<1> USE DEF PoolInv
<1>1. /\ \A w \in Workers : Owes(w)' <=> Owes(w)
      /\ \A c \in Callers : InRound(c)' <=> InRound(c)
  BY DEF Owes, InRound
<1>2. MutexInv' /\ SlotInv' /\ QuietInv' /\ WorkerInv' /\ PendingCounts'
  <2>1. MutexInv'
    BY DEF MutexInv
  <2>2. SlotInv'
    BY <1>1 DEF SlotInv, job
  <2>3. QuietInv'
    BY <1>1 DEF QuietInv
  <2>4. WorkerInv'
    BY DEF WorkerInv, job
  <2> QED
    BY <2>1, <2>2, <2>3, <2>4, <1>1, PendingKept
<1>3. HitsInv'
  <2> SUFFICES ASSUME NEW c \in Callers PROVE HitsOf(c)'
    BY DEF HitsInv
  <2>1. \A q \in Participants : Ran(c, q)' <=> Ran(c, q)
    <3>1. (cpc'[c] = "own") <=> (cpc[c] = "own")
      OBVIOUS
    <3>2. \A w \in Workers : (wpc'[w] = "run") <=> (wpc[w] = "run")
      OBVIOUS
    <3>3. ASSUME NEW q \in Participants, q # 0 PROVE q \in Workers
      BY <3>3 DEF Participants, Workers
    <3> QED
      BY <3>1, <3>2, <3>3 DEF Ran, job
  <2>2. \A i \in Index : HitOnce(c, i)' <=> HitOnce(c, i)
    BY <2>1 DEF HitOnce
  <2>3. [i \in Index |-> IF HitOnce(c, i) THEN 1 ELSE 0]'
        = [i \in Index |-> IF HitOnce(c, i) THEN 1 ELSE 0]
    BY <2>2
  <2> QED
    BY <2>3, <1>1 DEF HitsInv, HitsOf, InRound
<1> QED
  BY <1>2, <1>3

\* Threads enter and leave the wait sets.
LEMMA WaitSetSteps ==
  ASSUME PoolInv, PoolTypes',
         \/ \E w \in Workers : WorkerSleep(w) \/ WorkerExit(w)
         \/ SpuriousWakeup
         \/ Destroy
  PROVE  PoolInv'
<1>1. ASSUME NEW w \in Workers, WorkerSleep(w) \/ WorkerExit(w) PROVE PoolInv'
  BY <1>1, WaitSetInv DEF WorkerSleep, WorkerExit, PoolInv, PoolTypes, StopInv
<1>2. CASE SpuriousWakeup
  BY <1>2, WaitSetInv DEF SpuriousWakeup, Spurious, PoolInv, PoolTypes, StopInv
<1>3. CASE Destroy
  BY <1>3, WaitSetInv DEF Destroy, NotifyGo, PoolInv, PoolTypes, StopInv
<1> QED
  BY <1>1, <1>2, <1>3

\* A worker that owes a report has a caller in a round, whose job is the slot.
LEMMA OwedRound ==
  ASSUME PoolInv, NEW w \in Workers, Owes(w)
  PROVE  /\ \E c \in Callers : InRound(c)
         /\ \A c \in Callers : InRound(c) =>
               callerMtx = c /\ ctx = c /\ jobN = cn[c] /\ chunk = ChunkSize(cn[c])
  BY DEF PoolInv, QuietInv, SlotInv, MutexInv, InRound

\* A worker takes the job.
LEMMA WorkerTakeInv ==
  ASSUME PoolInv, PoolTypes', NEW w \in Workers, WorkerTake(w)
  PROVE  PoolInv'
<1> USE DEF PoolInv
<1>1. w \in Nat \ {0} /\ w \in Participants
  BY PoolAssumption DEF Workers, Participants
<1>2. /\ \A v \in Workers \ {w} : seen'[v] = seen[v] /\ wpc'[v] = wpc[v] /\ range'[v] = range[v]
      /\ wpc[w] = "wait" /\ seen[w] # round /\ seen'[w] = round
      /\ wpc'[w] = IF Low(w, chunk) < High(w, chunk, jobN) THEN "run" ELSE "report"
      /\ range'[w] = [ctx |-> ctx, lo |-> Low(w, chunk), hi |-> High(w, chunk, jobN)]
      /\ UNCHANGED <<callerMtx, ctx, jobN, chunk, round, pending, stop, cpc, cn, hits>>
  BY DEF WorkerTake, PoolTypes, job
<1>3. \A v \in Workers : Owes(v)' <=> Owes(v)
  BY <1>2 DEF Owes
<1>4. MutexInv' /\ SlotInv' /\ QuietInv' /\ StopInv' /\ PendingCounts'
  BY <1>2, <1>3, PendingKept DEF MutexInv, SlotInv, QuietInv, StopInv, InRound
<1>5. WorkerInv'
  BY <1>2 DEF WorkerInv
<1>6. HitsInv'
  <2> SUFFICES ASSUME NEW c \in Callers PROVE HitsOf(c)'
    BY DEF HitsInv
  <2>1. ASSUME InRound(c), NEW p \in Participants, NEW i \in Nat,
               InRange(i, p, ChunkSize(cn[c]), cn[c])
        PROVE  Ran(c, p)' <=> Ran(c, p)
    <3>1. chunk = ChunkSize(cn[c]) /\ jobN = cn[c]
      BY <2>1 DEF SlotInv
    <3>2. CASE p = w
      <4>1. Low(w, chunk) < High(w, chunk, jobN)
        <5>1. Low(w, chunk) \in Nat /\ High(w, chunk, jobN) \in Nat
          BY <1>1, RangeNat DEF PoolTypes
        <5> QED
          BY <5>1, <2>1, <3>1, <3>2 DEF InRange
      <4> QED
        BY <4>1, <3>2, <1>1, <1>2 DEF Ran
    <3>3. CASE p # w
      BY <3>3, <1>2 DEF Ran, Participants, Workers
    <3> QED
      BY <3>2, <3>3
  <2> QED
    BY <2>1, <1>2, HitsKept DEF HitsInv
<1> QED
  BY <1>4, <1>5, <1>6

\* A worker runs a range.
LEMMA WorkerRunInv ==
  ASSUME PoolInv, PoolTypes', NEW w \in Workers, WorkerRun(w)
  PROVE  PoolInv'
<1> USE DEF PoolInv
<1>1. w \in Participants /\ w # 0
  BY PoolAssumption DEF Workers, Participants
<1>2. /\ wpc[w] = "run" /\ wpc'[w] = "report"
      /\ \A v \in Workers \ {w} : wpc'[v] = wpc[v]
      /\ RunTask(range[w].ctx, range[w].lo, range[w].hi)
      /\ UNCHANGED <<callerMtx, ctx, jobN, chunk, round, pending, stop, cpc, cn, seen, range>>
  BY DEF WorkerRun, PoolTypes, job
<1>3. \A v \in Workers : Owes(v)' <=> Owes(v)
  BY <1>2 DEF Owes
<1>4. Owes(w)
  BY <1>2 DEF Owes
<1>5. PICK c \in Callers : InRound(c)
  BY <1>4, OwedRound
<1>6. /\ callerMtx = c /\ ctx = c /\ jobN = cn[c] /\ chunk = ChunkSize(cn[c])
      /\ seen[w] = round
      /\ range[w] = [ctx |-> c, lo |-> Low(w, ChunkSize(cn[c])), hi |-> High(w, ChunkSize(cn[c]), cn[c])]
  BY <1>2, <1>4, <1>5, OwedRound DEF WorkerInv
<1>7. MutexInv' /\ SlotInv' /\ QuietInv' /\ StopInv' /\ PendingCounts'
  BY <1>2, <1>3, PendingKept DEF MutexInv, SlotInv, QuietInv, StopInv, InRound
<1>8. WorkerInv'
  BY <1>2 DEF WorkerInv
<1>9. HitsOf(c)'
  <2>1. RunTask(c, Low(w, ChunkSize(cn[c])), High(w, ChunkSize(cn[c]), cn[c]))
    BY <1>2, <1>6
  <2>2. ~Ran(c, w) /\ Ran(c, w)' /\ InRound(c)'
    BY <1>1, <1>2, <1>5, <1>6 DEF Ran, InRound
  <2>3. \A q \in Participants : q # w => (Ran(c, q)' <=> Ran(c, q))
    BY <1>2 DEF Ran, Participants, Workers
  <2> QED
    BY <2>1, <2>2, <2>3, <1>1, <1>2, <1>5, RangeHit
<1>10. ASSUME NEW d \in Callers, d # c PROVE HitsOf(d)'
  <2>1. ~InRound(d)
    BY <1>5, <1>10, OneInRound DEF InRound
  <2>2. hits'[d] = hits[d]
    BY <1>2, <1>6, <1>10 DEF RunTask, PoolTypes
  <2> QED
    BY <2>1, <2>2, <1>2, HitsKept DEF HitsInv
<1> QED
  BY <1>7, <1>8, <1>9, <1>10 DEF HitsInv

\* A worker reports.
LEMMA WorkerReportInv ==
  ASSUME PoolInv, PoolTypes', NEW w \in Workers, WorkerReport(w)
  PROVE  PoolInv'
<1> USE DEF PoolInv
<1>1. /\ wpc[w] = "report" /\ wpc'[w] = "wait" /\ seen[w] = round
      /\ \A v \in Workers \ {w} : wpc'[v] = wpc[v]
      /\ pending' = pending - 1
      /\ \A c \in Callers : cpc'[c] = cpc[c] \/ (cpc[c] = "asleep" /\ cpc'[c] = "join")
      /\ UNCHANGED <<callerMtx, ctx, jobN, chunk, round, stop, cn, seen, range, hits>>
  BY DEF WorkerReport, NotifyDone, Sleepers, PoolTypes, job, WorkerInv
<1>2. Owes(w) /\ ~Owes(w)' /\ \A v \in Workers \ {w} : Owes(v)' <=> Owes(v)
  BY <1>1 DEF Owes
<1>3. \A c \in Callers : InRound(c)' <=> InRound(c)
  BY <1>1 DEF InRound
<1>4. MutexInv' /\ SlotInv' /\ QuietInv' /\ StopInv'
  <2>1. MutexInv'
    BY <1>1 DEF MutexInv
  <2>2. SlotInv' /\ QuietInv'
    BY <1>1, <1>2, <1>3 DEF SlotInv, QuietInv
  <2>3. StopInv'
    BY <1>1 DEF StopInv
  <2> QED
    BY <2>1, <2>2, <2>3
<1>5. WorkerInv'
  BY <1>1 DEF WorkerInv
<1>6. PendingCounts'
  <2> DEFINE S == {v \in Workers : Owes(v)}
  <2>1. S' = S \ {w} /\ w \in S
    BY <1>2
  <2>2. IsFiniteSet(S) /\ Cardinality(S) = pending
    BY OwingFinite DEF PendingCounts
  <2>3. Cardinality(S \ {w}) = Cardinality(S) - 1
    BY <2>1, <2>2, FS_RemoveElement
  <2> QED
    BY <1>1, <2>1, <2>2, <2>3 DEF PendingCounts
<1>7. HitsInv'
  <2> SUFFICES ASSUME NEW c \in Callers PROVE HitsOf(c)'
    BY DEF HitsInv
  <2>1. \A q \in Participants : Ran(c, q)' <=> Ran(c, q)
    BY <1>1 DEF Ran, Participants, Workers
  <2>2. \A i \in Index : HitOnce(c, i)' <=> HitOnce(c, i)
    BY <2>1, <1>1 DEF HitOnce
  <2>3. [i \in Index |-> IF HitOnce(c, i) THEN 1 ELSE 0]'
        = [i \in Index |-> IF HitOnce(c, i) THEN 1 ELSE 0]
    BY <2>2
  <2> QED
    BY <2>3, <1>1, <1>3 DEF HitsInv, HitsOf, InRound
<1> QED
  BY <1>4, <1>5, <1>6, <1>7

-----------------------------------------------------------------------------
\* PoolInv is inductive.
LEMMA PoolNextInv == PoolInv /\ [PoolNext]_poolVars => PoolInv'
<1> SUFFICES ASSUME PoolInv, [PoolNext]_poolVars PROVE PoolInv'
  OBVIOUS
<1>1. PoolTypes'
  BY TypesStep DEF PoolInv
<1>2. ASSUME NEW c \in Callers, CallerStep(c) PROVE PoolInv'
  BY <1>1, <1>2, CallInlineInv, CallPoolInv, LockCallerInv, PublishInv, RunOwnRangeInv,
     JoinSleepInv, JoinReturnInv, ReturnInv DEF CallerStep
<1>3. ASSUME NEW w \in Workers, WorkerStep(w) PROVE PoolInv'
  BY <1>1, <1>3, WaitSetSteps, WorkerTakeInv, WorkerRunInv, WorkerReportInv DEF WorkerStep
<1>4. CASE SpuriousWakeup \/ Destroy
  BY <1>1, <1>4, WaitSetSteps
<1>5. CASE UNCHANGED poolVars
  BY <1>1, <1>5 DEF poolVars, job, PoolInv, PoolTypes, MutexInv, SlotInv, QuietInv, WorkerInv, StopInv,
     PendingCounts, HitsInv, HitsOf, HitOnce, Ran, InRound, Owes
<1> QED
  BY <1>2, <1>3, <1>4, <1>5 DEF PoolNext

\* Every reachable state satisfies the invariant.
THEOREM PoolInvariance == PoolSpec => []PoolInv
<1>1. PoolInit => PoolInv
  BY PoolInitInv
<1>2. PoolInv /\ [PoolNext]_poolVars => PoolInv'
  BY PoolNextInv
<1> QED
  BY <1>1, <1>2, PTL DEF PoolSpec

\* The variables keep their types; in particular m_pending stays between 0
\* and the number of workers.
THEOREM PoolTypeCorrect == PoolSpec => []TypeOK
<1>1. PoolInv => TypeOK
  <2> SUFFICES ASSUME PoolInv PROVE TypeOK
    OBVIOUS
  <2>1. pending \in 0..NThreads
    BY OwingFinite DEF PoolInv, PendingCounts
  <2> QED
    BY <2>1 DEF PoolInv, PoolTypes, TypeOK
<1> QED
  BY <1>1, PoolInvariance, PTL

\* When a kernel returns, its task ran exactly once on each of its elements:
\* for every number of workers and every element count.
THEOREM ExactlyOnceHolds == PoolSpec => []ExactlyOnce
<1>1. PoolInv => ExactlyOnce
  BY DEF PoolInv, HitsInv, HitsOf, ExactlyOnce
<1> QED
  BY <1>1, PoolInvariance, PTL

\* A worker never runs a task whose context's caller has left parallel_for.
THEOREM NoStaleContextHolds == PoolSpec => []NoStaleContext
<1>1. PoolInv => NoStaleContext
  <2> SUFFICES ASSUME PoolInv, NEW w \in Workers, wpc[w] = "run"
               PROVE  /\ range[w].ctx = callerMtx
                      /\ cpc[range[w].ctx] \in {"own", "join", "asleep"}
                      /\ range[w].hi <= cn[range[w].ctx]
    BY DEF NoStaleContext
  <2>1. Owes(w)
    BY DEF Owes
  <2>2. PICK c \in Callers : InRound(c)
    BY <2>1, OwedRound
  <2>3. /\ callerMtx = c /\ jobN = cn[c]
        /\ range[w] = [ctx |-> c, lo |-> Low(w, chunk), hi |-> High(w, chunk, jobN)]
    BY <2>1, <2>2, OwedRound DEF PoolInv, WorkerInv
  <2>4. High(w, chunk, jobN) <= jobN
    BY RangeNat DEF PoolInv, PoolTypes, Workers
  <2> QED
    BY <2>2, <2>3, <2>4 DEF InRound
<1> QED
  BY <1>1, PoolInvariance, PTL

\* The job slot is overwritten only when no worker can still read it.
THEOREM SlotStableHolds == PoolSpec => SlotStable
<1>1. PoolInv /\ [PoolNext]_poolVars => [job' # job => \A w \in Workers : ~Owes(w)]_poolVars
  <2> SUFFICES ASSUME PoolInv, PoolNext, job' # job PROVE \A w \in Workers : ~Owes(w)
    OBVIOUS
  <2>1. PICK c \in Callers : Publish(c)
    BY DEF PoolNext, CallerStep, WorkerStep, CallInline, CallPool, LockCaller, RunOwnRange,
       JoinSleep, JoinReturn, ReturnKernel, WorkerSleep, WorkerTake, WorkerRun, WorkerReport,
       WorkerExit, SpuriousWakeup, Destroy
  <2>2. \A d \in Callers : ~InRound(d)
    BY <2>1, OneInRound DEF Publish, InRound
  <2> QED
    BY <2>2 DEF PoolInv, QuietInv
<1> QED
  BY <1>1, PoolInvariance, PTL DEF PoolSpec, SlotStable

-----------------------------------------------------------------------------
(* parallel_map.                                                            *)

Val == Elements \cup {Const, Null} \cup Made

Types ==
    /\ list \in Lists /\ spawnable \in BOOLEAN /\ hw \in Hardware
    /\ phase \in {"call", "transfer", "run", "joined", "done"} /\ built \in 0..N
    /\ inputs \in [1..N -> Val] /\ results \in [1..N -> Val]
    /\ pc \in [1..P -> {"unborn", "next", "in", "send", "drop", "gone"}]
    /\ at \in [1..P -> Nat] /\ value \in [1..P -> Val] /\ errored \in [1..P -> BOOLEAN]
    /\ does \in [1..N -> Outcomes \cup {"nothing"}]
    /\ leaked \subseteq {"handle"} \X (1..N)

\* The input of element i is what its thread may use.
Copied(i) ==
    /\ list[i] # Handle
    /\ inputs[i] = IF list[i] \in Plain THEN CopyOf(i) ELSE list[i]

\* Where the caller is, and what it has prepared by then.
CallerInv ==
    /\ phase \in {"call", "transfer"} =>
          /\ \A j \in 1..P : pc[j] = "unborn"
          /\ \A i \in 1..N : does[i] = "nothing"
    /\ phase = "call" => frozen = Shared /\ built = 0
    /\ phase \in {"transfer", "run", "joined"} =>
          /\ spawnable /\ N > 0 /\ frozen = Shared \cup {Const}
          /\ \A i \in 1..built : Copied(i)
    /\ \A i \in (built + 1)..N : inputs[i] = Null
    /\ phase = "transfer" => built < N
    /\ phase \in {"run", "joined"} => built = N
    /\ phase = "joined" => \A j \in 1..P : pc[j] = "gone"
    /\ phase = "done" =>
          /\ \A j \in 1..P : pc[j] \in {"unborn", "gone"}
          /\ frozen = Shared \/ frozen = Shared \cup {Const}
          /\ \/ answer.values = <<>>
             \/ answer.values = results /\ frozen = Shared \cup {Const}

\* Element i is as a loop would leave it.
Kept(i) == does[i] # "nothing" /\ ~Fails(i) /\ results[i] = Mapped(i)

WorkerOK(j) ==
    /\ pc[j] = "unborn" => at[j] = 0
    /\ pc[j] # "unborn" => at[j] \in (Lo(j) + 1)..(Lo(j + 1) + 1)
    /\ pc[j] \in {"in", "send", "drop"} => at[j] \in Chunk(j)
    /\ \A i \in Chunk(j) : IF i < at[j] THEN Kept(i) ELSE results[i] = Null
    /\ pc[j] = "send" => does[at[j]] \notin {"nothing", "raise"}
    /\ value[j] = IF pc[j] = "send" THEN ValueOf(does[at[j]], at[j]) ELSE Null
    /\ pc[j] = "drop" => errored[j]
    /\ pc[j] = "gone" => errored[j] \/ at[j] = Lo(j + 1) + 1
    /\ errored[j] => pc[j] \in {"drop", "gone"} /\ at[j] \in Chunk(j) /\ Fails(at[j])
    /\ ~errored[j] => \A i \in Chunk(j) : <<"handle", i>> \notin leaked

IInv == Types /\ CallerInv /\ Sequential /\ \A j \in 1..P : WorkerOK(j)

-----------------------------------------------------------------------------
(* The chunks.                                                              *)

\* The bounds of the chunks are in order, the first is 0 and the last is N.
LEMMA Bounds ==
  ASSUME N \in Nat \ {0}, hw \in Nat
  PROVE  /\ P \in 1..N
         /\ \A j \in 1..(P + 1) : Lo(j) \in 0..N
         /\ \A j, k \in 1..(P + 1) : j <= k => Lo(j) <= Lo(k)
         /\ Lo(1) = 0 /\ Lo(P + 1) = N
<1> DEFINE p == P
           n == N
           d == n \div p
           r == n % p
<1>1. n \in Nat \ {0} /\ p \in 1..n
  BY DEF P
<1>2. \A j : Lo(j) = (j - 1) * d + (IF j - 1 < r THEN j - 1 ELSE r)
  BY DEF Lo
<1> HIDE DEF p, n
<1>3. d \in Nat /\ r \in 0..(p - 1) /\ n = p * d + r
  BY <1>1
<1> HIDE DEF d, r
<1>4. Lo(1) = 0
  <2>1. Lo(1) = 0 * d + (IF 0 < r THEN 0 ELSE r)
    BY <1>2
  <2> QED
    BY <2>1, <1>3
<1>5. Lo(p + 1) = n
  <2>1. Lo(p + 1) = p * d + (IF p < r THEN p ELSE r)
    BY <1>2, <1>1
  <2> QED
    BY <2>1, <1>3, <1>1
<1>6. ASSUME NEW j \in 1..(p + 1), NEW k \in 1..(p + 1), j <= k PROVE Lo(j) \in Nat /\ Lo(j) <= Lo(k)
  <2>1. /\ (j - 1) * d \in Nat /\ (k - 1) * d \in Nat
        /\ (j - 1) * d <= (k - 1) * d
    <3> DEFINE a == j - 1
               b == k - 1
    <3>1. a \in Nat /\ b \in Nat /\ a <= b
      BY <1>1, <1>6
    <3> HIDE DEF a, b
    <3>2. a * d \in Nat /\ b * d \in Nat /\ a * d <= b * d
      BY <3>1, <1>3
    <3> QED
      BY <3>2 DEF a, b
  <2> HIDE DEF d, r
  <2>2. Lo(j) = (j - 1) * d + (IF j - 1 < r THEN j - 1 ELSE r)
    BY <1>2
  <2>3. Lo(k) = (k - 1) * d + (IF k - 1 < r THEN k - 1 ELSE r)
    BY <1>2
  <2>4. /\ (IF j - 1 < r THEN j - 1 ELSE r) \in Nat
        /\ (IF j - 1 < r THEN j - 1 ELSE r) <= (IF k - 1 < r THEN k - 1 ELSE r)
    BY <1>1, <1>3, <1>6
  <2> QED
    BY <2>1, <2>2, <2>3, <2>4, <1>3
<1>7. ASSUME NEW j \in 1..(p + 1) PROVE Lo(j) \in 0..n
  <2>1. p + 1 \in 1..(p + 1) /\ j <= p + 1
    BY <1>1
  <2>2. Lo(j) \in Nat /\ Lo(j) <= Lo(p + 1)
    BY <1>6, <2>1
  <2> QED
    BY <2>2, <1>5, <1>1
<1>8. /\ \A j \in 1..(p + 1) : Lo(j) \in 0..n
      /\ \A j, k \in 1..(p + 1) : j <= k => Lo(j) <= Lo(k)
  BY <1>6, <1>7
<1> QED
  BY <1>1, <1>4, <1>5, <1>8 DEF p, n

\* The chunks are intervals of 1..N, and every index is in one of them.
LEMMA ChunksCover ==
  ASSUME N \in Nat \ {0}, hw \in Nat
  PROVE  /\ \A j \in 1..P : Chunk(j) \subseteq 1..N
         /\ \A i \in 1..N : \E j \in 1..P : i \in Chunk(j)
<1> USE Bounds
<1>1. ASSUME NEW j \in 1..P PROVE Chunk(j) \subseteq 1..N
  <2>1. Lo(j) \in 0..N /\ Lo(j + 1) \in 0..N
    OBVIOUS
  <2> QED
    BY <2>1 DEF Chunk
<1>2. ASSUME NEW i \in 1..N PROVE \E j \in 1..P : i \in Chunk(j)
  <2> DEFINE S == {j \in 1..P : i <= Lo(j + 1)}
             m == Min(S)
  <2>1. S \in SUBSET Nat /\ P \in S
    OBVIOUS
  <2>2. m \in S /\ \A x \in S : m <= x
    BY <2>1, MinLeast
  <2>3. m \in 1..P /\ i <= Lo(m + 1)
    BY <2>2
  <2>4. Lo(m) < i
    <3>1. CASE m = 1
      BY <3>1
    <3>2. CASE m # 1
      <4> DEFINE q == m - 1
      <4>1. q \in 1..P /\ q \notin S /\ q + 1 = m
        BY <2>2, <3>2
      <4> HIDE DEF m, q
      <4>2. ~(i <= Lo(q + 1))
        BY <4>1
      <4>3. Lo(m) \in 0..N
        BY <2>3
      <4> QED
        BY <4>1, <4>2, <4>3
    <3> QED
      BY <3>1, <3>2
  <2> HIDE DEF m
  <2>5. Lo(m) \in 0..N /\ Lo(m + 1) \in 0..N
    BY <2>3
  <2>6. i \in Chunk(m)
    BY <2>3, <2>4, <2>5 DEF Chunk
  <2> QED
    BY <2>3, <2>6
<1> QED
  BY <1>1, <1>2

\* An index is in one chunk only, and the chunks are in the order of the list.
LEMMA ChunksApart ==
  ASSUME N \in Nat \ {0}, hw \in Nat,
         NEW j \in 1..P, NEW k \in 1..P, NEW x \in Chunk(j), NEW y \in Chunk(k)
  PROVE  j < k => x < y
<1> SUFFICES ASSUME j < k PROVE x < y
  OBVIOUS
<1>1. j \in 1..P /\ P \in Nat /\ j + 1 \in 1..(P + 1) /\ k \in 1..(P + 1) /\ j + 1 <= k /\ k + 1 \in 1..(P + 1)
  BY Bounds
<1>2. Lo(j + 1) <= Lo(k) /\ Lo(j) \in 0..N /\ Lo(j + 1) \in 0..N /\ Lo(k) \in 0..N /\ Lo(k + 1) \in 0..N
  BY <1>1, Bounds
<1> QED
  BY <1>2 DEF Chunk

-----------------------------------------------------------------------------
(* Facts about the data.                                                    *)

\* The length and the elements of the list, and the size of the pool.
LEMMA ListFact ==
  ASSUME Types
  PROVE  /\ N \in Nat /\ hw \in Nat
         /\ \A i \in 1..N : list[i] \in Elements
<1>1. list \in Seq(Elements)
  BY MapAssumption DEF Types
<1>2. hw \in Nat
  BY MapAssumption DEF Types
<1> QED
  BY <1>1, <1>2, LenProperties, ElementOfSeq DEF N

\* There is no worker without an element.
LEMMA SomeElement ==
  ASSUME Types, NEW j \in 1..P
  PROVE  N \in Nat \ {0} /\ hw \in Nat
<1>1. N \in Nat /\ hw \in Nat
  BY ListFact
<1> QED
  BY <1>1 DEF P

\* Nothing the chunks depend on changes during a call.
LEMMA SameChunks ==
  ASSUME UNCHANGED <<list, hw>>
  PROVE  /\ N' = N /\ P' = P /\ Cells' = Cells
         /\ \A j : Lo(j)' = Lo(j) /\ Chunk(j)' = Chunk(j)
BY DEF Chunk, Lo, P, N, Cells

\* The chunk of a worker lies within the list.
LEMMA ChunkFact ==
  ASSUME Types, NEW j \in 1..P
  PROVE  /\ Lo(j) \in 0..N /\ Lo(j + 1) \in 0..N /\ Lo(j) <= Lo(j + 1)
         /\ Chunk(j) = (Lo(j) + 1)..Lo(j + 1) /\ Chunk(j) \subseteq 1..N
         /\ \A k \in 1..P : k # j => Chunk(j) \cap Chunk(k) = {}
<1>1. N \in Nat \ {0} /\ hw \in Nat
  BY SomeElement
<1>2. P \in 1..N /\ j \in 1..(P + 1) /\ j + 1 \in 1..(P + 1) /\ j <= j + 1
  BY <1>1, Bounds
<1>3. Lo(j) \in 0..N /\ Lo(j + 1) \in 0..N /\ Lo(j) <= Lo(j + 1)
  BY <1>1, <1>2, Bounds
<1>4. Chunk(j) \subseteq 1..N
  BY <1>1, ChunksCover
<1>5. ASSUME NEW k \in 1..P, k # j, NEW x \in Chunk(j), x \in Chunk(k) PROVE FALSE
  <2>1. x \in 1..N
    BY <1>4
  <2>2. CASE j < k
    <3>1. x < x
      BY <1>1, <1>5, <2>2, ChunksApart
    <3> QED
      BY <3>1, <2>1, <1>1
  <2>3. CASE k < j
    <3>1. x < x
      BY <1>1, <1>5, <2>3, ChunksApart
    <3> QED
      BY <3>1, <2>1, <1>1
  <2> QED
    BY <2>2, <2>3, <1>2, <1>5
<1> QED
  BY <1>3, <1>4, <1>5 DEF Chunk

\* A step of worker j leaves the others as they are.
LEMMA OthersOK ==
  ASSUME IInv, NEW j \in 1..P, NEW k \in 1..P, k # j,
         UNCHANGED <<list, hw, inputs>>,
         /\ pc'[k] = pc[k] /\ at'[k] = at[k]
         /\ value'[k] = value[k] /\ errored'[k] = errored[k],
         \A i \in 1..N : i \notin Chunk(j) =>
             /\ does'[i] = does[i] /\ results'[i] = results[i]
             /\ <<"handle", i>> \in leaked' => <<"handle", i>> \in leaked
  PROVE  WorkerOK(k)'
<1>1. WorkerOK(k) /\ Types
  BY DEF IInv
<1>2. Chunk(k) \subseteq 1..N /\ Chunk(j) \cap Chunk(k) = {}
  BY <1>1, ChunkFact
<1>3. Lo(k)' = Lo(k) /\ Lo(k + 1)' = Lo(k + 1) /\ Chunk(k)' = Chunk(k)
  BY SameChunks
<1>4. ASSUME NEW i \in Chunk(k)
      PROVE  /\ does'[i] = does[i] /\ results'[i] = results[i]
             /\ <<"handle", i>> \in leaked' => <<"handle", i>> \in leaked
             /\ Kept(i)' <=> Kept(i)
             /\ Fails(i)' <=> Fails(i)
             /\ ValueOf(does[i], i)' = ValueOf(does[i], i)
  <2>1. i \in 1..N /\ i \notin Chunk(j)
    BY <1>2
  <2>2. /\ does'[i] = does[i] /\ results'[i] = results[i]
        /\ <<"handle", i>> \in leaked' => <<"handle", i>> \in leaked
    BY <2>1
  <2> QED
    BY <2>2 DEF Kept, Fails, Mapped, ValueOf
<1> QED
  BY <1>1, <1>3, <1>4 DEF WorkerOK

-----------------------------------------------------------------------------
(* The steps of a worker.                                                   *)

\* A worker has work only while the caller waits for it, with every input ready.
LEMMA AtWork ==
  ASSUME IInv, NEW j \in 1..P, pc[j] \notin {"unborn", "gone"}
  PROVE  /\ phase = "run" /\ built = N /\ frozen = Shared \cup {Const}
         /\ \A i \in 1..N : Copied(i)
<1>1. phase = "run"
  BY DEF IInv, CallerInv, Types
<1> QED
  BY <1>1 DEF IInv, CallerInv

\* A step of worker j keeps the invariant if it keeps what concerns j.
LEMMA WorkKeeps ==
  ASSUME IInv, NEW j \in 1..P, phase = "run",
         UNCHANGED <<list, spawnable, hw, main>>,
         \A k \in 1..P : k # j =>
             /\ pc'[k] = pc[k] /\ at'[k] = at[k]
             /\ value'[k] = value[k] /\ errored'[k] = errored[k],
         \A i \in 1..N : i \notin Chunk(j) =>
             /\ does'[i] = does[i] /\ results'[i] = results[i]
             /\ <<"handle", i>> \in leaked' => <<"handle", i>> \in leaked,
         Types', WorkerOK(j)'
  PROVE  IInv'
<1>1. P' = P /\ N' = N
  BY SameChunks
<1>2. \A k \in 1..P : k # j => WorkerOK(k)'
  BY OthersOK DEF main
<1>3. CallerInv'
  <2>1. \A i : Copied(i)' <=> Copied(i)
    BY DEF Copied, CopyOf, main
  <2> QED
    BY <1>1, <2>1 DEF IInv, CallerInv, main
<1>4. Sequential'
  BY DEF Sequential, main
<1> QED
  BY <1>1, <1>2, <1>3, <1>4 DEF IInv

\* An index of the worker's chunk is an index of the list.
LEMMA AtFact ==
  ASSUME IInv, NEW j \in 1..P, pc[j] \in {"in", "send", "drop"}
  PROVE  at[j] \in Chunk(j) /\ at[j] \in 1..N /\ N \in Nat
<1>1. at[j] \in Chunk(j) /\ Types
  BY DEF IInv, WorkerOK
<1> QED
  BY <1>1, ChunkFact, ListFact

\* A new worker is at the first element of its chunk.
LEMMA LaunchKeeps ==
  ASSUME IInv, NEW j \in 1..P, Launch(j)
  PROVE  IInv'
<1>1. /\ Types /\ WorkerOK(j) /\ phase = "run" /\ pc[j] = "unborn"
      /\ P' = P /\ N' = N
      /\ Lo(j)' = Lo(j) /\ Lo(j + 1)' = Lo(j + 1) /\ Chunk(j)' = Chunk(j)
  BY SameChunks DEF IInv, Launch
<1>2. Lo(j) \in 0..N /\ Lo(j + 1) \in 0..N /\ Lo(j) <= Lo(j + 1) /\ Chunk(j) = (Lo(j) + 1)..Lo(j + 1) /\ N \in Nat
  BY <1>1, ChunkFact, ListFact
<1>3. pc'[j] = "next" /\ at'[j] = Lo(j) + 1 /\ \A k \in 1..P : k # j => pc'[k] = pc[k] /\ at'[k] = at[k]
  BY <1>1 DEF Launch, Types
<1>4. Types'
  BY <1>1, <1>2 DEF Launch, Types, main
<1>5. WorkerOK(j)'
  <2>1. \A i \in Chunk(j) : results[i] = Null
    BY <1>1, <1>2 DEF WorkerOK
  <2>2. ~errored[j] /\ value[j] = Null
    BY <1>1 DEF WorkerOK, Types
  <2>3. \A i \in Chunk(j)' : ~(i < at'[j]) /\ results'[i] = Null
    BY <1>1, <1>2, <1>3, <2>1 DEF Launch
  <2> QED
    BY <1>1, <1>2, <1>3, <2>2, <2>3 DEF WorkerOK, Launch
<1> QED
  BY <1>1, <1>3, <1>4, <1>5, WorkKeeps DEF Launch

\* Calling f changes no element.
LEMMA CallKeeps ==
  ASSUME IInv, NEW j \in 1..P, Call(j)
  PROVE  IInv'
<1>1. /\ Types /\ WorkerOK(j) /\ phase = "run" /\ pc[j] = "next" /\ at[j] \in Chunk(j)
      /\ P' = P /\ N' = N
      /\ Lo(j)' = Lo(j) /\ Lo(j + 1)' = Lo(j + 1) /\ Chunk(j)' = Chunk(j)
  BY SameChunks, AtWork DEF IInv, Call
<1>2. pc'[j] = "in" /\ \A k \in 1..P : k # j => pc'[k] = pc[k]
  BY <1>1 DEF Call, Types
<1>3. Types'
  BY <1>1 DEF Call, Types, main
<1>4. WorkerOK(j)'
  <2>1. ~errored[j] /\ value[j] = Null
    BY <1>1 DEF WorkerOK, Types
  <2>2. \A i \in Chunk(j) : Kept(i)' <=> Kept(i)
    BY DEF Kept, Fails, Mapped, Call
  <2> QED
    BY <1>1, <1>2, <2>1, <2>2 DEF WorkerOK, Call
<1> QED
  BY <1>1, <1>2, <1>3, <1>4, WorkKeeps DEF Call

\* f returns or raises: only the element the worker is at is concerned.
LEMMA ReturnKeeps ==
  ASSUME IInv, NEW j \in 1..P, NEW o \in Outcomes, Return(j, o)
  PROVE  IInv'
<1> DEFINE m == at[j]
<1>1. /\ Types /\ WorkerOK(j) /\ phase = "run" /\ pc[j] = "in" /\ \A i \in 1..N : Copied(i)
      /\ P' = P /\ N' = N
      /\ Lo(j)' = Lo(j) /\ Lo(j + 1)' = Lo(j + 1) /\ Chunk(j)' = Chunk(j)
  BY SameChunks, AtWork DEF IInv, Return
<1>2. m \in Chunk(j) /\ m \in 1..N /\ Chunk(j) \subseteq 1..N /\ N \in Nat
  BY <1>1, AtFact, ChunkFact
<1>3. /\ does'[m] = o /\ \A i \in 1..N : i # m => does'[i] = does[i]
      /\ does' \in [1..N -> Outcomes \cup {"nothing"}]
  BY <1>1, <1>2 DEF Return, Types
<1>4. ASSUME NEW k \in 1..P, k # j
      PROVE  /\ pc'[k] = pc[k] /\ at'[k] = at[k]
             /\ value'[k] = value[k] /\ errored'[k] = errored[k]
  BY <1>1, <1>4 DEF Return, Types
<1>5. \A i \in Chunk(j) : i < m => (Kept(i)' <=> Kept(i))
  <2>1. ASSUME NEW i \in Chunk(j), i < m PROVE does'[i] = does[i] /\ results'[i] = results[i]
    BY <1>2, <1>3, <2>1 DEF Return
  <2> QED
    BY <2>1 DEF Kept, Fails, Mapped, Return
<1>6. ~errored[j]
  BY <1>1 DEF WorkerOK, Types
<1>7. CASE o = "raise"
  <2>1. pc'[j] = "drop" /\ errored'[j] = TRUE /\ value'[j] = value[j]
    BY <1>1, <1>7 DEF Return, Types, AfterError
  <2>2. Types'
    BY <1>1, <1>3, <1>7 DEF Return, Types, AfterError, main
  <2>3. Fails(m)'
    BY <1>3, <1>7 DEF Fails, Return
  <2>4. WorkerOK(j)'
    BY <1>1, <1>2, <1>5, <2>1, <2>3 DEF WorkerOK, Return
  <2> QED
    BY <1>1, <1>2, <1>3, <1>4, <2>2, <2>4, WorkKeeps DEF Return
<1>8. CASE o # "raise"
  <2>1. pc'[j] = "send" /\ errored'[j] = errored[j] /\ value'[j] = ValueOf(o, m)
    BY <1>1, <1>8 DEF Return, Types
  <2>2. ValueOf(o, m) \in Val
    <3>1. inputs[m] \in Val
      BY <1>1, <1>2 DEF Types
    <3>2. <<o, m>> \in Made \/ o \in {"argument", "constant"}
      BY <1>2, <1>8 DEF Made, Outcomes
    <3> QED
      BY <3>1, <3>2 DEF ValueOf, Val
  <2>3. Types'
    BY <1>1, <1>3, <1>8, <2>2 DEF Return, Types, main
  <2>4. value'[j] = ValueOf(does[m], m)'
    BY <1>3, <2>1 DEF ValueOf, Return, main
  <2>5. does'[m] \notin {"nothing", "raise"}
    BY <1>3, <1>8 DEF Outcomes
  <2>6. WorkerOK(j)'
    BY <1>1, <1>2, <1>5, <1>6, <2>1, <2>4, <2>5 DEF WorkerOK, Return
  <2> QED
    BY <1>1, <1>2, <1>3, <1>4, <2>3, <2>6, WorkKeeps DEF Return
<1> QED
  BY <1>7, <1>8

\* A result that can be sent is the one a loop would put in the list.
LEMMA SendKeeps ==
  ASSUME IInv, NEW j \in 1..P, SendResult(j)
  PROVE  IInv'
<1> PICK m \in {at[j]} : TRUE
  OBVIOUS
<1> DEFINE out == Sent(value[j], <<"result", m>>)
<1>1. /\ Types /\ WorkerOK(j) /\ phase = "run" /\ pc[j] = "send" /\ Copied(m)
      /\ frozen = Shared \cup {Const}
      /\ P' = P /\ N' = N
      /\ Lo(j)' = Lo(j) /\ Lo(j + 1)' = Lo(j + 1) /\ Chunk(j)' = Chunk(j)
  BY SameChunks, AtWork, AtFact DEF IInv, SendResult
<1>2. /\ m \in Chunk(j) /\ m \in 1..N /\ Chunk(j) \subseteq 1..N /\ N \in Nat
      /\ Lo(j) \in 0..N /\ Lo(j + 1) \in 0..N /\ Chunk(j) = (Lo(j) + 1)..Lo(j + 1)
  BY <1>1, AtFact, ChunkFact
<1>3. /\ results'[m] = out /\ \A i \in 1..N : i # m => results'[i] = results[i]
      /\ pc'[j] = "next" /\ at'[j] = m + 1 /\ value'[j] = Null
  BY <1>1, <1>2 DEF SendResult, Types
<1>4. ASSUME NEW k \in 1..P, k # j
      PROVE  /\ pc'[k] = pc[k] /\ at'[k] = at[k]
             /\ value'[k] = value[k] /\ errored'[k] = errored[k]
  BY <1>1, <1>4 DEF SendResult, Types
<1>5. value[j] = ValueOf(does[m], m) /\ does[m] \in Outcomes \ {"raise"}
  BY <1>1, <1>2 DEF WorkerOK, Types
<1>6. /\ does[m] # "handle"
      /\ out = Mapped(m)
  <2>1. CASE does[m] = "handle"
    <3>1. value[j] = <<"handle", m>>
      BY <1>5, <2>1 DEF ValueOf
    <3> QED
      BY <3>1, <1>2 DEF SendResult, Sendable
  <2>2. CASE does[m] = "number"
    <3>1. value[j] = <<"number", m>>
      BY <1>5, <2>2 DEF ValueOf
    <3>2. <<"number", m>> \notin Cells
      BY MapAssumption, <1>2 DEF Cells, Made
    <3> QED
      BY <3>1, <3>2, <2>2 DEF Sent, Mapped
  <2>3. CASE does[m] = "constant"
    BY <1>1, <1>5, <2>3 DEF ValueOf, Sent, Mapped
  <2>4. CASE does[m] = "made"
    <3>1. value[j] = <<"made", m>>
      BY <1>5, <2>4 DEF ValueOf
    <3>2. <<"made", m>> \in Cells /\ <<"made", m>> \notin Shared \cup {Const}
      BY MapAssumption, <1>2 DEF Cells, Made
    <3> QED
      BY <3>1, <3>2, <2>4, <1>1 DEF Sent, Mapped
  <2>5. CASE does[m] = "argument"
    <3>1. value[j] = inputs[m] /\ list[m] \in Elements
      BY <1>1, <1>2, <1>5, <2>5, ListFact DEF ValueOf
    <3>2. CASE list[m] \in Plain
      <4>1. value[j] = <<"copy", m>>
        BY <1>1, <3>1, <3>2 DEF Copied, CopyOf
      <4>2. <<"copy", m>> \in Cells /\ <<"copy", m>> \notin Shared \cup {Const}
        BY MapAssumption, <1>2 DEF Cells, Made
      <4> QED
        BY <4>1, <4>2, <3>2, <2>5, <1>1 DEF Sent, Mapped
    <3>3. CASE list[m] \notin Plain
      <4>1. value[j] = list[m] /\ list[m] \in Shared \cup {<<"number", 0>>}
        BY <1>1, <3>1, <3>3 DEF Copied, Elements
      <4>2. <<"number", 0>> \notin Cells
        BY MapAssumption DEF Cells, Made
      <4> QED
        BY <4>1, <4>2, <3>3, <2>5, <1>1 DEF Sent, Mapped
    <3> QED
      BY <3>2, <3>3
  <2> QED
    BY <1>5, <2>1, <2>2, <2>3, <2>4, <2>5 DEF Outcomes
<1>7. out \in Val
  <2>1. <<"result", m>> \in Made
    BY <1>2 DEF Made
  <2> QED
    BY <1>1, <2>1 DEF Types, Val, Sent
<1>8. /\ results' = [results EXCEPT ![m] = out] /\ at' = [at EXCEPT ![j] = m + 1]
      /\ value' = [value EXCEPT ![j] = Null] /\ pc' = [pc EXCEPT ![j] = "next"]
      /\ UNCHANGED <<list, spawnable, hw, main, errored, does, leaked>>
  BY DEF SendResult
<1>9. \A i \in Chunk(j) : IF i < m THEN Kept(i) ELSE results[i] = Null
  BY <1>1 DEF WorkerOK
<1> HIDE DEF out
<1>10. \A i \in Chunk(j) : i < m + 1 => Kept(i)'
  <2>1. Kept(m)'
    <3>1. Mapped(m)' = Mapped(m) /\ does'[m] = does[m]
      BY <1>8 DEF Mapped
    <3>2. results'[m] = Mapped(m)
      BY <1>3, <1>6
    <3>3. does[m] # "nothing" /\ ~Fails(m)
      BY <1>5, <1>6 DEF Fails, Outcomes
    <3> QED
      BY <3>1, <3>2, <3>3 DEF Kept, Fails
  <2>2. ASSUME NEW i \in Chunk(j), i < m PROVE Kept(i)'
    <3>1. Kept(i) /\ results'[i] = results[i]
      BY <1>2, <1>3, <1>9, <2>2
    <3> QED
      BY <3>1, <1>8 DEF Kept, Fails, Mapped
  <2>3. \A i \in Chunk(j) : i < m + 1 => i < m \/ i = m
    BY <1>2
  <2> QED
    BY <2>1, <2>2, <2>3
<1>11. Types'
  <2>1. Null \in Val /\ m + 1 \in Nat
    BY <1>2 DEF Val
  <2> QED
    BY <1>1, <1>2, <1>7, <1>8, <2>1 DEF Types, main
<1>12. WorkerOK(j)'
  <2>1. ~errored[j] /\ \A i \in Chunk(j) : <<"handle", i>> \notin leaked
    BY <1>1 DEF WorkerOK, Types
  <2>2. \A i \in Chunk(j) : ~(i < m + 1) => results'[i] = Null
    BY <1>2, <1>3, <1>9
  <2>3. m + 1 \in (Lo(j) + 1)..(Lo(j + 1) + 1)
    BY <1>2
  <2> QED
    BY <1>1, <1>3, <1>8, <1>10, <2>1, <2>2, <2>3 DEF WorkerOK
<1> QED
  BY <1>1, <1>2, <1>3, <1>4, <1>8, <1>11, <1>12, WorkKeeps

\* Only a value of a reference type cannot be sent, and it is the failure of that element.
LEMMA RejectResultKeeps ==
  ASSUME IInv, NEW j \in 1..P, RejectResult(j)
  PROVE  IInv'
<1> DEFINE m == at[j]
<1>1. /\ Types /\ WorkerOK(j) /\ phase = "run" /\ pc[j] = "send" /\ Copied(m)
      /\ P' = P /\ N' = N
      /\ Lo(j)' = Lo(j) /\ Lo(j + 1)' = Lo(j + 1) /\ Chunk(j)' = Chunk(j)
  BY SameChunks, AtWork, AtFact DEF IInv, RejectResult
<1>2. m \in Chunk(j) /\ m \in 1..N /\ Chunk(j) \subseteq 1..N /\ N \in Nat
  BY <1>1, AtFact, ChunkFact
<1>3. value[j] = ValueOf(does[m], m) /\ does[m] \in Outcomes \ {"raise"}
  BY <1>1, <1>2 DEF WorkerOK, Types
<1>4. does[m] = "handle" /\ value[j] = <<"handle", m>>
  <2>1. value[j] = Handle \/ value[j] \in {"handle"} \X (1..N)
    BY DEF RejectResult, Sendable
  <2>2. CASE does[m] = "argument"
    <3>1. value[j] = inputs[m]
      BY <1>3, <2>2 DEF ValueOf
    <3>2. list[m] \in Elements /\ list[m] # Handle
      BY <1>1, <1>2, ListFact DEF Copied
    <3>3. value[j] \in {<<"copy", m>>, <<"number", 0>>} \cup Shared
      BY <1>1, <3>1, <3>2 DEF Copied, CopyOf, Elements
    <3>4. \A c \in Shared : c # Handle /\ c \notin {"handle"} \X (1..N)
      BY <1>2, MapAssumption DEF Made
    <3>5. \A c \in {<<"copy", m>>, <<"number", 0>>} : c # Handle /\ c \notin {"handle"} \X (1..N)
      BY <1>2, MapAssumption DEF Made
    <3> QED
      BY <2>1, <3>3, <3>4, <3>5
  <2>3. CASE does[m] = "constant"
    <3>1. value[j] = Const
      BY <1>3, <2>3 DEF ValueOf
    <3> QED
      BY <1>2, <2>1, <3>1, MapAssumption DEF Made
  <2>4. CASE does[m] \in {"number", "made", "handle"}
    <3>1. value[j] = <<does[m], m>>
      BY <1>3, <2>4 DEF ValueOf
    <3>2. value[j] # Handle
      BY <1>2, <2>4, <3>1, MapAssumption DEF Made
    <3> QED
      BY <2>1, <3>1, <3>2
  <2> QED
    BY <1>3, <2>2, <2>3, <2>4 DEF Outcomes
<1>5. ASSUME NEW k \in 1..P, k # j
      PROVE  /\ pc'[k] = pc[k] /\ at'[k] = at[k]
             /\ value'[k] = value[k] /\ errored'[k] = errored[k]
  BY <1>1, <1>5 DEF RejectResult, Types
<1>6. \A i \in Chunk(j) : Kept(i)' <=> Kept(i)
  BY DEF Kept, Fails, Mapped, RejectResult
<1>7. /\ pc'[j] = "drop" /\ errored'[j] = TRUE /\ value'[j] = Null
      /\ leaked' = leaked \cup {<<"handle", m>>}
  BY <1>1, <1>4 DEF RejectResult, Types, AfterError
<1>8. Types'
  <2>1. Null \in Val /\ <<"handle", m>> \in {"handle"} \X (1..N)
    BY <1>2 DEF Val
  <2> QED
    BY <1>1, <1>7, <2>1 DEF RejectResult, Types, AfterError, main
<1>9. WorkerOK(j)'
  <2>1. Fails(m)'
    BY <1>4 DEF Fails, RejectResult
  <2> QED
    BY <1>1, <1>2, <1>6, <1>7, <2>1 DEF WorkerOK, RejectResult
<1>10. \A i \in 1..N : i \notin Chunk(j) => (<<"handle", i>> \in leaked' => <<"handle", i>> \in leaked)
  BY <1>2, <1>7
<1> QED
  BY <1>1, <1>5, <1>8, <1>9, <1>10, WorkKeeps DEF RejectResult

\* A worker leaves with its chunk done, or at the element that failed.
LEMMA LeaveKeeps ==
  ASSUME IInv, NEW j \in 1..P, Leave(j)
  PROVE  IInv'
<1>1. /\ Types /\ WorkerOK(j) /\ phase = "run"
      /\ pc[j] = "drop" \/ (pc[j] = "next" /\ at[j] \notin Chunk(j))
      /\ P' = P /\ N' = N
      /\ Lo(j)' = Lo(j) /\ Lo(j + 1)' = Lo(j + 1) /\ Chunk(j)' = Chunk(j)
  BY SameChunks, AtWork DEF IInv, Leave
<1>2. Lo(j) \in 0..N /\ Lo(j + 1) \in 0..N /\ Chunk(j) = (Lo(j) + 1)..Lo(j + 1) /\ N \in Nat
  BY <1>1, ChunkFact, ListFact
<1>3. pc'[j] = "gone" /\ \A k \in 1..P : k # j => pc'[k] = pc[k]
  BY <1>1 DEF Leave, Types
<1>4. Types'
  BY <1>1 DEF Leave, Types, main
<1>5. \A i \in Chunk(j) : Kept(i)' <=> Kept(i)
  BY DEF Kept, Fails, Mapped, Leave
<1>6. pc[j] = "next" => at[j] = Lo(j + 1) + 1
  BY <1>1, <1>2 DEF WorkerOK
<1>7. errored[j] => Fails(at[j])'
  BY <1>1 DEF WorkerOK, Fails, Leave
<1>8. WorkerOK(j)'
  BY <1>1, <1>3, <1>5, <1>6, <1>7 DEF WorkerOK, Leave
<1> QED
  BY <1>1, <1>3, <1>4, <1>8, WorkKeeps DEF Leave

-----------------------------------------------------------------------------
(* The steps of the caller.                                                 *)

\* The caller leaves what concerns the workers alone.
LEMMA CallerLeavesWorkers ==
  ASSUME IInv, UNCHANGED <<list, hw, workers>>,
         inputs' = inputs \/ \A j \in 1..P : pc[j] = "unborn"
  PROVE  /\ N' = N /\ P' = P
         /\ \A j \in 1..P : WorkerOK(j)'
<1>1. /\ N' = N /\ P' = P
      /\ \A j : Lo(j)' = Lo(j) /\ Chunk(j)' = Chunk(j)
  BY SameChunks
<1>2. \A i : Kept(i)' <=> Kept(i)
  BY DEF Kept, Fails, Mapped, workers
<1>3. \A i : Fails(i)' <=> Fails(i)
  BY DEF Fails, workers
<1>4. ASSUME NEW j \in 1..P PROVE WorkerOK(j)'
  <2>1. WorkerOK(j)
    BY DEF IInv
  <2>2. pc[j] = "send" => inputs' = inputs
    BY <1>4
  <2>3. pc[j] = "send" => ValueOf(does[at[j]], at[j])' = ValueOf(does[at[j]], at[j])
    BY <2>2 DEF ValueOf, workers
  <2> QED
    BY <1>1, <1>2, <1>3, <2>1, <2>3 DEF WorkerOK, workers
<1> QED
  BY <1>1, <1>4

\* The initial states satisfy the invariant.
LEMMA InitInv == Init => IInv
<1> SUFFICES ASSUME Init PROVE IInv
  OBVIOUS
<1>1. list \in Seq(Elements) /\ N \in Nat /\ hw \in Nat
  BY MapAssumption, LenProperties DEF Init, N
<1>2. Null \in Val /\ 0 \in 0..N
  BY <1>1 DEF Val
<1>3. Types
  BY <1>1, <1>2 DEF Init, Types
<1>4. CallerInv
  BY <1>1 DEF Init, CallerInv
<1>5. Sequential
  BY DEF Init, Sequential
<1>6. ASSUME NEW j \in 1..P PROVE WorkerOK(j)
  <2>1. Chunk(j) \subseteq 1..N
    BY <1>3, ChunkFact
  <2>2. \A i \in Chunk(j) : ~(i < at[j]) /\ results[i] = Null
    BY <1>1, <2>1 DEF Init
  <2> QED
    BY <2>2 DEF Init, WorkerOK
<1> QED
  BY <1>3, <1>4, <1>5, <1>6 DEF IInv

\* parallel_map refuses a closure that captures variables.
LEMMA RefuseKeeps ==
  ASSUME IInv, Refuse
  PROVE  IInv'
<1>1. N' = N /\ P' = P /\ \A j \in 1..P : WorkerOK(j)'
  BY CallerLeavesWorkers DEF Refuse
<1>2. /\ Types /\ CallerInv /\ phase = "call" /\ phase' = "done"
      /\ answer' = [error |-> 0, values |-> <<>>]
  BY DEF IInv, Refuse, Error
<1>3. Types'
  BY <1>1, <1>2 DEF Refuse, Types, workers
<1>4. CallerInv'
  <2>1. /\ pc' = pc /\ built' = built /\ inputs' = inputs
        /\ frozen' = Shared /\ answer'.values = <<>>
    BY <1>2 DEF Refuse, CallerInv, workers
  <2>2. \A j \in 1..P : pc[j] = "unborn"
    BY <1>2 DEF CallerInv
  <2>3. \A i \in (built + 1)..N : inputs[i] = Null
    BY <1>2 DEF CallerInv
  <2> QED
    BY <1>1, <1>2, <2>1, <2>2, <2>3 DEF CallerInv
<1>5. Sequential'
  BY <1>1, <1>2 DEF Refuse, CallerInv, Sequential, Error, workers
<1> QED
  BY <1>1, <1>3, <1>4, <1>5 DEF IInv

\* The result for an empty list is an empty list.
LEMMA NothingToDoKeeps ==
  ASSUME IInv, NothingToDo
  PROVE  IInv'
<1>1. N' = N /\ P' = P /\ \A j \in 1..P : WorkerOK(j)'
  BY CallerLeavesWorkers DEF NothingToDo
<1>2. /\ Types /\ CallerInv /\ phase = "call" /\ phase' = "done" /\ N = 0 /\ spawnable'
      /\ answer' = [error |-> 0, values |-> <<>>]
  BY DEF IInv, NothingToDo
<1>3. Types'
  BY <1>1, <1>2 DEF NothingToDo, Types, workers
<1>4. CallerInv'
  <2>1. /\ pc' = pc /\ built' = built /\ inputs' = inputs
        /\ frozen' = Shared /\ answer'.values = <<>>
    BY <1>2 DEF NothingToDo, CallerInv, workers
  <2>2. \A j \in 1..P : pc[j] = "unborn"
    BY <1>2 DEF CallerInv
  <2>3. \A i \in (built + 1)..N : inputs[i] = Null
    BY <1>2 DEF CallerInv
  <2> QED
    BY <1>1, <1>2, <2>1, <2>2, <2>3 DEF CallerInv
<1>5. Sequential'
  <2> DEFINE f == [i \in 1..N |-> Mapped(i)]
  <2>1. f \in [1..0 -> {}] /\ f' = f
    BY <1>1, <1>2 DEF Mapped, NothingToDo, workers
  <2>2. f \in Seq({}) /\ Len(f) = 0
    <3>1. f \in Seq({})
      BY <2>1, SeqDef
    <3>2. DOMAIN f = 1..0
      BY <2>1
    <3> HIDE DEF f
    <3>3. DOMAIN f = 1..Len(f) /\ Len(f) \in Nat
      BY <3>1, LenProperties
    <3>4. 1 \notin 1..0
      OBVIOUS
    <3>5. ~(1 <= Len(f))
      BY <3>2, <3>3, <3>4
    <3> QED
      BY <3>1, <3>3, <3>5
  <2>3. f = <<>>
    BY <2>2, EmptySeq
  <2>4. answer'.error = 0 /\ answer'.values = f'
    BY <1>2, <2>1, <2>3
  <2> QED
    BY <1>1, <1>2, <2>4 DEF Sequential
<1> QED
  BY <1>1, <1>3, <1>4, <1>5 DEF IInv

\* The constants of f are frozen before anything is copied.
LEMMA FreezeKeeps ==
  ASSUME IInv, Freeze
  PROVE  IInv'
<1>1. N' = N /\ P' = P /\ \A j \in 1..P : WorkerOK(j)'
  BY CallerLeavesWorkers DEF Freeze
<1>2. /\ Types /\ CallerInv /\ phase = "call" /\ phase' = "transfer" /\ N > 0 /\ N \in Nat
      /\ spawnable /\ frozen' = Shared \cup {Const} /\ built = 0
  BY ListFact DEF IInv, Freeze, CallerInv
<1>3. Types'
  BY <1>1, <1>2 DEF Freeze, Types, workers
<1>4. CallerInv'
  BY <1>1, <1>2 DEF Freeze, CallerInv, workers
<1>5. Sequential'
  BY <1>2 DEF Sequential
<1> QED
  BY <1>1, <1>3, <1>4, <1>5 DEF IInv

\* An input is shared or copied.
LEMMA TransferKeeps ==
  ASSUME IInv, TransferInput
  PROVE  IInv'
<1> PICK m \in {built + 1} : TRUE
  OBVIOUS
<1>1. /\ Types /\ CallerInv /\ phase = "transfer" /\ built < N
      /\ N \in Nat /\ built \in Nat /\ m \in 1..N
  BY ListFact DEF IInv, TransferInput, CallerInv, Types
<1>2. N' = N /\ P' = P /\ \A j \in 1..P : WorkerOK(j)'
  BY <1>1, CallerLeavesWorkers DEF TransferInput, CallerInv
<1> DEFINE v == Sent(list[m], CopyOf(m))
<1>3. /\ Sendable(list[m]) /\ inputs' = [inputs EXCEPT ![m] = v] /\ built' = m
      /\ phase' = IF m = N THEN "run" ELSE "transfer"
      /\ UNCHANGED <<list, spawnable, hw, answer, frozen, workers>>
  BY <1>1, <1>2 DEF TransferInput
<1>4. v = (IF list[m] \in Plain THEN CopyOf(m) ELSE list[m]) /\ list[m] # Handle
  <2>1. frozen = Shared \cup {Const} /\ list[m] \in Elements /\ list[m] # Handle
    BY <1>1, <1>3, ListFact DEF CallerInv, Sendable
  <2>2. CASE list[m] \in Plain
    BY <2>1, <2>2, MapAssumption DEF Sent, Cells
  <2>3. CASE list[m] \in Shared
    BY <2>1, <2>3, MapAssumption DEF Sent
  <2>4. CASE list[m] = <<"number", 0>>
    <3>1. <<"number", 0>> \notin Cells /\ <<"number", 0>> \notin Plain
      BY MapAssumption DEF Cells, Made
    <3> QED
      BY <2>1, <2>4, <3>1 DEF Sent
  <2> QED
    BY <2>1, <2>2, <2>3, <2>4 DEF Elements
<1>5. v \in Val
  <2>1. CopyOf(m) \in Made /\ list[m] \in Elements
    BY <1>1, ListFact DEF CopyOf, Made
  <2> QED
    BY <1>4, <2>1 DEF Val
<1> HIDE DEF v
<1>6. Types'
  BY <1>1, <1>2, <1>3, <1>5 DEF Types, workers
<1>7. CallerInv'
  <2>1. inputs'[m] = v /\ \A i \in 1..N : i # m => inputs'[i] = inputs[i]
    BY <1>1, <1>3 DEF Types
  <2>2. Copied(m)'
    BY <1>3, <1>4, <2>1 DEF Copied, CopyOf
  <2>3. ASSUME NEW i \in 1..built PROVE Copied(i)'
    <3>1. Copied(i) /\ inputs'[i] = inputs[i]
      BY <1>1, <2>1 DEF CallerInv
    <3> QED
      BY <1>3, <3>1 DEF Copied, CopyOf
  <2>4. \A i \in 1..m : Copied(i)'
    BY <1>1, <2>2, <2>3
  <2>5. \A i \in (m + 1)..N : inputs'[i] = Null
    BY <1>1, <2>1 DEF CallerInv
  <2> QED
    BY <1>1, <1>2, <1>3, <2>4, <2>5 DEF CallerInv, workers
<1>8. Sequential'
  BY <1>3 DEF Sequential
<1> QED
  BY <1>2, <1>6, <1>7, <1>8 DEF IInv

\* An input that cannot be sent ends the call before a thread starts.
LEMMA RejectInputKeeps ==
  ASSUME IInv, RejectInput
  PROVE  IInv'
<1>1. N' = N /\ P' = P /\ \A j \in 1..P : WorkerOK(j)'
  BY CallerLeavesWorkers DEF RejectInput
<1>2. /\ Types /\ CallerInv /\ phase = "transfer" /\ phase' = "done"
      /\ N \in Nat /\ built + 1 \in 1..N /\ ~Sendable(list[built + 1])
      /\ answer' = [error |-> 0, values |-> <<>>]
  BY ListFact DEF IInv, RejectInput, Error, CallerInv, Types
<1>3. Types'
  BY <1>1, <1>2 DEF RejectInput, Types, workers
<1>4. CallerInv'
  BY <1>1, <1>2 DEF RejectInput, CallerInv, workers
<1>5. Sequential'
  <2>1. \E i \in 1..N : ~Sendable(list[i])'
    BY <1>1, <1>2 DEF RejectInput, Sendable
  <2>2. \A i \in 1..N : does'[i] = "nothing"
    BY <1>2 DEF CallerInv, RejectInput, workers
  <2> QED
    BY <1>1, <1>2, <2>1, <2>2 DEF Sequential, Error
<1> QED
  BY <1>1, <1>3, <1>4, <1>5 DEF IInv

\* Every thread is joined.
LEMMA JoinKeeps ==
  ASSUME IInv, Join
  PROVE  IInv'
<1>1. N' = N /\ P' = P /\ \A j \in 1..P : WorkerOK(j)'
  BY CallerLeavesWorkers DEF Join
<1>2. Types /\ CallerInv /\ phase = "run" /\ phase' = "joined"
  BY DEF IInv, Join
<1>3. Types'
  BY <1>1, <1>2 DEF Join, Types, workers
<1>4. CallerInv'
  <2>1. \A i : Copied(i)' <=> Copied(i)
    BY DEF Copied, CopyOf, Join
  <2> QED
    BY <1>1, <1>2, <2>1 DEF Join, CallerInv, workers
<1>5. Sequential'
  BY <1>2 DEF Sequential
<1> QED
  BY <1>1, <1>3, <1>4, <1>5 DEF IInv

\* The first chunk that failed is where the first element that fails is.
LEMMA FirstErroredFact ==
  ASSUME Types, NEW k \in 1..P, errored[k]
  PROVE  /\ FirstErrored(errored) \in 1..P /\ errored[FirstErrored(errored)]
         /\ \A j \in 1..P : j < FirstErrored(errored) => ~errored[j]
<1> DEFINE S == {j \in 1..P : errored[j]}
           m == Min(S)
<1>1. S \in SUBSET Nat /\ k \in S
  OBVIOUS
<1>2. m \in S /\ \A x \in S : m <= x
  BY <1>1, MinLeast
<1>3. DOMAIN errored = 1..P /\ m \in 1..P /\ errored[m]
  BY <1>2 DEF Types
<1> HIDE DEF m
<1>4. \A j \in 1..P : j < m => ~errored[j]
  <2> SUFFICES ASSUME NEW j \in 1..P, j < m, errored[j] PROVE FALSE
    OBVIOUS
  <2>1. m <= j
    BY <1>2
  <2> QED
    BY <2>1, <1>3
<1> QED
  BY <1>3, <1>4 DEF FirstErrored

\* The call ends with the error of the first element that fails.
LEMMA RaiseKeeps ==
  ASSUME IInv, Raise
  PROVE  IInv'
<1>1. N' = N /\ P' = P /\ \A j \in 1..P : WorkerOK(j)'
  BY CallerLeavesWorkers DEF Raise
<1> PICK k \in {FirstErrored(errored)} : TRUE
  OBVIOUS
<1> PICK m \in {at[k]} : TRUE
  OBVIOUS
<1>2. /\ Types /\ CallerInv /\ phase = "joined" /\ phase' = "done"
      /\ frozen = Shared \cup {Const} /\ \A j \in 1..P : pc[j] = "gone"
      /\ answer' = [error |-> m, values |-> <<>>]
  BY DEF IInv, Raise, Error, CallerInv
<1>3. k \in 1..P /\ errored[k] /\ \A j \in 1..P : j < k => ~errored[j]
  BY <1>2, FirstErroredFact DEF Raise
<1>4. m \in Chunk(k) /\ Fails(m)
  BY <1>3 DEF IInv, WorkerOK
<1>5. N \in Nat \ {0} /\ hw \in Nat /\ m \in 1..N
  BY <1>2, <1>3, <1>4, SomeElement, ChunkFact
<1>6. ASSUME NEW i \in 1..(m - 1) PROVE does[i] # "nothing" /\ ~Fails(i)
  <2>1. i \in 1..N /\ i < m
    BY <1>5
  <2>2. PICK j \in 1..P : i \in Chunk(j)
    BY <1>5, <2>1, ChunksCover
  <2>3. ~(k < j)
    <3>1. k < j => m < i
      BY <1>3, <1>4, <1>5, <2>2, ChunksApart
    <3> QED
      BY <3>1, <2>1, <1>5
  <2>4. P \in Nat
    BY <1>5, Bounds
  <2>5. i < at[j]
    <3>1. CASE j = k
      BY <3>1, <2>1
    <3>2. CASE j # k
      <4>1. at[j] = Lo(j + 1) + 1
        BY <1>2, <1>3, <2>3, <2>4, <3>2 DEF IInv, WorkerOK
      <4>2. i <= Lo(j + 1) /\ Lo(j + 1) \in 0..N
        BY <1>2, <2>2, ChunkFact
      <4> QED
        BY <4>1, <4>2, <1>5
    <3> QED
      BY <3>1, <3>2
  <2> QED
    BY <2>2, <2>5 DEF IInv, WorkerOK, Kept
<1>7. Types'
  BY <1>1, <1>2 DEF Raise, Types, workers
<1>8. CallerInv'
  <2>1. /\ pc' = pc /\ built' = built /\ inputs' = inputs
        /\ frozen' = Shared \cup {Const} /\ answer'.values = <<>>
    BY <1>2 DEF Raise, workers
  <2>2. \A i \in (built + 1)..N : inputs[i] = Null
    BY <1>2 DEF CallerInv
  <2> QED
    BY <1>1, <1>2, <2>1, <2>2 DEF CallerInv
<1>9. Sequential'
  <2>1. answer'.error = m
    BY <1>2
  <2>2. does' = does
    BY DEF Raise, workers
  <2>3. Fails(m)' /\ \A i \in 1..(m - 1) : does'[i] # "nothing" /\ ~Fails(i)'
    BY <1>4, <1>6, <2>2 DEF Fails
  <2> QED
    BY <1>1, <1>5, <2>1, <2>3 DEF Sequential
<1> QED
  BY <1>1, <1>7, <1>8, <1>9 DEF IInv

\* Without an error the results are those of a loop, in the order of the list.
LEMMA StitchKeeps ==
  ASSUME IInv, Stitch
  PROVE  IInv'
<1>1. N' = N /\ P' = P /\ \A j \in 1..P : WorkerOK(j)'
  BY CallerLeavesWorkers DEF Stitch
<1>2. /\ Types /\ CallerInv /\ phase = "joined" /\ phase' = "done"
      /\ spawnable /\ N > 0 /\ frozen = Shared \cup {Const}
      /\ \A j \in 1..P : pc[j] = "gone" /\ ~errored[j]
      /\ answer' = [error |-> 0, values |-> results]
  BY DEF IInv, Stitch, CallerInv
<1>3. N \in Nat \ {0} /\ hw \in Nat
  BY <1>2, ListFact
<1>4. ASSUME NEW i \in 1..N PROVE Kept(i)
  <2>1. PICK j \in 1..P : i \in Chunk(j)
    BY <1>3, ChunksCover
  <2>2. WorkerOK(j)
    BY DEF IInv
  <2>3. at[j] = Lo(j + 1) + 1
    BY <1>2, <2>2 DEF WorkerOK
  <2>4. i <= Lo(j + 1) /\ Lo(j + 1) \in 0..N
    BY <1>2, <2>1, ChunkFact
  <2>5. i < at[j]
    BY <1>3, <2>3, <2>4
  <2> QED
    BY <2>1, <2>2, <2>5 DEF WorkerOK
<1>5. Types'
  BY <1>1, <1>2 DEF Stitch, Types, workers
<1>6. CallerInv'
  <2>1. /\ pc' = pc /\ built' = built /\ inputs' = inputs
        /\ frozen' = Shared \cup {Const} /\ answer'.values = results'
    BY <1>2 DEF Stitch, workers
  <2>2. \A i \in (built + 1)..N : inputs[i] = Null
    BY <1>2 DEF CallerInv
  <2> QED
    BY <1>1, <1>2, <2>1, <2>2 DEF CallerInv
<1>7. Sequential'
  <2>1. /\ answer'.error = 0 /\ answer'.values = results
        /\ does' = does /\ list' = list /\ spawnable'
    BY <1>2 DEF Stitch, workers
  <2>2. \A i \in 1..N : /\ does'[i] # "nothing" /\ ~Fails(i)' /\ Mapped(i)' = results[i]
    BY <1>4, <2>1 DEF Kept, Fails, Mapped
  <2>3. results = [i \in 1..N |-> Mapped(i)']
    BY <1>2, <2>2 DEF Types
  <2> QED
    BY <1>1, <2>1, <2>2, <2>3 DEF Sequential
<1> QED
  BY <1>1, <1>5, <1>6, <1>7 DEF IInv

-----------------------------------------------------------------------------
(* Who holds a cell.                                                        *)

\* The thread that may use cell c, which is not counted atomically.
OwnerOf(c) ==
    IF c \in Plain \cup {Handle, Const} THEN 0
    ELSE CASE c[1] = "copy"   -> IF pc[Owner(c[2])] = "unborn" THEN 0 ELSE Owner(c[2])
           [] c[1] = "result" -> IF Running(Owner(c[2])) THEN Owner(c[2]) ELSE 0
           [] c[1] = "made"   -> Owner(c[2])
           [] c[1] = "handle" -> IF c \in leaked THEN 0 ELSE Owner(c[2])

\* The owner of an element is the worker of its chunk.
LEMMA OwnerFact ==
  ASSUME Types, NEW i \in 1..N
  PROVE  /\ Owner(i) \in 1..P /\ i \in Chunk(Owner(i))
         /\ \A j \in 1..P : i \in Chunk(j) => Owner(i) = j
<1>1. N \in Nat \ {0} /\ hw \in Nat
  BY ListFact
<1>2. PICK j \in 1..P : i \in Chunk(j)
  BY <1>1, ChunksCover
<1>3. ASSUME NEW k \in 1..P, i \in Chunk(k) PROVE k = j
  BY <1>2, <1>3, ChunkFact
<1> QED
  BY <1>2, <1>3 DEF Owner

\* A cell that is not counted atomically is one of the caller's own or one that was
\* made during the call.
LEMMA PlainFact ==
  ASSUME IInv, NEW c \in Cells \ frozen
  PROVE  /\ c \notin Shared /\ c # Null
         /\ c = Const => Const \notin frozen
         /\ \/ c \in Plain \cup {Handle, Const} /\ c \notin Made
            \/ /\ c \notin Plain \cup {Handle, Const}
               /\ \E s \in {"copy", "made", "result", "handle"}, i \in 1..N : c = <<s, i>>
<1>1. Shared \subseteq frozen
  BY DEF IInv, Types, CallerInv
<1>2. N \in Nat
  BY ListFact DEF IInv
<1> QED
  BY <1>1, <1>2, MapAssumption DEF Cells, Made

\* What an input of a thread may be.
LEMMA InputFact ==
  ASSUME IInv, phase \in {"transfer", "run"}, NEW i \in 1..N, NEW c \in Cells \ frozen,
         inputs[i] = c
  PROVE  c = <<"copy", i>>
<1>1. i \in 1..built
  <2>1. i \notin (built + 1)..N
    BY PlainFact DEF IInv, CallerInv
  <2> QED
    BY <2>1, ListFact DEF IInv, Types
<1>2. list[i] \in Elements /\ Copied(i)
  BY <1>1, ListFact DEF IInv, CallerInv
<1>3. <<"number", 0>> \notin Cells
  BY MapAssumption DEF Cells, Made
<1> QED
  BY <1>2, <1>3, PlainFact DEF Copied, CopyOf, Elements

\* What a result may be, until the list is built and in the list.
LEMMA ResultFact ==
  ASSUME IInv, NEW i \in 1..N, NEW c \in Cells \ frozen, results[i] = c,
         phase = "done" => Const \in frozen
  PROVE  c = <<"result", i>> \/ (phase = "done" /\ c = Handle)
<1>1. WorkerOK(Owner(i)) /\ i \in Chunk(Owner(i))
  BY OwnerFact DEF IInv
<1>2. Kept(i)
  BY <1>1, PlainFact DEF WorkerOK
<1>3. does[i] # "nothing" /\ c = Mapped(i) /\ list[i] \in Elements
  BY <1>2, ListFact DEF Kept, IInv
<1>4. phase \in {"run", "joined", "done"}
  BY <1>3 DEF IInv, CallerInv, Types
<1>5. Const \in frozen /\ (phase # "done" => list[i] # Handle)
  BY <1>4, ListFact DEF IInv, CallerInv, Copied
<1>6. \A n \in Nat : <<"number", n>> \notin Cells
  BY MapAssumption DEF Cells, Made
<1>7. i \in Nat /\ c # Const /\ c \notin Shared
  BY <1>5, PlainFact
<1> QED
  BY <1>3, <1>5, <1>6, <1>7 DEF Mapped, Elements

\* What f may have returned.
LEMMA ValueFact ==
  ASSUME IInv, NEW j \in 1..P, NEW c \in Cells \ frozen, value[j] = c
  PROVE  /\ pc[j] = "send" /\ at[j] \in 1..N /\ Owner(at[j]) = j
         /\ c \in {<<"copy", at[j]>>, <<"made", at[j]>>, <<"handle", at[j]>>}
         /\ c \notin leaked
<1>1. WorkerOK(j) /\ c # Null /\ Types
  BY PlainFact DEF IInv
<1>2. pc[j] = "send" /\ c = ValueOf(does[at[j]], at[j])
  BY <1>1 DEF WorkerOK
<1>3. at[j] \in Chunk(j) /\ at[j] \in 1..N
  BY <1>2, AtFact
<1>4. Owner(at[j]) = j
  BY <1>1, <1>3, OwnerFact
<1>5. phase = "run" /\ Const \in frozen
  BY <1>2, AtWork
<1>6. \A i \in Chunk(j) : <<"handle", i>> \notin leaked
  BY <1>1, <1>2 DEF WorkerOK, Types
<1>7. does[at[j]] \in Outcomes \ {"raise"}
  BY <1>1, <1>2, <1>3 DEF WorkerOK, Types
<1>8. <<"number", at[j]>> \notin Cells
  BY <1>3, MapAssumption DEF Cells, Made
<1>9. inputs[at[j]] = c => c = <<"copy", at[j]>>
  BY <1>3, <1>5, InputFact
<1>10. c \in {<<"copy", at[j]>>, <<"made", at[j]>>, <<"handle", at[j]>>}
  BY <1>2, <1>5, <1>7, <1>8, <1>9, PlainFact DEF ValueOf, Outcomes
<1>11. c \notin leaked
  BY <1>1, <1>3, <1>6, <1>10 DEF Types
<1> QED
  BY <1>2, <1>3, <1>4, <1>10, <1>11

\* Every reference to such a cell is in the hands of its owner.
LEMMA HeldByOwner ==
  ASSUME IInv, NEW c \in Cells \ frozen, NEW ref \in References, ref[3] = c
  PROVE  ref[4] = OwnerOf(c)
<1>1. Types /\ CallerInv
  BY DEF IInv
<1>2. CASE \E i \in 1..N : ref = <<"list", i, list[i], 0>>
  <2>1. PICK i \in 1..N : ref = <<"list", i, list[i], 0>>
    BY <1>2
  <2>2. c = list[i] /\ ref[4] = 0 /\ c \in Elements
    BY <1>1, <2>1, ListFact
  <2>3. <<"number", 0>> \notin Cells
    BY MapAssumption DEF Cells, Made
  <2> QED
    BY <2>2, <2>3, PlainFact DEF OwnerOf, Elements
<1>3. CASE ref = <<"code", 0, Const, 0>>
  BY <1>3 DEF OwnerOf
<1>4. CASE \E i \in 1..N :
             /\ phase \in {"transfer", "run"} /\ pc[Owner(i)] # "gone"
             /\ ref = <<"input", i, inputs[i], IF pc[Owner(i)] = "unborn" THEN 0 ELSE Owner(i)>>
  <2>1. PICK i \in 1..N :
             /\ phase \in {"transfer", "run"} /\ pc[Owner(i)] # "gone"
             /\ ref = <<"input", i, inputs[i], IF pc[Owner(i)] = "unborn" THEN 0 ELSE Owner(i)>>
    BY <1>4
  <2>2. inputs[i] = c /\ ref[4] = IF pc[Owner(i)] = "unborn" THEN 0 ELSE Owner(i)
    BY <2>1
  <2>3. c = <<"copy", i>>
    BY <2>1, <2>2, InputFact
  <2> QED
    BY <2>2, <2>3, PlainFact DEF OwnerOf, Made
<1>5. CASE \E i \in 1..N :
             /\ phase # "done"
             /\ ref = <<"result", i, results[i], IF Running(Owner(i)) THEN Owner(i) ELSE 0>>
  <2>1. PICK i \in 1..N :
             /\ phase # "done"
             /\ ref = <<"result", i, results[i], IF Running(Owner(i)) THEN Owner(i) ELSE 0>>
    BY <1>5
  <2>2. results[i] = c /\ ref[4] = IF Running(Owner(i)) THEN Owner(i) ELSE 0
    BY <2>1
  <2>3. c = <<"result", i>>
    BY <2>1, <2>2, ResultFact
  <2> QED
    BY <2>2, <2>3, PlainFact DEF OwnerOf, Made
<1>6. CASE \E j \in 1..P : pc[j] = "in" /\ ref = <<"argument", j, inputs[at[j]], j>>
  <2>1. PICK j \in 1..P : pc[j] = "in" /\ ref = <<"argument", j, inputs[at[j]], j>>
    BY <1>6
  <2>2. at[j] \in Chunk(j) /\ at[j] \in 1..N /\ phase = "run"
    BY <2>1, AtFact, AtWork
  <2>3. Owner(at[j]) = j
    BY <1>1, <2>2, OwnerFact
  <2>4. c = <<"copy", at[j]>> /\ ref[4] = j
    BY <2>1, <2>2, InputFact
  <2>5. c \notin Plain \cup {Handle, Const}
    BY <2>2, <2>4, MapAssumption DEF Made
  <2> QED
    BY <2>1, <2>3, <2>4, <2>5 DEF OwnerOf
<1>7. CASE \E j \in 1..P : pc[j] = "in" /\ ref = <<"constant", j, Const, j>>
  <2>1. Const \in frozen /\ c = Const
    BY <1>7, AtWork
  <2> QED
    BY <2>1
<1>8. CASE \E j \in 1..P : ref = <<"value", j, value[j], j>>
  <2>1. PICK j \in 1..P : ref = <<"value", j, value[j], j>>
    BY <1>8
  <2>2. value[j] = c /\ ref[4] = j
    BY <2>1
  <2>3. /\ pc[j] = "send" /\ Owner(at[j]) = j
        /\ c \in {<<"copy", at[j]>>, <<"made", at[j]>>, <<"handle", at[j]>>}
        /\ c \notin leaked /\ at[j] \in 1..N
    BY <2>2, ValueFact
  <2>4. c \notin Plain \cup {Handle, Const}
    BY <2>3, MapAssumption DEF Made
  <2> QED
    BY <2>2, <2>3, <2>4 DEF OwnerOf
<1>9. CASE \E v \in leaked : ref = <<"leaked", 0, v, 0>>
  <2>1. c \in leaked /\ ref[4] = 0
    BY <1>9
  <2>2. PICK i \in 1..N : c = <<"handle", i>>
    BY <1>1, <2>1 DEF Types
  <2> QED
    BY <2>1, <2>2 DEF OwnerOf
<1>10. CASE /\ phase = "done"
            /\ \E i \in DOMAIN answer.values : ref = <<"answer", i, answer.values[i], 0>>
  <2>1. PICK i \in DOMAIN answer.values : ref = <<"answer", i, answer.values[i], 0>>
    BY <1>10
  <2>2. answer.values = results /\ Const \in frozen
    BY <1>1, <1>10, <2>1 DEF CallerInv
  <2>3. i \in 1..N /\ results[i] = c /\ ref[4] = 0
    BY <1>1, <2>1, <2>2 DEF Types
  <2>4. c = <<"result", i>> \/ c = Handle
    BY <2>2, <2>3, ResultFact
  <2>5. ~Running(Owner(i))
    BY <1>1, <1>10, <2>3, OwnerFact DEF CallerInv, Running
  <2> QED
    BY <2>3, <2>4, <2>5 DEF OwnerOf
<1> QED
  BY <1>2, <1>3, <1>4, <1>5, <1>6, <1>7, <1>8, <1>9, <1>10 DEF References

\* The invariant implies that plain cells are confined.
LEMMA InvConfines == IInv => Confined
<1> SUFFICES ASSUME IInv, NEW c \in Cells \ frozen
             PROVE  Cardinality({ref[4] : ref \in {r \in References : r[3] = c}}) <= 1
  BY DEF Confined
<1> DEFINE S == {ref[4] : ref \in {r \in References : r[3] = c}}
<1>1. S \subseteq {OwnerOf(c)}
  BY HeldByOwner
<1>2. IsFiniteSet({OwnerOf(c)}) /\ Cardinality({OwnerOf(c)}) = 1
  BY FS_Singleton
<1>3. Cardinality(S) <= Cardinality({OwnerOf(c)})
  BY <1>1, <1>2, FS_Subset
<1> QED
  BY <1>2, <1>3

-----------------------------------------------------------------------------
(* How many references a cell has.                                          *)

\* The places that refer to cell c, by kind.
ListAt(c)     == {i \in 1..N : list[i] = c}
InputAt(c)    == {i \in 1..N : /\ phase \in {"transfer", "run"} /\ pc[Owner(i)] # "gone"
                               /\ inputs[i] = c}
ResultAt(c)   == {i \in 1..N : phase # "done" /\ results[i] = c}
ArgumentOf(c) == {j \in 1..P : pc[j] = "in" /\ inputs[at[j]] = c}
ConstantOf(c) == {j \in 1..P : pc[j] = "in" /\ c = Const}
ValueHeld(c)  == {j \in 1..P : value[j] = c}
LostAs(c)     == {v \in leaked : v = c}
AnswerAt(c)   == {i \in DOMAIN answer.values : answer.values[i] = c}

\* All but the list of the caller and the answer.
InCall(c) ==
    Cardinality(InputAt(c)) + Cardinality(ResultAt(c)) + Cardinality(ArgumentOf(c))
    + Cardinality(ConstantOf(c)) + Cardinality(ValueHeld(c)) + Cardinality(LostAs(c))

Total(c) ==
    Cardinality(ListAt(c)) + (IF c = Const THEN 1 ELSE 0)
    + (IF phase = "done" THEN Cardinality(AnswerAt(c)) ELSE 0) + InCall(c)

CountsInv == rc \in [Cells -> Int] /\ \A c \in Cells : rc[c] = Total(c)

\* The places are finitely many.
LEMMA PlacesFinite ==
  ASSUME IInv, NEW c \in Cells
  PROVE  /\ IsFiniteSet(ListAt(c)) /\ Cardinality(ListAt(c)) \in Nat
         /\ IsFiniteSet(InputAt(c)) /\ Cardinality(InputAt(c)) \in Nat
         /\ IsFiniteSet(ResultAt(c)) /\ Cardinality(ResultAt(c)) \in Nat
         /\ IsFiniteSet(ArgumentOf(c)) /\ Cardinality(ArgumentOf(c)) \in Nat
         /\ IsFiniteSet(ConstantOf(c)) /\ Cardinality(ConstantOf(c)) \in Nat
         /\ IsFiniteSet(ValueHeld(c)) /\ Cardinality(ValueHeld(c)) \in Nat
         /\ IsFiniteSet(LostAs(c)) /\ Cardinality(LostAs(c)) \in Nat
         /\ phase = "done" => IsFiniteSet(AnswerAt(c)) /\ Cardinality(AnswerAt(c)) \in Nat
<1>1. N \in Nat /\ hw \in Nat /\ P \in Nat
  <2>1. N \in Nat /\ hw \in Nat
    BY ListFact DEF IInv
  <2> QED
    BY <2>1 DEF P
<1>2. IsFiniteSet(1..N) /\ IsFiniteSet(1..P) /\ IsFiniteSet({c})
  <2>1. 1 \in Int /\ N \in Int /\ P \in Int
    BY <1>1
  <2>2. IsFiniteSet(1..N)
    BY <2>1, FS_Interval
  <2>3. IsFiniteSet(1..P)
    BY <2>1, FS_Interval
  <2> QED
    BY <2>2, <2>3, FS_Singleton
<1>3. ASSUME NEW S, S \in SUBSET (1..N) \/ S \in SUBSET (1..P) \/ S \in SUBSET {c}
      PROVE  IsFiniteSet(S) /\ Cardinality(S) \in Nat
  BY <1>2, <1>3, FS_Subset, FS_CardinalityType
<1>4. /\ ListAt(c) \in SUBSET (1..N) /\ InputAt(c) \in SUBSET (1..N) /\ ResultAt(c) \in SUBSET (1..N)
      /\ ArgumentOf(c) \in SUBSET (1..P) /\ ConstantOf(c) \in SUBSET (1..P)
      /\ ValueHeld(c) \in SUBSET (1..P) /\ LostAs(c) \in SUBSET {c}
  BY DEF ListAt, InputAt, ResultAt, ArgumentOf, ConstantOf, ValueHeld, LostAs
<1>5. phase = "done" => AnswerAt(c) \in SUBSET (1..N)
  <2>1. DOMAIN <<>> = {} /\ DOMAIN results = 1..N
    BY DEF IInv, Types
  <2> QED
    BY <2>1 DEF IInv, CallerInv, AnswerAt
<1> QED
  BY <1>3, <1>4, <1>5

\* What there is in References.
LEMMA InReferences ==
  ASSUME NEW ref
  PROVE  ref \in References <=>
    \/ \E i \in 1..N : ref = <<"list", i, list[i], 0>>
    \/ ref = <<"code", 0, Const, 0>>
    \/ \E i \in 1..N : /\ phase \in {"transfer", "run"} /\ pc[Owner(i)] # "gone"
                       /\ ref = <<"input", i, inputs[i], IF pc[Owner(i)] = "unborn" THEN 0 ELSE Owner(i)>>
    \/ \E i \in 1..N : /\ phase # "done"
                       /\ ref = <<"result", i, results[i], IF Running(Owner(i)) THEN Owner(i) ELSE 0>>
    \/ \E j \in 1..P : pc[j] = "in" /\ ref = <<"argument", j, inputs[at[j]], j>>
    \/ \E j \in 1..P : pc[j] = "in" /\ ref = <<"constant", j, Const, j>>
    \/ \E j \in 1..P : ref = <<"value", j, value[j], j>>
    \/ \E v \in leaked : ref = <<"leaked", 0, v, 0>>
    \/ /\ phase = "done"
       /\ \E i \in DOMAIN answer.values : ref = <<"answer", i, answer.values[i], 0>>
BY DEF References

\* The references of one kind to a cell.
OfKind(k, c) == {ref \in References : ref[3] = c /\ ref[1] = k}

\* References from the list of the caller.
LEMMA ListCount ==
  ASSUME IInv, NEW c \in Cells
  PROVE  /\ IsFiniteSet(OfKind("list", c))
         /\ Cardinality(OfKind("list", c)) = Cardinality(ListAt(c))
<1> DEFINE S == ListAt(c)
           f == [x \in S |-> <<"list", x, c, 0>>]
<1>1. \A x, y \in S : f[x] = f[y] => x = y
  OBVIOUS
<1>2. ASSUME NEW ref \in OfKind("list", c) PROVE ref \in {f[x] : x \in S}
  <2>1. ref \in References /\ ref[1] = "list" /\ ref[3] = c
    BY <1>2 DEF OfKind
  <2>2. \E x \in S : ref = <<"list", x, c, 0>>
    BY <2>1, InReferences DEF ListAt
  <2> QED
    BY <2>2
<1>3. ASSUME NEW x \in S PROVE f[x] \in OfKind("list", c)
  <2>1. f[x] = <<"list", x, c, 0>> /\ list[x] = c
    BY <1>3 DEF ListAt
  <2>2. f[x] \in References
    BY <1>3, <2>1, InReferences DEF ListAt
  <2> QED
    BY <2>1, <2>2 DEF OfKind
<1>4. {f[x] : x \in S} = OfKind("list", c)
  BY <1>2, <1>3
<1> HIDE DEF f
<1>5. f = [x \in S |-> f[x]]
  BY DEF f
<1> QED
  BY <1>1, <1>4, <1>5, PlacesFinite, ImageCount

\* References from the inputs.
LEMMA InputCount ==
  ASSUME IInv, NEW c \in Cells
  PROVE  /\ IsFiniteSet(OfKind("input", c))
         /\ Cardinality(OfKind("input", c)) = Cardinality(InputAt(c))
<1> DEFINE S == InputAt(c)
           f == [x \in S |-> <<"input", x, c, IF pc[Owner(x)] = "unborn" THEN 0 ELSE Owner(x)>>]
<1>1. \A x, y \in S : f[x] = f[y] => x = y
  OBVIOUS
<1>2. ASSUME NEW ref \in OfKind("input", c) PROVE ref \in {f[x] : x \in S}
  <2>1. ref \in References /\ ref[1] = "input" /\ ref[3] = c
    BY <1>2 DEF OfKind
  <2>2. \E x \in S : ref = <<"input", x, c, IF pc[Owner(x)] = "unborn" THEN 0 ELSE Owner(x)>>
    BY <2>1, InReferences DEF InputAt
  <2> QED
    BY <2>2
<1>3. ASSUME NEW x \in S PROVE f[x] \in OfKind("input", c)
  <2>1. f[x] = <<"input", x, c, IF pc[Owner(x)] = "unborn" THEN 0 ELSE Owner(x)>> /\ inputs[x] = c
    BY <1>3 DEF InputAt
  <2>2. f[x] \in References
    BY <1>3, <2>1, InReferences DEF InputAt
  <2> QED
    BY <2>1, <2>2 DEF OfKind
<1>4. {f[x] : x \in S} = OfKind("input", c)
  BY <1>2, <1>3
<1> HIDE DEF f
<1>5. f = [x \in S |-> f[x]]
  BY DEF f
<1> QED
  BY <1>1, <1>4, <1>5, PlacesFinite, ImageCount

\* References from the results.
LEMMA ResultCount ==
  ASSUME IInv, NEW c \in Cells
  PROVE  /\ IsFiniteSet(OfKind("result", c))
         /\ Cardinality(OfKind("result", c)) = Cardinality(ResultAt(c))
<1> DEFINE S == ResultAt(c)
           f == [x \in S |-> <<"result", x, c, IF Running(Owner(x)) THEN Owner(x) ELSE 0>>]
<1>1. \A x, y \in S : f[x] = f[y] => x = y
  OBVIOUS
<1>2. ASSUME NEW ref \in OfKind("result", c) PROVE ref \in {f[x] : x \in S}
  <2>1. ref \in References /\ ref[1] = "result" /\ ref[3] = c
    BY <1>2 DEF OfKind
  <2>2. \E x \in S : ref = <<"result", x, c, IF Running(Owner(x)) THEN Owner(x) ELSE 0>>
    BY <2>1, InReferences DEF ResultAt
  <2> QED
    BY <2>2
<1>3. ASSUME NEW x \in S PROVE f[x] \in OfKind("result", c)
  <2>1. f[x] = <<"result", x, c, IF Running(Owner(x)) THEN Owner(x) ELSE 0>> /\ results[x] = c
    BY <1>3 DEF ResultAt
  <2>2. f[x] \in References
    BY <1>3, <2>1, InReferences DEF ResultAt
  <2> QED
    BY <2>1, <2>2 DEF OfKind
<1>4. {f[x] : x \in S} = OfKind("result", c)
  BY <1>2, <1>3
<1> HIDE DEF f
<1>5. f = [x \in S |-> f[x]]
  BY DEF f
<1> QED
  BY <1>1, <1>4, <1>5, PlacesFinite, ImageCount

\* References from the arguments of f.
LEMMA ArgumentCount ==
  ASSUME IInv, NEW c \in Cells
  PROVE  /\ IsFiniteSet(OfKind("argument", c))
         /\ Cardinality(OfKind("argument", c)) = Cardinality(ArgumentOf(c))
<1> DEFINE S == ArgumentOf(c)
           f == [x \in S |-> <<"argument", x, c, x>>]
<1>1. \A x, y \in S : f[x] = f[y] => x = y
  OBVIOUS
<1>2. ASSUME NEW ref \in OfKind("argument", c) PROVE ref \in {f[x] : x \in S}
  <2>1. ref \in References /\ ref[1] = "argument" /\ ref[3] = c
    BY <1>2 DEF OfKind
  <2>2. \E x \in S : ref = <<"argument", x, c, x>>
    BY <2>1, InReferences DEF ArgumentOf
  <2> QED
    BY <2>2
<1>3. ASSUME NEW x \in S PROVE f[x] \in OfKind("argument", c)
  <2>1. f[x] = <<"argument", x, c, x>> /\ inputs[at[x]] = c
    BY <1>3 DEF ArgumentOf
  <2>2. f[x] \in References
    BY <1>3, <2>1, InReferences DEF ArgumentOf
  <2> QED
    BY <2>1, <2>2 DEF OfKind
<1>4. {f[x] : x \in S} = OfKind("argument", c)
  BY <1>2, <1>3
<1> HIDE DEF f
<1>5. f = [x \in S |-> f[x]]
  BY DEF f
<1> QED
  BY <1>1, <1>4, <1>5, PlacesFinite, ImageCount

\* References from the registers of f to its constant.
LEMMA ConstantCount ==
  ASSUME IInv, NEW c \in Cells
  PROVE  /\ IsFiniteSet(OfKind("constant", c))
         /\ Cardinality(OfKind("constant", c)) = Cardinality(ConstantOf(c))
<1> DEFINE S == ConstantOf(c)
           f == [x \in S |-> <<"constant", x, c, x>>]
<1>1. \A x, y \in S : f[x] = f[y] => x = y
  OBVIOUS
<1>2. ASSUME NEW ref \in OfKind("constant", c) PROVE ref \in {f[x] : x \in S}
  <2>1. ref \in References /\ ref[1] = "constant" /\ ref[3] = c
    BY <1>2 DEF OfKind
  <2>2. \E x \in S : ref = <<"constant", x, c, x>>
    BY <2>1, InReferences DEF ConstantOf
  <2> QED
    BY <2>2
<1>3. ASSUME NEW x \in S PROVE f[x] \in OfKind("constant", c)
  <2>1. f[x] = <<"constant", x, c, x>> /\ Const = c
    BY <1>3 DEF ConstantOf
  <2>2. f[x] \in References
    BY <1>3, <2>1, InReferences DEF ConstantOf
  <2> QED
    BY <2>1, <2>2 DEF OfKind
<1>4. {f[x] : x \in S} = OfKind("constant", c)
  BY <1>2, <1>3
<1> HIDE DEF f
<1>5. f = [x \in S |-> f[x]]
  BY DEF f
<1> QED
  BY <1>1, <1>4, <1>5, PlacesFinite, ImageCount

\* References from what f returned.
LEMMA ValueCount ==
  ASSUME IInv, NEW c \in Cells
  PROVE  /\ IsFiniteSet(OfKind("value", c))
         /\ Cardinality(OfKind("value", c)) = Cardinality(ValueHeld(c))
<1> DEFINE S == ValueHeld(c)
           f == [x \in S |-> <<"value", x, c, x>>]
<1>1. \A x, y \in S : f[x] = f[y] => x = y
  OBVIOUS
<1>2. ASSUME NEW ref \in OfKind("value", c) PROVE ref \in {f[x] : x \in S}
  <2>1. ref \in References /\ ref[1] = "value" /\ ref[3] = c
    BY <1>2 DEF OfKind
  <2>2. \E x \in S : ref = <<"value", x, c, x>>
    BY <2>1, InReferences DEF ValueHeld
  <2> QED
    BY <2>2
<1>3. ASSUME NEW x \in S PROVE f[x] \in OfKind("value", c)
  <2>1. f[x] = <<"value", x, c, x>> /\ value[x] = c
    BY <1>3 DEF ValueHeld
  <2>2. f[x] \in References
    BY <1>3, <2>1, InReferences DEF ValueHeld
  <2> QED
    BY <2>1, <2>2 DEF OfKind
<1>4. {f[x] : x \in S} = OfKind("value", c)
  BY <1>2, <1>3
<1> HIDE DEF f
<1>5. f = [x \in S |-> f[x]]
  BY DEF f
<1> QED
  BY <1>1, <1>4, <1>5, PlacesFinite, ImageCount

\* References that nobody releases.
LEMMA LeakedCount ==
  ASSUME IInv, NEW c \in Cells
  PROVE  /\ IsFiniteSet(OfKind("leaked", c))
         /\ Cardinality(OfKind("leaked", c)) = Cardinality(LostAs(c))
<1> DEFINE S == LostAs(c)
           f == [x \in S |-> <<"leaked", 0, x, 0>>]
<1>1. \A x, y \in S : f[x] = f[y] => x = y
  OBVIOUS
<1>2. ASSUME NEW ref \in OfKind("leaked", c) PROVE ref \in {f[x] : x \in S}
  <2>1. ref \in References /\ ref[1] = "leaked" /\ ref[3] = c
    BY <1>2 DEF OfKind
  <2>2. \E x \in S : ref = <<"leaked", 0, x, 0>>
    BY <2>1, InReferences DEF LostAs
  <2> QED
    BY <2>2
<1>3. ASSUME NEW x \in S PROVE f[x] \in OfKind("leaked", c)
  <2>1. f[x] = <<"leaked", 0, x, 0>> /\ x = c
    BY <1>3 DEF LostAs
  <2>2. f[x] \in References
    BY <1>3, <2>1, InReferences DEF LostAs
  <2> QED
    BY <2>1, <2>2 DEF OfKind
<1>4. {f[x] : x \in S} = OfKind("leaked", c)
  BY <1>2, <1>3
<1> HIDE DEF f
<1>5. f = [x \in S |-> f[x]]
  BY DEF f
<1> QED
  BY <1>1, <1>4, <1>5, PlacesFinite, ImageCount

\* References from the list that is returned.
LEMMA AnswerCount ==
  ASSUME IInv, NEW c \in Cells
  PROVE  /\ IsFiniteSet(OfKind("answer", c))
         /\ Cardinality(OfKind("answer", c)) = IF phase = "done" THEN Cardinality(AnswerAt(c)) ELSE 0
<1>1. CASE phase # "done"
  <2>1. OfKind("answer", c) = {}
    BY <1>1, InReferences DEF OfKind
  <2> QED
    BY <1>1, <2>1, FS_EmptySet
<1>2. CASE phase = "done"
  <2> DEFINE S == AnswerAt(c)
             f == [x \in S |-> <<"answer", x, c, 0>>]
  <2>1. \A x, y \in S : f[x] = f[y] => x = y
    OBVIOUS
  <2>2. ASSUME NEW ref \in OfKind("answer", c) PROVE ref \in {f[x] : x \in S}
    <3>1. ref \in References /\ ref[1] = "answer" /\ ref[3] = c
      BY <2>2 DEF OfKind
    <3>2. \E x \in S : ref = <<"answer", x, c, 0>>
      BY <3>1, InReferences DEF AnswerAt
    <3> QED
      BY <3>2
  <2>3. ASSUME NEW x \in S PROVE f[x] \in OfKind("answer", c)
    <3>1. f[x] = <<"answer", x, c, 0>> /\ answer.values[x] = c /\ x \in DOMAIN answer.values
      BY <2>3 DEF AnswerAt
    <3>2. f[x] \in References
      BY <1>2, <3>1, InReferences
    <3> QED
      BY <3>1, <3>2 DEF OfKind
  <2>4. {f[x] : x \in S} = OfKind("answer", c)
    BY <2>2, <2>3
  <2> HIDE DEF f
  <2>5. f = [x \in S |-> f[x]]
    BY DEF f
  <2> QED
    BY <1>2, <2>1, <2>4, <2>5, PlacesFinite, ImageCount
<1> QED
  BY <1>1, <1>2

\* The constant is referred to by the code of f.
LEMMA CodeCount ==
  ASSUME NEW c
  PROVE  /\ IsFiniteSet(OfKind("code", c))
         /\ Cardinality(OfKind("code", c)) = IF c = Const THEN 1 ELSE 0
<1>1. CASE c = Const
  <2>1. OfKind("code", c) = {<<"code", 0, Const, 0>>}
    <3>1. \A ref \in OfKind("code", c) : ref = <<"code", 0, Const, 0>>
      BY InReferences DEF OfKind
    <3>2. <<"code", 0, Const, 0>> \in References
      BY InReferences
    <3> QED
      BY <1>1, <3>1, <3>2 DEF OfKind
  <2> QED
    BY <1>1, <2>1, FS_Singleton
<1>2. CASE c # Const
  <2>1. OfKind("code", c) = {}
    BY <1>2, InReferences DEF OfKind
  <2> QED
    BY <1>2, <2>1, FS_EmptySet
<1> QED
  BY <1>1, <1>2

\* The references to a cell are those of all the kinds.
LEMMA Counted ==
  ASSUME IInv, NEW c \in Cells
  PROVE  Cardinality({ref \in References : ref[3] = c}) = Total(c)
<1> DEFINE K(k) == OfKind(k, c)
           A2 == K("list") \cup K("code")
           A3 == A2 \cup K("input")
           A4 == A3 \cup K("result")
           A5 == A4 \cup K("argument")
           A6 == A5 \cup K("constant")
           A7 == A6 \cup K("value")
           A8 == A7 \cup K("leaked")
           A9 == A8 \cup K("answer")
<1>1. {ref \in References : ref[3] = c} = A9
  <2>1. A9 \subseteq {ref \in References : ref[3] = c}
    BY DEF OfKind
  <2>2. ASSUME NEW ref \in References, ref[3] = c PROVE ref \in A9
    <3>1. ref[1] \in {"list", "code", "input", "result", "argument", "constant",
                      "value", "leaked", "answer"}
      BY InReferences
    <3> QED
      BY <2>2, <3>1 DEF OfKind
  <2> QED
    BY <2>1, <2>2
<1>2. \A k : \A ref \in K(k) : ref[1] = k
  BY DEF OfKind
<1>3. /\ IsFiniteSet(K("list")) /\ IsFiniteSet(K("code")) /\ IsFiniteSet(K("input"))
      /\ IsFiniteSet(K("result")) /\ IsFiniteSet(K("argument")) /\ IsFiniteSet(K("constant"))
      /\ IsFiniteSet(K("value")) /\ IsFiniteSet(K("leaked")) /\ IsFiniteSet(K("answer"))
  BY ListCount, CodeCount, InputCount, ResultCount, ArgumentCount, ConstantCount, ValueCount,
     LeakedCount, AnswerCount
<1> HIDE DEF K
<1>4. IsFiniteSet(A2) /\ Cardinality(A2) = Cardinality(K("list")) + Cardinality(K("code"))
  BY <1>2, <1>3, ApartCount
<1>5. IsFiniteSet(A3) /\ Cardinality(A3) = Cardinality(A2) + Cardinality(K("input"))
  <2>1. A2 \cap K("input") = {}
    BY <1>2
  <2> QED
    BY <1>3, <1>4, <2>1, ApartCount
<1>6. IsFiniteSet(A4) /\ Cardinality(A4) = Cardinality(A3) + Cardinality(K("result"))
  <2>1. A3 \cap K("result") = {}
    BY <1>2
  <2> QED
    BY <1>3, <1>5, <2>1, ApartCount
<1>7. IsFiniteSet(A5) /\ Cardinality(A5) = Cardinality(A4) + Cardinality(K("argument"))
  <2>1. A4 \cap K("argument") = {}
    BY <1>2
  <2> QED
    BY <1>3, <1>6, <2>1, ApartCount
<1>8. IsFiniteSet(A6) /\ Cardinality(A6) = Cardinality(A5) + Cardinality(K("constant"))
  <2>1. A5 \cap K("constant") = {}
    BY <1>2
  <2> QED
    BY <1>3, <1>7, <2>1, ApartCount
<1>9. IsFiniteSet(A7) /\ Cardinality(A7) = Cardinality(A6) + Cardinality(K("value"))
  <2>1. A6 \cap K("value") = {}
    BY <1>2
  <2> QED
    BY <1>3, <1>8, <2>1, ApartCount
<1>10. IsFiniteSet(A8) /\ Cardinality(A8) = Cardinality(A7) + Cardinality(K("leaked"))
  <2>1. A7 \cap K("leaked") = {}
    BY <1>2
  <2> QED
    BY <1>3, <1>9, <2>1, ApartCount
<1>11. Cardinality(A9) = Cardinality(A8) + Cardinality(K("answer"))
  <2>1. A8 \cap K("answer") = {}
    BY <1>2
  <2> QED
    BY <1>3, <1>10, <2>1, ApartCount
<1> HIDE DEF A2, A3, A4, A5, A6, A7, A8, A9
<1>12. Cardinality(A9) =
           Cardinality(ListAt(c)) + (IF c = Const THEN 1 ELSE 0)
           + Cardinality(InputAt(c)) + Cardinality(ResultAt(c)) + Cardinality(ArgumentOf(c))
           + Cardinality(ConstantOf(c)) + Cardinality(ValueHeld(c)) + Cardinality(LostAs(c))
           + (IF phase = "done" THEN Cardinality(AnswerAt(c)) ELSE 0)
  <2>1. Cardinality(K("list")) = Cardinality(ListAt(c)) /\ Cardinality(K("input")) = Cardinality(InputAt(c))
    BY ListCount, InputCount DEF K
  <2>2. Cardinality(K("result")) = Cardinality(ResultAt(c)) /\ Cardinality(K("argument")) = Cardinality(ArgumentOf(c))
    BY ResultCount, ArgumentCount DEF K
  <2>3. Cardinality(K("constant")) = Cardinality(ConstantOf(c)) /\ Cardinality(K("value")) = Cardinality(ValueHeld(c))
    BY ConstantCount, ValueCount DEF K
  <2>4. /\ Cardinality(K("leaked")) = Cardinality(LostAs(c))
        /\ Cardinality(K("answer")) = (IF phase = "done" THEN Cardinality(AnswerAt(c)) ELSE 0)
        /\ Cardinality(K("code")) = (IF c = Const THEN 1 ELSE 0)
    BY LeakedCount, AnswerCount, CodeCount DEF K
  <2> QED
    BY <1>4, <1>5, <1>6, <1>7, <1>8, <1>9, <1>10, <1>11, <2>1, <2>2, <2>3, <2>4
<1>13. Cardinality(A9) = Total(c)
  BY <1>12, PlacesFinite DEF Total, InCall
<1> QED
  BY <1>1, <1>13

-----------------------------------------------------------------------------
(* How the counts change.                                                   *)

\* A retain adds one to the count of its cell, and to no other.
LEMMA PlusFact ==
  ASSUME NEW counts \in [Cells -> Int], NEW v
  PROVE  /\ Plus(counts, v) \in [Cells -> Int]
         /\ \A c \in Cells : Plus(counts, v)[c] = counts[c] + IF v = c THEN 1 ELSE 0
BY DEF Plus

\* A release takes one from the count of its cell, and from no other.
LEMMA MinusFact ==
  ASSUME NEW counts \in [Cells -> Int], NEW v
  PROVE  /\ Minus(counts, v) \in [Cells -> Int]
         /\ \A c \in Cells : Minus(counts, v)[c] = counts[c] - IF v = c THEN 1 ELSE 0
BY DEF Minus

\* Releasing a part of an array takes away as many as refer to the cell.
LEMMA ReleasedFact ==
  ASSUME NEW counts \in [Cells -> Int], NEW a, NEW S, IsFiniteSet(S)
  PROVE  /\ Released(counts, a, S) \in [Cells -> Int]
         /\ \A c \in Cells : Released(counts, a, S)[c] = counts[c] - Cardinality({i \in S : a[i] = c})
<1>1. ASSUME NEW c \in Cells PROVE counts[c] - Cardinality({i \in S : a[i] = c}) \in Int
  <2>1. Cardinality({i \in S : a[i] = c}) \in Nat
    BY FS_Subset, FS_CardinalityType
  <2> QED
    BY <2>1
<1> QED
  BY <1>1 DEF Released

\* Null is no cell.
LEMMA CellFact ==
  ASSUME NEW c \in Cells, N \in Nat
  PROVE  c # Null
BY MapAssumption DEF Cells, Made

\* An element keeps its worker.
LEMMA SameOwner ==
  ASSUME Types, UNCHANGED <<list, hw>>, NEW i \in 1..N
  PROVE  Owner(i)' = Owner(i) /\ Owner(i) \in 1..P
<1> PICK k \in {Owner(i)} : TRUE
  OBVIOUS
<1>1. /\ k \in 1..P /\ i \in Chunk(k)
      /\ \A j \in 1..P : i \in Chunk(j) => j = k
  BY OwnerFact
<1>2. P' = P /\ \A j : Chunk(j)' = Chunk(j)
  BY SameChunks
<1>3. /\ k \in 1..P' /\ i \in Chunk(k)'
      /\ \A j \in 1..P' : i \in Chunk(j)' => j = k
  BY <1>1, <1>2
<1>4. Owner(i)' = k
  BY <1>3 DEF Owner
<1> QED
  BY <1>1, <1>4

\* The inputs stay where they are as long as no worker leaves.
LEMMA SameInputs ==
  ASSUME IInv, UNCHANGED <<list, hw, inputs, phase>>,
         \A k \in 1..P : pc'[k] = "gone" <=> pc[k] = "gone", NEW c
  PROVE  InputAt(c)' = InputAt(c)
<1>1. N' = N
  BY SameChunks
<1>2. \A i \in 1..N : Owner(i)' = Owner(i) /\ Owner(i) \in 1..P
  BY SameOwner DEF IInv
<1> QED
  BY <1>1, <1>2 DEF InputAt

\* What a worker changes is within the call: the counts and the references there
\* change alike.
LEMMA WorkCounts ==
  ASSUME IInv, CountsInv, phase = "run", UNCHANGED <<list, hw, main>>,
         rc' \in [Cells -> Int],
         \A c \in Cells : \E d \in Int : rc'[c] = rc[c] + d /\ InCall(c)' = InCall(c) + d
  PROVE  CountsInv'
<1>1. Cells' = Cells /\ phase' = "run"
  BY SameChunks DEF main
<1>2. ASSUME NEW c \in Cells PROVE rc'[c] = Total(c)'
  <2>1. ListAt(c)' = ListAt(c)
    BY SameChunks DEF ListAt
  <2>2. PICK b \in Nat : b = Cardinality(ListAt(c)) + (IF c = Const THEN 1 ELSE 0)
    BY PlacesFinite
  <2>3. Total(c) = b + InCall(c)
    BY <2>2 DEF Total
  <2>4. Total(c)' = b + InCall(c)'
    BY <1>1, <2>1, <2>2 DEF Total
  <2>5. rc[c] = Total(c) /\ InCall(c) \in Nat
    BY PlacesFinite DEF CountsInv, InCall
  <2>6. PICK d \in Int : rc'[c] = rc[c] + d /\ InCall(c)' = InCall(c) + d
    OBVIOUS
  <2> QED
    BY <2>3, <2>4, <2>5, <2>6
<1> QED
  BY <1>1, <1>2 DEF CountsInv

\* A new worker has nothing of its own yet.
LEMMA LaunchCounts ==
  ASSUME IInv, CountsInv, NEW j \in 1..P, Launch(j)
  PROVE  CountsInv'
<1>1. /\ Types /\ phase = "run" /\ pc[j] = "unborn" /\ rc' = rc /\ rc \in [Cells -> Int]
      /\ P' = P /\ N' = N
  BY SameChunks DEF IInv, CountsInv, Launch
<1>2. pc'[j] = "next" /\ \A k \in 1..P : k # j => pc'[k] = pc[k] /\ at'[k] = at[k]
  BY <1>1 DEF Launch, Types
<1>3. ASSUME NEW c \in Cells PROVE InCall(c)' = InCall(c) /\ InCall(c) \in Nat
  <2>1. InputAt(c)' = InputAt(c)
    BY <1>1, <1>2, SameInputs DEF Launch, main
  <2>2. ResultAt(c)' = ResultAt(c) /\ LostAs(c)' = LostAs(c)
    BY <1>1 DEF ResultAt, LostAs, Launch, main
  <2>3. ArgumentOf(c)' = ArgumentOf(c) /\ ConstantOf(c)' = ConstantOf(c)
    BY <1>1, <1>2 DEF ArgumentOf, ConstantOf, Launch, main
  <2>4. ValueHeld(c)' = ValueHeld(c)
    BY <1>1 DEF ValueHeld, Launch
  <2> QED
    BY <2>1, <2>2, <2>3, <2>4, PlacesFinite DEF InCall
<1>4. \A c \in Cells : rc'[c] = rc[c] + 0 /\ InCall(c)' = InCall(c) + 0
  BY <1>1, <1>3
<1> QED
  BY <1>1, <1>4, WorkCounts DEF Launch

\* The registers of f refer to its argument and its constant.
LEMMA CallCounts ==
  ASSUME IInv, CountsInv, NEW j \in 1..P, Call(j)
  PROVE  CountsInv'
<1> PICK m \in {at[j]} : TRUE
  OBVIOUS
<1>1. /\ Types /\ phase = "run" /\ pc[j] = "next" /\ rc \in [Cells -> Int]
      /\ rc' = Plus(Plus(rc, inputs[m]), Const)
      /\ P' = P /\ N' = N
  BY SameChunks, AtWork DEF IInv, CountsInv, Call
<1>2. pc'[j] = "in" /\ \A k \in 1..P : k # j => pc'[k] = pc[k]
  BY <1>1 DEF Call, Types
<1>3. /\ rc' \in [Cells -> Int]
      /\ \A c \in Cells : rc'[c] = rc[c] + (IF inputs[m] = c THEN 1 ELSE 0) + (IF Const = c THEN 1 ELSE 0)
  <2>1. Plus(rc, inputs[m]) \in [Cells -> Int]
    BY <1>1, PlusFact
  <2> QED
    BY <1>1, <2>1, PlusFact
<1>4. ASSUME NEW c \in Cells
      PROVE  InCall(c)' = InCall(c) + (IF inputs[m] = c THEN 1 ELSE 0) + (IF Const = c THEN 1 ELSE 0)
  <2>1. InputAt(c)' = InputAt(c)
    BY <1>1, <1>2, SameInputs DEF Call, main
  <2>2. ResultAt(c)' = ResultAt(c) /\ LostAs(c)' = LostAs(c) /\ ValueHeld(c)' = ValueHeld(c)
    BY <1>1 DEF ResultAt, LostAs, ValueHeld, Call, main
  <2>3. Cardinality(ArgumentOf(c)') = Cardinality(ArgumentOf(c)) + (IF inputs[m] = c THEN 1 ELSE 0)
    <3>1. j \notin ArgumentOf(c)
      BY <1>1 DEF ArgumentOf
    <3>2. ArgumentOf(c)' = IF inputs[m] = c THEN ArgumentOf(c) \cup {j} ELSE ArgumentOf(c)
      BY <1>1, <1>2 DEF ArgumentOf, Call, main
    <3> QED
      BY <3>1, <3>2, PlacesFinite, OneMore
  <2>4. Cardinality(ConstantOf(c)') = Cardinality(ConstantOf(c)) + (IF Const = c THEN 1 ELSE 0)
    <3>1. j \notin ConstantOf(c)
      BY <1>1 DEF ConstantOf
    <3>2. ConstantOf(c)' = IF Const = c THEN ConstantOf(c) \cup {j} ELSE ConstantOf(c)
      BY <1>1, <1>2 DEF ConstantOf, Call, main
    <3> QED
      BY <3>1, <3>2, PlacesFinite, OneMore
  <2> QED
    BY <2>1, <2>2, <2>3, <2>4, PlacesFinite DEF InCall
<1>5. ASSUME NEW c \in Cells
      PROVE  \E d \in Int : rc'[c] = rc[c] + d /\ InCall(c)' = InCall(c) + d
  <2>1. PICK d \in Int : d = (IF inputs[m] = c THEN 1 ELSE 0) + (IF Const = c THEN 1 ELSE 0)
    OBVIOUS
  <2>2. InCall(c) \in Nat /\ rc[c] \in Int
    BY <1>1, PlacesFinite DEF InCall
  <2>3. rc'[c] = rc[c] + d
    BY <1>3, <2>1, <2>2
  <2>4. InCall(c)' = InCall(c) + d
    BY <1>4, <2>1, <2>2
  <2> QED
    BY <2>3, <2>4
<1> QED
  BY <1>1, <1>3, <1>5, WorkCounts DEF Call

\* The registers of f are released, and what it returns is held.
LEMMA ReturnCounts ==
  ASSUME IInv, CountsInv, NEW j \in 1..P, NEW o \in Outcomes, Return(j, o)
  PROVE  CountsInv'
<1> PICK m \in {at[j]} : TRUE
  OBVIOUS
<1> PICK w \in {ValueOf(o, m)} : TRUE
  OBVIOUS
<1>1. /\ Types /\ WorkerOK(j) /\ phase = "run" /\ pc[j] = "in" /\ rc \in [Cells -> Int]
      /\ P' = P /\ N' = N /\ N \in Nat
  BY SameChunks, AtWork, ListFact DEF IInv, CountsInv, Return
<1>2. pc'[j] \notin {"in", "gone"} /\ \A k \in 1..P : k # j => pc'[k] = pc[k]
  BY <1>1 DEF Return, Types, AfterError
<1>3. /\ Minus(Minus(rc, inputs[m]), Const) \in [Cells -> Int]
      /\ \A c \in Cells : Minus(Minus(rc, inputs[m]), Const)[c] =
             rc[c] - (IF inputs[m] = c THEN 1 ELSE 0) - (IF Const = c THEN 1 ELSE 0)
  <2>1. Minus(rc, inputs[m]) \in [Cells -> Int]
    BY <1>1, MinusFact
  <2> QED
    BY <1>1, <2>1, MinusFact
<1>4. /\ rc' \in [Cells -> Int]
      /\ \A c \in Cells : rc'[c] = rc[c] - (IF inputs[m] = c THEN 1 ELSE 0) - (IF Const = c THEN 1 ELSE 0)
                                   + (IF o # "raise" /\ w = c THEN 1 ELSE 0)
  <2>1. CASE o = "raise"
    BY <1>1, <1>3, <2>1 DEF Return
  <2>2. CASE o # "raise"
    BY <1>1, <1>3, <2>2, PlusFact DEF Return
  <2> QED
    BY <2>1, <2>2
<1>5. ASSUME NEW c \in Cells
      PROVE  InCall(c)' = InCall(c) - (IF inputs[m] = c THEN 1 ELSE 0) - (IF Const = c THEN 1 ELSE 0)
                          + (IF o # "raise" /\ w = c THEN 1 ELSE 0)
  <2>1. InputAt(c)' = InputAt(c)
    BY <1>1, <1>2, SameInputs DEF Return, main
  <2>2. ResultAt(c)' = ResultAt(c) /\ LostAs(c)' = LostAs(c)
    BY <1>1 DEF ResultAt, LostAs, Return, main
  <2>3. Cardinality(ArgumentOf(c)') = Cardinality(ArgumentOf(c)) - (IF inputs[m] = c THEN 1 ELSE 0)
    <3>1. inputs[m] = c => j \in ArgumentOf(c)
      BY <1>1 DEF ArgumentOf
    <3>2. ArgumentOf(c)' = IF inputs[m] = c THEN ArgumentOf(c) \ {j} ELSE ArgumentOf(c)
      BY <1>1, <1>2 DEF ArgumentOf, Return, main
    <3> QED
      BY <3>1, <3>2, PlacesFinite, OneLess
  <2>4. Cardinality(ConstantOf(c)') = Cardinality(ConstantOf(c)) - (IF Const = c THEN 1 ELSE 0)
    <3>1. Const = c => j \in ConstantOf(c)
      BY <1>1 DEF ConstantOf
    <3>2. ConstantOf(c)' = IF Const = c THEN ConstantOf(c) \ {j} ELSE ConstantOf(c)
      BY <1>1, <1>2 DEF ConstantOf, Return, main
    <3> QED
      BY <3>1, <3>2, PlacesFinite, OneLess
  <2>5. Cardinality(ValueHeld(c)') = Cardinality(ValueHeld(c)) + (IF o # "raise" /\ w = c THEN 1 ELSE 0)
    <3>1. j \notin ValueHeld(c)
      BY <1>1, CellFact DEF WorkerOK, ValueHeld
    <3>2. \A k \in 1..P : value'[k] = IF k = j /\ o # "raise" THEN w ELSE value[k]
      BY <1>1 DEF Return, Types
    <3>3. ValueHeld(c)' = IF o # "raise" /\ w = c THEN ValueHeld(c) \cup {j} ELSE ValueHeld(c)
      BY <1>1, <3>1, <3>2 DEF ValueHeld
    <3>4. (o # "raise" /\ w = c) \in BOOLEAN
      OBVIOUS
    <3> QED
      BY <3>1, <3>3, <3>4, PlacesFinite, OneMore
  <2> QED
    BY <2>1, <2>2, <2>3, <2>4, <2>5, PlacesFinite DEF InCall
<1>6. ASSUME NEW c \in Cells
      PROVE  \E d \in Int : rc'[c] = rc[c] + d /\ InCall(c)' = InCall(c) + d
  <2>1. PICK d \in Int : d = (IF o # "raise" /\ w = c THEN 1 ELSE 0)
                             - (IF inputs[m] = c THEN 1 ELSE 0) - (IF Const = c THEN 1 ELSE 0)
    OBVIOUS
  <2>2. InCall(c) \in Nat /\ rc[c] \in Int
    BY <1>1, PlacesFinite DEF InCall
  <2>3. rc'[c] = rc[c] + d
    BY <1>4, <2>1, <2>2
  <2>4. InCall(c)' = InCall(c) + d
    BY <1>5, <2>1, <2>2
  <2> QED
    BY <2>3, <2>4
<1> QED
  BY <1>1, <1>4, <1>6, WorkCounts DEF Return

\* What f returned is released, and its copy is a result.
LEMMA SendCounts ==
  ASSUME IInv, CountsInv, NEW j \in 1..P, SendResult(j)
  PROVE  CountsInv'
<1> PICK m \in {at[j]} : TRUE
  OBVIOUS
<1> PICK v \in {value[j]} : TRUE
  OBVIOUS
<1> PICK out \in {Sent(value[j], <<"result", m>>)} : TRUE
  OBVIOUS
<1>1. /\ Types /\ WorkerOK(j) /\ phase = "run" /\ pc[j] = "send" /\ rc \in [Cells -> Int]
      /\ P' = P /\ N' = N /\ N \in Nat
  BY SameChunks, AtWork, ListFact DEF IInv, CountsInv, SendResult
<1>2. m \in Chunk(j) /\ m \in 1..N
  BY <1>1, AtFact
<1>3. pc'[j] = "next" /\ \A k \in 1..P : k # j => pc'[k] = pc[k] /\ at'[k] = at[k]
  BY <1>1 DEF SendResult, Types
<1>4. /\ rc' \in [Cells -> Int]
      /\ \A c \in Cells : rc'[c] = rc[c] + (IF out = c THEN 1 ELSE 0) - (IF v = c THEN 1 ELSE 0)
  <2>1. /\ Plus(rc, out) \in [Cells -> Int]
        /\ \A c \in Cells : Plus(rc, out)[c] = rc[c] + (IF out = c THEN 1 ELSE 0)
    BY <1>1, PlusFact
  <2>2. PICK r \in [Cells -> Int] : r = Plus(rc, out)
    BY <2>1
  <2>3. rc' = Minus(r, v)
    BY <2>2 DEF SendResult
  <2>4. /\ rc' \in [Cells -> Int]
        /\ \A c \in Cells : rc'[c] = r[c] - (IF v = c THEN 1 ELSE 0)
    BY <2>3, MinusFact
  <2>5. ASSUME NEW c \in Cells
        PROVE  rc'[c] = rc[c] + (IF out = c THEN 1 ELSE 0) - (IF v = c THEN 1 ELSE 0)
    <3>1. r[c] = rc[c] + (IF out = c THEN 1 ELSE 0) /\ rc[c] \in Int
      BY <1>1, <2>1, <2>2
    <3> QED
      BY <2>4, <3>1
  <2> QED
    BY <2>4, <2>5
<1>5. ASSUME NEW c \in Cells
      PROVE  InCall(c)' = InCall(c) + (IF out = c THEN 1 ELSE 0) - (IF v = c THEN 1 ELSE 0)
  <2>1. InputAt(c)' = InputAt(c)
    BY <1>1, <1>3, SameInputs DEF SendResult, main
  <2>2. LostAs(c)' = LostAs(c)
    BY <1>1 DEF LostAs, SendResult
  <2>3. ArgumentOf(c)' = ArgumentOf(c) /\ ConstantOf(c)' = ConstantOf(c)
    BY <1>1, <1>3 DEF ArgumentOf, ConstantOf, SendResult, main
  <2>4. Cardinality(ResultAt(c)') = Cardinality(ResultAt(c)) + (IF out = c THEN 1 ELSE 0)
    <3>1. m \notin ResultAt(c)
      <4>1. ~(m < at[j])
        BY <1>2
      <4>2. results[m] = Null
        BY <1>1, <1>2, <4>1 DEF WorkerOK
      <4> QED
        BY <1>1, <4>2, CellFact DEF ResultAt
    <3>2. \A i \in 1..N : results'[i] = IF i = m THEN out ELSE results[i]
      BY <1>1 DEF SendResult, Types
    <3>3. ResultAt(c)' = IF out = c THEN ResultAt(c) \cup {m} ELSE ResultAt(c)
      BY <1>1, <1>2, <3>1, <3>2 DEF ResultAt, SendResult, main
    <3> QED
      BY <3>1, <3>3, PlacesFinite, OneMore
  <2>5. Cardinality(ValueHeld(c)') = Cardinality(ValueHeld(c)) - (IF v = c THEN 1 ELSE 0)
    <3>1. v = c => j \in ValueHeld(c)
      BY DEF ValueHeld
    <3>2. \A k \in 1..P : value'[k] = IF k = j THEN Null ELSE value[k]
      BY <1>1 DEF SendResult, Types
    <3>3. ValueHeld(c)' = IF v = c THEN ValueHeld(c) \ {j} ELSE ValueHeld(c)
      BY <1>1, <3>1, <3>2, CellFact DEF ValueHeld
    <3> QED
      BY <3>1, <3>3, PlacesFinite, OneLess
  <2> QED
    BY <2>1, <2>2, <2>3, <2>4, <2>5, PlacesFinite DEF InCall
<1>6. ASSUME NEW c \in Cells
      PROVE  \E d \in Int : rc'[c] = rc[c] + d /\ InCall(c)' = InCall(c) + d
  <2>1. PICK d \in Int : d = (IF out = c THEN 1 ELSE 0) - (IF v = c THEN 1 ELSE 0)
    OBVIOUS
  <2>2. InCall(c) \in Nat /\ rc[c] \in Int
    BY <1>1, PlacesFinite DEF InCall
  <2>3. rc'[c] = rc[c] + d
    BY <1>4, <2>1, <2>2
  <2>4. InCall(c)' = InCall(c) + d
    BY <1>5, <2>1, <2>2
  <2> QED
    BY <2>3, <2>4
<1> QED
  BY <1>1, <1>4, <1>6, WorkCounts DEF SendResult

\* What cannot be sent stays behind: its reference is never released.
LEMMA RejectResultCounts ==
  ASSUME IInv, CountsInv, NEW j \in 1..P, RejectResult(j)
  PROVE  CountsInv'
<1> PICK v \in {value[j]} : TRUE
  OBVIOUS
<1>1. /\ Types /\ phase = "run" /\ pc[j] = "send" /\ rc' = rc /\ rc \in [Cells -> Int]
      /\ frozen = Shared \cup {Const} /\ P' = P /\ N' = N /\ N \in Nat
  BY SameChunks, AtWork, ListFact DEF IInv, CountsInv, RejectResult
<1>2. pc'[j] = "drop" /\ \A k \in 1..P : k # j => pc'[k] = pc[k]
  BY <1>1 DEF RejectResult, Types, AfterError
<1>3. v \notin frozen
  <2>1. v = Handle \/ v \in {"handle"} \X (1..N)
    BY DEF RejectResult, Sendable
  <2>2. v = Handle \/ v \in Made
    BY <1>1, <2>1 DEF Made
  <2> QED
    BY <1>1, <2>2, MapAssumption
<1>4. ASSUME NEW c \in Cells PROVE InCall(c)' = InCall(c)
  <2>1. InputAt(c)' = InputAt(c)
    BY <1>1, <1>2, SameInputs DEF RejectResult, main
  <2>2. ResultAt(c)' = ResultAt(c)
    BY <1>1 DEF ResultAt, RejectResult, main
  <2>3. ArgumentOf(c)' = ArgumentOf(c) /\ ConstantOf(c)' = ConstantOf(c)
    BY <1>1, <1>2 DEF ArgumentOf, ConstantOf, RejectResult, main
  <2>4. Cardinality(ValueHeld(c)') = Cardinality(ValueHeld(c)) - (IF v = c THEN 1 ELSE 0)
    <3>1. v = c => j \in ValueHeld(c)
      BY DEF ValueHeld
    <3>2. \A k \in 1..P : value'[k] = IF k = j THEN Null ELSE value[k]
      BY <1>1 DEF RejectResult, Types
    <3>3. ValueHeld(c)' = IF v = c THEN ValueHeld(c) \ {j} ELSE ValueHeld(c)
      BY <1>1, <3>1, <3>2, CellFact DEF ValueHeld
    <3> QED
      BY <3>1, <3>3, PlacesFinite, OneLess
  <2>5. Cardinality(LostAs(c)') = Cardinality(LostAs(c)) + (IF v = c THEN 1 ELSE 0)
    <3>1. v \notin LostAs(c)
      BY <1>3, ValueFact DEF LostAs
    <3>2. leaked' = leaked \cup {v}
      BY DEF RejectResult
    <3>3. LostAs(c)' = IF v = c THEN LostAs(c) \cup {v} ELSE LostAs(c)
      BY <3>2 DEF LostAs
    <3> QED
      BY <3>1, <3>3, PlacesFinite, OneMore
  <2> QED
    BY <2>1, <2>2, <2>3, <2>4, <2>5, PlacesFinite DEF InCall
<1>5. ASSUME NEW c \in Cells PROVE rc'[c] = rc[c] + 0 /\ InCall(c)' = InCall(c) + 0
  <2>1. InCall(c) \in Nat
    BY PlacesFinite DEF InCall
  <2> QED
    BY <1>1, <1>4, <2>1
<1> QED
  BY <1>1, <1>5, WorkCounts DEF RejectResult

\* A worker that leaves releases the inputs of its chunk.
LEMMA LeaveCounts ==
  ASSUME IInv, CountsInv, NEW j \in 1..P, Leave(j)
  PROVE  CountsInv'
<1>1. /\ Types /\ phase = "run" /\ pc[j] \notin {"in", "gone"} /\ rc \in [Cells -> Int]
      /\ P' = P /\ N' = N /\ N \in Nat
  BY SameChunks, AtWork, ListFact DEF IInv, CountsInv, Leave
<1>2. pc'[j] = "gone" /\ \A k \in 1..P : k # j => pc'[k] = pc[k]
  BY <1>1 DEF Leave, Types
<1> DEFINE own(c) == {i \in Chunk(j) : inputs[i] = c}
<1>3. IsFiniteSet(Chunk(j)) /\ Chunk(j) \subseteq 1..N
  <2>1. Lo(j) + 1 \in Int /\ Lo(j + 1) \in Int /\ Chunk(j) = (Lo(j) + 1)..Lo(j + 1) /\ Chunk(j) \subseteq 1..N
    BY <1>1, ChunkFact
  <2> QED
    BY <2>1, FS_Interval
<1>4. /\ rc' \in [Cells -> Int]
      /\ \A c \in Cells : rc'[c] = rc[c] - Cardinality(own(c))
  <2>1. rc' = Released(rc, inputs, Chunk(j))
    BY DEF Leave, OwnInputs
  <2> QED
    BY <1>1, <1>3, <2>1, ReleasedFact
<1>5. ASSUME NEW c \in Cells
      PROVE  Cardinality(own(c)) \in Nat /\ InCall(c)' = InCall(c) - Cardinality(own(c))
  <2>1. own(c) = InputAt(c) \cap own(c) /\ InputAt(c)' = InputAt(c) \ own(c)
    <3>1. \A i \in 1..N : Owner(i)' = Owner(i) /\ Owner(i) \in 1..P /\ (Owner(i) = j <=> i \in Chunk(j))
      BY <1>1, SameOwner, OwnerFact DEF Leave
    <3> QED
      BY <1>1, <1>2, <1>3, <3>1 DEF InputAt, Leave, main
  <2>2. IsFiniteSet(own(c)) /\ Cardinality(own(c)) \in Nat
    BY <1>3, FS_Subset, FS_CardinalityType
  <2> HIDE DEF own
  <2>3. Cardinality(InputAt(c)') = Cardinality(InputAt(c)) - Cardinality(own(c))
    BY <2>1, PlacesFinite, FS_Difference
  <2>4. ResultAt(c)' = ResultAt(c) /\ LostAs(c)' = LostAs(c) /\ ValueHeld(c)' = ValueHeld(c)
    BY <1>1 DEF ResultAt, LostAs, ValueHeld, Leave, main
  <2>5. ArgumentOf(c)' = ArgumentOf(c) /\ ConstantOf(c)' = ConstantOf(c)
    BY <1>1, <1>2 DEF ArgumentOf, ConstantOf, Leave, main
  <2> QED
    BY <2>2, <2>3, <2>4, <2>5, PlacesFinite DEF InCall
<1> HIDE DEF own
<1>6. ASSUME NEW c \in Cells
      PROVE  \E d \in Int : rc'[c] = rc[c] + d /\ InCall(c)' = InCall(c) + d
  <2>1. PICK d \in Int : d = 0 - Cardinality(own(c))
    BY <1>5
  <2>2. InCall(c) \in Nat
    BY PlacesFinite DEF InCall
  <2> QED
    BY <1>1, <1>4, <1>5, <2>1, <2>2
<1> QED
  BY <1>1, <1>4, <1>6, WorkCounts DEF Leave

\* What a step of the caller adds to the references to cell c.
Gained(c) ==
    (Cardinality(InputAt(c)') - Cardinality(InputAt(c)))
    + (Cardinality(ResultAt(c)') - Cardinality(ResultAt(c)))
    + (IF phase' = "done" THEN Cardinality(AnswerAt(c)') ELSE 0)

\* A step of the caller changes the references from the inputs, the results and the
\* answer, while no function runs.
LEMMA CallerCounts ==
  ASSUME IInv, CountsInv, UNCHANGED <<list, hw, workers>>,
         \A j \in 1..P : pc[j] \in {"unborn", "gone"},
         NEW c \in Cells,
         Cardinality(InputAt(c)') \in Nat, Cardinality(ResultAt(c)') \in Nat,
         phase' = "done" => Cardinality(AnswerAt(c)') \in Nat,
         phase # "done"
  PROVE  Total(c)' = rc[c] + Gained(c)
<1> PICK x \in Nat : x = Cardinality(InputAt(c)')
  OBVIOUS
<1> PICK y \in Nat : y = Cardinality(ResultAt(c)')
  OBVIOUS
<1> PICK z \in Nat : z = IF phase' = "done" THEN Cardinality(AnswerAt(c)') ELSE 0
  OBVIOUS
<1>1. N' = N /\ P' = P /\ N \in Nat /\ \A j \in 1..P : WorkerOK(j)
  BY SameChunks, ListFact DEF IInv
<1>2. ListAt(c)' = ListAt(c) /\ LostAs(c)' = LostAs(c)
  BY <1>1 DEF ListAt, LostAs, workers
<1>3. ArgumentOf(c) = {} /\ ConstantOf(c) = {} /\ ArgumentOf(c)' = {} /\ ConstantOf(c)' = {}
  BY <1>1 DEF ArgumentOf, ConstantOf, workers
<1>4. ValueHeld(c) = {} /\ ValueHeld(c)' = {}
  BY <1>1, CellFact DEF ValueHeld, WorkerOK, workers
<1>5. PICK b \in Nat : b = Cardinality(ListAt(c)) + (IF c = Const THEN 1 ELSE 0)
  BY PlacesFinite
<1>6. PICK l \in Nat : l = Cardinality(LostAs(c))
  BY PlacesFinite
<1>7. rc[c] = b + (Cardinality(InputAt(c)) + Cardinality(ResultAt(c)) + l)
  BY <1>3, <1>4, <1>5, <1>6, FS_EmptySet, PlacesFinite DEF CountsInv, Total, InCall
<1>8. Total(c)' = b + z + InCall(c)'
  BY <1>2, <1>5 DEF Total
<1>9. InCall(c)' = x + y + l
  BY <1>2, <1>3, <1>4, <1>6, FS_EmptySet DEF InCall
<1> QED
  BY <1>7, <1>8, <1>9, PlacesFinite DEF Gained

\* Before the threads are started there are no results.
LEMMA NoResults ==
  ASSUME IInv, phase \in {"call", "transfer"}
  PROVE  /\ \A i \in 1..N : results[i] = Null
         /\ \A j \in 1..P : pc[j] = "unborn"
         /\ \A c \in Cells : ResultAt(c) = {}
<1>1. \A j \in 1..P : pc[j] = "unborn" /\ at[j] = 0 /\ WorkerOK(j)
  BY DEF IInv, CallerInv, WorkerOK
<1>2. N \in Nat
  BY ListFact DEF IInv
<1>3. ASSUME NEW i \in 1..N PROVE results[i] = Null
  <2>1. Owner(i) \in 1..P /\ i \in Chunk(Owner(i))
    BY OwnerFact DEF IInv
  <2>2. ~(i < 0)
    BY <1>2
  <2> QED
    BY <1>1, <2>1, <2>2 DEF WorkerOK
<1> QED
  BY <1>1, <1>2, <1>3, CellFact DEF ResultAt

\* A call that is over before it has begun has no inputs to release.
LEMMA EarlyCounts ==
  ASSUME IInv, CountsInv, phase = "call", phase' = "done", answer'.values = <<>>,
         UNCHANGED <<list, hw, workers, rc>>
  PROVE  CountsInv'
<1>1. Cells' = Cells /\ rc \in [Cells -> Int] /\ rc' = rc
  BY SameChunks DEF CountsInv
<1>2. ASSUME NEW c \in Cells PROVE rc'[c] = Total(c)'
  <2>1. InputAt(c) = {} /\ InputAt(c)' = {} /\ ResultAt(c) = {} /\ ResultAt(c)' = {}
    BY NoResults DEF InputAt, ResultAt
  <2>2. AnswerAt(c)' = {}
    <3>1. DOMAIN <<>> = {}
      OBVIOUS
    <3> QED
      BY <3>1 DEF AnswerAt
  <2>3. /\ Cardinality(InputAt(c)') \in Nat /\ Cardinality(ResultAt(c)') \in Nat
        /\ phase' = "done" => Cardinality(AnswerAt(c)') \in Nat
    BY <2>1, <2>2, FS_EmptySet, PlacesFinite
  <2>4. Gained(c) = 0
    BY <2>1, <2>2, FS_EmptySet, PlacesFinite DEF Gained
  <2>5. Total(c)' = rc[c] + Gained(c)
    <3>1. UNCHANGED <<list, hw, workers>> /\ phase # "done" /\ \A j \in 1..P : pc[j] \in {"unborn", "gone"}
      BY <1>1, NoResults
    <3> QED
      BY <2>3, <3>1, CallerCounts
  <2>6. rc[c] \in Int
    BY <1>1
  <2> QED
    BY <1>1, <2>4, <2>5, <2>6
<1> QED
  BY <1>1, <1>2 DEF CountsInv

\* The constants of f are frozen before there is a reference to count.
LEMMA FreezeCounts ==
  ASSUME IInv, CountsInv, Freeze
  PROVE  CountsInv'
<1>1. /\ phase = "call" /\ phase' = "transfer" /\ N \in Nat /\ N' = N /\ P' = P
      /\ Cells' = Cells /\ rc \in [Cells -> Int] /\ rc' = rc
  BY SameChunks, ListFact DEF IInv, CountsInv, Freeze
<1>2. ASSUME NEW c \in Cells PROVE rc'[c] = Total(c)'
  <2>1. InputAt(c) = {} /\ ResultAt(c) = {}
    BY <1>1, NoResults DEF InputAt
  <2>2. InputAt(c)' = {}
    <3>1. \A i \in 1..N : inputs'[i] = Null
      BY <1>1 DEF IInv, CallerInv, Freeze
    <3> QED
      BY <1>1, <3>1, CellFact DEF InputAt
  <2>3. ResultAt(c)' = {}
    BY <1>1, NoResults, CellFact DEF ResultAt, Freeze, workers
  <2>4. /\ Cardinality(InputAt(c)') \in Nat /\ Cardinality(ResultAt(c)') \in Nat
        /\ phase' = "done" => Cardinality(AnswerAt(c)') \in Nat
    BY <1>1, <2>1, <2>2, <2>3, FS_EmptySet, PlacesFinite
  <2>5. Gained(c) = 0
    BY <1>1, <2>1, <2>2, <2>3, FS_EmptySet, PlacesFinite DEF Gained
  <2>6. Total(c)' = rc[c] + Gained(c)
    <3>1. UNCHANGED <<list, hw, workers>> /\ phase # "done" /\ \A j \in 1..P : pc[j] \in {"unborn", "gone"}
      BY <1>1, NoResults DEF Freeze
    <3> QED
      BY <2>4, <3>1, CallerCounts
  <2>7. rc[c] \in Int
    BY <1>1
  <2> QED
    BY <1>1, <2>5, <2>6, <2>7
<1> QED
  BY <1>1, <1>2 DEF CountsInv

\* An input refers to its copy, or to the cell it shares.
LEMMA TransferCounts ==
  ASSUME IInv, CountsInv, TransferInput
  PROVE  CountsInv'
<1> PICK m \in {built + 1} : TRUE
  OBVIOUS
<1> PICK v \in {Sent(list[built + 1], CopyOf(built + 1))} : TRUE
  OBVIOUS
<1>1. /\ Types /\ phase = "transfer" /\ phase' \in {"transfer", "run"} /\ N \in Nat /\ N' = N /\ P' = P
      /\ Cells' = Cells /\ rc \in [Cells -> Int] /\ rc' = Plus(rc, v)
      /\ inputs' = [inputs EXCEPT ![m] = v]
  BY SameChunks, ListFact DEF IInv, CountsInv, TransferInput
<1>2. m \in 1..N /\ inputs[m] = Null
  BY <1>1 DEF IInv, Types, CallerInv, TransferInput
<1>3. rc' \in [Cells -> Int] /\ \A c \in Cells : rc'[c] = rc[c] + (IF v = c THEN 1 ELSE 0)
  BY <1>1, PlusFact
<1>4. ASSUME NEW c \in Cells PROVE rc'[c] = Total(c)'
  <2>1. Cardinality(InputAt(c)') = Cardinality(InputAt(c)) + (IF v = c THEN 1 ELSE 0)
    <3>1. \A i \in 1..N : Owner(i)' = Owner(i) /\ Owner(i) \in 1..P /\ pc[Owner(i)] = "unborn"
      BY <1>1, SameOwner, NoResults DEF TransferInput
    <3>2. m \notin InputAt(c)
      BY <1>1, <1>2, CellFact DEF InputAt
    <3>3. \A i \in 1..N : inputs'[i] = IF i = m THEN v ELSE inputs[i]
      BY <1>1 DEF Types
    <3>4. InputAt(c)' = IF v = c THEN InputAt(c) \cup {m} ELSE InputAt(c)
      BY <1>1, <1>2, <3>1, <3>2, <3>3 DEF InputAt, TransferInput, workers
    <3> QED
      BY <3>2, <3>4, PlacesFinite, OneMore
  <2>2. ResultAt(c) = {}
    BY <1>1, NoResults
  <2>3. ResultAt(c)' = {}
    BY <1>1, NoResults, CellFact DEF ResultAt, TransferInput, workers
  <2>4. PICK x \in Nat : x = Cardinality(InputAt(c)')
    BY <2>1, PlacesFinite
  <2>5. /\ Cardinality(InputAt(c)') \in Nat /\ Cardinality(ResultAt(c)') \in Nat
        /\ phase' = "done" => Cardinality(AnswerAt(c)') \in Nat
    BY <1>1, <2>1, <2>2, <2>3, FS_EmptySet, PlacesFinite
  <2>6. Gained(c) = (IF v = c THEN 1 ELSE 0)
    BY <1>1, <2>1, <2>2, <2>3, FS_EmptySet, PlacesFinite DEF Gained
  <2>7. Total(c)' = rc[c] + Gained(c)
    <3>1. UNCHANGED <<list, hw, workers>> /\ phase # "done" /\ \A j \in 1..P : pc[j] \in {"unborn", "gone"}
      BY <1>1, NoResults DEF TransferInput
    <3> QED
      BY <2>5, <3>1, CallerCounts
  <2>8. rc[c] \in Int
    BY <1>1
  <2> QED
    BY <1>3, <2>6, <2>7, <2>8
<1> QED
  BY <1>1, <1>3, <1>4 DEF CountsInv

\* The inputs that were made are released.
LEMMA RejectInputCounts ==
  ASSUME IInv, CountsInv, RejectInput
  PROVE  CountsInv'
<1>1. /\ Types /\ phase = "transfer" /\ phase' = "done" /\ N \in Nat /\ N' = N /\ P' = P
      /\ Cells' = Cells /\ rc \in [Cells -> Int] /\ rc' = Released(rc, inputs, 1..built)
      /\ built \in 0..N /\ answer'.values = <<>>
  BY SameChunks, ListFact DEF IInv, Types, CountsInv, RejectInput, Error
<1> DEFINE made(c) == {i \in 1..built : inputs[i] = c}
<1>2. /\ rc' \in [Cells -> Int]
      /\ \A c \in Cells : rc'[c] = rc[c] - Cardinality(made(c))
  <2>1. IsFiniteSet(1..built)
    <3>1. 1 \in Int /\ built \in Int
      BY <1>1
    <3> QED
      BY <3>1, FS_Interval
  <2> QED
    BY <1>1, <2>1, ReleasedFact
<1>3. ASSUME NEW c \in Cells PROVE rc'[c] = Total(c)'
  <2>1. InputAt(c) = made(c)
    <3>1. \A i \in 1..N : Owner(i) \in 1..P /\ pc[Owner(i)] = "unborn"
      BY <1>1, OwnerFact, NoResults
    <3>2. \A i \in 1..N : i \in 1..built \/ inputs[i] = Null
      BY <1>1 DEF IInv, CallerInv
    <3> QED
      BY <1>1, <3>1, <3>2, CellFact DEF InputAt
  <2>2. InputAt(c)' = {} /\ ResultAt(c) = {} /\ ResultAt(c)' = {}
    BY <1>1, NoResults DEF InputAt, ResultAt
  <2>3. AnswerAt(c)' = {}
    <3>1. DOMAIN <<>> = {}
      OBVIOUS
    <3> QED
      BY <1>1, <3>1 DEF AnswerAt
  <2>4. /\ Cardinality(InputAt(c)') \in Nat /\ Cardinality(ResultAt(c)') \in Nat
        /\ phase' = "done" => Cardinality(AnswerAt(c)') \in Nat
    BY <1>1, <2>1, <2>2, <2>3, FS_EmptySet, PlacesFinite
  <2>5. Gained(c) = 0 - Cardinality(InputAt(c))
    <3>1. /\ Cardinality({}) = 0 /\ Cardinality(InputAt(c)) \in Nat
          /\ InputAt(c)' = {} /\ ResultAt(c) = {} /\ ResultAt(c)' = {} /\ AnswerAt(c)' = {} /\ phase' = "done"
      BY <1>1, <2>2, <2>3, FS_EmptySet, PlacesFinite
    <3> QED
      BY <3>1 DEF Gained
  <2>6. Total(c)' = rc[c] + Gained(c)
    <3>1. UNCHANGED <<list, hw, workers>> /\ phase # "done" /\ \A j \in 1..P : pc[j] \in {"unborn", "gone"}
      BY <1>1, NoResults DEF RejectInput
    <3> QED
      BY <2>4, <3>1, CallerCounts
  <2>7. rc[c] \in Int /\ Cardinality(InputAt(c)) \in Nat
    BY <1>1, <2>1, PlacesFinite
  <2> QED
    BY <1>2, <2>1, <2>5, <2>6, <2>7
<1> QED
  BY <1>1, <1>2, <1>3 DEF CountsInv

\* When every thread is gone the inputs have been released.
LEMMA JoinCounts ==
  ASSUME IInv, CountsInv, Join
  PROVE  CountsInv'
<1>1. /\ Types /\ phase = "run" /\ phase' = "joined" /\ N' = N /\ P' = P
      /\ \A j \in 1..P : pc[j] = "gone"
      /\ Cells' = Cells /\ rc \in [Cells -> Int] /\ rc' = rc
  BY SameChunks DEF IInv, CountsInv, Join
<1>2. ASSUME NEW c \in Cells PROVE rc'[c] = Total(c)'
  <2>1. InputAt(c) = {} /\ InputAt(c)' = {}
    BY <1>1, OwnerFact DEF InputAt
  <2>2. ResultAt(c)' = ResultAt(c)
    BY <1>1 DEF ResultAt, Join, workers
  <2>3. PICK y \in Nat : y = Cardinality(ResultAt(c))
    BY PlacesFinite
  <2>4. /\ Cardinality(InputAt(c)') \in Nat /\ Cardinality(ResultAt(c)') \in Nat
        /\ phase' = "done" => Cardinality(AnswerAt(c)') \in Nat
    BY <1>1, <2>1, <2>2, <2>3, FS_EmptySet, PlacesFinite
  <2>5. Gained(c) = 0
    BY <1>1, <2>1, <2>2, <2>3, FS_EmptySet, PlacesFinite DEF Gained
  <2>6. Total(c)' = rc[c] + Gained(c)
    <3>1. UNCHANGED <<list, hw, workers>> /\ phase # "done" /\ \A j \in 1..P : pc[j] \in {"unborn", "gone"}
      BY <1>1 DEF Join
    <3> QED
      BY <2>4, <3>1, CallerCounts
  <2>7. rc[c] \in Int
    BY <1>1
  <2> QED
    BY <1>1, <2>5, <2>6, <2>7
<1> QED
  BY <1>1, <1>2 DEF CountsInv

\* A call that raises an error releases the results of every chunk.
LEMMA RaiseCounts ==
  ASSUME IInv, CountsInv, Raise
  PROVE  CountsInv'
<1>1. /\ Types /\ phase = "joined" /\ phase' = "done" /\ N \in Nat /\ N' = N /\ P' = P
      /\ \A j \in 1..P : pc[j] = "gone"
      /\ Cells' = Cells /\ rc \in [Cells -> Int] /\ rc' = Released(rc, results, 1..N)
      /\ answer'.values = <<>>
  BY SameChunks, ListFact DEF IInv, CallerInv, CountsInv, Raise, Error
<1> DEFINE made(c) == {i \in 1..N : results[i] = c}
<1>2. /\ rc' \in [Cells -> Int]
      /\ \A c \in Cells : rc'[c] = rc[c] - Cardinality(made(c))
  <2>1. IsFiniteSet(1..N)
    <3>1. 1 \in Int /\ N \in Int
      BY <1>1
    <3> QED
      BY <3>1, FS_Interval
  <2> QED
    BY <1>1, <2>1, ReleasedFact
<1>3. ASSUME NEW c \in Cells PROVE rc'[c] = Total(c)'
  <2>1. ResultAt(c) = made(c)
    BY <1>1 DEF ResultAt
  <2>2. InputAt(c) = {} /\ InputAt(c)' = {} /\ ResultAt(c)' = {}
    BY <1>1 DEF InputAt, ResultAt
  <2>3. AnswerAt(c)' = {}
    <3>1. DOMAIN <<>> = {}
      OBVIOUS
    <3> QED
      BY <1>1, <3>1 DEF AnswerAt
  <2>4. /\ Cardinality(InputAt(c)') \in Nat /\ Cardinality(ResultAt(c)') \in Nat
        /\ phase' = "done" => Cardinality(AnswerAt(c)') \in Nat
    BY <1>1, <2>1, <2>2, <2>3, FS_EmptySet, PlacesFinite
  <2>5. Gained(c) = 0 - Cardinality(ResultAt(c))
    <3>1. /\ Cardinality({}) = 0 /\ Cardinality(ResultAt(c)) \in Nat
          /\ ResultAt(c)' = {} /\ InputAt(c) = {} /\ InputAt(c)' = {} /\ AnswerAt(c)' = {} /\ phase' = "done"
      BY <1>1, <2>2, <2>3, FS_EmptySet, PlacesFinite
    <3> QED
      BY <3>1 DEF Gained
  <2>6. Total(c)' = rc[c] + Gained(c)
    <3>1. UNCHANGED <<list, hw, workers>> /\ phase # "done" /\ \A j \in 1..P : pc[j] \in {"unborn", "gone"}
      BY <1>1 DEF Raise
    <3> QED
      BY <2>4, <3>1, CallerCounts
  <2>7. rc[c] \in Int /\ Cardinality(ResultAt(c)) \in Nat
    BY <1>1, <2>1, PlacesFinite
  <2> QED
    BY <1>2, <2>1, <2>5, <2>6, <2>7
<1> QED
  BY <1>1, <1>2, <1>3 DEF CountsInv

\* The references of the results become those of the list.
LEMMA StitchCounts ==
  ASSUME IInv, CountsInv, Stitch
  PROVE  CountsInv'
<1>1. /\ Types /\ phase = "joined" /\ phase' = "done" /\ N' = N /\ P' = P
      /\ \A j \in 1..P : pc[j] = "gone"
      /\ Cells' = Cells /\ rc \in [Cells -> Int] /\ rc' = rc
      /\ answer'.values = results
  BY SameChunks DEF IInv, CallerInv, CountsInv, Stitch
<1>2. ASSUME NEW c \in Cells PROVE rc'[c] = Total(c)'
  <2>1. InputAt(c) = {} /\ InputAt(c)' = {} /\ ResultAt(c)' = {}
    BY <1>1 DEF InputAt, ResultAt
  <2>2. AnswerAt(c)' = ResultAt(c)
    <3>1. DOMAIN results = 1..N
      BY <1>1 DEF Types
    <3> QED
      BY <1>1, <3>1 DEF AnswerAt, ResultAt
  <2>3. PICK z \in Nat : z = Cardinality(ResultAt(c))
    BY PlacesFinite
  <2>4. /\ Cardinality(InputAt(c)') \in Nat /\ Cardinality(ResultAt(c)') \in Nat
        /\ phase' = "done" => Cardinality(AnswerAt(c)') \in Nat
    BY <1>1, <2>1, <2>2, <2>3, FS_EmptySet, PlacesFinite
  <2>5. Gained(c) = 0
    BY <1>1, <2>1, <2>2, <2>3, FS_EmptySet, PlacesFinite DEF Gained
  <2>6. Total(c)' = rc[c] + Gained(c)
    <3>1. UNCHANGED <<list, hw, workers>> /\ phase # "done" /\ \A j \in 1..P : pc[j] \in {"unborn", "gone"}
      BY <1>1 DEF Stitch
    <3> QED
      BY <2>4, <3>1, CallerCounts
  <2>7. rc[c] \in Int
    BY <1>1
  <2> QED
    BY <1>1, <2>5, <2>6, <2>7
<1> QED
  BY <1>1, <1>2 DEF CountsInv

\* At the start the list refers to its elements, and the code to its constant.
LEMMA InitCounts == Init => CountsInv
<1> SUFFICES ASSUME Init PROVE CountsInv
  OBVIOUS
<1>1. IInv /\ N \in Nat
  BY InitInv, ListFact DEF IInv
<1>2. rc = [c \in Cells |-> Cardinality(ListAt(c)) + (IF c = Const THEN 1 ELSE 0)]
  BY DEF Init, ListAt
<1>3. rc \in [Cells -> Int]
  BY <1>1, <1>2, PlacesFinite
<1>4. ASSUME NEW c \in Cells PROVE rc[c] = Total(c)
  <2>1. /\ InputAt(c) = {} /\ ResultAt(c) = {} /\ ArgumentOf(c) = {} /\ ConstantOf(c) = {}
        /\ ValueHeld(c) = {} /\ LostAs(c) = {}
    BY <1>1, CellFact DEF Init, InputAt, ResultAt, ArgumentOf, ConstantOf, ValueHeld, LostAs
  <2>2. InCall(c) = 0
    BY <2>1, FS_EmptySet DEF InCall
  <2> QED
    BY <1>1, <1>2, <2>2, PlacesFinite DEF Total, Init
<1> QED
  BY <1>3, <1>4 DEF CountsInv

-----------------------------------------------------------------------------
(* The theorems.                                                            *)

\* No step of the caller or of a worker breaks the invariant.
LEMMA NextInv == IInv /\ [Next]_vars => IInv'
<1> SUFFICES ASSUME IInv, [Next]_vars PROVE IInv'
  OBVIOUS
<1>1. CASE Proceed
  BY <1>1, RefuseKeeps, NothingToDoKeeps, FreezeKeeps, TransferKeeps, RejectInputKeeps,
     LaunchKeeps, JoinKeeps, RaiseKeeps, StitchKeeps DEF Proceed
<1>2. ASSUME NEW j \in 1..P, Work(j) PROVE IInv'
  BY <1>2, CallKeeps, ReturnKeeps, SendKeeps, RejectResultKeeps, LeaveKeeps DEF Work
<1>3. CASE UNCHANGED vars
  <2>1. N' = N /\ P' = P /\ \A j \in 1..P : WorkerOK(j)'
    BY <1>3, CallerLeavesWorkers DEF vars, main
  <2>2. Types'
    BY <1>3, <2>1 DEF IInv, Types, vars, main, workers
  <2>3. CallerInv'
    <3>1. \A i : Copied(i)' <=> Copied(i)
      BY <1>3 DEF Copied, CopyOf, vars, main
    <3> QED
      BY <1>3, <2>1, <3>1 DEF IInv, CallerInv, vars, main, workers
  <2>4. Sequential'
    <3>1. \A i : (Fails(i)' <=> Fails(i)) /\ Mapped(i)' = Mapped(i)
      BY <1>3 DEF Fails, Mapped, vars, workers
    <3> QED
      BY <1>3, <2>1, <3>1 DEF IInv, Sequential, Sendable, Error, vars, main, workers
  <2> QED
    BY <2>1, <2>2, <2>3, <2>4 DEF IInv
<1> QED
  BY <1>1, <1>2, <1>3 DEF Next

\* The invariant holds throughout.
LEMMA InvHolds == Spec => []IInv
BY InitInv, NextInv, PTL DEF Spec

\* No step breaks the agreement of the counts with the references.
LEMMA NextCounts == IInv /\ CountsInv /\ [Next]_vars => CountsInv'
<1> SUFFICES ASSUME IInv, CountsInv, [Next]_vars PROVE CountsInv'
  OBVIOUS
<1>1. CASE Proceed
  <2>1. CASE Refuse \/ NothingToDo
    <3>1. phase = "call" /\ phase' = "done" /\ answer'.values = <<>>
      BY <2>1 DEF Refuse, NothingToDo, Error
    <3>2. UNCHANGED <<list, hw, workers, rc>>
      BY <2>1 DEF Refuse, NothingToDo
    <3> QED
      BY <3>1, <3>2, EarlyCounts
  <2> QED
    BY <1>1, <2>1, FreezeCounts, TransferCounts, RejectInputCounts, LaunchCounts, JoinCounts,
       RaiseCounts, StitchCounts DEF Proceed
<1>2. ASSUME NEW j \in 1..P, Work(j) PROVE CountsInv'
  BY <1>2, CallCounts, ReturnCounts, SendCounts, RejectResultCounts, LeaveCounts DEF Work
<1>3. CASE UNCHANGED vars
  <2>1. N' = N /\ P' = P /\ Cells' = Cells
    BY <1>3, SameChunks DEF vars
  <2>2. ASSUME NEW c \in Cells PROVE Total(c)' = Total(c)
    <3>1. InputAt(c)' = InputAt(c)
      BY <1>3, SameInputs DEF vars, main, workers
    <3>2. /\ ListAt(c)' = ListAt(c) /\ ResultAt(c)' = ResultAt(c) /\ ArgumentOf(c)' = ArgumentOf(c)
          /\ ConstantOf(c)' = ConstantOf(c) /\ ValueHeld(c)' = ValueHeld(c) /\ LostAs(c)' = LostAs(c)
          /\ AnswerAt(c)' = AnswerAt(c)
      BY <1>3, <2>1 DEF ListAt, ResultAt, ArgumentOf, ConstantOf, ValueHeld, LostAs, AnswerAt,
                        vars, main, workers
    <3> QED
      BY <1>3, <3>1, <3>2 DEF Total, InCall, vars, main
  <2> QED
    BY <1>3, <2>1, <2>2 DEF CountsInv, vars
<1> QED
  BY <1>1, <1>2, <1>3 DEF Next

\* The counts agree with the references throughout.
LEMMA CountsHold == Spec => [](IInv /\ CountsInv)
<1>1. Init => IInv /\ CountsInv
  BY InitInv, InitCounts
<1>2. (IInv /\ CountsInv) /\ [Next]_vars => (IInv /\ CountsInv)'
  BY NextInv, NextCounts
<1> QED
  BY <1>1, <1>2, PTL DEF Spec

\* Whatever the list, the number of threads, the schedule and what f does on each
\* element, parallel_map ends as a sequential loop would: with the results in the
\* order of the list, or with the error of the first element that fails
\* (parallel.cpp:156-260).
THEOREM CallIsSequential == Spec => []Sequential
<1>1. IInv => Sequential
  BY DEF IInv
<1> QED
  BY <1>1, InvHolds, PTL

\* A cell that is not counted atomically is in the hands of one thread at a time, on
\* every path of the call, whatever the list holds and f returns
\* (parallel.cpp:29-33, cell.hpp:236-308).
THEOREM PlainCellsConfined == Spec => []Confined
BY InvHolds, InvConfines, PTL

\* The count of every cell is the number of its references, in every state of every
\* call: inputs and results are released exactly once, after an error in any chunk
\* too, and only a result that cannot be sent stays behind
\* (parallel.cpp:115-136, 198-206, 239-251).
THEOREM ReferencesCounted == Spec => []CountsExact
<1>1. IInv /\ CountsInv => CountsExact
  BY Counted DEF CountsInv, CountsExact
<1> QED
  BY <1>1, CountsHold, PTL
=============================================================================
