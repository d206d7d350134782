-------------------------- MODULE QueryPoolProofs --------------------------
(***************************************************************************)
(* Proofs about QueryPool, for every number of workers, every set of job    *)
(* sizes and every bound, when the settings do not change between two jobs  *)
(* (ResizeAfterRun = FALSE: see the run query_resize for the other case):   *)
(* the type invariant and the three promises of the pool, RunComplete,      *)
(* BodyAlive and LowestError.                                               *)
(*                                                                          *)
(* None is inductive alone.  Inv adds that m_running counts the workers     *)
(* that owe a report, that a worker is busy only inside a run and on its    *)
(* round, that two claims never meet, and that hits and m_error_index tell  *)
(* what happened to the indices nobody holds any more.                      *)
(***************************************************************************)
EXTENDS QueryPool, DataLemmas, FiniteSetTheorems, TLAPS

Types ==
    /\ body \in 1..MaxRuns \cup {None} /\ size \in Nat /\ next \in Nat
    /\ finished \in Nat /\ error \in Items \cup {None}
    /\ round \in Nat /\ running \in Int /\ stop \in BOOLEAN
    /\ live \in 0..MaxWorkers
    /\ wpc \in [Workers -> {"absent", "wait", "asleep", "claim", "test", "body",
                            "catch", "count", "report", "exited"}]
    /\ seen \in [Workers -> Nat] /\ idx \in [Workers -> Nat \cup {None}]
    /\ gpc \in {"idle", "joining", "counters", "publish", "waiting", "returned"}
    /\ want \in Nat /\ cancel \in BOOLEAN /\ runs \in 0..MaxRuns
    /\ bad \subseteq Items /\ hits \in [Items -> Nat] /\ outcome \in Items \cup {None}

\* Worker w has not reported on the published round.
Owes(w) == w <= live /\ (seen[w] # round \/ Busy(w))

RunningCounts == running = Cardinality({w \in Workers : Owes(w)})

WorkerInv ==
    \A w \in Workers :
        /\ wpc[w] = "absent" <=> w > live
        /\ wpc[w] = "exited" => stop
        /\ seen[w] <= round
        /\ Busy(w) => gpc = "waiting" /\ seen[w] = round
        /\ gpc # "waiting" /\ w <= live => seen[w] = round

\* Where the submitter is, and what it has written by then.
PhaseInv ==
    /\ stop <=> gpc = "joining"
    /\ gpc = "joining" => round = 0 /\ want \in 0..MaxWorkers
    /\ round <= runs
    /\ gpc \in {"counters", "publish"} => round < runs /\ hits = [i \in Items |-> 0]
    /\ gpc \in {"counters", "publish", "waiting"} =>
          /\ live > 0 /\ want > 0 /\ want \in Sizes
          /\ body = runs /\ size = want
          /\ bad \subseteq 0..(want - 1)
    /\ gpc = "publish" => next = 0 /\ error = None

\* Worker w has claimed index i and not run it, or not dealt with its failure.
Pending(w, i)  == idx[w] = i /\ wpc[w] \in {"test", "body"}
Unsettled(w, i) == idx[w] = i /\ wpc[w] \in {"test", "body", "catch"}

\* The failures the workers have dealt with.
Failed == {i \in bad : i < next /\ \A w \in Workers : ~Unsettled(w, i)}

ClaimInv ==
    gpc = "waiting" =>
        \A w \in Workers :
            /\ wpc[w] \in {"test", "body", "catch"} =>
                  /\ idx[w] \in Nat /\ idx[w] < next
                  /\ \A v \in Workers : Unsettled(v, idx[w]) => v = w
            /\ wpc[w] \in {"body", "catch"} => idx[w] < want
            /\ wpc[w] = "catch" => idx[w] \in bad
            /\ w <= live /\ seen[w] = round /\ (~Busy(w) \/ wpc[w] = "report") => next >= want

HitsInv ==
    gpc = "waiting" =>
        \A i \in 0..(want - 1) :
            hits[i] = IF i < next /\ \A w \in Workers : ~Pending(w, i) THEN 1 ELSE 0

ErrorInv ==
    gpc = "waiting" /\ ~cancel =>
        /\ error = None <=> Failed = {}
        /\ error # None => error \in Failed /\ \A i \in Failed : error <= i

DoneInv == LowestError /\ (gpc = "returned" /\ live > 0 /\ want > 0 => \A i \in 0..(want - 1) : hits[i] = 1)

Inv ==
    /\ Types /\ RunningCounts /\ WorkerInv /\ PhaseInv
    /\ ClaimInv /\ HitsInv /\ ErrorInv /\ DoneInv

-----------------------------------------------------------------------------
(* The data of the actions.                                                 *)

\* The indices of a job are items.
LEMMA ItemsOf ==
  ASSUME NEW k \in Sizes
  PROVE  k \in Nat /\ 0..(k - 1) \subseteq Items
BY QueryPoolAssumption DEF Items

\* Items are naturals, so None is not one of them.
LEMMA ItemNat ==
  ASSUME NEW i \in Items
  PROVE  i \in Nat /\ i # None
BY QueryPoolAssumption DEF Items, None

\* A worker that is not asleep is untouched by a notification.
LEMMA NotifyWakes ==
  ASSUME Types
  PROVE  /\ \A w \in Workers : NotifyGo[w] = IF wpc[w] = "asleep" THEN "wait" ELSE wpc[w]
         /\ NotifyGo \in [Workers -> {"absent", "wait", "asleep", "claim", "test", "body",
                                      "catch", "count", "report", "exited"}]
BY DEF NotifyGo, Types

\* The workers are finitely many, and so are those that owe a report.
LEMMA OwersFinite ==
  /\ IsFiniteSet({w \in Workers : Owes(w)})
  /\ Cardinality({w \in Workers : Owes(w)}) \in 0..MaxWorkers
<1>1. IsFiniteSet(Workers) /\ Cardinality(Workers) = MaxWorkers
  BY FS_Interval, QueryPoolAssumption DEF Workers
<1> QED
  BY <1>1, FS_Subset, FS_CardinalityType, QueryPoolAssumption

\* The count stays right when the set of those who owe does not change.
LEMMA SameOwers ==
  ASSUME RunningCounts, running' = running, \A w \in Workers : Owes(w)' <=> Owes(w)
  PROVE  RunningCounts'
<1>1. {w \in Workers : Owes(w)}' = {w \in Workers : Owes(w)}
  OBVIOUS
<1> QED
  BY <1>1 DEF RunningCounts

-----------------------------------------------------------------------------
(* The invariant holds initially.                                           *)

\* The initial state satisfies the invariant.
LEMMA InitInv == Init => Inv
<1> SUFFICES ASSUME Init PROVE Inv
  OBVIOUS
<1>1. Types
  <2>1. stop \in BOOLEAN /\ cancel \in BOOLEAN
    BY Zenon DEF Init
  <2>2. wpc \in [Workers -> {"absent", "wait", "asleep", "claim", "test", "body",
                            "catch", "count", "report", "exited"}]
    BY DEF Init
  <2>3. seen \in [Workers -> Nat] /\ idx \in [Workers -> Nat \cup {None}]
    BY DEF Init
  <2>4. hits \in [Items -> Nat]
    BY DEF Init
  <2> QED
    BY <2>1, <2>2, <2>3, <2>4, QueryPoolAssumption DEF Init, Types, None
<1>2. WorkerInv
  BY QueryPoolAssumption DEF Init, WorkerInv, Busy, Workers
<1>3. PhaseInv
  BY QueryPoolAssumption DEF Init, PhaseInv
<1>4. RunningCounts
  <2>1. {w \in Workers : Owes(w)} = {}
    BY DEF Init, Owes, Busy
  <2> QED
    BY <2>1, FS_EmptySet DEF Init, RunningCounts
<1>5. ClaimInv /\ HitsInv /\ ErrorInv /\ DoneInv
  BY DEF Init, ClaimInv, HitsInv, ErrorInv, DoneInv, LowestError
<1> QED
  BY <1>1, <1>2, <1>3, <1>4, <1>5 DEF Inv

-----------------------------------------------------------------------------
(* The submitter's steps.                                                   *)

\* Nobody owes a report outside a run.
LEMMA QuietOutside ==
  ASSUME Inv, gpc # "waiting"
  PROVE  /\ \A w \in Workers : ~Busy(w) /\ ~Owes(w)
         /\ running = 0
<1>1. \A w \in Workers : ~Busy(w) /\ ~Owes(w)
  BY DEF Inv, WorkerInv, Owes
<1>2. {w \in Workers : Owes(w)} = {}
  BY <1>1
<1> QED
  BY <1>1, <1>2, FS_EmptySet DEF Inv, RunningCounts

\* Asking for another count wakes the workers and leaves the job alone.
LEMMA ResizeBeginInv ==
  ASSUME Inv, ResizeAfterRun = FALSE, NEW k \in 0..MaxWorkers, ResizeBegin(k)
  PROVE  Inv'
<1> USE DEF Inv, ResizeBegin
<1>1. Types'
  <2>1. stop' \in BOOLEAN
    BY Zenon
  <2> QED
    BY <2>1, NotifyWakes, QueryPoolAssumption DEF Types, job, history
<1>2. WorkerInv'
  BY NotifyWakes DEF Types, WorkerInv, Busy
<1>3. PhaseInv'
  BY QueryPoolAssumption DEF PhaseInv, job, history
<1>4. RunningCounts'
  <2>1. \A w \in Workers : Owes(w)' <=> Owes(w)
    BY NotifyWakes DEF Types, Owes, Busy
  <2> QED
    BY <2>1, SameOwers
<1>5. ClaimInv' /\ HitsInv' /\ ErrorInv' /\ DoneInv'
  BY DEF ClaimInv, HitsInv, ErrorInv, DoneInv, LowestError
<1> QED
  BY <1>1, <1>2, <1>3, <1>4, <1>5

\* The new workers have seen what the old ones had: nothing.
LEMMA ResizeEndInv ==
  ASSUME Inv, ResizeEnd
  PROVE  Inv'
<1> USE DEF Inv, ResizeEnd
<1>1. Types'
  BY QueryPoolAssumption DEF Types, job, history, FirstSeen, PhaseInv
<1>2. WorkerInv'
  BY QueryPoolAssumption DEF Types, WorkerInv, PhaseInv, Busy, FirstSeen, Workers
<1>3. PhaseInv'
  BY DEF PhaseInv, job, history, Types
<1>4. RunningCounts'
  <2>1. running' = 0
    BY QuietOutside
  <2>2. \A w \in Workers : ~Owes(w)'
    BY <1>2 DEF WorkerInv, Owes
  <2>3. {w \in Workers : Owes(w)}' = {}
    BY <2>2
  <2> QED
    BY <2>1, <2>3, FS_EmptySet DEF RunningCounts
<1>5. ClaimInv' /\ HitsInv' /\ ErrorInv' /\ DoneInv'
  BY DEF ClaimInv, HitsInv, ErrorInv, DoneInv, LowestError
<1> QED
  BY <1>1, <1>2, <1>3, <1>4, <1>5

\* A serial run stops at the lowest failing item.
LEMMA RunSeriallyInv ==
  ASSUME Inv, NEW n \in Sizes, RunSerially(n)
  PROVE  Inv'
<1> USE DEF Inv
<1>1. PICK b \in SUBSET (0..(n - 1)) :
          /\ bad' = b
          /\ outcome' = IF b = {} THEN None ELSE Min(b)
          /\ hits' = [i \in Items |-> IF i < n /\ (b = {} \/ i <= Min(b)) THEN 1 ELSE 0]
  BY DEF RunSerially
<1>2. /\ gpc = "idle" /\ gpc' = "returned" /\ want' = n
      /\ runs < MaxRuns /\ runs' = runs + 1
      /\ live = 0 \/ n = 0
      /\ UNCHANGED <<job, ctl, live, workers, cancel, resizes>>
  BY DEF RunSerially
<1>3. n \in Nat /\ 0..(n - 1) \subseteq Items
  BY ItemsOf
<1>4. Types'
  <2>1. outcome' \in Items \cup {None}
    <3>1. b # {} => Min(b) \in b
      BY <1>3, MinLeast
    <3> QED
      BY <3>1, <1>1, <1>3
  <2>2. hits' \in [Items -> Nat]
    BY <1>1
  <2>3. bad' \subseteq Items
    BY <1>1, <1>3
  <2>4. runs' \in 0..MaxRuns
    BY <1>2, QueryPoolAssumption DEF Types
  <2> QED
    BY <2>1, <2>2, <2>3, <2>4, <1>2, <1>3 DEF Types, job, ctl, workers
<1>5. WorkerInv'
  BY <1>2 DEF WorkerInv, ctl, workers, Busy
<1>6. PhaseInv'
  BY <1>2 DEF PhaseInv, ctl, Types
<1>7. RunningCounts'
  <2>1. \A w \in Workers : Owes(w)' <=> Owes(w)
    BY <1>2 DEF Owes, Busy, ctl, workers
  <2> QED
    BY <1>2, <2>1, SameOwers DEF ctl
<1>8. ClaimInv' /\ HitsInv' /\ ErrorInv'
  BY <1>2 DEF ClaimInv, HitsInv, ErrorInv
<1>9. DoneInv'
  BY <1>1, <1>2, <1>3 DEF DoneInv, LowestError
<1> QED
  BY <1>4, <1>5, <1>6, <1>7, <1>8, <1>9

\* A pooled run announces its items.
LEMMA RunBeginInv ==
  ASSUME Inv, NEW n \in Sizes, RunBegin(n)
  PROVE  Inv'
<1> USE DEF Inv, RunBegin
<1>1. n \in Nat /\ 0..(n - 1) \subseteq Items
  BY ItemsOf
<1>2. Types'
  <2>1. cancel' \in BOOLEAN
    BY Zenon
  <2>2. hits' \in [Items -> Nat] /\ bad' \subseteq Items
    BY <1>1
  <2> QED
    BY <2>1, <2>2, <1>1, QueryPoolAssumption DEF Types, ctl, workers
<1>3. WorkerInv'
  BY DEF WorkerInv, ctl, workers, Busy
<1>4. PhaseInv'
  BY DEF PhaseInv, ctl, Types
<1>5. RunningCounts'
  <2>1. \A w \in Workers : Owes(w)' <=> Owes(w)
    BY DEF Owes, Busy, ctl, workers
  <2> QED
    BY <2>1, SameOwers DEF ctl
<1>6. ClaimInv' /\ HitsInv' /\ ErrorInv' /\ DoneInv'
  BY DEF ClaimInv, HitsInv, ErrorInv, DoneInv, LowestError
<1> QED
  BY <1>2, <1>3, <1>4, <1>5, <1>6

\* The counters of the job are reset.
LEMMA RunCountersInv ==
  ASSUME Inv, RunCounters
  PROVE  Inv'
<1> USE DEF Inv, RunCounters
<1>1. Types'
  BY DEF Types, ctl, workers, history
<1>2. WorkerInv'
  BY DEF WorkerInv, ctl, workers, Busy
<1>3. PhaseInv'
  BY DEF PhaseInv, ctl, history
<1>4. RunningCounts'
  <2>1. \A w \in Workers : Owes(w)' <=> Owes(w)
    BY DEF Owes, Busy, ctl, workers
  <2> QED
    BY <2>1, SameOwers DEF ctl
<1>5. ClaimInv' /\ HitsInv' /\ ErrorInv' /\ DoneInv'
  BY DEF ClaimInv, HitsInv, ErrorInv, DoneInv, LowestError
<1> QED
  BY <1>1, <1>2, <1>3, <1>4, <1>5

\* Every live worker owes a report on the published round.
LEMMA RunPublishInv ==
  ASSUME Inv, RunPublish
  PROVE  Inv'
<1> USE DEF Inv, RunPublish
<1>1. /\ live > 0 /\ round < runs /\ next = 0 /\ error = None
      /\ hits = [i \in Items |-> 0] /\ want \in Sizes
      /\ \A w \in Workers : ~Busy(w)
      /\ \A w \in Workers : w <= live => seen[w] = round
  BY DEF PhaseInv, WorkerInv
<1>2. Types'
  <2>1. running' \in Int /\ round' \in Nat
    BY QueryPoolAssumption DEF Types, RunningAtStart
  <2> QED
    BY <2>1, NotifyWakes DEF Types, job, history
<1>3. \A w \in Workers : ~Busy(w)' /\ seen'[w] # round' /\ seen'[w] <= round'
  BY <1>1, NotifyWakes DEF Types, Busy, WorkerInv
<1>4. WorkerInv'
  BY <1>3, NotifyWakes DEF WorkerInv, Busy, Types
<1>5. PhaseInv'
  BY <1>1 DEF PhaseInv, job, history, Types
<1>6. RunningCounts'
  <2>1. {w \in Workers : Owes(w)}' = 1..live
    BY <1>3, QueryPoolAssumption DEF Owes, Workers, Types
  <2>2. Cardinality(1..live) = live
    BY FS_Interval, QueryPoolAssumption DEF Types
  <2> QED
    BY <2>1, <2>2 DEF RunningCounts, RunningAtStart
<1>7. \A w \in Workers : wpc'[w] \notin {"claim", "test", "body", "catch", "count", "report"}
  BY <1>3 DEF Busy
<1>8. ClaimInv'
  BY <1>3, <1>7 DEF ClaimInv
<1>9. HitsInv'
  <2>1. 0..(want - 1) \subseteq Items
    BY <1>1, ItemsOf
  <2> QED
    BY <1>1, <2>1 DEF HitsInv, job, history
<1>10. ErrorInv'
  <2>1. Failed' = {}
    BY <1>1, QueryPoolAssumption, ItemNat DEF Failed, job, history, Types
  <2> QED
    BY <1>1, <2>1 DEF ErrorInv, job
<1>11. DoneInv'
  BY DEF DoneInv, LowestError
<1> QED
  BY <1>2, <1>4, <1>5, <1>6, <1>8, <1>9, <1>10, <1>11

\* A tick may only turn the cancellation on.
LEMMA TickInv ==
  ASSUME Inv, Tick
  PROVE  Inv'
<1> USE DEF Inv, Tick
<1>1. Types'
  BY DEF Types, job, ctl, workers, history
<1>2. WorkerInv' /\ PhaseInv'
  BY DEF WorkerInv, PhaseInv, job, ctl, workers, history, Busy
<1>3. RunningCounts'
  <2>1. \A w \in Workers : Owes(w)' <=> Owes(w)
    BY DEF Owes, Busy, ctl, workers
  <2> QED
    BY <2>1, SameOwers DEF ctl
<1>4. ClaimInv' /\ HitsInv'
  BY DEF ClaimInv, HitsInv, Pending, Unsettled, Busy, job, ctl, workers, history
<1>5. ErrorInv'
  <2>1. Failed' = Failed
    BY DEF Failed, Unsettled, job, workers, history
  <2>2. ~cancel' => ~cancel
    BY Zenon
  <2> QED
    BY <2>1, <2>2 DEF ErrorInv, job
<1>6. DoneInv'
  BY DEF DoneInv, LowestError
<1> QED
  BY <1>1, <1>2, <1>3, <1>4, <1>5, <1>6

\* When nobody owes a report every index was claimed, run and settled.
LEMMA RunReturnInv ==
  ASSUME Inv, RunReturn
  PROVE  Inv'
<1> USE DEF Inv, RunReturn
<1>1. \A w \in Workers : ~Owes(w)
  <2>1. Cardinality({w \in Workers : Owes(w)}) = 0
    BY OwersFinite, QueryPoolAssumption DEF RunningCounts
  <2>2. {w \in Workers : Owes(w)} = {}
    BY <2>1, OwersFinite, FS_EmptySet
  <2> QED
    BY <2>2
<1>2. \A w \in Workers : ~Busy(w) /\ (w <= live => seen[w] = round)
  BY <1>1, QueryPoolAssumption DEF Owes, WorkerInv, Busy, Workers, Types
<1>3. next >= want
  <2>1. 1 \in Workers /\ 1 <= live
    BY QueryPoolAssumption DEF Workers, PhaseInv, Types
  <2> QED
    BY <1>2, <2>1 DEF ClaimInv
<1>4. \A w \in Workers : wpc[w] \notin {"test", "body", "catch"}
  BY <1>2 DEF Busy
<1>5. \A i \in 0..(want - 1) : hits[i] = 1
  BY <1>3, <1>4 DEF HitsInv, Pending, Types
<1>6. Failed = bad
  BY <1>3, <1>4 DEF Failed, Unsettled, PhaseInv, Types
<1>7. Types'
  BY DEF Types, ctl, workers, history, None
<1>8. WorkerInv'
  BY <1>2 DEF WorkerInv, ctl, workers, Busy
<1>9. PhaseInv'
  BY DEF PhaseInv, ctl, history
<1>10. RunningCounts'
  <2>1. \A w \in Workers : Owes(w)' <=> Owes(w)
    BY DEF Owes, Busy, ctl, workers
  <2> QED
    BY <2>1, SameOwers DEF ctl
<1>11. ClaimInv' /\ HitsInv' /\ ErrorInv'
  BY DEF ClaimInv, HitsInv, ErrorInv
<1>12. LowestError'
  <2> SUFFICES ASSUME ~cancel PROVE error = IF bad = {} THEN None ELSE Min(bad)
    BY DEF LowestError, history
  <2>1. CASE bad = {}
    BY <2>1, <1>6 DEF ErrorInv
  <2>2. CASE bad # {}
    <3>1. error \in bad /\ \A i \in bad : error <= i
      BY <2>2, <1>6 DEF ErrorInv
    <3>2. bad \in SUBSET Nat
      BY ItemNat DEF Types
    <3> QED
      BY <3>1, <3>2, <2>2, MinUnique
  <2> QED
    BY <2>1, <2>2
<1>13. DoneInv'
  BY <1>5, <1>12 DEF DoneInv, history
<1> QED
  BY <1>7, <1>8, <1>9, <1>10, <1>11, <1>13

\* The caller takes the outcome away.
LEMMA LeaveInv ==
  ASSUME Inv, Leave
  PROVE  Inv'
<1> USE DEF Inv, Leave
<1>1. Types'
  BY DEF Types, job, ctl, workers, history
<1>2. WorkerInv' /\ PhaseInv'
  BY DEF WorkerInv, PhaseInv, job, ctl, workers, history, Busy
<1>3. RunningCounts'
  <2>1. \A w \in Workers : Owes(w)' <=> Owes(w)
    BY DEF Owes, Busy, ctl, workers
  <2> QED
    BY <2>1, SameOwers DEF ctl
<1>4. ClaimInv' /\ HitsInv' /\ ErrorInv' /\ DoneInv'
  BY DEF ClaimInv, HitsInv, ErrorInv, DoneInv, LowestError
<1> QED
  BY <1>1, <1>2, <1>3, <1>4

-----------------------------------------------------------------------------
(* The workers' steps.                                                      *)

\* Going to sleep and exiting change no job.
LEMMA IdleStepInv ==
  ASSUME Inv, NEW w \in Workers, WorkerSleep(w) \/ WorkerExit(w)
  PROVE  Inv'
<1> USE DEF Inv, WorkerSleep, WorkerExit
<1>1. /\ wpc[w] = "wait" /\ wpc'[w] \in {"asleep", "exited"}
      /\ wpc'[w] = "exited" => stop
      /\ \A v \in Workers : v # w => wpc'[v] = wpc[v]
      /\ UNCHANGED <<job, ctl, seen, idx, hits, rest>>
  BY DEF Types
<1>2. Types'
  BY DEF Types, job, ctl, rest
<1>3. WorkerInv'
  BY <1>1 DEF WorkerInv, Busy, ctl, rest
<1>4. PhaseInv'
  BY DEF PhaseInv, job, ctl, rest
<1>5. RunningCounts'
  <2>1. \A v \in Workers : Owes(v)' <=> Owes(v)
    BY <1>1 DEF Owes, Busy, ctl, rest
  <2> QED
    BY <2>1, SameOwers DEF ctl
<1>6. \A v \in Workers : \A i \in Nat :
          (Pending(v, i)' <=> Pending(v, i)) /\ (Unsettled(v, i)' <=> Unsettled(v, i))
  BY <1>1 DEF Pending, Unsettled
<1>7. ClaimInv'
  BY <1>1, <1>6 DEF ClaimInv, Busy, job, ctl, rest
<1>8. HitsInv'
  BY <1>6 DEF HitsInv, job, ctl, rest, Types
<1>9. ErrorInv'
  <2>1. Failed' = Failed
    BY <1>6, ItemNat DEF Failed, job, rest, Types
  <2> QED
    BY <2>1 DEF ErrorInv, job, rest
<1>10. DoneInv'
  BY DEF DoneInv, LowestError, rest
<1> QED
  BY <1>2, <1>3, <1>4, <1>5, <1>7, <1>8, <1>9, <1>10

\* A worker enters the round it has not seen: it owed a report already.
LEMMA StartInv ==
  ASSUME Inv, NEW w \in Workers, WorkerStart(w)
  PROVE  Inv'
<1> USE DEF Inv, WorkerStart
<1>1. /\ wpc[w] = "wait" /\ wpc'[w] = "claim" /\ seen'[w] = round /\ seen[w] # round
      /\ \A v \in Workers : v # w => wpc'[v] = wpc[v] /\ seen'[v] = seen[v]
      /\ UNCHANGED <<job, ctl, idx, hits, rest>>
  BY DEF Types
<1>2. w <= live /\ gpc = "waiting"
  BY <1>1, QueryPoolAssumption DEF WorkerInv, Workers, Types
<1>3. Types'
  BY DEF Types, job, ctl, rest
<1>4. WorkerInv'
  BY <1>1, <1>2 DEF WorkerInv, Busy, ctl, rest, Types
<1>5. PhaseInv'
  BY DEF PhaseInv, job, ctl, rest
<1>6. RunningCounts'
  <2>1. \A v \in Workers : Owes(v)' <=> Owes(v)
    BY <1>1, <1>2 DEF Owes, Busy, ctl, rest
  <2> QED
    BY <2>1, SameOwers DEF ctl
<1>7. \A v \in Workers : \A i \in Nat :
          (Pending(v, i)' <=> Pending(v, i)) /\ (Unsettled(v, i)' <=> Unsettled(v, i))
  BY <1>1 DEF Pending, Unsettled
<1>8. ClaimInv'
  BY <1>1, <1>7 DEF ClaimInv, Busy, job, ctl, rest
<1>9. HitsInv'
  BY <1>7 DEF HitsInv, job, ctl, rest, Types
<1>10. ErrorInv'
  <2>1. Failed' = Failed
    BY <1>7, ItemNat DEF Failed, job, rest, Types
  <2> QED
    BY <2>1 DEF ErrorInv, job, rest
<1>11. DoneInv'
  BY DEF DoneInv, LowestError, rest
<1> QED
  BY <1>3, <1>4, <1>5, <1>6, <1>8, <1>9, <1>10, <1>11

\* What holds of every step inside the drain loop.
LEMMA BusyStep ==
  ASSUME Inv, NEW w \in Workers, Busy(w), Busy(w)',
         \A v \in Workers : v # w => wpc'[v] = wpc[v],
         UNCHANGED <<ctl, seen, rest>>
  PROVE  gpc = "waiting" /\ seen[w] = round /\ w <= live /\ WorkerInv' /\ RunningCounts' /\ DoneInv'
<1> USE DEF Inv
<1>1. gpc = "waiting" /\ seen[w] = round
  BY DEF WorkerInv
<1>2. w <= live
  BY QueryPoolAssumption DEF WorkerInv, Busy, Workers, Types
<1>3. WorkerInv'
  BY <1>1, <1>2 DEF WorkerInv, Busy, ctl, rest
<1>4. RunningCounts'
  <2>1. \A v \in Workers : Owes(v)' <=> Owes(v)
    BY DEF Owes, Busy, ctl, rest
  <2> QED
    BY <2>1, SameOwers DEF ctl
<1>5. DoneInv'
  BY <1>1 DEF DoneInv, LowestError, rest
<1> QED
  BY <1>1, <1>2, <1>3, <1>4, <1>5

\* A claim takes the next index, which nobody else holds.
LEMMA ClaimStepInv ==
  ASSUME Inv, NEW w \in Workers, WorkerClaim(w)
  PROVE  Inv'
<1> USE DEF Inv, WorkerClaim
<1>1. /\ wpc[w] = "claim" /\ wpc'[w] = "test" /\ idx'[w] = next /\ next' = next + 1
      /\ \A v \in Workers : v # w => wpc'[v] = wpc[v] /\ idx'[v] = idx[v]
      /\ UNCHANGED <<body, size, finished, error, ctl, seen, hits, rest>>
  BY DEF Types, NextAfter
<1>2. gpc = "waiting" /\ seen[w] = round /\ w <= live /\ WorkerInv' /\ RunningCounts' /\ DoneInv'
  BY <1>1, BusyStep DEF Busy
<1>3. Types'
  BY <1>1 DEF Types, ctl, rest
<1>4. PhaseInv'
  BY <1>1, <1>2 DEF PhaseInv, ctl, rest
<1>5. \A v \in Workers : \A i \in Nat : Unsettled(v, i) => i < next
  BY <1>2 DEF ClaimInv, Unsettled
<1>6. \A v \in Workers : \A i \in Nat :
          /\ Unsettled(v, i)' <=> Unsettled(v, i) \/ (v = w /\ i = next)
          /\ Pending(v, i)' <=> Pending(v, i) \/ (v = w /\ i = next)
  BY <1>1 DEF Unsettled, Pending
<1>7. ClaimInv'
  <2> SUFFICES ASSUME NEW v \in Workers
               PROVE  /\ wpc'[v] \in {"test", "body", "catch"} =>
                            /\ idx'[v] \in Nat /\ idx'[v] < next'
                            /\ \A u \in Workers : Unsettled(u, idx[v])' => u = v
                      /\ wpc'[v] \in {"body", "catch"} => idx'[v] < want'
                      /\ wpc'[v] = "catch" => idx'[v] \in bad'
                      /\ v <= live' /\ seen'[v] = round' /\ (~Busy(v)' \/ wpc'[v] = "report")
                            => next' >= want'
    BY DEF ClaimInv
  <2>1. CASE v = w
    <3>1. \A u \in Workers : idx'[u] = next /\ wpc'[u] \in {"test", "body", "catch"} => u = w
      BY <1>1, <1>5 DEF Unsettled, Types
    <3> QED
      BY <2>1, <3>1, <1>1 DEF Unsettled, Busy, Types
  <2>2. CASE v # w
    <3>1. wpc'[v] = wpc[v] /\ idx'[v] = idx[v]
      BY <2>2, <1>1
    <3>2. wpc[v] \in {"test", "body", "catch"} =>
              /\ idx[v] \in Nat /\ idx[v] < next
              /\ \A u \in Workers : Unsettled(u, idx[v]) => u = v
      BY <1>2 DEF ClaimInv
    <3>3. wpc[v] \in {"test", "body", "catch"} =>
              \A u \in Workers : Unsettled(u, idx[v])' => u = v
      BY <3>1, <3>2, <1>6 DEF Types
    <3>4. /\ wpc[v] \in {"body", "catch"} => idx[v] < want
          /\ wpc[v] = "catch" => idx[v] \in bad
          /\ v <= live /\ seen[v] = round /\ (~Busy(v) \/ wpc[v] = "report") => next >= want
      BY <1>2 DEF ClaimInv
    <3> QED
      BY <3>1, <3>2, <3>3, <3>4, <1>1 DEF Busy, ctl, rest, Types
  <2> QED
    BY <2>1, <2>2
<1>8. HitsInv'
  <2> SUFFICES ASSUME NEW i \in 0..(want - 1)
               PROVE  hits[i] = IF i < next' /\ \A v \in Workers : ~Pending(v, i)' THEN 1 ELSE 0
    BY <1>1, <1>2 DEF HitsInv, rest
  <2>1. i < next' /\ (\A v \in Workers : ~Pending(v, i)') <=> i < next /\ \A v \in Workers : ~Pending(v, i)
    BY <1>1, <1>6 DEF Types
  <2> QED
    BY <2>1, <1>2 DEF HitsInv
<1>9. ErrorInv'
  <2>1. Failed' = Failed
    <3>1. \A i \in bad : i \in Nat
      BY ItemNat DEF Types
    <3>2. ASSUME NEW i \in bad
          PROVE  i < next' /\ (\A v \in Workers : ~Unsettled(v, i)')
                 <=> i < next /\ \A v \in Workers : ~Unsettled(v, i)
      BY <3>1, <1>1, <1>6 DEF Types
    <3> QED
      BY <3>2 DEF Failed, rest
  <2> QED
    BY <2>1, <1>1 DEF ErrorInv, rest
<1> QED
  BY <1>2, <1>3, <1>4, <1>7, <1>8, <1>9

\* The claimed index is entered, or ends the worker's share.
LEMMA TestStepInv ==
  ASSUME Inv, NEW w \in Workers, WorkerTest(w)
  PROVE  Inv'
<1> USE DEF Inv, WorkerTest
<1>1. /\ wpc[w] = "test" /\ wpc'[w] = IF idx[w] >= size THEN "report" ELSE "body"
      /\ \A v \in Workers : v # w => wpc'[v] = wpc[v]
      /\ UNCHANGED <<job, ctl, seen, idx, hits, rest>>
  BY DEF Types
<1>2. gpc = "waiting" /\ seen[w] = round /\ w <= live /\ WorkerInv' /\ RunningCounts' /\ DoneInv'
  BY <1>1, BusyStep DEF Busy
<1>3. /\ want = size /\ want \in Nat /\ next \in Nat /\ idx[w] \in Nat /\ idx[w] < next
      /\ \A i \in bad : i \in Nat /\ i < want
  BY <1>1, <1>2, ItemNat DEF PhaseInv, ClaimInv, Types
<1>4. Types'
  BY <1>1 DEF Types, job, ctl, rest
<1>5. PhaseInv'
  BY <1>1, <1>2 DEF PhaseInv, job, ctl, rest
<1>6. \A v \in Workers : \A i \in Nat :
          /\ Unsettled(v, i)' => Unsettled(v, i)
          /\ i < want => (Unsettled(v, i)' <=> Unsettled(v, i)) /\ (Pending(v, i)' <=> Pending(v, i))
  BY <1>1, <1>3 DEF Unsettled, Pending
<1>7. ClaimInv'
  <2>1. \A v \in Workers :
            /\ wpc[v] \in {"test", "body", "catch"} =>
                  /\ idx[v] \in Nat /\ idx[v] < next
                  /\ \A u \in Workers : Unsettled(u, idx[v]) => u = v
            /\ wpc[v] \in {"body", "catch"} => idx[v] < want
            /\ wpc[v] = "catch" => idx[v] \in bad
            /\ v <= live /\ seen[v] = round /\ (~Busy(v) \/ wpc[v] = "report") => next >= want
    BY <1>2 DEF ClaimInv
  <2>2. \A v \in Workers : wpc'[v] \in {"test", "body", "catch"} => wpc[v] \in {"test", "body", "catch"}
    BY <1>1
  <2>3. \A v \in Workers : wpc'[v] \in {"test", "body", "catch"} =>
            \A u \in Workers : Unsettled(u, idx[v])' => u = v
    BY <2>1, <2>2, <1>1, <1>6 DEF job, Unsettled
  <2>4. \A v \in Workers : v <= live /\ seen[v] = round /\ (~Busy(v)' \/ wpc'[v] = "report") => next >= want
    BY <2>1, <1>1, <1>3 DEF Busy
  <2>5. \A v \in Workers : wpc'[v] \in {"body", "catch"} => idx[v] < want
    BY <2>1, <1>1, <1>3
  <2>6. \A v \in Workers : wpc'[v] = "catch" => idx[v] \in bad
    BY <2>1, <1>1
  <2> QED
    BY <2>1, <2>2, <2>3, <2>4, <2>5, <2>6, <1>1 DEF ClaimInv, job, ctl, rest
<1>8. HitsInv'
  BY <1>1, <1>2, <1>3, <1>6 DEF HitsInv, job, rest
<1>9. ErrorInv'
  <2>1. Failed' = Failed
    BY <1>1, <1>3, <1>6 DEF Failed, job, rest
  <2> QED
    BY <2>1, <1>1 DEF ErrorInv, job, rest
<1> QED
  BY <1>2, <1>4, <1>5, <1>7, <1>8, <1>9

\* Running an item is its one execution.
LEMMA BodyStepInv ==
  ASSUME Inv, NEW w \in Workers, WorkerBody(w)
  PROVE  Inv'
<1> USE DEF Inv, WorkerBody
<1>1. /\ wpc[w] = "body"
      /\ wpc'[w] = IF ~cancel /\ idx[w] \in bad THEN "catch" ELSE "count"
      /\ \A v \in Workers : v # w => wpc'[v] = wpc[v]
      /\ UNCHANGED <<job, ctl, seen, idx, rest>>
  BY DEF Types
<1>2. gpc = "waiting" /\ seen[w] = round /\ w <= live /\ WorkerInv' /\ RunningCounts'
  BY <1>1, BusyStep DEF Busy
<1>3. DoneInv'
  BY <1>1, <1>2 DEF DoneInv, LowestError, rest
<1>4. /\ want \in Nat /\ next \in Nat /\ idx[w] \in Nat /\ idx[w] < next /\ idx[w] < want
      /\ idx[w] \in Items /\ 0..(want - 1) \subseteq Items
      /\ \A i \in bad : i \in Nat
      /\ \A u \in Workers : Unsettled(u, idx[w]) => u = w
  <2>1. want \in Sizes /\ gpc = "waiting"
    BY <1>2 DEF PhaseInv
  <2>2. 0..(want - 1) \subseteq Items
    BY <2>1, ItemsOf
  <2> QED
    BY <2>2, <1>1, <1>2, ItemNat DEF ClaimInv, Types
<1>5. /\ hits'[idx[w]] = hits[idx[w]] + 1
      /\ \A i \in Items : i # idx[w] => hits'[i] = hits[i]
      /\ hits' \in [Items -> Nat]
  BY <1>4 DEF Types
<1>6. Types'
  BY <1>1, <1>5 DEF Types, job, ctl, rest
<1>7. PhaseInv'
  BY <1>1, <1>2 DEF PhaseInv, job, ctl, rest
<1>8. \A v \in Workers : \A i \in Nat :
          /\ Unsettled(v, i)' => Unsettled(v, i)
          /\ v # w \/ i # idx[w] => (Unsettled(v, i)' <=> Unsettled(v, i)) /\ (Pending(v, i)' <=> Pending(v, i))
          /\ ~Pending(w, idx[w])'
          /\ Pending(v, i) => Unsettled(v, i)
  BY <1>1 DEF Unsettled, Pending, job
<1>9. ClaimInv'
  <2>1. \A v \in Workers :
            /\ wpc[v] \in {"test", "body", "catch"} =>
                  /\ idx[v] \in Nat /\ idx[v] < next
                  /\ \A u \in Workers : Unsettled(u, idx[v]) => u = v
            /\ wpc[v] \in {"body", "catch"} => idx[v] < want
            /\ wpc[v] = "catch" => idx[v] \in bad
            /\ v <= live /\ seen[v] = round /\ (~Busy(v) \/ wpc[v] = "report") => next >= want
    BY <1>2 DEF ClaimInv
  <2>2. \A v \in Workers : wpc'[v] \in {"test", "body", "catch"} => wpc[v] \in {"test", "body", "catch"}
    BY <1>1
  <2>3. \A v \in Workers : wpc'[v] \in {"test", "body", "catch"} =>
            \A u \in Workers : Unsettled(u, idx[v])' => u = v
    BY <2>1, <2>2, <1>1, <1>8 DEF job, Unsettled
  <2>4. \A v \in Workers : v <= live /\ seen[v] = round /\ (~Busy(v)' \/ wpc'[v] = "report") => next >= want
    BY <2>1, <1>1 DEF Busy
  <2>5. \A v \in Workers : wpc'[v] \in {"body", "catch"} => idx[v] < want
    BY <2>1, <1>1
  <2>6. \A v \in Workers : wpc'[v] = "catch" => idx[v] \in bad
    BY <2>1, <1>1
  <2> QED
    BY <2>1, <2>2, <2>3, <2>4, <2>5, <2>6, <1>1 DEF ClaimInv, job, ctl, rest
<1>10. HitsInv'
  <2> SUFFICES ASSUME NEW i \in 0..(want - 1)
               PROVE  hits'[i] = IF i < next /\ \A v \in Workers : ~Pending(v, i)' THEN 1 ELSE 0
    BY <1>1, <1>2 DEF HitsInv, rest, job
  <2>1. hits[i] = IF i < next /\ \A v \in Workers : ~Pending(v, i) THEN 1 ELSE 0
    BY <1>2 DEF HitsInv
  <2>2. i \in Nat /\ i \in Items
    BY <1>4
  <2>3. CASE i = idx[w]
    <3>1. Pending(w, i)
      BY <2>3, <1>1 DEF Pending
    <3>2. hits'[i] = 1
      BY <2>1, <3>1, <2>3, <1>5
    <3>3. \A v \in Workers : ~Pending(v, i)'
      <4> TAKE v \in Workers
      <4>1. CASE v = w
        BY <4>1, <1>1 DEF Pending
      <4>2. CASE v # w
        BY <4>2, <2>2, <2>3, <1>4, <1>8
      <4> QED
        BY <4>1, <4>2
    <3> QED
      BY <3>2, <3>3, <2>3, <1>4
  <2>4. CASE i # idx[w]
    BY <2>1, <2>2, <2>4, <1>5, <1>8
  <2> QED
    BY <2>3, <2>4
<1>11. ErrorInv'
  <2> SUFFICES ASSUME ~cancel
               PROVE  Failed' = Failed
    BY <1>1 DEF ErrorInv, job, rest
  <2>1. \A i \in bad : \A v \in Workers : Unsettled(v, i)' <=> Unsettled(v, i)
    BY <1>1, <1>4, <1>8 DEF Unsettled, job
  <2> QED
    BY <2>1, <1>1 DEF Failed, job, rest
<1> QED
  BY <1>2, <1>3, <1>6, <1>7, <1>9, <1>10, <1>11

\* A failure is settled, and the lowest one stays.
LEMMA CatchStepInv ==
  ASSUME Inv, NEW w \in Workers, WorkerCatch(w)
  PROVE  Inv'
<1> USE DEF Inv, WorkerCatch
<1>1. /\ wpc[w] = "catch" /\ wpc'[w] = "count" /\ error' = KeptError(error, idx[w])
      /\ \A v \in Workers : v # w => wpc'[v] = wpc[v]
      /\ UNCHANGED <<body, size, next, finished, ctl, seen, idx, hits, rest>>
  BY DEF Types
<1>2. gpc = "waiting" /\ seen[w] = round /\ w <= live /\ WorkerInv' /\ RunningCounts' /\ DoneInv'
  BY <1>1, BusyStep DEF Busy
<1>3. /\ want \in Nat /\ next \in Nat /\ idx[w] \in Nat /\ idx[w] < next /\ idx[w] \in bad
      /\ idx[w] \in Items
      /\ \A i \in bad : i \in Nat /\ i # None
      /\ \A u \in Workers : Unsettled(u, idx[w]) => u = w
  BY <1>1, <1>2, ItemNat DEF ClaimInv, Types
<1>4. Types'
  BY <1>1, <1>3 DEF Types, ctl, rest, KeptError
<1>5. PhaseInv'
  BY <1>1, <1>2 DEF PhaseInv, ctl, rest
<1>6. \A v \in Workers : \A i \in Nat :
          /\ Unsettled(v, i)' => Unsettled(v, i)
          /\ v # w \/ i # idx[w] => (Unsettled(v, i)' <=> Unsettled(v, i))
          /\ Pending(v, i)' <=> Pending(v, i)
  BY <1>1 DEF Unsettled, Pending
<1>7. ClaimInv'
  <2>1. \A v \in Workers :
            /\ wpc[v] \in {"test", "body", "catch"} =>
                  /\ idx[v] \in Nat /\ idx[v] < next
                  /\ \A u \in Workers : Unsettled(u, idx[v]) => u = v
            /\ wpc[v] \in {"body", "catch"} => idx[v] < want
            /\ wpc[v] = "catch" => idx[v] \in bad
            /\ v <= live /\ seen[v] = round /\ (~Busy(v) \/ wpc[v] = "report") => next >= want
    BY <1>2 DEF ClaimInv
  <2>2. \A v \in Workers : wpc'[v] \in {"test", "body", "catch"} => wpc'[v] = wpc[v]
    BY <1>1
  <2>3. \A v \in Workers : wpc'[v] \in {"test", "body", "catch"} =>
            \A u \in Workers : Unsettled(u, idx[v])' => u = v
    BY <2>1, <2>2, <1>1, <1>6 DEF Unsettled
  <2>4. \A v \in Workers : v <= live /\ seen[v] = round /\ (~Busy(v)' \/ wpc'[v] = "report") => next >= want
    BY <2>1, <1>1 DEF Busy
  <2> QED
    BY <2>1, <2>2, <2>3, <2>4, <1>1 DEF ClaimInv, ctl, rest
<1>8. HitsInv'
  BY <1>1, <1>2, <1>6 DEF HitsInv, rest
<1>9. ErrorInv'
  <2> SUFFICES ASSUME ~cancel
               PROVE  /\ error' # None /\ error' \in Failed' /\ \A i \in Failed' : error' <= i
    BY <1>1 DEF ErrorInv, rest
  <2>1. /\ error = None <=> Failed = {}
        /\ error # None => error \in Failed /\ \A i \in Failed : error <= i
    BY <1>2 DEF ErrorInv
  <2>2. Failed' = Failed \cup {idx[w]}
    <3>1. \A v \in Workers : idx'[v] = idx[w] => wpc'[v] \notin {"test", "body", "catch"}
      BY <1>1, <1>3 DEF Unsettled
    <3>2. \A i \in bad : i # idx[w] =>
              ((\A v \in Workers : ~Unsettled(v, i)') <=> (\A v \in Workers : ~Unsettled(v, i)))
      BY <1>3, <1>6
    <3>3. \A i \in bad : i = idx[w] => \A v \in Workers : ~Unsettled(v, i)'
      BY <3>1 DEF Unsettled
    <3> QED
      BY <3>2, <3>3, <1>1, <1>3 DEF Failed, rest
  <2>3. \A i \in Failed : i \in Nat /\ i # None
    BY <1>3 DEF Failed
  <2>4. CASE error = None
    BY <2>1, <2>2, <2>4, <1>1, <1>3 DEF KeptError
  <2>5. CASE error # None
    BY <2>1, <2>2, <2>3, <2>5, <1>1, <1>3 DEF KeptError
  <2> QED
    BY <2>4, <2>5
<1> QED
  BY <1>2, <1>4, <1>5, <1>7, <1>8, <1>9

\* Counting an item finished concerns nobody.
LEMMA CountStepInv ==
  ASSUME Inv, NEW w \in Workers, WorkerCount(w)
  PROVE  Inv'
<1> USE DEF Inv, WorkerCount
<1>1. /\ wpc[w] = "count" /\ wpc'[w] = "claim"
      /\ \A v \in Workers : v # w => wpc'[v] = wpc[v]
      /\ UNCHANGED <<body, size, next, error, ctl, seen, idx, hits, rest>>
  BY DEF Types
<1>2. gpc = "waiting" /\ seen[w] = round /\ w <= live /\ WorkerInv' /\ RunningCounts' /\ DoneInv'
  BY <1>1, BusyStep DEF Busy
<1>3. Types'
  BY <1>1 DEF Types, ctl, rest
<1>4. PhaseInv'
  BY <1>1, <1>2 DEF PhaseInv, ctl, rest
<1>5. \A v \in Workers : \A i \in Nat :
          (Pending(v, i)' <=> Pending(v, i)) /\ (Unsettled(v, i)' <=> Unsettled(v, i))
  BY <1>1 DEF Unsettled, Pending
<1>6. ClaimInv'
  BY <1>1, <1>5 DEF ClaimInv, Busy, ctl, rest
<1>7. HitsInv'
  BY <1>1, <1>5 DEF HitsInv, rest, Types
<1>8. ErrorInv'
  <2>1. Failed' = Failed
    BY <1>1, <1>5, ItemNat DEF Failed, rest, Types
  <2> QED
    BY <2>1, <1>1 DEF ErrorInv, rest
<1> QED
  BY <1>2, <1>3, <1>4, <1>6, <1>7, <1>8

\* One worker fewer owes a report, and the count says so.
LEMMA ReportStepInv ==
  ASSUME Inv, NEW w \in Workers, WorkerReport(w)
  PROVE  Inv'
<1> USE DEF Inv, WorkerReport
<1>1. /\ wpc[w] = "report" /\ wpc'[w] = "wait" /\ running' = running - 1
      /\ \A v \in Workers : v # w => wpc'[v] = wpc[v] /\ idx'[v] = idx[v]
      /\ UNCHANGED <<job, round, stop, seen, hits, rest>>
  BY DEF Types
<1>2. gpc = "waiting" /\ seen[w] = round
  BY <1>1 DEF WorkerInv, Busy
<1>3. w <= live
  BY <1>1, QueryPoolAssumption DEF WorkerInv, Workers, Types
<1>4. Types'
  BY <1>1 DEF Types, job, rest
<1>5. WorkerInv'
  BY <1>1, <1>2, <1>3 DEF WorkerInv, Busy, rest
<1>6. PhaseInv'
  BY <1>1, <1>2 DEF PhaseInv, job, rest
<1>7. RunningCounts'
  <2> DEFINE S == {v \in Workers : Owes(v)}
  <2>1. S' = S \ {w}
    BY <1>1, <1>2 DEF Owes, Busy, rest
  <2>2. w \in S
    BY <1>1, <1>3 DEF Owes, Busy
  <2>3. IsFiniteSet(S) /\ Cardinality(S) \in Nat
    BY OwersFinite, QueryPoolAssumption
  <2>4. Cardinality(S \ {w}) = Cardinality(S) - 1
    BY <2>2, <2>3, FS_RemoveElement
  <2> QED
    BY <2>1, <2>4, <1>1 DEF RunningCounts
<1>8. \A v \in Workers : \A i \in Nat :
          (Pending(v, i)' <=> Pending(v, i)) /\ (Unsettled(v, i)' <=> Unsettled(v, i))
  BY <1>1 DEF Unsettled, Pending
<1>9. ClaimInv'
  <2>1. \A v \in Workers : wpc'[v] \in {"test", "body", "catch"} => v # w /\ wpc'[v] = wpc[v]
    BY <1>1
  <2>2. next >= want
    BY <1>1, <1>2, <1>3 DEF ClaimInv
  <2>3. \A v \in Workers : wpc'[v] \in {"test", "body", "catch"} =>
            \A u \in Workers : Unsettled(u, idx[v])' => u = v
    BY <2>1, <1>1, <1>2, <1>8 DEF ClaimInv, Unsettled
  <2> QED
    BY <2>1, <2>2, <2>3, <1>1, <1>2 DEF ClaimInv, job, rest
<1>10. HitsInv'
  BY <1>1, <1>8 DEF HitsInv, job, rest, Types
<1>11. ErrorInv'
  <2>1. Failed' = Failed
    BY <1>1, <1>8, ItemNat DEF Failed, job, rest, Types
  <2> QED
    BY <2>1, <1>1 DEF ErrorInv, job, rest
<1>12. DoneInv'
  BY <1>1, <1>2 DEF DoneInv, LowestError, rest
<1> QED
  BY <1>4, <1>5, <1>6, <1>7, <1>9, <1>10, <1>11, <1>12

-----------------------------------------------------------------------------
(* The theorems.                                                            *)

\* Every step keeps the invariant.
LEMMA NextInv == ASSUME ResizeAfterRun = FALSE PROVE Inv /\ [Next]_vars => Inv'
<1> SUFFICES ASSUME Inv, [Next]_vars PROVE Inv'
  OBVIOUS
<1>1. CASE UNCHANGED vars
  <2> USE <1>1 DEF vars, job, ctl, workers, history
  <2>1. Types' /\ WorkerInv' /\ PhaseInv'
    BY DEF Inv, Types, WorkerInv, PhaseInv, Busy
  <2>2. RunningCounts'
    <3>1. \A w \in Workers : Owes(w)' <=> Owes(w)
      BY DEF Owes, Busy
    <3> QED
      BY <3>1, SameOwers DEF Inv
  <2>3. ClaimInv' /\ HitsInv' /\ DoneInv'
    BY DEF Inv, ClaimInv, HitsInv, DoneInv, LowestError, Busy, Pending, Unsettled
  <2>4. ErrorInv'
    <3>1. Failed' = Failed
      BY DEF Failed, Unsettled
    <3> QED
      BY <3>1 DEF Inv, ErrorInv
  <2> QED
    BY <2>1, <2>2, <2>3, <2>4 DEF Inv
<1>2. ASSUME NEW w \in Workers, WorkerStep(w) PROVE Inv'
  BY <1>2, IdleStepInv, StartInv, ClaimStepInv, TestStepInv, BodyStepInv,
     CatchStepInv, CountStepInv, ReportStepInv DEF WorkerStep
<1>3. CASE SubmitterProgress
  BY <1>3, ResizeEndInv, RunCountersInv, RunPublishInv, RunReturnInv, LeaveInv DEF SubmitterProgress
<1>4. ASSUME NEW k \in 0..MaxWorkers, ResizeBegin(k) PROVE Inv'
  BY <1>4, ResizeBeginInv
<1>5. ASSUME NEW n \in Sizes, RunSerially(n) \/ RunBegin(n) PROVE Inv'
  BY <1>5, RunSeriallyInv, RunBeginInv
<1>6. CASE Tick
  BY <1>6, TickInv
<1> QED
  BY <1>1, <1>2, <1>3, <1>4, <1>5, <1>6 DEF Next

\* The invariant implies the type invariant of the model.
LEMMA InvTypes == Inv => TypeOK
<1> SUFFICES ASSUME Inv PROVE TypeOK
  OBVIOUS
<1> USE DEF Inv
<1>1. running \in 0..MaxWorkers
  BY OwersFinite DEF RunningCounts
<1>2. round \in 0..MaxRuns
  BY QueryPoolAssumption DEF Types, PhaseInv
<1>3. seen \in [Workers -> 0..MaxRuns]
  BY <1>2, QueryPoolAssumption DEF Types, WorkerInv
<1> QED
  BY <1>1, <1>2, <1>3 DEF Types, TypeOK

\* ... and the three promises.
LEMMA InvPromises == Inv => RunComplete /\ BodyAlive /\ LowestError
<1> SUFFICES ASSUME Inv PROVE RunComplete /\ BodyAlive /\ LowestError
  OBVIOUS
<1> USE DEF Inv
<1>1. RunComplete
  BY DEF RunComplete, DoneInv, WorkerInv
<1>2. BodyAlive
  BY DEF BodyAlive, WorkerInv, ClaimInv, PhaseInv, Busy
<1> QED
  BY <1>1, <1>2 DEF DoneInv

\* In every reachable state the invariant holds, for every pool and workload.
THEOREM InvHolds == ASSUME ResizeAfterRun = FALSE PROVE Spec => []Inv
<1>1. Init => Inv
  BY InitInv
<1>2. Inv /\ [Next]_vars => Inv'
  BY NextInv
<1> QED
  BY <1>1, <1>2, PTL DEF Spec

\* Every field of the pool keeps its type and its bound: in particular
\* m_running never drops below zero nor exceeds the number of workers.
THEOREM TypeCorrect == ASSUME ResizeAfterRun = FALSE PROVE Spec => []TypeOK
BY InvHolds, InvTypes, PTL

\* run returns when every item has been executed once and no worker is left
\* in the job, however the workers interleave (query_pool.hpp:65).
THEOREM RunIsComplete == ASSUME ResizeAfterRun = FALSE PROVE Spec => []RunComplete
BY InvHolds, InvPromises, PTL

\* No worker runs a closure that has gone, or an index it was not given.
THEOREM BodyStaysAlive == ASSUME ResizeAfterRun = FALSE PROVE Spec => []BodyAlive
BY InvHolds, InvPromises, PTL

\* The error that is reported is the one of the lowest failing item, whatever
\* the schedule (query_pool.hpp:79-81).
THEOREM ErrorIsLowest == ASSUME ResizeAfterRun = FALSE PROVE Spec => []LowestError
BY InvHolds, InvPromises, PTL
=============================================================================
