---------------------------- MODULE ThreadPool ----------------------------
(***************************************************************************)
(* The engine's fork-join pool: concurrency/thread_pool.{hpp,cpp}, and the  *)
(* array kernels that are its only callers, lib/array_kernels.cpp.          *)
(*                                                                          *)
(* Several script threads (Callers) run elementwise kernels.  A kernel on   *)
(* at least Threshold elements goes to the pool, which has one job slot:    *)
(* the caller publishes (task, ctx, n, chunk), bumps the round, runs the    *)
(* range of participant 0 itself and waits until every worker has reported. *)
(*                                                                          *)
(* One action is one critical section on m_mtx, or one run of the task over *)
(* a whole range.  A thread in state "asleep" is in the wait set of its     *)
(* condition variable.  The context of a job lives on its caller's stack,   *)
(* so a job's ctx is the caller itself.                                     *)
(***************************************************************************)
EXTENDS Integers, FiniteSets

CONSTANTS
    NThreads,     \* worker threads; 0 when the machine has a single core
    Callers,      \* script threads that run kernels
    Sizes,        \* element counts the kernels are called with
    Threshold,    \* PHON_PARALLEL_THRESHOLD
    MaxRounds,    \* bound on the jobs published in a behaviour
    NoCaller      \* the value of caller_mtx when it is free

ASSUME PoolAssumption ==
    /\ NThreads \in Nat
    /\ Sizes \subseteq Nat
    /\ Threshold \in Nat
    /\ MaxRounds \in Nat
    /\ NoCaller \notin Callers

Workers      == 1..NThreads
Participants == 0..NThreads            \* participant 0 is the caller
Index        == UNION {0..(k - 1) : k \in Sizes}

VARIABLES
    callerMtx,    \* m_caller_mtx: the caller that holds it
    ctx, jobN, chunk, \* m_ctx, m_n, m_chunk: the job slot
    round,        \* m_round
    pending,      \* m_pending
    stop,         \* m_stop
    cpc,          \* where each caller is in parallel_for
    cn,           \* the element count each caller was called with
    wpc,          \* where each worker is in worker_loop
    seen,         \* each worker's local `seen`
    range,        \* each worker's locals ctx, lo, hi
    hits          \* history: how often the caller's task ran on each index

job   == <<ctx, jobN, chunk>>
poolVars  == <<callerMtx, ctx, jobN, chunk, round, pending, stop,
           cpc, cn, wpc, seen, range, hits>>

\* Mutant: the chunk rounded down, so that the last elements are nobody's.
ChunkFloor(size) == size \div (NThreads + 1)

ChunkSize(size) == (size + NThreads) \div (NThreads + 1)

\* The half-open range [lo, hi) participant p takes of `size` elements.
Low(p, ch)       == p * ch
High(p, ch, size) == IF Low(p, ch) + ch > size THEN size ELSE Low(p, ch) + ch
InRange(i, p, ch, size) == Low(p, ch) <= i /\ i < High(p, ch, size)

\* Running c's task over [lo, hi).
RunTask(c, lo, hi) ==
    hits' = [hits EXCEPT ![c] = [i \in Index |-> IF lo <= i /\ i < hi
                                                 THEN @[i] + 1 ELSE @[i]]]

PoolInit ==
    /\ callerMtx = NoCaller
    /\ ctx = NoCaller /\ jobN = 0 /\ chunk = 0
    /\ round = 0 /\ pending = 0 /\ stop = FALSE
    /\ cpc = [c \in Callers |-> "idle"]
    /\ cn = [c \in Callers |-> 0]
    /\ wpc = [w \in Workers |-> "wait"]
    /\ seen = [w \in Workers |-> 0]
    /\ range = [w \in Workers |-> [ctx |-> NoCaller, lo |-> 0, hi |-> 0]]
    /\ hits = [c \in Callers |-> [i \in Index |-> 0]]

-----------------------------------------------------------------------------
(* The caller: array_binop* and parallel_for.                               *)

\* The caller's own kernel call: below the threshold, or with no worker to
\* share the work with, the whole range runs inline.
CallInline(c, size) ==
    /\ cpc[c] = "idle" /\ ~stop
    /\ size < Threshold \/ NThreads = 0 \/ size <= 0
    /\ cn' = [cn EXCEPT ![c] = size]
    /\ RunTask(c, 0, size)
    /\ cpc' = [cpc EXCEPT ![c] = "returned"]
    /\ UNCHANGED <<callerMtx, job, round, pending, stop, wpc, seen, range>>

\* Bounds the rounds: a caller on its way to publish counts as one.
MayPublish ==
    round + Cardinality({c \in Callers : cpc[c] \in {"lock", "publish"}}) < MaxRounds

CallPool(c, size) ==
    /\ cpc[c] = "idle" /\ ~stop
    /\ ~(size < Threshold \/ NThreads = 0 \/ size <= 0)
    /\ MayPublish
    /\ cn' = [cn EXCEPT ![c] = size]
    /\ cpc' = [cpc EXCEPT ![c] = "lock"]
    /\ UNCHANGED <<callerMtx, job, round, pending, stop, wpc, seen, range, hits>>

LockCaller(c) ==
    /\ cpc[c] = "lock" /\ callerMtx = NoCaller
    /\ callerMtx' = c
    /\ cpc' = [cpc EXCEPT ![c] = "publish"]
    /\ UNCHANGED <<job, round, pending, stop, cn, wpc, seen, range, hits>>

\* Mutant: m_pending misses a worker.
PendingShort == NThreads - 1

\* What m_pending starts a round with.
PendingAtStart == NThreads

\* Mutant: the notification is forgotten.
NotifyNobody == wpc

\* m_cv_go.notify_all(): every worker in the wait set re-checks its predicate.
NotifyGo == [w \in Workers |-> IF wpc[w] = "asleep" THEN "wait" ELSE wpc[w]]

\* Fill the job slot and notify the workers.
Publish(c) ==
    /\ cpc[c] = "publish"
    /\ ctx' = c /\ jobN' = cn[c] /\ chunk' = ChunkSize(cn[c])
    /\ pending' = PendingAtStart
    /\ round' = round + 1
    /\ wpc' = NotifyGo
    /\ cpc' = [cpc EXCEPT ![c] = "own"]
    /\ UNCHANGED <<callerMtx, stop, cn, seen, range, hits>>

\* The caller runs participant 0's range, from its own copy of chunk.
RunOwnRange(c) ==
    /\ cpc[c] = "own"
    /\ RunTask(c, 0, IF ChunkSize(cn[c]) < cn[c] THEN ChunkSize(cn[c]) ELSE cn[c])
    /\ cpc' = [cpc EXCEPT ![c] = "join"]
    /\ UNCHANGED <<callerMtx, job, round, pending, stop, cn, wpc, seen, range>>

\* Mutant: the caller stops waiting one report early.
JoinEarly == pending <= 1

\* The predicate of m_cv_done.wait.
JoinReady == pending = 0

\* The predicate is false: the caller joins the wait set.
JoinSleep(c) ==
    /\ cpc[c] = "join" /\ ~JoinReady
    /\ cpc' = [cpc EXCEPT ![c] = "asleep"]
    /\ UNCHANGED <<callerMtx, job, round, pending, stop, cn, wpc, seen, range, hits>>

\* The predicate holds: parallel_for returns and both mutexes are released.
JoinReturn(c) ==
    /\ cpc[c] = "join" /\ JoinReady
    /\ callerMtx' = NoCaller
    /\ cpc' = [cpc EXCEPT ![c] = "returned"]
    /\ UNCHANGED <<job, round, pending, stop, cn, wpc, seen, range, hits>>

\* The kernel returns to the script; its context dies with the stack frame.
ReturnKernel(c) ==
    /\ cpc[c] = "returned"
    /\ cpc' = [cpc EXCEPT ![c] = "idle"]
    /\ cn' = [cn EXCEPT ![c] = 0]
    /\ hits' = [hits EXCEPT ![c] = [i \in Index |-> 0]]
    /\ UNCHANGED <<callerMtx, job, round, pending, stop, wpc, seen, range>>

-----------------------------------------------------------------------------
(* The worker: worker_loop.                                                 *)

WorkerSleep(w) ==
    /\ wpc[w] = "wait" /\ ~stop /\ round = seen[w]
    /\ wpc' = [wpc EXCEPT ![w] = "asleep"]
    /\ UNCHANGED <<callerMtx, job, round, pending, stop, cpc, cn, seen, range, hits>>

\* A new round: the worker copies the job slot and computes its range.  A
\* worker whose range is empty does not call the task.
WorkerTake(w) ==
    /\ wpc[w] = "wait" /\ ~stop /\ round # seen[w]
    /\ seen' = [seen EXCEPT ![w] = round]
    /\ range' = [range EXCEPT ![w] =
                    [ctx |-> ctx, lo |-> Low(w, chunk), hi |-> High(w, chunk, jobN)]]
    /\ wpc' = [wpc EXCEPT ![w] =
                    IF Low(w, chunk) < High(w, chunk, jobN) THEN "run" ELSE "report"]
    /\ UNCHANGED <<callerMtx, job, round, pending, stop, cpc, cn, hits>>

WorkerRun(w) ==
    /\ wpc[w] = "run"
    /\ RunTask(range[w].ctx, range[w].lo, range[w].hi)
    /\ wpc' = [wpc EXCEPT ![w] = "report"]
    /\ UNCHANGED <<callerMtx, job, round, pending, stop, cpc, cn, seen, range>>

\* --m_pending; the last worker notifies one thread waiting on m_cv_done.
Sleepers == {c \in Callers : cpc[c] = "asleep"}

NotifyDone(left) ==
    IF left = 0 /\ Sleepers # {}
    THEN \E c \in Sleepers : cpc' = [cpc EXCEPT ![c] = "join"]
    ELSE cpc' = cpc

WorkerReport(w) ==
    /\ wpc[w] = "report"
    /\ pending' = pending - 1
    /\ NotifyDone(pending - 1)
    /\ wpc' = [wpc EXCEPT ![w] = "wait"]
    /\ UNCHANGED <<callerMtx, job, round, stop, cn, seen, range, hits>>

WorkerExit(w) ==
    /\ wpc[w] = "wait" /\ stop
    /\ wpc' = [wpc EXCEPT ![w] = "exited"]
    /\ UNCHANGED <<callerMtx, job, round, pending, stop, cpc, cn, seen, range, hits>>

\* The standard lets wait() return without a notification.
Spurious ==
    \/ \E w \in Workers : /\ wpc[w] = "asleep"
                          /\ wpc' = [wpc EXCEPT ![w] = "wait"]
                          /\ UNCHANGED cpc
    \/ \E c \in Callers : /\ cpc[c] = "asleep"
                          /\ cpc' = [cpc EXCEPT ![c] = "join"]
                          /\ UNCHANGED wpc

SpuriousWakeup ==
    /\ Spurious
    /\ UNCHANGED <<callerMtx, job, round, pending, stop, cn, seen, range, hits>>

\* ~ThreadPool, at process exit: no caller is inside parallel_for.
Destroy ==
    /\ ~stop
    /\ \A c \in Callers : cpc[c] = "idle"
    /\ stop' = TRUE
    /\ wpc' = NotifyGo
    /\ UNCHANGED <<callerMtx, job, round, pending, cpc, cn, seen, range, hits>>

-----------------------------------------------------------------------------
CallerStep(c) ==
    \/ \E size \in Sizes : CallInline(c, size) \/ CallPool(c, size)
    \/ LockCaller(c) \/ Publish(c) \/ RunOwnRange(c)
    \/ JoinSleep(c) \/ JoinReturn(c) \/ ReturnKernel(c)

WorkerStep(w) ==
    \/ WorkerSleep(w) \/ WorkerTake(w) \/ WorkerRun(w)
    \/ WorkerReport(w) \/ WorkerExit(w)

PoolNext ==
    \/ \E c \in Callers : CallerStep(c)
    \/ \E w \in Workers : WorkerStep(w)
    \/ SpuriousWakeup
    \/ Destroy

PoolSpec == PoolInit /\ [][PoolNext]_poolVars

\* The OS runs every thread that can run.  std::mutex promises no fairness:
\* a caller gets m_caller_mtx only if it stays free, which the bound on the
\* rounds ensures in the end.
CallerProgress(c) ==
    \/ LockCaller(c) \/ Publish(c) \/ RunOwnRange(c)
    \/ JoinSleep(c) \/ JoinReturn(c) \/ ReturnKernel(c)

Fairness ==
    /\ \A w \in Workers : WF_poolVars(WorkerStep(w))
    /\ \A c \in Callers : WF_poolVars(CallerProgress(c))

PoolFairSpec == PoolSpec /\ Fairness

-----------------------------------------------------------------------------
TypeOK ==
    /\ callerMtx \in Callers \cup {NoCaller}
    /\ ctx \in Callers \cup {NoCaller}
    /\ jobN \in Nat /\ chunk \in Nat
    /\ round \in Nat /\ pending \in 0..NThreads /\ stop \in BOOLEAN
    /\ cpc \in [Callers -> {"idle", "lock", "publish", "own", "join", "asleep", "returned"}]
    /\ cn \in [Callers -> Nat]
    /\ wpc \in [Workers -> {"wait", "asleep", "run", "report", "exited"}]
    /\ seen \in [Workers -> Nat]
    /\ range \in [Workers -> [ctx : Callers \cup {NoCaller}, lo : Nat, hi : Nat]]
    /\ hits \in [Callers -> [Index -> Nat]]

\* When a kernel returns, its task has run exactly once on each of its
\* elements and on no other: the ranges of the participants cover [0, n),
\* do not overlap, and none is still outstanding (array_kernels.cpp:25-28).
ExactlyOnce ==
    \A c \in Callers : cpc[c] = "returned" =>
        hits[c] = [i \in Index |-> IF i < cn[c] THEN 1 ELSE 0]

\* A worker about to run a task holds the context of a caller that is still
\* blocked inside parallel_for with the same element count: a context never
\* outlives the stack frame it points into (thread_pool.cpp:44-52, 86-91).
NoStaleContext ==
    \A w \in Workers : wpc[w] = "run" =>
        /\ range[w].ctx = callerMtx
        /\ cpc[range[w].ctx] \in {"own", "join", "asleep"}
        /\ range[w].hi <= cn[range[w].ctx]

\* Worker w has not reported on the published round.
Owes(w) == seen[w] # round \/ wpc[w] \in {"run", "report"}

\* A job slot is overwritten only when nobody can still read it: a worker
\* that has not taken the previous round never sees the next one's fields.
SlotStable ==
    [][job' # job => \A w \in Workers : ~Owes(w)]_poolVars

\* Every kernel call returns: no wakeup of a caller or a worker is lost, and
\* the job slot is released after every round.
EveryCallReturns ==
    \A c \in Callers : cpc[c] = "lock" ~> cpc[c] = "returned"

\* The destructor's join() returns: every worker leaves its loop after stop.
DestroyTerminates == stop ~> \A w \in Workers : wpc[w] = "exited"

\* Nobody sleeps for ever on a condition variable of the pool: calls return
\* and the destructor ends (thread_pool.cpp:20-27, 61-92).
NobodyLeftAsleep == EveryCallReturns /\ DestroyTerminates
=============================================================================
