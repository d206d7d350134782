----------------------------- MODULE QueryPool -----------------------------
(***************************************************************************)
(* The pool that corpus queries run on: application/conc/query_pool.{hpp,  *)
(* cpp} and its two callers in application/conc/query.cpp.                  *)
(*                                                                          *)
(* One thread submits (the GUI thread): it publishes a job, then only waits *)
(* and ticks; the workers claim indices one at a time from an atomic        *)
(* counter.  Before every job the submitter resizes the pool to what the    *)
(* settings ask for, which joins the workers and spawns new ones.           *)
(*                                                                          *)
(* The job fields body, size, next, finished and error are plain fields the *)
(* submitter writes without the mutex, so each write that a worker could    *)
(* observe on its own is a step of its own.  A job's body is a closure on   *)
(* the submitter's stack, represented by the number of the run.             *)
(***************************************************************************)
EXTENDS Integers, FiniteSets, FiniteSetsExt

CONSTANTS
    MaxWorkers,      \* hardware concurrency: the most workers resize may ask for
    Sizes,           \* item counts of the jobs
    MaxRuns,         \* bound on the jobs of a behaviour
    MaxResizes,      \* bound on the resizes of a behaviour
    ResizeAfterRun   \* whether the settings may change between two jobs

ASSUME QueryPoolAssumption ==
    /\ MaxWorkers \in Nat /\ MaxRuns \in Nat /\ MaxResizes \in Nat
    /\ Sizes \subseteq Nat
    /\ ResizeAfterRun \in BOOLEAN

Workers == 1..MaxWorkers
Items   == UNION {0..(k - 1) : k \in Sizes}
None    == -1                      \* nullptr, and "no error"

VARIABLES
    body, size, next, finished,    \* m_body, m_n, m_next, m_finished
    round, running, stop,          \* m_round, m_running, m_stop
    error,                         \* m_error_index
    live,                          \* how many threads m_workers holds
    wpc, seen, idx,                \* each worker: where it is, `seen`, claimed index
    gpc, want, cancel,             \* the submitter, its argument n or workers, m_cancel_requested
    runs, resizes,                 \* how many jobs and resizes so far
    bad, hits, outcome             \* history: items that throw, executions, result of run()

job     == <<body, size, next, finished, error>>
ctl     == <<round, running, stop>>
workers == <<wpc, seen, idx>>
history == <<bad, hits>>
vars    == <<job, ctl, live, workers, gpc, want, cancel, runs, resizes, history, outcome>>

Init ==
    /\ body = None /\ size = 0 /\ next = 0 /\ finished = 0 /\ error = None
    /\ round = 0 /\ running = 0 /\ stop = FALSE
    /\ live \in 0..MaxWorkers
    /\ wpc = [w \in Workers |-> IF w <= live THEN "wait" ELSE "absent"]
    /\ seen = [w \in Workers |-> 0]
    /\ idx = [w \in Workers |-> None]
    /\ gpc = "idle" /\ want = 0 /\ cancel = FALSE
    /\ runs = 0 /\ resizes = 0
    /\ bad = {} /\ hits = [i \in Items |-> 0] /\ outcome = None

Live == {w \in Workers : wpc[w] # "absent"}

\* Mutant: the notification is forgotten.
NotifyNobody == wpc

\* m_cv_go.notify_all()
NotifyGo == [w \in Workers |-> IF wpc[w] = "asleep" THEN "wait" ELSE wpc[w]]

-----------------------------------------------------------------------------
(* The submitter: resize.                                                   *)

\* apply_settings between jobs; resize returns at once when the count is the
\* same, otherwise it stops the workers and joins them.
ResizeBegin(k) ==
    /\ gpc = "idle" /\ resizes < MaxResizes
    /\ round = 0 \/ ResizeAfterRun
    /\ k # live
    /\ resizes' = resizes + 1
    /\ stop' = TRUE /\ wpc' = NotifyGo
    /\ want' = k /\ gpc' = "joining"
    /\ UNCHANGED <<job, round, running, live, seen, idx, cancel, runs, history, outcome>>

\* What a new worker starts with in `seen`.
FirstSeen == 0

\* Every thread joined: m_stop is cleared and the new workers start.
ResizeEnd ==
    /\ gpc = "joining"
    /\ \A w \in Live : wpc[w] = "exited"
    /\ stop' = FALSE /\ live' = want
    /\ wpc' = [w \in Workers |-> IF w <= want THEN "wait" ELSE "absent"]
    /\ seen' = [w \in Workers |-> FirstSeen]
    /\ gpc' = "idle"
    /\ UNCHANGED <<job, round, running, idx, want, cancel, runs, resizes, history, outcome>>

-----------------------------------------------------------------------------
(* The submitter: run.                                                      *)

\* Run `body` over the items in order on the calling thread: the first that
\* throws ends it.  It is also what a query does below its threshold.
RunSerially(n) ==
    /\ gpc = "idle" /\ runs < MaxRuns
    /\ live = 0 \/ n = 0
    /\ runs' = runs + 1
    /\ \E b \in SUBSET (0..(n - 1)) :
          /\ bad' = b
          /\ outcome' = IF b = {} THEN None ELSE Min(b)
          /\ hits' = [i \in Items |-> IF i < n /\ (b = {} \/ i <= Min(b)) THEN 1 ELSE 0]
    /\ want' = n /\ gpc' = "returned"
    /\ UNCHANGED <<job, ctl, live, workers, cancel, resizes>>

\* run: the plain fields, written one after the other before the lock.
RunBegin(n) ==
    /\ gpc = "idle" /\ runs < MaxRuns
    /\ live > 0 /\ n > 0
    /\ runs' = runs + 1
    /\ body' = runs + 1 /\ size' = n
    /\ want' = n /\ cancel' = FALSE /\ gpc' = "counters"
    /\ \E b \in SUBSET (0..(n - 1)) : bad' = b
    /\ hits' = [i \in Items |-> 0] /\ outcome' = None
    /\ UNCHANGED <<next, finished, error, ctl, live, workers, resizes>>

RunCounters ==
    /\ gpc = "counters"
    /\ next' = 0 /\ finished' = 0 /\ error' = None
    /\ gpc' = "publish"
    /\ UNCHANGED <<body, size, ctl, live, workers, want, cancel, runs, resizes, history, outcome>>

\* Mutant: one worker too few is waited for.
OneFewer == live - 1

\* What m_running starts a job with.
RunningAtStart == live

RunPublish ==
    /\ gpc = "publish"
    /\ running' = RunningAtStart /\ round' = round + 1
    /\ wpc' = NotifyGo
    /\ gpc' = "waiting"
    /\ UNCHANGED <<job, stop, live, seen, idx, want, cancel, runs, resizes, history, outcome>>

\* wait_for returns, on the notification or after tick_ms; on_tick runs
\* without the lock, and the user may ask to cancel.
Tick ==
    /\ gpc = "waiting" /\ running > 0
    /\ cancel' \in {cancel, TRUE}
    /\ UNCHANGED <<job, ctl, live, workers, gpc, want, runs, resizes, history, outcome>>

\* The loop ends: the body goes away and the error, if any, is rethrown.
RunReturn ==
    /\ gpc = "waiting" /\ ~(running > 0)
    /\ body' = None /\ size' = 0
    /\ outcome' = error
    /\ gpc' = "returned"
    /\ UNCHANGED <<next, finished, error, ctl, live, workers, want, cancel, runs, resizes, history>>

\* The query takes the results; the front end is idle again.
Leave ==
    /\ gpc = "returned"
    /\ gpc' = "idle"
    /\ UNCHANGED <<job, ctl, live, workers, want, cancel, runs, resizes, history, outcome>>

-----------------------------------------------------------------------------
(* The workers: worker_loop and drain.                                      *)

rest == <<live, gpc, want, cancel, runs, resizes, bad, outcome>>

WorkerSleep(w) ==
    /\ wpc[w] = "wait" /\ ~stop /\ round = seen[w]
    /\ wpc' = [wpc EXCEPT ![w] = "asleep"]
    /\ UNCHANGED <<job, ctl, seen, idx, hits, rest>>

WorkerExit(w) ==
    /\ wpc[w] = "wait" /\ stop
    /\ wpc' = [wpc EXCEPT ![w] = "exited"]
    /\ UNCHANGED <<job, ctl, seen, idx, hits, rest>>

WorkerStart(w) ==
    /\ wpc[w] = "wait" /\ ~stop /\ round # seen[w]
    /\ seen' = [seen EXCEPT ![w] = round]
    /\ wpc' = [wpc EXCEPT ![w] = "claim"]
    /\ UNCHANGED <<job, ctl, idx, hits, rest>>

\* Mutant: reading and advancing the counter are two steps for two workers,
\* so that a claim may leave the counter where it was.
NextAfterStale == {next, next + 1}

\* m_next after a claim: fetch_add is atomic.
NextAfter == {next + 1}

WorkerClaim(w) ==
    /\ wpc[w] = "claim"
    /\ idx' = [idx EXCEPT ![w] = next]
    /\ next' \in NextAfter
    /\ wpc' = [wpc EXCEPT ![w] = "test"]
    /\ UNCHANGED <<body, size, finished, error, ctl, seen, hits, rest>>

\* i >= m_n ends the worker's share; otherwise it enters the body.
WorkerTest(w) ==
    /\ wpc[w] = "test"
    /\ wpc' = [wpc EXCEPT ![w] = IF idx[w] >= size THEN "report" ELSE "body"]
    /\ UNCHANGED <<job, ctl, seen, idx, hits, rest>>

\* The body runs on the item: after a cancellation it returns at once, and
\* otherwise it may throw.
WorkerBody(w) ==
    /\ wpc[w] = "body"
    /\ hits' = [hits EXCEPT ![idx[w]] = @ + 1]
    /\ wpc' = [wpc EXCEPT ![w] = IF ~cancel /\ idx[w] \in bad THEN "catch" ELSE "count"]
    /\ UNCHANGED <<job, ctl, seen, idx, rest>>

\* Mutant: the latest failure wins.
LatestError(old, i) == i

\* Keep the lowest-indexed failure.
KeptError(old, i) == IF old = None \/ i < old THEN i ELSE old

WorkerCatch(w) ==
    /\ wpc[w] = "catch"
    /\ error' = KeptError(error, idx[w])
    /\ wpc' = [wpc EXCEPT ![w] = "count"]
    /\ UNCHANGED <<body, size, next, finished, ctl, seen, idx, hits, rest>>

WorkerCount(w) ==
    /\ wpc[w] = "count"
    /\ finished' = finished + 1
    /\ wpc' = [wpc EXCEPT ![w] = "claim"]
    /\ UNCHANGED <<body, size, next, error, ctl, seen, idx, hits, rest>>

WorkerReport(w) ==
    /\ wpc[w] = "report"
    /\ running' = running - 1
    /\ wpc' = [wpc EXCEPT ![w] = "wait"]
    /\ idx' = [idx EXCEPT ![w] = None]
    /\ UNCHANGED <<job, round, stop, seen, hits, rest>>

WorkerStep(w) ==
    \/ WorkerSleep(w) \/ WorkerExit(w) \/ WorkerStart(w) \/ WorkerClaim(w) \/ WorkerTest(w)
    \/ WorkerBody(w) \/ WorkerCatch(w) \/ WorkerCount(w) \/ WorkerReport(w)

SubmitterProgress ==
    \/ ResizeEnd \/ RunCounters \/ RunPublish \/ RunReturn \/ Leave

Next ==
    \/ \E w \in Workers : WorkerStep(w)
    \/ SubmitterProgress
    \/ \E k \in 0..MaxWorkers : ResizeBegin(k)
    \/ \E n \in Sizes : RunSerially(n) \/ RunBegin(n)
    \/ Tick

Spec == Init /\ [][Next]_vars

\* The OS runs every thread that can run.
FairSpec ==
    /\ Spec
    /\ \A w \in Workers : WF_vars(WorkerStep(w))
    /\ WF_vars(SubmitterProgress)

-----------------------------------------------------------------------------
TypeOK ==
    /\ body \in 1..MaxRuns \cup {None} /\ size \in Nat /\ next \in Nat
    /\ finished \in Nat /\ error \in Items \cup {None}
    /\ round \in 0..MaxRuns /\ running \in 0..MaxWorkers /\ stop \in BOOLEAN
    /\ live \in 0..MaxWorkers
    /\ wpc \in [Workers -> {"absent", "wait", "asleep", "claim", "test", "body",
                            "catch", "count", "report", "exited"}]
    /\ seen \in [Workers -> 0..MaxRuns] /\ idx \in [Workers -> Nat \cup {None}]
    /\ gpc \in {"idle", "joining", "counters", "publish", "waiting", "returned"}
    /\ bad \subseteq Items /\ hits \in [Items -> Nat] /\ outcome \in Items \cup {None}

Busy(w) == wpc[w] \in {"claim", "test", "body", "catch", "count", "report"}

\* "Run body(i) for every i in [0, n) and return once all of them have
\* finished" (query_pool.hpp:65): when a pooled run returns, every item has
\* been executed exactly once and no worker is still inside the job.
RunComplete ==
    gpc = "returned" /\ live > 0 /\ want > 0 =>
        /\ \A i \in 0..(want - 1) : hits[i] = 1
        /\ \A w \in Workers : ~Busy(w)

\* A worker in the body runs a closure whose submitter is still waiting for
\* it, and on an index that closure was given: the job fields are never
\* rewritten under a worker (query_pool.cpp:135-141, 207-212, 241-242).
BodyAlive ==
    \A w \in Workers : wpc[w] = "body" =>
        gpc = "waiting" /\ body = runs /\ idx[w] < want

\* The error the user sees does not depend on the schedule: without a
\* cancellation it is the failing item with the lowest index, and there is
\* one exactly when an item failed (query_pool.hpp:79-81).
LowestError ==
    gpc = "returned" /\ ~cancel =>
        outcome = IF bad = {} THEN None ELSE Min(bad)

\* A run returns and a resize joins its workers: no wakeup is lost
\* (query_pool.cpp:109-114, 165, 177-180, 224-230).
CallsReturn ==
    /\ gpc = "counters" ~> gpc = "returned"
    /\ gpc = "joining" ~> gpc = "idle"
=============================================================================
