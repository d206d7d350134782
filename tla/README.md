# TLA+ models of Phonometrica

Phonometrica is a desktop application for speech corpora, written in C++ with
Qt, and a scripting engine of its own (`src/phon/engine`). Most of the program
is sequential and covered by its unit tests. This directory models the part
where tests reach least: threads that share a job slot, a ring, a queue or a
heap cell; a cycle collector that runs in the middle of finalizers; caches that
must notice what other isolates did to a generic function; what an Isolate
still owes when it is destroyed; a list mapped by several threads that must end
as a loop would; and the editing of annotations, where undo and redo must go back
and forth over any sequence of edits.

Paths below are relative to `src/phon/`.

## 1. The system

| Component | Source | State | Operations | Status |
|---|---|---|---|---|
| Fork-join pool | `engine/concurrency/thread_pool.*`, `engine/lib/array_kernels.cpp` | one job slot (task, context, n, chunk), round, pending, stop | `parallel_for`, `worker_loop`, destructor | modelled: `ThreadPool` |
| Query pool | `application/conc/query_pool.*` | one job (body, n, claim counter, lowest error), round, running, stop | `run`, `resize`, `worker_loop`, `drain`, cancel | modelled: `QueryPool` |
| Sound recorder | `application/sound_recorder.*` | pool of blocks, two lock-free rings, counters, flags | `start`, `stop`, `capture`, `writer_main` | modelled but for the peak meter, devices and file formats: `SpscRing`, `SpscQueue`, `SoundRecorder` |
| Counts and cycle collector | `engine/core/cell.hpp`, `cell_memory.cpp`, `cycle_collector.*` | header word of each cell, candidate buffer | `retain`, `release`, `cell_realloc`, the four phases, `collect_until_stable` | modelled: `CycleCollector` |
| Channels | `engine/concurrency/channel.*` | buffer with a consumed prefix, capacity, mutex, two condition variables, atomic count | `send`, `receive`, timed and polling receive, finalizer | modelled: `Channel` |
| Generic dispatch | `engine/object/generic.*`, parts of `engine/vm` | methods, arity bounds, epoch, memo; inline caches; journals; the count of workers | `add_method`, `remove_method`, `resolve`, CALLG, DEFMETHOD | partly: `Dispatch` |
| Spawn and teardown | `engine/concurrency/spawn.cpp`, `engine/vm/isolate.cpp` | thread handles, callee and arguments, shared constants | SPAWN, `worker_main`, `thread_finalize`, `~Isolate` | partly: `Spawn` |
| parallel_map | `engine/concurrency/parallel.cpp` | inputs, results, one chunk per thread | checks, freezing, copies, partition, workers, join, first error | modelled: `ParallelMap` |
| Transfer | `engine/concurrency/transfer.cpp` | a map from seen cells to copies | share, copy, reject | partly, as its callers see it: `ParallelMap`, `Spawn`, `Channel`; the walk over nested containers is recursion over data |
| Annotation editing and undo | `application/annotation_data.*`, `gui/annotation_view.cpp`, `gui/layer_widget.cpp`, `gui/annotation_commands.*`, `gui/command.hpp` | layers of sorted events, the widget of each layer, two stacks of commands | create, delete, drag an anchor, edit a text, add, remove, rename, duplicate, clear a layer, replace, share anchors, undo, redo | partly (no files, bookmarks, hidden layers, zoom): `AnnotationLayer`, `AnnotationView`, `UndoHistory` |
| Interpreter | `engine/vm/interpreter.cpp` | frames, handlers, registers, upvalues | one per opcode | CALLG, DEFMETHOD, LOADK, SPAWN only |
| Compiler | `engine/compile` | none that outlives a compilation | scan, parse, lower | not modelled: determined by its input, golden tests |
| Classes, values, containers, runtime, library | `engine/object`, `types`, `core`, `base`, `runtime`, `lib` | | | not modelled; copy on write and the hash table are planned |
| Project, VFS | `application/project.*`, `vfs.*` | tree of documents, registry by path | open, save, close, move | not modelled; single-threaded, planned |
| Audio player, transcription | `application/audio_player.*`, `gui/transcription_worker.*` | atomics shared with a callback; a cancel flag | play, pause, stop; start, cancel, finish | not modelled; planned |
| Signal processing, statistics | `analysis`, `application/spectrum.cpp` ... | numerical arrays | | out of reach of TLC |
| Widgets, vendored libraries | `gui`, `third_party` | | | out of scope |

### How the components interact

- The main thread runs scripts in an **Isolate** (registers, handles, a cycle
  collector of its own). Array operators call the **fork-join pool**; several
  script threads may, since spawned workers run kernels too.
- `spawn` and `parallel_map` create an Isolate per thread. Values cross by
  **transfer**: strings that are *frozen* and channels are shared under atomic
  counts, other values copied, other reference types rejected.
- Closures are never copied. A worker runs a closure of the heap of the program,
  and the constants of its code, which every thread that executes it retains and
  releases. Constants are therefore frozen before a worker starts.
- Generic functions belong to the process. An Isolate **journals** the methods it
  adds and retracts them when it ends. Calls go through an inline cache at the
  call site, a memo in the generic (used only while no worker is counted), then
  a full resolution.
- The application runs corpus queries on the **query pool**, which the GUI thread
  resizes from the settings just before each run.
- An **annotation view** holds one widget per layer and a `CommandProcessor`. A
  widget changes the layer and emits a signal; the view repeats the change on the
  layers that share its anchors and records a command. Undo and redo run the
  commands, which name layers and events by position.
- The **recorder** is driven by three threads: the RtAudio callback, which must not
  block, the writer, and the GUI.

### What is hard

Interleavings (pools, rings, channels, counts), wakeups that may be lost, state that is
stale by the time it is used (caches, `seen` of a new worker, a color read from a cell
that has been freed), errors half way (a start that fails after a thread runs, an
argument that cannot be sent, an item that throws, a result that cannot be sent), limits
(an empty block pool, a full ring, a saturated count, a full undo stack), positions
recorded at one time and used at another (the commands of the undo stack), and teardown
in the right order. `PROJECT.json` lists each hazard at its line, with the properties
that cover it or the reason why none does.

## 2. Modules

| Module | Models | Extends or instantiates |
|---|---|---|
| `ThreadPool` | the fork-join pool and its callers | |
| `QueryPool` | the query pool and its submitter | |
| `QueryPoolProofs` | proofs about it | `QueryPool`, `DataLemmas`, TLAPS |
| `Counting` | sums and occurrences, as the sizes of finite sets | |
| `DataLemmas` | lemmas about least numbers, sizes of sets, sums, occurrences, and passes over sequences | `Counting`, TLAPS |
| `Fifo` | abstract: a bounded first-in first-out queue | |
| `SpscRing` | the data structure of a ring and its two-step operations | |
| `SpscQueue` | one ring between a producer and a consumer | `SpscRing`; implements `Fifo` |
| `SoundRecorder` | two rings, the callback, the writer, the GUI | `SpscRing` |
| `SoundRecorderProofs` | proofs about the rings, `SpscQueue` and its refinement included, and about the recorder | `SoundRecorder`, `DataLemmas`, `SpscQueue` |
| `CycleCollector` | counts, candidates, phases, teardown of a heap | `Counting` |
| `CollectorInvariant` | its inductive invariant | `CycleCollector` |
| `Channel` | channels, their waits and their lifetime | `Counting`; implements `Fifo` |
| `ChannelProofs` | proofs about them, the refinement included | `Channel`, `DataLemmas` |
| `Dispatch` | one generic function, its caches, the isolates | |
| `EngineProofs` | proofs about it and about the collector | `Dispatch`, `CollectorInvariant`, `DataLemmas` |
| `Spawn` | spawn, shared cells, joins, teardown | `Counting` |
| `SpawnProofs` | proofs about them | `Spawn`, `DataLemmas` |
| `ParallelMap` | the caller of `parallel_map` and its workers | |
| `ParallelProofs` | proofs about it and about the pool | `ThreadPool`, `ParallelMap`, `DataLemmas`, TLAPS |
| `AnnotationLayer` | one layer: the operations on its events, as operators | |
| `UndoHistory` | abstract: what undo and redo promise | |
| `AnnotationView` | the view, its widgets, commands and stacks | `AnnotationLayer`; implements `UndoHistory` |
| `AnnotationProofs` | proofs about the layers, the edits and the view, the refinement included | `AnnotationView`, `DataLemmas`, TLAPS |
| `MC*` | the instances TLC checks | |

### ThreadPool

One action is a critical section on `m_mtx`, or a run of the task over a range.
A caller goes `CallInline` (below the threshold, or no workers) or `CallPool`,
`LockCaller`, `Publish`, `RunOwnRange`, `JoinSleep`/`JoinReturn`, `Return`
(`parallel_for`, thread_pool.cpp:61-92). A worker goes `WorkerSleep`,
`WorkerTake`, `WorkerRun`, `WorkerReport`, `WorkerExit` (`worker_loop`, 30-59).
`asleep` is the wait set of a condition variable; `SpuriousWakeup` is what the
standard allows. The context lives on the caller's stack, so it is the caller
itself; `hits` records on which elements its task ran.

thread_pool.hpp:41 says that the caller runs the last range; the code gives it the
first (thread_pool.cpp:86), and the model follows the code. No task of
`array_kernels.cpp`, the only caller, calls back into the pool, so there are no
nested calls.

### QueryPool

`RunBegin` and `RunCounters` write the plain fields without the mutex, one step
each; `RunPublish` is the critical section that starts the job (`run`,
query_pool.cpp:184-252). A worker claims an index (`WorkerClaim`, an atomic
`fetch_add`), compares it with the size (`WorkerTest`), runs the body
(`WorkerBody`), records a failure (`WorkerCatch`), counts (`WorkerCount`) and
reports (`WorkerReport`). `ResizeBegin`/`ResizeEnd` are `resize`. A body is the
number of its run: it is a closure on the submitter's frame and is gone after
`RunReturn`.

### SpscRing, SpscQueue, SoundRecorder

A push writes its slot, then publishes the tail; a pop reads its slot, then
advances the head: each is two steps, in the order of the release stores
(sound_recorder.cpp:59-80). `SpscQueue` interleaves the two threads of one ring
at every one of these steps. `SoundRecorder` uses the same operators for both
rings, with the callback (`CallbackBegin` ... `CallbackEnd`), the writer
(`DrainRead` ... `WriterTimeout`) and the GUI (`Start` ... `JoinWriter`, and `Abort`
for a start that fails). The writer's wait ends by its timeout (`WriterTimeout`) or by
the notification of the GUI (`Notify`, a part of `Signal` and of the two failures); the
callback notifies nobody. A sample is the number of its frame, so the order and
the loss of frames can be stated. The stream is that of the vendored RtAudio with its
ALSA back end (third_party/rtaudio/RtAudio.cpp:8691-9095): callbacks only while the
stream runs, one at a time; `stopStream` does not wait for the one under way, and
`closeStream` joins the thread that calls them (`CallbackJoined`). The other back ends
are not modelled.

### CycleCollector

Headers are records [rc, color, buffered]; `kids` are the references a cell
stores in the order it is traced. Recursive functions (the four phases, the
finalizers) run on an explicit `stack` of calls, one step per child, so header
reads happen in the order of the code. The mutator holds, stores, erases, drops
and grows (`Hold`, `Store`, `Erase`, `Drop`, `Grow`) only what it can reach, and
`Collect` is a safepoint. `Attach` is host code outside a run, when no collector
is installed. `Close`, `StablePass` and `Destroy` are the end of an Isolate. When
a freed header is read the model stops with `ub` set, as the program has no
defined behaviour from there; so it does when a candidate moves with no collector
installed to repoint its slot (`GrowUnseen`).

### Channel

One critical section is one step; `notify_one` is a step of its own because the
code calls it after the unlock. A timeout re-evaluates the predicate once.
Payloads are items or channels, the one reference type that is shared. The
finalizer releases what is still queued, which may cascade (`todo`).

### Dispatch

One generic. `Mains` are the isolates of the main thread, which define
(`Define`, `Redefine`), end (`MainEnds`, the journal retracted last first) and
call; `Workers` only call. A call is `Begin` (inline cache, arity test, the test of
`g_worker_threads`), then `ResolveMemo` or `ResolveFully`, which fills the inline
cache. Main isolates never interleave inside a call; a worker may start between
the test and the use of the memo, and does. Methods are only defined or retracted
while no worker is live (`Stable`): that is what generic.cpp:401 assumes and
nothing enforces (see hazards). Classes do not change: the type epoch and the
registry by name are left out.

### Spawn

Counts of plain cells are a load and a later store (`Ref`, then `StoreWord`), so
two threads can lose an update; those of frozen cells are one atomic step. A
script retains and releases constants, and spawns: `SpawnBegin` freezes,
`Transfer` shares or copies one argument, `Reject` and `Undo` are an argument that
cannot be sent, `RetainCallee` and `Launch` start the thread. Nothing keeps two
isolates from spawning one function, and then two threads may update the plain count
of its closure at once: `raced` remembers the cells this happened to, and the model
goes on with the count that was stored last. A worker ends by
`Return` or `Die`, releases registers and arguments, joins its own threads; the
program ends by `Close`, joins, retracts its journal. `wait` is registered but no
script can obtain a handle, so a handle is only finalized by `~Isolate`.

### ParallelMap

The caller refuses, freezes, copies the inputs one by one (`TransferInput`, or
`RejectInput`, which releases those already made), launches one thread per chunk
(`Launch`), joins them, and raises the first error or builds the list (`Raise`,
`Stitch`; `vm_parallel_map`, parallel.cpp:156-260). A worker calls f, takes what it
returns, sends it, and at the end or at the first error releases its inputs
(`Call`, `Return`, `SendResult`, `RejectResult`, `Leave`; `map_worker_main`,
82-153). What f does on an element is a choice: return a number, its argument, a
constant of its code, a new cell or one of a reference type, or raise. Counts are
updated in one step here; that no plain count is updated by two threads is the
property `Confined`. `does` and `leaked` are ghosts.

### AnnotationLayer, AnnotationView, UndoHistory

`AnnotationLayer` translates `Layer` (annotation_data.cpp): events sorted by
time, `lower` and `find_index` as the binary searches they are (`LowerBound`, which
ends somewhere also when the events are out of order), `AddAnchor` (which cuts an
interval or inserts an instant), `RemoveAnchor` (which merges two intervals and their
texts), the two ways an anchor moves (`Drag` by the widget, `MoveAnchor` by the
view), `SetText`, `RestoreTexts`, `ClearTexts`, and what the mouse finds: `Painted`
(the events in the window), `Hit` (the anchor under the eraser, within the few pixels
of `Near`) and `Grabbed`. An anchor is dropped anywhere in 0..`Limit`, beyond the
`Duration` too; a text is a sequence of words, so merging is concatenation.

An action of `AnnotationView` is one thing the user does, with everything the
signal sets off: `CreateAnchor`, `DeleteAnchor` and `DragAnchor` change the peers
that share anchors too (a deletion by what is near the time on each of them), and
record the command; `CommitEdit`, `CreateLayer`,
`RemoveLayer`, `RenameLayer` record one; `DuplicateLayer`, `ClearLayer`,
`ReplaceText` and `ReplaceTexts` record none, as in the code. `UndoLast` and
`RedoLast` are `CommandProcessor::undo` and `redo`; `Undone` and `Redone` are the
methods of the seven commands. A widget keeps the position of the layer it was
made for and is not renumbered (layer_widget.hpp:232), so the model stops when
painting it would throw (`Shown`).

`past` and `future` are ghosts: the documents that undo and redo have to give
back. An edit that is recorded pushes the document; one that is not, or whose
command takes back only part of it (peers, the events of a removed layer), cuts
the promise to what is still due. An anchor dropped past its neighbour, an instant
dragged (only one of its bounds moves), and an undo or a redo with nothing promised go
*astray*: `strays` counts them, the model goes on with the layers they leave, and
nothing more is promised of their order or of undo. `UndoHistory` is the promise: an
edit is a step that is counted (`edits`), and a step that is not must be an undo or a
redo and yield exactly the document that is due, the last redo included. `IsHistory`
says that the view implements it.

## 3. Runs

| Run | Instance | States | What it shows |
|---|---|---|---|
| `pool` | 2 workers, 2 callers, n in {0,1,2,4,5}, 3 rounds | 19 k | every element exactly once, contexts and slot never stale, calls and the destructor end |
| `query` | up to 2 workers, n in {0,1,3}, 2 runs, a resize before the first | 55 k | runs are complete, the error is the lowest, calls return |
| `query_resize` | the same, a resize between runs | violation | see finding 1 |
| `ring_fifo` | 4 slots, 6 pushes, 2 items | 3 k | the ring is a FIFO |
| `recorder` | 3 blocks of 2 frames, 9 frames in spans of 1 or 3 | 9 k | blocks are in one place, frames in order and accounted for, queued blocks get written, `stop` returns |
| `collector` | 3 cells and an acyclic one, 3 edges, 2 handles | 1.0 M | nothing reachable is freed, counts and candidates exact, no garbage forgotten |
| `collector_freed` | 2 cells, 3 edges | violation | see finding 2 |
| `channel` | 3 threads, capacity 2, a channel passed through it, 4 sends | 2.8 M | a FIFO, counts exact, no lost wakeup |
| `dispatch` | 2 main isolates, 1 worker, 3 definitions, 6 signatures | 2.0 M | calls run live code, the memo is exclusive and fresh, no ambiguity slips in but between variadic methods |
| `spawn` | 3 workers, a function two isolates spawn, 1 constant, 2 operations per script | 1.3 M | counts exact but where two spawners race, no freed cell reached, all joined, teardown ends |
| `parallel` | lists of 0 to 4 elements with repeats, a frozen string and a reference; 1 to 3 threads | 57 k | the call ends as a loop would, counts exact on every path, plain cells confined, the call returns |
| `annotation` | 2 documents of 2 layers, 4 times, 1 word, 3 edits, a stack of 2 | 971 k | layers stay in order until an edit goes astray, commands find their targets, undo and redo are a history |

### Why the bounds are enough

- `pool`: five elements on three participants give uneven ranges, an empty last
  range (n = 4, chunk 2: the third participant has none), n below the number of
  participants, n = 0 and inline calls. Three rounds let a slow worker meet a
  second and a third job, and two callers contend for the slot. `ParallelProofs`
  removes the bounds for the safety properties.
- `query`: with three items and two workers one worker can be two claims ahead of
  the other, any subset of the items may fail, and the second run reuses
  everything the first left behind. The pool may start empty (serial runs).
- `ring_fifo`: six pushes through four slots wrap both indices; the proofs cover
  every capacity.
- `recorder`: three blocks make the ring of four slots the code would allocate
  (`RingCap`, which `CapacityAssumption` makes TLC compare with `Cap`); spans
  of one and three frames over blocks of two end inside, at and past the end of
  a block; nine frames exhaust the pool when the writer is slow, and go round
  all blocks when it is not.
- `collector`: three nodes and three edges contain the ring, the two-cycle with a
  tail, parallel edges, self references and shared children; the acyclic cell is
  shared, grown and parked. `RCMax` is 2^26 - 1 in the code
  (cell.hpp:54), 63 here: either way a count that saturates needs more references
  than the instance has, so saturation is modelled but not reached. A saturated
  count is the one place where trial deletion and `retain` disagree: `mark_gray`
  subtracts from it (cycle_collector.cpp:53), `release` never does.
- `channel`: capacity two with three threads lets two sleep on one condition
  variable while the third works; four sends fill, drain and compact the buffer
  (the threshold of 16 is scaled to 1). The second channel is held by one thread
  only, so sending it is the only way it spreads, and dropping it finalizes it.
- `dispatch`: two main isolates can define, shadow and retract over each other;
  the signatures hold the classic ambiguous pair, its disambiguator and two
  variadic methods that are incomparable. The isolates of the main thread are interchangeable, hence
  the symmetry; no run with a liveness property uses symmetry.
- `spawn`: two operations per script are enough to load a constant and send it, or to
  spawn twice; a worker may spawn another, so joins nest. The program and one worker
  spawn the same function, with two more threads to run it, so their stores of its
  count meet. `SpawnProofs` removes the bounds for the safety properties.
- `parallel`: four elements over three threads give chunks of two, one and one;
  two over three leave a thread out; one list cell is passed three times, across
  chunks and within one; an element in the middle cannot be sent.
- `annotation`: undo and redo do not count as edits, so three edits give every
  sequence of up to three edits with any walk back and forth in between. Three
  edits overflow a stack of two. Duration 3 leaves two inner times, enough for an
  interval to be cut twice, an anchor to be dragged, and both merged back; one time
  beyond the recording can be dragged to. Three strays (`MaxStrays`) let each edit be one.
  The eraser reaches 0 or 1 around an anchor (`Reaches`). The documents
  pair an interval layer with instants and with another interval layer, so anchors
  are shared with a peer of the same kind and of the other kind.
  `AnnotationProofs` removes the bounds.

All configurations set `CHECK_DEADLOCK FALSE`: each instance ends (bounded rounds,
sends, operations, a destroyed pool or Isolate), and receivers of an empty channel
may block for ever in the program too. What must not get stuck is stated as
liveness (`NobodyLeftAsleep` of the pool: every call returns and the destructor
ends; `CallsReturn`, `WriterKeepsUp`, `TeardownEnds`, `CallReturns`) or, for channels,
as `NoLostWakeup`. An annotation view stops when its edits are spent or where the
program would throw.

### Fairness

Weak fairness says no more than that the OS runs a thread that can run.

- `ThreadPool`: each worker, and each caller once it has begun a call. No
  fairness is asked of `std::mutex`: between callers a lock is obtained because the
  bound on rounds eventually leaves it free. `Destroy` and new calls are not forced.
- `QueryPool`: each worker and the submitter's progress; ticks, cancels, runs and
  resizes are not forced. `wait_for` times out, so a lost notification of the
  submitter would be harmless; one of a worker would not.
- `SoundRecorder`: the callback under way, the writer (its wait has a 5 ms
  timeout, without which nobody would wake it while it records) and `stop()` once
  called. The device need not deliver anything, nor the user stop.
- `Spawn`: each isolate goes on with what it has begun, and a worker's script ends:
  `Return` is part of what is fair. A script that loops for ever makes teardown wait
  for ever, in the code as in the model; `MaxOps` and this assumption leave that out.
- `ParallelMap`: the caller, and each worker, so f ends by returning or raising.
- `Channel`, `Dispatch`, `CycleCollector`, `AnnotationView` have safety properties only.

### Findings

1. `query_resize`: a worker created by `resize` starts with `seen = 0` while
   `m_round` keeps its value (query_pool.cpp:160), so it runs for a round it was not
   counted in and decrements `m_running`. If that happens while the next job is under
   way, `run` returns while another worker is still in the body.
2. `collector_freed`: `collect_white` frees a cell and then reads the color of the
   same address when another reference to it is visited (cycle_collector.cpp:94-109).
   Two cells are enough: a parent with two references to one child.

Met on the way, and kept as hazards or remarks without a run:

- Redefining an identical signature does not bump the epoch (generic.cpp:233),
  against generic.hpp:79; a warm inline cache keeps calling the closure that was
  replaced. It stays alive (the journal holds it), so `CallsLiveCode` holds while
  `CallsCurrent` of `Dispatch`, which no run lists, does not.
- A worker that spawns counts a closure of the program's heap without atomics
  (spawn.cpp:191), against spawn.cpp:27 and 70: if the program spawns the same
  function at that moment, a count is lost. The run `spawn` reaches this; the cells
  it happened to are in `raced`, `CountsExact` says which those can be, and nothing is
  claimed of their counts.
- A result of f that cannot be sent is never released (parallel.cpp:115-117).
- Undoing the removal of a layer brings it back empty (annotation_commands.cpp:64
  says so), so a text edit below it on the stack then indexes out of range. The
  edits that shared anchors repeat on other layers are not taken back. Deleting a
  text with a key, replacing, clearing and duplicating record nothing, so the
  commands below them no longer fit either.
- The position of the layer a widget shows is not renumbered when a layer is
  inserted or removed before it (layer_widget.hpp:232): its edits go to another
  layer.
- An anchor may be dragged past its neighbours, and dragging an instant moves one
  bound of it only (layer_widget.cpp:1200), so the order that annotation_data.hpp:35-36
  and 74 states is lost. The run `annotation` makes such drags; `WellFormed` claims the
  order up to the first of them, and that the intervals follow one another even then.
- `collect_until_stable` can stop while it still makes progress
  (cycle_collector.cpp:195, against cycle_collector.hpp:64).
- An accepted definition can leave an ambiguous call when two variadic methods are
  disambiguated by a fixed one (generic.cpp:268, against engine/DEVIATIONS.md:920):
  after `f(Object, T...)`, `f(T, Object...)` and `f(T, T)` the call `f(t, t, t)` is;
  and two variadic methods disjoint in their last class both apply to a call that
  passes nothing there. `Ordered` leaves such pairs undecided (`Undecided`: two variadic
  methods, neither the more specific), and the proof of `DefinitionKeepsOrder` shows
  that nothing else goes wrong. Also, retracting a redefinition does not restore what
  it replaced (engine/DEVIATIONS.md:1520 knows).
- The comment that a channel cannot be sent yet (channel.cpp:93-95) is older than
  transfer.cpp:187-193, which shares it; the models follow the code.
- `current_duration` counts dropped frames (sound_recorder.hpp:90, cpp:405).

## 4. Proofs

TLAPS checks them for all values of the constants, under the named assumptions of
the modules (`PoolAssumption`, `MapAssumption` and the like).

**ParallelProofs**, on `ThreadPool`, proves `TypeOK`, `ExactlyOnce`, `NoStaleContext` and
`SlotStable` for every number of workers and callers, every set of element counts
and any number of rounds. None is inductive. `PoolInv` adds:

- `MutexInv`: the holder of `m_caller_mtx` is the one caller between lock and return;
- `SlotInv`: while a caller is in its round the slot is its job;
- `QuietInv`: with no round under way no worker owes a report;
- `WorkerInv`: a worker that runs or reports has seen the published round, and its
  locals are those the slot gives it;
- the count: `m_pending` is the number of workers that owe (`Owes`: have not seen
  the round, or have not reported). It makes `pending = 0` mean that nobody can still
  read the slot, from which `SlotStable` and the return of `JoinReturn` follow;
- `HitsInv`: an index has been hit exactly when the participant whose range holds
  it has run.

Apart from that, `Cover` and `Disjoint` prove that the ranges `[p*chunk, min(p*chunk +
chunk, n))` of the participants partition `[0, n)` for any n and any number of
workers. There is one lemma per action.

**QueryPoolProofs** proves `TypeOK`, `RunComplete`, `BodyAlive` and `LowestError`
for every number of workers, job size, set of failing items and moment of
cancellation, under `ResizeAfterRun = FALSE`: the pool is resized before the first
job only. Without that assumption the theorems are false (finding 1). The
inductive invariant adds:

- `WorkerInv`: a worker inside `drain` has seen the current round, and its body is
  that of the run;
- the count (`Owes`, `RunningCounts`): `m_running` is the number of workers that owe
  a report for the round. This is what fails when a new worker starts at round
  zero, and what makes `m_running = 0` mean that nobody is inside the body;
- `PhaseInv`: what the submitter may assume between two of its steps;
- `ClaimInv`: no two participants hold one index, a claim is below the counter, and
  a worker that is through has seen the counter reach the end;
- `HitsInv`: an index below the counter has run exactly once, unless the participant
  that claimed it has yet to run it;
- `ErrorInv`: the recorded error is the least of the failures dealt with so far;
- `DoneInv`: what the two say of the outcome once `run` has returned.

`DataLemmas` supplies what the last one needs of `Min`.

**ParallelProofs**, on `ParallelMap`, proves `Sequential`, `Confined` and `CountsExact` for every list
and kind of its elements, every number of threads, every schedule and whatever f does
on each element. `Bounds`, `ChunksCover` and `ChunksApart` show that the chunks
partition the list in order. None of the three is inductive:

- `IInv` adds, for each worker (`WorkerOK`), that it has dealt with the elements of its
  chunk before the one it is at, as a loop would (`Kept`), and left the rest alone; and
  for the caller what it has prepared by each phase. `Sequential` follows when every
  thread is joined, since an earlier chunk without an error is done to its end;
- `Confined` follows by naming for each plain cell the one thread that may hold it
  (`OwnerOf`, `HeldByOwner`): a copy belongs to the worker of its element, a result to
  the caller as soon as that worker is gone;
- `CountsInv` counts the references to a cell kind by kind (`Total`), `Counted` shows
  that the kinds add up to `References`, and one lemma per action shows that the count
  and the total change alike. The step that needs `IInv` most is `RejectResult`: the
  value left behind is counted once because it was not left behind before.

**AnnotationProofs** concerns any document, texts, number of edits and depth of
the stack, and any drag. It has three layers.

- The operations on a layer: what each returns, event by event (`SplitFact`,
  `MergeFact`, `MoveEndFact`, the searches), and that each keeps a layer in order.
- The edits: every edit and its undoing are inverses. Cutting and
  merging an interval restores it; merging and cutting restores it together with
  the two texts; a drag and the drag back cancel, although the two are different
  functions of the code; a text found again by its start is the same event.
- The view: `TypeOK`, `WellFormed`, `UndoSafe` and the refinement
  `IsHistory`. None is inductive: what undo does depends on commands recorded long
  before. The invariant `IInv` says what a command is for: `Leads(c, before, after)`
  holds when c can be undone on `after` and gives `before`, and can be redone on
  `before` and gives `after`. `Chain` says that the commands on top of the undo
  stack lead one by one through the documents in `past`, and those of the redo
  stack through `future`. Each recorded edit extends the chain by its own inverse
  lemma; dropping the oldest command of a full stack drops the far end of the
  chain; undo moves one link from one chain to the other. All remembered documents
  are in order, which the inverse lemmas need; once astray none is remembered, and
  what is left of the invariant (types, `Chained`) is kept by every operation on events
  in any order.

**ChannelProofs** proves `TypeOK`, `CountsExact`, `InUseAlive`, `NoLostWakeup` and the
refinement `IsFifo` for any threads, channels, payloads, capacities, number of sends
and threshold of the compaction. The inductive invariant `IInv` adds:

- `ThreadOK`: a thread inside an operation holds a reference to its channel, carries a
  payload from the start of the send to the push and never else, and has something to
  release only while it releases. `InUseAlive` follows: what a thread holds is counted,
  and what is counted is alive (`ReferredAlive`);
- `WaitersOK`: who is on a condition variable of a channel is asleep there.

`CountsExact` sums over the threads and over the queues (`SumOf`); `SumChange` and the
lemmas about `Occurrences` turn each action into the change of one term. The case that
matters is the last release of a channel whose queue holds channels: its queue leaves
the sum over the queues, and the same values, now in `todo`, enter the sum over the
threads (`OccurrencesConcat`). For `NoLostWakeup` the sleepers alone are not enough:
`EmptyOK` and `FullOK` weigh the items, or the free places, against the threads that are
awake or have a notification to give (`On`), and one lemma per kind of step
(`OneLeaves`, `OneArrives`, `OneForAnother`) follows that count; an empty queue needs
nobody awake and a full one nobody to free a place (`NobodyNeeded`), which is when a
thread goes to sleep. The refinement has one fact per end of the buffer: a push appends
(`PushFact`), and a pop takes the head whether or not it compacts (`PopFact`).

**SoundRecorderProofs** proves `OnePlace`, `PushNeverFails` and `FramesKept`, and of every
state its type and that no copy runs past the end of its block (`CopiesFit`), for any
pool, block length and spans; and of one ring between its two threads, at every load and store,
`QTypeOK`, `SlotsApart` and `IsFifo` (a refinement of `Fifo` under the mapping
`Contents`) for any capacity, items and number of pushes. Both rest on the same lemmas
about rings, which ask of `Cap` only that it is positive. The recorder's is the one its
constructor computes (`CapacityAssumption`: the least power of two above the size of the
pool), and only `CapFact`, that it leaves a slot over, uses that.
The indices are settled first: `Mod` is only applied below `2 * Cap`, so it
subtracts `Cap` at most once (`ModCases`). Then `WriteKeepsContents`,
`PublishAppends` and `AdvanceTakes` say what each store does to the contents: nothing,
an append, a tail. The inductive invariant of the ring alone is `QTypeOK /\ SlotsApart`
with two facts about pending operations: the slot a producer is about to publish holds
its item, and what the consumer has read is still the front.

For the recorder, `PowersAssumption` states the two facts about powers of two this needs
(they are positive and outgrow the pool): the provers know nothing of exponents, and TLC
evaluates them. The invariant `Placed` says which thread may touch which ring when: the
callback runs only in a started stream (`GuiOK`), a push that was begun still finds its
slot free and its block in it (`Pushing`), what was seen in a ring is still there when
it is taken. `RoomForOne` is the pigeonhole: a ring that holds no block twice, and one
of them not at all, is not full. `PushNeverFails` follows from `OnePlace`, and
`OnePlace` needs it in turn, because a push that failed would lose the block; they are
proved as one invariant.

For `FramesKept`, `All` is the file followed by the frames of the writer's block, of the
queued ones and of the callback's, and the invariant `Flow` says that they ascend, that
none goes further than the callback has copied (`Seen`), and that `captured` and the part
of the span dealt with (`Done`) are their number and what was dropped. `Ends` says what
the two ends of a recording rely on: empty blocks before the first callback and after the
last, a stop flag raised only when nothing is pushed any more, and a writer that exits
with the queue empty. Every step but a copy regroups `All` without changing it
(`WholeTaken`, `WholePushed`, `WholeBlank`, `WholeEmptied`, `WholeWritten`), and a copy
adds to its end (`WholeCopied`); the last three need `OnePlace`: the block that changes is
neither queued nor in the other thread's hands (`Alone`). `FlattenSeq` of the
community modules has a recursive function inside: `FlattenPass` shows that what its
`CHOOSE` picks is a pass over the sequence (`PassExists` and `UpTo` of `DataLemmas`), from
which follow an append (`FlattenAppend`) and a tail (`FlattenTail`). TLC checked `Flow`
and `Ends` on the instance of `recorder` first.

**SpawnProofs** proves `Structured`, `CountsExact` and `CellsAlive` for any number of
workers, which may spawn workers to any depth, any functions, constants and arguments,
scripts of any length, and any interleaving of the load and the store of a plain count.
No hypothesis restricts who spawns what: where two isolates spawn the same function the
code may lose a count (see Findings), and the theorems say that this is the only place
(`RacesAreSpawners`) and are about every cell it did not happen to. The invariant has
two parts:

- `Control`: where an isolate is says what it has begun. `OpOK` says what a pending
  store is for, `Reserved` that a worker about to start is in one draft only, `TreeOK`
  that every worker that was started has its handle with its spawner until it is joined,
  and then nothing is left to report. `FrozenOK` says that the constants are plain cells
  as long as the program is alone, and frozen without a store of one pending afterwards.
  `Structured` follows: an isolate past its joins owns no handle;
- `Counts`: the count of a cell, or the word about to be stored over it, is the number
  of its references (`Total`, with `SumOf` over drafts and arguments). `RefCounts` is
  the step that matters: it needs that no other thread has a store of the same cell
  pending (`NobodyElse`), or else the cell is raced. For a constant it is `FrozenOK`
  that says so; a closure is only counted by isolates that spawn it, until the program
  retracts its journal. By then every thread has ended
  (`AloneAtEnd`): the tree of spawners has a rank (`Ranked`), and the highest worker
  still running would have a spawner that waits for it.

`CellsAlive` follows because a cell with a reference is live (`LiveOK`) and a running
worker is called by a handle.

**EngineProofs**, on `CycleCollector`, proves `ReachableAlive`, `CountsExact`,
`CandidatesExact`, `GarbageEnrolled` and the types of the heap, for any set of cells,
any number of stored references and handles, and collections, finalizers, moves and
runs with no collector in any order. One hypothesis: the bounds leave no count to
saturate (`NoSaturation`: fewer references than `RCMax`, which is 2^26 - 1 in
cell.hpp:54). Past it the code leaks cells on purpose, and the theorems say nothing
(see the bounds of `collector`). They are of the states the model reaches, so of a
collection up to the moment a freed header is read (finding 2).

In the middle of a collection a refcount is not the number of references, so none of
the properties is inductive. `CollectorInv` (module `CollectorInvariant`) says what a
refcount is at every step:

- `Out` decides for each stored reference, from the color of the cell that stores it
  and from how far the calls in progress have got through its children, whether
  a phase has taken it out of the count of its target; `Counts` says that a refcount is the
  handles and the references that are not out. A reference that `mark_gray` is about to
  subtract, or `scan_black` to give back, is told apart by `Ahead`;
- `Covered`: gray and white cells can be reached, through gray and white cells, from
  the roots and the children still ahead. So when a loop has no root left and no call
  is in progress no gray cell, and then no white one, is left, and the counts are exact
  again. It is stated with sets (no nonempty subset is cut off), because reachability by
  paths would need induction;
- `OrderedRoots`: a root that is still to be visited lies outside some closed set that holds
  the roots before it. An earlier root's cells cannot have freed it, so
  the roots left are live (the first part of `CandidatesExact`);
- `Enlisted`, `Purples`, `ParkedAlone`: flags, colors and slots agree; a parked cell has
  no reference, so nothing reaches it before the last loop disposes of it;
- `Enrolled`: every live cell that no call is freeing hangs off a handle, a
  candidate, a parked cell, a child a finalizer has still to release, or a cell whose
  decrement went unrecorded.

Every step of a phase writes one header and enters or leaves one call. A table per
function (`ReleaseTable`, `GrayTable`, `RepairTable`, `ScanTable`, `WhiteTable`) says which, and one
lemma per case follows the invariant through it; `ReleaseStep` serves the handles, the
elements erased, the finalizers and the acyclic children of `collect_white` alike.
Between two operations `CollectorInv` is equivalent to the much simpler `PlainInv`
(`QuietPlain`, `PlainQuiet`), which allocation, copies, stores, moves and the teardown
are proved to keep. `ReachableAlive` then is one closed set per phase: all live cells
while counts are subtracted, the cells no phase takes for garbage (`Spared`) afterwards,
which hold what they refer to because those references are counted.

On `Dispatch`, **EngineProofs** proves `TypeOK`, `CallsLiveCode`, `MemoSafe` and
`DefinitionKeepsOrder` for every hierarchy in which the ancestors of a class are a
chain (`ClassAssumption`), any signatures, isolates and calls. `full_resolve` and
`retract_journal` are passes over sequences, written as recursive functions;
`ResolveFinds`, `ResolveShape`, `ResolveAppend` and `RetractFacts` say what they
compute, by induction (`UpTo`). The invariant `IInv` adds:

- no signature is registered twice (`Distinct`): `remove_method` takes the first of a
  signature, so a second would stay behind with a closure that is released;
- `SiteLive`: what a warm cache calls is a registration for the signature that a
  resolution selects. It survives a redefinition because the journal keeps what was
  replaced, a definition because the epoch makes the cache stale, and the end of an
  isolate because a retraction that removes nothing of its signatures had nothing the
  cache could call;
- `MemoOwned` and the count: `g_worker_threads` is the number of live workers, so a
  caller that finds it at zero is on the main thread.

`AcceptedKeepsOrder` is the argument for `DefinitionKeepsOrder`: among the methods that apply, `MoreSpecific` is transitive; a tie of classes is broken
because two fixed methods of the same classes would be one signature; and two
methods that are incomparable, one of them fixed, are compared by `add_method` at
just the arity of the call (`ConflictFound`), so a disambiguator is there, and it would have
beaten the best method found before. Two variadic methods have no such arity: for them
the property asks only that the other is not the more specific (`Undecided`), and
`NewBestBeats` shows that this weaker relation survives a new best method.

**Only model-checked**: every liveness property (fairness and ENABLED are beyond
TLAPS). Every invariant and every action property of the passing runs is the subject of
a theorem. `CollectorInv` was checked with TLC on the
instance of `collector` before it was proved; no run of the project repeats that.
No module declares a RECURSIVE operator.

## 5. Not modelled, and what would come next

- Signal processing, statistics, formats, the compiler and the library are
  functions of their input over floating-point arrays, bytes or syntax; there is
  no state space for TLC to explore, and they make up most of the source. Widgets
  are layout and event plumbing. Vendored libraries are out of scope.
- Next, in this order: freezing while workers run (constants of code defined after a
  spawn); `CowList` (list.cpp:157-177), value semantics against counts;
  `FlatHashMap` as a refinement of a finite map (tombstones, growth); the
  interpreter's handler stack and the release of registers on an error; import of
  modules and its cycles; `AudioPlayer` and `TranscriptionWorker` (cancel against
  completion); `Project` and `Vfs` (registry, modified flags, moves, deferred
  bindings).
- Theorems: the collector with counts that saturate, once its code decides what trial
  deletion does to them.
