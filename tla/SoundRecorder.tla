--------------------------- MODULE SoundRecorder ---------------------------
(***************************************************************************)
(* Live audio capture: application/sound_recorder.{hpp,cpp}.                *)
(*                                                                          *)
(* Three threads share a fixed pool of blocks through two SPSC rings: the   *)
(* audio callback fills a block and pushes it on `filled`; the writer       *)
(* thread appends it to the file and pushes it back on `free`; the GUI      *)
(* thread starts and stops both.  Samples are abstracted to the number of   *)
(* their frame, in device order; a block's content is the sequence of the   *)
(* frames copied into it, so its valid_frames is the length.                *)
(*                                                                          *)
(* The stream is that of the vendored RtAudio, third_party/rtaudio, with    *)
(* its ALSA back end: one thread calls the callback, one call at a time and *)
(* only while the stream is running; stopStream does not wait for the call  *)
(* in progress, and closeStream joins the thread.                           *)
(***************************************************************************)
EXTENDS SpscRing, FiniteSets, SequencesExt, FiniteSetsExt

CONSTANTS
    Blocks,        \* the block pool, m_pool; its size is m_pool_blocks
    BlockFrames,   \* m_block_frames
    Spans,         \* numbers of frames a callback may deliver
    MaxFrames      \* bound on the frames the device delivers

ASSUME RecorderAssumption ==
    /\ IsFiniteSet(Blocks) /\ Blocks # {} /\ NoBlock \notin Blocks
    /\ BlockFrames \in Nat \ {0}
    /\ Spans \subseteq Nat \ {0}
    /\ MaxFrames \in Nat

\* What RingCap takes from arithmetic: the powers of two outgrow the pool.
ASSUME PowersAssumption ==
    /\ \A k \in 0..Cardinality(Blocks) : 2^k \in Nat \ {0}
    /\ \E k \in 0..Cardinality(Blocks) : 2^k >= Cardinality(Blocks) + 1

\* The smallest power of two that leaves room for every block and the slot
\* that tells full from empty.
RingCap == Min({c \in {2^k : k \in 0..Cardinality(Blocks)} : c >= Cardinality(Blocks) + 1})

ASSUME CapacityAssumption == Cap = RingCap

VARIABLES
    free, filled,        \* m_free_blocks, m_filled_blocks
    content,             \* the frames in each block
    cur,                 \* m_current_block
    running, shouldStop, \* m_running, m_writer_should_stop
    captured, dropped,   \* m_frames_captured, m_dropped_frames
    file, fileOpen,      \* the frames written, and whether m_outfile is open
    stream,              \* RtAudio's state of the stream
    clock,               \* frames the device has delivered
    apc, arg,            \* the callback: where it is; its nframes, remaining, next frame
    wpc, wblk, final,    \* the writer: where it is, its block, whether this is the final drain
    gpc                  \* the GUI thread

rings   == <<free, filled>>
flags   == <<running, shouldStop>>
counts  == <<captured, dropped>>
outfile == <<file, fileOpen>>
audio   == <<apc, arg, clock>>
writer  == <<wpc, wblk, final>>
vars    == <<rings, content, cur, flags, counts, outfile, stream, audio, writer, gpc>>

\* The constructor pushes the blocks of the pool in order; once the ring is
\* full a push does nothing.
AllFree ==
    LET n == Min({Cardinality(Blocks), Cap - 1})
    IN  [slots |-> [i \in 0..(Cap - 1) |-> IF i < n THEN SetToSeq(Blocks)[i + 1] ELSE NoBlock],
         head |-> 0, tail |-> n]

Init ==
    /\ free = AllFree
    /\ filled = EmptyRing
    /\ content = [b \in Blocks |-> <<>>] /\ cur = NoBlock
    /\ running = FALSE /\ shouldStop = FALSE
    /\ captured = 0 /\ dropped = 0
    /\ file = <<>> /\ fileOpen = TRUE
    /\ stream = "closed" /\ clock = 0
    /\ apc = "out" /\ arg = [span |-> 0, left |-> 0, src |-> 0]
    /\ wpc = "off" /\ wblk = NoBlock /\ final = FALSE
    /\ gpc = "ready"

-----------------------------------------------------------------------------
(* The audio callback: capture and capture_impl.                            *)

\* A callback that finds the recorder stopped asks RtAudio to stop the
\* stream and takes nothing.
CallbackRefused ==
    /\ apc = "out" /\ stream = "running" /\ ~running
    /\ stream' = "open"
    /\ UNCHANGED <<rings, content, cur, flags, counts, outfile, audio, writer, gpc>>

CallbackBegin(k) ==
    /\ apc = "out" /\ stream = "running" /\ running
    /\ clock + k <= MaxFrames
    /\ clock' = clock + k
    /\ arg' = [span |-> k, left |-> k, src |-> clock + 1]
    /\ apc' = "loop"
    /\ UNCHANGED <<rings, content, cur, flags, counts, outfile, stream, writer, gpc>>

\* What a pool found dry adds to m_dropped_frames.
Dropped(k) == k

\* No current block: read the front of the free ring; when it is empty the
\* rest of the span is dropped.
TakeBlock ==
    /\ apc = "loop" /\ arg.left > 0 /\ cur = NoBlock
    /\ IF IsEmpty(free)
       THEN /\ dropped' = dropped + Dropped(arg.left)
            /\ apc' = "end"
       ELSE /\ apc' = "take"
            /\ UNCHANGED dropped
    /\ UNCHANGED <<rings, content, cur, flags, captured, outfile, stream, arg, clock, writer, gpc>>

TakeAdvance ==
    /\ apc = "take"
    /\ cur' = Oldest(free) /\ free' = Advance(free)
    /\ content' = [content EXCEPT ![cur'] = <<>>]
    /\ apc' = "loop"
    /\ UNCHANGED <<filled, flags, counts, outfile, stream, arg, clock, writer, gpc>>

\* memcpy as many frames as fit in the current block.
Copy ==
    /\ apc = "loop" /\ arg.left > 0 /\ cur # NoBlock
    /\ LET room == BlockFrames - Len(content[cur])
           take == Min({room, arg.left})
       IN  /\ content' = [content EXCEPT ![cur] = @ \o [i \in 1..take |-> arg.src + i - 1]]
           /\ arg' = [arg EXCEPT !.left = @ - take, !.src = @ + take]
           /\ apc' = IF take = room THEN "handoff" ELSE "loop"
    /\ UNCHANGED <<rings, cur, flags, counts, outfile, stream, clock, writer, gpc>>

\* The block is full: write its slot of the filled ring, or, if that ring is
\* full, count the block as dropped and reuse it.
HandOff ==
    /\ apc = "handoff"
    /\ IF IsFull(filled)
       THEN /\ dropped' = dropped + Len(content[cur])
            /\ content' = [content EXCEPT ![cur] = <<>>]
            /\ apc' = "loop"
            /\ UNCHANGED filled
       ELSE /\ filled' = WriteSlot(filled, cur)
            /\ apc' = "publish"
            /\ UNCHANGED <<dropped, content>>
    /\ UNCHANGED <<free, cur, flags, captured, outfile, stream, arg, clock, writer, gpc>>

\* Mutant: the callback keeps its pointer to the block it handed off.
KeepCurrent == cur

AfterHandOff == NoBlock

HandOffPublish ==
    /\ apc = "publish"
    /\ filled' = Publish(filled) /\ cur' = AfterHandOff
    /\ apc' = "loop"
    /\ UNCHANGED <<free, content, flags, counts, outfile, stream, arg, clock, writer, gpc>>

\* The whole span is counted as captured, the dropped part included.
CallbackEnd ==
    /\ apc = "end" \/ (apc = "loop" /\ arg.left = 0)
    /\ captured' = captured + arg.span
    /\ apc' = "out"
    /\ UNCHANGED <<rings, content, cur, flags, dropped, outfile, stream, arg, clock, writer, gpc>>

AudioStep ==
    \/ TakeBlock \/ TakeAdvance \/ Copy \/ HandOff \/ HandOffPublish \/ CallbackEnd

-----------------------------------------------------------------------------
(* The writer thread: writer_main.                                          *)

\* Mutant: the writer goes on after the final drain.
LoopOn == "lock"

AfterDrain == IF final THEN "exited" ELSE "lock"

\* drain_one: read the front of the filled ring; when it is empty the drain
\* is over, and after the final one the thread exits.
DrainRead ==
    /\ wpc = "drain"
    /\ wpc' = IF ~IsEmpty(filled) THEN "release" ELSE AfterDrain
    /\ UNCHANGED <<rings, content, cur, flags, counts, outfile, stream, audio, wblk, final, gpc>>

DrainAdvance ==
    /\ wpc = "release"
    /\ wblk' = Oldest(filled) /\ filled' = Advance(filled)
    /\ wpc' = "write"
    /\ UNCHANGED <<free, content, cur, flags, counts, outfile, stream, audio, final, gpc>>

WriteBlock ==
    /\ wpc = "write"
    /\ file' = IF fileOpen THEN file \o content[wblk] ELSE file
    /\ content' = [content EXCEPT ![wblk] = <<>>]
    /\ wpc' = "give"
    /\ UNCHANGED <<rings, cur, flags, counts, fileOpen, stream, audio, wblk, final, gpc>>

\* Return the block to the free ring; a full ring would leak it.
GiveBack ==
    /\ wpc = "give"
    /\ IF IsFull(free)
       THEN wpc' = "drain" /\ wblk' = NoBlock /\ UNCHANGED free
       ELSE wpc' = "given" /\ free' = WriteSlot(free, wblk) /\ UNCHANGED wblk
    /\ UNCHANGED <<filled, content, cur, flags, counts, outfile, stream, audio, final, gpc>>

GiveBackPublish ==
    /\ wpc = "given"
    /\ free' = Publish(free) /\ wblk' = NoBlock
    /\ wpc' = "drain"
    /\ UNCHANGED <<filled, content, cur, flags, counts, outfile, stream, audio, final, gpc>>

\* Mutant: the writer exits on the flag without the final drain.
ExitAtOnce == "exited"

AfterStop == "drain"

\* Under the mutex: the stop flag asks for a final drain; otherwise sleep.
CheckStop ==
    /\ wpc = "lock"
    /\ final' = shouldStop
    /\ wpc' = IF shouldStop THEN AfterStop ELSE "sleep"
    /\ UNCHANGED <<rings, content, cur, flags, counts, outfile, stream, audio, wblk, gpc>>

\* Mutant: wait instead of wait_for.
NoTimeout == FALSE

TimedOut == wpc = "sleep"

\* wait_for returns after 5 ms (or for no reason, which looks the same).
WriterTimeout ==
    /\ TimedOut
    /\ wpc' = "drain"
    /\ UNCHANGED <<rings, content, cur, flags, counts, outfile, stream, audio, wblk, final, gpc>>

WriterStep ==
    \/ DrainRead \/ DrainAdvance \/ WriteBlock \/ GiveBack \/ GiveBackPublish
    \/ CheckStop \/ WriterTimeout

\* notify_all: a sleeping writer goes on.
Notify ==
    /\ wpc' = IF wpc = "sleep" THEN "drain" ELSE wpc
    /\ UNCHANGED <<wblk, final>>

-----------------------------------------------------------------------------
(* The GUI thread: start and stop.                                          *)

\* start: the callback's first block, the counters, the writer thread.
Start ==
    /\ gpc = "ready" /\ ~running
    /\ cur' = Oldest(free) /\ free' = Advance(free)
    /\ captured' = 0 /\ dropped' = 0 /\ shouldStop' = FALSE
    /\ wpc' = "drain"
    /\ gpc' = "opening"
    /\ UNCHANGED <<filled, content, running, outfile, stream, audio, wblk, final>>

OpenStream ==
    /\ gpc = "opening"
    /\ \/ stream' = "open" /\ running' = TRUE /\ gpc' = "starting" /\ UNCHANGED shouldStop
          /\ UNCHANGED writer
       \/ shouldStop' = TRUE /\ Notify /\ gpc' = "aborting" /\ UNCHANGED <<stream, running>>
    /\ UNCHANGED <<rings, content, cur, counts, outfile, audio>>

StartStream ==
    /\ gpc = "starting"
    /\ \/ stream' = "running" /\ gpc' = "recording" /\ UNCHANGED <<flags, writer>>
       \/ stream' = "closed" /\ running' = FALSE /\ shouldStop' = TRUE /\ Notify /\ gpc' = "aborting"
    /\ UNCHANGED <<rings, content, cur, counts, outfile, audio>>

\* A failed start joins the writer and throws; the recorder is destroyed,
\* and stop() only closes the file.
Abort ==
    /\ gpc = "aborting" /\ wpc = "exited"
    /\ fileOpen' = FALSE
    /\ gpc' = "stopped"
    /\ UNCHANGED <<rings, content, cur, flags, counts, file, stream, audio, writer>>

\* stop: m_running.exchange(false).
StopBegin ==
    /\ gpc = "recording"
    /\ running' = FALSE
    /\ gpc' = "stopping"
    /\ UNCHANGED <<rings, content, cur, shouldStop, counts, outfile, stream, audio, writer>>

StopStream ==
    /\ gpc = "stopping"
    /\ stream' = "open"
    /\ gpc' = "closing"
    /\ UNCHANGED <<rings, content, cur, flags, counts, outfile, audio, writer>>

CallbackJoined == apc = "out"

CloseStream ==
    /\ gpc = "closing" /\ CallbackJoined
    /\ stream' = "closed"
    /\ gpc' = "tail"
    /\ UNCHANGED <<rings, content, cur, flags, counts, outfile, audio, writer>>

TailHeld == cur # NoBlock /\ content[cur] # <<>>

\* The tail of the recording: the current block, if it holds frames, goes to
\* the writer, or straight to the file when the ring is full.
HandOffTail ==
    /\ gpc = "tail"
    /\ IF ~TailHeld
       THEN gpc' = "signal" /\ UNCHANGED <<filled, cur, file>>
       ELSE IF IsFull(filled)
       THEN gpc' = "signal" /\ file' = file \o content[cur] /\ cur' = NoBlock /\ UNCHANGED filled
       ELSE gpc' = "tailpublish" /\ filled' = WriteSlot(filled, cur) /\ UNCHANGED <<cur, file>>
    /\ UNCHANGED <<free, content, flags, counts, fileOpen, stream, audio, writer>>

TailPublish ==
    /\ gpc = "tailpublish"
    /\ filled' = Publish(filled) /\ cur' = NoBlock
    /\ gpc' = "signal"
    /\ UNCHANGED <<free, content, flags, counts, outfile, stream, audio, writer>>

Signal ==
    /\ gpc = "signal"
    /\ shouldStop' = TRUE /\ Notify
    /\ gpc' = "join"
    /\ UNCHANGED <<rings, content, cur, running, counts, outfile, stream, audio>>

JoinWriter ==
    /\ gpc = "join" /\ wpc = "exited"
    /\ fileOpen' = FALSE
    /\ gpc' = "stopped"
    /\ UNCHANGED <<rings, content, cur, flags, counts, file, stream, audio, writer>>

StopStep ==
    \/ StopStream \/ CloseStream \/ HandOffTail \/ TailPublish \/ Signal \/ JoinWriter \/ Abort

Next ==
    \/ CallbackRefused \/ (\E k \in Spans : CallbackBegin(k)) \/ AudioStep
    \/ WriterStep
    \/ Start \/ OpenStream \/ StartStream \/ StopBegin \/ StopStep

Spec == Init /\ [][Next]_vars

\* Every thread runs when it can: the callback finishes, the writer's timed
\* wait ends, and stop() goes on once it has been called.
FairSpec == Spec /\ WF_vars(AudioStep) /\ WF_vars(WriterStep) /\ WF_vars(StopStep)

-----------------------------------------------------------------------------
TypeOK ==
    /\ free \in Ring(Blocks) /\ filled \in Ring(Blocks)
    /\ content \in [Blocks -> Seq(1..MaxFrames)]
    /\ cur \in Blocks \cup {NoBlock} /\ wblk \in Blocks \cup {NoBlock}
    /\ running \in BOOLEAN /\ shouldStop \in BOOLEAN /\ fileOpen \in BOOLEAN /\ final \in BOOLEAN
    /\ captured \in Nat /\ dropped \in Nat /\ clock \in Nat
    /\ file \in Seq(1..MaxFrames)
    /\ stream \in {"closed", "open", "running"}
    /\ apc \in {"out", "loop", "take", "handoff", "publish", "end"}
    /\ wpc \in {"off", "drain", "release", "write", "give", "given", "lock", "sleep", "exited"}

\* How often each block sits in a place of its own: in a ring, as the
\* callback's block, or in the writer's hands.
Places(b) ==
    Cardinality({i \in 1..Count(free) : Contents(free)[i] = b})
    + Cardinality({i \in 1..Count(filled) : Contents(filled)[i] = b})
    + (IF cur = b THEN 1 ELSE 0) + (IF wblk = b THEN 1 ELSE 0)

\* A block is never lost and never in two places: the callback cannot fill a
\* block the writer is writing, and the pool never shrinks
\* (sound_recorder.cpp:354-400, 425-437).
OnePlace == \A b \in Blocks : Places(b) = 1

\* The frames on their way to the file, oldest first.
Pipeline ==
    (IF wblk = NoBlock THEN <<>> ELSE content[wblk])
    \o FlattenSeq([i \in 1..Count(filled) |-> content[Contents(filled)[i]]])
    \o (IF cur = NoBlock THEN <<>> ELSE content[cur])

\* The file receives the frames in the order of the device, none twice, and
\* so will the ones still in the pipeline.
InOrder ==
    LET all == file \o Pipeline
    IN  \A i \in 1..(Len(all) - 1) : all[i] < all[i + 1]

\* Between two callbacks every captured frame is in the file, in the
\* pipeline, or counted as dropped; after stop() the pipeline is empty.
NothingLost ==
    /\ apc = "out" => captured = Len(file) + Len(Pipeline) + dropped
    /\ gpc = "stopped" => Pipeline = <<>> /\ ~fileOpen

\* The recording is what the device gave, less the frames counted as dropped
\* (sound_recorder.cpp, capture, writer_main and stop).
FramesKept == InOrder /\ NothingLost

\* The rings have room for the whole pool, so a push never fails: no block
\* is dropped for want of a slot, none leaks, and stop() never writes to the
\* file while the writer does (sound_recorder.cpp:169-174, 305-312, 432-435).
PushNeverFails ==
    /\ apc = "handoff" => ~IsFull(filled)
    /\ wpc = "give" => ~IsFull(free)
    /\ gpc = "tail" /\ TailHeld => ~IsFull(filled)

Waiting(b) == b \in {Contents(filled)[i] : i \in 1..Count(filled)}

\* A block the callback has handed off is written and given back whether or
\* not the recording is ever stopped, although nobody notifies the writer of
\* it; and stop() returns, as does a start() that fails
\* (sound_recorder.cpp:287-326, 439-458).
WriterKeepsUp ==
    /\ \A b \in Blocks : Waiting(b) ~> ~Waiting(b) /\ wblk # b
    /\ gpc \in {"stopping", "aborting"} ~> gpc = "stopped"
=============================================================================
