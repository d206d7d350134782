------------------------------ MODULE Channel ------------------------------
(***************************************************************************)
(* Channels between Isolates: engine/concurrency/channel.cpp.               *)
(*                                                                          *)
(* Each thread runs one operation at a time: send, receive (with or without *)
(* a deadline, or a poll), or the release of a reference to a channel.  A   *)
(* critical section is one step; notify_one comes after it, unlocked, so it *)
(* is a step of its own, and a thread that was notified, woken spuriously   *)
(* or timed out re-evaluates its predicate in a new critical section.       *)
(*                                                                          *)
(* A payload is an item (any value that is copied) or a channel, the one    *)
(* reference type that is shared instead (transfer.cpp).                    *)
(***************************************************************************)
EXTENDS Counting, SequencesExt

CONSTANTS
    Threads, Channels, Items,
    Capacity,   \* of each channel; 0: unbounded
    Used,       \* bound: the channels that are sent to and received from
    Given,      \* the channels each thread is given when it starts
    Slack,      \* the prefix pop() lets grow before it compacts: 16
    MaxSends,   \* bound on the number of sends
    NoValue     \* no payload

ASSUME ChannelAssumption ==
    /\ IsFiniteSet(Threads) /\ IsFiniteSet(Channels) /\ Channels \cap Items = {}
    /\ NoValue \notin Channels \cup Items
    /\ Used \subseteq Channels /\ Used # {}
    /\ Capacity \in [Channels -> Nat] /\ Given \in [Threads -> SUBSET Channels]
    /\ Slack \in Nat /\ MaxSends \in Nat

Values == Items \cup Channels

VARIABLES
    buf, head,          \* ChannelState: the storage and the length of its consumed prefix
    live, rc,           \* the channel cells and their atomic counts
    holds,              \* the references each thread holds
    pc, chan, item,     \* each thread: where it is, on which channel, the payload it carries
    todo,               \* the references a thread is releasing
    notEmpty, notFull,  \* the threads waiting on each condition variable
    sends, taken        \* how many sends have begun; what was taken from each channel

cell == <<live, rc, holds>>
call == <<pc, chan, item>>
cvs  == <<notEmpty, notFull>>
vars == <<buf, head, cell, call, todo, cvs, sends, taken>>

Init ==
    /\ buf = [c \in Channels |-> <<>>] /\ head = [c \in Channels |-> 0]
    /\ live = UNION Range(Given) /\ rc = [c \in Channels |-> Cardinality({t \in Threads : c \in Given[t]})]
    /\ holds = [t \in Threads |-> [c \in Channels |-> IF c \in Given[t] THEN 1 ELSE 0]]
    /\ pc = [t \in Threads |-> "out"]
    /\ chan = [t \in Threads |-> CHOOSE c \in Used : TRUE]
    /\ item = [t \in Threads |-> NoValue]
    /\ todo = [t \in Threads |-> <<>>]
    /\ notEmpty = [c \in Channels |-> {}] /\ notFull = [c \in Channels |-> {}]
    /\ sends = 0 /\ taken = [c \in Channels |-> <<>>]

Count(c) == Len(buf[c]) - head[c]
Queue(c) == SubSeq(buf[c], head[c] + 1, Len(buf[c]))

Goto(t, l) == pc' = [pc EXCEPT ![t] = l]

-----------------------------------------------------------------------------
(* send                                                                     *)

\* Mutant: the channel in the payload is not retained.
Borrowed(x) == rc

Shared(x) == IF x \in Channels THEN [rc EXCEPT ![x] = @ + 1] ELSE rc

\* The transfer, before the lock: a channel is shared, anything else copied.
SendBegin(t, c, x) ==
    /\ pc[t] = "out" /\ holds[t][c] > 0 /\ sends < MaxSends
    /\ x \in Channels => holds[t][x] > 0
    /\ rc' = Shared(x)
    /\ chan' = [chan EXCEPT ![t] = c] /\ item' = [item EXCEPT ![t] = x]
    /\ sends' = sends + 1
    /\ Goto(t, "send")
    /\ UNCHANGED <<buf, head, live, holds, todo, cvs, taken>>

HasRoom(c) == Capacity[c] > 0 => Count(c) < Capacity[c]

SendWait(t) ==
    /\ pc[t] = "send" /\ ~HasRoom(chan[t])
    /\ notFull' = [notFull EXCEPT ![chan[t]] = @ \cup {t}]
    /\ Goto(t, "full")
    /\ UNCHANGED <<buf, head, cell, chan, item, todo, notEmpty, sends, taken>>

SendPush(t) ==
    /\ pc[t] = "send" /\ HasRoom(chan[t])
    /\ buf' = [buf EXCEPT ![chan[t]] = Append(@, item[t])]
    /\ item' = [item EXCEPT ![t] = NoValue]
    /\ Goto(t, "sent")
    /\ UNCHANGED <<head, cell, chan, todo, cvs, sends, taken>>

\* Mutant: the notification is forgotten.
NotifyNone(W) == {{}}

\* notify_one wakes any one of the waiting threads, if there is one.
NotifyOne(W) == IF W = {} THEN {{}} ELSE {{u} : u \in W}

SendNotify(t) ==
    /\ pc[t] = "sent"
    /\ \E woken \in NotifyOne(notEmpty[chan[t]]) :
          /\ notEmpty' = [notEmpty EXCEPT ![chan[t]] = @ \ woken]
          /\ pc' = [u \in Threads |->
                      CASE u = t -> "out"
                        [] u \in woken -> IF pc[u] = "timed" THEN "timedrecv" ELSE "recv"
                        [] OTHER -> pc[u]]
    /\ UNCHANGED <<buf, head, cell, chan, item, todo, notFull, sends, taken>>

-----------------------------------------------------------------------------
(* receive, channel_receive, channel_try_receive                            *)

\* l: "recv" waits, "timedrecv" waits with a deadline, "poll" does not wait.
ReceiveBegin(t, c, l) ==
    /\ pc[t] = "out" /\ holds[t][c] > 0
    /\ chan' = [chan EXCEPT ![t] = c]
    /\ Goto(t, l)
    /\ UNCHANGED <<buf, head, cell, item, todo, cvs, sends, taken>>

Receiving(t) == pc[t] \in {"recv", "timedrecv", "poll"}

ReceiveWait(t) ==
    /\ Receiving(t) /\ Count(chan[t]) = 0 /\ pc[t] # "poll"
    /\ notEmpty' = [notEmpty EXCEPT ![chan[t]] = @ \cup {t}]
    /\ Goto(t, IF pc[t] = "recv" THEN "empty" ELSE "timed")
    /\ UNCHANGED <<buf, head, cell, chan, item, todo, notFull, sends, taken>>

\* A poll of an empty channel returns false.
PollEmpty(t) ==
    /\ pc[t] = "poll" /\ Count(chan[t]) = 0
    /\ Goto(t, "out")
    /\ UNCHANGED <<buf, head, cell, chan, item, todo, cvs, sends, taken>>

\* Mutant: pop() compacts one item too many.
CompactTooMuch(b, h) == IF h > Slack /\ 2 * h >= Len(b) THEN <<SubSeq(b, h + 2, Len(b)), 0>> ELSE <<b, h>>

\* pop(): a prefix that has grown past the threshold is removed.
Compact(b, h) == IF h > Slack /\ 2 * h >= Len(b) THEN <<SubSeq(b, h + 1, Len(b)), 0>> ELSE <<b, h>>

\* The reference a channel in the queue carries passes to the receiver.
ReceivePop(t) ==
    LET c == chan[t]
        v == buf[c][head[c] + 1]
        s == Compact(buf[c], head[c] + 1)
    IN  /\ Receiving(t) /\ Count(c) > 0
        /\ buf' = [buf EXCEPT ![c] = s[1]] /\ head' = [head EXCEPT ![c] = s[2]]
        /\ taken' = [taken EXCEPT ![c] = Append(@, v)]
        /\ holds' = IF v \in Channels THEN [holds EXCEPT ![t][v] = @ + 1] ELSE holds
        /\ Goto(t, IF Capacity[c] > 0 THEN "got" ELSE "out")
        /\ UNCHANGED <<live, rc, chan, item, todo, cvs, sends>>

ReceiveNotify(t) ==
    /\ pc[t] = "got"
    /\ \E woken \in NotifyOne(notFull[chan[t]]) :
          /\ notFull' = [notFull EXCEPT ![chan[t]] = @ \ woken]
          /\ pc' = [u \in Threads |-> CASE u = t -> "out" [] u \in woken -> "send" [] OTHER -> pc[u]]
    /\ UNCHANGED <<buf, head, cell, chan, item, todo, notEmpty, sends, taken>>

\* wait returns without a notification, and evaluates its predicate again.
Spurious(t) ==
    /\ \/ pc[t] = "empty" /\ Goto(t, "recv")
       \/ pc[t] = "timed" /\ Goto(t, "timedrecv")
       \/ pc[t] = "full" /\ Goto(t, "send")
    /\ notEmpty' = [notEmpty EXCEPT ![chan[t]] = @ \ {t}]
    /\ notFull' = [notFull EXCEPT ![chan[t]] = @ \ {t}]
    /\ UNCHANGED <<buf, head, cell, chan, item, todo, sends, taken>>

\* The deadline passes: the predicate is evaluated once more, as a poll.
Timeout(t) ==
    /\ pc[t] = "timed"
    /\ notEmpty' = [notEmpty EXCEPT ![chan[t]] = @ \ {t}]
    /\ Goto(t, "poll")
    /\ UNCHANGED <<buf, head, cell, chan, item, todo, notFull, sends, taken>>

-----------------------------------------------------------------------------
(* References                                                               *)

Drop(t, c) ==
    /\ pc[t] = "out" /\ holds[t][c] > 0
    /\ holds' = [holds EXCEPT ![t][c] = @ - 1]
    /\ todo' = [todo EXCEPT ![t] = <<c>>]
    /\ Goto(t, "release")
    /\ UNCHANGED <<buf, head, live, rc, chan, item, cvs, sends, taken>>

\* Mutant: the finalizer does not release what is still queued.
KeepQueued(c) == <<>>

\* channel_finalize: the values in the queue are released.
Queued(c) == Queue(c)

\* release_shared: an atomic decrement; the last one finalizes the channel.
\* An item is a copy nobody else counts.
ReleaseOne(t) ==
    LET c == Head(todo[t])
    IN  /\ pc[t] = "release" /\ todo[t] # <<>>
        /\ rc' = IF c \in Channels THEN [rc EXCEPT ![c] = @ - 1] ELSE rc
        /\ IF c \in Channels /\ rc[c] = 1
           THEN /\ live' = live \ {c}
                /\ todo' = [todo EXCEPT ![t] = Queued(c) \o Tail(@)]
           ELSE /\ todo' = [todo EXCEPT ![t] = Tail(@)]
                /\ UNCHANGED live
        /\ UNCHANGED <<buf, head, holds, call, cvs, sends, taken>>

Released(t) ==
    /\ pc[t] = "release" /\ todo[t] = <<>>
    /\ Goto(t, "out")
    /\ UNCHANGED <<buf, head, cell, chan, item, todo, cvs, sends, taken>>

\* What a thread does once it has begun an operation.
Step(t) ==
    \/ SendWait(t) \/ SendPush(t) \/ SendNotify(t)
    \/ ReceiveWait(t) \/ PollEmpty(t) \/ ReceivePop(t) \/ ReceiveNotify(t)
    \/ ReleaseOne(t) \/ Released(t)

Call(t) ==
    \/ \E c \in Used : \E x \in Values : SendBegin(t, c, x)
    \/ \E c \in Used : \E l \in {"recv", "timedrecv", "poll"} : ReceiveBegin(t, c, l)
    \/ \E c \in Channels : Drop(t, c)

Next == \E t \in Threads : Step(t) \/ Call(t) \/ Spurious(t) \/ Timeout(t)

Spec == Init /\ [][Next]_vars

-----------------------------------------------------------------------------
Locations == {"out", "send", "full", "sent", "recv", "timedrecv", "poll", "empty", "timed", "got", "release"}

TypeOK ==
    /\ buf \in [Channels -> Seq(Values)] /\ head \in [Channels -> Nat]
    /\ live \subseteq Channels /\ rc \in [Channels -> Nat] /\ holds \in [Threads -> [Channels -> Nat]]
    /\ pc \in [Threads -> Locations] /\ chan \in [Threads -> Channels] /\ item \in [Threads -> Values \cup {NoValue}]
    /\ todo \in [Threads -> Seq(Values)]
    /\ notEmpty \in [Channels -> SUBSET Threads] /\ notFull \in [Channels -> SUBSET Threads]
    /\ sends \in 0..MaxSends /\ taken \in [Channels -> Seq(Values)]
    /\ \A c \in Channels : head[c] <= Len(buf[c])

\* Each channel is a FIFO of its capacity: nothing is lost, repeated or
\* reordered by the waits, the wakeups or the compaction of the buffer
\* (channel.cpp:36-52, 121-206).
Abstract(c) == INSTANCE Fifo WITH Items <- Values, Bound <- Capacity[c], queue <- Queue(c), taken <- taken[c]

\* TLC takes the quantifier only under the box: this is \A c : Abstract(c)!Spec.
IsFifo ==
    /\ \A c \in Channels : Abstract(c)!Init
    /\ [][\A c \in Channels : [Abstract(c)!Next]_<<Queue(c), taken[c]>>]_vars

\* The references to channel c that thread t has: held, about to be released,
\* or carried by a send; and those a live channel d has in its queue.
HasRefs(t, c)   == holds[t][c] + Occurrences(todo[t], c) + (IF item[t] = c THEN 1 ELSE 0)
QueueRefs(d, c) == IF d \in live THEN Occurrences(Queue(d), c) ELSE 0

\* The count of a channel is the number of the references to it, and a
\* channel is freed when there is none left (channel.cpp:68-77, cell.hpp:254-271).
CountsExact ==
    \A c \in Channels :
        /\ rc[c] = SumOf([t \in Threads |-> HasRefs(t, c)]) + SumOf([d \in Channels |-> QueueRefs(d, c)])
        /\ c \in live <=> rc[c] > 0

\* No thread works on a channel that was freed, or waits on it.
InUseAlive ==
    \A t \in Threads : pc[t] \notin {"out", "release"} => chan[t] \in live

On(c, where) == Cardinality({t \in Threads : chan[t] = c /\ pc[t] \in where})

\* No wakeup is lost: while a receiver sleeps, each item in the queue has a
\* notification still to come or a receiver that is awake; while a sender
\* sleeps, so has each free place.  No sleeper is left with nobody to wake it
\* (channel.cpp:131-136, 150-157, 186-201).
NoLostWakeup ==
    \A c \in Channels :
        /\ notEmpty[c] # {} => Count(c) <= On(c, {"sent", "recv", "timedrecv", "poll"})
        /\ notFull[c] # {} => Capacity[c] - Count(c) <= On(c, {"got", "send"})
=============================================================================
