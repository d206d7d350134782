-------------------------- MODULE AnnotationLayer ---------------------------
(***************************************************************************)
(* A layer of an annotation and the operations that edit it                 *)
(* (application/annotation_data.cpp), with those the view adds for its      *)
(* commands (gui/annotation_view.cpp) and what a widget finds under the     *)
(* mouse (gui/layer_widget.cpp).                                            *)
(*                                                                          *)
(* A layer is a label, a kind (instants or intervals) and a sequence of     *)
(* events in time.  Times are integers, and a text is the sequence of its   *)
(* words: joining two texts with a space is joining the sequences.  An      *)
(* operator on events yields the events afterwards; indices start at 1, and *)
(* 0 stands for the -1 of the code.                                         *)
(***************************************************************************)
EXTENDS Integers, SequencesExt

CONSTANTS
    Duration,     \* of the recording the annotation is about
    Limit,        \* as far as an anchor can be dragged, past the end of the recording
    Words,
    Labels

ASSUME DurationAssumption == Duration \in Nat \ {0} /\ Limit \in Nat /\ Duration <= Limit

Times == 0..Limit
Event == [start : Times, end : Times, text : Seq(Words)]
Layer == [label : Labels, instants : BOOLEAN, events : Seq(Event)]

\* std::lower_bound: what is left to look through is halved until nothing is.
\* On a layer out of order it ends somewhere, whatever is on both sides.
Halved(before, r) ==
    LET m == (r[1] + r[2]) \div 2
    IN  IF r[1] = r[2] THEN r ELSE IF before[m] THEN <<m + 1, r[2]>> ELSE <<r[1], m>>

LowerBound(before) ==
    LET n == Len(before)
        s[k \in 0..n] == IF k = 0 THEN <<1, n + 1>> ELSE Halved(before, s[k - 1])
    IN  s[n][1]

\* The first event that starts at t or later, or one past the last.
FirstFrom(es, t) == LowerBound([i \in 1..Len(es) |-> es[i].start < t])

\* Layer::lower: the same over the ends.
FirstEnding(es, t) == LowerBound([i \in 1..Len(es) |-> es[i].end < t])

\* find_index on intervals: at a boundary, the event on its left.
FindIndex(es, t) ==
    LET i == FirstEnding(es, t)
    IN  IF i <= Len(es) /\ es[i].start <= t THEN i ELSE 0

AddInstant(es, t) ==
    InsertAt(es, FirstFrom(es, t), [start |-> t, end |-> t, text |-> <<>>])

\* Mutant: the event that is cut keeps its end.
SplitOverlapping(es, k, t) ==
    InsertAt(es, k + 1, [start |-> t, end |-> es[k].end, text |-> <<>>])

\* The event k is cut at t; its text stays on the left.
Split(es, k, t) ==
    InsertAt([es EXCEPT ![k].end = t], k + 1, [start |-> t, end |-> es[k].end, text |-> <<>>])

\* add_anchor throws when no interval can be split at t.
CanAdd(ly, t) ==
    ly.instants \/ LET k == FindIndex(ly.events, t)
                   IN  k > 0 /\ ly.events[k].start # t /\ ly.events[k].end # t

AddAnchor(ly, t) ==
    [ly EXCEPT !.events = IF ly.instants THEN AddInstant(@, t) ELSE Split(@, FindIndex(@, t), t)]

\* What remove_anchor returns.
CanRemove(ly, t) ==
    LET k == FirstFrom(ly.events, t)
    IN  /\ k <= Len(ly.events) /\ ly.events[k].start = t
        /\ ly.instants \/ (k > 1 /\ ly.events[k - 1].end = t)

\* The event k is merged into the one on its left; the texts are joined.
Merge(es, k) ==
    RemoveAt([es EXCEPT ![k - 1] = [start |-> @.start, end |-> es[k].end,
                                    text |-> @.text \o es[k].text]], k)

RemoveAnchor(ly, t) ==
    LET k == FirstFrom(ly.events, t)
    IN  IF ~CanRemove(ly, t) THEN ly
        ELSE [ly EXCEPT !.events = IF ly.instants THEN RemoveAt(@, k) ELSE Merge(@, k)]

\* Moving one bound of event k takes the neighbour's along, on every kind of layer.
MoveStart(es, k, to) ==
    [i \in DOMAIN es |-> IF i = k THEN [es[i] EXCEPT !.start = to]
                         ELSE IF i = k - 1 THEN [es[i] EXCEPT !.end = to] ELSE es[i]]

MoveEnd(es, k, to) ==
    [i \in DOMAIN es |-> IF i = k THEN [es[i] EXCEPT !.end = to]
                         ELSE IF i = k + 1 THEN [es[i] EXCEPT !.start = to] ELSE es[i]]

\* The first event with a bound at t.  A bound at 0 is no anchor.
At(es, t) == {i \in DOMAIN es : (es[i].start = t /\ t # 0) \/ es[i].end = t}

MoveAnchor(ly, from, to) ==
    IF At(ly.events, from) = {} THEN ly
    ELSE LET k == Min(At(ly.events, from))
         IN  [ly EXCEPT !.events = IF @[k].start = from /\ from # 0
                                   THEN MoveStart(@, k, to) ELSE MoveEnd(@, k, to)]

\* The events a widget paints with the whole recording in its window, and finds
\* under the mouse: those before the first that starts at its end.
Painted(es) == {i \in DOMAIN es : \A j \in 1..i : es[j].start < Duration}

\* anchorHasCursor: some pixels around the anchor.
Near(t, cursor, reach) == t - reach <= cursor /\ cursor <= t + reach

\* The anchor that the eraser hits at the cursor, if any: a bound of the event there.
Hit(ly, cursor, reach) ==
    LET es    == ly.events
        under == {i \in Painted(es) : IF ly.instants THEN Near(es[i].start, cursor, reach)
                                       ELSE es[i].start <= cursor /\ cursor <= es[i].end}
        e     == es[Min(under)]
    IN  IF under = {} THEN {}
        ELSE IF Near(e.end, cursor, reach) THEN {e.end}
        ELSE IF e.start # e.end /\ Near(e.start, cursor, reach) THEN {e.start} ELSE {}

RemoveHit(ly, cursor, reach) ==
    IF Hit(ly, cursor, reach) = {} THEN ly
    ELSE RemoveAnchor(ly, CHOOSE t \in Hit(ly, cursor, reach) : TRUE)

\* The mouse grabs the first event with a bound there; an instant has one bound.
Grabbed(es, t) == {i \in Painted(es) : es[i].end = t \/ (es[i].start = t /\ es[i].start # es[i].end)}

\* It is dropped where the button is released, and the neighbour goes along.
Drag(ly, from, to) ==
    LET k == Min(Grabbed(ly.events, from))
    IN  [ly EXCEPT !.events = IF @[k].end = from THEN MoveEnd(@, k, to) ELSE MoveStart(@, k, to)]

EndingAt(es, t) == {i \in DOMAIN es : es[i].end = t}

SetText(ly, k, text) == [ly EXCEPT !.events[k].text = text]

\* doSetEventText by time.
StartingAt(es, t) == {i \in DOMAIN es : es[i].start = t}

SetTextAt(ly, t, text) ==
    IF StartingAt(ly.events, t) = {} THEN ly ELSE SetText(ly, Min(StartingAt(ly.events, t)), text)

\* The texts on both sides of an anchor.
RestoreTexts(ly, t, left, right) ==
    IF EndingAt(ly.events, t) = {} THEN ly
    ELSE LET k == Min(EndingAt(ly.events, t))
         IN  [ly EXCEPT !.events = [i \in DOMAIN @ |->
                 IF i = k THEN [@[i] EXCEPT !.text = left]
                 ELSE IF i = k + 1 /\ @[i].start = t THEN [@[i] EXCEPT !.text = right] ELSE @[i]]]

ClearTexts(ly) == [ly EXCEPT !.events = [i \in DOMAIN @ |-> [@[i] EXCEPT !.text = <<>>]]]

\* A layer is created with one interval over the whole recording, or no instant.
NewLayer(label, instants) ==
    [label |-> label, instants |-> instants,
     events |-> IF instants THEN <<>> ELSE <<[start |-> 0, end |-> Duration, text |-> <<>>]>>]

\* "Sorted by start time"; "for interval layers, start < end", with no gap;
\* "for instant (point) layers, start == end" (annotation_data.hpp:35-36, 74).
Instants(es) ==
    /\ \A i \in DOMAIN es : es[i].start = es[i].end
    /\ \A i, j \in DOMAIN es : i < j => es[i].start < es[j].start

Tiles(es) ==
    /\ es # <<>> /\ es[1].start = 0 /\ es[Len(es)].end = Duration
    /\ \A i \in DOMAIN es : es[i].start < es[i].end
    /\ \A i \in 1..(Len(es) - 1) : es[i].end = es[i + 1].start
    /\ \A i, j \in DOMAIN es : i < j => es[i].start < es[j].start /\ es[i].end < es[j].end

InOrder(ly) == IF ly.instants THEN Instants(ly.events) ELSE Tiles(ly.events)

\* Each interval goes on where the one before it stopped, from the beginning.
Chained(ly) ==
    LET es == ly.events
    IN  ~ly.instants => /\ es # <<>> /\ es[1].start = 0
                        /\ \A i \in 1..(Len(es) - 1) : es[i].end = es[i + 1].start
=============================================================================
