--------------------------- MODULE AnnotationView ---------------------------
(***************************************************************************)
(* An annotation open in a view: the layers, the widgets that show them     *)
(* (gui/layer_widget.cpp, gui/annotation_view.cpp), and the commands that   *)
(* take edits back (gui/annotation_commands.cpp, gui/command.hpp).          *)
(*                                                                          *)
(* An action is one thing the user does, with everything the signals it     *)
(* emits set off: the change of the other layers when anchors are shared,   *)
(* and the command that is recorded.  Every layer is visible, with the      *)
(* whole recording in the window.                                           *)
(*                                                                          *)
(* The behaviours stop where the program would: an index out of range, or   *)
(* an exception that leaves a command or a paint event.  They go on after a *)
(* drag that puts a layer out of order, and after an undo or a redo that    *)
(* was not promised anything; strays counts these.                          *)
(***************************************************************************)
EXTENDS AnnotationLayer, FiniteSets

CONSTANTS
    Texts,        \* what the user types
    Documents,    \* the annotations that may be opened
    MaxStack,     \* CommandProcessor::max_stack_size, 50 in the code
    MaxLayers,
    MaxEdits,     \* bounds the behaviours; undoing and redoing are not counted
    MaxStrays,    \* bounds them too, where undoing may add an anchor each time
    Reaches       \* the time that the pixels around an anchor may stand for

ASSUME ViewAssumption ==
    /\ Texts \subseteq Seq(Words)
    /\ \A d \in Documents : d \in Seq(Layer) /\ \A l \in DOMAIN d : InOrder(d[l])
    /\ MaxStack \in Nat \ {0} /\ MaxLayers \in Nat /\ MaxEdits \in Nat
    /\ MaxStrays \in Nat /\ Reaches \subseteq Nat

VARIABLES
    layers,       \* Annotation::m_layers
    widgets,      \* AnnotationView::m_layers: the layer each shows, m_sharing_anchors
    undo, redo,   \* CommandProcessor, the next command last
    edits,        \* how many edits were made
    past, future, \* ghost: the documents undo and redo have to restore
    strays        \* ghost: how often an anchor was dropped past its neighbours, an instant
                  \* dragged, or a command undone or redone with no such document

vars == <<layers, widgets, undo, redo, edits, past, future, strays>>

astray == strays > 0

Fresh(n) == [v \in 1..n |-> [at |-> v, shares |-> FALSE]]

Init ==
    /\ layers \in Documents
    /\ widgets = Fresh(Len(layers))
    /\ undo = <<>> /\ redo = <<>> /\ edits = 0
    /\ past = <<>> /\ future = <<>> /\ strays = 0

\* Painting a widget whose layer does not exist throws (annotation.cpp:701).
Shown == \A v \in DOMAIN widgets : widgets[v].at <= Len(layers)

-----------------------------------------------------------------------------
(* Commands.                                                                *)

LayerExists(c, ls) == c.l <= Len(ls)

\* Where undo() of the command neither throws nor indexes out of range.
Undoable(c, ls) ==
    CASE c.op = "removeLayer"  -> TRUE
      [] c.op = "removeAnchor" -> LayerExists(c, ls) /\ CanAdd(ls[c.l], c.t)
      [] c.op = "text"         -> LayerExists(c, ls) /\ c.e <= Len(ls[c.l].events)
      [] OTHER                 -> LayerExists(c, ls)

Redoable(c, ls) ==
    CASE c.op = "addLayer"  -> TRUE
      [] c.op = "addAnchor" -> LayerExists(c, ls) /\ CanAdd(ls[c.l], c.t)
      [] c.op = "text"      -> LayerExists(c, ls) /\ c.e <= Len(ls[c.l].events)
      [] OTHER              -> LayerExists(c, ls)

\* Mutant: a layer is put back at the end.
InsertedLast(ls, l, ly) == Append(ls, ly)

\* create_layer: an index past the end appends.
Inserted(ls, l, ly) == IF l > Len(ls) THEN Append(ls, ly) ELSE InsertAt(ls, l, ly)

\* Mutant: the anchor comes back without the texts on both sides.
RestoredBare(c, ly) == AddAnchor(ly, c.t)

Restored(c, ly) ==
    LET added == AddAnchor(ly, c.t)
    IN  IF c.instant THEN SetTextAt(added, c.t, c.left) ELSE RestoreTexts(added, c.t, c.left, c.right)

Undone(c, ls) ==
    CASE c.op = "addLayer"     -> RemoveAt(ls, c.l)
      [] c.op = "removeLayer"  -> Inserted(ls, c.l, NewLayer(c.label, c.instants))
      [] c.op = "addAnchor"    -> [ls EXCEPT ![c.l] = RemoveAnchor(@, c.t)]
      [] c.op = "removeAnchor" -> [ls EXCEPT ![c.l] = Restored(c, @)]
      [] c.op = "move"         -> [ls EXCEPT ![c.l] = MoveAnchor(@, c.to, c.from)]
      [] c.op = "text"         -> [ls EXCEPT ![c.l] = SetText(@, c.e, c.old)]
      [] c.op = "rename"       -> [ls EXCEPT ![c.l].label = c.old]

Redone(c, ls) ==
    CASE c.op = "addLayer"     -> Inserted(ls, c.l, NewLayer(c.label, c.instants))
      [] c.op = "removeLayer"  -> RemoveAt(ls, c.l)
      [] c.op = "addAnchor"    -> [ls EXCEPT ![c.l] = AddAnchor(@, c.t)]
      [] c.op = "removeAnchor" -> [ls EXCEPT ![c.l] = RemoveAnchor(@, c.t)]
      [] c.op = "move"         -> [ls EXCEPT ![c.l] = MoveAnchor(@, c.from, c.to)]
      [] c.op = "text"         -> [ls EXCEPT ![c.l] = SetText(@, c.e, c.new)]
      [] c.op = "rename"       -> [ls EXCEPT ![c.l].label = c.new]

\* RemoveLayerCommand::execute saves what undo() needs each time.
Saved(c, ls) ==
    IF c.op = "removeLayer" THEN [c EXCEPT !.label = ls[c.l].label, !.instants = ls[c.l].instants]
    ELSE c

\* Mutant: the number the dialog shows is taken for an index, or the reverse.
WithWidgetOneOff(ws, l) == Append(ws, [at |-> l - 1, shares |-> FALSE])

\* A new widget goes before the first that shows its layer or a later one; the
\* layers the others show are not renumbered.
WithWidget(ws, l) ==
    LET later == {v \in DOMAIN ws : ws[v].at >= l}
    IN  InsertAt(ws, IF later = {} THEN Len(ws) + 1 ELSE Min(later), [at |-> l, shares |-> FALSE])

WithoutWidget(ws, l) ==
    LET showing == {v \in DOMAIN ws : ws[v].at = l}
    IN  IF showing = {} THEN ws ELSE RemoveAt(ws, Min(showing))

-----------------------------------------------------------------------------
(* What the user does.                                                      *)

Edited == edits < MaxEdits /\ edits' = edits + 1

\* push_undo: the oldest of MaxStack commands makes room.
Pushed(s, x) == Append(IF Len(s) >= MaxStack THEN Tail(s) ELSE s, x)

Strays(stray) == (stray => strays < MaxStrays) /\ strays' = strays + (IF stray THEN 1 ELSE 0)

\* record() and submit().  Undoing c will give the document `before`: all
\* there was, unless c takes back less than was done.  Once astray nothing is
\* promised any more.
Record(c, before, stray) ==
    /\ undo' = Pushed(undo, c)
    /\ redo' = <<>>
    /\ Strays(stray)
    /\ past' = IF astray' THEN <<>> ELSE IF before = layers THEN Pushed(past, layers) ELSE <<before>>
    /\ future' = <<>>

Unrecorded ==
    /\ past' = <<>> /\ future' = <<>>
    /\ UNCHANGED <<undo, redo, strays>>

\* With shared anchors an edit of layer l is repeated, in silence, on the
\* layers of its kind, here once however many widgets show one; only the edit
\* of l is recorded.
Peers(v) ==
    LET l == widgets[v].at
    IN  IF ~widgets[v].shares THEN {}
        ELSE {j \in {widgets[x].at : x \in DOMAIN widgets} \ {l} :
                 layers[j].instants = layers[l].instants}

Bounds(ly, t) == \E i \in DOMAIN ly.events : ly.events[i].start = t \/ ly.events[i].end = t

CanCreate(ly, t) == ~Bounds(ly, t) /\ CanAdd(ly, t)

CreateAnchor(v, t) ==
    LET l == widgets[v].at
    IN  /\ Edited
        /\ CanCreate(layers[l], t)
        /\ layers' = [j \in DOMAIN layers |->
               IF j \in {l} \cup Peers(v) /\ CanCreate(layers[j], t)
               THEN AddAnchor(layers[j], t) ELSE layers[j]]
        /\ Record([op |-> "addAnchor", l |-> l, t |-> t], [layers' EXCEPT ![l] = layers[l]], FALSE)
        /\ UNCHANGED widgets

\* The texts an anchor separates.
LeftText(ly, t) ==
    LET es == ly.events IN es[IF ly.instants THEN Min(StartingAt(es, t)) ELSE Min(EndingAt(es, t))].text

RightText(ly, t) ==
    IF ly.instants THEN <<>> ELSE ly.events[Min(EndingAt(ly.events, t)) + 1].text

\* The eraser hit the anchor at t; on the other layers it hits what is near t.
DeleteAnchor(v, t, reach) ==
    LET l == widgets[v].at
    IN  /\ Edited
        /\ CanRemove(layers[l], t)
        /\ layers' = [j \in DOMAIN layers |->
               IF j = l THEN RemoveAnchor(layers[j], t)
               ELSE IF j \in Peers(v) THEN RemoveHit(layers[j], t, reach) ELSE layers[j]]
        /\ Record([op |-> "removeAnchor", l |-> l, t |-> t, instant |-> layers[l].instants,
                   left |-> LeftText(layers[l], t), right |-> RightText(layers[l], t)],
                  [layers' EXCEPT ![l] = layers[l]], FALSE)
        /\ UNCHANGED widgets

\* Where an anchor may be dropped and leave the layer in order.  Nothing in the
\* code asks for it; and of an instant only one bound is moved.
StaysBetween(ly, from, to) ==
    /\ ~ly.instants
    /\ \A i \in DOMAIN ly.events :
           /\ ly.events[i].end = from => ly.events[i].start < to
           /\ ly.events[i].start = from => to < ly.events[i].end

DragAnchor(v, from, to) ==
    LET l == widgets[v].at
    IN  /\ Edited
        /\ from \notin {0, Duration} /\ Grabbed(layers[l].events, from) # {}
        /\ layers' = [j \in DOMAIN layers |->
               IF j = l THEN Drag(layers[l], from, to)
               ELSE IF j \in Peers(v) THEN MoveAnchor(layers[j], from, to) ELSE layers[j]]
        /\ Record([op |-> "move", l |-> l, from |-> from, to |-> to],
                  [layers' EXCEPT ![l] = layers[l]],
                  \E j \in {l} \cup Peers(v) : ~StaysBetween(layers[j], from, to))
        /\ UNCHANGED widgets

\* The event that was opened; commitEdit looks it up again by its start.
CommitEdit(v, k, text) ==
    LET l == widgets[v].at
        es == layers[l].events
        e  == FirstFrom(es, es[k].start)
    IN  /\ Edited
        /\ text # es[k].text
        /\ e <= Len(es) /\ es[e].start = es[k].start
        /\ layers' = [layers EXCEPT ![l] = SetText(@, e, text)]
        /\ Record([op |-> "text", l |-> l, e |-> e, old |-> es[k].text, new |-> text], layers, FALSE)
        /\ UNCHANGED widgets

CreateLayer(l, label, instants) ==
    LET c == [op |-> "addLayer", l |-> l, label |-> label, instants |-> instants]
    IN  /\ Edited
        /\ Len(layers) < MaxLayers
        /\ layers' = Redone(c, layers)
        /\ widgets' = WithWidget(widgets, l)
        /\ Record(c, layers, FALSE)

\* "Note: this creates an empty layer - event content is not preserved"
\* (annotation_commands.cpp:64).
RemoveLayer(v) ==
    LET l == widgets[v].at
        c == [op |-> "removeLayer", l |-> l, label |-> layers[l].label, instants |-> layers[l].instants]
    IN  /\ Edited
        /\ layers' = Redone(c, layers)
        /\ widgets' = WithoutWidget(widgets, l)
        /\ Record(c, [layers EXCEPT ![l] = NewLayer(c.label, c.instants)], FALSE)

RenameLayer(v, label) ==
    LET l == widgets[v].at
        c == [op |-> "rename", l |-> l, old |-> layers[l].label, new |-> label]
    IN  /\ Edited
        /\ layers' = Redone(c, layers)
        /\ Record(c, layers, FALSE) /\ UNCHANGED widgets

DuplicateLayer(v, l) ==
    /\ Edited
    /\ Len(layers) < MaxLayers
    /\ layers' = Inserted(layers, l, layers[widgets[v].at])
    /\ widgets' = WithWidget(widgets, l)
    /\ Unrecorded

\* The Delete key, and replacing the text that was found.
ReplaceText(l, k, text) ==
    /\ Edited
    /\ text # layers[l].events[k].text
    /\ layers' = [layers EXCEPT ![l] = SetText(@, k, text)]
    /\ Unrecorded /\ UNCHANGED widgets

\* Replacing all on one layer or on all of them.
ReplaceTexts(on, needle, text) ==
    /\ Edited
    /\ layers' = [l \in DOMAIN layers |-> IF l \notin on THEN layers[l]
           ELSE [layers[l] EXCEPT !.events = [k \in DOMAIN @ |->
                    IF @[k].text = needle THEN [@[k] EXCEPT !.text = text] ELSE @[k]]]]
    /\ layers' # layers
    /\ Unrecorded /\ UNCHANGED widgets

ClearLayer(v) ==
    /\ Edited
    /\ layers' = [layers EXCEPT ![widgets[v].at] = ClearTexts(@)]
    /\ Unrecorded /\ UNCHANGED widgets

ToggleSharing(shared) ==
    /\ widgets' = [v \in DOMAIN widgets |-> [widgets[v] EXCEPT !.shares = shared]]
    /\ UNCHANGED <<layers, undo, redo, edits, past, future, strays>>

-----------------------------------------------------------------------------
(* CommandProcessor::undo and redo.                                         *)

\* The document a command has to give is put back, and the one it leaves is
\* the next on the other side.
Behind(from) == IF from = <<>> THEN <<>> ELSE Front(from)
Ahead(from, to) == IF from = <<>> THEN <<>> ELSE Append(to, layers)

UndoLast ==
    /\ undo # <<>>
    /\ LET c == Last(undo)
       IN  /\ Undoable(c, layers)
           /\ layers' = Undone(c, layers)
           /\ widgets' = CASE c.op = "addLayer"    -> WithoutWidget(widgets, c.l)
                           [] c.op = "removeLayer" -> WithWidget(widgets, c.l)
                           [] OTHER                -> widgets
           /\ undo' = Front(undo)
           /\ redo' = Append(redo, c)
    /\ past' = Behind(past)
    /\ future' = Ahead(past, future)
    /\ Strays(past = <<>>)
    /\ UNCHANGED edits

RedoLast ==
    /\ redo # <<>>
    /\ LET c == Last(redo)
       IN  /\ Redoable(c, layers)
           /\ layers' = Redone(c, layers)
           /\ widgets' = CASE c.op = "addLayer"    -> WithWidget(widgets, c.l)
                           [] c.op = "removeLayer" -> WithoutWidget(widgets, c.l)
                           [] OTHER                -> widgets
           /\ redo' = Front(redo)
           /\ undo' = Append(undo, Saved(c, layers))
    /\ future' = Behind(future)
    /\ past' = Ahead(future, past)
    /\ Strays(future = <<>>)
    /\ UNCHANGED edits

Next ==
    /\ Shown
    /\ \/ \E v \in DOMAIN widgets :
              \/ \E t \in 0..Duration : CreateAnchor(v, t)
              \/ \E cursor \in 0..Duration, reach \in Reaches :
                  \E t \in Hit(layers[widgets[v].at], cursor, reach) : DeleteAnchor(v, t, reach)
              \/ \E from, to \in Times : DragAnchor(v, from, to)
              \/ \E k \in Painted(layers[widgets[v].at].events), text \in Texts : CommitEdit(v, k, text)
              \/ RemoveLayer(v)
              \/ \E label \in Labels : RenameLayer(v, label)
              \/ \E l \in 1..(Len(layers) + 1) : DuplicateLayer(v, l)
              \/ ClearLayer(v)
       \/ \E l \in 1..(Len(layers) + 1), label \in Labels, instants \in BOOLEAN :
              CreateLayer(l, label, instants)
       \/ \E l \in DOMAIN layers : \E k \in DOMAIN layers[l].events, text \in Texts :
              ReplaceText(l, k, text)
       \/ \E on \in {DOMAIN layers} \cup {{l} : l \in DOMAIN layers}, needle, text \in Texts :
              ReplaceTexts(on, needle, text)
       \/ \E shared \in BOOLEAN : ToggleSharing(shared)
       \/ UndoLast
       \/ RedoLast

Spec == Init /\ [][Next]_vars

-----------------------------------------------------------------------------
(* Properties.                                                              *)

\* Commands are what the classes of annotation_commands.hpp store.
Command ==
    [op : {"addLayer", "removeLayer"}, l : Nat \ {0}, label : Labels, instants : BOOLEAN]
    \cup [op : {"addAnchor"}, l : Nat \ {0}, t : Times]
    \cup [op : {"removeAnchor"}, l : Nat \ {0}, t : Times, instant : BOOLEAN,
          left : Seq(Words), right : Seq(Words)]
    \cup [op : {"move"}, l : Nat \ {0}, from : Times, to : Times]
    \cup [op : {"text"}, l : Nat \ {0}, e : Nat \ {0}, old : Seq(Words), new : Seq(Words)]
    \cup [op : {"rename"}, l : Nat \ {0}, old : Labels, new : Labels]

\* Type invariant: the document, its widgets, the two stacks and the ghosts.
TypeOK ==
    /\ layers \in Seq(Layer)
    /\ widgets \in Seq([at : Nat \ {0}, shares : BOOLEAN])
    /\ undo \in Seq(Command) /\ redo \in Seq(Command)
    /\ edits \in 0..MaxEdits
    /\ past \in Seq(Seq(Layer)) /\ future \in Seq(Seq(Layer))
    /\ strays \in 0..MaxStrays

\* Whatever is done, undone and redone on a layer and on those that share its
\* anchors, its intervals follow one another without a gap from the beginning.
\* They also are in order, and its instants are, as annotation_data.hpp:35-36
\* and 74 say, until the first edit or undo that goes astray: the mouse may drop
\* an anchor past its neighbour, and moves one bound of an instant only
\* (layer_widget.cpp:1200).
WellFormed ==
    \A l \in DOMAIN layers : Chained(layers[l]) /\ (~astray => InOrder(layers[l]))

\* A command undo or redo is about to run on the document it has to restore
\* finds its layer and its event in place, and can insert its anchor: nothing
\* is out of range and nothing is thrown (annotation_commands.cpp, Array::operator[]).
UndoSafe ==
    /\ past # <<>> => Undoable(Last(undo), layers)
    /\ future # <<>> => Redoable(Last(redo), layers)

History == INSTANCE UndoHistory WITH doc <- layers, Cap <- MaxStack

\* Every undo gives back exactly the document before the edit, and every redo
\* exactly the one after it, through any sequence of both, as deep as the stack
\* (command.hpp), as long as nothing goes astray.  Two commands take back less
\* than was done, and that much is what undo has to give: a layer that was
\* removed comes back empty (annotation_commands.cpp:60), and the layers that
\* share the anchors keep the edit (annotation_view.cpp:1188).
IsHistory == History!Spec

=============================================================================
