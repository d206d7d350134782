---------------------------- MODULE UndoHistory -----------------------------
(***************************************************************************)
(* What undo and redo promise: the document goes back to exactly what it    *)
(* was before each edit, one edit at a time and at most Cap of them, and    *)
(* forward again until something else is edited.                            *)
(*                                                                          *)
(* An edit is a step that is counted; undoing and redoing are not edits, so *)
(* nothing else may put another document in place.  An edit that is not     *)
(* recorded, or that undo takes back only in part, ends the promise about   *)
(* everything before it.  An undo or a redo with no document to go to gives *)
(* whatever it gives, and ends every promise.                               *)
(*                                                                          *)
(* Implemented by AnnotationView.                                           *)
(***************************************************************************)
EXTENDS Integers, SequencesExt

CONSTANT Cap

VARIABLES
    doc,
    edits,        \* how many edits were made
    past,         \* the documents undo goes back to, the nearest last
    future        \* the documents redo goes forward to, the nearest last

Init == edits = 0 /\ past = <<>> /\ future = <<>>

Edit ==
    /\ edits' = edits + 1
    /\ past' = Append(IF Len(past) >= Cap THEN Tail(past) ELSE past, doc)
    /\ future' = <<>>

Forget ==
    /\ edits' = edits + 1
    /\ Len(past') <= 1 /\ future' = <<>>

Undo ==
    /\ past # <<>>
    /\ doc' = Last(past)
    /\ past' = Front(past)
    /\ future' = Append(future, doc)
    /\ UNCHANGED edits

Redo ==
    /\ future # <<>>
    /\ doc' = Last(future)
    /\ future' = Front(future)
    /\ past' = Append(past, doc)
    /\ UNCHANGED edits

Unpromised ==
    /\ past = <<>> \/ future = <<>>
    /\ past' = <<>> /\ future' = <<>>
    /\ UNCHANGED edits

Next == Edit \/ Forget \/ Undo \/ Redo \/ Unpromised

Spec == Init /\ [][Next]_<<doc, edits, past, future>>
=============================================================================
