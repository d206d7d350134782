-------------------------------- MODULE Fifo --------------------------------
(***************************************************************************)
(* What the queues of the program promise: a bounded first-in first-out     *)
(* queue that neither loses, repeats, invents nor reorders an item.         *)
(*                                                                          *)
(* Implemented by SpscQueue (the recorder's rings) and by Channel.          *)
(***************************************************************************)
EXTENDS Integers, Sequences

CONSTANTS Items, Bound     \* Bound = 0: unbounded

VARIABLES queue, taken     \* what is in the queue, and all that was taken from it

Init == queue = <<>> /\ taken = <<>>

Put(x) ==
    /\ Bound = 0 \/ Len(queue) < Bound
    /\ queue' = Append(queue, x)
    /\ UNCHANGED taken

Take ==
    /\ queue # <<>>
    /\ taken' = Append(taken, Head(queue))
    /\ queue' = Tail(queue)

Next == Take \/ \E x \in Items : Put(x)

Spec == Init /\ [][Next]_<<queue, taken>>
=============================================================================
