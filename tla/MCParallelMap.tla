--------------------------- MODULE MCParallelMap ----------------------------
(* A list that is passed twice over the chunks, a frozen string that all of *)
(* them share, a reference in the middle; up to three threads.              *)
EXTENDS ParallelMap

CONSTANTS l, s, h, k

number == <<"number", 0>>

MCLists == { <<>>, <<l>>, <<l, l, s>>, <<l, s, number, l>>, <<s, l, h>> }
=============================================================================
