---------------------------- MODULE MCSpscQueue -----------------------------
(* Instance of SpscQueue for TLC: a ring of four slots and enough pushes     *)
(* that both indices wrap around.                                            *)
EXTENDS SpscQueue

CONSTANTS x1, x2
=============================================================================
